---------------------------- MODULE UploadTests ----------------------------
(***************************************************************************)
(* The pure part of PUT /uploadTests: TUploadTestsHandler::Parse, which    *)
(* decides from the names of the multipart parts how many tests a request  *)
(* carries, and SplitIntoBatches, which groups the tests by size.          *)
(*                                                                         *)
(* A test is known by its number and its size (bytes of input + bytes of   *)
(* output); a part by its name.                                            *)
(***************************************************************************)
EXTENDS Naturals, Sequences

TaskDataPart == <<0, "taskData.json">>
TestPart(id, type) == <<id, type>>

HasPart(req, part) == \E p \in DOMAIN req.parts : req.parts[p] = part

(* taskData.json is the odd part. *)
TestCount(req) == Len(req.parts) \div 2

(***************************************************************************)
(* ParseJSON: a text is either discarded, or data with some fields; a text *)
(* that is JSON but no object contains no field.                           *)
(***************************************************************************)
FindMissingJSONFields(expectedFields, data) == expectedFields \ DOMAIN data.fields
ParseJSONFails(text, expectedFields) ==
    text.discarded \/ FindMissingJSONFields(expectedFields, text) # {}

(* mutant of Parse: the outputs are not looked up *)
ParseInputsOnly(req) ==
    CASE ~HasPart(req, TaskDataPart) -> 400
      [] HasPart(req, TaskDataPart) /\ ParseJSONFails(req.json, {"taskId"}) -> 400
      [] OTHER ->
           IF \A id \in 1..TestCount(req) : HasPart(req, TestPart(id, "input"))
             THEN IF req.json.fields["taskId"] = "number" THEN 200 ELSE 500
             ELSE 400

(***************************************************************************)
(* Parse: the status the request is answered with, 200 standing for "go    *)
(* on".  json is what taskData.json holds.  When taskId is no number, the  *)
(* conversion, the last line of Parse, throws and crow answers 500.        *)
(***************************************************************************)
Parse(req) ==
    CASE ~HasPart(req, TaskDataPart) -> 400
      [] HasPart(req, TaskDataPart) /\ ParseJSONFails(req.json, {"taskId"}) -> 400
      [] OTHER ->
           IF \A id \in 1..TestCount(req), type \in {"input", "output"} :
                 HasPart(req, TestPart(id, type))
             THEN IF req.json.fields["taskId"] = "number" THEN 200 ELSE 500
             ELSE 400

----------------------------------------------------------------------------
(* front() and back() of one batch, the two ids GetTaskBatch works from.   *)
FrontId(batch) == batch[1]
BackId(batch) == batch[Len(batch)]

Larger(a, b) == IF a >= b THEN a ELSE b

(* mutant: the limit is checked before the test is counted in *)
FitsSoFar(accumSize, testSize, batchSize) == accumSize <= batchSize

(* Whether a test still fits into the batch being filled. *)
Fits(accumSize, testSize, batchSize) == accumSize + testSize <= batchSize

(* mutant: accumSize = 0 is forgotten when a batch is opened *)
AccumKept(accumSize, testSize, batchSize) == accumSize + testSize

(* accumSize after the test is placed: a test that does not fit starts it anew. *)
Accum(accumSize, testSize, batchSize) ==
    IF Fits(accumSize, testSize, batchSize) THEN accumSize + testSize ELSE testSize

(* mutant: the id is the loop index, which starts at 0 *)
PutTestFromZero(batches, id, fits) ==
    IF fits THEN [batches EXCEPT ![Len(batches)] = Append(@, id - 1)]
            ELSE Append(batches, <<id - 1>>)

(***************************************************************************)
(* batches after one iteration of the second loop of SplitIntoBatches: the *)
(* test goes to the last batch, which is a new one when it does not fit.   *)
(***************************************************************************)
PutTest(batches, id, fits) ==
    IF fits THEN [batches EXCEPT ![Len(batches)] = Append(@, id)]
            ELSE Append(batches, <<id>>)

(* The first loop of SplitIntoBatches: batchSize after the first n tests, raised to the largest. *)
RaisedBatchSize(size, batchSize) ==
    LET raised[n \in 0..Len(size)] ==
          IF n = 0 THEN batchSize ELSE Larger(raised[n - 1], size[n])
    IN raised

(* The second loop: accumSize and batches after the first n tests were placed. *)
PlacedTests(size, limit) ==
    LET placed[n \in 0..Len(size)] ==
          IF n = 0 THEN [accumSize |-> 0, batches |-> << <<>> >>]
          ELSE LET s == placed[n - 1]
               IN [accumSize |-> Accum(s.accumSize, size[n], limit),
                   batches |-> PutTest(s.batches, n, Fits(s.accumSize, size[n], limit))]
    IN placed

(* SplitIntoBatches on the sizes of the tests, one loop after the other. *)
SplitIntoBatches(size, batchSize) ==
    PlacedTests(size, RaisedBatchSize(size, batchSize)[Len(size)])[Len(size)].batches

(* A batch of consecutive ids, which its front() and back() determine. *)
IsRun(batch) ==
    /\ Len(batch) > 0
    /\ \A j \in 1..Len(batch) : batch[j] = FrontId(batch) + (j - 1)

(***************************************************************************)
(* What GetTaskBatch and TTestingProcessor::Test rely on: the batches hold *)
(* 1..n in order, each a run, none of them empty unless there is no test.  *)
(***************************************************************************)
CoversInOrder(batches, n) ==
    /\ n = 0 => batches = << <<>> >>
    /\ n > 0 =>
         /\ Len(batches) > 0
         /\ \A b \in 1..Len(batches) : IsRun(batches[b])
         /\ FrontId(batches[1]) = 1
         /\ \A b \in 1..Len(batches) - 1 :
              FrontId(batches[b + 1]) = BackId(batches[b]) + 1
         /\ BackId(batches[Len(batches)]) = n
=============================================================================
