--------------------------- MODULE TabascoStorage ---------------------------
(***************************************************************************)
(* The task batcher and storage coordinator (tabasco): the HTTP server's   *)
(* workers write the tests and the batches of a task to MongoDB, the gRPC  *)
(* server reads them back for the testing processors.  The two are         *)
(* processes of their own that share nothing but the database.             *)
(*                                                                         *)
(* The content of a test is the number of the upload it came with; the     *)
(* content of a build is left out, a submission only needs it to exist.    *)
(***************************************************************************)
EXTENDS UploadTests, FiniteSets

CONSTANTS
    Workers,     \* threads of the HTTP server
    Sessions,    \* submissions being tested: one GetScripts, then its GetBatch calls
    Tasks,
    BuildIds,
    Requests,    \* accepted uploads, each the list of its tests' sizes
    BatchSize,
    MaxTests,    \* bound: tests of one upload
    MaxUploads   \* bound: uploads in a behaviour

ASSUME RequestsAssumption == Requests \subseteq Seq(Nat) /\ \A r \in Requests : Len(r) <= MaxTests
ASSUME BatchSizeAssumption == BatchSize \in Nat
ASSUME BoundsAssumption == MaxTests \in Nat /\ MaxUploads \in Nat

TestTypes == {"input", "output"}
TestIds == 1..MaxTests

VARIABLES
    testDocs,   \* taskTests: contents of the documents with a key, oldest first
    taskMeta,   \* taskMeta: the batches and the upload they belong to, 0 if absent
    builds,     \* builds: the stored ids
    uploads,    \* history: [task, req, status, solo] of every upload, oldest first
    http,       \* the upload a worker handles: [pc, up, step]
    session     \* what a testing processor has asked for and been told

vars == <<testDocs, taskMeta, builds, uploads, http, session>>

Key(t, id, type) == [task |-> t, id |-> id, type |-> type]
Keys == [task : Tasks, id : TestIds, type : TestTypes]

Idle == [pc |-> "idle", up |-> 0, step |-> 0]
NoCells == [type \in TestTypes |-> [id \in TestIds |-> 0]]
NewSession == [pc |-> "idle", task |-> CHOOSE t \in Tasks : TRUE,
               batchCount |-> 0, batchId |-> 0, front |-> 1, back |-> 0,
               due |-> {}, seen |-> {}, cells |-> NoCells, served |-> <<>>,
               calm |-> TRUE, solo |-> TRUE, base |-> 0, torn |-> FALSE]

Init ==
    /\ testDocs = [key \in Keys |-> <<>>]
    /\ taskMeta = [t \in Tasks |-> [up |-> 0, batches |-> <<>>]]
    /\ builds = {}
    /\ uploads = <<>>
    /\ http = [w \in Workers |-> Idle]
    /\ session = [s \in Sessions |-> NewSession]

UploadsOf(t) == {u \in DOMAIN uploads : uploads[u].task = t}
Running(t) == {u \in UploadsOf(t) : uploads[u].status = "running"}
TestsOf(u) == Len(uploads[u].req)

----------------------------------------------------------------------------
(* PUT /uploadTests after Parse, by worker w. *)

InCall(s) == session[s].pc \in {"ready", "cursor"}

(***************************************************************************)
(* The handler has parsed the request and split it; nothing is stored yet. *)
(***************************************************************************)
BeginUpload(w) ==
    /\ http[w].pc = "idle" /\ Len(uploads) < MaxUploads
    /\ \E t \in Tasks, r \in Requests :
         /\ uploads' = Append([u \in DOMAIN uploads |->
                                 IF u \in Running(t) THEN [uploads[u] EXCEPT !.solo = FALSE]
                                                     ELSE uploads[u]],
                              [task |-> t, req |-> r, status |-> "running",
                               solo |-> Running(t) = {}])
         /\ session' = [s \in Sessions |->
                          IF InCall(s) /\ session[s].task = t
                            THEN [session[s] EXCEPT !.calm = FALSE] ELSE session[s]]
         /\ http' = [http EXCEPT ![w] = [pc |-> IF Len(r) = 0 THEN "meta" ELSE "tests",
                                         up |-> Len(uploads) + 1, step |-> 1]]
    /\ UNCHANGED <<testDocs, taskMeta, builds>>

(* The filter of the update at a step of UpsertTaskTests: all inputs, then all outputs. *)
KeyAt(u, step) ==
    IF step <= TestsOf(u) THEN Key(uploads[u].task, step, "input")
                          ELSE Key(uploads[u].task, step - TestsOf(u), "output")

CurrentKey(w) == KeyAt(http[w].up, http[w].step)

Finish(w, status) ==
    /\ uploads' = [uploads EXCEPT ![http[w].up].status = status]
    /\ http' = [http EXCEPT ![w] = Idle]

(* mutant: the metadata is written after the inputs *)
NextUpdateAfterInputs(w) ==
    /\ http' = [http EXCEPT ![w].pc = IF http[w].step >= TestsOf(http[w].up) THEN "meta" ELSE "tests",
                            ![w].step = http[w].step + 1]
    /\ UNCHANGED uploads

(* mutant: the loops run once too often *)
NextUpdatePastEnd(w) ==
    /\ http' = [http EXCEPT ![w].pc = IF http[w].step > 2 * TestsOf(http[w].up) THEN "meta" ELSE "tests",
                            ![w].step = http[w].step + 1]
    /\ UNCHANGED uploads

(* The update at hand was acknowledged: on to the next one, or to UpsertTaskMetaData. *)
NextUpdate(w) ==
    /\ http' = [http EXCEPT ![w] =
         [pc |-> IF http[w].step = 2 * TestsOf(http[w].up) THEN "meta" ELSE "tests",
          up |-> http[w].up, step |-> http[w].step + 1]]
    /\ UNCHANGED uploads

(* mutant: $setOnInsert for $set *)
UpdateKeepsContent(w) ==
    /\ http[w].pc = "tests"
    /\ testDocs[CurrentKey(w)] # <<>>
    /\ NextUpdate(w) \/ Finish(w, "400")
    /\ UNCHANGED <<testDocs, taskMeta, builds, session>>

(***************************************************************************)
(* update_one with upsert: the database updates one document that matches, *)
(* and if there is none inserts one in a second step.  Nothing makes the   *)
(* three fields of the filter unique, so two such inserts may both happen. *)
(* The update may be applied and its answer be lost: the driver throws and *)
(* the handler returns 400.                                                *)
(***************************************************************************)
UpdateTest(w) ==
    /\ http[w].pc = "tests"
    /\ \E k \in DOMAIN testDocs[CurrentKey(w)] :
         testDocs' = [testDocs EXCEPT ![CurrentKey(w)][k] = http[w].up]
    /\ NextUpdate(w) \/ Finish(w, "400")
    /\ UNCHANGED <<taskMeta, builds, session>>

NoTestMatches(w) ==
    /\ http[w].pc = "tests" /\ testDocs[CurrentKey(w)] = <<>>
    /\ http' = [http EXCEPT ![w].pc = "insert"]
    /\ UNCHANGED <<testDocs, taskMeta, builds, uploads, session>>

(* mutant: every upload inserts its documents *)
InsertAlways(w) ==
    /\ http[w].pc \in {"tests", "insert"}
    /\ testDocs' = [testDocs EXCEPT ![CurrentKey(w)] = Append(@, http[w].up)]
    /\ NextUpdate(w) \/ Finish(w, "400")
    /\ UNCHANGED <<taskMeta, builds, session>>

InsertTest(w) ==
    /\ http[w].pc = "insert"
    /\ testDocs' = [testDocs EXCEPT ![CurrentKey(w)] = Append(@, http[w].up)]
    /\ NextUpdate(w) \/ Finish(w, "400")
    /\ UNCHANGED <<taskMeta, builds, session>>

(* UpsertTaskMetaData: _id is unique, the update is one step. *)
UpsertTaskMetaData(w) ==
    /\ http[w].pc = "meta"
    /\ taskMeta' = [taskMeta EXCEPT ![uploads[http[w].up].task] =
                      [up |-> http[w].up,
                       batches |-> SplitIntoBatches(uploads[http[w].up].req, BatchSize)]]
    /\ Finish(w, "200") \/ Finish(w, "400")
    /\ UNCHANGED <<testDocs, builds, session>>

(* Any database call may throw without effect; the handler answers 400 and keeps what it wrote. *)
StorageError(w) ==
    /\ http[w].pc # "idle"
    /\ Finish(w, "400")
    /\ UNCHANGED <<testDocs, taskMeta, builds, session>>

(***************************************************************************)
(* The HTTP server dies, all its workers with it, and is started again.    *)
(* The workers share one mongocxx::client, which is not safe for threads.  *)
(* Of what that race may do the death of the process is modelled here and  *)
(* a call that fails in StorageError; a call that seems to succeed and did *)
(* something else is left out.                                             *)
(***************************************************************************)
HttpCrash ==
    /\ \E w \in Workers : http[w].pc # "idle"
    /\ uploads' = [u \in DOMAIN uploads |->
                     IF uploads[u].status = "running" THEN [uploads[u] EXCEPT !.status = "lost"]
                                                      ELSE uploads[u]]
    /\ http' = [w \in Workers |-> Idle]
    /\ UNCHANGED <<testDocs, taskMeta, builds, session>>

(* PUT /uploadBuild: _id is unique, the update is one step. *)
UpsertBuild ==
    /\ \E b \in BuildIds \ builds : builds' = builds \cup {b}
    /\ UNCHANGED <<testDocs, taskMeta, uploads, http, session>>

----------------------------------------------------------------------------
(* The gRPC calls of session s. *)

(* The caller learns nothing but that the call failed. *)
Fails(s) == session' = [session EXCEPT ![s] = [NewSession EXCEPT !.pc = "failed"]]

(* history: the last upload of t that was answered 200 *)
LastAccepted(t) ==
    LET accepted == {u \in UploadsOf(t) : uploads[u].status = "200"}
    IN IF accepted = {} THEN 0 ELSE CHOOSE u \in accepted : \A v \in accepted : v <= u

(* GetBuild, then GetTaskMetaData: how many batches there are. *)
GetScripts(s) ==
    /\ session[s].pc = "idle"
    /\ \E b \in BuildIds, t \in Tasks :
         IF b \in builds /\ taskMeta[t].up # 0
           THEN session' = [session EXCEPT ![s] =
                  [@ EXCEPT !.pc = "ready", !.task = t, !.batchCount = Len(taskMeta[t].batches),
                            !.calm = (Running(t) = {}),
                            !.solo = \A u \in UploadsOf(t) : uploads[u].solo,
                            !.base = LastAccepted(t),
                            !.torn = \E u \in UploadsOf(t) : u > LastAccepted(t)]]
           ELSE Fails(s)
    /\ UNCHANGED <<testDocs, taskMeta, builds, uploads, http>>

Batches(s) == taskMeta[session[s].task].batches
BatchDefined(s) == /\ session[s].batchId < Len(Batches(s))
                   /\ Len(Batches(s)[session[s].batchId + 1]) > 0

(* The documents the query of GetTaskBatch matches, by key and age. *)
DocsBetween(t, front, back) ==
    {p \in Keys \X (1..MaxUploads) :
        /\ p[1].task = t /\ front <= p[1].id /\ p[1].id <= back
        /\ p[2] <= Len(testDocs[p[1]])}

(***************************************************************************)
(* GetTaskBatch: the metadata is read again and a cursor opened.  due are  *)
(* the documents the cursor is bound to deliver.                           *)
(***************************************************************************)
OpenBatch(s) ==
    /\ session[s].pc = "ready" /\ BatchDefined(s)
    /\ LET batch == Batches(s)[session[s].batchId + 1]
       IN session' = [session EXCEPT ![s] =
            [@ EXCEPT !.pc = "cursor", !.front = FrontId(batch), !.back = BackId(batch),
                      !.due = DocsBetween(session[s].task, FrontId(batch), BackId(batch)),
                      !.seen = {}, !.cells = NoCells]]
    /\ UNCHANGED <<testDocs, taskMeta, builds, uploads, http>>

(***************************************************************************)
(* batches[batchId] past the end, or front() of an empty batch: undefined  *)
(* behaviour.  The reply is arbitrary or the server dies, and with it the  *)
(* calls of the other sessions.                                            *)
(***************************************************************************)
OpenUndefinedBatch(s) ==
    /\ session[s].pc = "ready" /\ ~BatchDefined(s)
    /\ \E died \in BOOLEAN :
         session' = [x \in Sessions |->
                       CASE x = s -> [session[x] EXCEPT !.pc = "undefined"]
                         [] x # s /\ died /\ session[x].pc = "cursor" ->
                              [NewSession EXCEPT !.pc = "failed"]
                         [] OTHER -> session[x]]
    /\ UNCHANGED <<testDocs, taskMeta, builds, uploads, http>>

(***************************************************************************)
(* The cursor delivers a document: as it is now, in no particular order,   *)
(* possibly one that was inserted after the cursor was opened.             *)
(***************************************************************************)
ReadDoc(s) ==
    /\ session[s].pc = "cursor"
    /\ \E p \in DocsBetween(session[s].task, session[s].front, session[s].back) \ session[s].seen :
         session' = [session EXCEPT
                       ![s].cells[p[1].type][p[1].id] = testDocs[p[1]][p[2]],
                       ![s].seen = @ \cup {p}]
    /\ UNCHANGED <<testDocs, taskMeta, builds, uploads, http>>

(* mutant: batchTestCount without the + 1 *)
ReplyShort(s) == [k \in 1..(session[s].back - session[s].front) |->
                    <<session[s].cells["input"][session[s].front + k - 1],
                      session[s].cells["output"][session[s].front + k - 1]>>]

(* The pairs of strings GetBatch answers with. *)
Reply(s) == [k \in 1..(session[s].back + 1 - session[s].front) |->
               <<session[s].cells["input"][session[s].front + k - 1],
                 session[s].cells["output"][session[s].front + k - 1]>>]

(* mutant: the cursor is left as soon as it has nothing ready *)
CloseBatchEarly(s) ==
    /\ session[s].pc = "cursor"
    /\ session' = [session EXCEPT ![s] =
         [@ EXCEPT !.served = session[s].served \o Reply(s), !.batchId = session[s].batchId + 1,
                   !.front = 1, !.back = 0, !.due = {}, !.seen = {}, !.cells = NoCells,
                   !.pc = IF session[s].batchId + 1 = session[s].batchCount THEN "done" ELSE "ready"]]
    /\ UNCHANGED <<testDocs, taskMeta, builds, uploads, http>>

(* mutant: batchIndex <= request.batchCount in TTestingProcessor::Test *)
CloseBatchInclusive(s) ==
    /\ session[s].pc = "cursor" /\ session[s].due \subseteq session[s].seen
    /\ session' = [session EXCEPT ![s] =
         [@ EXCEPT !.served = session[s].served \o Reply(s), !.batchId = session[s].batchId + 1,
                   !.front = 1, !.back = 0, !.due = {}, !.seen = {}, !.cells = NoCells,
                   !.pc = IF session[s].batchId = session[s].batchCount THEN "done" ELSE "ready"]]
    /\ UNCHANGED <<testDocs, taskMeta, builds, uploads, http>>

(* The reply is complete; TTestingProcessor::Test asks for the next batch, if there is one. *)
CloseBatch(s) ==
    /\ session[s].pc = "cursor" /\ session[s].due \subseteq session[s].seen
    /\ session' = [session EXCEPT ![s] =
         [@ EXCEPT !.served = session[s].served \o Reply(s), !.batchId = session[s].batchId + 1,
                   !.front = 1, !.back = 0, !.due = {}, !.seen = {}, !.cells = NoCells,
                   !.pc = IF session[s].batchId + 1 = session[s].batchCount THEN "done" ELSE "ready"]]
    /\ UNCHANGED <<testDocs, taskMeta, builds, uploads, http>>

(* A call fails: the database throws or the connection to the server is lost. *)
CallFails(s) ==
    /\ session[s].pc \in {"idle", "ready", "cursor"}
    /\ Fails(s)
    /\ UNCHANGED <<testDocs, taskMeta, builds, uploads, http>>

----------------------------------------------------------------------------
HttpStep(w) ==
    \/ BeginUpload(w) \/ UpdateTest(w) \/ NoTestMatches(w) \/ InsertTest(w)
    \/ UpsertTaskMetaData(w) \/ StorageError(w)

GrpcStep(s) ==
    \/ GetScripts(s) \/ OpenBatch(s) \/ OpenUndefinedBatch(s) \/ ReadDoc(s)
    \/ CloseBatch(s) \/ CallFails(s)

Next == (\E w \in Workers : HttpStep(w)) \/ HttpCrash \/ UpsertBuild \/ (\E s \in Sessions : GrpcStep(s))

Spec == Init /\ [][Next]_vars

----------------------------------------------------------------------------
(***************************************************************************)
(* Type correctness of the database, the HTTP server and the history; the  *)
(* last conjunct keeps the loops of UpsertTaskTests inside their vectors.  *)
(***************************************************************************)
TypeOK ==
    /\ testDocs \in [Keys -> Seq(1..MaxUploads)]
    /\ taskMeta \in [Tasks -> [up : 0..MaxUploads,
                               batches : {SplitIntoBatches(r, BatchSize) : r \in Requests} \cup {<<>>}]]
    /\ builds \subseteq BuildIds
    /\ uploads \in Seq([task : Tasks, req : Requests, solo : BOOLEAN,
                        status : {"running", "200", "400", "lost"}])
    /\ Len(uploads) <= MaxUploads
    /\ http \in [Workers -> [pc : {"idle", "tests", "insert", "meta"},
                             up : 0..MaxUploads, step : Nat]]
    /\ \A w \in Workers : http[w].pc # "idle" =>
          /\ http[w].up \in 1..Len(uploads)
          /\ http[w].pc # "meta" => http[w].step \in 1..(2 * TestsOf(http[w].up))

(***************************************************************************)
(* Every test id of every stored batch has an input and an output          *)
(* document, whichever uploads failed, were lost or overlapped: the tests  *)
(* are written before the metadata that refers to them, and never removed. *)
(***************************************************************************)
MetaCovered ==
    \A t \in Tasks : taskMeta[t].up # 0 =>
        \A b \in 1..Len(taskMeta[t].batches) :
            Len(taskMeta[t].batches[b]) > 0 =>
                \A id \in FrontId(taskMeta[t].batches[b])..BackId(taskMeta[t].batches[b]),
                   type \in TestTypes : testDocs[Key(t, id, type)] # <<>>

(***************************************************************************)
(* GetBatch never answers with a test nobody uploaded: inputTests and      *)
(* outputTests are resized to empty strings, and each of them is filled in.*)
(***************************************************************************)
NoBlankTests ==
    \A s \in Sessions : \A k \in 1..Len(session[s].served) :
        session[s].served[k][1] # 0 /\ session[s].served[k][2] # 0

(***************************************************************************)
(* A submission tested while nobody uploads tests of its task, and whose   *)
(* earlier uploads were made one at a time, gets exactly the tests of the  *)
(* last accepted upload, if no later one broke off.                        *)
(***************************************************************************)
AcceptedIsServed ==
    \A s \in Sessions :
        LET x == session[s]
        IN x.pc = "done" /\ x.calm /\ x.solo /\ ~x.torn =>
             x.served = [k \in 1..TestsOf(x.base) |-> <<x.base, x.base>>]

(* Uploads of a task made one at a time never leave two documents for one test. *)
NoDuplicateDocs ==
    \A t \in Tasks : (\A u \in UploadsOf(t) : uploads[u].solo) =>
        \A id \in TestIds, type \in TestTypes : Len(testDocs[Key(t, id, type)]) <= 1

(***************************************************************************)
(* The batches GetScripts announced may be asked for: no GetBatch          *)
(* of a session without a concurrent upload reads past the batches, as     *)
(* long as no upload of the task was empty.                                *)
(***************************************************************************)
AnnouncedIsDefined ==
    \A s \in Sessions :
        /\ session[s].calm
        /\ \A u \in UploadsOf(session[s].task) : TestsOf(u) > 0
        => session[s].pc # "undefined"

(***************************************************************************)
(* The same without the last condition: a batch GetScripts announced holds *)
(* a test (test_sample.py asks for len(response.input) > 0).               *)
(***************************************************************************)
AnnouncedHoldsTests ==
    \A s \in Sessions : session[s].calm => session[s].pc # "undefined"
=============================================================================
