--------------------------- MODULE UploadRequest ---------------------------
(***************************************************************************)
(* The handler object of one PUT /uploadTests: the part of                 *)
(* TUploadTestsHandler::Handle that comes before any storage access.  The  *)
(* request is parsed and, if it is accepted, its tests are split.          *)
(***************************************************************************)
EXTENDS BatchLoop

CONSTANT Requests   \* requests a client may send: [parts, json, sizes], sizes of the tests

(* What taskData.json may hold: no JSON, or fields that are numbers or not. *)
JSONTexts ==
    [discarded : {TRUE}, fields : {<<>>}]
    \cup [discarded : {FALSE},
          fields : UNION {[names -> {"number", "other"}] : names \in SUBSET {"taskId", "name"}}]

ASSUME RequestsAssumption ==
    \A r \in Requests : /\ r.parts \in Seq(Nat \X STRING) /\ r.json \in JSONTexts
                        /\ r.sizes \in Inputs /\ Len(r.sizes) = TestCount(r)

VARIABLES
    req,      \* the request at hand
    status    \* what Parse said of it, 0 while it has not run

handlerVars == <<req, status, vars>>

HandleInit == req \in Requests /\ status = 0 /\ size = req.sizes /\ Init

HandleParse ==
    /\ status = 0
    /\ status' = Parse(req)
    /\ UNCHANGED <<req, vars>>

HandleSplit ==
    /\ status = 200
    /\ Next
    /\ UNCHANGED <<req, status>>

HandleNext == HandleParse \/ HandleSplit

(* The two loops end, being bounded by the request; no property is about that. *)
HandleSpec == HandleInit /\ [][HandleNext]_handlerVars

----------------------------------------------------------------------------
ExpectedParts(n) ==
    {TaskDataPart} \cup {TestPart(id, type) : id \in 1..n, type \in {"input", "output"}}

(* taskData.json and both files of n tests, each once, in any order. *)
IsUploadOf(n) ==
    /\ Len(req.parts) = 2 * n + 1
    /\ {req.parts[p] : p \in DOMAIN req.parts} = ExpectedParts(n)

(***************************************************************************)
(* Parse takes the number of tests from the number of parts alone and only *)
(* asks for the parts of tests 1.._.  That is enough: it accepts exactly   *)
(* the requests that consist of taskData.json with a numeric taskId and of *)
(* both files of every test, each once, in any order and with no other.    *)
(***************************************************************************)
AcceptedIsExact ==
    status # 0 =>
        (status = 200 <=> /\ \E n \in 0..Len(req.parts) : IsUploadOf(n)
                          /\ "taskId" \in DOMAIN req.json.fields
                          /\ req.json.fields["taskId"] = "number")
=============================================================================
