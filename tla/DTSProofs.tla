----------------------------- MODULE DTSProofs -----------------------------
(***************************************************************************)
(* Proofs about tabasco and a testing processor together, from the proofs  *)
(* about each.  A step of the whole is a step of each part or leaves it    *)
(* alone, so that the invariants of the parts hold of the whole; what is   *)
(* left to prove is the link between them, LinkInv.                        *)
(***************************************************************************)
EXTENDS DTS, SequenceTheorems, TLAPS

S == INSTANCE TabascoStorageProofs
P == INSTANCE TestRunProofs WITH MaxBatches <- MaxTests, MaxBatchTests <- MaxTests

----------------------------------------------------------------------------
LEMMA AnswersFacts == "wrong" \notin Answers
<1>1. "" # "wrong"
  OBVIOUS
<1> QED
  BY <1>1, UploadNamesAssumption DEF Answers

(* The actions of DTS's instances are those the two parts' proofs are about. *)
LEMMA SameWrites ==
    ASSUME NEW w
    PROVE  /\ Storage!BeginUpload(w) = S!BeginUpload(w)
           /\ Storage!NoTestMatches(w) = S!NoTestMatches(w)
           /\ Storage!UpdateTest(w) = S!UpdateTest(w)
           /\ Storage!InsertTest(w) = S!InsertTest(w)
           /\ Storage!UpsertTaskMetaData(w) = S!UpsertTaskMetaData(w)
           /\ Storage!StorageError(w) = S!StorageError(w)
<1>1. Storage!BeginUpload(w) = S!BeginUpload(w)
  BY DEF Storage!BeginUpload, S!BeginUpload, Storage!Running, S!Running, Storage!UploadsOf,
         S!UploadsOf, Storage!InCall, S!InCall
<1>2. Storage!NoTestMatches(w) = S!NoTestMatches(w) /\ Storage!UpdateTest(w) = S!UpdateTest(w)
      /\ Storage!InsertTest(w) = S!InsertTest(w) /\ Storage!StorageError(w) = S!StorageError(w)
  BY DEF Storage!NoTestMatches, S!NoTestMatches, Storage!UpdateTest, S!UpdateTest,
         Storage!InsertTest, S!InsertTest, Storage!StorageError, S!StorageError, Storage!CurrentKey,
         S!CurrentKey, Storage!KeyAt, S!KeyAt, Storage!Key, S!Key, Storage!TestsOf, S!TestsOf,
         Storage!NextUpdate, S!NextUpdate, Storage!Finish, S!Finish, Storage!Idle, S!Idle
<1>3. Storage!UpsertTaskMetaData(w) = S!UpsertTaskMetaData(w)
  BY DEF Storage!UpsertTaskMetaData, S!UpsertTaskMetaData, Storage!Finish, S!Finish, Storage!Idle,
         S!Idle, Storage!SplitIntoBatches, S!SplitIntoBatches, Storage!RaisedBatchSize,
         S!RaisedBatchSize, Storage!PlacedTests, S!PlacedTests, Storage!Larger, S!Larger,
         Storage!Accum, S!Accum, Storage!Fits, S!Fits, Storage!PutTest, S!PutTest
<1> QED
  BY <1>1, <1>2, <1>3

LEMMA SameOthers == Storage!HttpCrash = S!HttpCrash /\ Storage!UpsertBuild = S!UpsertBuild
  BY DEF Storage!HttpCrash, S!HttpCrash, Storage!UpsertBuild, S!UpsertBuild, Storage!Idle, S!Idle

LEMMA SameCalls ==
    ASSUME NEW s
    PROVE  /\ Storage!GetScripts(s) = S!GetScripts(s) /\ Storage!CallFails(s) = S!CallFails(s)
           /\ Storage!OpenBatch(s) = S!OpenBatch(s) /\ Storage!ReadDoc(s) = S!ReadDoc(s)
           /\ Storage!OpenUndefinedBatch(s) = S!OpenUndefinedBatch(s)
           /\ Storage!CloseBatch(s) = S!CloseBatch(s)
<1>1. Storage!GetScripts(s) = S!GetScripts(s) /\ Storage!CallFails(s) = S!CallFails(s)
  BY DEF Storage!GetScripts, S!GetScripts, Storage!CallFails, S!CallFails, Storage!Fails, S!Fails,
         Storage!NewSession, S!NewSession, Storage!NoCells, S!NoCells, Storage!TestTypes,
         S!TestTypes, Storage!TestIds, S!TestIds, Storage!Running, S!Running, Storage!UploadsOf,
         S!UploadsOf, Storage!LastAccepted, S!LastAccepted
<1>2. Storage!OpenBatch(s) = S!OpenBatch(s) /\ Storage!ReadDoc(s) = S!ReadDoc(s)
  BY DEF Storage!OpenBatch, S!OpenBatch, Storage!ReadDoc, S!ReadDoc, Storage!BatchDefined,
         S!BatchDefined, Storage!Batches, S!Batches, Storage!FrontId, S!FrontId, Storage!BackId,
         S!BackId, Storage!DocsBetween, S!DocsBetween, Storage!Keys, S!Keys, Storage!NoCells,
         S!NoCells, Storage!TestTypes, S!TestTypes, Storage!TestIds, S!TestIds
<1>3. Storage!OpenUndefinedBatch(s) = S!OpenUndefinedBatch(s)
      /\ Storage!CloseBatch(s) = S!CloseBatch(s)
  BY DEF Storage!OpenUndefinedBatch, S!OpenUndefinedBatch, Storage!CloseBatch, S!CloseBatch,
         Storage!BatchDefined, S!BatchDefined, Storage!Batches, S!Batches, Storage!NewSession,
         S!NewSession, Storage!NoCells, S!NoCells, Storage!TestTypes, S!TestTypes, Storage!TestIds,
         S!TestIds, Storage!Reply, S!Reply
<1> QED
  BY <1>1, <1>2, <1>3

LEMMA SameProcess ==
    /\ Processor!Process = P!Process /\ Processor!RunContainer = P!RunContainer
    /\ Processor!PopenFails = P!PopenFails /\ Processor!InitScript = P!InitScript
    /\ Processor!GetScripts = P!GetScripts /\ Processor!StartTest = P!StartTest
    /\ Processor!GetBatch = P!GetBatch /\ Processor!GetBatchError = P!GetBatchError
  BY DEF Processor!Process, P!Process, Processor!RunContainer, P!RunContainer, Processor!PopenFails,
         P!PopenFails, Processor!InitScript, P!InitScript, Processor!GetScripts, P!GetScripts,
         Processor!StartTest, P!StartTest, Processor!GetBatch, P!GetBatch, Processor!GetBatchError,
         P!GetBatchError, Processor!NoRun, P!NoRun, Processor!NoContainer, P!NoContainer,
         Processor!NoReport, P!NoReport, Processor!NoOutcome, P!NoOutcome, Processor!Full, P!Full,
         Processor!CreateFile, P!CreateFile, Processor!NextBatch, P!NextBatch, Processor!Batch,
         P!Batch, Processor!Entry, P!Entry

LEMMA SameExecuteAndTest ==
    /\ Processor!Execute = P!Execute /\ Processor!ExecutorDies = P!ExecutorDies
    /\ Processor!ExecFails = P!ExecFails
    /\ Processor!FetchReport = P!FetchReport /\ Processor!FetchFromHost = P!FetchFromHost
    /\ Processor!FetchThrows = P!FetchThrows /\ Processor!Commit = P!Commit
  BY DEF Processor!Execute, P!Execute, Processor!ExecutorDies, P!ExecutorDies, Processor!ExecFails,
         P!ExecFails, Processor!Executed, P!Executed, Processor!Printed, P!Printed,
         Processor!FetchReport, P!FetchReport, Processor!FetchFromHost, P!FetchFromHost,
         Processor!FetchThrows, P!FetchThrows, Processor!Commit, P!Commit,
         Processor!NoRun, P!NoRun, Processor!NoReport, P!NoReport, Processor!Judge, P!Judge,
         Processor!CheckerStatuses, P!CheckerStatuses, Processor!Comparison, P!Comparison,
         Processor!VerdictOf, P!VerdictOf, Processor!CheckOutput, P!CheckOutput, Processor!Entry,
         P!Entry, Processor!AfterTest, P!AfterTest, Processor!NextBatch, P!NextBatch,
         Processor!Verdicts, P!Verdicts, Processor!Kill, P!Kill

(* A step of the whole is a step of each part, or leaves it alone. *)
LEMMA ProcessorStep == ASSUME [Next]_vars PROVE [P!Next]_P!vars
<1>1. UNCHANGED processorVars => UNCHANGED P!vars
  BY DEF processorVars, P!vars
<1>2. CASE ProcessorAlone
  BY <1>2, SameProcess, SameExecuteAndTest DEF ProcessorAlone, P!Next, P!Step
<1>3. CASE GetScripts \/ GetBatchReply \/ GetBatchError \/ GetBatchUndefined \/ Process
  BY <1>3, SameProcess DEF GetScripts, GetBatchReply, GetBatchError, GetBatchUndefined, Process, P!Next, P!Step
<1>4. CASE ServeBatch \/ StorageAlone
  BY <1>1, <1>4 DEF ServeBatch, StorageAlone
<1>5. CASE UNCHANGED vars
  BY <1>1, <1>5 DEF vars
<1> QED
  BY <1>2, <1>3, <1>4, <1>5 DEF Next, Test

(* A submission under way has a session. *)
Started == run.pc # "idle" => runs \in Sessions

LEMMA StorageStep == ASSUME Started, [Next]_vars PROVE [S!Next]_S!vars
<1>1. UNCHANGED storageVars => UNCHANGED S!vars
  BY DEF storageVars, S!vars
<1>2. CASE StorageAlone
  BY <1>2, SameWrites, SameOthers DEF StorageAlone, Storage!HttpStep, S!Next, S!HttpStep
<1>3. ASSUME runs \in Sessions, S!GrpcStep(runs) PROVE S!Next
  BY <1>3 DEF S!Next
<1>4. CASE GetScripts \/ ServeBatch \/ GetBatchReply \/ GetBatchError
  <2>1. run.pc # "idle"
    BY <1>4 DEF GetScripts, ServeBatch, GetBatchReply, GetBatchError, Processor!GetScripts,
                Processor!GetBatch, Processor!GetBatchError
  <2>2. S!GrpcStep(runs)
    BY <1>4, SameCalls DEF GetScripts, ServeBatch, GetBatchReply, GetBatchError, S!GrpcStep
  <2> QED
    BY <1>3, <2>1, <2>2 DEF Started
<1>5. CASE ProcessorAlone \/ Process \/ GetBatchUndefined
  BY <1>1, <1>5 DEF ProcessorAlone, Process, GetBatchUndefined
<1>6. CASE UNCHANGED vars
  BY <1>1, <1>6 DEF vars
<1> QED
  BY <1>2, <1>4, <1>5, <1>6 DEF Next, Test

LEMMA InitStorage == Init => S!Init
  BY DEF Init, Storage!Init, S!Init, Storage!Keys, S!Keys, Storage!TestIds, S!TestIds,
         Storage!TestTypes, S!TestTypes, Storage!Idle, S!Idle, Storage!NewSession, S!NewSession,
         Storage!NoCells, S!NoCells

LEMMA InitProcessorState == Init => P!Init
  BY DEF Init, Processor!Init, P!Init, Processor!NoRun, P!NoRun, Processor!NoContainer, P!NoContainer,
         Processor!NoReport, P!NoReport, Processor!NoOutcome, P!NoOutcome

LEMMA InitProcessor == Init => P!RunInv
  BY InitProcessorState, AnswersFacts, ExecReportsAssumption, BoundsAssumption, P!InitRun

LEMMA StorageSpec == S!Spec => []S!StorageAndSessions
  BY S!AllInvariant, RequestsAssumption, BoundsAssumption, PTL

----------------------------------------------------------------------------
(***************************************************************************)
(* What links the two parts: the tests a submission has in its report and  *)
(* at hand are, in order, the ones its session has been served.            *)
(***************************************************************************)
Matches(x, r) ==
    /\ r.due = Len(x.served) /\ Len(r.report) + Len(r.tests) = Len(x.served)
    /\ \A k \in 1..Len(r.report) : r.report[k].answer = TextOf(x.served[k][2])
    /\ \A j \in 1..Len(r.tests) : r.tests[j] = TextOf(x.served[Len(r.report) + j][2])

(* A session that has failed ended the submission; one that has not is at the same batch. *)
Follows(x, r) ==
    /\ x.pc # "idle"
    /\ x.pc = "failed" => /\ r.pc = "commit" /\ r.report # <<>>
                          /\ r.report[Len(r.report)].verdict = "CRASH"
    /\ x.pc \in {"ready", "cursor", "done"} =>
          r.batchIndex = x.batchId /\ r.batchCount = x.batchCount /\ Matches(x, r)

(* Until Prepare nothing was asked; GetScripts has failed if there is no batch. *)
Linked(x, r) ==
    IF r.pc \in {"container", "prepare"} THEN x.pc = "idle"
    ELSE IF r.batchCount = 0 THEN x.pc = "failed" ELSE Follows(x, r)

LinkInv ==
    /\ Started
    /\ run.pc # "idle" => Linked(session[runs], run)
    /\ \A s \in Sessions : s > runs => session[s].pc = "idle"

(* What the link needs of the two parts. *)
SessionsTyped ==
    /\ DOMAIN session = Sessions
    /\ \A s \in Sessions :
         /\ session[s] \in S!Session
         /\ session[s].pc = "idle" => session[s].batchId = 0 /\ session[s].served = <<>>
         /\ session[s].pc \in {"ready", "cursor"} => session[s].batchId < session[s].batchCount
         /\ session[s].pc = "cursor" => S!Bound(session[s])

LEMMA SessionsAreTyped == S!StorageAndSessions => SessionsTyped
<1> SUFFICES ASSUME S!SessionInv PROVE SessionsTyped
  BY DEF S!StorageAndSessions
<1>1. ASSUME NEW s \in Sessions
      PROVE  /\ session[s] \in S!Session
             /\ session[s].pc = "idle" => session[s].batchId = 0 /\ session[s].served = <<>>
             /\ session[s].pc \in {"ready", "cursor"} => session[s].batchId < session[s].batchCount
             /\ session[s].pc = "cursor" => S!Bound(session[s])
  <2> PICK x : x = session[s]
    OBVIOUS
  <2>1. S!Typed(x) /\ S!Asking(x) /\ S!Reading(x)
    BY DEF S!SessionInv, S!Good
  <2> QED
    BY <2>1 DEF S!Typed, S!Asking, S!Reading, S!Live
<1> QED
  BY <1>1 DEF SessionsTyped, S!SessionInv

RunTyped ==
    /\ run \in P!Run /\ runs \in Nat /\ P!Fresh /\ P!Accounted

LEMMA RunIsTyped == P!RunInv => RunTyped
  BY DEF P!RunInv, P!Types, RunTyped

(* A session changes in nothing the link is about, or the submission does. *)
Same(x, y) == y.pc = x.pc /\ y.batchId = x.batchId /\ y.batchCount = x.batchCount /\ y.served = x.served

LEMMA LinkedSession == ASSUME NEW x, NEW y, NEW r, Linked(x, r), Same(x, y) PROVE Linked(y, r)
<1>1. Matches(x, r) => Matches(y, r)
  BY DEF Same, Matches
<1>2. Follows(x, r) => Follows(y, r)
  BY <1>1 DEF Same, Follows
<1> QED
  BY <1>2 DEF Same, Linked

SameTests(r, q) == /\ q.batchIndex = r.batchIndex /\ q.batchCount = r.batchCount
                   /\ q.tests = r.tests /\ q.report = r.report /\ q.due = r.due

LEMMA LinkedRun ==
    ASSUME NEW x, NEW r, NEW q, Linked(x, r), SameTests(r, q),
           r.pc \notin {"container", "prepare", "commit"}, q.pc \notin {"container", "prepare"}
    PROVE  Linked(x, q)
<1>1. Matches(x, r) => Matches(x, q)
  BY DEF SameTests, Matches
<1>2. Follows(x, r) => Follows(x, q)
  BY <1>1 DEF SameTests, Follows
<1> QED
  BY <1>2 DEF SameTests, Linked

LEMMA JoinFacts ==
    ASSUME NEW T, NEW a \in Seq(T), NEW b \in Seq(T)
    PROVE  /\ Len(a \o b) = Len(a) + Len(b)
           /\ \A i \in 1..(Len(a) + Len(b)) : (a \o b)[i] = IF i <= Len(a) THEN a[i] ELSE b[i - Len(a)]
  BY ConcatProperties

LEMMA ShiftFacts ==
    ASSUME NEW n \in Nat, NEW m \in Nat
    PROVE  /\ (n + 1) + (m - 1) = n + m
           /\ \A j \in 1..(m - 1) : j + 1 \in 1..m /\ n + (j + 1) = n + 1 + j
  OBVIOUS

(* A verdict moves the first test at hand to the report. *)
LEMMA MatchesJudged ==
    ASSUME NEW x, NEW r, NEW q, NEW A, NEW B, NEW e,
           r.report \in Seq(A), r.tests \in Seq(B), r.tests # <<>>, e \in A,
           Matches(x, r), x.served \in S!Served,
           q.report = Append(r.report, e), q.tests = Tail(r.tests), q.due = r.due,
           e.answer = Head(r.tests)
    PROVE  Matches(x, q)
<1> PICK report \in Seq(A), tests \in Seq(B) : report = r.report /\ tests = r.tests
  OBVIOUS
<1> PICK n \in Nat, m \in Nat : n = Len(report) /\ m = Len(tests)
  OBVIOUS
<1>1. m > 0
  BY EmptySeq
<1>2. Len(x.served) = n + m
  BY DEF Matches
<1>3. Len(q.report) = n + 1 /\ Len(q.tests) = m - 1
  <2>1. Len(Append(report, e)) = n + 1 /\ Len(Tail(tests)) = m - 1
    BY <1>1
  <2> QED
    BY <2>1
<1>4. ASSUME NEW k \in 1..(n + 1) PROVE q.report[k].answer = TextOf(x.served[k][2])
  <2>1. CASE k \in 1..n
    <3>1. q.report[k] = report[k]
      BY <2>1
    <3> QED
      BY <2>1, <3>1 DEF Matches
  <2>2. CASE k = n + 1
    <3>1. q.report[k] = e
      BY <2>2
    <3>2. Head(tests) = tests[1] /\ 1 \in 1..Len(tests)
      BY <1>1
    <3>3. tests[1] = TextOf(x.served[n + 1][2])
      BY <3>2 DEF Matches
    <3> QED
      BY <2>2, <3>1, <3>2, <3>3
  <2> QED
    BY <2>1, <2>2
<1>5. ASSUME NEW j \in 1..(m - 1) PROVE q.tests[j] = TextOf(x.served[n + 1 + j][2])
  <2>1. Tail(tests)[j] = tests[j + 1] /\ j + 1 \in 1..m /\ n + (j + 1) = n + 1 + j
    <3>1. Tail(tests)[j] = tests[j + 1]
      BY <1>3, HeadTailProperties
    <3>2. j + 1 \in 1..m /\ n + (j + 1) = n + 1 + j
      BY ShiftFacts, ZenonT(60)
    <3> QED
      BY <3>1, <3>2
  <2>2. tests[j + 1] = TextOf(x.served[n + (j + 1)][2])
    BY <2>1 DEF Matches
  <2> QED
    BY <2>1, <2>2
<1>6. q.due = Len(x.served) /\ Len(q.report) + Len(q.tests) = Len(x.served)
  <2>1. (n + 1) + (m - 1) = n + m
    BY ShiftFacts
  <2> QED
    BY <1>2, <1>3, <2>1 DEF Matches
<1> QED
  BY <1>3, <1>4, <1>5, <1>6 DEF Matches

(* A batch that is answered adds its tests on both sides. *)
LEMMA MatchesServed ==
    ASSUME NEW x, NEW y, NEW r, NEW q, NEW a \in S!Served, NEW A,
           Matches(x, r), x.served \in S!Served, r.report \in Seq(A), r.tests = <<>>,
           y.served = x.served \o a,
           q.tests = [k \in 1..Len(a) |-> TextOf(a[k][2])], Len(q.tests) = Len(a),
           q.report = r.report, q.due = r.due + Len(q.tests)
    PROVE  Matches(y, q)
<1> PICK T : T = S!UploadIds \X S!UploadIds
  OBVIOUS
<1> PICK served \in Seq(T), more \in Seq(T), report \in Seq(A) :
      served = x.served /\ more = a /\ report = r.report
  BY DEF S!Served
<1> PICK n \in Nat, m \in Nat : n = Len(report) /\ m = Len(more)
  OBVIOUS
<1>1. Len(served) = n /\ r.due = n
  <2>1. Len(r.tests) = 0
    OBVIOUS
  <2> QED
    BY <2>1 DEF Matches
<1>2. /\ Len(served \o more) = n + m
      /\ \A i \in 1..(n + m) : (served \o more)[i] = IF i <= n THEN served[i] ELSE more[i - n]
  <2>1. /\ Len(served \o more) = Len(served) + Len(more)
        /\ \A i \in 1..(Len(served) + Len(more)) :
              (served \o more)[i] = IF i <= Len(served) THEN served[i] ELSE more[i - Len(served)]
    BY JoinFacts
  <2>2. Len(served) = n /\ Len(more) = m
    BY <1>1
  <2> QED
    BY <2>1, <2>2, Zenon
<1>3. Len(y.served) = n + m /\ Len(q.report) = n /\ Len(q.tests) = m
  BY <1>2
<1>4. ASSUME NEW k \in 1..n PROVE q.report[k].answer = TextOf(y.served[k][2])
  <2>1. (served \o more)[k] = served[k]
    BY <1>1
  <2>2. r.report[k].answer = TextOf(x.served[k][2])
    BY DEF Matches
  <2> QED
    BY <2>1, <2>2
<1>5. ASSUME NEW j \in 1..m PROVE q.tests[j] = TextOf(y.served[n + j][2])
  <2>1. n + j \in 1..(n + m) /\ ~(n + j <= n) /\ (n + j) - n = j
    OBVIOUS
  <2>2. (served \o more)[n + j] = more[j]
    BY <1>2, <2>1
  <2>3. q.tests[j] = TextOf(more[j][2])
    OBVIOUS
  <2> QED
    BY <2>2, <2>3
<1>6. q.due = Len(y.served) /\ Len(q.report) + Len(q.tests) = Len(y.served)
  BY <1>1, <1>3
<1> QED
  BY <1>3, <1>4, <1>5, <1>6 DEF Matches

----------------------------------------------------------------------------
(* A step during a submission: its own session may change, later ones stay idle. *)
LEMMA LinkKept ==
    ASSUME LinkInv, run.pc # "idle", runs' = runs,
           \A s \in Sessions : s > runs /\ session[s].pc = "idle" => session'[s].pc = "idle",
           run'.pc # "idle" => Linked(session'[runs], run')
    PROVE  LinkInv'
  BY DEF LinkInv, Started, Sessions

(* Uploads, crashes of the HTTP server and builds do not touch what a session was told. *)
LEMMA UploadsKeepLink ==
    ASSUME LinkInv, SessionsTyped, StorageAlone
    PROVE  LinkInv'
<1>1. \A s \in Sessions : Same(session[s], session'[s])
  <2>1. CASE session' = session
    BY <2>1 DEF Same
  <2>2. CASE \E w \in Workers : Storage!BeginUpload(w)
    <3>1. PICK t : session' = [s \in Sessions |->
                          IF Storage!InCall(s) /\ session[s].task = t
                            THEN [session[s] EXCEPT !.calm = FALSE] ELSE session[s]]
      BY <2>2 DEF Storage!BeginUpload
    <3>2. ASSUME NEW s \in Sessions PROVE Same(session[s], session'[s])
      <4> PICK x : x = session[s]
        OBVIOUS
      <4>1. session'[s] = [x EXCEPT !.calm = FALSE] \/ session'[s] = x
        BY <3>1
      <4>2. x \in S!Session
        BY DEF SessionsTyped
      <4>3. Same(x, [x EXCEPT !.calm = FALSE])
        BY <4>2 DEF Same, S!Session
      <4>4. Same(x, x)
        BY DEF Same
      <4> QED
        BY <4>1, <4>3, <4>4
    <3> QED
      BY <3>2
  <2> QED
    BY <2>1, <2>2 DEF StorageAlone, Storage!HttpStep, Storage!UpdateTest, Storage!NoTestMatches,
       Storage!InsertTest, Storage!UpsertTaskMetaData, Storage!StorageError, Storage!HttpCrash,
       Storage!UpsertBuild
<1>2. run' = run /\ runs' = runs
  BY DEF StorageAlone, processorVars
<1>3. \A s \in Sessions : session[s].pc = "idle" => session'[s].pc = "idle"
  BY <1>1 DEF Same
<1>4. CASE run.pc = "idle"
  BY <1>2, <1>3, <1>4 DEF LinkInv, Started, Sessions
<1>5. CASE run.pc # "idle"
  <2>1. Linked(session'[runs], run)
    <3>1. Same(session[runs], session'[runs]) /\ Linked(session[runs], run)
      BY <1>1, <1>5 DEF LinkInv, Started
    <3> QED
      BY <3>1, LinkedSession
  <2> QED
    BY <1>2, <1>3, <1>5, <2>1, LinkKept
<1> QED
  BY <1>4, <1>5

LEMMA ProcessLinks == ASSUME LinkInv, RunTyped, Process PROVE LinkInv'
<1>1. /\ run.pc = "idle" /\ runs < MaxRuns /\ runs' = runs + 1 /\ session' = session
      /\ run' = [Processor!NoRun EXCEPT !.pc = "container"]
  BY DEF Process, Processor!Process, storageVars
<1>2. run'.pc = "container"
  BY <1>1 DEF Processor!NoRun
<1>3. runs \in Nat /\ runs' \in Sessions /\ runs' > runs
  BY <1>1, BoundsAssumption DEF RunTyped, Sessions
<1>4. session[runs'].pc = "idle"
  BY <1>3 DEF LinkInv
<1>5. Linked(session'[runs'], run')
  BY <1>1, <1>2, <1>4 DEF Linked
<1>6. \A s \in Sessions : s > runs' => session'[s].pc = "idle"
  BY <1>1, <1>3 DEF LinkInv, Sessions
<1> QED
  BY <1>3, <1>5, <1>6 DEF LinkInv, Started, Sessions

(* The submission ends, or goes on with the same tests. *)
LEMMA EndsLink ==
    ASSUME LinkInv, run.pc # "idle", runs' = runs, session' = session, run' = Processor!NoRun
    PROVE  LinkInv'
<1>1. run'.pc = "idle"
  BY DEF Processor!NoRun
<1> QED
  BY <1>1, LinkKept

LEMMA SameTestsLink ==
    ASSUME LinkInv, runs' = runs, session' = session, SameTests(run, run'),
           run.pc \notin {"idle", "container", "prepare", "commit"},
           run'.pc \notin {"container", "prepare"}
    PROVE  LinkInv'
<1>1. Linked(session'[runs], run')
  BY LinkedRun DEF LinkInv
<1> QED
  BY <1>1, LinkKept

LEMMA JudgeLinks ==
    ASSUME LinkInv, RunTyped, SessionsTyped, runs' = runs, session' = session, run.pc = "fetch",
           NEW report, NEW why, Processor!Judge(report, why)
    PROVE  LinkInv'
<1> PICK x : x = session[runs]
  OBVIOUS
<1>1. PICK v, reason : run' = [run EXCEPT !.report = Append(run.report, Processor!Entry(v, Head(run.tests), reason)),
                                          !.tests = Tail(run.tests), !.basis = "not run",
                                          !.pc = Processor!AfterTest(v)]
  BY DEF Processor!Judge
<1>2. PICK e : e = Processor!Entry(v, Head(run.tests), reason)
  OBVIOUS
<1>3. e.answer = Head(run.tests)
  BY <1>2 DEF Processor!Entry
<1>4. PICK pc \in {"exec", "batch", "commit"} : pc = Processor!AfterTest(v)
  BY DEF Processor!AfterTest, Processor!NextBatch
<1>5. run \in P!Run
  BY DEF RunTyped
<1>6. run' = [run EXCEPT !.report = Append(run.report, e), !.tests = Tail(run.tests), !.basis = "not run",
                         !.pc = pc]
  BY <1>1, <1>2, <1>4
<1>7. /\ run'.report = Append(run.report, e) /\ run'.tests = Tail(run.tests) /\ run'.due = run.due
      /\ run'.pc = pc /\ run'.batchIndex = run.batchIndex /\ run'.batchCount = run.batchCount
  BY <1>5, <1>6 DEF P!Run
<1>8. runs \in Sessions /\ Linked(x, run) /\ x \in S!Session
  BY DEF LinkInv, Started, SessionsTyped
<1>9. Matches(x, run) => Matches(x, run')
  <2> PICK A : A = P!Reported \cup {e}
    OBVIOUS
  <2>1. run.report \in Seq(A) /\ e \in A
    <3>1. run.report \in Seq(P!Reported)
      BY <1>5 DEF P!Run
    <3>2. \A i \in 1..Len(run.report) : run.report[i] \in A
      BY <3>1
    <3>3. run.report \in [1..Len(run.report) -> A] /\ Len(run.report) \in Nat
      BY <3>1, <3>2
    <3> QED
      BY <3>3
  <2>2. run.tests \in Seq(P!Outputs) /\ run.tests # <<>>
    BY <1>5 DEF P!Run, RunTyped, P!Accounted
  <2>3. x.served \in S!Served
    BY <1>8 DEF S!Session
  <2> QED
    BY <1>3, <1>7, <2>1, <2>2, <2>3, MatchesJudged
<1>10. Follows(x, run) => Follows(x, run')
  BY <1>7, <1>9 DEF Follows
<1>11. Linked(x, run')
  BY <1>7, <1>8, <1>10 DEF Linked
<1> QED
  BY <1>11, LinkKept

(* The steps of the processor alone. *)
LEMMA ProcessorKeepsLink ==
    ASSUME LinkInv, RunTyped, SessionsTyped, ProcessorAlone
    PROVE  LinkInv'
<1>1. session' = session /\ run \in P!Run
  BY DEF ProcessorAlone, storageVars, RunTyped
<1>2. CASE Processor!PopenFails \/ Processor!FetchThrows \/ Processor!Commit
  BY <1>1, <1>2, EndsLink DEF Processor!PopenFails, Processor!FetchThrows, Processor!Commit
<1>3. CASE Processor!RunContainer
  <2>1. run.pc = "container" /\ run' = [run EXCEPT !.pc = "prepare"] /\ runs' = runs
    BY <1>3 DEF Processor!RunContainer
  <2>2. run'.pc = "prepare"
    BY <1>1, <2>1 DEF P!Run
  <2>3. Linked(session'[runs], run')
    BY <1>1, <2>1, <2>2 DEF LinkInv, Linked
  <2> QED
    BY <1>1, <2>1, <2>3, LinkKept
<1>4. CASE Processor!InitScript
  <2>1. run.pc = "init" /\ run' = [run EXCEPT !.pc = "test"] /\ runs' = runs
    BY <1>4 DEF Processor!InitScript
  <2>2. run'.pc = "test" /\ SameTests(run, run')
    BY <1>1, <2>1 DEF P!Run, SameTests
  <2> QED
    BY <1>1, <2>1, <2>2, SameTestsLink
<1>5. CASE Processor!StartTest
  <2>1. run.pc = "test" /\ runs' = runs
    BY <1>5 DEF Processor!StartTest
  <2>2. CASE run.batchCount # 0
    <3>1. run' = [run EXCEPT !.pc = "batch"]
      BY <1>5, <2>2 DEF Processor!StartTest
    <3>2. run'.pc = "batch" /\ SameTests(run, run')
      BY <1>1, <3>1 DEF P!Run, SameTests
    <3> QED
      BY <1>1, <2>1, <3>2, SameTestsLink
  <2>3. CASE run.batchCount = 0
    <3>1. run' = [run EXCEPT !.pc = "exec", !.tests = <<"">>, !.due = 1]
      BY <1>5, <2>3 DEF Processor!StartTest
    <3>2. run'.pc = "exec" /\ run'.batchCount = 0
      BY <1>1, <2>3, <3>1 DEF P!Run
    <3>3. Linked(session'[runs], run')
      BY <1>1, <2>1, <2>3, <3>2 DEF LinkInv, Linked
    <3> QED
      BY <1>1, <2>1, <3>3, LinkKept
  <2> QED
    BY <2>2, <2>3
<1>6. CASE Processor!Execute \/ Processor!ExecutorDies \/ Processor!ExecFails
  <2>1. run.pc = "exec" /\ runs' = runs
    BY <1>6 DEF Processor!Execute, Processor!ExecutorDies, Processor!ExecFails
  <2>2. PICK basis : run' = [run EXCEPT !.pc = "fetch", !.basis = basis]
    BY <1>6 DEF Processor!Execute, Processor!ExecutorDies, Processor!ExecFails, Processor!Executed
  <2>3. run'.pc = "fetch" /\ SameTests(run, run')
    BY <1>1, <2>2 DEF P!Run, SameTests
  <2> QED
    BY <1>1, <2>1, <2>3, SameTestsLink
<1>7. CASE Processor!FetchReport \/ Processor!FetchFromHost
  <2>1. run.pc = "fetch" /\ runs' = runs
    BY <1>7 DEF Processor!FetchReport, Processor!FetchFromHost
  <2>2. \E report, why : Processor!Judge(report, why)
    BY <1>7 DEF Processor!FetchReport, Processor!FetchFromHost
  <2> QED
    BY <1>1, <2>1, <2>2, JudgeLinks
<1> QED
  BY <1>2, <1>3, <1>4, <1>5, <1>6, <1>7 DEF ProcessorAlone

----------------------------------------------------------------------------
(* What a call leaves of the other sessions, and of its own when it fails. *)
LEMMA CallChanges ==
    ASSUME SessionsTyped, NEW s \in Sessions, NEW y, session' = [session EXCEPT ![s] = y]
    PROVE  session'[s] = y /\ \A x \in Sessions : x # s => session'[x] = session[x]
  BY DEF SessionsTyped

LEMMA FailsIsFailed ==
    ASSUME SessionsTyped, NEW s \in Sessions, Storage!Fails(s)
    PROVE  session'[s].pc = "failed" /\ \A x \in Sessions : x # s => session'[x] = session[x]
<1> PICK y : y = [Storage!NewSession EXCEPT !.pc = "failed"]
  OBVIOUS
<1>1. y.pc = "failed"
  BY DEF Storage!NewSession
<1>2. session' = [session EXCEPT ![s] = y]
  BY DEF Storage!Fails
<1> QED
  BY <1>1, <1>2, CallChanges

(* GetScripts: a session that is ready has been told the batches the submission asks for. *)
LEMMA GetScriptsLinks ==
    ASSUME LinkInv, RunTyped, SessionsTyped, SessionsTyped', GetScripts
    PROVE  LinkInv'
<1>1. run.pc = "prepare" /\ runs' = runs /\ runs \in Sessions /\ run \in P!Run /\ runs \in Nat
  BY DEF GetScripts, Processor!GetScripts, LinkInv, Started, RunTyped
<1> PICK x : x = session[runs]
  OBVIOUS
<1>2. x.pc = "idle" /\ x.batchId = 0 /\ x.served = <<>> /\ x \in S!Session
  <2>1. x.pc = "idle"
    BY <1>1 DEF LinkInv, Linked
  <2> QED
    BY <1>1, <2>1 DEF SessionsTyped
<1>3. run.report = <<>> /\ run.tests = <<>> /\ run.due = 0 /\ run.batchIndex = 0
  BY <1>1 DEF RunTyped, P!Fresh
<1>4. /\ run'.pc \in {"test", "init"} /\ run'.report = <<>> /\ run'.tests = <<>> /\ run'.due = 0
      /\ run'.batchIndex = 0
  <2>1. \/ run' = [run EXCEPT !.pc = "test"]
        \/ \E n \in 1..MaxTests : run' = [run EXCEPT !.pc = "init", !.batchCount = n]
    BY DEF GetScripts, Processor!GetScripts
  <2> QED
    BY <1>1, <1>3, <2>1 DEF P!Run
<1>5. run'.batchCount = IF session'[runs].pc = "ready" THEN session'[runs].batchCount ELSE 0
  BY DEF GetScripts
<1>6. CASE Storage!Fails(runs)
  <2>1. session'[runs].pc = "failed" /\ \A s \in Sessions : s # runs => session'[s] = session[s]
    BY <1>1, <1>6, FailsIsFailed
  <2>2. Linked(session'[runs], run')
    BY <1>4, <1>5, <2>1 DEF Linked
  <2> QED
    BY <1>1, <2>1, <2>2, LinkKept DEF Sessions
<1>7. CASE \E y : session' = [session EXCEPT ![runs] = y] /\ y.pc = "ready"
                  /\ y.batchId = x.batchId /\ y.served = x.served
  <2>1. PICK y : /\ session' = [session EXCEPT ![runs] = y] /\ y.pc = "ready"
                 /\ y.batchId = x.batchId /\ y.served = x.served
    BY <1>7
  <2>2. session'[runs] = y /\ \A s \in Sessions : s # runs => session'[s] = session[s]
    BY <1>1, <2>1, CallChanges
  <2>3. y.batchCount # 0 /\ y.batchId < y.batchCount /\ y \in S!Session
    <3>1. y \in S!Session /\ y.batchId < y.batchCount
      BY <1>1, <2>1, <2>2 DEF SessionsTyped
    <3> QED
      BY <1>2, <2>1, <3>1
  <2>4. run'.batchCount = y.batchCount
    BY <1>5, <2>1, <2>2
  <2>5. Matches(y, run')
    <3>1. Len(<<>>) = 0 /\ 0 + 0 = 0 /\ \A k \in 1..0 : FALSE
      OBVIOUS
    <3> QED
      BY <1>2, <1>4, <2>1, <3>1 DEF Matches
  <2>6. Follows(y, run')
    BY <1>2, <1>4, <2>1, <2>4, <2>5 DEF Follows
  <2>7. Linked(session'[runs], run')
    BY <1>4, <2>2, <2>3, <2>4, <2>6 DEF Linked
  <2> QED
    BY <1>1, <2>2, <2>7, LinkKept DEF Sessions
<1>8. Storage!GetScripts(runs) \/ Storage!CallFails(runs)
  BY DEF GetScripts
<1>9. CASE Storage!CallFails(runs)
  BY <1>6, <1>9 DEF Storage!CallFails
<1>10. CASE Storage!GetScripts(runs) /\ ~Storage!Fails(runs)
  <2>1. PICK t \in Tasks : session' = [session EXCEPT ![runs] =
                  [@ EXCEPT !.pc = "ready", !.task = t, !.batchCount = Len(taskMeta[t].batches),
                            !.calm = (Storage!Running(t) = {}),
                            !.solo = \A u \in Storage!UploadsOf(t) : uploads[u].solo,
                            !.base = Storage!LastAccepted(t),
                            !.torn = \E u \in Storage!UploadsOf(t) : u > Storage!LastAccepted(t)]]
    BY <1>10 DEF Storage!GetScripts
  <2> PICK n, calm, solo, base, torn :
        /\ n = Len(taskMeta[t].batches) /\ calm = (Storage!Running(t) = {})
        /\ solo = \A u \in Storage!UploadsOf(t) : uploads[u].solo
        /\ base = Storage!LastAccepted(t)
        /\ torn = \E u \in Storage!UploadsOf(t) : u > Storage!LastAccepted(t)
    OBVIOUS
  <2>2. PICK y : y = [x EXCEPT !.pc = "ready", !.task = t, !.batchCount = n, !.calm = calm,
                               !.solo = solo, !.base = base, !.torn = torn]
    OBVIOUS
  <2>3. session' = [session EXCEPT ![runs] = y]
    BY <2>1, <2>2, Zenon
  <2>4. y.pc = "ready" /\ y.batchId = x.batchId /\ y.served = x.served
    BY <1>2, <2>2 DEF S!Session
  <2> QED
    BY <1>7, <2>3, <2>4
<1> QED
  BY <1>6, <1>8, <1>9, <1>10

(* At "batch" the session follows the submission, and all it was served is reported. *)
LEMMA AtBatch ==
    ASSUME LinkInv, RunTyped, SessionsTyped, run.pc = "batch", run.batchIndex < run.batchCount
    PROVE  /\ runs \in Sessions /\ runs \in Nat /\ run \in P!Run /\ session[runs] \in S!Session
           /\ run.batchCount # 0 /\ Follows(session[runs], run)
           /\ session[runs].pc \notin {"failed", "idle"} /\ run.tests = <<>>
<1>1. runs \in Sessions /\ run \in P!Run /\ session[runs] \in S!Session /\ Linked(session[runs], run)
      /\ runs \in Nat
  BY DEF LinkInv, Started, RunTyped, SessionsTyped
<1>2. run.batchCount # 0
  BY <1>1 DEF P!Run
<1>3. Follows(session[runs], run)
  BY <1>1, <1>2 DEF Linked
<1>4. session[runs].pc \notin {"failed", "idle"}
  BY <1>3 DEF Follows
<1> QED
  BY <1>1, <1>2, <1>3, <1>4 DEF RunTyped, P!Accounted

(* A session is asked for a batch only between the scripts and the last batch. *)
LEMMA AskedHasBatches ==
    ASSUME LinkInv, RunTyped, SessionsTyped, run.pc = "batch", session[runs].pc \in {"ready", "cursor"}
    PROVE  runs \in Sessions /\ runs \in Nat /\ run.batchCount # 0 /\ Follows(session[runs], run)
<1>1. runs \in Sessions /\ Linked(session[runs], run) /\ runs \in Nat
  BY DEF LinkInv, Started, RunTyped
<1> QED
  BY <1>1 DEF Linked

LEMMA ServeBatchLinks == ASSUME LinkInv, RunTyped, SessionsTyped, ServeBatch PROVE LinkInv'
<1> PICK x : x = session[runs]
  OBVIOUS
<1>1. run.pc = "batch" /\ run' = run /\ runs' = runs /\ x.pc \in {"ready", "cursor"}
  BY DEF ServeBatch, processorVars, Storage!OpenBatch, Storage!ReadDoc, Storage!OpenUndefinedBatch
<1>2. runs \in Sessions /\ runs \in Nat /\ run.batchCount # 0 /\ Follows(x, run)
  BY <1>1, AskedHasBatches
<1>3. x \in S!Session /\ DOMAIN session = Sessions
  BY <1>2 DEF SessionsTyped
<1>4. ASSUME NEW y, session'[runs] = y, y.batchId = x.batchId, y.batchCount = x.batchCount,
             y.served = x.served, y.pc \in {"ready", "cursor", "undefined"},
             \A s \in Sessions : s # runs /\ session[s].pc = "idle" => session'[s].pc = "idle"
      PROVE  LinkInv'
  <2>1. Matches(x, run) => Matches(y, run)
    BY <1>4 DEF Matches
  <2>2. Follows(y, run)
    BY <1>1, <1>2, <1>4, <2>1 DEF Follows
  <2>3. Linked(session'[runs], run')
    BY <1>1, <1>2, <1>4, <2>2 DEF Linked
  <2> QED
    BY <1>1, <1>2, <1>4, <2>3, LinkKept DEF Sessions
<1>5. CASE Storage!OpenBatch(runs)
  <2> PICK batch : batch = Storage!Batches(runs)[session[runs].batchId + 1]
    OBVIOUS
  <2>1. session' = [session EXCEPT ![runs] =
            [x EXCEPT !.pc = "cursor", !.front = Storage!FrontId(batch), !.back = Storage!BackId(batch),
                      !.due = Storage!DocsBetween(x.task, Storage!FrontId(batch), Storage!BackId(batch)),
                      !.seen = {}, !.cells = Storage!NoCells]]
    BY <1>5, Zenon DEF Storage!OpenBatch
  <2> PICK front, back, due, cells :
        /\ front = Storage!FrontId(batch) /\ back = Storage!BackId(batch) /\ cells = Storage!NoCells
        /\ due = Storage!DocsBetween(x.task, Storage!FrontId(batch), Storage!BackId(batch))
    OBVIOUS
  <2>2. PICK y : y = [x EXCEPT !.pc = "cursor", !.front = front, !.back = back, !.due = due,
                               !.seen = {}, !.cells = cells]
    OBVIOUS
  <2>3. session' = [session EXCEPT ![runs] = y]
    BY <2>1, <2>2, Zenon
  <2>4. y.pc = "cursor" /\ y.batchId = x.batchId /\ y.batchCount = x.batchCount /\ y.served = x.served
    BY <1>3, <2>2 DEF S!Session
  <2>5. session'[runs] = y /\ \A s \in Sessions : s # runs => session'[s] = session[s]
    BY <1>2, <2>3, CallChanges
  <2> QED
    BY <1>4, <2>4, <2>5
<1>6. CASE Storage!ReadDoc(runs)
  <2>1. PICK p : session' = [session EXCEPT ![runs].cells[p[1].type][p[1].id] = testDocs[p[1]][p[2]],
                                            ![runs].seen = @ \cup {p}]
    BY <1>6 DEF Storage!ReadDoc
  <2> PICK type, id, v : type = p[1].type /\ id = p[1].id /\ v = testDocs[p[1]][p[2]]
    OBVIOUS
  <2>2. /\ session'[runs].batchId = x.batchId /\ session'[runs].batchCount = x.batchCount
        /\ session'[runs].served = x.served /\ session'[runs].pc = x.pc
        /\ \A s \in Sessions : s # runs => session'[s] = session[s]
    BY <1>2, <1>3, <2>1 DEF S!Session
  <2> QED
    BY <1>1, <1>4, <2>2
<1>7. CASE Storage!OpenUndefinedBatch(runs)
  <2>1. PICK died \in BOOLEAN :
         session' = [z \in Sessions |->
                       CASE z = runs -> [session[z] EXCEPT !.pc = "undefined"]
                         [] z # runs /\ died /\ session[z].pc = "cursor" ->
                              [Storage!NewSession EXCEPT !.pc = "failed"]
                         [] OTHER -> session[z]]
    BY <1>7 DEF Storage!OpenUndefinedBatch
  <2>2. session'[runs] = [x EXCEPT !.pc = "undefined"]
    BY <1>2, <2>1
  <2>3. \A s \in Sessions : s # runs /\ session[s].pc = "idle" => session'[s] = session[s]
    BY <2>1
  <2>4. PICK y : y = [x EXCEPT !.pc = "undefined"]
    OBVIOUS
  <2>5. y.pc = "undefined" /\ y.batchId = x.batchId /\ y.batchCount = x.batchCount /\ y.served = x.served
    BY <1>3, <2>4 DEF S!Session
  <2> QED
    BY <1>4, <2>2, <2>3, <2>4, <2>5
<1> QED
  BY <1>5, <1>6, <1>7 DEF ServeBatch

(* The reply: the tests of the batch are at hand, and served. *)
LEMMA GetBatchReplyLinks == ASSUME LinkInv, RunTyped, SessionsTyped, GetBatchReply PROVE LinkInv'
<1> PICK x : x = session[runs]
  OBVIOUS
<1>1. run.pc = "batch" /\ run.batchIndex < run.batchCount /\ runs' = runs /\ x.pc = "cursor"
  BY DEF GetBatchReply, Processor!GetBatch, Storage!CloseBatch
<1>2. /\ runs \in Sessions /\ runs \in Nat /\ run \in P!Run /\ x \in S!Session /\ run.batchCount # 0
      /\ Follows(x, run) /\ run.tests = <<>>
  BY <1>1, AtBatch
<1>3. PICK a \in S!Served : a = S!Answer(x)
  <2>1. S!Bound(x) /\ x.due \subseteq x.seen
    BY <1>1, <1>2 DEF SessionsTyped, GetBatchReply, Storage!CloseBatch
  <2> QED
    BY <1>2, <2>1, S!AnswerFacts, BoundsAssumption, RequestsAssumption
<1>4. a = Storage!Reply(runs)
  BY <1>3 DEF S!Answer, Storage!Reply
<1>5. PICK y : y = [x EXCEPT !.served = x.served \o a, !.batchId = x.batchId + 1,
                   !.front = 1, !.back = 0, !.due = {}, !.seen = {}, !.cells = Storage!NoCells,
                   !.pc = IF x.batchId + 1 = x.batchCount THEN "done" ELSE "ready"]
  OBVIOUS
<1>6. session' = [session EXCEPT ![runs] = y]
  BY <1>4, <1>5, Zenon DEF GetBatchReply, Storage!CloseBatch
<1>7. /\ y.served = x.served \o a /\ y.batchId = x.batchId + 1 /\ y.batchCount = x.batchCount
      /\ y.pc \in {"ready", "done"}
  <2> PICK cells : cells = Storage!NoCells
    OBVIOUS
  <2> PICK pc \in {"ready", "done"} : pc = IF x.batchId + 1 = x.batchCount THEN "done" ELSE "ready"
    OBVIOUS
  <2>1. y = [x EXCEPT !.served = x.served \o a, !.batchId = x.batchId + 1,
                   !.front = 1, !.back = 0, !.due = {}, !.seen = {}, !.cells = cells, !.pc = pc]
    BY <1>5
  <2> QED
    BY <1>2, <2>1 DEF S!Session
<1>8. session'[runs] = y /\ \A s \in Sessions : s # runs => session'[s] = session[s]
  BY <1>2, <1>6, CallChanges
<1>9. PICK tests : run' = [run EXCEPT !.tests = tests, !.due = run.due + Len(tests),
                                      !.batchIndex = run.batchIndex + 1,
                            !.pc = IF tests = <<>> THEN Processor!NextBatch(run.batchIndex + 1) ELSE "exec"]
  BY DEF GetBatchReply, Processor!GetBatch
<1>10. /\ run'.tests = tests /\ run'.due = run.due + Len(tests) /\ run'.batchIndex = run.batchIndex + 1
       /\ run'.batchCount = run.batchCount /\ run'.report = run.report
       /\ run'.pc \in {"batch", "exec", "commit"}
  <2> PICK pc \in {"batch", "exec", "commit"} :
        pc = IF tests = <<>> THEN Processor!NextBatch(run.batchIndex + 1) ELSE "exec"
    BY DEF Processor!NextBatch
  <2>1. run' = [run EXCEPT !.tests = tests, !.due = run.due + Len(tests),
                           !.batchIndex = run.batchIndex + 1, !.pc = pc]
    BY <1>9
  <2> QED
    BY <1>2, <2>1 DEF P!Run
<1>11. run'.tests = [k \in 1..Len(a) |-> TextOf(a[k][2])] /\ Len(run'.tests) = Len(a)
  <2>1. run'.tests = [k \in 1..Len(a) |-> TextOf(a[k][2])]
    BY <1>4 DEF GetBatchReply, RepliedOutputs
  <2>2. Len(a) \in Nat
    BY DEF S!Served
  <2> QED
    BY <2>1, <2>2
<1>12. Matches(x, run) /\ x.batchId = run.batchIndex /\ x.batchCount = run.batchCount
  BY <1>1, <1>2 DEF Follows
<1>13. Matches(y, run')
  <2>1. x.served \in S!Served /\ run.report \in Seq(P!Reported)
    BY <1>2 DEF S!Session, P!Run
  <2>2. PICK r, q : r = run /\ q = run'
    OBVIOUS
  <2>3. q.due = r.due + Len(q.tests) /\ q.report = r.report
    BY <1>10, <2>2
  <2>4. q.tests = [k \in 1..Len(a) |-> TextOf(a[k][2])] /\ Len(q.tests) = Len(a)
    BY <1>11, <2>2
  <2>5. Matches(x, r) /\ r.tests = <<>> /\ r.report \in Seq(P!Reported) /\ y.served = x.served \o a
    BY <1>2, <1>7, <1>12, <2>1, <2>2
  <2>6. Matches(y, q)
    BY <2>1, <2>3, <2>4, <2>5, MatchesServed
  <2> QED
    BY <2>2, <2>6
<1>14. Follows(y, run')
  BY <1>7, <1>10, <1>12, <1>13 DEF Follows
<1>15. Linked(session'[runs], run')
  BY <1>2, <1>8, <1>10, <1>14 DEF Linked
<1> QED
  BY <1>1, <1>2, <1>8, <1>15, LinkKept DEF Sessions

(* An error ends the submission with the entry of a crash. *)
LEMMA CrashEntry ==
    ASSUME RunTyped, Processor!GetBatchError
    PROVE  /\ run'.pc = "commit" /\ run'.batchCount = run.batchCount /\ run'.report # <<>>
           /\ run'.report[Len(run'.report)].verdict = "CRASH" /\ runs' = runs
<1>1. run \in P!Run
  BY DEF RunTyped
<1>2. PICK e : e = Processor!Entry("CRASH", "", "not run")
  OBVIOUS
<1>3. e.verdict = "CRASH"
  BY <1>2 DEF Processor!Entry
<1>4. PICK report : report = Append(run.report, e)
  OBVIOUS
<1>5. run' = [run EXCEPT !.pc = "commit", !.report = report] /\ runs' = runs
  BY <1>2, <1>4 DEF Processor!GetBatchError
<1>6. run'.pc = "commit" /\ run'.batchCount = run.batchCount /\ run'.report = report
  BY <1>1, <1>5 DEF P!Run
<1>7. report # <<>> /\ report[Len(report)] = e
  <2>1. run.report \in Seq(P!Reported)
    BY <1>1 DEF P!Run
  <2>2. Len(report) = Len(run.report) + 1 /\ report[Len(run.report) + 1] = e /\ Len(run.report) \in Nat
    BY <1>4, <2>1
  <2> QED
    BY <2>2
<1> QED
  BY <1>3, <1>5, <1>6, <1>7

LEMMA GetBatchErrorLinks ==
    ASSUME LinkInv, RunTyped, SessionsTyped, GetBatchError
    PROVE  LinkInv'
<1>1. run.pc = "batch" /\ run.batchIndex < run.batchCount
  BY DEF GetBatchError, Processor!GetBatchError
<1>2. runs \in Sessions /\ runs \in Nat /\ run.batchCount # 0
  BY <1>1, AtBatch
<1>3. session'[runs].pc = "failed" /\ \A s \in Sessions : s # runs => session'[s] = session[s]
  BY <1>2, FailsIsFailed DEF GetBatchError, Storage!CallFails
<1>4. /\ run'.pc = "commit" /\ run'.batchCount = run.batchCount /\ run'.report # <<>>
      /\ run'.report[Len(run'.report)].verdict = "CRASH" /\ runs' = runs
  BY CrashEntry DEF GetBatchError
<1>5. Linked(session'[runs], run')
  BY <1>2, <1>3, <1>4 DEF Linked, Follows
<1> QED
  BY <1>1, <1>2, <1>3, <1>4, <1>5, LinkKept DEF Sessions

LEMMA GetBatchUndefinedLinks ==
    ASSUME LinkInv, RunTyped, SessionsTyped, GetBatchUndefined
    PROVE  LinkInv'
<1>1. /\ run.pc = "batch" /\ run.batchIndex < run.batchCount /\ session' = session
      /\ session[runs].pc = "undefined" /\ runs' = runs
  BY DEF GetBatchUndefined, Current, storageVars, Processor!GetBatch, Processor!GetBatchError
<1>2. run.batchCount # 0 /\ run \in P!Run
  BY <1>1, AtBatch
<1>3. run'.pc \in {"batch", "exec", "commit"} /\ run'.batchCount = run.batchCount
  <2>1. CASE Processor!GetBatchError
    BY <2>1, CrashEntry
  <2>2. CASE Processor!GetBatch
    <3>1. PICK tests : run' = [run EXCEPT !.tests = tests, !.due = run.due + Len(tests),
                                      !.batchIndex = run.batchIndex + 1,
                            !.pc = IF tests = <<>> THEN Processor!NextBatch(run.batchIndex + 1) ELSE "exec"]
      BY <2>2 DEF Processor!GetBatch
    <3> PICK pc \in {"batch", "exec", "commit"} :
          pc = IF tests = <<>> THEN Processor!NextBatch(run.batchIndex + 1) ELSE "exec"
      BY DEF Processor!NextBatch
    <3>2. run' = [run EXCEPT !.tests = tests, !.due = run.due + Len(tests),
                             !.batchIndex = run.batchIndex + 1, !.pc = pc]
      BY <3>1
    <3> QED
      BY <1>2, <3>2 DEF P!Run
  <2> QED
    BY <2>1, <2>2 DEF GetBatchUndefined
<1>4. Linked(session'[runs], run')
  BY <1>1, <1>2, <1>3 DEF Linked, Follows
<1> QED
  BY <1>1, <1>4, LinkKept

----------------------------------------------------------------------------
LEMMA LinkStep ==
    ASSUME LinkInv, RunTyped, SessionsTyped, SessionsTyped', [Next]_vars
    PROVE  LinkInv'
<1>1. CASE UNCHANGED vars
  BY <1>1 DEF vars, storageVars, processorVars, LinkInv, Started, Sessions
<1> QED
  BY <1>1, UploadsKeepLink, ProcessLinks, ProcessorKeepsLink, GetScriptsLinks, ServeBatchLinks,
     GetBatchReplyLinks, GetBatchErrorLinks, GetBatchUndefinedLinks DEF Next, Test

LEMMA InitLink == Init => LinkInv
<1> SUFFICES ASSUME Init PROVE LinkInv
  OBVIOUS
<1>1. run.pc = "idle"
  BY DEF Init, Processor!Init, Processor!NoRun
<1>2. \A s \in Sessions : session[s].pc = "idle"
  BY DEF Init, Storage!Init, Storage!NewSession
<1> QED
  BY <1>1, <1>2 DEF LinkInv, Started

LEMMA StartedStep == ASSUME RunTyped, Started, [Next]_vars PROVE Started'
<1>1. CASE Process
  <2>1. runs' = runs + 1 /\ runs < MaxRuns /\ runs \in Nat
    BY <1>1 DEF Process, Processor!Process, RunTyped
  <2> QED
    BY <2>1, BoundsAssumption DEF Started, Sessions
<1>2. CASE Test
  <2>1. run.pc # "idle" /\ runs' = runs
    BY <1>2 DEF Test, ProcessorAlone, GetScripts, ServeBatch, GetBatchReply, GetBatchError,
       GetBatchUndefined, processorVars, Processor!RunContainer, Processor!PopenFails,
       Processor!InitScript, Processor!StartTest, Processor!Execute, Processor!ExecutorDies,
       Processor!ExecFails, Processor!FetchReport, Processor!FetchFromHost, Processor!FetchThrows,
       Processor!Commit, Processor!GetScripts, Processor!GetBatch,
       Processor!GetBatchError
  <2> QED
    BY <2>1 DEF Started, Sessions
<1>3. CASE StorageAlone \/ UNCHANGED vars
  BY <1>3 DEF StorageAlone, vars, processorVars, Started, Sessions
<1> QED
  BY <1>1, <1>2, <1>3 DEF Next

(* The invariants of the two parts hold of the whole. *)
LEMMA ProcessorInvariant == Spec => []P!RunInv
<1>1. ASSUME P!RunInv, [Next]_vars PROVE P!RunInv'
  BY <1>1, ProcessorStep, P!NextKeepsRun, AnswersFacts, ExecReportsAssumption, BoundsAssumption
<1> QED
  BY <1>1, InitProcessor, PTL DEF Spec

LEMMA StartedInvariant == Spec => []Started
<1>1. Init => Started
  BY InitLink DEF LinkInv
<1>2. RunTyped /\ Started /\ [Next]_vars => Started'
  BY StartedStep
<1> QED
  BY <1>1, <1>2, ProcessorInvariant, RunIsTyped, PTL DEF Spec

LEMMA StorageInvariant == Spec => []S!StorageAndSessions
<1>1. Started /\ [Next]_vars => [S!Next]_S!vars
  BY StorageStep
<1>2. Spec => S!Spec
  BY <1>1, InitStorage, StartedInvariant, PTL DEF Spec, S!Spec
<1> QED
  BY <1>2, StorageSpec, PTL

LEMMA LinkInvariant == Spec => []LinkInv
<1>1. LinkInv /\ RunTyped /\ SessionsTyped /\ SessionsTyped' /\ [Next]_vars => LinkInv'
  BY LinkStep
<1> QED
  BY <1>1, InitLink, ProcessorInvariant, RunIsTyped, StorageInvariant, SessionsAreTyped, PTL DEF Spec

----------------------------------------------------------------------------
(* An accepted submission has passed every test of every batch of its task. *)
LEMMA AcceptedFacts ==
    ASSUME P!RunInv, Accepted
    PROVE  /\ run.report \in Seq(P!Reported) /\ run.batchCount # 0 /\ run.batchIndex = run.batchCount
           /\ Len(run.report) = run.due /\ Len(run.report) \in 1..Len(run.report)
           /\ \A k \in 1..Len(run.report) :
                 run.report[k].verdict = "OK" /\ (run.report[k].answer # "" => run.report[k].basis # "not run")
<1>1. run.pc = "commit" /\ run.report # <<>> /\ \E k \in 1..Len(run.report) : run.report[k].basis # "host failed"
  BY DEF Accepted
<1>2. run.report \in Seq(P!Reported)
  BY DEF P!RunInv, P!Types, P!Run
<1>3. Len(run.report) \in Nat \ {0} /\ Len(run.report) \in 1..Len(run.report)
  <2>1. Len(run.report) \in Nat \ {0}
    BY <1>1, <1>2, EmptySeq
  <2> QED
    BY <2>1
<1>4. run.report[Len(run.report)].verdict = "OK"
  <2> PICK v : v = Processor!Verdicts(run.report)
    OBVIOUS
  <2>1. v = P!Verdicts(run.report)
    BY DEF Processor!Verdicts, P!Verdicts
  <2>2. Len(v) = Len(run.report) /\ \A k \in 1..Len(run.report) : v[k] = run.report[k].verdict
    BY <2>1, P!VerdictsFacts, AnswersFacts, ExecReportsAssumption, BoundsAssumption
  <2>3. v[Len(v)] = "OK"
    BY DEF Accepted, Processor!FinalVerdict
  <2> QED
    BY <1>3, <2>2, <2>3
<1>5. run.batchIndex = run.batchCount /\ Len(run.report) = run.due
  BY <1>1, <1>4 DEF P!RunInv, P!Accounted
<1>6. \A k \in 1..Len(run.report) : run.report[k].verdict = "OK"
  <2>1. \A k \in 1..Len(run.report) : k < Len(run.report) \/ k = Len(run.report)
    BY <1>3
  <2> QED
    BY <1>4, <2>1 DEF P!RunInv, P!StopsAtFailure
<1>7. container.execute
  BY <1>1, <1>6 DEF P!RunInv, P!Built
<1>8. run.batchCount # 0
  BY <1>1, <1>7 DEF P!RunInv, P!Built
<1>9. \A k \in 1..Len(run.report) : run.report[k].answer # "" => run.report[k].basis # "not run"
  BY <1>1, <1>6 DEF P!RunInv, P!OKWasRun
<1> QED
  BY <1>2, <1>3, <1>5, <1>6, <1>8, <1>9

(* Its session has been served to the end, unless the batches changed under it. *)
LEMMA AcceptedSession ==
    ASSUME P!RunInv, S!StorageAndSessions, LinkInv, Accepted, NEW x, x = session[runs]
    PROVE  /\ runs \in Sessions /\ S!Good(x) /\ x \in S!Session /\ x.pc \in {"done", "undefined"}
           /\ x.pc = "done" => Matches(x, run)
<1>1. run.pc = "commit"
  BY DEF Accepted
<1>2. run.batchCount # 0 /\ run.batchIndex = run.batchCount /\ Len(run.report) \in 1..Len(run.report)
      /\ \A k \in 1..Len(run.report) : run.report[k].verdict = "OK"
  BY AcceptedFacts
<1>3. runs \in Sessions /\ Linked(x, run)
  BY <1>1 DEF LinkInv, Started
<1>4. Follows(x, run)
  BY <1>1, <1>2, <1>3 DEF Linked
<1>5. S!Good(x) /\ x \in S!Session
  BY <1>3 DEF S!StorageAndSessions, S!SessionInv, S!Good, S!Typed
<1>6. x.pc \notin {"ready", "cursor"}
  <2> SUFFICES ASSUME x.pc \in {"ready", "cursor"} PROVE FALSE
    OBVIOUS
  <2>1. run.batchIndex = x.batchId /\ run.batchCount = x.batchCount
    BY <1>4 DEF Follows
  <2>2. x.batchId < x.batchCount /\ x.batchId \in Nat
    BY <1>5 DEF S!Good, S!Asking, S!Live, S!Session
  <2>3. x.batchId = x.batchCount
    BY <1>2, <2>1
  <2> QED
    BY <2>2, <2>3
<1>7. x.pc \notin {"failed", "idle"}
  BY <1>2, <1>4 DEF Follows
<1>8. x.pc \in S!Phases
  BY <1>5 DEF S!Session
<1> QED
  BY <1>3, <1>4, <1>5, <1>6, <1>7, <1>8 DEF Follows, S!Phases

(***************************************************************************)
(* From PUT /uploadTests to the verdict of TTestingProcessor::Process: the *)
(* invariants of tabasco and of the processor and the link between them    *)
(* give that an accepted submission has passed the tests of the last       *)
(* accepted upload of its task, each of them and no other, and was run on  *)
(* those that expect output, unless the host failed or the checker was     *)
(* killed there.  The hypotheses: no upload of the task under way at       *)
(* GetScripts (calm), none empty, the earlier ones made one at a time      *)
(* (solo), none broken off since the last accepted one (torn), and a host  *)
(* that did not fail at every test (Accepted).                             *)
(***************************************************************************)
THEOREM AcceptedPassedItsTests == Spec => []AcceptedOnItsTests
<1>1. P!RunInv /\ S!StorageAndSessions /\ LinkInv => AcceptedOnItsTests
  <2> SUFFICES ASSUME P!RunInv, S!StorageAndSessions, LinkInv, Accepted, NEW x, x = session[runs],
                      x.calm, x.solo, ~x.torn,
                      \A u \in Storage!UploadsOf(x.task) : Storage!TestsOf(u) > 0
               PROVE  /\ x.base # 0 /\ Len(run.report) = Storage!TestsOf(x.base)
                      /\ \A k \in 1..Len(run.report) :
                            /\ run.report[k].answer = TextOf(x.base)
                            /\ run.report[k].answer # "" => run.report[k].basis # "not run"
    BY DEF AcceptedOnItsTests, Current
  <2>1. /\ S!Good(x) /\ x.pc \in {"done", "undefined"} /\ (x.pc = "done" => Matches(x, run))
    BY AcceptedSession
  <2>2. x.pc = "done"
    <3> SUFFICES ASSUME x.pc = "undefined" PROVE FALSE
      BY <2>1
    <3>1. PICK u \in S!UploadsOf(x.task) : S!TestsOf(u) = 0
      BY <2>1 DEF S!Good, S!Blamed
    <3>2. u \in Storage!UploadsOf(x.task) /\ Storage!TestsOf(u) = 0
      BY <3>1 DEF S!UploadsOf, Storage!UploadsOf, S!TestsOf, Storage!TestsOf
    <3> QED
      BY <3>2
  <2>3. Matches(x, run)
    BY <2>1, <2>2
  <2>4. x.base \in 1..Len(uploads) /\ x.served = S!All(S!TestsOf(x.base), x.base)
    BY <2>1, <2>2 DEF S!Good, S!Fulfilled, S!Sure
  <2>5. Len(uploads) \in Nat /\ S!TestsOf(x.base) \in Nat
    <3>1. S!TypeOK
      BY DEF S!StorageAndSessions, S!StorageInv
    <3>2. S!TestsOf(x.base) \in Nat
      BY <2>4, <3>1, S!UploadFacts, RequestsAssumption, BoundsAssumption
    <3> QED
      BY <3>1, <3>2 DEF S!TypeOK
  <2>6. Len(x.served) = S!TestsOf(x.base)
        /\ \A k \in 1..S!TestsOf(x.base) : x.served[k][2] = x.base
    BY <2>4, <2>5 DEF S!All
  <2>7. Len(run.report) = Len(x.served)
        /\ \A k \in 1..Len(run.report) : run.report[k].answer # "" => run.report[k].basis # "not run"
    BY <2>3, AcceptedFacts DEF Matches
  <2>8. \A k \in 1..Len(run.report) : run.report[k].answer = TextOf(x.base)
    BY <2>3, <2>6, <2>7 DEF Matches
  <2>9. x.base # 0
    BY <2>4, <2>5
  <2>10. Storage!TestsOf(x.base) = S!TestsOf(x.base)
    BY DEF S!TestsOf, Storage!TestsOf
  <2> QED
    BY <2>6, <2>7, <2>8, <2>9, <2>10
<1> QED
  BY <1>1, ProcessorInvariant, StorageInvariant, LinkInvariant, PTL

(***************************************************************************)
(* Also while uploads are under way what an accepted submission has passed *)
(* is not older than the last upload accepted before GetScripts.  The      *)
(* hypotheses: the uploads before it were made one at a time (solo), every *)
(* batch it asked for was defined (pc = "done"), and the host did not fail *)
(* at every test (Accepted).                                               *)
(***************************************************************************)
THEOREM AcceptedPassedNothingOlder == Spec => []AcceptedOnNothingOlder
<1>1. P!RunInv /\ S!StorageAndSessions /\ LinkInv => AcceptedOnNothingOlder
  <2> SUFFICES ASSUME P!RunInv, S!StorageAndSessions, LinkInv, Accepted, NEW x, x = session[runs],
                      x.solo, x.pc = "done", NEW k \in 1..Len(run.report)
               PROVE  \E u \in x.base..MaxUploads : run.report[k].answer = TextOf(u)
    BY DEF AcceptedOnNothingOlder, Current
  <2>1. runs \in Sessions /\ x \in S!Session /\ Matches(x, run)
    BY AcceptedSession
  <2>2. S!UpToDate(x)
    BY <2>1 DEF S!StorageAndSessions, S!RecentInv, S!SessionsRecent
  <2>3. Len(run.report) = Len(x.served)
    BY <2>1, AcceptedFacts DEF Matches
  <2>4. k \in 1..Len(x.served)
    BY <2>3
  <2>5. x.served \in S!Served /\ x.base \in S!UploadIds
    BY <2>1 DEF S!Session
  <2> PICK u : u = x.served[k][2]
    OBVIOUS
  <2>6. u >= x.base
    BY <2>2, <2>4 DEF S!UpToDate, S!ServedRecent
  <2>7. u \in S!UploadIds
    <3>1. x.served[k] \in S!UploadIds \X S!UploadIds
      BY <2>4, <2>5 DEF S!Served
    <3> QED
      BY <3>1
  <2>8. u \in x.base..MaxUploads
    BY <2>5, <2>6, <2>7, BoundsAssumption DEF S!UploadIds
  <2>9. run.report[k].answer = TextOf(u)
    BY <2>1 DEF Matches
  <2> QED
    BY <2>8, <2>9
<1> QED
  BY <1>1, ProcessorInvariant, StorageInvariant, LinkInvariant, PTL

(***************************************************************************)
(* The processor keeps the safety part of KeepsPromise also with a tabasco *)
(* whose answers come step by step, are undefined or fail to come: what    *)
(* Process commits for a submission stops at the first failure, and while  *)
(* it is at work nothing is committed.                                     *)
(***************************************************************************)
THEOREM WholeKeepsPromise ==
    Spec => Processor!Promise!Init /\ [][Processor!Promise!Next]_<<run.pc # "idle", outcome>>
<1>1. Processor!Promise!Init = P!Promise!Init /\ Processor!Promise!Next = P!Promise!Next
  BY DEF Processor!Promise!Init, P!Promise!Init, Processor!Promise!Next, P!Promise!Next,
         Processor!Promise!Begin, P!Promise!Begin, Processor!Promise!End, P!Promise!End,
         Processor!Promise!NoOutcome, P!Promise!NoOutcome, Processor!Promise!Reports,
         P!Promise!Reports, Processor!Promise!Verdict, P!Promise!Verdict
<1>2. Init => Processor!Promise!Init
  BY <1>1, InitProcessorState, P!PromiseInit, AnswersFacts, ExecReportsAssumption, BoundsAssumption
<1>3. ASSUME P!RunInv, [Next]_vars PROVE [Processor!Promise!Next]_<<run.pc # "idle", outcome>>
  <2>1. [P!Promise!Next]_<<run.pc # "idle", outcome>>
    BY <1>3, ProcessorStep, P!PromiseStep, AnswersFacts, ExecReportsAssumption, BoundsAssumption
  <2> QED
    BY <1>1, <2>1
<1> QED
  BY <1>2, <1>3, ProcessorInvariant, PTL DEF Spec
=============================================================================
