--------------------------- MODULE TestRunProofs ---------------------------
(***************************************************************************)
(* Proofs about TestRun: what a report of Process says, for any number of  *)
(* batches, tests, submissions and containers, and that Process keeps the  *)
(* safety part of its promise to the broker client, ProcessSpec.           *)
(***************************************************************************)
EXTENDS TestRun, SequenceTheorems, TLAPS

----------------------------------------------------------------------------
(* The types of TypeOK as record types. *)
Reported == [verdict : Verdict, answer : Outputs, basis : Bases]
Pcs == {"idle", "container", "prepare", "init", "test", "batch", "exec", "fetch", "commit"}
Run == [pc : Pcs, batchCount : Nat, batchIndex : Nat, tests : Seq(Outputs),
        basis : Bases, report : Seq(Reported), due : Nat]
ReportFile == ExecReports \cup {NoReport}
Container == [up : BOOLEAN, execute : BOOLEAN, report : ReportFile]
Files == [userOutput : Outputs, report : ReportFile]
Outcome == [posted : BOOLEAN, verdicts : Seq(Verdict)]

Types ==
    /\ run \in Run /\ run.batchCount <= MaxBatches /\ run.batchIndex <= run.batchCount
    /\ container \in Container
    /\ files \in Files
    /\ containers \in Nat /\ containers <= Capacity
    /\ outcome \in Outcome
    /\ runs \in Nat /\ runs <= MaxRuns

(* Before Test begins there is nothing to report; until init.sh is over there is no execute.sh. *)
Fresh ==
    /\ run.pc \in {"idle", "container", "prepare", "init", "test"} =>
          run.report = <<>> /\ run.tests = <<>> /\ run.due = 0 /\ run.batchIndex = 0
    /\ run.pc \in {"container", "prepare", "init"} => ~container.execute
    /\ run.pc = "init" => run.batchCount # 0

(* execute.sh is there only for a task with batches, and without it no report says success. *)
Built ==
    /\ run.pc # "idle" /\ container.execute => run.batchCount # 0
    /\ ~container.execute => container.report.exitCode # 0
    /\ \A k \in 1..Len(run.report) : run.report[k].verdict = "OK" => run.report[k].basis = "host failed" \/ container.execute

(* The report goes on only after OK. *)
StopsAtFailure ==
    \A k \in 1..Len(run.report) : k < Len(run.report) \/ run.pc # "commit" => run.report[k].verdict = "OK"

(* Every test is reported, at hand, or not fetched yet. *)
Accounted ==
    /\ run.pc \in {"batch", "exec", "fetch"} => Len(run.report) + Len(run.tests) = run.due
    /\ run.pc = "batch" => run.tests = <<>>
    /\ run.pc \in {"exec", "fetch"} => run.tests # <<>>
    /\ run.pc = "commit" /\ run.report # <<>> /\ run.report[Len(run.report)].verdict = "OK" =>
          Len(run.report) = run.due /\ run.batchIndex = run.batchCount

(* The length of a report: one entry for each test, and one for a batch that was not served. *)
Bounded ==
    /\ run.batchCount # 0 => run.due <= run.batchIndex * MaxBatchTests /\ Len(run.report) <= run.due + 1
    /\ run.batchCount = 0 => run.due <= 1 /\ Len(run.report) <= run.due

(* Without a run the output is empty, unless the host failed. *)
Fetched == run.pc = "fetch" /\ run.basis = "not run" => files.userOutput = ""

(* While a submission is processed nothing was posted for it. *)
Quiet == run.pc # "idle" => outcome = NoOutcome

RunInv ==
    /\ Types /\ Fresh /\ Built /\ StopsAtFailure /\ Accounted /\ Bounded /\ Fetched /\ Quiet /\ OKWasRun

----------------------------------------------------------------------------
(* Facts about the operators. *)

LEMMA NoRunFacts ==
    /\ NoRun \in Run /\ NoRun.pc = "idle" /\ NoRun.batchCount = 0 /\ NoRun.batchIndex = 0
    /\ NoRun.tests = <<>> /\ NoRun.report = <<>> /\ NoRun.due = 0
<1>1. <<>> \in Seq(Outputs) /\ <<>> \in Seq(Reported)
  OBVIOUS
<1> QED
  BY <1>1 DEF NoRun, Run, Pcs, Bases

LEMMA NoContainerFacts ==
    /\ NoContainer \in Container /\ NoContainer.execute = FALSE /\ NoContainer.report.exitCode # 0
<1>1. NoReport \in ReportFile /\ NoReport.exitCode = 2
  BY DEF ReportFile, NoReport
<1>2. NoContainer \in Container /\ NoContainer.execute = FALSE /\ NoContainer.report = NoReport
  BY <1>1 DEF NoContainer, Container
<1> QED
  BY <1>1, <1>2

LEMMA NoOutcomeFacts == NoOutcome \in Outcome
<1>1. <<>> \in Seq(Verdict)
  OBVIOUS
<1> QED
  BY <1>1 DEF NoOutcome, Outcome

LEMMA VerdictType ==
    ASSUME NEW report, NEW checkerStatus
    PROVE  VerdictOf(report, checkerStatus) \in Verdict
<1>1. CheckOutput(checkerStatus) \in Verdict
  BY DEF CheckOutput, Verdict
<1> QED
  BY <1>1 DEF VerdictOf, Verdict

(* OK needs a report of success and the right output, or a checker that says nothing about it. *)
LEMMA OKMeans ==
    ASSUME NEW report, NEW checkerStatus \in CheckerStatuses, VerdictOf(report, checkerStatus) = "OK"
    PROVE  /\ report.exitCode = 0
           /\ checkerStatus # "killed" /\ run.basis # "host failed" => files.userOutput = Head(run.tests)
<1>1. report.exitCode = 0 /\ CheckOutput(checkerStatus) = "OK"
  BY DEF VerdictOf
<1>2. checkerStatus \in {"exit 0", "killed"}
  BY <1>1 DEF CheckOutput
<1> QED
  BY <1>1, <1>2 DEF CheckerStatuses, Comparison

LEMMA OutputsFacts == "" \in Outputs /\ Answers \subseteq Outputs
  BY DEF Outputs

LEMMA SingleFacts == ASSUME NEW S, NEW e \in S PROVE <<e>> \in Seq(S) /\ Len(<<e>>) = 1 /\ <<e>> # <<>>
  OBVIOUS

(* An entry of a report that grew is an old one or the new one. *)
LEMMA AppendFacts ==
    ASSUME NEW S, NEW q \in Seq(S), NEW e \in S
    PROVE  /\ Append(q, e) \in Seq(S) /\ Len(Append(q, e)) = Len(q) + 1 /\ Append(q, e) # <<>>
           /\ Append(q, e)[Len(q) + 1] = e
           /\ \A k \in 1..(Len(q) + 1) : (k \in 1..Len(q) /\ Append(q, e)[k] = q[k]) \/ k = Len(q) + 1
<1>1. Append(q, e) \in Seq(S) /\ Len(Append(q, e)) = Len(q) + 1 /\ Len(q) \in Nat
  OBVIOUS
<1>2. Append(q, e) # <<>>
  BY <1>1
<1>3. Append(q, e)[Len(q) + 1] = e
  OBVIOUS
<1>4. \A k \in 1..(Len(q) + 1) : (k \in 1..Len(q) /\ Append(q, e)[k] = q[k]) \/ k = Len(q) + 1
  BY <1>1
<1> QED
  BY <1>1, <1>2, <1>3, <1>4

Grown(r, q, e) ==
    /\ r = Append(q, e) /\ Len(r) = Len(q) + 1 /\ r # <<>> /\ r[Len(r)] = e
    /\ \A k \in 1..Len(r) : (k \in 1..Len(q) /\ r[k] = q[k]) \/ k = Len(r)

LEMMA ReportGrows ==
    ASSUME NEW q \in Seq(Reported), NEW e \in Reported
    PROVE  \E r \in Seq(Reported) : Grown(r, q, e)
<1> DEFINE r == Append(q, e)
<1>1. /\ r \in Seq(Reported) /\ Len(r) = Len(q) + 1 /\ r # <<>>
      /\ r[Len(q) + 1] = e
      /\ \A k \in 1..(Len(q) + 1) : (k \in 1..Len(q) /\ r[k] = q[k]) \/ k = Len(q) + 1
  BY AppendFacts
<1>2. r = Append(q, e)
  OBVIOUS
<1> HIDE DEF r
<1>3. Grown(r, q, e)
  BY <1>1, <1>2 DEF Grown
<1> QED
  BY <1>1, <1>3

LEMMA EntryType ==
    ASSUME NEW v \in Verdict, NEW answer \in Outputs, NEW basis \in Bases
    PROVE  /\ Entry(v, answer, basis) \in Reported /\ Entry(v, answer, basis).verdict = v
           /\ Entry(v, answer, basis).answer = answer /\ Entry(v, answer, basis).basis = basis
  BY DEF Entry, Reported

LEMMA OneMovesOver ==
    \A a, b, c \in Nat : a + b = c /\ b >= 1 => (a + 1) + (b - 1) = c /\ a + 1 <= c
  OBVIOUS

LEMMA NextBatchBound ==
    ASSUME NEW i \in Nat, NEW due \in Nat, NEW n \in Nat,
           due <= i * MaxBatchTests, n <= MaxBatchTests
    PROVE  due + n <= (i + 1) * MaxBatchTests
<1>1. (i + 1) * MaxBatchTests = i * MaxBatchTests + MaxBatchTests
  BY BoundsAssumption
<1>2. i * MaxBatchTests \in Nat
  BY BoundsAssumption
<1> QED
  BY <1>1, <1>2, BoundsAssumption

LEMMA TestsFacts ==
    ASSUME NEW q \in Seq(Outputs), q # <<>>
    PROVE  /\ Len(q) \in Nat /\ Len(q) >= 1 /\ Head(q) \in Outputs
           /\ Tail(q) \in Seq(Outputs) /\ Len(Tail(q)) = Len(q) - 1
           /\ Len(q) = 1 <=> Tail(q) = <<>>
<1>1. Len(q) \in Nat /\ Len(q) >= 1
  BY EmptySeq
<1>2. Head(q) \in Outputs
  BY <1>1, HeadTailProperties
<1>3. Tail(q) \in Seq(Outputs) /\ Len(Tail(q)) = Len(q) - 1
  BY HeadTailProperties
<1>4. Tail(q) = <<>> => Len(Tail(q)) = 0
  <2>1. Len(<<>>) = 0
    BY EmptySeq
  <2> QED
    BY <2>1, Zenon
<1>5. Tail(q) # <<>> => Len(Tail(q)) \in Nat \ {0}
  BY <1>3, EmptySeq
<1> QED
  BY <1>1, <1>2, <1>3, <1>4, <1>5

LEMMA BatchType == ASSUME NEW tests \in Batch
                   PROVE  tests \in Seq(Outputs) /\ Len(tests) \in Nat /\ Len(tests) <= MaxBatchTests
<1>1. PICK n \in 0..MaxBatchTests : tests \in [1..n -> Answers]
  BY DEF Batch
<1>2. n \in Nat /\ n <= MaxBatchTests
  BY BoundsAssumption
<1>3. tests \in [1..n -> Outputs]
  BY <1>1, OutputsFacts
<1>4. tests \in Seq(Outputs) /\ Len(tests) = n
  BY <1>2, <1>3
<1> QED
  BY <1>2, <1>4

LEMMA RunFacts ==
    ASSUME RunInv
    PROVE  /\ run \in Run /\ run.pc \in Pcs /\ run.batchCount \in Nat /\ run.batchIndex \in Nat /\ run.due \in Nat
           /\ run.tests \in Seq(Outputs) /\ run.report \in Seq(Reported)
           /\ Len(run.report) \in Nat /\ Len(run.tests) \in Nat
           /\ container \in Container /\ container.report \in ReportFile
           /\ files \in Files /\ files.report \in ReportFile
<1>1. run \in Run /\ container \in Container /\ files \in Files
  BY DEF RunInv, Types
<1>2. run.tests \in Seq(Outputs) /\ run.report \in Seq(Reported)
  BY <1>1 DEF Run
<1> QED
  BY <1>1, <1>2 DEF Run, Container, Files

----------------------------------------------------------------------------
(* A run that has nothing to report yet. *)
Blank(r) == r.report = <<>> /\ r.tests = <<>> /\ r.due = 0 /\ r.batchIndex = 0

LEMMA BlankKeeps ==
    ASSUME Blank(run), run.batchCount \in Nat,
           run.pc \in {"idle", "container", "prepare", "init", "test"}
    PROVE  StopsAtFailure /\ Accounted /\ Bounded /\ Fetched /\ OKWasRun
           /\ \A k \in 1..Len(run.report) : FALSE
<1>1. Len(run.report) = 0 /\ \A k \in 1..Len(run.report) : FALSE
  BY DEF Blank
<1>2. Bounded
  <2>1. 0 * MaxBatchTests = 0
    BY BoundsAssumption
  <2> QED
    BY <1>1, <2>1 DEF Bounded, Blank
<1> QED
  BY <1>1, <1>2 DEF Blank, StopsAtFailure, Accounted, Fetched, OKWasRun

LEMMA BlankKeepsPrimed ==
    ASSUME Blank(run)', run'.batchCount \in Nat,
           run'.pc \in {"idle", "container", "prepare", "init", "test"}
    PROVE  StopsAtFailure' /\ Accounted' /\ Bounded' /\ Fetched' /\ OKWasRun'
           /\ \A k \in 1..Len(run'.report) : FALSE
<1>1. Len(run'.report) = 0 /\ \A k \in 1..Len(run'.report) : FALSE
  BY DEF Blank
<1>2. Bounded'
  <2>1. 0 * MaxBatchTests = 0
    BY BoundsAssumption
  <2> QED
    BY <1>1, <2>1 DEF Bounded, Blank
<1> QED
  BY <1>1, <1>2 DEF Blank, StopsAtFailure, Accounted, Fetched, OKWasRun

LEMMA InitRun == Init => RunInv
<1> SUFFICES ASSUME Init PROVE RunInv
  OBVIOUS
<1>1. files \in Files
  BY OutputsFacts DEF Init, Files, ReportFile
<1>2. run \in Run /\ run.batchCount = 0 /\ run.batchIndex = 0 /\ run.pc = "idle" /\ Blank(run)
  BY NoRunFacts DEF Init, Blank
<1>3. Types
  <2>1. 0 \in Nat /\ 0 <= Capacity /\ 0 <= MaxRuns /\ 0 <= MaxBatches /\ 0 <= 0
    BY CapacityAssumption, BoundsAssumption
  <2>2. container \in Container /\ outcome \in Outcome /\ containers = 0 /\ runs = 0
    BY NoContainerFacts, NoOutcomeFacts DEF Init
  <2> QED
    BY <1>1, <1>2, <2>1, <2>2 DEF Types
<1>4. StopsAtFailure /\ Accounted /\ Bounded /\ Fetched /\ OKWasRun /\ \A k \in 1..Len(run.report) : FALSE
  BY <1>2, BlankKeeps
<1> QED
  BY <1>2, <1>3, <1>4, NoContainerFacts DEF Init, RunInv, Fresh, Built, Quiet, Blank

(* Process ends: the instance is idle again. *)
LEMMA EndKeeps ==
    ASSUME RunInv, run' = NoRun, UNCHANGED <<container, containers, runs>>,
           files' \in Files, outcome' \in Outcome
    PROVE  RunInv'
<1>1. run' \in Run /\ run'.batchCount = 0 /\ run'.batchIndex = 0 /\ run'.pc = "idle" /\ Blank(run)'
  BY NoRunFacts DEF Blank
<1>2. Types'
  <2>1. 0 <= MaxBatches /\ 0 <= 0
    BY BoundsAssumption
  <2> QED
    BY <1>1, <2>1 DEF RunInv, Types
<1>3. StopsAtFailure' /\ Accounted' /\ Bounded' /\ Fetched' /\ OKWasRun' /\ \A k \in 1..Len(run'.report) : FALSE
  BY <1>1, BlankKeepsPrimed
<1> QED
  BY <1>1, <1>2, <1>3 DEF RunInv, Fresh, Built, Quiet, Blank

LEMMA ProcessKeeps == ASSUME RunInv, Process PROVE RunInv'
<1> DEFINE new == [NoRun EXCEPT !.pc = "container"]
<1>1. /\ new \in Run /\ new.pc = "container" /\ new.batchCount = 0 /\ new.batchIndex = 0 /\ Blank(new)
  BY NoRunFacts DEF Run, Pcs, Blank
<1>2. run' = new /\ container' = NoContainer /\ outcome' = NoOutcome /\ UNCHANGED <<files, containers>>
  BY DEF Process
<1>3. runs' \in Nat /\ runs' <= MaxRuns
  BY BoundsAssumption DEF Process, RunInv, Types
<1> HIDE DEF new
<1>4. run' \in Run /\ run'.batchCount = 0 /\ run'.batchIndex = 0 /\ run'.pc = "container" /\ Blank(run)'
  BY <1>1, <1>2 DEF Blank
<1>5. Types'
  <2>1. 0 <= MaxBatches /\ 0 <= 0
    BY BoundsAssumption
  <2> QED
    BY <1>2, <1>3, <1>4, <2>1, NoContainerFacts, NoOutcomeFacts DEF RunInv, Types
<1>6. StopsAtFailure' /\ Accounted' /\ Bounded' /\ Fetched' /\ OKWasRun' /\ \A k \in 1..Len(run'.report) : FALSE
  BY <1>4, BlankKeepsPrimed
<1> QED
  BY <1>2, <1>4, <1>5, <1>6, NoContainerFacts DEF RunInv, Fresh, Built, Quiet, Blank

LEMMA EndSteps ==
    ASSUME RunInv, PopenFails \/ FetchThrows \/ Commit
    PROVE  RunInv'
<1>1. CASE PopenFails
  BY <1>1, EndKeeps DEF PopenFails, RunInv, Types
<1>2. CASE FetchThrows
  <2>1. files' = [files EXCEPT !.report = NoReport] /\ NoReport \in ReportFile
    BY <1>2 DEF FetchThrows, ReportFile
  <2>2. files' \in Files
    BY <2>1, RunFacts DEF Files
  <2> QED
    BY <1>2, <2>2, EndKeeps DEF FetchThrows, RunInv, Types
<1>3. CASE Commit
  <2>1. Verdicts(run.report) \in Seq(Verdict)
    <3>1. \A k \in 1..Len(run.report) : run.report[k] \in Reported
      BY RunFacts
    <3>2. \A k \in 1..Len(run.report) : run.report[k].verdict \in Verdict
      BY <3>1 DEF Reported
    <3> QED
      BY <3>2, RunFacts DEF Verdicts
  <2>2. outcome' \in Outcome
    BY <1>3, <2>1 DEF Commit, Outcome
  <2> QED
    BY <1>3, <2>2, EndKeeps DEF Commit, Kill, RunInv, Types
<1> QED
  BY <1>1, <1>2, <1>3

----------------------------------------------------------------------------
(* The container and Prepare: nothing is reported, and execute.sh needs batches. *)
LEMMA PrepareKeeps ==
    ASSUME RunInv, run'.pc \in {"prepare", "init", "test"}, run' \in Run, run'.batchCount <= MaxBatches,
           run.pc \in {"container", "prepare", "init"},
           run'.tests = run.tests, run'.report = run.report, run'.due = run.due, run'.batchIndex = run.batchIndex,
           run'.pc = "init" => run'.batchCount # 0,
           container' \in Container, container'.report = container.report,
           container'.execute => run'.pc = "test" /\ run'.batchCount # 0,
           containers' \in Nat, containers' <= Capacity,
           UNCHANGED <<files, outcome, runs>>
    PROVE  RunInv'
<1>1. Blank(run) /\ ~container.execute
  BY DEF RunInv, Fresh, Blank
<1>2. Blank(run)'
  BY <1>1 DEF Blank
<1>3. run'.batchCount \in Nat /\ run'.batchIndex = 0 /\ run'.batchIndex <= run'.batchCount
  BY <1>2 DEF Run, Blank
<1>4. Types'
  BY <1>3 DEF RunInv, Types
<1>5. StopsAtFailure' /\ Accounted' /\ Bounded' /\ Fetched' /\ OKWasRun' /\ \A k \in 1..Len(run'.report) : FALSE
  BY <1>2, <1>3, BlankKeepsPrimed
<1>6. Fresh'
  BY <1>2 DEF Fresh, Blank
<1>7. Built'
  BY <1>1, <1>5 DEF RunInv, Built
<1>8. Quiet'
  BY DEF RunInv, Quiet
<1> QED
  BY <1>4, <1>5, <1>6, <1>7, <1>8 DEF RunInv

LEMMA RunContainerKeeps == ASSUME RunInv, RunContainer PROVE RunInv'
<1>1. run' = [run EXCEPT !.pc = "prepare"] /\ UNCHANGED <<files, outcome, runs>> /\ run.pc = "container"
  BY DEF RunContainer
<1>2. /\ run' \in Run /\ run'.pc = "prepare" /\ run'.batchCount = run.batchCount /\ run'.batchIndex = run.batchIndex
      /\ run'.tests = run.tests /\ run'.report = run.report /\ run'.due = run.due
  BY <1>1, RunFacts DEF Run, Pcs
<1>3. run'.batchCount <= MaxBatches
  BY <1>2 DEF RunInv, Types
<1>4. /\ container' \in Container /\ container'.report = container.report
      /\ container'.execute = container.execute
  BY RunFacts DEF RunContainer, Container
<1>5. containers' \in Nat /\ containers' <= Capacity
  BY CapacityAssumption DEF RunContainer, Full, RunInv, Types
<1>6. ~container.execute
  BY <1>1 DEF RunInv, Fresh
<1> QED
  BY <1>1, <1>2, <1>3, <1>4, <1>5, <1>6, PrepareKeeps

LEMMA GetScriptsKeeps == ASSUME RunInv, GetScripts PROVE RunInv'
<1>1. run.pc = "prepare" /\ UNCHANGED <<container, files, containers, outcome, runs>>
  BY DEF GetScripts
<1>2. ~container.execute /\ container \in Container /\ containers \in Nat /\ containers <= Capacity
      /\ run.batchCount <= MaxBatches
  BY <1>1 DEF RunInv, Fresh, Types
<1>3. CASE run' = [run EXCEPT !.pc = "test"]
  <2>1. /\ run' \in Run /\ run'.pc = "test" /\ run'.batchCount = run.batchCount /\ run'.batchIndex = run.batchIndex
        /\ run'.tests = run.tests /\ run'.report = run.report /\ run'.due = run.due
    BY <1>3, RunFacts DEF Run, Pcs
  <2> QED
    BY <1>1, <1>2, <2>1, PrepareKeeps
<1>4. CASE \E n \in 1..MaxBatches : run' = [run EXCEPT !.pc = "init", !.batchCount = n]
  <2>1. PICK n \in 1..MaxBatches : run' = [run EXCEPT !.pc = "init", !.batchCount = n]
    BY <1>4
  <2>2. n \in Nat /\ n # 0 /\ n <= MaxBatches
    BY BoundsAssumption
  <2>3. /\ run' \in Run /\ run'.pc = "init" /\ run'.batchCount = n /\ run'.batchIndex = run.batchIndex
        /\ run'.tests = run.tests /\ run'.report = run.report /\ run'.due = run.due
    BY <2>1, <2>2, RunFacts DEF Run, Pcs
  <2> QED
    BY <1>1, <1>2, <2>2, <2>3, PrepareKeeps
<1> QED
  BY <1>3, <1>4 DEF GetScripts

LEMMA InitScriptKeeps == ASSUME RunInv, InitScript PROVE RunInv'
<1>1. run' = [run EXCEPT !.pc = "test"] /\ UNCHANGED <<files, containers, outcome, runs>> /\ run.pc = "init"
  BY DEF InitScript
<1>2. /\ run' \in Run /\ run'.pc = "test" /\ run'.batchCount = run.batchCount /\ run'.batchIndex = run.batchIndex
      /\ run'.tests = run.tests /\ run'.report = run.report /\ run'.due = run.due
  BY <1>1, RunFacts DEF Run, Pcs
<1>3. run.batchCount # 0 /\ run.batchCount <= MaxBatches /\ containers \in Nat /\ containers <= Capacity
  BY <1>1 DEF RunInv, Fresh, Types
<1>4. container' \in Container /\ container'.report = container.report
  <2>1. PICK created \in BOOLEAN : container' = [container EXCEPT !.execute = CreateFile(created)]
    BY DEF InitScript
  <2>2. CreateFile(created) \in BOOLEAN
    BY DEF CreateFile
  <2> QED
    BY <2>1, <2>2, RunFacts DEF Container
<1> QED
  BY <1>1, <1>2, <1>3, <1>4, PrepareKeeps

(* Without batches one test on empty files is due. *)
LEMMA StartTestKeeps == ASSUME RunInv, StartTest PROVE RunInv'
<1>1. run.pc = "test" /\ UNCHANGED <<container, files, containers, outcome, runs>>
  BY DEF StartTest
<1>2. run.report = <<>> /\ run.tests = <<>> /\ run.due = 0 /\ run.batchIndex = 0 /\ run.batchCount \in Nat
      /\ Len(run.report) = 0
  BY <1>1, RunFacts DEF RunInv, Fresh
<1>3. CASE run.batchCount = 0
  <2>1. run' = [run EXCEPT !.pc = "exec", !.tests = <<"">>, !.due = 1]
    BY <1>3 DEF StartTest
  <2>2. PICK one \in Seq(Outputs) : one = <<"">> /\ Len(one) = 1 /\ one # <<>>
    BY OutputsFacts, SingleFacts
  <2>3. /\ run' \in Run /\ run'.pc = "exec" /\ run'.batchCount = 0 /\ run'.batchIndex = 0
        /\ run'.tests = one /\ run'.report = <<>> /\ run'.due = 1
    BY <1>2, <1>3, <2>1, <2>2, RunFacts DEF Run, Pcs
  <2>4. Len(run'.report) = 0 /\ Len(run'.tests) = 1
    BY <2>2, <2>3
  <2>5. Types'
    BY <1>1, <1>2, <1>3, <2>3 DEF RunInv, Types
  <2>6. Accounted' /\ Bounded'
    <3>1. Bounded'
      BY <2>3, <2>4 DEF Bounded
    <3>2. run'.tests # <<>>
      BY <2>2, <2>3, Zenon
    <3>3. Len(run'.report) + Len(run'.tests) = run'.due
      BY <2>3, <2>4
    <3> QED
      BY <2>3, <3>1, <3>2, <3>3 DEF Accounted
  <2> QED
    BY <1>1, <1>3, <2>3, <2>4, <2>5, <2>6 DEF RunInv, Fresh, Built, StopsAtFailure, Fetched, Quiet, OKWasRun
<1>4. CASE run.batchCount # 0
  <2>1. run' = [run EXCEPT !.pc = "batch"]
    BY <1>4 DEF StartTest
  <2>2. /\ run' \in Run /\ run'.pc = "batch" /\ run'.batchCount = run.batchCount /\ run'.batchIndex = 0
        /\ run'.tests = <<>> /\ run'.report = <<>> /\ run'.due = 0
    BY <1>2, <2>1, RunFacts DEF Run, Pcs
  <2>3. Len(run'.report) = 0 /\ Len(run'.tests) = 0
    BY <2>2
  <2>4. Types'
    BY <1>1, <1>2, <2>2 DEF RunInv, Types
  <2>5. Bounded'
    BY <1>2, <1>4, <2>2, <2>3 DEF RunInv, Bounded
  <2>6. Accounted'
    BY <2>2, <2>3 DEF Accounted
  <2> QED
    BY <1>1, <1>4, <2>2, <2>3, <2>4, <2>5, <2>6 DEF RunInv, Fresh, Built, StopsAtFailure, Fetched, Quiet, OKWasRun
<1> QED
  BY <1>3, <1>4

----------------------------------------------------------------------------
(* A batch is fetched: its tests are due, and the bound grows with the index. *)
LEMMA GetBatchKeeps == ASSUME RunInv, GetBatch PROVE RunInv'
<1>1. run.pc = "batch" /\ run.batchIndex < run.batchCount /\ UNCHANGED <<container, files, containers, outcome, runs>>
  BY DEF GetBatch
<1>2. PICK tests \in Batch :
        run' = [run EXCEPT !.tests = tests, !.due = run.due + Len(tests), !.batchIndex = run.batchIndex + 1,
                           !.pc = IF tests = <<>> THEN NextBatch(run.batchIndex + 1) ELSE "exec"]
  BY DEF GetBatch
<1>3. tests \in Seq(Outputs) /\ Len(tests) \in Nat /\ Len(tests) <= MaxBatchTests
  BY BatchType
<1>4. PICK pc \in {"batch", "exec", "commit"} :
        /\ pc = IF tests = <<>> THEN NextBatch(run.batchIndex + 1) ELSE "exec"
        /\ pc = "exec" <=> tests # <<>>
        /\ pc = "commit" => ~(run.batchIndex + 1 < run.batchCount)
  BY DEF NextBatch
<1>5. run.due + Len(tests) \in Nat /\ run.batchIndex + 1 \in Nat /\ run.batchIndex + 1 <= run.batchCount
  BY <1>1, <1>3, RunFacts
<1>6. /\ run' \in Run /\ run'.pc = pc /\ run'.batchCount = run.batchCount /\ run'.batchIndex = run.batchIndex + 1
      /\ run'.tests = tests /\ run'.report = run.report /\ run'.due = run.due + Len(tests)
  <2>1. run' = [run EXCEPT !.tests = tests, !.due = run.due + Len(tests), !.batchIndex = run.batchIndex + 1, !.pc = pc]
    BY <1>2, <1>4
  <2>2. pc \in Pcs
    BY DEF Pcs
  <2> QED
    BY <1>3, <1>5, <2>1, <2>2, RunFacts DEF Run
<1>7. Types'
  BY <1>1, <1>5, <1>6 DEF RunInv, Types
<1>8. Len(run.report) = run.due
  <2>1. run.tests = <<>> /\ Len(run.report) + Len(run.tests) = run.due
    BY <1>1 DEF RunInv, Accounted
  <2>2. Len(run.tests) = 0
    BY <2>1
  <2> QED
    BY <2>1, <2>2, RunFacts
<1>9. Accounted'
  <2>1. Len(run'.report) + Len(run'.tests) = run'.due
    BY <1>3, <1>6, <1>8, RunFacts
  <2>2. pc = "commit" => run'.batchIndex = run'.batchCount /\ Len(run'.report) = run'.due
    <3>1. ASSUME pc = "commit" PROVE run.batchIndex + 1 = run.batchCount
      BY <3>1, <1>4, <1>5, RunFacts
    <3>2. ASSUME pc = "commit" PROVE Len(tests) = 0
      BY <3>2, <1>4
    <3> QED
      BY <3>1, <3>2, <1>6, <1>8, RunFacts
  <2> QED
    BY <1>4, <1>6, <2>1, <2>2 DEF Accounted
<1>10. Bounded'
  <2>1. run.due <= run.batchIndex * MaxBatchTests /\ run.batchCount # 0
    BY <1>1, RunFacts DEF RunInv, Bounded
  <2>2. run.due + Len(tests) <= (run.batchIndex + 1) * MaxBatchTests
    BY <1>3, <2>1, NextBatchBound, RunFacts
  <2>3. Len(run.report) <= run.due + Len(tests) + 1
    BY <1>3, <1>8, RunFacts
  <2> QED
    BY <1>6, <2>1, <2>2, <2>3 DEF Bounded
<1>11. StopsAtFailure'
  BY <1>1, <1>6 DEF RunInv, StopsAtFailure
<1>12. Fresh' /\ Fetched'
  BY <1>6 DEF Fresh, Fetched
<1>13. Built' /\ Quiet' /\ OKWasRun'
  BY <1>1, <1>6 DEF RunInv, Built, Quiet, OKWasRun
<1> QED
  BY <1>7, <1>9, <1>10, <1>11, <1>12, <1>13 DEF RunInv

(* A batch that is not served ends the test with an entry that is not OK. *)
LEMMA GetBatchErrorKeeps == ASSUME RunInv, GetBatchError PROVE RunInv'
<1>1. run.pc = "batch" /\ run.batchIndex < run.batchCount /\ UNCHANGED <<container, files, containers, outcome, runs>>
  BY DEF GetBatchError
<1>2. PICK e \in Reported : e = Entry("CRASH", "", "not run") /\ e.verdict = "CRASH"
  <2>1. "CRASH" \in Verdict /\ "not run" \in Bases
    BY DEF Verdict, Bases
  <2>2. Entry("CRASH", "", "not run") \in Reported /\ Entry("CRASH", "", "not run").verdict = "CRASH"
    BY <2>1, OutputsFacts DEF Entry, Reported
  <2> QED
    BY <2>2
<1>3. PICK report \in Seq(Reported) : Grown(report, run.report, e)
  <2>1. run.report \in Seq(Reported)
    BY RunFacts
  <2> QED
    BY <2>1, ReportGrows
<1>4. /\ run' \in Run /\ run'.pc = "commit" /\ run'.batchCount = run.batchCount /\ run'.batchIndex = run.batchIndex
      /\ run'.tests = run.tests /\ run'.report = report /\ run'.due = run.due
  <2>1. run' = [run EXCEPT !.pc = "commit", !.report = report]
    BY <1>2, <1>3 DEF GetBatchError, Grown
  <2> QED
    BY <2>1, RunFacts DEF Run, Pcs
<1>5. Types'
  BY <1>1, <1>4 DEF RunInv, Types
<1>6. Accounted'
  BY <1>2, <1>3, <1>4 DEF Accounted, Grown
<1>7. Bounded'
  <2>1. run.tests = <<>> /\ Len(run.report) + Len(run.tests) = run.due
    BY <1>1 DEF RunInv, Accounted
  <2>2. Len(run.tests) = 0
    BY <2>1
  <2>3. run.batchCount # 0
    BY <1>1, RunFacts
  <2>4. run.due <= run.batchIndex * MaxBatchTests
    BY <2>3 DEF RunInv, Bounded
  <2>5. Len(report) <= run.due + 1
    BY <1>3, <2>1, <2>2, RunFacts DEF Grown
  <2> QED
    BY <1>4, <2>3, <2>4, <2>5 DEF Bounded
<1>8. StopsAtFailure'
  <2>1. \A k \in 1..Len(run.report) : run.report[k].verdict = "OK"
    BY <1>1 DEF RunInv, StopsAtFailure
  <2>2. \A k \in 1..Len(report) : k < Len(report) => report[k].verdict = "OK"
    BY <1>3, <2>1, RunFacts DEF Grown
  <2> QED
    BY <1>4, <2>2 DEF StopsAtFailure
<1>9. Built'
  <2>1. \A k \in 1..Len(run.report) : run.report[k].verdict = "OK" => run.report[k].basis = "host failed" \/ container.execute
    BY DEF RunInv, Built
  <2>2. \A k \in 1..Len(report) : report[k].verdict = "OK" => k \in 1..Len(run.report) /\ report[k] = run.report[k]
    BY <1>2, <1>3 DEF Grown
  <2>3. \A k \in 1..Len(report) : report[k].verdict = "OK" => report[k].basis = "host failed" \/ container.execute
    BY <2>1, <2>2, Zenon
  <2> QED
    BY <1>1, <1>4, <2>3 DEF RunInv, Built
<1>10. OKWasRun'
  <2>1. \A k \in 1..Len(run.report) : run.report[k].verdict = "OK" /\ run.report[k].answer # "" => run.report[k].basis # "not run"
    BY DEF RunInv, OKWasRun
  <2>2. \A k \in 1..Len(report) : report[k].verdict = "OK" => k \in 1..Len(run.report) /\ report[k] = run.report[k]
    BY <1>2, <1>3 DEF Grown
  <2>3. \A k \in 1..Len(report) : report[k].verdict = "OK" /\ report[k].answer # "" => report[k].basis # "not run"
    BY <2>1, <2>2, Zenon
  <2> QED
    BY <1>4, <2>3 DEF OKWasRun
<1>11. Fresh' /\ Fetched' /\ Quiet'
  BY <1>1, <1>4 DEF RunInv, Fresh, Fetched, Quiet
<1> QED
  BY <1>5, <1>6, <1>7, <1>8, <1>9, <1>10, <1>11 DEF RunInv

----------------------------------------------------------------------------
(* The executor, or what is left when it did not run. *)
LEMMA ExecKeeps ==
    ASSUME RunInv, run.pc = "exec",
           NEW basis \in {"not run", "ran"}, NEW outs \in SUBSET Outputs, Executed(basis, outs),
           basis = "ran" \/ outs = {""},
           container' \in Container, container'.execute = container.execute,
           ~container.execute => container'.report.exitCode # 0,
           UNCHANGED <<containers, outcome, runs>>
    PROVE  RunInv'
<1>1. run.tests # <<>>
  BY DEF RunInv, Accounted
<1>2. PICK b \in Bases : run' = [run EXCEPT !.pc = "fetch", !.basis = b] /\ (b = basis \/ b = "host failed")
                        /\ (b = "not run" => \E out \in outs : files' = [files EXCEPT !.userOutput = out])
  BY DEF Executed, Bases
<1>3. /\ run' \in Run /\ run'.pc = "fetch" /\ run'.batchCount = run.batchCount /\ run'.batchIndex = run.batchIndex
      /\ run'.tests = run.tests /\ run'.report = run.report /\ run'.due = run.due /\ run'.basis = b
  BY <1>2, RunFacts DEF Run, Pcs
<1>4. files' \in Files
  BY RunFacts DEF Executed, Files
<1>5. Types'
  BY <1>3, <1>4 DEF RunInv, Types
<1>6. Fresh' /\ Accounted'
  BY <1>1, <1>3 DEF RunInv, Fresh, Accounted
<1>7. Built'
  BY <1>3 DEF RunInv, Built
<1>8. StopsAtFailure' /\ OKWasRun'
  BY <1>3 DEF RunInv, StopsAtFailure, OKWasRun
<1>9. Bounded'
  BY <1>3 DEF RunInv, Bounded
<1>10. Fetched'
  <2>1. ASSUME b = "not run" PROVE files'.userOutput = ""
    <3>1. outs = {""}
      BY <1>2, <2>1
    <3> QED
      BY <1>2, <2>1, <3>1, RunFacts DEF Files
  <2> QED
    BY <1>3, <2>1 DEF Fetched
<1>11. Quiet'
  BY DEF RunInv, Quiet
<1> QED
  BY <1>5, <1>6, <1>7, <1>8, <1>9, <1>10, <1>11 DEF RunInv

LEMMA PrintedType == ASSUME RunInv, run.pc = "exec" PROVE Printed \in SUBSET Outputs
<1>1. run.tests \in Seq(Outputs) /\ run.tests # <<>>
  BY RunFacts DEF RunInv, Accounted
<1>2. Head(run.tests) \in Outputs /\ "" \in Outputs /\ "wrong" \in Outputs
  BY <1>1, TestsFacts DEF Outputs
<1> QED
  BY <1>2 DEF Printed

LEMMA ExecSteps ==
    ASSUME RunInv, Execute \/ ExecutorDies \/ ExecFails
    PROVE  RunInv'
<1>1. container \in Container /\ (~container.execute => container.report.exitCode # 0) /\ {""} \in SUBSET Outputs
  BY RunFacts, OutputsFacts DEF RunInv, Built
<1>2. CASE Execute
  <2>1. PICK report \in ExecReports :
          /\ container.execute \/ report.exitCode # 0
          /\ container' = [container EXCEPT !.report = report]
    BY <1>2 DEF Execute
  <2>2. container' \in Container /\ container'.execute = container.execute /\ container'.report = report
    BY <1>1, <2>1 DEF Container, ReportFile
  <2>3. run.pc = "exec" /\ Executed("ran", Printed) /\ UNCHANGED <<containers, outcome, runs>>
    BY <1>2 DEF Execute
  <2> QED
    BY <2>1, <2>2, <2>3, PrintedType, ExecKeeps
<1>3. CASE ExecutorDies
  <2>1. run.pc = "exec" /\ Executed("ran", Printed) /\ UNCHANGED <<container, containers, outcome, runs>>
    BY <1>3 DEF ExecutorDies
  <2> QED
    BY <1>1, <2>1, PrintedType, ExecKeeps
<1>4. CASE ExecFails
  <2>1. run.pc = "exec" /\ Executed("not run", {""}) /\ UNCHANGED <<container, containers, outcome, runs>>
    BY <1>4 DEF ExecFails
  <2> QED
    BY <1>1, <2>1, ExecKeeps
<1> QED
  BY <1>2, <1>3, <1>4

----------------------------------------------------------------------------
(* A verdict of this basis is about this report: the one of the container, unless the host failed. *)
ItsBasis(report, basis) == basis = "host failed" \/ (basis = run.basis /\ report = container.report)

(* The verdict: a test moves from those at hand to the report. *)
LEMMA JudgeKeeps ==
    ASSUME RunInv, run.pc = "fetch", NEW report, NEW why \in Bases, Judge(report, why),
           ItsBasis(report, why), files' \in Files, UNCHANGED <<container, containers, outcome, runs>>
    PROVE  RunInv'
<1>1. run.tests \in Seq(Outputs) /\ run.tests # <<>> /\ Len(run.report) + Len(run.tests) = run.due
  BY RunFacts DEF RunInv, Accounted
<1>2. /\ Len(run.tests) \in Nat /\ Len(run.tests) >= 1 /\ Head(run.tests) \in Outputs
      /\ Tail(run.tests) \in Seq(Outputs) /\ Len(Tail(run.tests)) = Len(run.tests) - 1
      /\ Len(run.tests) = 1 <=> Tail(run.tests) = <<>>
  BY <1>1, TestsFacts
<1>3. PICK checkerStatus \in CheckerStatuses, v \in Verdict, reason \in Bases :
        /\ v = VerdictOf(report, checkerStatus)
        /\ reason = IF why # "host failed" /\ v = "OK" /\ checkerStatus = "killed" THEN "checker died" ELSE why
        /\ run' = [run EXCEPT !.report = Append(run.report, Entry(v, Head(run.tests), reason)),
                              !.tests = Tail(run.tests), !.basis = "not run", !.pc = AfterTest(v)]
  <2>1. PICK status \in CheckerStatuses :
          run' = [run EXCEPT !.report = Append(run.report, Entry(VerdictOf(report, status), Head(run.tests),
                                IF why # "host failed" /\ VerdictOf(report, status) = "OK" /\ status = "killed"
                                  THEN "checker died" ELSE why)),
                             !.tests = Tail(run.tests), !.basis = "not run", !.pc = AfterTest(VerdictOf(report, status))]
    BY DEF Judge
  <2>2. PICK v \in Verdict : v = VerdictOf(report, status)
    BY VerdictType
  <2>3. PICK reason \in Bases :
          reason = IF why # "host failed" /\ v = "OK" /\ status = "killed" THEN "checker died" ELSE why
    BY DEF Bases
  <2> QED
    BY <2>1, <2>2, <2>3
<1>4. v = "OK" => report.exitCode = 0
  BY <1>3, OKMeans
<1>5. v = "OK" /\ reason = "not run" => run.basis = "not run" /\ files.userOutput = Head(run.tests)
  <2>1. ASSUME v = "OK", reason = "not run" PROVE why = "not run" /\ checkerStatus # "killed"
    BY <1>3, <2>1, Zenon
  <2>2. ASSUME why = "not run" PROVE run.basis = "not run"
    BY <2>2 DEF ItsBasis
  <2> QED
    BY <1>3, <2>1, <2>2, OKMeans
<1>6. PICK e \in Reported :
        /\ e = Entry(v, Head(run.tests), reason)
        /\ e.verdict = v /\ e.answer = Head(run.tests) /\ e.basis = reason
  <2>1. /\ Entry(v, Head(run.tests), reason) \in Reported /\ Entry(v, Head(run.tests), reason).verdict = v
        /\ Entry(v, Head(run.tests), reason).answer = Head(run.tests)
        /\ Entry(v, Head(run.tests), reason).basis = reason
    BY <1>2, EntryType
  <2> QED
    BY <2>1
<1>7. PICK grown \in Seq(Reported) : Grown(grown, run.report, e)
  <2>1. run.report \in Seq(Reported)
    BY RunFacts
  <2> QED
    BY <2>1, ReportGrows
<1>8. PICK pc \in {"exec", "batch", "commit"} :
        /\ pc = AfterTest(v)
        /\ pc = "exec" => v = "OK" /\ Len(run.tests) > 1
        /\ pc = "batch" => v = "OK" /\ ~(Len(run.tests) > 1)
        /\ pc = "commit" /\ v = "OK" => ~(Len(run.tests) > 1) /\ ~(run.batchIndex < run.batchCount)
  BY DEF AfterTest, NextBatch
<1>9. /\ run' \in Run /\ run'.pc = pc /\ run'.batchCount = run.batchCount /\ run'.batchIndex = run.batchIndex
      /\ run'.tests = Tail(run.tests) /\ run'.report = grown /\ run'.due = run.due
  <2>1. grown = Append(run.report, e)
    BY <1>7 DEF Grown
  <2>2. run' = [run EXCEPT !.report = grown, !.tests = Tail(run.tests), !.basis = "not run", !.pc = pc]
    BY <1>3, <1>6, <1>8, <2>1
  <2>3. pc \in Pcs /\ "not run" \in Bases
    BY DEF Pcs, Bases
  <2> QED
    BY <1>2, <2>2, <2>3, RunFacts DEF Run
<1>10. Types'
  BY <1>9 DEF RunInv, Types
<1>11. Len(grown) = Len(run.report) + 1 /\ grown # <<>> /\ grown[Len(grown)] = e
       /\ \A k \in 1..Len(grown) : (k \in 1..Len(run.report) /\ grown[k] = run.report[k]) \/ k = Len(grown)
  BY <1>7 DEF Grown
<1>12. Len(run.report) \in Nat /\ run.due \in Nat /\ run.batchIndex \in Nat /\ run.batchCount \in Nat
  BY RunFacts
<1>13. Accounted'
  <2>1. Len(grown) + Len(Tail(run.tests)) = run.due
    BY <1>1, <1>2, <1>11, <1>12, OneMovesOver, ZenonT(60)
  <2>2. pc = "batch" => Tail(run.tests) = <<>>
    BY <1>2, <1>8
  <2>3. ASSUME pc = "exec" PROVE Tail(run.tests) # <<>>
    <3>1. Len(run.tests) > 1 /\ Len(run.tests) \in Nat
      BY <1>2, <1>8, <2>3, Zenon
    <3>2. \A n \in Nat : n > 1 => n # 1
      OBVIOUS
    <3>3. Len(run.tests) # 1
      BY <3>1, <3>2, Zenon
    <3> QED
      BY <1>2, <3>3, Zenon
  <2>4. ASSUME pc = "commit", v = "OK" PROVE Len(grown) = run.due /\ run.batchIndex = run.batchCount
    <3>1. Len(run.tests) = 1
      BY <1>2, <1>8, <2>4
    <3>2. run.batchIndex <= run.batchCount
      BY DEF RunInv, Types
    <3> QED
      BY <1>1, <1>8, <1>11, <1>12, <2>4, <3>1, <3>2
  <2> QED
    BY <1>6, <1>9, <1>11, <2>1, <2>2, <2>3, <2>4 DEF Accounted
<1>14. Bounded'
  <2>1. Len(grown) <= run.due
    <3>1. Len(run.report) + 1 <= run.due
      BY <1>1, <1>2, <1>12, OneMovesOver, Zenon
    <3> QED
      BY <3>1, <1>11, Zenon
  <2>2. Len(grown) <= run.due + 1
    BY <2>1, <1>11, <1>12
  <2> QED
    BY <1>9, <2>1, <2>2 DEF RunInv, Bounded
<1>15. StopsAtFailure'
  <2>1. \A k \in 1..Len(run.report) : run.report[k].verdict = "OK"
    BY DEF RunInv, StopsAtFailure
  <2>2. \A k \in 1..Len(grown) : k < Len(grown) => grown[k].verdict = "OK"
    BY <1>11, <1>12, <2>1
  <2>3. pc # "commit" => e.verdict = "OK"
    BY <1>6, <1>8
  <2>4. \A k \in 1..Len(grown) : k < Len(grown) \/ k = Len(grown)
    BY <1>11, <1>12
  <2> QED
    BY <1>9, <1>11, <2>2, <2>3, <2>4 DEF StopsAtFailure
<1>16. Built'
  <2>1. ASSUME v = "OK", reason # "host failed" PROVE container.execute
    <3>1. why # "host failed"
      BY <1>3, <2>1, Zenon
    <3>2. report = container.report
      BY <3>1, Zenon DEF ItsBasis
    <3> QED
      BY <1>4, <2>1, <3>2 DEF RunInv, Built
  <2>2. e.verdict = "OK" => e.basis = "host failed" \/ container.execute
    BY <1>6, <2>1, Zenon
  <2>3. \A k \in 1..Len(grown) : grown[k].verdict = "OK" => grown[k].basis = "host failed" \/ container.execute
    BY <1>11, <2>2 DEF RunInv, Built
  <2> QED
    BY <1>9, <2>3 DEF RunInv, Built
<1>17. OKWasRun'
  <2>1. e.verdict = "OK" /\ e.answer # "" => e.basis # "not run"
    BY <1>5, <1>6 DEF RunInv, Fetched
  <2>2. \A k \in 1..Len(grown) : grown[k].verdict = "OK" /\ grown[k].answer # "" => grown[k].basis # "not run"
    BY <1>11, <2>1 DEF RunInv, OKWasRun
  <2> QED
    BY <1>9, <2>2 DEF OKWasRun
<1>18. Fresh' /\ Fetched' /\ Quiet'
  BY <1>9 DEF RunInv, Fresh, Fetched, Quiet
<1> QED
  BY <1>10, <1>13, <1>14, <1>15, <1>16, <1>17, <1>18 DEF RunInv

LEMMA FetchSteps == ASSUME RunInv, FetchReport \/ FetchFromHost PROVE RunInv'
<1>1. files \in Files /\ container.report \in ReportFile /\ run.basis \in Bases /\ "host failed" \in Bases
  BY RunFacts DEF Run, Bases
<1>2. CASE FetchReport
  <2>1. files' = [files EXCEPT !.report = container.report]
    BY <1>2 DEF FetchReport
  <2>2. files' \in Files
    BY <1>1, <2>1 DEF Files
  <2> QED
    BY <1>1, <1>2, <2>2, JudgeKeeps DEF FetchReport, ItsBasis
<1>3. CASE FetchFromHost
  BY <1>1, <1>3, JudgeKeeps DEF FetchFromHost, ItsBasis
<1> QED
  BY <1>2, <1>3

----------------------------------------------------------------------------
LEMMA NextKeepsRun == ASSUME RunInv, [Next]_vars PROVE RunInv'
<1>1. CASE Process
  BY <1>1, ProcessKeeps
<1>2. CASE Step
  BY <1>2, RunContainerKeeps, EndSteps, GetScriptsKeeps, InitScriptKeeps, StartTestKeeps, GetBatchKeeps,
     GetBatchErrorKeeps, ExecSteps, FetchSteps DEF Step
<1>3. CASE UNCHANGED vars
  BY <1>3 DEF vars, RunInv, Types, Fresh, Built, StopsAtFailure, Accounted, Bounded, Fetched, Quiet, OKWasRun
<1> QED
  BY <1>1, <1>2, <1>3 DEF Next

(* The inductive invariant holds whatever docker, tabasco and the host do. *)
THEOREM RunInvariant == Spec => []RunInv
<1>1. RunInv /\ [Next]_vars => RunInv'
  BY NextKeepsRun
<1> QED
  BY InitRun, <1>1, PTL DEF Spec

(* Type correctness of TestRun. *)
THEOREM RunTypes == Spec => []TypeOK
<1>1. ASSUME RunInv PROVE TypeOK
  <2>1. run.batchCount \in 0..MaxBatches /\ run.batchIndex \in 0..run.batchCount
        /\ containers \in 0..Capacity /\ runs \in 0..MaxRuns
    BY <1>1, RunFacts, BoundsAssumption, CapacityAssumption DEF RunInv, Types
  <2>2. run.pc \in {"exec", "fetch"} => run.tests # <<>>
    BY <1>1 DEF RunInv, Accounted
  <2>3. container \in [up : BOOLEAN, execute : BOOLEAN, report : ExecReports \cup {NoReport}]
    BY <1>1, RunFacts DEF Container, ReportFile
  <2>4. files \in [userOutput : Outputs, report : ExecReports \cup {NoReport}]
    BY <1>1, RunFacts DEF Files, ReportFile
  <2>5. outcome \in [posted : BOOLEAN, verdicts : Seq(Verdict)]
    BY <1>1 DEF RunInv, Types, Outcome
  <2>6. run.basis \in Bases /\ run.due \in Nat /\ run.tests \in Seq(Outputs)
        /\ run.report \in Seq([verdict : Verdict, answer : Outputs, basis : Bases])
    BY <1>1, RunFacts DEF Run, Reported
  <2>7. run.pc \in {"idle", "container", "prepare", "init", "test", "batch", "exec", "fetch", "commit"}
    BY <1>1, RunFacts DEF Pcs
  <2> QED
    BY <2>1, <2>2, <2>3, <2>4, <2>5, <2>6, <2>7 DEF TypeOK
<1> QED
  BY <1>1, RunInvariant, PTL

(***************************************************************************)
(* A test that expects output passes without a run of the solution only if *)
(* the host failed at it or its checker was killed, which reads as OK:     *)
(* never because of a stale report.json or userOutput.txt alone, since     *)
(* Exec truncates the output before docker may fail.                       *)
(***************************************************************************)
THEOREM PassedTestsWereRun == Spec => []OKWasRun
<1>1. RunInv => OKWasRun
  BY DEF RunInv
<1> QED
  BY <1>1, RunInvariant, PTL

LEMMA VerdictsFacts ==
    ASSUME RunInv
    PROVE  /\ Verdicts(run.report) \in Seq(Verdict) /\ Len(Verdicts(run.report)) = Len(run.report)
           /\ \A k \in 1..Len(run.report) : Verdicts(run.report)[k] = run.report[k].verdict /\ run.report[k].verdict \in Verdict
<1>1. \A k \in 1..Len(run.report) : run.report[k] \in Reported
  BY RunFacts
<1>2. \A k \in 1..Len(run.report) : run.report[k].verdict \in Verdict
  BY <1>1 DEF Reported
<1>3. Verdicts(run.report) \in [1..Len(run.report) -> Verdict] /\ Len(run.report) \in Nat
  BY <1>2, RunFacts DEF Verdicts
<1>4. Verdicts(run.report) \in Seq(Verdict) /\ Len(Verdicts(run.report)) = Len(run.report)
  BY <1>3
<1> QED
  BY <1>2, <1>4 DEF Verdicts

(***************************************************************************)
(* Process ignores what Prepare answers, and still accepts only complete   *)
(* runs of a submission with its scripts: without execute.sh no report of  *)
(* the executor says success, so that an OK needs a host that fails.       *)
(***************************************************************************)
THEOREM AcceptedRunsComplete == Spec => []AcceptedIsComplete
<1>1. ASSUME RunInv PROVE AcceptedIsComplete
  <2> SUFFICES ASSUME run.pc = "commit", run.report # <<>>, FinalVerdict(Verdicts(run.report)) = "OK"
               PROVE  /\ run.batchIndex = run.batchCount
                      /\ Len(run.report) = run.due
                      /\ \/ run.batchCount > 0 /\ container.execute
                         \/ \A k \in 1..Len(run.report) : run.report[k].basis = "host failed"
    BY DEF AcceptedIsComplete
  <2>1. Len(run.report) \in Nat \ {0} /\ Len(run.report) \in 1..Len(run.report)
    <3>1. Len(run.report) \in Nat \ {0}
      BY <1>1, RunFacts, EmptySeq
    <3> QED
      BY <3>1
  <2>2. run.report[Len(run.report)].verdict = "OK"
    BY <1>1, <2>1, VerdictsFacts DEF FinalVerdict
  <2>3. run.batchIndex = run.batchCount /\ Len(run.report) = run.due
    BY <1>1, <2>2 DEF RunInv, Accounted
  <2>4. \A k \in 1..Len(run.report) : run.report[k].verdict = "OK"
    <3>1. \A k \in 1..Len(run.report) : k < Len(run.report) \/ k = Len(run.report)
      BY <2>1
    <3> QED
      BY <1>1, <2>2, <3>1 DEF RunInv, StopsAtFailure
  <2>5. \A k \in 1..Len(run.report) : run.report[k].basis = "host failed" \/ container.execute
    BY <1>1, <2>4 DEF RunInv, Built
  <2>6. container.execute => run.batchCount > 0
    BY <1>1, RunFacts DEF RunInv, Built
  <2> QED
    BY <2>3, <2>5, <2>6
<1> QED
  BY <1>1, RunInvariant, PTL

----------------------------------------------------------------------------
(* A report that stops at its first failure is one of those Test may return. *)
LEMMA ReportIsPromised ==
    ASSUME RunInv, run.pc = "commit"
    PROVE  Verdicts(run.report) \in Promise!Reports(MaxBatches * MaxBatchTests + 1)
<1> DEFINE n == Len(run.report)
<1>1. n \in Nat /\ run.report \in Seq(Reported)
  BY RunFacts
<1>2. CASE n = 0
  <2>1. Verdicts(run.report) \in Seq(Verdict) /\ Len(Verdicts(run.report)) = 0
    BY <1>2, VerdictsFacts
  <2>2. Verdicts(run.report) = <<>>
    BY <2>1, EmptySeq
  <2> QED
    BY <2>2 DEF Promise!Reports
<1>3. CASE n # 0
  <2>1. n <= MaxBatches * MaxBatchTests + 1
    <3>1. run.batchIndex * MaxBatchTests <= MaxBatches * MaxBatchTests
      <4>1. run.batchIndex \in Nat /\ run.batchIndex <= MaxBatches
        BY RunFacts, BoundsAssumption DEF RunInv, Types
      <4>2. \A a, b, c \in Nat : a <= b => a * c <= b * c
        OBVIOUS
      <4> QED
        BY <4>1, <4>2, BoundsAssumption
    <3>2. run.batchIndex * MaxBatchTests \in Nat /\ MaxBatches * MaxBatchTests \in Nat
      BY RunFacts, BoundsAssumption
    <3>3. CASE run.batchCount = 0
      BY <1>1, <3>2, <3>3, RunFacts DEF RunInv, Bounded
    <3>4. CASE run.batchCount # 0
      <4>1. run.due <= run.batchIndex * MaxBatchTests /\ n <= run.due + 1 /\ run.due \in Nat
        BY <3>4, RunFacts DEF RunInv, Bounded
      <4> QED
        BY <1>1, <3>1, <3>2, <4>1
    <3> QED
      BY <3>3, <3>4
  <2>2. PICK v \in Verdict : v = run.report[n].verdict
    BY <1>1, <1>3, VerdictsFacts
  <2>3. \A k \in 1..n : Verdicts(run.report)[k] = IF k < n THEN "OK" ELSE v
    <3>1. \A k \in 1..n : k < n \/ k = n
      BY <1>1
    <3>2. \A k \in 1..n : k < n => run.report[k].verdict = "OK"
      BY DEF RunInv, StopsAtFailure
    <3> QED
      BY <1>1, <2>2, <3>1, <3>2, VerdictsFacts
  <2>4. Verdicts(run.report) = [k \in 1..n |-> IF k < n THEN "OK" ELSE v]
    BY <2>3 DEF Verdicts
  <2>5. n \in 1..(MaxBatches * MaxBatchTests + 1) /\ v \in Promise!Verdict
    <3>1. MaxBatches * MaxBatchTests + 1 \in Int
      BY BoundsAssumption
    <3>2. v \in Promise!Verdict
      BY DEF Verdict, Promise!Verdict
    <3> QED
      BY <1>1, <1>3, <2>1, <3>1, <3>2
  <2> HIDE DEF n
  <2> QED
    BY <2>4, <2>5 DEF Promise!Reports
<1> QED
  BY <1>2, <1>3

LEMMA JudgeIsNoEnd == ASSUME run \in Run, NEW report, NEW basis, Judge(report, basis) PROVE run'.pc # "idle"
<1>1. PICK checkerStatus \in CheckerStatuses :
        \E entry : run' = [run EXCEPT !.report = Append(@, entry), !.tests = Tail(@), !.basis = "not run",
                                      !.pc = AfterTest(VerdictOf(report, checkerStatus))]
  BY DEF Judge
<1>2. run'.pc = AfterTest(VerdictOf(report, checkerStatus))
  BY <1>1 DEF Run
<1> QED
  BY <1>2 DEF AfterTest, NextBatch

(* Every step of Process is one of its promise, or none. *)
LEMMA PromiseStep == ASSUME RunInv, [Next]_vars PROVE [Promise!Next]_<<run.pc # "idle", outcome>>
<1>1. NoOutcome = Promise!NoOutcome
  BY DEF NoOutcome, Promise!NoOutcome
<1>2. CASE Process
  <2>1. run.pc = "idle" /\ run'.pc = "container" /\ outcome' = NoOutcome
    BY <1>2, NoRunFacts DEF Process, Run
  <2>2. (run.pc # "idle") = FALSE /\ (run'.pc # "idle") = TRUE
    BY <2>1
  <2> QED
    BY <1>1, <2>1, <2>2 DEF Promise!Next, Promise!Begin
<1>3. CASE PopenFails \/ FetchThrows
  <2>1. run.pc # "idle" /\ run'.pc = "idle" /\ outcome' = outcome /\ outcome = NoOutcome
    BY <1>3, NoRunFacts DEF PopenFails, FetchThrows, RunInv, Quiet
  <2> QED
    BY <1>1, <2>1 DEF Promise!Next, Promise!End
<1>4. CASE Commit
  <2>1. run.pc = "commit" /\ run'.pc = "idle"
    BY <1>4, NoRunFacts DEF Commit
  <2>2. Verdicts(run.report) \in Promise!Reports(MaxBatches * MaxBatchTests + 1)
    BY <2>1, ReportIsPromised
  <2>3. outcome' \in [posted : {TRUE}, verdicts : Promise!Reports(MaxBatches * MaxBatchTests + 1)]
    BY <1>4, <2>2 DEF Commit
  <2> QED
    BY <2>1, <2>3 DEF Promise!Next, Promise!End
<1>5. CASE Step /\ ~(PopenFails \/ FetchThrows \/ Commit)
  <2>1. outcome' = outcome /\ run.pc # "idle"
    BY <1>5 DEF Step, RunContainer, GetScripts, InitScript, StartTest, GetBatch, GetBatchError, Execute,
       ExecutorDies, ExecFails, Executed, FetchReport, FetchFromHost
  <2>2. run'.pc # "idle"
    <3>1. run \in Run
      BY RunFacts
    <3>2. CASE RunContainer \/ GetScripts \/ InitScript \/ StartTest \/ GetBatch \/ GetBatchError
      BY <3>1, <3>2 DEF RunContainer, GetScripts, InitScript, StartTest, GetBatch, GetBatchError, NextBatch, Run
    <3>3. CASE Execute \/ ExecutorDies \/ ExecFails
      <4>1. PICK b : run' = [run EXCEPT !.pc = "fetch", !.basis = b]
        BY <3>3 DEF Execute, ExecutorDies, ExecFails, Executed
      <4> QED
        BY <3>1, <4>1 DEF Run
    <3>4. CASE FetchReport \/ FetchFromHost
      BY <3>1, <3>4, JudgeIsNoEnd DEF FetchReport, FetchFromHost
    <3> QED
      BY <1>5, <3>2, <3>3, <3>4 DEF Step
  <2> QED
    BY <2>1, <2>2
<1>6. CASE UNCHANGED vars
  BY <1>6 DEF vars
<1> QED
  BY <1>2, <1>3, <1>4, <1>5, <1>6 DEF Next

LEMMA PromiseInit == Init => Promise!Init
  BY NoRunFacts DEF Init, Promise!Init, NoOutcome, Promise!NoOutcome

(***************************************************************************)
(* Process implements the safety part of its promise: a submission begins  *)
(* and ends, and what is committed for it stops at the first failure.  That*)
(* it does end is left to the model checker.                               *)
(***************************************************************************)
THEOREM ProcessKeepsPromise ==
    Spec => Promise!Init /\ [][Promise!Next]_<<run.pc # "idle", outcome>>
<1>1. RunInv /\ [Next]_vars => [Promise!Next]_<<run.pc # "idle", outcome>>
  BY PromiseStep
<1> QED
  BY <1>1, PromiseInit, RunInvariant, PTL DEF Spec
=============================================================================
