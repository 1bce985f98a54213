------------------------------ MODULE TestRun ------------------------------
(***************************************************************************)
(* TTestingProcessor::Process: one instance tests one submission after the *)
(* other, each in a container of its own, with the files of its            *)
(* localStorage directory kept from one submission to the next.  Every     *)
(* call to docker, to tabasco and to the checker may fail, and so may the  *)
(* host: a fork, or the opening or writing of a file.  Containers are left *)
(* running, until the host cannot hold another one.                        *)
(*                                                                         *)
(* The content of a file is one of a few answers, "" being an empty file;  *)
(* inputs are left out.                                                    *)
(***************************************************************************)
EXTENDS TestingReport

CONSTANTS
    Answers,         \* expected outputs of tests, "" for one without output
    ExecReports,     \* what an executor may write to report.json
    Capacity,        \* containers the host can hold
    MaxBatches,      \* bound: batches of a task
    MaxBatchTests,   \* bound: tests of a batch
    MaxRuns          \* bound: submissions in a behaviour

ASSUME ExecReportsAssumption ==
    ExecReports \subseteq [exitCode : {0, 1}, overTime : BOOLEAN, overMemory : BOOLEAN]
ASSUME AnswersAssumption == "wrong" \notin Answers
ASSUME CapacityAssumption == Capacity \in Nat
ASSUME BoundsAssumption == MaxBatches \in Nat /\ MaxBatchTests \in Nat /\ MaxRuns \in Nat

NoReport == [exitCode |-> 2, overTime |-> FALSE, overMemory |-> FALSE]
Outputs == Answers \cup {"", "wrong"}

VARIABLES
    run,        \* the submission at hand: pc and the locals of Process and Test
    container,  \* its container: [up, execute, report]
    files,      \* localStorage: [userOutput, report]
    containers, \* containers on the host
    outcome,    \* history: what Process did with the last submission, [posted, verdicts]
    runs        \* history: submissions so far

vars == <<run, container, files, containers, outcome, runs>>

NoRun == [pc |-> "idle", batchCount |-> 0, batchIndex |-> 0, tests |-> <<>>,
          basis |-> "not run", report |-> <<>>, due |-> 0]
NoContainer == [up |-> FALSE, execute |-> FALSE, report |-> NoReport]
NoOutcome == [posted |-> FALSE, verdicts |-> <<>>]

Init ==
    /\ run = NoRun
    /\ container = NoContainer
    /\ files = [userOutput |-> "", report |-> NoReport]
    /\ containers = 0
    /\ outcome = NoOutcome
    /\ runs = 0

----------------------------------------------------------------------------
(* Process is called with the next submission. *)
Process ==
    /\ run.pc = "idle" /\ runs < MaxRuns
    /\ runs' = runs + 1
    /\ run' = [NoRun EXCEPT !.pc = "container"]
    /\ container' = NoContainer
    /\ outcome' = NoOutcome
    /\ UNCHANGED <<files, containers>>

Full == containers >= Capacity

(* docker run may fail, and does when the host is full; nobody looks at that. *)
RunContainer ==
    /\ run.pc = "container"
    /\ run' = [run EXCEPT !.pc = "prepare"]
    /\ \/ /\ ~Full /\ containers' = containers + 1
          /\ container' = [container EXCEPT !.up = TRUE]
       \/ UNCHANGED <<container, containers>>
    /\ UNCHANGED <<files, outcome, runs>>

(* popen cannot fork and returns NULL: fgetc ends the process, which may be started again. *)
PopenFails ==
    /\ run.pc = "container" /\ Full
    /\ run' = NoRun
    /\ UNCHANGED <<container, files, containers, outcome, runs>>

(* Kill and Remove are empty: the container stays. *)
Kill == UNCHANGED containers

(* Prepare, GetScripts: on an error batchCount stays 0 and testing goes on. *)
GetScripts ==
    /\ run.pc = "prepare"
    /\ \/ run' = [run EXCEPT !.pc = "test"]
       \/ \E n \in 1..MaxBatches : run' = [run EXCEPT !.pc = "init", !.batchCount = n]
    /\ UNCHANGED <<container, files, containers, outcome, runs>>

(* CreateFile: an echo in the container, of which nobody looks at the result. *)
CreateFile(created) == container.up /\ created

(***************************************************************************)
(* Prepare, the rest: init.sh and the user's data are put into the         *)
(* container, init.sh is run, and if it succeeds execute.sh is put there.  *)
(* Process does not look at the result; if the fork fails, Exec takes the  *)
(* status of whatever child it finds, or 0.  execute stands for an         *)
(* execute.sh that is there and finds what init.sh has built.              *)
(***************************************************************************)
InitScript ==
    /\ run.pc = "init"
    /\ run' = [run EXCEPT !.pc = "test"]
    /\ \E created \in BOOLEAN : container' = [container EXCEPT !.execute = CreateFile(created)]
    /\ UNCHANGED <<files, containers, outcome, runs>>

(* Test after the tests at hand: the next batch, or the report is complete. *)
NextBatch(batchIndex) == IF batchIndex < run.batchCount THEN "batch" ELSE "commit"

(* mutant: the case batchCount == 0 is not told apart *)
StartTestAlwaysFetches ==
    /\ run.pc = "test"
    /\ run' = [run EXCEPT !.pc = "batch"]
    /\ UNCHANGED <<container, files, containers, outcome, runs>>

(* Test: without batches the submission is run once, on empty files. *)
StartTest ==
    /\ run.pc = "test"
    /\ run' = IF run.batchCount = 0 THEN [run EXCEPT !.pc = "exec", !.tests = <<"">>, !.due = 1]
                                    ELSE [run EXCEPT !.pc = "batch"]
    /\ UNCHANGED <<container, files, containers, outcome, runs>>

Batch == UNION {[1..n -> Answers] : n \in 0..MaxBatchTests}

(***************************************************************************)
(* An entry of the report; the answer the test expects and the basis of    *)
(* the verdict are history: the solution "ran" on the files of this test   *)
(* or was "not run", or else the "host failed" or the "checker died".      *)
(***************************************************************************)
Bases == {"not run", "ran", "host failed", "checker died"}
Entry(verdict, answer, basis) == [verdict |-> verdict, answer |-> answer, basis |-> basis]

(* mutant: the tests of a batch are entered without looking at their number *)
GetBatchEntersEmpty ==
    /\ run.pc = "batch" /\ run.batchIndex < run.batchCount
    /\ \E tests \in Batch :
         run' = [run EXCEPT !.tests = tests, !.due = @ + Len(tests), !.batchIndex = @ + 1, !.pc = "exec"]
    /\ UNCHANGED <<container, files, containers, outcome, runs>>

(* GetBatch answers; a batch without tests is what an undefined batch may look like. *)
GetBatch ==
    /\ run.pc = "batch" /\ run.batchIndex < run.batchCount
    /\ \E tests \in Batch :
         run' = [run EXCEPT !.tests = tests, !.due = @ + Len(tests), !.batchIndex = @ + 1,
                            !.pc = IF tests = <<>> THEN NextBatch(run.batchIndex + 1) ELSE "exec"]
    /\ UNCHANGED <<container, files, containers, outcome, runs>>

(* mutant: the report is returned as it is *)
GetBatchErrorUnreported ==
    /\ run.pc = "batch" /\ run.batchIndex < run.batchCount
    /\ run' = [run EXCEPT !.pc = "commit"]
    /\ UNCHANGED <<container, files, containers, outcome, runs>>

GetBatchError ==
    /\ run.pc = "batch" /\ run.batchIndex < run.batchCount
    /\ run' = [run EXCEPT !.pc = "commit", !.report = Append(@, Entry("CRASH", "", "not run"))]
    /\ UNCHANGED <<container, files, containers, outcome, runs>>

----------------------------------------------------------------------------
(* ExecuteAndTest *)

(***************************************************************************)
(* DumpTests and the first Exec, after which the solution ran or not and   *)
(* outs may be in userOutput.txt.  Nobody looks at an error of the host: a *)
(* file of the test that cannot be opened keeps its old content, one that  *)
(* cannot be written is cut short, and a child of Exec that cannot open    *)
(* its files goes on without.  What the two outputs then are is left open. *)
(***************************************************************************)
Executed(basis, outs) ==
    \/ /\ run' = [run EXCEPT !.pc = "fetch", !.basis = basis]
       /\ \E out \in outs : files' = [files EXCEPT !.userOutput = out]
    \/ /\ run' = [run EXCEPT !.pc = "fetch", !.basis = "host failed"]
       /\ UNCHANGED files

(* What the solution prints: the answer, nothing or anything else; without execute.sh nothing. *)
Printed == IF container.execute THEN {Head(run.tests), "", "wrong"} ELSE {""}

(* The executor writes its report in the container; without execute.sh the shell exits with an error. *)
Execute ==
    /\ run.pc = "exec" /\ container.up
    /\ \E report \in ExecReports :
         /\ container.execute \/ report.exitCode # 0
         /\ container' = [container EXCEPT !.report = report]
    /\ Executed("ran", Printed)
    /\ UNCHANGED <<containers, outcome, runs>>

(* The executor is killed with or after the solution: a report of an earlier test stays. *)
ExecutorDies ==
    /\ run.pc = "exec" /\ container.up
    /\ Executed("ran", Printed)
    /\ UNCHANGED <<container, containers, outcome, runs>>

(* mutant: userOutput.txt is opened without O_TRUNC *)
ExecFailsKeepingOutput ==
    /\ run.pc = "exec"
    /\ Executed("not run", {files.userOutput})
    /\ UNCHANGED <<container, containers, outcome, runs>>

(***************************************************************************)
(* docker exec itself fails: nothing ran, and the child of Exec had        *)
(* truncated the output file before.  An error of the host may be a fork   *)
(* that fails: then there is no child at all, and nobody looks at what     *)
(* Exec returns.                                                           *)
(***************************************************************************)
ExecFails ==
    /\ run.pc = "exec"
    /\ Executed("not run", {""})
    /\ UNCHANGED <<container, containers, outcome, runs>>

(* diff of the two outputs: it compares them, or cannot, or is killed. *)
Comparison == IF files.userOutput = Head(run.tests) THEN "exit 0" ELSE "exit 1"
CheckerStatuses ==
    {"exit 2", "killed"} \cup IF run.basis = "host failed" THEN {"exit 0", "exit 1"} ELSE {Comparison}

(* mutant: the early return of Test is missing *)
AfterTestNeverStops(verdict) == IF Len(run.tests) > 1 THEN "exec" ELSE NextBatch(run.batchIndex)

(* Test after a verdict: it returns, or goes on with the next test. *)
AfterTest(verdict) ==
    IF verdict = "OK" /\ Len(run.tests) > 1 THEN "exec"
    ELSE IF verdict = "OK" THEN NextBatch(run.batchIndex) ELSE "commit"

(* The verdict from a report, and what Test does with it. *)
Judge(report, basis) ==
    \E checkerStatus \in CheckerStatuses :
        LET verdict == VerdictOf(report, checkerStatus)
            reason == IF basis # "host failed" /\ verdict = "OK" /\ checkerStatus = "killed"
                        THEN "checker died" ELSE basis
        IN run' = [run EXCEPT !.report = Append(@, Entry(verdict, Head(run.tests), reason)),
                              !.tests = Tail(@), !.basis = "not run", !.pc = AfterTest(verdict)]

(* cat report.json copies the report of the container to the host. *)
FetchReport ==
    /\ run.pc = "fetch" /\ container.report # NoReport
    /\ files' = [files EXCEPT !.report = container.report]
    /\ Judge(container.report, run.basis)
    /\ UNCHANGED <<container, containers, outcome, runs>>

(* The fork fails, or report.json cannot be opened: the one on the host is read, of whatever test it is. *)
FetchFromHost ==
    /\ run.pc = "fetch" /\ files.report # NoReport
    /\ Judge(files.report, "host failed")
    /\ UNCHANGED <<container, files, containers, outcome, runs>>

(* The fetched file is empty: reading a field of what it parses to throws. *)
FetchThrows ==
    /\ run.pc = "fetch"
    /\ files' = [files EXCEPT !.report = NoReport]
    /\ run' = NoRun
    /\ UNCHANGED <<container, containers, outcome, runs>>

Verdicts(report) == [k \in 1..Len(report) |-> report[k].verdict]

(* Commit: one POST, an error of which is only logged; then the container is "killed". *)
Commit ==
    /\ run.pc = "commit"
    /\ outcome' = [posted |-> TRUE, verdicts |-> Verdicts(run.report)]
    /\ run' = NoRun
    /\ Kill
    /\ UNCHANGED <<container, files, runs>>

Step ==
    \/ RunContainer \/ PopenFails
    \/ GetScripts \/ InitScript \/ StartTest \/ GetBatch \/ GetBatchError
    \/ Execute \/ ExecutorDies \/ ExecFails
    \/ FetchReport \/ FetchFromHost \/ FetchThrows \/ Commit

Next == Process \/ Step

(* Process runs on the thread of the consumer until it returns or throws. *)
Spec == Init /\ [][Next]_vars /\ WF_vars(Step)

----------------------------------------------------------------------------
(* Type correctness; the loop of Test stays within the batches announced. *)
TypeOK ==
    /\ run.pc \in {"idle", "container", "prepare", "init", "test", "batch", "exec", "fetch", "commit"}
    /\ run.batchCount \in 0..MaxBatches /\ run.batchIndex \in 0..run.batchCount
    /\ run.tests \in Seq(Outputs) /\ run.basis \in Bases /\ run.due \in Nat
    /\ run.report \in Seq([verdict : Verdict, answer : Outputs, basis : Bases])
    /\ container \in [up : BOOLEAN, execute : BOOLEAN, report : ExecReports \cup {NoReport}]
    /\ files \in [userOutput : Outputs, report : ExecReports \cup {NoReport}]
    /\ containers \in 0..Capacity
    /\ outcome \in [posted : BOOLEAN, verdicts : Seq(Verdict)]
    /\ runs \in 0..MaxRuns
    /\ run.pc \in {"exec", "fetch"} => run.tests # <<>>

(***************************************************************************)
(* A test that expects output is passed by a solution that was not run on  *)
(* it only when the host failed at this test or its checker was killed:    *)
(* neither the report of an earlier test, left in the container, nor the   *)
(* output of an earlier one, left on the host, makes up for a docker exec  *)
(* that failed.                                                            *)
(***************************************************************************)
OKWasRun ==
    \A k \in 1..Len(run.report) :
        LET entry == run.report[k]
        IN entry.verdict = "OK" /\ entry.answer # "" => entry.basis # "not run"

(***************************************************************************)
(* A submission is accepted only when every announced batch was fetched    *)
(* and every test in them has a verdict, and, although Process ignores     *)
(* what Prepare says, only when its scripts were fetched and its           *)
(* execute.sh was created, also on a host full of containers: else the     *)
(* host must have failed at every single test.                             *)
(***************************************************************************)
AcceptedIsComplete ==
    /\ run.pc = "commit" /\ run.report # <<>>
    /\ FinalVerdict(Verdicts(run.report)) = "OK"
    => /\ run.batchIndex = run.batchCount
       /\ Len(run.report) = run.due
       /\ \/ run.batchCount > 0 /\ container.execute
          \/ \A k \in 1..Len(run.report) : run.report[k].basis = "host failed"

(***************************************************************************)
(* Process keeps its promise to the broker client: it ends, and what it    *)
(* commits, if anything, stops at the first failure.                       *)
(***************************************************************************)
Promise == INSTANCE ProcessSpec WITH
    MaxEntries <- MaxBatches * MaxBatchTests + 1, busy <- run.pc # "idle", outcome <- outcome
KeepsPromise == Promise!Spec
=============================================================================
