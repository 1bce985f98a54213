-------------------------------- MODULE DTS ---------------------------------
(***************************************************************************)
(* tabasco and a testing processor together: the tests TTestingProcessor   *)
(* runs a submission on are the ones the gRPC server reads from the        *)
(* database while the HTTP server changes them.                            *)
(*                                                                         *)
(* Submission n is session n of the storage.  The calls of                 *)
(* TTabascoRequestTask are the steps the two parts take together; all the  *)
(* others leave one of them alone.                                         *)
(***************************************************************************)
EXTENDS Naturals, Sequences

CONSTANTS
    Workers, Tasks, BuildIds, Requests, BatchSize, MaxTests, MaxUploads,   \* of TabascoStorage
    ExecReports, Capacity, MaxRuns,                                        \* of TestRun
    UploadNames     \* the output the tests of an upload expect, one text for each upload

ASSUME UploadNamesAssumption ==
    /\ UploadNames \in Seq(STRING) /\ Len(UploadNames) = MaxUploads
    /\ \A u \in 1..MaxUploads : UploadNames[u] # "wrong"
ASSUME RequestsAssumption == Requests \subseteq Seq(Nat) /\ \A r \in Requests : Len(r) <= MaxTests
ASSUME ExecReportsAssumption ==
    ExecReports \subseteq [exitCode : {0, 1}, overTime : BOOLEAN, overMemory : BOOLEAN]
ASSUME BoundsAssumption ==
    /\ BatchSize \in Nat /\ MaxTests \in Nat /\ MaxUploads \in Nat
    /\ Capacity \in Nat /\ MaxRuns \in Nat

VARIABLES
    testDocs, taskMeta, builds, uploads, http, session,    \* of TabascoStorage
    run, container, files, containers, outcome, runs       \* of TestRun

Sessions == 1..MaxRuns
Answers == {""} \cup {UploadNames[u] : u \in 1..MaxUploads}

Storage == INSTANCE TabascoStorage
Processor == INSTANCE TestRun WITH MaxBatches <- MaxTests, MaxBatchTests <- MaxTests

storageVars == <<testDocs, taskMeta, builds, uploads, http, session>>
processorVars == <<run, container, files, containers, outcome, runs>>
vars == <<storageVars, processorVars>>

Init == Storage!Init /\ Processor!Init

----------------------------------------------------------------------------
Current == session[runs]

(* TTabascoRequestTask::GetScripts: a reply tells the number of batches, an error leaves it at 0. *)
GetScripts ==
    /\ Processor!GetScripts
    /\ Storage!GetScripts(runs) \/ Storage!CallFails(runs)
    /\ run'.batchCount = IF session'[runs].pc = "ready" THEN session'[runs].batchCount ELSE 0

(* TTabascoRequestTask::GetBatch, sent: the gRPC server looks for the batch and reads its tests. *)
ServeBatch ==
    /\ run.pc = "batch"
    /\ Storage!OpenBatch(runs) \/ Storage!ReadDoc(runs) \/ Storage!OpenUndefinedBatch(runs)
    /\ UNCHANGED processorVars

(* The text a test expects, given the upload it was written by; a blank one is empty. *)
TextOf(u) == IF u = 0 THEN "" ELSE UploadNames[u]

RepliedOutputs == [k \in 1..Len(Storage!Reply(runs)) |-> TextOf(Storage!Reply(runs)[k][2])]

(* mutant: an error is taken for a batch without tests *)
GetBatchErrorAsEmpty ==
    /\ Processor!GetBatch /\ run'.tests = <<>>
    /\ Storage!CallFails(runs)

(* GetBatch, answered: with what was read, with an error, or with anything at all. *)
GetBatchReply ==
    /\ Processor!GetBatch
    /\ Storage!CloseBatch(runs)
    /\ run'.tests = RepliedOutputs

GetBatchError ==
    /\ Processor!GetBatchError
    /\ Storage!CallFails(runs)

GetBatchUndefined ==
    /\ run.pc = "batch" /\ Current.pc = "undefined"
    /\ Processor!GetBatch \/ Processor!GetBatchError
    /\ UNCHANGED storageVars

(* The steps in which the testing processor does not talk to tabasco. *)
ProcessorAlone ==
    /\ \/ Processor!RunContainer \/ Processor!PopenFails \/ Processor!InitScript
       \/ Processor!StartTest \/ Processor!Execute \/ Processor!ExecutorDies
       \/ Processor!ExecFails \/ Processor!FetchReport
       \/ Processor!FetchFromHost \/ Processor!FetchThrows \/ Processor!Commit
    /\ UNCHANGED storageVars

Process == Processor!Process /\ UNCHANGED storageVars

(* The steps in which only the database changes. *)
StorageAlone ==
    /\ (\E w \in Workers : Storage!HttpStep(w)) \/ Storage!HttpCrash \/ Storage!UpsertBuild
    /\ UNCHANGED processorVars

Test ==
    \/ ProcessorAlone \/ GetScripts \/ ServeBatch
    \/ GetBatchReply \/ GetBatchError \/ GetBatchUndefined

Next == Process \/ StorageAlone \/ Test

(* The processor's thread goes on, the gRPC server answers and its cursors have an end. *)
Spec == Init /\ [][Next]_vars /\ WF_vars(Test)

----------------------------------------------------------------------------
(* The verdict userver takes is OK, and the host did not fail at every test. *)
Accepted ==
    /\ run.pc = "commit" /\ run.report # <<>>
    /\ Processor!FinalVerdict(Processor!Verdicts(run.report)) = "OK"
    /\ \E k \in 1..Len(run.report) : run.report[k].basis # "host failed"

(***************************************************************************)
(* From the upload to the verdict: a submission is accepted only after it  *)
(* was tested on all the tests of the last accepted upload of its task and *)
(* on no other, and was run on every one of them that expects output and   *)
(* at which neither the host failed nor the checker was killed.  Provided  *)
(* that the submission was fetched in a calm moment: no upload of the task *)
(* under way, none empty, earlier ones made one at a time and no later one *)
(* broken off; and that the host did not fail at every test.               *)
(***************************************************************************)
AcceptedOnItsTests ==
    /\ Accepted
    /\ Current.calm /\ Current.solo /\ ~Current.torn
    /\ \A u \in Storage!UploadsOf(Current.task) : Storage!TestsOf(u) > 0
    => /\ Current.base # 0 /\ Len(run.report) = Storage!TestsOf(Current.base)
       /\ \A k \in 1..Len(run.report) :
             LET entry == run.report[k]
             IN /\ entry.answer = TextOf(Current.base)
                /\ entry.answer # "" => entry.basis # "not run"

(***************************************************************************)
(* Also while an upload is under way, a submission that is accepted passed *)
(* no test older than the last upload accepted before it was begun.        *)
(* Provided that the uploads before it were made one at a time (solo: two  *)
(* at once may leave an older document that no later upload reaches), that *)
(* every batch asked for was defined (done) and that the host did not fail *)
(* at every test.                                                          *)
(***************************************************************************)
AcceptedOnNothingOlder ==
    Accepted /\ Current.solo /\ Current.pc = "done"
    => \A k \in 1..Len(run.report) :
          \E u \in Current.base..MaxUploads : run.report[k].answer = TextOf(u)

(***************************************************************************)
(* The processor keeps its promise to the broker client also with a        *)
(* tabasco that answers step by step, wrongly or not at all: a submission  *)
(* ends, with one report that stops at the first failure or with none.     *)
(***************************************************************************)
KeepsPromise == Processor!KeepsPromise
=============================================================================
