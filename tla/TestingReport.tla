--------------------------- MODULE TestingReport ---------------------------
(***************************************************************************)
(* The reports of a testing processor: how the verdict on one test comes   *)
(* about, and which lists of verdicts TTestingProcessor::Test may return.  *)
(***************************************************************************)
EXTENDS Naturals, Sequences

Verdict == {"OK", "WA", "TL", "ML", "RE", "CE", "CRASH"}

(***************************************************************************)
(* What becomes of the status system() returns for the checker, diff: 0    *)
(* for equal files, 1 for different ones, 2 for trouble.  It goes through  *)
(* WEXITSTATUS without WIFEXITED, which makes a 0 of a death by a signal.  *)
(***************************************************************************)
CheckOutput(checkerStatus) ==
    CASE checkerStatus \in {"exit 0", "killed"} -> "OK"
      [] checkerStatus = "exit 1" -> "WA"
      [] OTHER -> "CRASH"

(***************************************************************************)
(* The checks of ExecuteAndTest in their order.  report is what the        *)
(* executor wrote, its numbers reduced to how they compare with the limits.*)
(***************************************************************************)
VerdictOf(report, checkerStatus) ==
    CASE report.exitCode # 0 -> "RE"
      [] report.exitCode = 0 /\ report.overTime -> "TL"
      [] report.exitCode = 0 /\ ~report.overTime /\ report.overMemory -> "ML"
      [] OTHER -> CheckOutput(checkerStatus)

(* What Test returns after at most max tests: it stops at the first verdict other than OK. *)
Reports(max) ==
    {<<>>} \cup {[k \in 1..n |-> IF k < n THEN "OK" ELSE v] : n \in 1..max, v \in Verdict}

(* The verdict userver records for a submission: results.report[-1]. *)
FinalVerdict(verdicts) == verdicts[Len(verdicts)]
=============================================================================
