------------------------------ MODULE Executor ------------------------------
(***************************************************************************)
(* TExecutor::Execute inside the container: the solution runs in a process *)
(* group of its own under RLIMIT_CPU while the executor waits for its end  *)
(* or for a timeout, kills what is left and writes the report, from which  *)
(* the testing processor takes its verdict.  Limits change their unit on   *)
(* the way from userver to the executor and back.                          *)
(*                                                                         *)
(* Time advances in seconds; MsPerSecond stands for the 1000 of the code,  *)
(* KbPerMb for 1024 and IntHalf for 2^31.                                  *)
(***************************************************************************)
EXTENDS Integers, TestingReport

CONSTANTS
    TimeLimits,    \* tasks.time_limit, in seconds
    MemoryLimits,  \* tasks.memory_limit, in MB
    Peaks,         \* memory a solution may reach, in KB
    MsPerSecond,
    KbPerMb,
    Cores,         \* cpu seconds a solution can use in a second
    IntHalf,       \* 2^31: an int is at least -IntHalf and less than IntHalf
    MaxSeconds     \* bound: length of a behaviour

ASSUME LimitsAssumption == TimeLimits \subseteq Nat /\ MsPerSecond \in Nat \ {0}
ASSUME MemoryAssumption == MemoryLimits \subseteq Nat /\ Peaks \subseteq Nat /\ KbPerMb \in Nat \ {0}
ASSUME CoresAssumption == Cores \in Nat \ {0}
ASSUME BoundsAssumption == IntHalf \in Nat \ {0} /\ MaxSeconds \in Nat

VARIABLES
    timeLimit,   \* time_limit of the task at hand
    memoryLimit, \* its memory_limit
    timeout,     \* of epoll_wait in milliseconds, for ever when negative
    pc,          \* "wait", "kill", "reap", "done"
    child,       \* [state, cpu, left]: "forked", "running" or how it ended, cpu in
                 \* seconds, and whether it has ever left its process group
    helpers,     \* living processes it started: "stayed" in the group, "left" it
    clock,       \* seconds since the fork
    report,      \* report.json: [exitCode, cpu, memorySpent]
    verdict      \* of ExecuteAndTest if the output is right, "" before

vars == <<timeLimit, memoryLimit, timeout, pc, child, helpers, clock, report, verdict>>

(* time_limit * 1000 as sent by userver, forwarded as it is, read as seconds. *)
CpuTimeLimitSeconds(limit) == limit * MsPerSecond

(* mutant: the product is taken as it is *)
NoConversion(x) == x

(* static_cast<int> *)
ToInt(x) == ((x + IntHalf) % (2 * IntHalf)) - IntHalf

(* The last argument of epoll_wait. *)
Timeout(limit) == ToInt(CpuTimeLimitSeconds(limit) * MsPerSecond)

NoReport == [exitCode |-> -1, cpu |-> 0, memorySpent |-> 0]

Init ==
    /\ timeLimit \in TimeLimits
    /\ memoryLimit \in MemoryLimits
    /\ timeout = Timeout(timeLimit)
    /\ pc = "wait"
    /\ child = [state |-> "forked", cpu |-> 0, left |-> FALSE]
    /\ helpers = {}
    /\ clock = 0
    /\ report = NoReport
    /\ verdict = ""

Alive == child.state \in {"forked", "running"}
TimedOut == timeout >= 0 /\ clock * MsPerSecond >= timeout

(* The kernel takes a limit of 0 for 1. *)
OverCpu ==
    /\ child.state = "running"
    /\ child.cpu >= IF timeLimit = 0 THEN 1 ELSE CpuTimeLimitSeconds(timeLimit)

(* The child enters a group of its own, sets its limit and becomes the solution. *)
SetUp ==
    /\ child.state = "forked"
    /\ child' = [child EXCEPT !.state = "running"]
    /\ UNCHANGED <<timeLimit, memoryLimit, timeout, pc, helpers, clock, report, verdict>>

(* A second passes, which the solution spends computing or not; nothing that is due waits. *)
Tick ==
    /\ child.state = "running" /\ ~OverCpu /\ clock < MaxSeconds
    /\ (pc = "wait" /\ ~TimedOut) \/ pc = "reap"
    /\ clock' = clock + 1
    /\ \E used \in 0..Cores : child' = [child EXCEPT !.cpu = @ + used]
    /\ UNCHANGED <<timeLimit, memoryLimit, timeout, pc, helpers, report, verdict>>

(* The solution starts processes, which are in its group; none of them ends by itself. *)
Fork ==
    /\ child.state = "running"
    /\ helpers' = helpers \cup {IF child.left THEN "left" ELSE "stayed"}
    /\ UNCHANGED <<timeLimit, memoryLimit, timeout, pc, child, clock, report, verdict>>

(* setpgid or setsid: the solution or what it has started leaves the group, and may come back. *)
Leave ==
    /\ \/ child.state = "running" /\ child' = [child EXCEPT !.left = TRUE] /\ UNCHANGED helpers
       \/ "stayed" \in helpers /\ helpers' \in {{"left"}, {"stayed", "left"}} /\ UNCHANGED child
    /\ UNCHANGED <<timeLimit, memoryLimit, timeout, pc, clock, report, verdict>>

(* The solution ends, with 0 or with an error. *)
Exit ==
    /\ child.state = "running"
    /\ \E how \in {"exit 0", "exit 1"} : child' = [child EXCEPT !.state = how]
    /\ UNCHANGED <<timeLimit, memoryLimit, timeout, pc, helpers, clock, report, verdict>>

(***************************************************************************)
(* docker run --memory: the container has a limit of its own, whatever the *)
(* task allows, for all that is in it; who exceeds it may be killed.       *)
(***************************************************************************)
ContainerKills ==
    /\ child.state = "running"
    /\ child' = [child EXCEPT !.state = "out of memory"]
    /\ UNCHANGED <<timeLimit, memoryLimit, timeout, pc, helpers, clock, report, verdict>>

(* The kernel enforces RLIMIT_CPU, soft and hard limit being the same. *)
RlimitKills ==
    /\ OverCpu
    /\ child' = [child EXCEPT !.state = "killed"]
    /\ UNCHANGED <<timeLimit, memoryLimit, timeout, pc, helpers, clock, report, verdict>>

(* epoll_wait returns: the pidfd of the child is readable, or the time is up. *)
WakeExit ==
    /\ pc = "wait" /\ ~Alive
    /\ pc' = "kill"
    /\ UNCHANGED <<timeLimit, memoryLimit, timeout, child, helpers, clock, report, verdict>>

(* mutant: epoll_wait without a timeout *)
WakeNever == FALSE /\ UNCHANGED vars

WakeTimeout ==
    /\ pc = "wait" /\ TimedOut
    /\ pc' = "kill"
    /\ UNCHANGED <<timeLimit, memoryLimit, timeout, child, helpers, clock, report, verdict>>

(* Who has left the group is killed only if it has come back. *)
Killed == child.state = "running" /\ child' = [child EXCEPT !.state = "killed"]
Spared == (child.state = "running" => child.left) /\ UNCHANGED child

(* mutant: kill(pid) *)
KillChild ==
    /\ pc = "kill"
    /\ Killed \/ Spared
    /\ pc' = "reap"
    /\ UNCHANGED <<timeLimit, memoryLimit, timeout, helpers, clock, report, verdict>>

(***************************************************************************)
(* kill(-pid, SIGKILL): the whole group, which does not exist yet when the *)
(* child was only forked; a child that has ended keeps its status.         *)
(***************************************************************************)
KillGroup ==
    /\ pc = "kill"
    /\ Killed \/ Spared
    /\ helpers' \in SUBSET (helpers \ {"stayed"})
    /\ pc' = "reap"
    /\ UNCHANGED <<timeLimit, memoryLimit, timeout, clock, report, verdict>>

(* mutant: WEXITSTATUS without WIFEXITED *)
ExitStatusOnly(state) == IF state = "exit 1" THEN 1 ELSE 0

(* !WIFEXITED(waitStatus) || WEXITSTATUS(waitStatus) *)
ExitCode(state) == IF state = "exit 0" THEN 0 ELSE 1

(* wait4 and the report; the memory is ru_maxrss, in KB. *)
Reap ==
    /\ pc = "reap" /\ ~Alive
    /\ \E peak \in Peaks :
         report' = [exitCode |-> ExitCode(child.state), cpu |-> child.cpu, memorySpent |-> peak]
    /\ pc' = "done"
    /\ UNCHANGED <<timeLimit, memoryLimit, timeout, child, helpers, clock, verdict>>

----------------------------------------------------------------------------
(* The testing processor. *)

(* Seconds as the executor reports them: cpuTimeElapsedMicroSeconds. *)
MicroSeconds(seconds) == seconds * MsPerSecond * MsPerSecond

(* mutant: microseconds compared with milliseconds *)
OverTimeInMs == MicroSeconds(report.cpu) > timeLimit * MsPerSecond

(* > cpuTimeLimitMilliSeconds * 1000, of time_limit * 1000 as userver sent it *)
OverTime == MicroSeconds(report.cpu) > (timeLimit * MsPerSecond) * MsPerSecond

(* memorySpent > memoryLimit: kilobytes with the bytes userver sent *)
OverMemory == report.memorySpent > memoryLimit * KbPerMb * KbPerMb

(* ExecuteAndTest on a report and an output that is right. *)
Judge ==
    /\ pc = "done" /\ verdict = ""
    /\ verdict' = VerdictOf([exitCode |-> report.exitCode, overTime |-> OverTime,
                             overMemory |-> OverMemory], "exit 0")
    /\ UNCHANGED <<timeLimit, memoryLimit, timeout, pc, child, helpers, clock, report>>

Step == Judge \/ SetUp \/ Tick \/ RlimitKills \/ WakeExit \/ WakeTimeout \/ KillGroup \/ Reap

Next == Step \/ Fork \/ Leave \/ Exit \/ ContainerKills

(* Time passes and the executor is scheduled; the solution need not end. *)
Spec == Init /\ [][Next]_vars /\ WF_vars(Step)

----------------------------------------------------------------------------
(* Type correctness. *)
TypeOK ==
    /\ timeLimit \in TimeLimits /\ memoryLimit \in MemoryLimits
    /\ timeout \in -IntHalf..(IntHalf - 1) /\ clock \in 0..MaxSeconds
    /\ pc \in {"wait", "kill", "reap", "done"}
    /\ child \in [state : {"forked", "running", "exit 0", "exit 1", "killed", "out of memory"},
                  cpu : 0..(Cores * MaxSeconds), left : BOOLEAN]
    /\ helpers \subseteq {"stayed", "left"} /\ verdict \in Verdict \cup {""}
    /\ report \in [exitCode : {-1, 0, 1}, cpu : Nat, memorySpent : Nat]

(***************************************************************************)
(* A right answer passes only when the solution itself ended with 0 within *)
(* the time limit of its task, counting what it waited for, also when its  *)
(* end and the timeout come together and although the executor applies a   *)
(* limit in another unit.                                                  *)
(***************************************************************************)
PassIsEarned == verdict = "OK" => child.state = "exit 0" /\ child.cpu <= timeLimit

(***************************************************************************)
(* No one is punished without reason: TL and ML mean that the limit of the *)
(* task was exceeded, and RE that the solution failed by itself, exceeded  *)
(* the memory of the container or was killed not before its time, as long  *)
(* as the timeout fits into an int.                                        *)
(***************************************************************************)
PenaltyIsDue ==
    /\ verdict = "TL" => child.cpu > timeLimit
    /\ verdict = "ML" => report.memorySpent > memoryLimit * KbPerMb
    /\ verdict = "RE" =>
         \/ child.state \in {"exit 1", "out of memory"}
         \/ child.state = "killed" /\ (child.cpu >= timeLimit \/ clock >= timeLimit)
         \/ timeout # CpuTimeLimitSeconds(timeLimit) * MsPerSecond

(***************************************************************************)
(* Nothing the solution started and that stayed in its process group is    *)
(* alive when the report is written; what has left the group by setpgid or *)
(* setsid may be.  Only without any time to wait the kill may come before  *)
(* the group exists.                                                       *)
(***************************************************************************)
NoSurvivors == pc = "done" /\ timeout # 0 => "stayed" \notin helpers

(***************************************************************************)
(* The executor ends whatever the solution does, as long as its timeout is *)
(* positive (a limit too large for an int may make it negative), or else   *)
(* it waits for a solution that has left its own group and does not end.   *)
(***************************************************************************)
ExecutorEnds == timeout > 0 => <>(pc = "done") \/ <>[](Alive /\ child.left)

(***************************************************************************)
(* The help text of --cpu-time-limit: the limit is in seconds of cpu time, *)
(* so no solution uses more seconds than its task allows.                  *)
(***************************************************************************)
LimitIsInSeconds == child.cpu <= timeLimit
=============================================================================
