--------------------------- MODULE ExecutorProofs ---------------------------
(***************************************************************************)
(* Proofs about Executor: what a verdict says of the run of the solution   *)
(* and what the kill leaves behind, for any limits, units, number of cores *)
(* and width of an int.                                                    *)
(***************************************************************************)
EXTENDS Executor, TLAPS

----------------------------------------------------------------------------
(* The types of TypeOK as record types; the cpu time is bounded by CpuBounded. *)
States == {"forked", "running", "exit 0", "exit 1", "killed", "out of memory"}
ExitCodes == {-1, 0, 1}
Child == [state : States, cpu : Nat, left : BOOLEAN]
Report == [exitCode : ExitCodes, cpu : Nat, memorySpent : Nat]
Pcs == {"wait", "kill", "reap", "done"}

Types ==
    /\ timeLimit \in TimeLimits /\ memoryLimit \in MemoryLimits
    /\ timeout = Timeout(timeLimit) /\ timeout \in Int
    /\ clock \in Nat /\ clock <= MaxSeconds
    /\ pc \in Pcs /\ child \in Child /\ report \in Report
    /\ helpers \subseteq {"stayed", "left"} /\ verdict \in Verdict \cup {""}

(* Each second has Cores seconds of cpu time. *)
CpuBounded == child.cpu <= Cores * clock

(* A child that is only forked has used nothing and started nothing. *)
ForkedIsNew == child.state = "forked" => clock = 0 /\ helpers = {}

(***************************************************************************)
(* Past the wait a child is alive only because the time was up, and past   *)
(* the kill only when it has left its group, or when there was no time at  *)
(* all, so that the kill found no group.  Then nothing is left of the      *)
(* group but what is out of it.                                            *)
(***************************************************************************)
KillReaches ==
    /\ pc = "kill" /\ Alive => TimedOut
    /\ pc \in {"reap", "done"} /\ timeout # 0 => (Alive => child.left /\ child.state = "running") /\ "stayed" \notin helpers
    /\ pc = "done" => ~Alive

(* A killed solution had its time, by its cpu time or by the clock. *)
Deserved(cpu, seconds) ==
    \/ cpu >= timeLimit \/ seconds >= timeLimit
    \/ timeout # CpuTimeLimitSeconds(timeLimit) * MsPerSecond

KilledInTime == child.state = "killed" => Deserved(child.cpu, clock)

(* The report is about the child as it ended, and the verdict comes after it. *)
ReportIsOfChild ==
    /\ pc = "done" => report.exitCode = ExitCode(child.state) /\ report.cpu = child.cpu
    /\ verdict # "" => pc = "done"

ExecutorInv ==
    /\ Types /\ CpuBounded /\ ForkedIsNew /\ KillReaches /\ KilledInTime /\ ReportIsOfChild
    /\ PassIsEarned /\ PenaltyIsDue

----------------------------------------------------------------------------
(* Arithmetic of the units. *)

LEMMA TimesMonotone ==
    ASSUME NEW a \in Nat, NEW b \in Nat, NEW c \in Nat
    PROVE  /\ a * c \in Nat
           /\ a <= b => a * c <= b * c
OBVIOUS

LEMMA TimesCancels ==
    ASSUME NEW a \in Nat, NEW b \in Nat, NEW c \in Nat \ {0}, a * c <= b * c
    PROVE  a <= b
<1> SUFFICES ASSUME b + 1 <= a PROVE FALSE
  OBVIOUS
<1>1. (b + 1) * c <= a * c
  BY TimesMonotone
<1>2. (b + 1) * c = b * c + c
  OBVIOUS
<1>3. b * c \in Nat /\ a * c \in Nat
  BY TimesMonotone
<1> QED
  BY <1>1, <1>2, <1>3

LEMMA TimesGrows ==
    ASSUME NEW a \in Nat, NEW c \in Nat \ {0}
    PROVE  a <= a * c
<1>1. 1 * a <= c * a
  BY TimesMonotone, 1 \in Nat, 1 <= c
<1> QED
  BY <1>1

(* A static_cast<int> stays in the range of an int. *)
LEMMA ToIntRange ==
    ASSUME NEW x \in Nat
    PROVE  ToInt(x) \in -IntHalf..(IntHalf - 1)
<1> DEFINE m == 2 * IntHalf
           y == x + IntHalf
<1>1. m \in Nat \ {0} /\ y \in Nat
  BY BoundsAssumption
<1> HIDE DEF m, y
<1>2. y % m \in 0..(m - 1)
  BY <1>1
<1> QED
  BY <1>2, BoundsAssumption DEF ToInt, m, y

LEMMA TimeoutRange ==
    ASSUME NEW limit \in TimeLimits
    PROVE  /\ limit \in Nat
           /\ CpuTimeLimitSeconds(limit) \in Nat
           /\ Timeout(limit) \in -IntHalf..(IntHalf - 1)
           /\ Timeout(limit) \in Int
<1>1. limit \in Nat /\ MsPerSecond \in Nat
  BY LimitsAssumption
<1>2. CpuTimeLimitSeconds(limit) \in Nat
  BY <1>1, TimesMonotone DEF CpuTimeLimitSeconds
<1>3. CpuTimeLimitSeconds(limit) * MsPerSecond \in Nat
  BY <1>1, <1>2, TimesMonotone
<1>4. Timeout(limit) \in -IntHalf..(IntHalf - 1)
  BY <1>3, ToIntRange DEF Timeout
<1> QED
  BY <1>1, <1>2, <1>4, BoundsAssumption

(* Who is killed after the timeout had timeLimit seconds, unless the int is too small. *)
LEMMA TimeoutDeserved ==
    ASSUME Types, TimedOut
    PROVE  Deserved(child.cpu, clock)
<1> SUFFICES ASSUME timeout = CpuTimeLimitSeconds(timeLimit) * MsPerSecond
             PROVE  clock >= timeLimit
  BY DEF Deserved
<1>1. timeLimit \in Nat /\ CpuTimeLimitSeconds(timeLimit) \in Nat /\ clock \in Nat /\ MsPerSecond \in Nat \ {0}
  BY TimeoutRange, LimitsAssumption DEF Types
<1>2. CpuTimeLimitSeconds(timeLimit) * MsPerSecond <= clock * MsPerSecond
  BY <1>1, TimesMonotone DEF TimedOut
<1>3. CpuTimeLimitSeconds(timeLimit) <= clock
  BY <1>1, <1>2, TimesCancels
<1>4. timeLimit <= CpuTimeLimitSeconds(timeLimit)
  BY <1>1, TimesGrows DEF CpuTimeLimitSeconds
<1> QED
  BY <1>1, <1>3, <1>4

LEMMA RlimitDeserved ==
    ASSUME Types, OverCpu
    PROVE  Deserved(child.cpu, clock)
<1>1. timeLimit \in Nat /\ CpuTimeLimitSeconds(timeLimit) \in Nat /\ child.cpu \in Nat /\ MsPerSecond \in Nat \ {0}
  BY TimeoutRange, LimitsAssumption DEF Types, Child
<1>2. timeLimit <= CpuTimeLimitSeconds(timeLimit)
  BY <1>1, TimesGrows DEF CpuTimeLimitSeconds
<1> QED
  BY <1>1, <1>2 DEF OverCpu, Deserved

LEMMA OneIsNotZero == \A n \in Nat : n = 1 => n # 0
OBVIOUS

LEMMA OnlyExitZeroIsZero ==
    ASSUME NEW state, ExitCode(state) = 0
    PROVE  state = "exit 0"
<1>1. state # "exit 0" => ExitCode(state) = 1
  BY DEF ExitCode
<1>2. 1 \in Nat
  OBVIOUS
<1> QED
  BY <1>1, <1>2, OneIsNotZero, Zenon

----------------------------------------------------------------------------
(* The comparisons of the testing processor. *)

LEMMA OverTimeMeans ==
    ASSUME Types
    PROVE  OverTime <=> report.cpu > timeLimit
<1>1. timeLimit \in Nat /\ report.cpu \in Nat /\ MsPerSecond \in Nat \ {0}
  BY TimeoutRange, LimitsAssumption DEF Types, Report
<1> DEFINE a == report.cpu * MsPerSecond
           b == timeLimit * MsPerSecond
<1>2. a \in Nat /\ b \in Nat /\ a * MsPerSecond \in Nat /\ b * MsPerSecond \in Nat
  BY <1>1, TimesMonotone
<1>3. OverTime <=> a * MsPerSecond > b * MsPerSecond
  BY DEF OverTime, MicroSeconds
<1>4. a * MsPerSecond <= b * MsPerSecond <=> a <= b
  <2> HIDE DEF a, b
  <2> QED
    BY <1>1, <1>2, TimesMonotone, TimesCancels
<1>5. a <= b <=> report.cpu <= timeLimit
  BY <1>1, TimesMonotone, TimesCancels
<1> HIDE DEF a, b
<1>6. OverTime <=> ~(a * MsPerSecond <= b * MsPerSecond)
  BY <1>2, <1>3
<1> QED
  BY <1>1, <1>4, <1>5, <1>6

LEMMA OverMemoryMeans ==
    ASSUME Types, OverMemory
    PROVE  report.memorySpent > memoryLimit * KbPerMb
<1>1. memoryLimit \in Nat /\ KbPerMb \in Nat \ {0} /\ report.memorySpent \in Nat
  BY MemoryAssumption DEF Types, Report
<1> DEFINE kb == memoryLimit * KbPerMb
<1>2. kb \in Nat
  BY <1>1, TimesMonotone
<1>3. report.memorySpent > kb * KbPerMb
  BY DEF OverMemory
<1> HIDE DEF kb
<1>4. kb <= kb * KbPerMb /\ kb * KbPerMb \in Nat
  BY <1>1, <1>2, TimesGrows, TimesMonotone
<1>5. report.memorySpent > kb
  BY <1>1, <1>2, <1>3, <1>4
<1> QED
  BY <1>5 DEF kb

(* ExecuteAndTest on an output that is right. *)
LEMMA VerdictMeans ==
    ASSUME NEW code, NEW overTime \in BOOLEAN, NEW overMemory \in BOOLEAN, NEW v,
           v = VerdictOf([exitCode |-> code, overTime |-> overTime, overMemory |-> overMemory], "exit 0")
    PROVE  /\ v \in Verdict
           /\ v = "OK" => code = 0 /\ ~overTime
           /\ v = "TL" => overTime
           /\ v = "ML" => overMemory
           /\ v = "RE" => code # 0
<1>1. CASE code # 0
  <2>1. v = "RE"
    BY <1>1 DEF VerdictOf
  <2> QED
    BY <1>1, <2>1 DEF Verdict
<1>2. CASE code = 0 /\ overTime
  <2>1. v = "TL"
    BY <1>2 DEF VerdictOf
  <2> QED
    BY <1>2, <2>1 DEF Verdict
<1>3. CASE code = 0 /\ ~overTime /\ overMemory
  <2>1. v = "ML"
    BY <1>3 DEF VerdictOf
  <2> QED
    BY <1>3, <2>1 DEF Verdict
<1>4. CASE code = 0 /\ ~overTime /\ ~overMemory
  <2>1. v = "OK"
    BY <1>4 DEF VerdictOf, CheckOutput
  <2> QED
    BY <1>4, <2>1 DEF Verdict
<1> QED
  BY <1>1, <1>2, <1>3, <1>4

----------------------------------------------------------------------------
(* The invariant. *)

LEMMA InitInv == Init => ExecutorInv
<1> SUFFICES ASSUME Init PROVE ExecutorInv
  OBVIOUS
<1>1. Types
  <2>1. child \in Child
    BY DEF Init, Child, States
  <2>2. report \in Report
    BY DEF Init, NoReport, Report, ExitCodes
  <2>3. timeLimit \in TimeLimits /\ timeout = Timeout(timeLimit) /\ clock = 0
    BY DEF Init
  <2>4. timeout \in Int /\ clock \in Nat /\ clock <= MaxSeconds
    BY <2>3, TimeoutRange, BoundsAssumption
  <2> QED
    BY <2>1, <2>2, <2>4 DEF Init, Types, Pcs
<1>2. CpuBounded
  <2>1. child.cpu = 0 /\ clock = 0
    BY DEF Init
  <2>2. Cores * 0 = 0
    BY CoresAssumption
  <2> QED
    BY <2>1, <2>2 DEF CpuBounded
<1>3. ForkedIsNew /\ KillReaches /\ KilledInTime /\ ReportIsOfChild
  BY DEF Init, ForkedIsNew, KillReaches, KilledInTime, ReportIsOfChild
<1>4. PassIsEarned /\ PenaltyIsDue
  BY DEF Init, PassIsEarned, PenaltyIsDue
<1> QED
  BY <1>1, <1>2, <1>3, <1>4 DEF ExecutorInv

(* Once the report is written only the verdict is left to be given, whatever survivors do. *)
LEMMA OnlyJudgeIsLeft ==
    ASSUME ExecutorInv, Next, ~Judge, ~Leave
    PROVE  pc # "done" /\ verdict = "" /\ verdict' = ""
<1>1. pc # "done"
  BY DEF ExecutorInv, KillReaches, Next, Step, SetUp, Tick, RlimitKills, OverCpu, WakeExit, WakeTimeout,
         KillGroup, Reap, Fork, Exit, ContainerKills, Alive
<1>2. verdict' = verdict
  BY DEF Next, Step, SetUp, Tick, RlimitKills, WakeExit, WakeTimeout, KillGroup, Reap, Fork, Exit,
         ContainerKills
<1> QED
  BY <1>1, <1>2 DEF ExecutorInv, ReportIsOfChild

(* So a step other than these need not show what depends on a verdict. *)
LEMMA NoVerdictYet ==
    ASSUME ExecutorInv, Next, ~Judge, ~Leave
    PROVE  (PassIsEarned /\ PenaltyIsDue)'
BY OnlyJudgeIsLeft DEF PassIsEarned, PenaltyIsDue

LEMMA SetUpInv == ExecutorInv /\ SetUp => Types' /\ CpuBounded' /\ ForkedIsNew' /\ KillReaches' /\ KilledInTime' /\ ReportIsOfChild'
<1> SUFFICES ASSUME ExecutorInv, SetUp
             PROVE  Types' /\ CpuBounded' /\ ForkedIsNew' /\ KillReaches' /\ KilledInTime' /\ ReportIsOfChild'
  OBVIOUS
<1>1. child' \in Child /\ child'.state = "running" /\ child'.cpu = child.cpu
  BY DEF ExecutorInv, Types, SetUp, Child, States
<1>2. Types' /\ CpuBounded'
  BY <1>1 DEF ExecutorInv, Types, CpuBounded, SetUp
<1>3. ForkedIsNew' /\ KilledInTime'
  BY <1>1 DEF ForkedIsNew, KilledInTime
<1>4. KillReaches'
  BY <1>1 DEF ExecutorInv, KillReaches, SetUp, Alive, TimedOut
<1>5. ReportIsOfChild'
  BY <1>1 DEF ExecutorInv, KillReaches, ReportIsOfChild, SetUp, Alive
<1> QED
  BY <1>2, <1>3, <1>4, <1>5

LEMMA TickInv == ExecutorInv /\ Tick => Types' /\ CpuBounded' /\ ForkedIsNew' /\ KillReaches' /\ KilledInTime' /\ ReportIsOfChild'
<1> SUFFICES ASSUME ExecutorInv, Tick
             PROVE  Types' /\ CpuBounded' /\ ForkedIsNew' /\ KillReaches' /\ KilledInTime' /\ ReportIsOfChild'
  OBVIOUS
<1>1. PICK used \in 0..Cores : child' = [child EXCEPT !.cpu = @ + used]
  BY DEF Tick
<1>2. child' \in Child /\ child'.state = "running" /\ child'.cpu = child.cpu + used /\ child'.left = child.left
  <2>1. child \in Child /\ child.state = "running"
    BY DEF ExecutorInv, Types, Tick
  <2>2. child.cpu + used \in Nat
    BY <2>1, CoresAssumption DEF Child
  <2> QED
    BY <1>1, <2>1, <2>2 DEF Child
<1>3. clock \in Nat /\ clock' = clock + 1 /\ clock' \in Nat /\ clock' <= MaxSeconds
  <2>1. clock \in Nat /\ clock < MaxSeconds /\ clock' = clock + 1
    BY DEF ExecutorInv, Types, Tick
  <2> QED
    BY <2>1, BoundsAssumption
<1>4. Types'
  BY <1>2, <1>3 DEF ExecutorInv, Types, Tick
<1>5. CpuBounded'
  <2>1. Cores * clock' = Cores * clock + Cores /\ Cores * clock \in Nat
    BY <1>3, CoresAssumption
  <2>2. child.cpu \in Nat /\ child.cpu <= Cores * clock
    BY DEF ExecutorInv, Types, Child, CpuBounded
  <2> QED
    BY <1>2, <2>1, <2>2, CoresAssumption DEF CpuBounded
<1>6. ForkedIsNew' /\ KilledInTime'
  BY <1>2 DEF ForkedIsNew, KilledInTime
<1>7. KillReaches' /\ ReportIsOfChild'
  BY <1>2 DEF ExecutorInv, KillReaches, ReportIsOfChild, Tick, Alive
<1> QED
  BY <1>4, <1>5, <1>6, <1>7

LEMMA ForkInv == ExecutorInv /\ Fork => Types' /\ CpuBounded' /\ ForkedIsNew' /\ KillReaches' /\ KilledInTime' /\ ReportIsOfChild'
<1> SUFFICES ASSUME ExecutorInv, Fork
             PROVE  Types' /\ CpuBounded' /\ ForkedIsNew' /\ KillReaches' /\ KilledInTime' /\ ReportIsOfChild'
  OBVIOUS
<1>1. Types' /\ CpuBounded'
  BY DEF ExecutorInv, Types, CpuBounded, Fork
<1>2. ForkedIsNew' /\ KilledInTime'
  BY DEF ForkedIsNew, KilledInTime, Fork
<1>3. KillReaches' /\ ReportIsOfChild'
  BY DEF ExecutorInv, KillReaches, ReportIsOfChild, Fork, Alive, TimedOut
<1> QED
  BY <1>1, <1>2, <1>3

LEMMA LeaveInv == ExecutorInv /\ Leave => ExecutorInv'
<1> SUFFICES ASSUME ExecutorInv, Leave PROVE ExecutorInv'
  OBVIOUS
<1>1. /\ child' \in Child /\ child'.state = child.state /\ child'.cpu = child.cpu /\ (child.left => child'.left)
      /\ child.state = "forked" => helpers' = helpers
      /\ "stayed" \in helpers' => "stayed" \in helpers
      /\ helpers' \subseteq {"stayed", "left"}
  BY DEF ExecutorInv, Types, Child, ForkedIsNew, Leave
<1>2. Types' /\ CpuBounded'
  BY <1>1 DEF ExecutorInv, Types, CpuBounded, Leave
<1>3. ForkedIsNew' /\ KilledInTime'
  BY <1>1 DEF ExecutorInv, ForkedIsNew, KilledInTime, Deserved, Leave
<1>4. KillReaches' /\ ReportIsOfChild'
  BY <1>1 DEF ExecutorInv, KillReaches, ReportIsOfChild, Leave, Alive, TimedOut
<1>5. (PassIsEarned /\ PenaltyIsDue)'
  BY <1>1 DEF ExecutorInv, PassIsEarned, PenaltyIsDue, Leave
<1> QED
  BY <1>2, <1>3, <1>4, <1>5 DEF ExecutorInv

(* The solution ends by itself or is killed while it runs. *)
LEMMA EndInv ==
    ASSUME ExecutorInv, NEW how \in {"exit 0", "exit 1", "killed", "out of memory"},
           child.state = "running", child' = [child EXCEPT !.state = how],
           how = "killed" => Deserved(child.cpu, clock),
           UNCHANGED <<timeLimit, memoryLimit, timeout, pc, helpers, clock, report, verdict>>
    PROVE  Types' /\ CpuBounded' /\ ForkedIsNew' /\ KillReaches' /\ KilledInTime' /\ ReportIsOfChild'
<1>1. child' \in Child /\ child'.state = how /\ child'.cpu = child.cpu
  BY DEF ExecutorInv, Types, Child, States
<1>2. Types' /\ CpuBounded'
  BY <1>1 DEF ExecutorInv, Types, CpuBounded
<1>3. ForkedIsNew' /\ KilledInTime'
  BY <1>1 DEF ForkedIsNew, KilledInTime, Deserved
<1>4. KillReaches' /\ ReportIsOfChild'
  BY <1>1 DEF ExecutorInv, KillReaches, ReportIsOfChild, Alive, TimedOut
<1> QED
  BY <1>2, <1>3, <1>4

LEMMA ExitInv == ExecutorInv /\ Exit => Types' /\ CpuBounded' /\ ForkedIsNew' /\ KillReaches' /\ KilledInTime' /\ ReportIsOfChild'
<1> SUFFICES ASSUME ExecutorInv, Exit
             PROVE  Types' /\ CpuBounded' /\ ForkedIsNew' /\ KillReaches' /\ KilledInTime' /\ ReportIsOfChild'
  OBVIOUS
<1>1. PICK how \in {"exit 0", "exit 1"} : child' = [child EXCEPT !.state = how]
  BY DEF Exit
<1> QED
  BY <1>1, EndInv DEF Exit

LEMMA ContainerKillsInv == ExecutorInv /\ ContainerKills => Types' /\ CpuBounded' /\ ForkedIsNew' /\ KillReaches' /\ KilledInTime' /\ ReportIsOfChild'
<1> SUFFICES ASSUME ExecutorInv, ContainerKills
             PROVE  Types' /\ CpuBounded' /\ ForkedIsNew' /\ KillReaches' /\ KilledInTime' /\ ReportIsOfChild'
  OBVIOUS
<1> QED
  BY EndInv DEF ContainerKills

LEMMA RlimitKillsInv == ExecutorInv /\ RlimitKills => Types' /\ CpuBounded' /\ ForkedIsNew' /\ KillReaches' /\ KilledInTime' /\ ReportIsOfChild'
<1> SUFFICES ASSUME ExecutorInv, RlimitKills
             PROVE  Types' /\ CpuBounded' /\ ForkedIsNew' /\ KillReaches' /\ KilledInTime' /\ ReportIsOfChild'
  OBVIOUS
<1>1. Deserved(child.cpu, clock)
  BY RlimitDeserved DEF ExecutorInv, RlimitKills
<1>2. child.state = "running"
  BY DEF RlimitKills, OverCpu
<1> QED
  BY <1>1, <1>2, EndInv DEF RlimitKills

LEMMA WakeInv == ExecutorInv /\ (WakeExit \/ WakeTimeout) => Types' /\ CpuBounded' /\ ForkedIsNew' /\ KillReaches' /\ KilledInTime' /\ ReportIsOfChild'
<1> SUFFICES ASSUME ExecutorInv, WakeExit \/ WakeTimeout
             PROVE  Types' /\ CpuBounded' /\ ForkedIsNew' /\ KillReaches' /\ KilledInTime' /\ ReportIsOfChild'
  OBVIOUS
<1>1. /\ pc = "wait" /\ (~Alive \/ TimedOut) /\ pc' = "kill"
      /\ UNCHANGED <<timeLimit, memoryLimit, timeout, child, helpers, clock, report, verdict>>
  BY DEF WakeExit, WakeTimeout
<1>2. Types' /\ CpuBounded'
  BY <1>1 DEF ExecutorInv, Types, CpuBounded, Pcs
<1>3. ForkedIsNew' /\ KilledInTime'
  BY <1>1 DEF ExecutorInv, ForkedIsNew, KilledInTime, Deserved
<1>4. KillReaches'
  BY <1>1 DEF KillReaches, Alive, TimedOut
<1>5. ReportIsOfChild'
  BY <1>1 DEF ExecutorInv, ReportIsOfChild
<1> QED
  BY <1>2, <1>3, <1>4, <1>5

LEMMA KillGroupInv == ExecutorInv /\ KillGroup => Types' /\ CpuBounded' /\ ForkedIsNew' /\ KillReaches' /\ KilledInTime' /\ ReportIsOfChild'
<1> SUFFICES ASSUME ExecutorInv, KillGroup
             PROVE  Types' /\ CpuBounded' /\ ForkedIsNew' /\ KillReaches' /\ KilledInTime' /\ ReportIsOfChild'
  OBVIOUS
<1>1. /\ child' \in Child /\ child'.cpu = child.cpu /\ child'.left = child.left
      /\ \/ child.state = "running" /\ child'.state = "killed"
         \/ (child.state = "running" => child.left) /\ child'.state = child.state
      /\ helpers' \subseteq helpers /\ "stayed" \notin helpers'
  BY DEF ExecutorInv, Types, KillGroup, Killed, Spared, Child, States
<1>2. Types' /\ CpuBounded'
  BY <1>1 DEF ExecutorInv, Types, CpuBounded, KillGroup, Pcs
<1>3. ForkedIsNew'
  BY <1>1 DEF ExecutorInv, ForkedIsNew, KillGroup
<1>4. KilledInTime'
  <2>1. Alive => Deserved(child.cpu, clock)
    BY TimeoutDeserved DEF ExecutorInv, KillReaches, KillGroup
  <2> QED
    BY <1>1, <2>1 DEF ExecutorInv, KilledInTime, Deserved, Alive, KillGroup
<1>5. KillReaches'
  <2>1. child.state = "forked" => timeout = 0
    <3> SUFFICES ASSUME child.state = "forked" PROVE timeout = 0
      OBVIOUS
    <3>1. clock = 0 /\ TimedOut
      BY DEF ExecutorInv, ForkedIsNew, KillReaches, Alive, KillGroup
    <3>2. timeout \in Int /\ timeout >= 0 /\ 0 * MsPerSecond >= timeout
      BY <3>1 DEF ExecutorInv, Types, TimedOut
    <3> QED
      BY <3>2, LimitsAssumption
  <2> QED
    BY <1>1, <2>1 DEF KillReaches, Alive, KillGroup
<1>6. ReportIsOfChild'
  BY DEF ExecutorInv, ReportIsOfChild, KillGroup
<1> QED
  BY <1>2, <1>3, <1>4, <1>5, <1>6

LEMMA ReapInv == ExecutorInv /\ Reap => Types' /\ CpuBounded' /\ ForkedIsNew' /\ KillReaches' /\ KilledInTime' /\ ReportIsOfChild'
<1> SUFFICES ASSUME ExecutorInv, Reap
             PROVE  Types' /\ CpuBounded' /\ ForkedIsNew' /\ KillReaches' /\ KilledInTime' /\ ReportIsOfChild'
  OBVIOUS
<1>1. PICK peak \in Peaks :
         report' = [exitCode |-> ExitCode(child.state), cpu |-> child.cpu, memorySpent |-> peak]
  BY DEF Reap
<1>2. report' \in Report /\ report'.exitCode = ExitCode(child.state) /\ report'.cpu = child.cpu
  <2>1. ExitCode(child.state) \in ExitCodes
    BY DEF ExitCode, ExitCodes
  <2>2. child.cpu \in Nat /\ peak \in Nat
    BY MemoryAssumption DEF ExecutorInv, Types, Child
  <2> QED
    BY <1>1, <2>1, <2>2 DEF Report
<1>3. Types' /\ CpuBounded'
  BY <1>2 DEF ExecutorInv, Types, CpuBounded, Reap, Pcs
<1>4. ForkedIsNew' /\ KilledInTime'
  BY DEF ExecutorInv, ForkedIsNew, KilledInTime, Deserved, Reap
<1>5. KillReaches'
  BY DEF ExecutorInv, KillReaches, Alive, Reap
<1>6. ReportIsOfChild'
  BY <1>2 DEF ExecutorInv, ReportIsOfChild, Reap
<1> QED
  BY <1>3, <1>4, <1>5, <1>6

(* What the verdict means for the child follows from the report being its own. *)
LEMMA JudgeInv == ExecutorInv /\ Judge => ExecutorInv'
<1> SUFFICES ASSUME ExecutorInv, Judge PROVE ExecutorInv'
  OBVIOUS
<1>1. OverTime \in BOOLEAN /\ OverMemory \in BOOLEAN
  BY DEF OverTime, OverMemory
<1>2. /\ verdict' \in Verdict
      /\ verdict' = "OK" => report.exitCode = 0 /\ ~OverTime
      /\ verdict' = "TL" => OverTime
      /\ verdict' = "ML" => OverMemory
      /\ verdict' = "RE" => report.exitCode # 0
  BY <1>1, VerdictMeans DEF Judge
<1>3. report.exitCode = ExitCode(child.state) /\ report.cpu = child.cpu /\ ~Alive
  BY DEF ExecutorInv, ReportIsOfChild, KillReaches, Judge
<1>4. Types' /\ CpuBounded' /\ ForkedIsNew' /\ KilledInTime' /\ ReportIsOfChild'
  BY <1>2 DEF ExecutorInv, Types, CpuBounded, ForkedIsNew, KilledInTime, Deserved, ReportIsOfChild, Judge
<1>5. KillReaches'
  BY DEF ExecutorInv, KillReaches, Alive, TimedOut, Judge
<1>6. child.cpu \in Nat /\ timeLimit \in Nat
  BY TimeoutRange DEF ExecutorInv, Types, Child
<1>7. PassIsEarned'
  <2>1. report.exitCode = 0 => child.state = "exit 0"
    BY <1>3, OnlyExitZeroIsZero
  <2>2. ~OverTime => child.cpu <= timeLimit
    BY <1>3, <1>6, OverTimeMeans DEF ExecutorInv
  <2> QED
    BY <1>2, <2>1, <2>2 DEF PassIsEarned, Judge
<1>8. PenaltyIsDue'
  <2>1. OverTime => child.cpu > timeLimit
    BY <1>3, OverTimeMeans DEF ExecutorInv
  <2>2. OverMemory => report.memorySpent > memoryLimit * KbPerMb
    BY OverMemoryMeans DEF ExecutorInv
  <2>3. report.exitCode # 0 => child.state \in {"exit 1", "killed", "out of memory"}
    BY <1>3 DEF ExitCode, ExecutorInv, Types, Child, States, Alive
  <2>4. child.state = "killed" => Deserved(child.cpu, clock)
    BY DEF ExecutorInv, KilledInTime
  <2> QED
    BY <1>2, <2>1, <2>2, <2>3, <2>4 DEF PenaltyIsDue, Deserved, Judge
<1> QED
  BY <1>4, <1>5, <1>7, <1>8 DEF ExecutorInv

(* Every step of the executor, the solution and the testing processor keeps the invariant. *)
THEOREM ExecutorInvariant == Spec => []ExecutorInv
<1>1. ExecutorInv /\ [Next]_vars => ExecutorInv'
  <2> SUFFICES ASSUME ExecutorInv, [Next]_vars PROVE ExecutorInv'
    OBVIOUS
  <2>1. CASE UNCHANGED vars
    BY <2>1 DEF vars, ExecutorInv, Types, CpuBounded, ForkedIsNew, KillReaches, KilledInTime, Deserved,
                ReportIsOfChild, PassIsEarned, PenaltyIsDue, Alive, TimedOut
  <2>2. CASE Judge
    BY <2>2, JudgeInv
  <2>3. CASE Leave
    BY <2>3, LeaveInv
  <2>4. CASE Next /\ ~Judge /\ ~Leave
    <3>1. (PassIsEarned /\ PenaltyIsDue)'
      BY <2>4, NoVerdictYet
    <3>2. Types' /\ CpuBounded' /\ ForkedIsNew' /\ KillReaches' /\ KilledInTime' /\ ReportIsOfChild'
      BY <2>4, SetUpInv, TickInv, ForkInv, ExitInv, ContainerKillsInv, RlimitKillsInv, WakeInv, KillGroupInv, ReapInv DEF Next, Step
    <3> QED
      BY <3>1, <3>2 DEF ExecutorInv
  <2> QED
    BY <2>1, <2>2, <2>3, <2>4
<1> QED
  BY <1>1, InitInv, PTL DEF Spec

----------------------------------------------------------------------------
(* What a run of the executor shows. *)

(***************************************************************************)
(* Type correctness: timeout is an int whatever the limit, and the child   *)
(* uses no more cpu time than its cores offer.                             *)
(***************************************************************************)
THEOREM ExecutorTypes == Spec => []TypeOK
<1>1. ExecutorInv => TypeOK
  <2> SUFFICES ASSUME ExecutorInv PROVE TypeOK
    OBVIOUS
  <2>1. timeout \in -IntHalf..(IntHalf - 1) /\ clock \in 0..MaxSeconds
    <3>1. timeLimit \in TimeLimits /\ timeout = Timeout(timeLimit) /\ clock \in Nat /\ clock <= MaxSeconds
      BY DEF ExecutorInv, Types
    <3> QED
      BY <3>1, TimeoutRange, BoundsAssumption
  <2>2. child \in [state : States, cpu : 0..(Cores * MaxSeconds), left : BOOLEAN]
    <3>1. Cores * clock <= Cores * MaxSeconds /\ Cores * clock \in Nat /\ Cores * MaxSeconds \in Nat
      <4>1. clock \in Nat /\ MaxSeconds \in Nat /\ Cores \in Nat /\ clock <= MaxSeconds
        BY BoundsAssumption, CoresAssumption DEF ExecutorInv, Types
      <4>2. clock * Cores <= MaxSeconds * Cores
        BY <4>1, TimesMonotone
      <4> QED
        BY <4>1, <4>2
    <3>2. child.cpu \in Nat /\ child.cpu <= Cores * clock
      BY DEF ExecutorInv, Types, Child, CpuBounded
    <3>3. child.cpu \in 0..(Cores * MaxSeconds)
      BY <3>1, <3>2
    <3> QED
      BY <3>3 DEF ExecutorInv, Types, Child
  <2> QED
    BY <2>1, <2>2 DEF ExecutorInv, Types, TypeOK, States, Pcs, Report, ExitCodes
<1> QED
  BY <1>1, ExecutorInvariant, PTL

(***************************************************************************)
(* A right answer passes only if the solution ended with 0 within the time *)
(* limit of its task, although the executor applies the limit in another   *)
(* unit.                                                                   *)
(***************************************************************************)
THEOREM PassesAreEarned == Spec => []PassIsEarned
<1>1. ExecutorInv => PassIsEarned
  BY DEF ExecutorInv
<1> QED
  BY <1>1, ExecutorInvariant, PTL

(***************************************************************************)
(* TL, ML and RE are given only for a limit that was exceeded, a failure   *)
(* of the solution, the memory limit of the container or a kill not before *)
(* its time, if the timeout fits into an int.                              *)
(***************************************************************************)
THEOREM PenaltiesAreDue == Spec => []PenaltyIsDue
<1>1. ExecutorInv => PenaltyIsDue
  BY DEF ExecutorInv
<1> QED
  BY <1>1, ExecutorInvariant, PTL

(***************************************************************************)
(* With a timeout other than 0 nothing the solution started is alive when  *)
(* the report is written, whenever it forked or ended, except what has     *)
(* left the process group, which kill(-pid) does not reach.                *)
(***************************************************************************)
THEOREM NothingSurvives == Spec => []NoSurvivors
<1>1. ExecutorInv => NoSurvivors
  BY DEF ExecutorInv, KillReaches, NoSurvivors
<1> QED
  BY <1>1, ExecutorInvariant, PTL
=============================================================================
