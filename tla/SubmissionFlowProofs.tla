----------------------- MODULE SubmissionFlowProofs ------------------------
(***************************************************************************)
(* Proofs about SubmissionFlow: no submission is lost unnoticed, results   *)
(* come from stored tests, tests are stored at most once per delivery, and *)
(* all of it implements SubmissionLifecycle, for any number of submissions,*)
(* instances and faults.                                                   *)
(***************************************************************************)
EXTENDS SubmissionFlow, FiniteSetTheorems, TLAPS

----------------------------------------------------------------------------
(* The types of TypeOK, by name. *)
Row == [state : {"new", "saved", "sent", "unsent"}, result : Verdict \cup {"NULL"}, rows : Seq(Results)]
Instance == [pc : {"idle", "process", "commit", "posting", "ack", "down"},
             sub : Submissions \cup {None}, nr : Nat, report : Results \cup {<<>>}, connected : BOOLEAN]
Post == [sub : Submissions, nr : Nat, report : Results, pc : {"result", "rows"}]
Excuses == {"exception", "unreachable", "broker", "result", "rows"}

Types ==
    /\ solution \in [Submissions -> Row]
    /\ queue \subseteq Submissions
    /\ inst \in [Instances -> Instance]
    /\ posts \subseteq Post
    /\ delivered \in [Submissions -> Nat]
    /\ excuse \in [Submissions -> SUBSET Excuses]
    /\ faults \in 0..MaxFaults

(* An instance has a submission exactly while its callback runs. *)
Busy(x) == x.pc \in {"process", "commit", "posting", "ack"}
BusyWithOne ==
    \A i \in Instances :
        /\ Busy(inst[i]) <=> inst[i].sub # None
        /\ inst[i].pc = "commit" => inst[i].report \in Results

(* Whatever holds a submission, it was sent. *)
HeldIsSent == \A s \in Submissions : Held(s) => solution[s].state = "sent"

(* A submission that needs no message any more; once safe, always safe. *)
Safe(s) ==
    \/ excuse[s] # {}
    \/ InUserver(s) # {}
    \/ solution[s].result # "NULL" /\ solution[s].rows # <<>>

SentIsKept == \A s \in Submissions : solution[s].state = "sent" => OnBroker(s) \/ Safe(s)

(* The callback comes to the acknowledgement only with a safe submission. *)
AckedIsSafe ==
    \A i \in Instances, s \in Submissions :
        inst[i].pc \in {"posting", "ack"} /\ inst[i].sub = s => Safe(s)

(* The second transaction of a request follows its first. *)
RowsAfterResult == \A p \in posts : p.pc = "rows" => solution[p.sub].result # "NULL"

(* ResultFromRows while requests are under way. *)
ResultHasSource ==
    \A s \in Submissions :
        {"result", "rows"} \cap excuse[s] = {} =>
            \/ solution[s].result = "NULL" /\ solution[s].rows = <<>>
            \/ \E k \in 1..Len(solution[s].rows) :
                  solution[s].result = FinalVerdict(solution[s].rows[k])
            \/ \E p \in InUserver(s) : p.pc = "rows" /\ solution[s].result = FinalVerdict(p.report)

(* The instances that may still post a report of s. *)
WillPost(x, s) == x.pc \in {"process", "commit"} /\ x.sub = s
Working(s) == {i \in Instances : WillPost(inst[i], s)}

(* Each delivery is worked on, or in userver, or stored, or over. *)
Counted ==
    \A s \in Submissions :
        /\ IsFiniteSet(Working(s)) /\ IsFiniteSet(InUserver(s))
        /\ Len(solution[s].rows) + Cardinality(InUserver(s)) + Cardinality(Working(s)) <= delivered[s]

FlowInv ==
    /\ Types /\ BusyWithOne /\ HeldIsSent /\ SentIsKept /\ AckedIsSafe
    /\ RowsAfterResult /\ ResultHasSource /\ Counted

----------------------------------------------------------------------------
(* Facts about the operators. *)

LEMMA VerdictFacts == "NULL" \notin Verdict
  BY DEF Verdict

(* The last entry of a report with entries is a verdict. *)
LEMMA FinalVerdictType == ASSUME NEW r \in Results, r # <<>> PROVE FinalVerdict(r) \in Verdict
<1>1. r \in Reports(Len(r))
  BY ResultsAssumption
<1>2. PICK n \in 1..Len(r), v \in Verdict : r = [k \in 1..n |-> IF k < n THEN "OK" ELSE v]
  BY <1>1 DEF Reports
<1>3. r \in Seq(Verdict)
  <2>1. n \in Nat
    OBVIOUS
  <2> QED
    BY <1>2, <2>1 DEF Verdict
<1>4. Len(r) \in 1..Len(r) /\ Len(r) \in Nat
  BY <1>3
<1> QED
  BY <1>3, <1>4 DEF FinalVerdict

(* A set that gains at most one element gains at most one in size. *)
LEMMA AddedOne ==
    ASSUME NEW S, NEW T, NEW x, IsFiniteSet(S), T \subseteq S \cup {x}
    PROVE  IsFiniteSet(T) /\ Cardinality(T) \in Nat /\ Cardinality(S) \in Nat
           /\ Cardinality(T) <= Cardinality(S) + 1
<1>1. IsFiniteSet(S \cup {x})
      /\ Cardinality(S \cup {x}) = IF x \in S THEN Cardinality(S) ELSE Cardinality(S) + 1
  BY FS_AddElement
<1>2. IsFiniteSet(T) /\ Cardinality(T) <= Cardinality(S \cup {x})
  BY <1>1, FS_Subset
<1>3. Cardinality(T) \in Nat /\ Cardinality(S) \in Nat
  BY <1>2, FS_CardinalityType
<1> QED
  BY <1>1, <1>2, <1>3

LEMMA NoneAdded ==
    ASSUME NEW S, NEW T, IsFiniteSet(S), T \subseteq S
    PROVE  IsFiniteSet(T) /\ Cardinality(T) \in Nat /\ Cardinality(S) \in Nat
           /\ Cardinality(T) <= Cardinality(S)
  BY FS_Subset, FS_CardinalityType

LEMMA SumBelow ==
    \A a, b, c, d, e, f \in Nat : a + b <= c + d /\ c + d + e <= f => a + b + e <= f
  OBVIOUS

LEMMA OneMovesOver ==
    \A a, b, c, d \in Nat : b + 1 <= d /\ a = c + 1 => a + b <= c + d
  OBVIOUS

LEMMA AppendFacts ==
    ASSUME NEW S, NEW q \in Seq(S), NEW e \in S
    PROVE  /\ Append(q, e) \in Seq(S) /\ Len(Append(q, e)) = Len(q) + 1 /\ Append(q, e) # <<>>
           /\ Append(q, e)[Len(q) + 1] = e
           /\ \A k \in 1..Len(q) : Append(q, e)[k] = q[k] /\ k \in 1..(Len(q) + 1)
<1>1. Append(q, e) \in Seq(S) /\ Len(Append(q, e)) = Len(q) + 1 /\ Len(q) \in Nat
  OBVIOUS
<1>2. Append(q, e) # <<>>
  BY <1>1
<1>3. Append(q, e)[Len(q) + 1] = e
  OBVIOUS
<1>4. \A k \in 1..Len(q) : Append(q, e)[k] = q[k] /\ k \in 1..(Len(q) + 1)
  BY <1>1
<1> QED
  BY <1>1, <1>2, <1>3, <1>4

LEMMA TakenOne ==
    ASSUME NEW S, NEW T, NEW x \in S, IsFiniteSet(S), T \subseteq S \ {x}
    PROVE  IsFiniteSet(T) /\ Cardinality(T) \in Nat /\ Cardinality(S) \in Nat
           /\ Cardinality(T) + 1 <= Cardinality(S)
<1>1. IsFiniteSet(S \ {x}) /\ Cardinality(S \ {x}) = Cardinality(S) - 1
  BY FS_RemoveElement
<1> QED
  BY <1>1, NoneAdded, FS_CardinalityType

(* What an instance has unacknowledged it works on. *)
LEMMA OnBrokerHeld == ASSUME NEW s, OnBroker(s) PROVE Held(s)
  BY DEF Held

LEMMA TypesAreTypeOK == Types <=> TypeOK
  BY DEF Types, TypeOK, Row, Instance, Post, Excuses

----------------------------------------------------------------------------
LEMMA InitFlow == Init => FlowInv
<1> SUFFICES ASSUME Init PROVE FlowInv
  OBVIOUS
<1>1. Types
  <2>1. <<>> \in Seq(Results)
    OBVIOUS
  <2>2. solution \in [Submissions -> Row]
    BY <2>1 DEF Init, Row
  <2>3. Idle \in Instance
    BY DEF Idle, Instance
  <2>4. inst \in [Instances -> Instance]
    BY <2>3 DEF Init
  <2> QED
    BY <2>2, <2>4, MaxFaultsAssumption DEF Init, Types
<1>2. \A i \in Instances : inst[i].pc = "idle" /\ inst[i].sub = None
  BY DEF Init, Idle
<1>3. \A s \in Submissions : ~Held(s) /\ InUserver(s) = {}
  BY <1>2, NoneAssumption DEF Init, Held, OnBroker, Unacked, InUserver
<1>4. Counted
  <2> SUFFICES ASSUME NEW s \in Submissions
               PROVE  /\ IsFiniteSet(Working(s)) /\ IsFiniteSet(InUserver(s))
                      /\ Len(solution[s].rows) + Cardinality(InUserver(s)) + Cardinality(Working(s))
                            <= delivered[s]
    BY DEF Counted
  <2>1. Working(s) = {}
    BY <1>2 DEF Working, WillPost
  <2>2. solution[s].rows = <<>> /\ delivered[s] = 0
    BY DEF Init
  <2>3. IsFiniteSet({}) /\ Cardinality({}) = 0
    BY FS_EmptySet
  <2>4. InUserver(s) = {} /\ Len(solution[s].rows) = 0
    BY <2>2, <1>3
  <2> QED
    BY <2>1, <2>2, <2>3, <2>4
<1> QED
  BY <1>1, <1>2, <1>3, <1>4 DEF FlowInv, BusyWithOne, Busy, HeldIsSent, SentIsKept, AckedIsSafe,
     RowsAfterResult, ResultHasSource, Init

----------------------------------------------------------------------------
(* What steps have in common. *)

(* Steps that leave userver's database and its requests alone. *)
LEMMA UserverIdle ==
    ASSUME FlowInv, UNCHANGED <<solution, posts>>, \A s \in Submissions : excuse[s] \subseteq excuse'[s]
    PROVE  /\ RowsAfterResult' /\ ResultHasSource'
           /\ \A s \in Submissions : InUserver(s)' = InUserver(s) /\ (Safe(s) => Safe(s)')
<1>1. \A s \in Submissions : InUserver(s)' = InUserver(s)
  BY DEF InUserver
<1>2. RowsAfterResult'
  BY DEF FlowInv, RowsAfterResult
<1>3. ResultHasSource'
  <2> SUFFICES ASSUME NEW s \in Submissions, {"result", "rows"} \cap excuse'[s] = {}
               PROVE  \/ solution[s].result = "NULL" /\ solution[s].rows = <<>>
                      \/ \E k \in 1..Len(solution[s].rows) :
                            solution[s].result = FinalVerdict(solution[s].rows[k])
                      \/ \E p \in InUserver(s) : p.pc = "rows" /\ solution[s].result = FinalVerdict(p.report)
    BY <1>1 DEF ResultHasSource
  <2>1. {"result", "rows"} \cap excuse[s] = {}
    OBVIOUS
  <2> QED
    BY <2>1 DEF FlowInv, ResultHasSource
<1>4. \A s \in Submissions : Safe(s) => Safe(s)'
  BY <1>1 DEF Safe
<1> QED
  BY <1>1, <1>2, <1>3, <1>4

(* A step of instance i that takes no message and posts nothing. *)
InstanceStep(i) ==
    /\ inst' \in [Instances -> Instance]
    /\ \A j \in Instances : j # i => inst'[j] = inst[j]
    /\ UNCHANGED <<solution, posts, delivered>>
    /\ queue \subseteq queue' /\ queue' \subseteq queue \cup Unacked(i)
    /\ excuse' \in [Submissions -> SUBSET Excuses]
    /\ \A s \in Submissions : excuse[s] \subseteq excuse'[s]
    /\ faults' \in 0..MaxFaults
    /\ Busy(inst'[i]) <=> inst'[i].sub # None
    /\ inst'[i].pc = "commit" => inst'[i].report \in Results
    /\ inst'[i].sub \in {None, inst[i].sub}
    /\ inst'[i].pc \in {"process", "commit"} => inst[i].pc \in {"process", "commit"}
    /\ inst'[i].connected => inst[i].connected \/ inst'[i].sub = None
    /\ inst'[i].pc \in {"posting", "ack"} => inst[i].pc \in {"posting", "ack"} \/ excuse'[inst'[i].sub] # {}
    /\ \/ Unacked(i) \subseteq queue'
       \/ inst'[i].connected = inst[i].connected
          /\ (inst'[i].sub = inst[i].sub \/ inst[i].pc = "ack")

LEMMA InstanceStepKeeps ==
    ASSUME FlowInv, NEW i \in Instances, InstanceStep(i)
    PROVE  FlowInv' /\ solution' = solution /\ (\A s \in Submissions : Held(s)' => Held(s))
<1>1. Types'
  <2>1. Unacked(i) \subseteq Submissions
    BY DEF FlowInv, Types, Unacked, Instance
  <2> QED
    BY <2>1 DEF FlowInv, Types, InstanceStep
<1>2. BusyWithOne'
  BY DEF FlowInv, BusyWithOne, InstanceStep
<1>3. \A s \in Submissions : Held(s)' => Held(s)
  BY NoneAssumption DEF Held, OnBroker, Unacked, InUserver, InstanceStep
<1>4. HeldIsSent'
  BY <1>3 DEF FlowInv, HeldIsSent, InstanceStep
<1>5. /\ RowsAfterResult' /\ ResultHasSource'
      /\ \A s \in Submissions : InUserver(s)' = InUserver(s) /\ (Safe(s) => Safe(s)')
  BY UserverIdle DEF InstanceStep
<1>6. SentIsKept'
  <2> SUFFICES ASSUME NEW s \in Submissions, solution[s].state = "sent", ~Safe(s)'
               PROVE  OnBroker(s)'
    BY DEF SentIsKept, InstanceStep
  <2>1. ~Safe(s) /\ OnBroker(s)
    BY <1>5 DEF FlowInv, SentIsKept
  <2>2. CASE s \in queue
    BY <2>2 DEF OnBroker, InstanceStep
  <2>3. CASE \E j \in Instances : s \in Unacked(j)
    <3>1. PICK j \in Instances : s \in Unacked(j)
      BY <2>3
    <3>2. inst[j].connected /\ inst[j].sub = s /\ s # None
      BY <3>1, NoneAssumption DEF Unacked
    <3>3. CASE j # i
      <4>1. inst'[j] = inst[j]
        BY <3>3 DEF InstanceStep
      <4>2. s \in Unacked(j)'
        BY <3>2, <4>1 DEF Unacked
      <4> QED
        BY <4>2 DEF OnBroker
    <3>4. CASE j = i
      <4>1. inst[i].pc # "ack"
        BY <3>2, <3>4, <2>1 DEF FlowInv, AckedIsSafe
      <4>2. s \in queue' \/ (inst'[i].connected = inst[i].connected /\ inst'[i].sub = inst[i].sub)
        BY <3>1, <3>4, <4>1 DEF InstanceStep
      <4>3. s \in queue' \/ s \in Unacked(i)'
        BY <4>2, <3>2, <3>4 DEF Unacked
      <4> QED
        BY <4>3 DEF OnBroker
    <3> QED
      BY <3>3, <3>4
  <2> QED
    BY <2>1, <2>2, <2>3 DEF OnBroker
<1>7. AckedIsSafe'
  <2> SUFFICES ASSUME NEW j \in Instances, NEW s \in Submissions,
                      inst'[j].pc \in {"posting", "ack"}, inst'[j].sub = s
               PROVE  Safe(s)'
    BY DEF AckedIsSafe
  <2>1. CASE inst[j].pc \in {"posting", "ack"} /\ inst[j].sub = s
    BY <2>1, <1>5 DEF FlowInv, AckedIsSafe
  <2>2. CASE excuse'[s] # {}
    BY <2>2 DEF Safe
  <2> QED
    BY <2>1, <2>2, NoneAssumption DEF InstanceStep
<1>8. Counted'
  <2> SUFFICES ASSUME NEW s \in Submissions
               PROVE  /\ IsFiniteSet(Working(s)') /\ IsFiniteSet(InUserver(s)')
                      /\ Len(solution[s].rows) + Cardinality(InUserver(s)') + Cardinality(Working(s)')
                            <= delivered[s]
    BY DEF Counted, InstanceStep
  <2>1. Working(s)' \subseteq Working(s)
    BY NoneAssumption DEF Working, WillPost, InstanceStep
  <2>2. /\ IsFiniteSet(Working(s)) /\ IsFiniteSet(InUserver(s))
        /\ Len(solution[s].rows) + Cardinality(InUserver(s)) + Cardinality(Working(s)) <= delivered[s]
    BY DEF FlowInv, Counted
  <2>3. /\ IsFiniteSet(Working(s)') /\ Cardinality(Working(s)') \in Nat /\ Cardinality(Working(s)) \in Nat
        /\ Cardinality(Working(s)') <= Cardinality(Working(s))
    BY <2>1, <2>2, NoneAdded
  <2>4. Len(solution[s].rows) \in Nat /\ delivered[s] \in Nat
    BY DEF FlowInv, Types, Row
  <2>5. Cardinality(InUserver(s)) \in Nat /\ InUserver(s)' = InUserver(s)
    BY <1>5, <2>2, FS_CardinalityType
  <2> QED
    BY <2>2, <2>3, <2>4, <2>5
<1> QED
  BY <1>1, <1>2, <1>3, <1>4, <1>5, <1>6, <1>7, <1>8 DEF FlowInv, InstanceStep

LEMMA ExcuseGrows ==
    ASSUME Types, NEW S \in SUBSET Submissions, NEW why \in Excuses, Excuse(S, why)
    PROVE  /\ excuse' \in [Submissions -> SUBSET Excuses]
           /\ \A s \in Submissions : excuse[s] \subseteq excuse'[s]
           /\ \A s \in S : excuse'[s] # {}
  BY DEF Types, Excuse

LEMMA BusyFacts ==
    ASSUME FlowInv, NEW i \in Instances
    PROVE  /\ Busy(inst[i]) => inst[i].sub \in Submissions /\ inst[i].sub # None
           /\ ~Busy(inst[i]) => inst[i].sub = None
           /\ inst \in [Instances -> Instance] /\ inst[i] \in Instance /\ faults \in 0..MaxFaults
           /\ excuse \in [Submissions -> SUBSET Excuses]
           /\ inst[i].report \in Results \cup {<<>>}
  BY DEF FlowInv, Types, BusyWithOne, Instance

----------------------------------------------------------------------------
(* The steps of an instance that take no message and post nothing. *)

LEMMA TestSteps == ASSUME FlowInv, NEW i \in Instances, Test(i) PROVE InstanceStep(i)
<1>1. PICK r \in Results : inst' = [inst EXCEPT ![i].pc = "commit", ![i].report = r]
  BY DEF Test
<1>2. inst' \in [Instances -> Instance]
  BY <1>1, BusyFacts DEF Instance
<1>3. inst'[i].pc = "commit" /\ inst'[i].report = r /\ inst'[i].sub = inst[i].sub
      /\ inst'[i].connected = inst[i].connected /\ \A j \in Instances : j # i => inst'[j] = inst[j]
  BY <1>1, BusyFacts DEF Instance
<1> QED
  BY <1>2, <1>3, BusyFacts DEF Test, InstanceStep, Busy

(* The steps that go on to the acknowledgement. *)
LEMMA ToAckSteps ==
    ASSUME FlowInv, NEW i \in Instances,
           TestThrows(i) \/ CommitFails(i) \/ CommitReturns(i) \/ CommitBreaks(i)
    PROVE  InstanceStep(i)
<1>1. inst' = [inst EXCEPT ![i].pc = "ack"] /\ UNCHANGED <<solution, posts, delivered, queue>>
  BY DEF TestThrows, CommitFails, CommitReturns, CommitBreaks
<1>2. inst' \in [Instances -> Instance]
  BY <1>1, BusyFacts DEF Instance
<1>3. inst'[i].pc = "ack" /\ inst'[i].sub = inst[i].sub
      /\ inst'[i].connected = inst[i].connected /\ \A j \in Instances : j # i => inst'[j] = inst[j]
  BY <1>1, BusyFacts DEF Instance
<1>4. Busy(inst[i]) /\ Busy(inst'[i])
  BY <1>3 DEF Busy, TestThrows, CommitFails, CommitReturns, CommitBreaks
<1>5. inst[i].sub \in Submissions /\ inst[i].sub # None
  BY <1>4, BusyFacts
<1>6. /\ excuse' \in [Submissions -> SUBSET Excuses]
      /\ \A s \in Submissions : excuse[s] \subseteq excuse'[s]
      /\ inst[i].pc = "posting" \/ excuse'[inst[i].sub] # {}
  <2>1. CASE TestThrows(i) \/ CommitFails(i)
    <3>1. PICK why \in Excuses : Excuse({inst[i].sub}, why)
      BY <2>1 DEF TestThrows, CommitFails, Excuses
    <3> QED
      BY <3>1, <1>5, ExcuseGrows DEF FlowInv
  <2>2. CASE CommitReturns(i) \/ CommitBreaks(i)
    BY <2>2, BusyFacts DEF CommitReturns, CommitBreaks
  <2> QED
    BY <2>1, <2>2
<1>7. faults' \in 0..MaxFaults
  BY BusyFacts, MaxFaultsAssumption DEF TestThrows, CommitFails, CommitReturns, CommitBreaks
<1> QED
  BY <1>1, <1>2, <1>3, <1>4, <1>5, <1>6, <1>7 DEF InstanceStep

LEMMA AckSteps == ASSUME FlowInv, NEW i \in Instances, Ack(i) PROVE InstanceStep(i)
<1> DEFINE x == [Idle EXCEPT !.connected = inst[i].connected]
<1>1. x \in Instance /\ x.pc = "idle" /\ x.sub = None /\ x.connected = inst[i].connected
  BY BusyFacts DEF Idle, Instance
<1>2. inst' = [inst EXCEPT ![i] = x]
  BY DEF Ack
<1> HIDE DEF x
<1>3. inst' \in [Instances -> Instance] /\ inst'[i] = x /\ \A j \in Instances : j # i => inst'[j] = inst[j]
  BY <1>1, <1>2, BusyFacts
<1> QED
  BY <1>1, <1>3, BusyFacts DEF Ack, InstanceStep, Busy

LEMMA ConnectionLostSteps ==
    ASSUME FlowInv, NEW i \in Instances, ConnectionLost(i) PROVE InstanceStep(i)
<1>1. inst' = [inst EXCEPT ![i].connected = FALSE]
  BY DEF ConnectionLost
<1>2. inst' \in [Instances -> Instance]
  BY <1>1, BusyFacts DEF Instance
<1>3. inst'[i].pc = inst[i].pc /\ inst'[i].sub = inst[i].sub /\ inst'[i].report = inst[i].report
      /\ ~inst'[i].connected /\ \A j \in Instances : j # i => inst'[j] = inst[j]
  BY <1>1, BusyFacts DEF Instance
<1>4. Busy(inst'[i]) <=> Busy(inst[i])
  BY <1>3 DEF Busy
<1>5. faults' \in 0..MaxFaults
  BY BusyFacts, MaxFaultsAssumption DEF ConnectionLost
<1> QED
  BY <1>2, <1>3, <1>4, <1>5, BusyFacts DEF ConnectionLost, InstanceStep, FlowInv, BusyWithOne

(* The steps that begin or end a process. *)
LEMMA ProcessSteps ==
    ASSUME FlowInv, NEW i \in Instances, Terminate(i) \/ Crash(i) \/ Restart(i)
    PROVE  InstanceStep(i)
<1>1. PICK x \in {Idle, Down} : inst' = [inst EXCEPT ![i] = x]
  BY DEF Terminate, Crash, Restart
<1>2. x \in Instance /\ x.pc \in {"idle", "down"} /\ x.sub = None
  <2>1. Idle \in Instance /\ Idle.pc = "idle" /\ Idle.sub = None
    BY DEF Idle, Instance
  <2>2. Down \in Instance /\ Down.pc = "down" /\ Down.sub = None
    BY DEF Down, Idle, Instance
  <2> QED
    BY <2>1, <2>2
<1>3. inst' \in [Instances -> Instance] /\ inst'[i] = x /\ \A j \in Instances : j # i => inst'[j] = inst[j]
  BY <1>1, <1>2, BusyFacts
<1>4. queue \subseteq queue' /\ queue' \subseteq queue \cup Unacked(i) /\ Unacked(i) \subseteq queue'
  <2>1. CASE Crash(i)
    BY <2>1 DEF Crash
  <2>2. CASE Terminate(i) \/ Restart(i)
    <3>1. inst[i].sub = None
      BY <2>2, BusyFacts DEF Terminate, Restart, Busy
    <3> QED
      BY <2>2, <3>1 DEF Terminate, Restart, Unacked
  <2> QED
    BY <2>1, <2>2
<1>5. faults' \in 0..MaxFaults
  BY BusyFacts, MaxFaultsAssumption DEF Terminate, Crash, Restart
<1>6. UNCHANGED <<solution, posts, delivered, excuse>>
  BY DEF Terminate, Crash, Restart
<1> QED
  BY <1>2, <1>3, <1>4, <1>5, <1>6, BusyFacts DEF InstanceStep, Busy

----------------------------------------------------------------------------
(* A delivery moves a message from the queue to an instance and is counted. *)
LEMMA DeliverKeeps ==
    ASSUME FlowInv, NEW i \in Instances, Deliver(i)
    PROVE  FlowInv' /\ solution' = solution /\ (\A s \in Submissions : Held(s)' => Held(s))
<1>1. PICK s \in queue :
        /\ queue' = queue \ {s}
        /\ inst' = [inst EXCEPT ![i].pc = "process", ![i].sub = s, ![i].nr = delivered[s] + 1]
        /\ delivered' = [delivered EXCEPT ![s] = @ + 1]
  BY DEF Deliver
<1>2. s \in Submissions /\ s # None /\ inst[i].pc = "idle" /\ inst[i].connected /\ inst[i].sub = None
  BY BusyFacts, NoneAssumption DEF FlowInv, Types, Deliver, Busy
<1>3. UNCHANGED <<solution, posts, excuse, faults>>
  BY DEF Deliver
<1>4. delivered[s] \in Nat /\ delivered[s] + 1 \in Nat
  BY <1>2 DEF FlowInv, Types
<1>5. inst' \in [Instances -> Instance]
  BY <1>1, <1>2, <1>4, BusyFacts DEF Instance
<1>6. inst'[i].pc = "process" /\ inst'[i].sub = s /\ inst'[i].connected
      /\ \A j \in Instances : j # i => inst'[j] = inst[j]
  BY <1>1, <1>2, BusyFacts DEF Instance
<1>7. delivered' \in [Submissions -> Nat] /\ delivered'[s] = delivered[s] + 1
      /\ \A t \in Submissions : t # s => delivered'[t] = delivered[t]
  BY <1>1, <1>2, <1>4 DEF FlowInv, Types
<1>8. Types'
  BY <1>1, <1>3, <1>5, <1>7 DEF FlowInv, Types
<1>9. BusyWithOne'
  BY <1>2, <1>6 DEF FlowInv, BusyWithOne, Busy
<1>10. \A t \in Submissions : Held(t)' => Held(t)
  BY <1>1, <1>3, <1>6, ZenonT(60) DEF Held, OnBroker, Unacked, InUserver
<1>11. HeldIsSent'
  BY <1>3, <1>10 DEF FlowInv, HeldIsSent
<1>12. /\ RowsAfterResult' /\ ResultHasSource'
       /\ \A t \in Submissions : InUserver(t)' = InUserver(t) /\ (Safe(t) => Safe(t)')
  BY <1>3, UserverIdle
<1>13. SentIsKept'
  <2>1. ASSUME NEW t \in Submissions, OnBroker(t) PROVE OnBroker(t)'
    <3>1. CASE t = s
      BY <3>1, <1>2, <1>6 DEF OnBroker, Unacked
    <3>2. CASE t # s
      <4>1. t \in queue => t \in queue'
        BY <3>2, <1>1
      <4>2. \A j \in Instances : t \in Unacked(j) => t \in Unacked(j)'
        BY <1>2, <1>6 DEF Unacked
      <4> QED
        BY <4>1, <4>2, <2>1 DEF OnBroker
    <3> QED
      BY <3>1, <3>2
  <2> QED
    BY <2>1, <1>3, <1>12 DEF FlowInv, SentIsKept
<1>14. AckedIsSafe'
  BY <1>6, <1>12 DEF FlowInv, AckedIsSafe
<1>15. Counted'
  <2> SUFFICES ASSUME NEW t \in Submissions
               PROVE  /\ IsFiniteSet(Working(t)') /\ IsFiniteSet(InUserver(t)')
                      /\ Len(solution[t].rows) + Cardinality(InUserver(t)') + Cardinality(Working(t)')
                            <= delivered'[t]
    BY <1>3 DEF Counted
  <2>1. /\ IsFiniteSet(Working(t)) /\ IsFiniteSet(InUserver(t))
        /\ Len(solution[t].rows) + Cardinality(InUserver(t)) + Cardinality(Working(t)) <= delivered[t]
    BY DEF FlowInv, Counted
  <2>2. Len(solution[t].rows) \in Nat /\ delivered[t] \in Nat
    BY DEF FlowInv, Types, Row
  <2>3. Cardinality(InUserver(t)) \in Nat /\ InUserver(t)' = InUserver(t)
    BY <1>12, <2>1, FS_CardinalityType
  <2>4. CASE t = s
    <3>1. Working(t)' \subseteq Working(t) \cup {i}
      BY <1>6 DEF Working, WillPost
    <3>2. /\ IsFiniteSet(Working(t)') /\ Cardinality(Working(t)') \in Nat /\ Cardinality(Working(t)) \in Nat
          /\ Cardinality(Working(t)') <= Cardinality(Working(t)) + 1
      BY <3>1, <2>1, AddedOne
    <3> QED
      BY <2>1, <2>2, <2>3, <2>4, <3>2, <1>7
  <2>5. CASE t # s
    <3>1. Working(t)' \subseteq Working(t)
      BY <1>6, <2>5 DEF Working, WillPost
    <3>2. /\ IsFiniteSet(Working(t)') /\ Cardinality(Working(t)') \in Nat /\ Cardinality(Working(t)) \in Nat
          /\ Cardinality(Working(t)') <= Cardinality(Working(t))
      BY <3>1, <2>1, NoneAdded
    <3> QED
      BY <2>1, <2>2, <2>3, <2>5, <3>2, <1>7
  <2> QED
    BY <2>4, <2>5
<1> QED
  BY <1>3, <1>8, <1>9, <1>10, <1>11, <1>12, <1>13, <1>14, <1>15 DEF FlowInv

(* A commit passes the count on from the instance to userver. *)
LEMMA CommitKeeps ==
    ASSUME FlowInv, NEW i \in Instances, Commit(i)
    PROVE  FlowInv' /\ solution' = solution /\ (\A s \in Submissions : Held(s)' => Held(s))
<1>1. PICK s \in Submissions : inst[i].sub = s /\ inst[i].pc = "commit" /\ s # None
  BY BusyFacts DEF Commit, Busy
<1>2. PICK p \in Post : /\ p.sub = s /\ p.pc = "result"
                        /\ posts' = posts \cup {p}
  <2> DEFINE q == [sub |-> inst[i].sub, nr |-> inst[i].nr, report |-> inst[i].report, pc |-> "result"]
  <2>1. q \in Post /\ q.sub = s /\ q.pc = "result"
    BY <1>1, BusyFacts DEF Post, Instance, FlowInv, BusyWithOne
  <2> QED
    BY <2>1 DEF Commit
<1>3. /\ inst' = [inst EXCEPT ![i].pc = "posting"]
      /\ UNCHANGED <<solution, queue, delivered, excuse, faults>>
  BY DEF Commit
<1>4. inst' \in [Instances -> Instance]
  BY <1>3, BusyFacts DEF Instance
<1>5. inst'[i].pc = "posting" /\ inst'[i].sub = s /\ inst'[i].connected = inst[i].connected
      /\ \A j \in Instances : j # i => inst'[j] = inst[j]
  BY <1>1, <1>3, BusyFacts DEF Instance
<1>6. \A j \in Instances : inst'[j].sub = inst[j].sub /\ inst'[j].connected = inst[j].connected
  BY <1>1, <1>5
<1>7. Types'
  BY <1>2, <1>3, <1>4 DEF FlowInv, Types
<1>8. BusyWithOne'
  BY <1>1, <1>5 DEF FlowInv, BusyWithOne, Busy
<1>9. \A t \in Submissions : InUserver(t) \subseteq InUserver(t)' /\ InUserver(t)' \subseteq InUserver(t) \cup {p}
  BY <1>2 DEF InUserver
<1>10. \A t \in Submissions : t # s => InUserver(t)' = InUserver(t)
  BY <1>2, <1>3 DEF InUserver
<1>11. p \in InUserver(s)'
  BY <1>2, <1>3 DEF InUserver
<1>12. \A t \in Submissions : OnBroker(t)' <=> OnBroker(t)
  BY <1>3, <1>6 DEF OnBroker, Unacked
<1>13. \A t \in Submissions : Held(t)' => Held(t)
  BY <1>1, <1>3, <1>6, <1>10, <1>12 DEF Held
<1>14. \A t \in Submissions : Safe(t) => Safe(t)'
  BY <1>3, <1>9 DEF Safe
<1>15. Safe(s)'
  BY <1>11 DEF Safe
<1>16. HeldIsSent' /\ SentIsKept'
  BY <1>3, <1>12, <1>13, <1>14 DEF FlowInv, HeldIsSent, SentIsKept
<1>17. AckedIsSafe'
  BY <1>5, <1>14, <1>15 DEF FlowInv, AckedIsSafe
<1>18. RowsAfterResult'
  BY <1>2, <1>3 DEF FlowInv, RowsAfterResult
<1>19. ResultHasSource'
  BY <1>3, <1>9 DEF FlowInv, ResultHasSource
<1>20. Counted'
  <2> SUFFICES ASSUME NEW t \in Submissions
               PROVE  /\ IsFiniteSet(Working(t)') /\ IsFiniteSet(InUserver(t)')
                      /\ Len(solution[t].rows) + Cardinality(InUserver(t)') + Cardinality(Working(t)')
                            <= delivered[t]
    BY <1>3 DEF Counted
  <2>1. /\ IsFiniteSet(Working(t)) /\ IsFiniteSet(InUserver(t))
        /\ Len(solution[t].rows) + Cardinality(InUserver(t)) + Cardinality(Working(t)) <= delivered[t]
    BY DEF FlowInv, Counted
  <2>2. Len(solution[t].rows) \in Nat /\ delivered[t] \in Nat
    BY DEF FlowInv, Types, Row
  <2>3. CASE t = s
    <3>1. i \in Working(t) /\ Working(t)' \subseteq Working(t) \ {i}
      BY <1>1, <1>5, <2>3 DEF Working, WillPost
    <3>2. /\ IsFiniteSet(Working(t)') /\ Cardinality(Working(t)') \in Nat /\ Cardinality(Working(t)) \in Nat
          /\ Cardinality(Working(t)') + 1 <= Cardinality(Working(t))
      BY <3>1, <2>1, TakenOne
    <3>3. /\ IsFiniteSet(InUserver(t)') /\ Cardinality(InUserver(t)') \in Nat
          /\ Cardinality(InUserver(t)) \in Nat
          /\ Cardinality(InUserver(t)') <= Cardinality(InUserver(t)) + 1
      BY <1>9, <2>1, AddedOne
    <3> QED
      BY <2>1, <2>2, <3>2, <3>3
  <2>4. CASE t # s
    <3>1. Working(t)' \subseteq Working(t) /\ InUserver(t)' = InUserver(t)
      BY <1>5, <1>10, <2>4 DEF Working, WillPost
    <3>2. /\ IsFiniteSet(Working(t)') /\ Cardinality(Working(t)') \in Nat /\ Cardinality(Working(t)) \in Nat
          /\ Cardinality(Working(t)') <= Cardinality(Working(t))
      BY <3>1, <2>1, NoneAdded
    <3>3. Cardinality(InUserver(t)) \in Nat
      BY <2>1, FS_CardinalityType
    <3> QED
      BY <2>1, <2>2, <3>1, <3>2, <3>3
  <2> QED
    BY <2>3, <2>4
<1> QED
  BY <1>3, <1>7, <1>8, <1>13, <1>16, <1>17, <1>18, <1>19, <1>20 DEF FlowInv

(* The broker's restart excuses what it takes away. *)
LEMMA BrokerRestartKeeps ==
    ASSUME FlowInv, BrokerRestart
    PROVE  FlowInv' /\ solution' = solution /\ (\A s \in Submissions : Held(s)' => Held(s))
<1>1. queue' = {} /\ inst' = [i \in Instances |-> [inst[i] EXCEPT !.connected = FALSE]]
      /\ UNCHANGED <<solution, posts, delivered>>
  BY DEF BrokerRestart
<1>2. faults' \in 0..MaxFaults
  BY MaxFaultsAssumption DEF FlowInv, Types, BrokerRestart
<1>3. /\ excuse' \in [Submissions -> SUBSET Excuses]
      /\ \A s \in Submissions : excuse[s] \subseteq excuse'[s]
      /\ \A s \in Submissions : OnBroker(s) => excuse'[s] # {}
  <2>1. "broker" \in Excuses /\ {s \in Submissions : OnBroker(s)} \in SUBSET Submissions
    BY DEF Excuses
  <2> QED
    BY <2>1, ExcuseGrows DEF BrokerRestart, FlowInv
<1>4. \A i \in Instances : /\ inst'[i] \in Instance /\ inst'[i].sub = inst[i].sub /\ inst'[i].pc = inst[i].pc
                           /\ inst'[i].report = inst[i].report /\ ~inst'[i].connected
  BY <1>1 DEF FlowInv, Types, Instance
<1>5. Types'
  BY <1>1, <1>2, <1>3, <1>4 DEF FlowInv, Types
<1>6. BusyWithOne'
  BY <1>4 DEF FlowInv, BusyWithOne, Busy
<1>7. /\ RowsAfterResult' /\ ResultHasSource'
      /\ \A s \in Submissions : InUserver(s)' = InUserver(s) /\ (Safe(s) => Safe(s)')
  BY <1>1, <1>3, UserverIdle
<1>8. \A s \in Submissions : ~OnBroker(s)'
  BY <1>1, <1>4 DEF OnBroker, Unacked
<1>9. \A s \in Submissions : Held(s)' => Held(s)
  BY <1>4, <1>7, <1>8 DEF Held
<1>10. HeldIsSent'
  BY <1>1, <1>9 DEF FlowInv, HeldIsSent
<1>11. \A s \in Submissions : OnBroker(s) => Safe(s)'
  BY <1>3 DEF Safe
<1>12. SentIsKept'
  BY <1>1, <1>7, <1>11 DEF FlowInv, SentIsKept
<1>13. AckedIsSafe'
  BY <1>4, <1>7 DEF FlowInv, AckedIsSafe
<1>14. \A s \in Submissions : Working(s)' = Working(s)
  BY <1>4 DEF Working, WillPost
<1>15. Counted'
  BY <1>1, <1>7, <1>14 DEF FlowInv, Counted
<1> QED
  BY <1>1, <1>5, <1>6, <1>7, <1>9, <1>10, <1>12, <1>13, <1>15 DEF FlowInv

----------------------------------------------------------------------------
(* A step of userver's handler, which sees neither the broker nor the instances. *)
HandlerStep ==
    /\ UNCHANGED <<queue, inst, delivered>>
    /\ Types' /\ RowsAfterResult' /\ ResultHasSource'
    /\ \A s \in Submissions :
         /\ solution'[s].state = solution[s].state
         /\ Safe(s) => Safe(s)'
         /\ InUserver(s)' # {} => InUserver(s) # {}
         /\ IsFiniteSet(InUserver(s)')
         /\ Len(solution'[s].rows) + Cardinality(InUserver(s)')
               <= Len(solution[s].rows) + Cardinality(InUserver(s))

LEMMA HandlerStepKeeps ==
    ASSUME FlowInv, HandlerStep
    PROVE  FlowInv' /\ (\A s \in Submissions : Held(s)' => Held(s))
<1>1. \A s \in Submissions : OnBroker(s)' = OnBroker(s)
  BY DEF HandlerStep, OnBroker, Unacked
<1>2. \A s \in Submissions : Held(s)' => Held(s)
  BY <1>1 DEF HandlerStep, Held
<1>3. BusyWithOne'
  BY DEF FlowInv, BusyWithOne, HandlerStep
<1>4. HeldIsSent'
  BY <1>2 DEF FlowInv, HeldIsSent, HandlerStep
<1>5. SentIsKept'
  BY <1>1 DEF FlowInv, SentIsKept, HandlerStep
<1>6. AckedIsSafe'
  BY DEF FlowInv, AckedIsSafe, HandlerStep
<1>7. Counted'
  <2> SUFFICES ASSUME NEW s \in Submissions
               PROVE  /\ IsFiniteSet(Working(s)') /\ IsFiniteSet(InUserver(s)')
                      /\ Len(solution'[s].rows) + Cardinality(InUserver(s)') + Cardinality(Working(s)')
                            <= delivered[s]
    BY DEF Counted, HandlerStep
  <2>1. /\ IsFiniteSet(Working(s)) /\ IsFiniteSet(InUserver(s))
        /\ Len(solution[s].rows) + Cardinality(InUserver(s)) + Cardinality(Working(s)) <= delivered[s]
    BY DEF FlowInv, Counted
  <2>2. Len(solution[s].rows) \in Nat /\ Len(solution'[s].rows) \in Nat /\ delivered[s] \in Nat
    BY DEF FlowInv, Types, Row, HandlerStep
  <2>3. Working(s)' = Working(s)
    BY DEF HandlerStep, Working
  <2>4. /\ IsFiniteSet(InUserver(s)')
        /\ Len(solution'[s].rows) + Cardinality(InUserver(s)')
              <= Len(solution[s].rows) + Cardinality(InUserver(s))
    BY DEF HandlerStep
  <2>5. Cardinality(InUserver(s)) \in Nat /\ Cardinality(InUserver(s)') \in Nat
        /\ Cardinality(Working(s)) \in Nat
    BY <2>1, <2>4, FS_CardinalityType
  <2>6. Len(solution'[s].rows) + Cardinality(InUserver(s)') + Cardinality(Working(s)) <= delivered[s]
    BY <2>1, <2>2, <2>4, <2>5, SumBelow
  <2> QED
    BY <2>1, <2>3, <2>4, <2>6
<1> QED
  BY <1>2, <1>3, <1>4, <1>5, <1>6, <1>7 DEF FlowInv, HandlerStep

(* The requests of a submission after one of them ended or went on. *)
LEMMA RequestsAfter ==
    ASSUME FlowInv, NEW p \in posts, NEW R, R = {} \/ \E q \in Post : R = {q} /\ q.sub = p.sub,
           posts' = (posts \ {p}) \cup R
    PROVE  /\ p \in Post /\ posts' \subseteq Post /\ p.sub \in Submissions
           /\ \A s \in Submissions \ {p.sub} : InUserver(s)' = InUserver(s)
           /\ InUserver(p.sub)' = (InUserver(p.sub) \ {p}) \cup R
           /\ p \in InUserver(p.sub)
<1>1. p \in Post /\ p.sub \in Submissions /\ posts' \subseteq Post
  BY DEF FlowInv, Types, Post
<1>2. \A q \in R : q \in Post /\ q.sub = p.sub
  OBVIOUS
<1> QED
  BY <1>1, <1>2 DEF InUserver

LEMMA RequestFailsSteps == ASSUME FlowInv, NEW p \in posts, RequestFails(p) PROVE HandlerStep
<1>1. posts' = (posts \ {p}) \cup {} /\ UNCHANGED <<solution, queue, inst, delivered, faults>>
  BY DEF RequestFails
<1>2. /\ p \in Post /\ posts' \subseteq Post /\ p.sub \in Submissions
      /\ \A s \in Submissions \ {p.sub} : InUserver(s)' = InUserver(s)
      /\ InUserver(p.sub)' = InUserver(p.sub) \ {p}
      /\ p \in InUserver(p.sub)
  BY <1>1, RequestsAfter
<1>3. p.pc \in {"result", "rows"} /\ p.pc \in Excuses /\ {p.sub} \in SUBSET Submissions
  BY <1>2 DEF Post, Excuses
<1>4. /\ excuse' \in [Submissions -> SUBSET Excuses]
      /\ \A s \in Submissions : excuse[s] \subseteq excuse'[s]
      /\ p.pc \in excuse'[p.sub]
  BY <1>2, <1>3, ExcuseGrows DEF RequestFails, FlowInv, Excuse
<1>5. Types'
  BY <1>1, <1>2, <1>4 DEF FlowInv, Types
<1>6. RowsAfterResult'
  BY <1>1 DEF FlowInv, RowsAfterResult
<1>7. ResultHasSource'
  <2> SUFFICES ASSUME NEW s \in Submissions, {"result", "rows"} \cap excuse'[s] = {}
               PROVE  \/ solution[s].result = "NULL" /\ solution[s].rows = <<>>
                      \/ \E k \in 1..Len(solution[s].rows) :
                            solution[s].result = FinalVerdict(solution[s].rows[k])
                      \/ \E q \in InUserver(s)' : q.pc = "rows" /\ solution[s].result = FinalVerdict(q.report)
    BY <1>1 DEF ResultHasSource
  <2>1. s # p.sub /\ {"result", "rows"} \cap excuse[s] = {}
    BY <1>3, <1>4
  <2> QED
    BY <2>1, <1>2 DEF FlowInv, ResultHasSource
<1>8. \A s \in Submissions : Safe(s) => Safe(s)'
  BY <1>1, <1>2, <1>4 DEF Safe
<1>9. \A s \in Submissions : InUserver(s)' \subseteq InUserver(s)
  BY <1>2
<1>10. \A s \in Submissions : /\ IsFiniteSet(InUserver(s)') /\ Cardinality(InUserver(s)') \in Nat
                              /\ Cardinality(InUserver(s)) \in Nat
                              /\ Cardinality(InUserver(s)') <= Cardinality(InUserver(s))
  BY <1>9, NoneAdded DEF FlowInv, Counted
<1>11. \A s \in Submissions : Len(solution[s].rows) \in Nat
  BY DEF FlowInv, Types, Row
<1> QED
  BY <1>1, <1>5, <1>6, <1>7, <1>8, <1>9, <1>10, <1>11 DEF HandlerStep

LEMMA SaveResultSteps == ASSUME FlowInv, NEW p \in posts, SaveResult(p) PROVE HandlerStep
<1>1. p \in Post /\ p.pc = "result" /\ p.report # <<>> /\ p.report \in Results /\ p.sub \in Submissions
  BY DEF FlowInv, Types, Post, SaveResult
<1>2. PICK v \in Verdict : v = FinalVerdict(p.report) /\ v # "NULL"
  BY <1>1, FinalVerdictType, VerdictFacts
<1>3. PICK q \in Post : q.sub = p.sub /\ q.report = p.report /\ q.pc = "rows" /\ posts' = (posts \ {p}) \cup {q}
  <2> DEFINE r == [p EXCEPT !.pc = "rows"]
  <2>1. r \in Post /\ r.sub = p.sub /\ r.report = p.report /\ r.pc = "rows"
    BY <1>1 DEF Post
  <2> QED
    BY <2>1 DEF SaveResult
<1>4. /\ posts' \subseteq Post
      /\ \A s \in Submissions \ {p.sub} : InUserver(s)' = InUserver(s)
      /\ InUserver(p.sub)' = (InUserver(p.sub) \ {p}) \cup {q}
      /\ p \in InUserver(p.sub)
  BY <1>3, RequestsAfter
<1>5. /\ solution' = [solution EXCEPT ![p.sub].result = v]
      /\ UNCHANGED <<queue, inst, delivered, excuse, faults>>
  BY <1>2 DEF SaveResult
<1>6. solution' \in [Submissions -> Row]
  BY <1>1, <1>5 DEF FlowInv, Types, Row
<1>7. /\ \A s \in Submissions \ {p.sub} : solution'[s] = solution[s]
      /\ solution'[p.sub].result = v
      /\ \A s \in Submissions : solution'[s].rows = solution[s].rows /\ solution'[s].state = solution[s].state
  BY <1>1, <1>5 DEF FlowInv, Types, Row
<1>8. Types'
  BY <1>4, <1>5, <1>6 DEF FlowInv, Types
<1>9. RowsAfterResult'
  <2>1. ASSUME NEW r \in posts', r.pc = "rows" PROVE solution'[r.sub].result # "NULL"
    <3>1. r \in Post /\ r.sub \in Submissions
      BY <1>4 DEF Post
    <3>2. CASE r.sub = p.sub
      BY <3>2, <1>2, <1>7
    <3>3. CASE r.sub # p.sub
      BY <2>1, <3>1, <3>3, <1>3, <1>7 DEF FlowInv, RowsAfterResult
    <3> QED
      BY <3>2, <3>3
  <2> QED
    BY <2>1 DEF RowsAfterResult
<1>10. ResultHasSource'
  <2>1. q \in InUserver(p.sub)' /\ q.pc = "rows" /\ solution'[p.sub].result = FinalVerdict(q.report)
    BY <1>2, <1>3, <1>4, <1>7
  <2> SUFFICES ASSUME NEW s \in Submissions, {"result", "rows"} \cap excuse[s] = {}
               PROVE  \/ solution'[s].result = "NULL" /\ solution'[s].rows = <<>>
                      \/ \E k \in 1..Len(solution'[s].rows) :
                            solution'[s].result = FinalVerdict(solution'[s].rows[k])
                      \/ \E r \in InUserver(s)' : r.pc = "rows" /\ solution'[s].result = FinalVerdict(r.report)
    BY <1>5 DEF ResultHasSource
  <2>2. CASE s = p.sub
    BY <2>1, <2>2
  <2>3. CASE s # p.sub
    <3>1. solution'[s] = solution[s] /\ InUserver(s)' = InUserver(s)
      BY <2>3, <1>4, <1>7
    <3> QED
      BY <3>1 DEF FlowInv, ResultHasSource
  <2> QED
    BY <2>2, <2>3
<1>11. \A s \in Submissions : Safe(s) => Safe(s)'
  BY <1>2, <1>4, <1>5, <1>7 DEF Safe
<1>12. \A s \in Submissions : /\ IsFiniteSet(InUserver(s)') /\ Cardinality(InUserver(s)') \in Nat
                              /\ Cardinality(InUserver(s)) \in Nat
                              /\ Cardinality(InUserver(s)') <= Cardinality(InUserver(s))
  <2> SUFFICES ASSUME NEW s \in Submissions
               PROVE  /\ IsFiniteSet(InUserver(s)') /\ Cardinality(InUserver(s)') \in Nat
                      /\ Cardinality(InUserver(s)) \in Nat
                      /\ Cardinality(InUserver(s)') <= Cardinality(InUserver(s))
    OBVIOUS
  <2>1. IsFiniteSet(InUserver(s))
    BY DEF FlowInv, Counted
  <2>2. CASE s # p.sub
    BY <2>1, <2>2, <1>4, NoneAdded
  <2>3. CASE s = p.sub
    <3> DEFINE T == InUserver(s) \ {p}
    <3>1. IsFiniteSet(T) /\ Cardinality(T) \in Nat /\ Cardinality(InUserver(s)) \in Nat
          /\ Cardinality(T) + 1 <= Cardinality(InUserver(s))
      BY <2>1, <2>3, <1>4, TakenOne
    <3>2. IsFiniteSet(InUserver(s)') /\ Cardinality(InUserver(s)') \in Nat
          /\ Cardinality(InUserver(s)') <= Cardinality(T) + 1
      BY <3>1, <2>3, <1>4, AddedOne
    <3> QED
      BY <3>1, <3>2
  <2> QED
    BY <2>2, <2>3
<1>13. \A s \in Submissions : Len(solution[s].rows) \in Nat /\ Len(solution'[s].rows) = Len(solution[s].rows)
  BY <1>7 DEF FlowInv, Types, Row
<1>14. \A s \in Submissions : InUserver(s)' # {} => InUserver(s) # {}
  BY <1>4
<1> QED
  BY <1>5, <1>7, <1>8, <1>9, <1>10, <1>11, <1>12, <1>13, <1>14 DEF HandlerStep

LEMMA SaveRowsSteps == ASSUME FlowInv, NEW p \in posts, SaveRows(p) PROVE HandlerStep
<1>1. p \in Post /\ p.pc = "rows" /\ p.report \in Results /\ p.sub \in Submissions
      /\ solution[p.sub].result # "NULL"
  BY DEF FlowInv, Types, Post, SaveRows, RowsAfterResult
<1>2. posts' = (posts \ {p}) \cup {}
      /\ solution' = [solution EXCEPT ![p.sub].rows = Append(solution[p.sub].rows, p.report)]
      /\ UNCHANGED <<queue, inst, delivered, excuse, faults>>
  BY DEF SaveRows
<1>3. /\ posts' \subseteq Post
      /\ \A s \in Submissions \ {p.sub} : InUserver(s)' = InUserver(s)
      /\ InUserver(p.sub)' = InUserver(p.sub) \ {p}
      /\ p \in InUserver(p.sub)
  BY <1>2, RequestsAfter
<1>4. PICK before \in Seq(Results) : before = solution[p.sub].rows
  BY <1>1 DEF FlowInv, Types, Row
<1>5. PICK after \in Seq(Results) :
        /\ after = Append(before, p.report)
        /\ Len(after) = Len(before) + 1 /\ after # <<>>
        /\ after[Len(after)] = p.report
        /\ \A k \in 1..Len(before) : after[k] = before[k] /\ k \in 1..Len(after)
  <2>1. /\ Append(before, p.report) \in Seq(Results) /\ Len(Append(before, p.report)) = Len(before) + 1
        /\ Append(before, p.report) # <<>> /\ Append(before, p.report)[Len(before) + 1] = p.report
        /\ \A k \in 1..Len(before) : Append(before, p.report)[k] = before[k] /\ k \in 1..(Len(before) + 1)
    BY <1>1, AppendFacts
  <2> QED
    BY <2>1
<1>6. solution' \in [Submissions -> Row]
  <2>1. solution' = [solution EXCEPT ![p.sub].rows = after]
    BY <1>2, <1>4, <1>5
  <2> QED
    BY <2>1, <1>1 DEF FlowInv, Types, Row
<1>7. /\ \A s \in Submissions \ {p.sub} : solution'[s] = solution[s]
      /\ solution'[p.sub].rows = after
      /\ \A s \in Submissions : solution'[s].result = solution[s].result /\ solution'[s].state = solution[s].state
  BY <1>1, <1>2, <1>4, <1>5 DEF FlowInv, Types, Row
<1>8. Types'
  BY <1>2, <1>3, <1>6 DEF FlowInv, Types
<1>9. RowsAfterResult'
  <2>1. \A r \in posts' : r \in posts /\ r.sub \in Submissions
    BY <1>2, <1>3 DEF Post
  <2> QED
    BY <2>1, <1>7 DEF FlowInv, RowsAfterResult
<1>10. ResultHasSource'
  <2> SUFFICES ASSUME NEW s \in Submissions, {"result", "rows"} \cap excuse[s] = {}
               PROVE  \/ solution'[s].result = "NULL" /\ solution'[s].rows = <<>>
                      \/ \E k \in 1..Len(solution'[s].rows) :
                            solution'[s].result = FinalVerdict(solution'[s].rows[k])
                      \/ \E r \in InUserver(s)' : r.pc = "rows" /\ solution'[s].result = FinalVerdict(r.report)
    BY <1>2 DEF ResultHasSource
  <2>1. CASE s = p.sub
    <3>1. CASE \E k \in 1..Len(before) : solution[s].result = FinalVerdict(before[k])
      <4>1. PICK k \in 1..Len(before) : solution[s].result = FinalVerdict(before[k])
        BY <3>1
      <4>2. k \in 1..Len(after) /\ after[k] = before[k]
        BY <1>5
      <4> QED
        BY <4>1, <4>2, <2>1, <1>7
    <3>2. CASE \E r \in InUserver(s) : r.pc = "rows" /\ solution[s].result = FinalVerdict(r.report)
      <4>1. PICK r \in InUserver(s) : r.pc = "rows" /\ solution[s].result = FinalVerdict(r.report)
        BY <3>2
      <4>2. CASE r = p
        <5>1. Len(after) \in 1..Len(after)
          BY <1>5
        <5> QED
          BY <4>1, <4>2, <5>1, <2>1, <1>5, <1>7
      <4>3. CASE r # p
        BY <4>1, <4>3, <2>1, <1>3, <1>7
      <4> QED
        BY <4>2, <4>3
    <3> QED
      BY <3>1, <3>2, <2>1, <1>1, <1>4 DEF FlowInv, ResultHasSource
  <2>2. CASE s # p.sub
    <3>1. solution'[s] = solution[s] /\ InUserver(s)' = InUserver(s)
      BY <2>2, <1>3, <1>7
    <3> QED
      BY <3>1 DEF FlowInv, ResultHasSource
  <2> QED
    BY <2>1, <2>2
<1>11. \A s \in Submissions : Safe(s) => Safe(s)'
  <2>1. Safe(p.sub)'
    BY <1>1, <1>5, <1>7 DEF Safe
  <2>2. \A s \in Submissions \ {p.sub} : Safe(s) => Safe(s)'
    BY <1>2, <1>3, <1>7 DEF Safe
  <2> QED
    BY <2>1, <2>2
<1>12. \A s \in Submissions :
         /\ IsFiniteSet(InUserver(s)')
         /\ Len(solution'[s].rows) + Cardinality(InUserver(s)')
               <= Len(solution[s].rows) + Cardinality(InUserver(s))
  <2> SUFFICES ASSUME NEW s \in Submissions
               PROVE  /\ IsFiniteSet(InUserver(s)')
                      /\ Len(solution'[s].rows) + Cardinality(InUserver(s)')
                            <= Len(solution[s].rows) + Cardinality(InUserver(s))
    OBVIOUS
  <2>1. IsFiniteSet(InUserver(s))
    BY DEF FlowInv, Counted
  <2>2. Len(solution[s].rows) \in Nat
    BY DEF FlowInv, Types, Row
  <2>3. CASE s # p.sub
    <3>1. InUserver(s)' = InUserver(s) /\ solution'[s] = solution[s]
      BY <2>3, <1>3, <1>7
    <3>2. Cardinality(InUserver(s)) \in Nat
      BY <2>1, FS_CardinalityType
    <3> QED
      BY <2>1, <2>2, <3>1, <3>2
  <2>4. CASE s = p.sub
    <3>1. /\ IsFiniteSet(InUserver(s)') /\ Cardinality(InUserver(s)') \in Nat
          /\ Cardinality(InUserver(s)) \in Nat
          /\ Cardinality(InUserver(s)') + 1 <= Cardinality(InUserver(s))
      BY <2>1, <2>4, <1>3, TakenOne
    <3>2. Len(solution'[s].rows) = Len(solution[s].rows) + 1
      BY <2>4, <1>4, <1>5, <1>7
    <3>3. Len(solution'[s].rows) \in Nat
      BY <2>2, <3>2
    <3> QED
      BY <2>2, <3>1, <3>2, <3>3, OneMovesOver
  <2> QED
    BY <2>3, <2>4
<1>13. \A s \in Submissions : InUserver(s)' # {} => InUserver(s) # {}
  BY <1>3
<1> QED
  BY <1>2, <1>7, <1>8, <1>9, <1>10, <1>11, <1>12, <1>13 DEF HandlerStep

LEMMA UserverCrashSteps == ASSUME FlowInv, UserverCrash PROVE HandlerStep
<1>1. posts' = {} /\ UNCHANGED <<solution, queue, inst, delivered>>
      /\ excuse' = [s \in Submissions |-> excuse[s] \cup {p.pc : p \in InUserver(s)}]
  BY DEF UserverCrash
<1>2. faults' \in 0..MaxFaults
  BY MaxFaultsAssumption DEF FlowInv, Types, UserverCrash
<1>3. \A s \in Submissions : \A p \in InUserver(s) : p.pc \in {"result", "rows"} /\ p.pc \in Excuses
  BY DEF FlowInv, Types, InUserver, Post, Excuses
<1>4. /\ excuse' \in [Submissions -> SUBSET Excuses]
      /\ \A s \in Submissions : excuse[s] \subseteq excuse'[s]
      /\ \A s \in Submissions : \A p \in InUserver(s) : p.pc \in excuse'[s]
  BY <1>1, <1>3 DEF FlowInv, Types
<1>5. \A s \in Submissions : InUserver(s)' = {}
  BY <1>1 DEF InUserver
<1>6. Types' /\ RowsAfterResult'
  BY <1>1, <1>2, <1>4 DEF FlowInv, Types, RowsAfterResult
<1>7. ResultHasSource'
  <2> SUFFICES ASSUME NEW s \in Submissions, {"result", "rows"} \cap excuse'[s] = {}
               PROVE  \/ solution[s].result = "NULL" /\ solution[s].rows = <<>>
                      \/ \E k \in 1..Len(solution[s].rows) :
                            solution[s].result = FinalVerdict(solution[s].rows[k])
    BY <1>1 DEF ResultHasSource
  <2>1. InUserver(s) = {} /\ {"result", "rows"} \cap excuse[s] = {}
    BY <1>3, <1>4
  <2> QED
    BY <2>1 DEF FlowInv, ResultHasSource
<1>8. \A s \in Submissions : Safe(s) => Safe(s)'
  <2> SUFFICES ASSUME NEW s \in Submissions, Safe(s) PROVE excuse'[s] # {} \/
                 (solution[s].result # "NULL" /\ solution[s].rows # <<>>)
    BY <1>1 DEF Safe
  <2> QED
    BY <1>4 DEF Safe
<1>9. \A s \in Submissions :
         /\ IsFiniteSet(InUserver(s)')
         /\ Len(solution'[s].rows) + Cardinality(InUserver(s)')
               <= Len(solution[s].rows) + Cardinality(InUserver(s))
  <2>1. IsFiniteSet({}) /\ Cardinality({}) = 0
    BY FS_EmptySet
  <2>2. \A s \in Submissions : Cardinality(InUserver(s)) \in Nat
    BY FS_CardinalityType DEF FlowInv, Counted
  <2>3. \A s \in Submissions : Len(solution[s].rows) \in Nat
    BY DEF FlowInv, Types, Row
  <2>4. \A a, b \in Nat : a + 0 <= a + b
    OBVIOUS
  <2> QED
    BY <1>1, <1>5, <2>1, <2>2, <2>3, <2>4
<1> QED
  BY <1>1, <1>5, <1>6, <1>7, <1>8, <1>9 DEF HandlerStep

----------------------------------------------------------------------------
(* userver saves and sends: only the state of one row, and the queue. *)
LEMMA SubmitKeeps ==
    ASSUME FlowInv, NEW s \in Submissions, NEW st \in {"saved", "sent", "unsent"},
           solution[s].state # "sent",
           solution' = [solution EXCEPT ![s].state = st],
           queue' = IF st = "sent" THEN queue \cup {s} ELSE queue,
           UNCHANGED <<inst, posts, delivered, excuse, faults>>
    PROVE  /\ FlowInv'
           /\ \A t \in Submissions \ {s} : solution'[t] = solution[t] /\ (Held(t)' <=> Held(t))
           /\ solution'[s].state = st
           /\ \A t \in Submissions : solution'[t].result = solution[t].result /\ solution'[t].rows = solution[t].rows
           /\ st = "sent" => Held(s)'
<1>1. /\ \A t \in Submissions \ {s} : solution'[t] = solution[t]
      /\ solution'[s].state = st
      /\ \A t \in Submissions : solution'[t].result = solution[t].result /\ solution'[t].rows = solution[t].rows
      /\ solution' \in [Submissions -> Row]
  BY DEF FlowInv, Types, Row
<1>2. Types'
  BY <1>1 DEF FlowInv, Types
<1>3. \A t \in Submissions : InUserver(t)' = InUserver(t) /\ Working(t)' = Working(t)
  BY DEF InUserver, Working
<1>4. \A i \in Instances : Unacked(i)' = Unacked(i)
  BY DEF Unacked
<1>5. \A t \in Submissions \ {s} : (OnBroker(t)' <=> OnBroker(t)) /\ (Held(t)' <=> Held(t))
  BY <1>3, <1>4 DEF OnBroker, Held
<1>6. ~Held(s)
  BY DEF FlowInv, HeldIsSent
<1>7. st # "sent" => (OnBroker(s)' <=> OnBroker(s)) /\ (Held(s)' <=> Held(s))
  BY <1>3, <1>4 DEF OnBroker, Held
<1>8. st = "sent" => OnBroker(s)' /\ Held(s)'
  BY DEF OnBroker, Held
<1>9. HeldIsSent'
  BY <1>1, <1>5, <1>6, <1>7 DEF FlowInv, HeldIsSent
<1>10. \A t \in Submissions : Safe(t)' <=> Safe(t)
  BY <1>1, <1>3 DEF Safe
<1>11. SentIsKept'
  BY <1>1, <1>5, <1>8, <1>10 DEF FlowInv, SentIsKept
<1>12. AckedIsSafe' /\ BusyWithOne'
  BY <1>10 DEF FlowInv, AckedIsSafe, BusyWithOne
<1>13. RowsAfterResult'
  <2>1. \A p \in posts : p.sub \in Submissions
    BY DEF FlowInv, Types, Post
  <2> QED
    BY <1>1, <2>1 DEF FlowInv, RowsAfterResult
<1>14. ResultHasSource'
  BY <1>1, <1>3 DEF FlowInv, ResultHasSource
<1>15. Counted'
  BY <1>1, <1>3 DEF FlowInv, Counted
<1> QED
  BY <1>1, <1>2, <1>5, <1>8, <1>9, <1>11, <1>12, <1>13, <1>14, <1>15 DEF FlowInv

----------------------------------------------------------------------------
(* The refinement, one submission at a time. *)

LEMMA MoveMapped ==
    ASSUME NEW S \in SUBSET Submissions, NEW from, NEW to,
           \A s \in S : Phase(s) = from,
           \A s \in Submissions : Phase(s)' = IF s \in S THEN to ELSE Phase(s)
    PROVE  Lifecycle!Move(S, from, to)
  BY DEF Lifecycle!Move

LEMMA ResultRowsMapped ==
    ASSUME \A s \in Submissions : solution'[s].result = solution[s].result /\ solution'[s].rows = solution[s].rows
    PROVE  UNCHANGED <<[s \in Submissions |-> solution[s].result], [s \in Submissions |-> solution[s].rows]>>
  OBVIOUS

(* A step that leaves the rows alone and takes hold of nothing lets go of some submissions, or of none. *)
LEMMA LetsGo ==
    ASSUME FlowInv, solution' = solution, \A s \in Submissions : Held(s)' => Held(s)
    PROVE  Lifecycle!Next \/ UNCHANGED Lifecycle!vars
<1> DEFINE S == {s \in Submissions : solution[s].state = "sent" /\ Held(s) /\ ~Held(s)'}
<1>1. \A s \in S : Phase(s) = "pending"
  BY DEF Phase
<1>2. \A s \in Submissions : Phase(s)' = IF s \in S THEN "closed" ELSE Phase(s)
  BY DEF Phase
<1>3. UNCHANGED <<[s \in Submissions |-> solution[s].result], [s \in Submissions |-> solution[s].rows]>>
  BY ResultRowsMapped
<1>4. S \in SUBSET Submissions
  OBVIOUS
<1> HIDE DEF S
<1>5. Lifecycle!Move(S, "pending", "closed")
  BY <1>1, <1>2, <1>4, MoveMapped
<1>6. CASE S = {}
  <2>1. [s \in Submissions |-> Phase(s)]' = [s \in Submissions |-> Phase(s)]
    BY <1>2, <1>6
  <2> QED
    BY <1>3, <2>1 DEF Lifecycle!vars
<1>7. CASE S # {}
  <2>1. Lifecycle!Close(S)
    BY <1>3, <1>5, <1>7 DEF Lifecycle!Close
  <2> QED
    BY <1>4, <2>1 DEF Lifecycle!Next
<1> QED
  BY <1>6, <1>7

LEMMA SaveMapped ==
    ASSUME FlowInv, NEW s \in Submissions, Submit(s)
    PROVE  FlowInv' /\ Lifecycle!Next
<1>1. PICK st \in {"saved", "sent", "unsent"} :
        /\ solution[s].state = (IF st = "saved" THEN "new" ELSE "saved")
        /\ solution' = [solution EXCEPT ![s].state = st]
        /\ queue' = IF st = "sent" THEN queue \cup {s} ELSE queue
        /\ UNCHANGED <<inst, posts, delivered, excuse, faults>>
  <2>1. CASE SaveSolution(s)
    BY <2>1 DEF SaveSolution
  <2>2. CASE SendSolution(s)
    BY <2>2 DEF SendSolution
  <2>3. CASE SendFails(s)
    BY <2>3 DEF SendFails
  <2> QED
    BY <2>1, <2>2, <2>3 DEF Submit
<1>2. solution[s].state # "sent"
  BY <1>1
<1>3. /\ FlowInv'
      /\ \A t \in Submissions \ {s} : solution'[t] = solution[t] /\ (Held(t)' <=> Held(t))
      /\ solution'[s].state = st
      /\ \A t \in Submissions : solution'[t].result = solution[t].result /\ solution'[t].rows = solution[t].rows
      /\ st = "sent" => Held(s)'
  BY <1>1, <1>2, SubmitKeeps
<1>4. PICK to \in {"saved", "pending", "unsent"} : to = IF st = "sent" THEN "pending" ELSE st
  OBVIOUS
<1>5. Phase(s) = solution[s].state /\ Phase(s)' = to
  BY <1>2, <1>3, <1>4 DEF Phase
<1>6. \A t \in Submissions : Phase(t)' = IF t \in {s} THEN to ELSE Phase(t)
  BY <1>3, <1>5 DEF Phase
<1>7. Lifecycle!Move({s}, solution[s].state, to)
  <2>1. \A t \in {s} : Phase(t) = solution[s].state
    BY <1>5
  <2>2. {s} \in SUBSET Submissions
    OBVIOUS
  <2>3. PICK from : from = solution[s].state
    OBVIOUS
  <2> QED
    BY <2>1, <2>2, <2>3, <1>6, MoveMapped
<1>8. UNCHANGED <<[t \in Submissions |-> solution[t].result], [t \in Submissions |-> solution[t].rows]>>
  BY <1>3, ResultRowsMapped
<1>9. Lifecycle!Save(s) \/ Lifecycle!Send(s) \/ Lifecycle!GiveUp(s)
  BY <1>1, <1>4, <1>7, <1>8 DEF Lifecycle!Save, Lifecycle!Send, Lifecycle!GiveUp
<1> QED
  BY <1>3, <1>9 DEF Lifecycle!Next

LEMMA SaveResultMapped ==
    ASSUME FlowInv, NEW p \in posts, SaveResult(p)
    PROVE  Lifecycle!Next
<1>1. p \in Post /\ p.report # <<>> /\ p.report \in Results /\ p.sub \in Submissions
  BY DEF FlowInv, Types, Post, SaveResult
<1>2. PICK v \in Verdict : v = FinalVerdict(p.report)
  BY <1>1, FinalVerdictType
<1>3. solution' = [solution EXCEPT ![p.sub].result = v] /\ UNCHANGED <<queue, inst>>
  BY <1>2 DEF SaveResult
<1>4. /\ \A s \in Submissions : solution'[s].rows = solution[s].rows /\ solution'[s].state = solution[s].state
      /\ \A s \in Submissions : solution'[s].result = IF s = p.sub THEN v ELSE solution[s].result
  BY <1>1, <1>3 DEF FlowInv, Types, Row
<1>5. \A s \in Submissions : InUserver(s)' = {} <=> InUserver(s) = {}
  <2>1. PICK q \in Post : q.sub = p.sub /\ posts' = (posts \ {p}) \cup {q}
    <3> DEFINE r == [p EXCEPT !.pc = "rows"]
    <3>1. r \in Post /\ r.sub = p.sub
      BY <1>1 DEF Post
    <3> QED
      BY <3>1 DEF SaveResult
  <2>2. /\ \A s \in Submissions \ {p.sub} : InUserver(s)' = InUserver(s)
        /\ InUserver(p.sub)' = (InUserver(p.sub) \ {p}) \cup {q}
        /\ p \in InUserver(p.sub)
    BY <2>1, RequestsAfter
  <2> QED
    BY <2>2
<1>6. \A s \in Submissions : Held(s)' <=> Held(s)
  <2>1. \A s \in Submissions : OnBroker(s)' <=> OnBroker(s)
    BY <1>3 DEF OnBroker, Unacked
  <2> QED
    BY <1>3, <1>5, <2>1 DEF Held
<1>7. \A s \in Submissions : Phase(s)' = Phase(s)
  BY <1>4, <1>6 DEF Phase
<1>8. Held(p.sub) /\ Phase(p.sub) = "pending"
  <2>1. Held(p.sub)
    BY DEF Held, InUserver
  <2> QED
    BY <1>1, <2>1 DEF FlowInv, HeldIsSent, Phase
<1>9. [s \in Submissions |-> solution[s].result]'
        = [[s \in Submissions |-> solution[s].result] EXCEPT ![p.sub] = v]
  BY <1>1, <1>4
<1>10. Lifecycle!SetResult(p.sub)
  <2>1. v \in Lifecycle!Verdict
    BY DEF Verdict, Lifecycle!Verdict
  <2> QED
    BY <1>1, <1>4, <1>7, <1>8, <1>9, <2>1 DEF Lifecycle!SetResult
<1> QED
  BY <1>1, <1>10 DEF Lifecycle!Next

LEMMA SaveRowsMapped ==
    ASSUME FlowInv, NEW p \in posts, SaveRows(p)
    PROVE  Lifecycle!Next
<1>1. p \in Post /\ p.report \in Results /\ p.sub \in Submissions /\ solution[p.sub].result # "NULL"
  BY DEF FlowInv, Types, Post, SaveRows, RowsAfterResult
<1>2. /\ solution' = [solution EXCEPT ![p.sub].rows = Append(solution[p.sub].rows, p.report)]
      /\ posts' = (posts \ {p}) \cup {} /\ UNCHANGED <<queue, inst>>
  BY DEF SaveRows
<1>3. PICK after : after = Append(solution[p.sub].rows, p.report)
  OBVIOUS
<1>4. /\ \A s \in Submissions : solution'[s].result = solution[s].result /\ solution'[s].state = solution[s].state
      /\ \A s \in Submissions : solution'[s].rows = IF s = p.sub THEN after ELSE solution[s].rows
  BY <1>1, <1>2, <1>3 DEF FlowInv, Types, Row
<1>5. /\ \A s \in Submissions \ {p.sub} : InUserver(s)' = InUserver(s)
      /\ p \in InUserver(p.sub)
  BY <1>2, RequestsAfter
<1>6. \A s \in Submissions \ {p.sub} : Held(s)' <=> Held(s)
  <2>1. \A s \in Submissions : OnBroker(s)' <=> OnBroker(s)
    BY <1>2 DEF OnBroker, Unacked
  <2> QED
    BY <1>2, <1>5, <2>1 DEF Held
<1>7. \A s \in Submissions \ {p.sub} : Phase(s)' = Phase(s)
  BY <1>4, <1>6 DEF Phase
<1>8. solution[p.sub].state = "sent" /\ Phase(p.sub) = "pending"
  <2>1. Held(p.sub)
    BY <1>5 DEF Held
  <2> QED
    BY <1>1, <2>1 DEF FlowInv, HeldIsSent, Phase
<1>9. PICK to \in {"pending", "closed"} : \A s \in Submissions : Phase(s)' = IF s \in {p.sub} THEN to ELSE Phase(s)
  <2>1. CASE Held(p.sub)'
    BY <2>1, <1>1, <1>4, <1>7, <1>8 DEF Phase
  <2>2. CASE ~Held(p.sub)'
    BY <2>2, <1>1, <1>4, <1>7, <1>8 DEF Phase
  <2> QED
    BY <2>1, <2>2
<1>10. Lifecycle!Move({p.sub}, "pending", to)
  <2>1. {p.sub} \in SUBSET Submissions /\ \A s \in {p.sub} : Phase(s) = "pending"
    BY <1>1, <1>8
  <2> QED
    BY <2>1, <1>9, MoveMapped
<1>11. [s \in Submissions |-> solution[s].rows]'
         = [[s \in Submissions |-> solution[s].rows] EXCEPT ![p.sub] =
              Append([s \in Submissions |-> solution[s].rows][p.sub], p.report)]
  BY <1>1, <1>3, <1>4
<1>12. [s \in Submissions |-> solution[s].result]' = [s \in Submissions |-> solution[s].result]
  BY <1>4
<1>13. [s \in Submissions |-> solution[s].result][p.sub] # "NULL"
  BY <1>1
<1>14. Lifecycle!AddRows(p.sub)
  BY <1>1, <1>10, <1>11, <1>12, <1>13 DEF Lifecycle!AddRows
<1> QED
  BY <1>1, <1>14 DEF Lifecycle!Next

----------------------------------------------------------------------------
(* Every step keeps the invariant and is a step of SubmissionLifecycle, or none. *)
LEMMA NextKeepsAndMaps ==
    ASSUME FlowInv, [Next]_vars
    PROVE  FlowInv' /\ (Lifecycle!Next \/ UNCHANGED Lifecycle!vars)
<1>1. CASE \E s \in Submissions : Submit(s)
  BY <1>1, SaveMapped
<1>2. CASE \E i \in Instances : Consume(i) \/ Fault(i)
  <2>1. PICK i \in Instances : Consume(i) \/ Fault(i)
    BY <1>2
  <2>2. CASE Deliver(i)
    BY <2>2, DeliverKeeps, LetsGo
  <2>3. CASE Commit(i)
    BY <2>3, CommitKeeps, LetsGo
  <2>4. CASE ~Deliver(i) /\ ~Commit(i)
    <3>1. InstanceStep(i)
      BY <2>1, <2>4, TestSteps, ToAckSteps, AckSteps, ConnectionLostSteps, ProcessSteps DEF Consume, Fault
    <3> QED
      BY <3>1, InstanceStepKeeps, LetsGo
  <2> QED
    BY <2>2, <2>3, <2>4
<1>3. CASE \E p \in posts : Request(p)
  <2>1. PICK p \in posts : Request(p)
    BY <1>3
  <2>2. CASE SaveResult(p)
    BY <2>2, SaveResultSteps, HandlerStepKeeps, SaveResultMapped
  <2>3. CASE SaveRows(p)
    BY <2>3, SaveRowsSteps, HandlerStepKeeps, SaveRowsMapped
  <2>4. CASE RequestFails(p)
    <3>1. solution' = solution
      BY <2>4 DEF RequestFails
    <3> QED
      BY <2>4, <3>1, RequestFailsSteps, HandlerStepKeeps, LetsGo
  <2> QED
    BY <2>1, <2>2, <2>3, <2>4 DEF Request
<1>4. CASE BrokerRestart
  BY <1>4, BrokerRestartKeeps, LetsGo
<1>5. CASE UserverCrash
  <2>1. solution' = solution
    BY <1>5 DEF UserverCrash
  <2> QED
    BY <1>5, <2>1, UserverCrashSteps, HandlerStepKeeps, LetsGo
<1>6. CASE UNCHANGED vars
  <2>1. UNCHANGED <<solution, queue, inst, posts, delivered, excuse, faults>>
    BY <1>6 DEF vars
  <2>2. \A s \in Submissions : InUserver(s)' = InUserver(s) /\ Working(s)' = Working(s)
    BY <2>1 DEF InUserver, Working
  <2>3. \A s \in Submissions : (OnBroker(s)' <=> OnBroker(s)) /\ (Held(s)' <=> Held(s)) /\ (Safe(s)' <=> Safe(s))
    BY <2>1, <2>2 DEF OnBroker, Unacked, Held, Safe
  <2>4. Types' /\ BusyWithOne' /\ RowsAfterResult'
    BY <2>1 DEF FlowInv, Types, BusyWithOne, RowsAfterResult
  <2>5. HeldIsSent' /\ SentIsKept' /\ AckedIsSafe'
    BY <2>1, <2>3 DEF FlowInv, HeldIsSent, SentIsKept, AckedIsSafe
  <2>6. ResultHasSource' /\ Counted'
    BY <2>1, <2>2 DEF FlowInv, ResultHasSource, Counted
  <2> QED
    BY <2>1, <2>3, <2>4, <2>5, <2>6, LetsGo DEF FlowInv
<1> QED
  BY <1>1, <1>2, <1>3, <1>4, <1>5, <1>6 DEF Next

(* The inductive invariant holds throughout: each message is where the code's order of steps puts it. *)
THEOREM FlowInvariant == Spec => []FlowInv
<1>1. FlowInv /\ [Next]_vars => FlowInv'
  BY NextKeepsAndMaps
<1> QED
  BY InitFlow, <1>1, PTL DEF Spec

----------------------------------------------------------------------------
(* Type correctness of SubmissionFlow. *)
THEOREM FlowTypes == Spec => []TypeOK
<1>1. FlowInv => TypeOK
  BY TypesAreTypeOK DEF FlowInv
<1> QED
  BY <1>1, FlowInvariant, PTL

(***************************************************************************)
(* Acknowledging last loses nothing unnoticed, however many instances there*)
(* are and whatever fails: AckedIsSafe is what the order of the callback   *)
(* establishes, SentIsKept what that order is for.                         *)
(***************************************************************************)
THEOREM NoSubmissionLost == Spec => []NothingLost
<1>1. FlowInv => NothingLost
  BY DEF FlowInv, SentIsKept, Safe, NothingLost
<1> QED
  BY <1>1, FlowInvariant, PTL

(***************************************************************************)
(* Two deliveries may write the result and the tests in any order: with no *)
(* request under way the result is still the verdict of a stored report.   *)
(***************************************************************************)
THEOREM ResultsHaveRows == Spec => []ResultFromRows
<1>1. FlowInv => ResultFromRows
  BY DEF FlowInv, ResultHasSource, ResultFromRows
<1> QED
  BY <1>1, FlowInvariant, PTL

(* Tests are stored at most once for each delivery: the handler of the processor never posts twice. *)
THEOREM RowsPerDelivery == Spec => []StoredOncePerDelivery
<1>1. ASSUME FlowInv PROVE StoredOncePerDelivery
  <2> SUFFICES ASSUME NEW s \in Submissions
               PROVE  Len(solution[s].rows) + Cardinality(InUserver(s)) <= delivered[s]
    BY DEF StoredOncePerDelivery
  <2>1. /\ IsFiniteSet(Working(s)) /\ IsFiniteSet(InUserver(s))
        /\ Len(solution[s].rows) + Cardinality(InUserver(s)) + Cardinality(Working(s)) <= delivered[s]
    BY <1>1 DEF FlowInv, Counted
  <2>2. Cardinality(Working(s)) \in Nat /\ Cardinality(InUserver(s)) \in Nat
    BY <2>1, FS_CardinalityType
  <2>3. Len(solution[s].rows) \in Nat /\ delivered[s] \in Nat
    BY <1>1 DEF FlowInv, Types, Row
  <2> QED
    BY <2>1, <2>2, <2>3
<1> QED
  BY <1>1, FlowInvariant, PTL

(***************************************************************************)
(* The broker, the instances and userver together implement what the owner *)
(* of a submission is promised: a result never goes away, tests come after *)
(* a result, and a submission that was let go stays as it is.              *)
(***************************************************************************)
THEOREM ImplementsLifecycle == Spec => KeepsLifecycle
<1>1. Init => Lifecycle!Init
  <2> SUFFICES ASSUME Init PROVE Lifecycle!Init
    OBVIOUS
  <2>1. \A s \in Submissions : Phase(s) = "new" /\ solution[s].result = "NULL" /\ solution[s].rows = <<>>
    BY DEF Init, Phase
  <2> QED
    BY <2>1 DEF Lifecycle!Init
<1>2. FlowInv /\ [Next]_vars => [Lifecycle!Next]_(Lifecycle!vars)
  BY NextKeepsAndMaps
<1> QED
  BY <1>1, <1>2, FlowInvariant, PTL DEF Spec, KeepsLifecycle, Lifecycle!Spec
=============================================================================
