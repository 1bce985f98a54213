-------------------------- MODULE SubmissionFlow ---------------------------
(***************************************************************************)
(* A submission on its way: userver saves it and sends it to the broker,   *)
(* an instance of the testing processor consumes it, tests it (TestRun) and*)
(* posts the report to userver, which stores the result and the tests in   *)
(* two transactions; then the instance acknowledges the message.           *)
(*                                                                         *)
(* An instance is a process: instance_count is 1, and glog ends a process  *)
(* that calls InitGoogleLogging a second time.                             *)
(***************************************************************************)
EXTENDS TestingReport, FiniteSets

CONSTANTS
    Submissions,
    Instances,
    Results,     \* the reports a submission may be given
    MaxFaults    \* bound: lost connections, crashes and restarts in a behaviour

ASSUME ResultsAssumption == \A r \in Results : r \in Reports(Len(r))
ASSUME MaxFaultsAssumption == MaxFaults \in Nat

VARIABLES
    solution,   \* userver's database: [state, result, rows] of every submission
    queue,      \* broker: the messages ready for delivery
    inst,       \* instances: [pc, sub, nr, report, connected], nr the number of the delivery
    posts,      \* requests userver is handling: [sub, nr, report, pc]
    delivered,  \* history: deliveries of a submission
    excuse,     \* history: why a submission may be without its report
    faults      \* history

vars == <<solution, queue, inst, posts, delivered, excuse, faults>>

None == "none"
ASSUME NoneAssumption == None \notin Submissions

Idle == [pc |-> "idle", sub |-> None, nr |-> 0, report |-> <<>>, connected |-> TRUE]
Down == [Idle EXCEPT !.pc = "down", !.connected = FALSE]

Init ==
    /\ solution = [s \in Submissions |-> [state |-> "new", result |-> "NULL", rows |-> <<>>]]
    /\ queue = {}
    /\ inst = [i \in Instances |-> Idle]
    /\ posts = {}
    /\ delivered = [s \in Submissions |-> 0]
    /\ excuse = [s \in Submissions |-> {}]
    /\ faults = 0

Excuse(S, why) == excuse' = [s \in Submissions |-> IF s \in S THEN excuse[s] \cup {why} ELSE excuse[s]]

(* The broker waits for an acknowledgement of i's message. *)
Unacked(i) == IF inst[i].connected /\ inst[i].sub # None THEN {inst[i].sub} ELSE {}
OnBroker(s) == s \in queue \/ \E i \in Instances : s \in Unacked(i)
InUserver(s) == {p \in posts : p.sub = s}

----------------------------------------------------------------------------
(* POST /tasks/{id}: save_solution commits the row, send_solution publishes. *)
SaveSolution(s) ==
    /\ solution[s].state = "new"
    /\ solution' = [solution EXCEPT ![s].state = "saved"]
    /\ UNCHANGED <<queue, inst, posts, delivered, excuse, faults>>

SendSolution(s) ==
    /\ solution[s].state = "saved"
    /\ solution' = [solution EXCEPT ![s].state = "sent"]
    /\ queue' = queue \cup {s}
    /\ UNCHANGED <<inst, posts, delivered, excuse, faults>>

(* The broker is not reached or userver dies: the row stays, nothing is sent. *)
SendFails(s) ==
    /\ solution[s].state = "saved"
    /\ solution' = [solution EXCEPT ![s].state = "unsent"]
    /\ UNCHANGED <<queue, inst, posts, delivered, excuse, faults>>

----------------------------------------------------------------------------
(* The consumer of an instance. *)

Deliver(i) ==
    /\ inst[i].pc = "idle" /\ inst[i].connected
    /\ \E s \in queue :
         /\ queue' = queue \ {s}
         /\ inst' = [inst EXCEPT ![i].pc = "process", ![i].sub = s, ![i].nr = delivered[s] + 1]
         /\ delivered' = [delivered EXCEPT ![s] = @ + 1]
    /\ UNCHANGED <<solution, posts, excuse, faults>>

(* Process returns its report, or throws and the callback only logs it. *)
Test(i) ==
    /\ inst[i].pc = "process"
    /\ \E r \in Results : inst' = [inst EXCEPT ![i].pc = "commit", ![i].report = r]
    /\ UNCHANGED <<solution, queue, posts, delivered, excuse, faults>>

TestThrows(i) ==
    /\ inst[i].pc = "process"
    /\ inst' = [inst EXCEPT ![i].pc = "ack"]
    /\ Excuse({inst[i].sub}, "exception")
    /\ UNCHANGED <<solution, queue, posts, delivered, faults>>

(* Commit: the request reaches userver, or curl fails and the error is only logged. *)
Commit(i) ==
    /\ inst[i].pc = "commit"
    /\ inst' = [inst EXCEPT ![i].pc = "posting"]
    /\ posts' = posts \cup {[sub |-> inst[i].sub, nr |-> inst[i].nr,
                             report |-> inst[i].report, pc |-> "result"]}
    /\ UNCHANGED <<solution, queue, delivered, excuse, faults>>

CommitFails(i) ==
    /\ inst[i].pc = "commit"
    /\ inst' = [inst EXCEPT ![i].pc = "ack"]
    /\ Excuse({inst[i].sub}, "unreachable")
    /\ UNCHANGED <<solution, queue, posts, delivered, faults>>

(* userver has answered: curlpp takes any status for success. *)
CommitReturns(i) ==
    /\ inst[i].pc = "posting"
    /\ \A p \in InUserver(inst[i].sub) : p.nr # inst[i].nr
    /\ inst' = [inst EXCEPT ![i].pc = "ack"]
    /\ UNCHANGED <<solution, queue, posts, delivered, excuse, faults>>

(* mutant: a commit whose answer is lost is tried again *)
CommitRetried(i) ==
    /\ inst[i].pc = "posting" /\ faults < MaxFaults
    /\ inst' = [inst EXCEPT ![i].pc = "commit"]
    /\ faults' = faults + 1
    /\ UNCHANGED <<solution, queue, posts, delivered, excuse>>

(* The answer is lost while userver goes on with the request. *)
CommitBreaks(i) ==
    /\ inst[i].pc = "posting" /\ faults < MaxFaults
    /\ inst' = [inst EXCEPT ![i].pc = "ack"]
    /\ faults' = faults + 1
    /\ UNCHANGED <<solution, queue, posts, delivered, excuse>>

(* mutant: only a stored result is acknowledged *)
AckReported(i) ==
    /\ inst[i].pc = "ack" /\ solution[inst[i].sub].result # "NULL"
    /\ inst' = [inst EXCEPT ![i] = [Idle EXCEPT !.connected = inst[i].connected]]
    /\ UNCHANGED <<solution, queue, posts, delivered, excuse, faults>>

(* The message is acknowledged; over a lost connection that has no effect. *)
Ack(i) ==
    /\ inst[i].pc = "ack"
    /\ inst' = [inst EXCEPT ![i] = [Idle EXCEPT !.connected = inst[i].connected]]
    /\ UNCHANGED <<solution, queue, posts, delivered, excuse, faults>>

----------------------------------------------------------------------------
(* Faults of the instance and the broker. *)

(* mutant: consume with noack, the broker forgets what it has delivered *)
ConnectionLostDrops(i) ==
    /\ inst[i].connected /\ faults < MaxFaults
    /\ inst' = [inst EXCEPT ![i].connected = FALSE]
    /\ faults' = faults + 1
    /\ UNCHANGED <<solution, queue, posts, delivered, excuse>>

(***************************************************************************)
(* The broker puts the message back; the callback goes on, as the loop     *)
(* that would notice runs on its thread (also why heartbeats are missed).  *)
(***************************************************************************)
ConnectionLost(i) ==
    /\ inst[i].connected /\ faults < MaxFaults
    /\ queue' = queue \cup Unacked(i)
    /\ inst' = [inst EXCEPT ![i].connected = FALSE]
    /\ faults' = faults + 1
    /\ UNCHANGED <<solution, posts, delivered, excuse>>

(* ev_run returns without a connection, Run throws, the process ends. *)
Terminate(i) ==
    /\ inst[i].pc = "idle" /\ ~inst[i].connected
    /\ inst' = [inst EXCEPT ![i] = Down]
    /\ UNCHANGED <<solution, queue, posts, delivered, excuse, faults>>

Crash(i) ==
    /\ inst[i].pc # "down" /\ faults < MaxFaults
    /\ queue' = queue \cup Unacked(i)
    /\ inst' = [inst EXCEPT ![i] = Down]
    /\ faults' = faults + 1
    /\ UNCHANGED <<solution, posts, delivered, excuse>>

Restart(i) ==
    /\ inst[i].pc = "down"
    /\ inst' = [inst EXCEPT ![i] = Idle]
    /\ UNCHANGED <<solution, queue, posts, delivered, excuse, faults>>

(* The queue is not durable: its messages are gone with the broker. *)
BrokerRestart ==
    /\ faults < MaxFaults
    /\ queue' = {}
    /\ inst' = [i \in Instances |-> [inst[i] EXCEPT !.connected = FALSE]]
    /\ Excuse({s \in Submissions : OnBroker(s)}, "broker")
    /\ faults' = faults + 1
    /\ UNCHANGED <<solution, posts, delivered>>

----------------------------------------------------------------------------
(* POST /solutions/: save_resolution, two transactions. *)

(* mutant: a request that fails takes the result back *)
RequestFailsClean(p) ==
    /\ posts' = posts \ {p}
    /\ solution' = [solution EXCEPT ![p.sub].result = "NULL"]
    /\ Excuse({p.sub}, p.pc)
    /\ UNCHANGED <<queue, inst, delivered, faults>>

(* The request fails: results.report[-1] of no entries, or the database. *)
RequestFails(p) ==
    /\ posts' = posts \ {p}
    /\ Excuse({p.sub}, p.pc)
    /\ UNCHANGED <<solution, queue, inst, delivered, faults>>

(* mutant: the first test decides *)
SaveFirstResult(p) ==
    /\ p.pc = "result" /\ p.report # <<>>
    /\ solution' = [solution EXCEPT ![p.sub].result = p.report[1]]
    /\ posts' = (posts \ {p}) \cup {[p EXCEPT !.pc = "rows"]}
    /\ UNCHANGED <<queue, inst, delivered, excuse, faults>>

SaveResult(p) ==
    /\ p.pc = "result" /\ p.report # <<>>
    /\ solution' = [solution EXCEPT ![p.sub].result = FinalVerdict(p.report)]
    /\ posts' = (posts \ {p}) \cup {[p EXCEPT !.pc = "rows"]}
    /\ UNCHANGED <<queue, inst, delivered, excuse, faults>>

(* mutant: the first entry is left out *)
SaveLaterRows(p) ==
    /\ p.pc = "rows"
    /\ solution' = [solution EXCEPT ![p.sub].rows = Append(@, Tail(p.report))]
    /\ posts' = posts \ {p}
    /\ UNCHANGED <<queue, inst, delivered, excuse, faults>>

SaveRows(p) ==
    /\ p.pc = "rows"
    /\ solution' = [solution EXCEPT ![p.sub].rows = Append(@, p.report)]
    /\ posts' = posts \ {p}
    /\ UNCHANGED <<queue, inst, delivered, excuse, faults>>

UserverCrash ==
    /\ faults < MaxFaults /\ posts # {}
    /\ posts' = {}
    /\ excuse' = [s \in Submissions |-> excuse[s] \cup {p.pc : p \in InUserver(s)}]
    /\ faults' = faults + 1
    /\ UNCHANGED <<solution, queue, inst, delivered>>

----------------------------------------------------------------------------
Consume(i) ==
    \/ Deliver(i) \/ Test(i) \/ TestThrows(i) \/ Commit(i) \/ CommitFails(i)
    \/ CommitReturns(i) \/ Ack(i) \/ Terminate(i)

Fault(i) == CommitBreaks(i) \/ ConnectionLost(i) \/ Crash(i) \/ Restart(i)

Submit(s) == SaveSolution(s) \/ SendSolution(s) \/ SendFails(s)

Request(p) == SaveResult(p) \/ SaveRows(p) \/ RequestFails(p)

Next ==
    \/ \E s \in Submissions : Submit(s)
    \/ \E i \in Instances : Consume(i) \/ Fault(i)
    \/ \E p \in posts : Request(p)
    \/ BrokerRestart \/ UserverCrash

(***************************************************************************)
(* A consumer that is up goes on, the broker delivers, userver handles its *)
(* requests.  Nothing restarts an instance: docker-compose.yml has no      *)
(* restart policy.                                                         *)
(***************************************************************************)
Fairness ==
    /\ \A i \in Instances : WF_vars(Consume(i))
    /\ WF_vars(\E p \in posts : Request(p))

Spec == Init /\ [][Next]_vars /\ Fairness

----------------------------------------------------------------------------
(* Type correctness. *)
TypeOK ==
    /\ solution \in [Submissions -> [state : {"new", "saved", "sent", "unsent"},
                                     result : Verdict \cup {"NULL"}, rows : Seq(Results)]]
    /\ queue \subseteq Submissions
    /\ inst \in [Instances -> [pc : {"idle", "process", "commit", "posting", "ack", "down"},
                               sub : Submissions \cup {None}, nr : Nat, report : Results \cup {<<>>},
                               connected : BOOLEAN]]
    /\ posts \subseteq [sub : Submissions, nr : Nat, report : Results, pc : {"result", "rows"}]
    /\ delivered \in [Submissions -> Nat]
    /\ excuse \in [Submissions -> SUBSET {"exception", "unreachable", "broker", "result", "rows"}]
    /\ faults \in 0..MaxFaults

(***************************************************************************)
(* Acknowledging last means that nothing gets lost unnoticed: a submission *)
(* that was sent and that no part of the system holds any more has a       *)
(* result, or was given up in one of the places that give it up.           *)
(***************************************************************************)
NothingLost ==
    \A s \in Submissions :
        /\ solution[s].state = "sent" /\ ~OnBroker(s) /\ InUserver(s) = {}
        /\ excuse[s] = {}
        => solution[s].result # "NULL" /\ solution[s].rows # <<>>

(***************************************************************************)
(* The result of a submission is the last verdict of one of its stored     *)
(* reports, once no request is under way and none failed half done, even   *)
(* when two deliveries committed different reports at the same time.       *)
(***************************************************************************)
ResultFromRows ==
    \A s \in Submissions :
        InUserver(s) = {} /\ {"result", "rows"} \cap excuse[s] = {} =>
            \/ solution[s].result = "NULL" /\ solution[s].rows = <<>>
            \/ \E k \in 1..Len(solution[s].rows) :
                  solution[s].result = FinalVerdict(solution[s].rows[k])

(* The tests of a submission are stored at most once for each time it was delivered. *)
StoredOncePerDelivery ==
    \A s \in Submissions : Len(solution[s].rows) + Cardinality(InUserver(s)) <= delivered[s]

(***************************************************************************)
(* Every submission that was sent leaves the broker and userver is done    *)
(* with it, unless the instances went down and were not brought up again.  *)
(***************************************************************************)
Consumed ==
    \A s \in Submissions :
        solution[s].state = "sent" ~> \/ ~OnBroker(s) /\ InUserver(s) = {}
                                      \/ \A i \in Instances : inst[i].pc = "down"

(***************************************************************************)
(* To the owner of a submission all of this is SubmissionLifecycle: no     *)
(* second delivery, no commit that comes late and no failed request brings *)
(* back a submission that was let go, takes a result away or shows tests   *)
(* without one.  Some part holds a submission while the broker has it, an  *)
(* instance works on it, with or without a connection, or userver handles  *)
(* a report of it.                                                         *)
(***************************************************************************)
Held(s) == OnBroker(s) \/ InUserver(s) # {} \/ \E i \in Instances : inst[i].sub = s
Phase(s) ==
    IF solution[s].state # "sent" THEN solution[s].state ELSE IF Held(s) THEN "pending" ELSE "closed"
Lifecycle == INSTANCE SubmissionLifecycle WITH
    phase <- [s \in Submissions |-> Phase(s)],
    result <- [s \in Submissions |-> solution[s].result],
    rows <- [s \in Submissions |-> solution[s].rows]
KeepsLifecycle == Lifecycle!Spec
=============================================================================
