------------------------ MODULE SubmissionLifecycle -------------------------
(***************************************************************************)
(* What the owner of a submission may rely on, whatever the broker and the *)
(* testing processors do: a result appears only after the submission was   *)
(* sent and never goes away, tests appear only beside a result, and once   *)
(* the system has let go of a submission nothing of it changes any more.   *)
(***************************************************************************)
EXTENDS TestingReport

CONSTANTS
    Submissions,
    Results      \* the reports a submission may be given

VARIABLES
    phase,    \* "new", "saved", "unsent", "pending" while some part holds it, "closed"
    result,   \* solutions.result
    rows      \* the reports stored in test_results

vars == <<phase, result, rows>>

Init ==
    /\ phase = [s \in Submissions |-> "new"]
    /\ result = [s \in Submissions |-> "NULL"]
    /\ rows = [s \in Submissions |-> <<>>]

Move(S, from, to) ==
    /\ \A s \in S : phase[s] = from
    /\ phase' = [s \in Submissions |-> IF s \in S THEN to ELSE phase[s]]

Save(s) == Move({s}, "new", "saved") /\ UNCHANGED <<result, rows>>

Send(s) == Move({s}, "saved", "pending") /\ UNCHANGED <<result, rows>>

GiveUp(s) == Move({s}, "saved", "unsent") /\ UNCHANGED <<result, rows>>

SetResult(s) ==
    /\ phase[s] = "pending"
    /\ \E v \in Verdict : result' = [result EXCEPT ![s] = v]
    /\ UNCHANGED <<phase, rows>>

(* Storing the tests may be the last thing that is done with the submission. *)
AddRows(s) ==
    /\ result[s] # "NULL"
    /\ \E r \in Results : rows' = [rows EXCEPT ![s] = Append(@, r)]
    /\ \E after \in {"pending", "closed"} : Move({s}, "pending", after)
    /\ UNCHANGED result

(* One step, the death of the broker or of userver, may end several. *)
Close(S) == S # {} /\ Move(S, "pending", "closed") /\ UNCHANGED <<result, rows>>

Next ==
    \/ \E s \in Submissions : Save(s) \/ Send(s) \/ GiveUp(s) \/ SetResult(s) \/ AddRows(s)
    \/ \E S \in SUBSET Submissions : Close(S)

Spec == Init /\ [][Next]_vars
=============================================================================
