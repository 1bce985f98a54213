---------------------------- MODULE ProcessSpec ----------------------------
(***************************************************************************)
(* What TTestingProcessor::Process promises the broker client: every       *)
(* submission ends, either with an exception and nothing committed or with *)
(* one commit of a report that stops at the first failure.                 *)
(***************************************************************************)
EXTENDS TestingReport

CONSTANT MaxEntries   \* bound: entries of a report

VARIABLES
    busy,      \* a submission is being processed
    outcome    \* of the last one: [posted, verdicts]

NoOutcome == [posted |-> FALSE, verdicts |-> <<>>]

Init == busy = FALSE /\ outcome = NoOutcome

Begin == ~busy /\ busy' = TRUE /\ outcome' = NoOutcome

End ==
    /\ busy /\ busy' = FALSE
    /\ outcome' \in {NoOutcome} \cup [posted : {TRUE}, verdicts : Reports(MaxEntries)]

Next == Begin \/ End

Spec == Init /\ [][Next]_<<busy, outcome>> /\ WF_<<busy, outcome>>(End)
=============================================================================
