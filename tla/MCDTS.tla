------------------------------- MODULE MCDTS --------------------------------
EXTENDS DTS

(* One test, two tests in a batch each. *)
SomeRequests == {<<1>>, <<2, 1>>}

(* A clean run and an error exit. *)
SomeReports == {[exitCode |-> 0, overTime |-> FALSE, overMemory |-> FALSE],
                [exitCode |-> 1, overTime |-> FALSE, overMemory |-> FALSE]}

Names == <<"first", "second">>
=============================================================================
