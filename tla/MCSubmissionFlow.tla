-------------------------- MODULE MCSubmissionFlow --------------------------
EXTENDS SubmissionFlow, TLC

(* Nothing, a pass, and a failure after a pass. *)
SomeReports == {<<>>, <<"OK">>, <<"OK", "WA">>}

OneReport == {<<"OK">>}

Symmetry == Permutations(Instances) \cup Permutations(Submissions)
=============================================================================
