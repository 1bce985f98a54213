-------------------------- MODULE MCTabascoStorage --------------------------
EXTENDS TabascoStorage, TLC

(* No test, one test, two tests in a batch each. *)
SmallRequests == {<<>>, <<1>>, <<2, 1>>}

Symmetry == Permutations(Workers)
=============================================================================
