--------------------------- MODULE MCUpdateCheck ---------------------------
(* Two overlapping invocations, one release after the installed one, and time *)
(* for a check to expire once and be repeated.                               *)
EXTENDS UpdateCheck, TLC

CONSTANTS p1, p2

MCProcs == {p1, p2}

Symmetry == Permutations(MCProcs)
=============================================================================
