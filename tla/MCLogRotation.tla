--------------------------- MODULE MCLogRotation ---------------------------
(* Two processes, three days of which archives are kept for one, and three   *)
(* records: one before a rotation, one across it and one behind it.          *)
EXTENDS LogRotation, TLC

CONSTANTS p1, p2

MCLoggers == {p1, p2}

Symmetry == Permutations(MCLoggers)
=============================================================================
