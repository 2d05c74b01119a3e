----------------------------- MODULE MCCaseFile -----------------------------
(* Two runs on two files, one of which holds the sentinel, and time for the  *)
(* first case to grow old while the second is made.                          *)
EXTENDS CaseFile, TLC

CONSTANTS r1, r2

MCRuns == {r1, r2}

Symmetry == Permutations(MCRuns)
=============================================================================
