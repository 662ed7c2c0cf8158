-------------------------- MODULE MCScoresFile --------------------------
(***************************************************************************)
(* Two goroutines over two ids; one value and its absence.                             *)
(***************************************************************************)
EXTENDS ScoresFile, TLC

CONSTANTS p1, p2, i1, i2, a

Alike == Permutations(Procs) \cup Permutations(Ids)
==========================================================================
