------------------------------ MODULE MCPage ------------------------------
(***************************************************************************)
(* One operator's page, sending two submissions.                           *)
(***************************************************************************)
EXTENDS Page, TLC

CONSTANTS s1, s2, p1, p2

AllTheirs == [s \in Submissions |-> User]

Alike == Permutations(Submissions) \cup Permutations(Polls)
===========================================================================
