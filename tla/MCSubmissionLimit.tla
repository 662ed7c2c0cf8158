------------------------ MODULE MCSubmissionLimit ------------------------
(***************************************************************************)
(* Four requests for two slots.                                            *)
(***************************************************************************)
EXTENDS SubmissionLimit

CONSTANTS r1, r2, r3, r4
==========================================================================
