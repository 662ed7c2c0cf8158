----------------------------- MODULE MCRescore -----------------------------
(***************************************************************************)
(* Instances of Rescore for TLC.                                           *)
(***************************************************************************)
EXTENDS Rescore, TLC

CONSTANTS i1, i2, f1, f2, h1

\* One filename for both submissions, or one each: the other two ways to name
\* them differ from these only by renaming ids and files.
SharedOrNot == {i1 :> f1 @@ i2 :> f1, i1 :> f1 @@ i2 :> f2}
============================================================================
