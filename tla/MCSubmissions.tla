-------------------------- MODULE MCSubmissions --------------------------
(***************************************************************************)
(* Instances of Submissions for TLC.                                       *)
(***************************************************************************)
EXTENDS Submissions, TLC

CONSTANTS r1, r2, d1, d2, s1, s2, v1, op1, op2, f1, f2

\* A well-formed upload of operator o under filename f.
Sound(o, f) == [session |-> o, form |-> "ok", file |-> f, shape |-> "ok",
                owner |-> o, moniker |-> TRUE, content |-> "clean"]

\* Two validators, or one twice, under the same filename.
SameFile == {Sound(op1, f1)}

\* One defect at a time, in the order the handler looks for them, next to a
\* sound upload.
EachDefect ==
    LET u == Sound(op1, f1)
    IN {u,
        [u EXCEPT !.session = None],
        [u EXCEPT !.form = "unparsable"],
        [u EXCEPT !.form = "noarchive"],
        [u EXCEPT !.file = None],
        [u EXCEPT !.shape = "badarchive"],
        [u EXCEPT !.shape = "badmetadata"],
        [u EXCEPT !.owner = op2],
        [u EXCEPT !.moniker = FALSE],
        [u EXCEPT !.content = "infected"],
        [u EXCEPT !.content = "unreadable"]}

\* Uploads that may or may not share a filename.
TwoFiles == {Sound(op1, f1), Sound(op2, f2)}

Admins == Permutations(Deleters) \cup Permutations(Scorers)
RequestsAlike == Permutations(Requests)
==========================================================================
