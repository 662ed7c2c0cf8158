---------------------------- MODULE DurableMap ----------------------------
(***************************************************************************)
(* What a store kept in one rewritten file promises: a map from ids to     *)
(* values whose updates happen one key at a time and at one instant each,  *)
(* and which a power cut leaves as readers last saw it or as it was last   *)
(* made durable, never in between.                                         *)
(***************************************************************************)
CONSTANTS Ids, Values, None

VARIABLES
    seen,       \* the map a reader would get now
    durable     \* the map that survives a power cut

Map == [Ids -> Values \cup {None}]

Init == seen \in Map /\ durable = seen

\* An update of one key becomes visible.
Update == \E i \in Ids, v \in Values \cup {None} :
              seen' = [seen EXCEPT ![i] = v] /\ UNCHANGED durable

\* What is visible becomes durable.
Harden == durable' = seen /\ UNCHANGED seen

PowerCut == seen' \in {seen, durable} /\ durable' = seen'

Next == Update \/ Harden \/ PowerCut

Spec == Init /\ [][Next]_<<seen, durable>>
===========================================================================
