------------------------------ MODULE Progress ------------------------------
(***************************************************************************)
(* portal.ProgressTracker (portal/progress.go): the live progress of the   *)
(* submissions in flight, one row per operator.  Several submissions of    *)
(* one operator may run at once; each publishes through its own handle,    *)
(* and the operator's page polls the row.                                  *)
(*                                                                         *)
(* `done` and `at` are what a submission has really done in its phase and  *)
(* where its storage reader really stands; the row is what is published.   *)
(***************************************************************************)
EXTENDS Integers

CONSTANTS
    Submissions,    \* submissions, each with the handle Begin gave it
    Operators,
    OperatorOf,     \* [Submissions -> Operators]
    Size,           \* bytes of an archive (and of the content scanned)
    TTL,            \* progressTTL, in ticks
    MaxClock,       \* bound on the clock
    None

ASSUME OperatorOfAssumption == OperatorOf \in [Submissions -> Operators]
ASSUME NumbersAssumption == Size \in Nat /\ TTL \in Nat /\ MaxClock \in Nat

\* The phases, and which may follow which: SubmitHandler goes through them in
\* order, skipping the scan when no scanner is wired.
Phases == {"begun", "validating", "scanning", "storing", "scoring"}
Follows == [begun |-> {"validating"}, validating |-> {"scanning", "storing"},
            scanning |-> {"storing"}, storing |-> {"scoring"}, scoring |-> {}]

Row == [gen : Nat, phase : Phases, bytes : 0 .. Size, total : Nat, last : Nat]

ASSUME NoneAssumption == None \notin Row

VARIABLES
    inflight,   \* [Operators -> Row \cup {None}]
    nextGen,
    gen,        \* [Submissions -> its handle's token, 0 before Begin]
    phase,      \* [Submissions -> the phase it is really in]
    done,       \* [Submissions -> bytes really processed in that phase]
    offset,     \* [Submissions -> countingSeeker.offset]
    active,     \* submissions between Begin and Done
    clock,
    expired     \* history: tokens of rows evicted as stale

subVars == <<gen, phase, done, offset, active>>
vars == <<inflight, nextGen, subVars, clock, expired>>

TypeOK ==
    /\ inflight \in [Operators -> Row \cup {None}]
    /\ nextGen \in Nat
    /\ gen \in [Submissions -> Nat]
    /\ phase \in [Submissions -> Phases]
    /\ done \in [Submissions -> 0 .. Size]
    /\ offset \in [Submissions -> 0 .. Size]
    /\ active \subseteq Submissions
    /\ clock \in Nat
    /\ expired \subseteq Nat

Init ==
    /\ inflight = [o \in Operators |-> None]
    /\ nextGen = 0
    /\ gen = [s \in Submissions |-> 0]
    /\ phase = [s \in Submissions |-> "begun"]
    /\ done = [s \in Submissions |-> 0]
    /\ offset = [s \in Submissions |-> 0]
    /\ active = {}
    /\ clock = 0
    /\ expired = {}

-----------------------------------------------------------------------------
Op(s) == OperatorOf[s]

\* The handle's entry is still the one Begin created for it.
FaultyMine(s) == inflight[Op(s)] # None   \* no generation token
Mine(s) == inflight[Op(s)] # None /\ inflight[Op(s)].gen = gen[s]

\* update(f): applies f to the handle's own row and refreshes its age; inert
\* without one.
Update(s, newPhase, bytes, total) ==
    inflight' = IF Mine(s)
                THEN [inflight EXCEPT ![Op(s)] =
                        [gen |-> inflight[Op(s)].gen, phase |-> newPhase,
                         bytes |-> bytes, total |-> total, last |-> clock]]
                ELSE inflight

\* Add(n) adds to the row's own count.
Add(s, n) ==
    Update(s, inflight[Op(s)].phase, inflight[Op(s)].bytes + n,
           inflight[Op(s)].total)

\* Begin: a fresh token, a fresh row in the place of any other.
Begin(s) ==
    /\ gen[s] = 0
    /\ nextGen' = nextGen + 1
    /\ gen' = [gen EXCEPT ![s] = nextGen + 1]
    /\ inflight' = [inflight EXCEPT ![Op(s)] =
                      [gen |-> nextGen + 1, phase |-> "begun", bytes |-> 0,
                       total |-> 0, last |-> clock]]
    /\ active' = active \cup {s}
    /\ UNCHANGED <<phase, done, offset, clock, expired>>

\* phaseTimer.phase and Phase(p, total): the submission moves on and says so;
\* the byte count starts over, and only the storing phase has a total.
Advance(s) ==
    /\ s \in active
    /\ \E p \in Follows[phase[s]] :
          /\ phase' = [phase EXCEPT ![s] = p]
          /\ Update(s, p, 0, IF p = "storing" THEN Size ELSE 0)
    /\ done' = [done EXCEPT ![s] = 0]
    /\ UNCHANGED <<nextGen, gen, offset, active, clock, expired>>

\* countingReader.Read under the antivirus scan.
ScanRead(s, n) ==
    /\ s \in active /\ phase[s] = "scanning" /\ done[s] + n <= Size
    /\ done' = [done EXCEPT ![s] = @ + n]
    /\ Add(s, n)
    /\ UNCHANGED <<nextGen, gen, phase, offset, active, clock, expired>>

\* countingSeeker.Read under Store.Save.
StoreRead(s, n) ==
    /\ s \in active /\ phase[s] = "storing" /\ done[s] + n <= Size
    /\ done' = [done EXCEPT ![s] = @ + n]
    /\ offset' = [offset EXCEPT ![s] = @ + n]
    /\ Add(s, n)
    /\ UNCHANGED <<nextGen, gen, phase, active, clock, expired>>

\* countingSeeker.Seek: the change of position, negative on a rewind.
Delta(s, to) == to - offset[s]

\* The storage client measures the body (Seek to its end and back) and
\* rewinds it before a retry.
StoreSeek(s, to) ==
    /\ s \in active /\ phase[s] = "storing"
    /\ done' = [done EXCEPT ![s] = to]
    /\ offset' = [offset EXCEPT ![s] = to]
    /\ Add(s, Delta(s, to))
    /\ UNCHANGED <<nextGen, gen, phase, active, clock, expired>>

\* Done: removes the row unless a later Begin took it over.
FaultyRemovable(s) == TRUE
Removable(s) == Mine(s)

Done(s) ==
    /\ s \in active
    /\ active' = active \ {s}
    /\ inflight' = IF Removable(s) THEN [inflight EXCEPT ![Op(s)] = None]
                                   ELSE inflight
    /\ UNCHANGED <<nextGen, gen, phase, done, offset, clock, expired>>

\* Get evicts a row nobody has updated for longer than progressTTL; any other
\* poll changes nothing.
Evict(o) ==
    /\ inflight[o] # None /\ clock - inflight[o].last > TTL
    /\ inflight' = [inflight EXCEPT ![o] = None]
    /\ expired' = expired \cup {inflight[o].gen}
    /\ UNCHANGED <<nextGen, subVars, clock>>

Tick ==
    /\ clock < MaxClock /\ clock' = clock + 1
    /\ UNCHANGED <<inflight, nextGen, subVars, expired>>

\* A handler killed outright (a panic) never runs its deferred Done; its row
\* is what Evict is for.  Nothing else changes, so it needs no action: the
\* submission simply takes no further step.
Next ==
    \/ \E s \in Submissions :
          \/ Begin(s) \/ Advance(s) \/ Done(s)
          \/ \E n \in 1 .. Size : ScanRead(s, n) \/ StoreRead(s, n)
          \/ \E to \in 0 .. Size : StoreSeek(s, to)
    \/ \E o \in Operators : Evict(o)
    \/ Tick

Spec == Init /\ [][Next]_vars

-----------------------------------------------------------------------------
\* s holds the newest handle of its operator.
Newest(s) ==
    gen[s] > 0 /\ \A t \in Submissions : Op(t) = Op(s) => gen[t] <= gen[s]

(***************************************************************************)
(* What an operator sees is the true state of their newest submission:     *)
(* its phase, and exactly the bytes it has processed in that phase, even   *)
(* while an older submission of theirs is still publishing and whatever    *)
(* the storage client reads again or rewinds.                              *)
(***************************************************************************)
RowIsNewestsOwn ==
    \A o \in Operators : inflight[o] # None =>
        \E s \in active :
            /\ Op(s) = o /\ Newest(s) /\ inflight[o].gen = gen[s]
            /\ inflight[o].phase = phase[s] /\ inflight[o].bytes = done[s]

(***************************************************************************)
(* The newest submission of an operator has a row from its Begin to its    *)
(* Done (an older one's Done cannot take it away), unless it was silent    *)
(* for longer than progressTTL and polled.                                 *)
(***************************************************************************)
NewestIsShown ==
    \A s \in active : Newest(s) /\ gen[s] \notin expired => Mine(s)
=============================================================================
