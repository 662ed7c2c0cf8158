-------------------------- MODULE SubmissionLimit --------------------------
(***************************************************************************)
(* portal.LimitSubmissions (portal/limit.go) in front of the submit        *)
(* handler: a buffered channel of N slots, a wait bounded by a timer, and  *)
(* the session check the handler begins with once it has its slot.         *)
(*                                                                         *)
(* The channel is Go's: a send that cannot proceed queues its goroutine,   *)
(* and a receive that frees a place hands it to the goroutine queued       *)
(* longest.  `sem` is the channel's length, kept apart from the set of     *)
(* requests inside the handler so that a leaked slot would show.           *)
(***************************************************************************)
EXTENDS Naturals, FiniteSets, Sequences

CONSTANTS
    Requests,
    N,              \* -max-concurrent-submissions, positive
    Wait,           \* -submission-queue-wait, in ticks
    SessionTTL,     \* -session-ttl, in ticks
    MaxClock        \* bound on the clock

ASSUME NumbersAssumption ==
    N \in Nat \ {0} /\ Wait \in Nat \ {0} /\ SessionTTL \in Nat /\ MaxClock \in Nat

VARIABLES
    state,      \* [Requests -> "new", "queued", "admitted" (given a slot),
                \*  "running" (past the session check) or an outcome]
    queue,      \* goroutines blocked in the send, oldest first
    sem,        \* len(sem): slots taken
    deadline,   \* [Requests -> when its timer fires]
    issued,     \* [Requests -> when its session was issued]
    clock

vars == <<state, queue, sem, deadline, issued, clock>>

Outcomes == {"finished", "busy", "unauthorized", "abandoned"}

TypeOK ==
    /\ state \in [Requests -> {"new", "queued", "admitted", "running"} \cup Outcomes]
    /\ queue \in Seq(Requests)
    /\ sem \in 0 .. N
    /\ deadline \in [Requests -> Nat]
    /\ issued \in [Requests -> Nat]
    /\ clock \in Nat

Init ==
    /\ state = [r \in Requests |-> "new"]
    /\ queue = <<>>
    /\ sem = 0
    /\ deadline = [r \in Requests |-> 0]
    /\ issued = [r \in Requests |-> 0]
    /\ clock = 0

-----------------------------------------------------------------------------
SlotFree == sem < N

\* SessionSigner.Verify: valid until its expiry, inclusive.
FaultySessionValid(r) == clock < issued[r] + SessionTTL
SessionValid(r) == clock <= issued[r] + SessionTTL

\* A request arrives, with a session issued at t, and starts its timer.
\* (Arrivals stop early enough for every timer to fire within MaxClock.)
Arrive(r, t) ==
    /\ state[r] = "new" /\ t <= clock /\ clock + Wait <= MaxClock
    /\ issued' = [issued EXCEPT ![r] = t]
    /\ deadline' = [deadline EXCEPT ![r] = clock + Wait]
    /\ UNCHANGED clock

\* The select finds a slot free and takes it at once...
Enter(r, t) ==
    /\ Arrive(r, t) /\ SlotFree
    /\ sem' = sem + 1
    /\ state' = [state EXCEPT ![r] = "admitted"]
    /\ UNCHANGED queue

\* ... or blocks.
Enqueue(r, t) ==
    /\ Arrive(r, t) /\ ~SlotFree
    /\ queue' = Append(queue, r)
    /\ state' = [state EXCEPT ![r] = "queued"]
    /\ UNCHANGED sem

\* The deferred receive, which runs whatever the handler's outcome: a place in
\* the channel is free again, and a blocked send takes it in the same instant.
FaultyLeak(states) == state' = states /\ UNCHANGED <<queue, sem>>
FaultyNoHandover(states) == state' = states /\ sem' = sem - 1 /\ UNCHANGED queue
Release(states) ==
    \/ /\ queue = <<>> /\ sem' = sem - 1
       /\ state' = states /\ UNCHANGED queue
    \/ /\ queue # <<>> /\ queue' = Tail(queue)
       /\ state' = [states EXCEPT ![Head(queue)] = "admitted"]
       /\ UNCHANGED sem

\* The handler's first act, with the slot and not before: RequireSession.
Authenticate(r) ==
    /\ state[r] = "admitted"
    /\ \/ /\ SessionValid(r)
          /\ state' = [state EXCEPT ![r] = "running"] /\ UNCHANGED <<queue, sem>>
       \/ /\ ~SessionValid(r)
          /\ Release([state EXCEPT ![r] = "unauthorized"])
    /\ UNCHANGED <<deadline, issued, clock>>

\* The handler returns.
Finish(r) ==
    /\ state[r] = "running"
    /\ Release([state EXCEPT ![r] = "finished"])
    /\ UNCHANGED <<deadline, issued, clock>>

\* A goroutine woken by another case of the select leaves the send queue.
Dequeued(r) ==
    LET k == CHOOSE i \in DOMAIN queue : queue[i] = r
    IN [i \in 1 .. Len(queue) - 1 |-> queue[IF i < k THEN i ELSE i + 1]]

FaultyDue(r) == FALSE   \* a select without the timer
Due(r) == clock >= deadline[r]

\* The timer: 503 with Retry-After.
TimeOut(r) ==
    /\ state[r] = "queued" /\ Due(r)
    /\ state' = [state EXCEPT ![r] = "busy"]
    /\ queue' = Dequeued(r)
    /\ UNCHANGED <<sem, deadline, issued, clock>>

\* The client gives up while queued: r.Context() is done.
Abandon(r) ==
    /\ state[r] = "queued"
    /\ state' = [state EXCEPT ![r] = "abandoned"]
    /\ queue' = Dequeued(r)
    /\ UNCHANGED <<sem, deadline, issued, clock>>

\* A timer that is due, and a session check about to run, are served before
\* the clock moves on.
Tick ==
    /\ clock < MaxClock
    /\ \A r \in Requests : state[r] # "admitted"
    /\ \A r \in Requests : state[r] = "queued" => clock < deadline[r]
    /\ clock' = clock + 1
    /\ UNCHANGED <<state, queue, sem, deadline, issued>>

Next ==
    \/ \E r \in Requests :
          \/ \E t \in 0 .. MaxClock : Enter(r, t) \/ Enqueue(r, t)
          \/ Authenticate(r) \/ Finish(r) \/ TimeOut(r) \/ Abandon(r)
    \/ Tick

Spec == Init /\ [][Next]_vars

\* Timers fire and goroutines run; nothing is assumed of how long a handler
\* keeps its slot.
Fairness ==
    /\ \A r \in Requests : WF_vars(Authenticate(r)) /\ WF_vars(TimeOut(r))
    /\ WF_vars(Tick)

FairSpec == Spec /\ Fairness
-----------------------------------------------------------------------------
Running == {r \in Requests : state[r] \in {"admitted", "running"}}
Queued == {r \in Requests : state[r] = "queued"}

(***************************************************************************)
(* Never more than N submissions are processed at once, and every slot     *)
(* taken belongs to one of them: no outcome leaks a slot (limit.go: "no    *)
(* slot was ever taken").                                                  *)
(***************************************************************************)
SlotsAccountedFor == sem = Cardinality(Running) /\ Cardinality(Running) <= N

(***************************************************************************)
(* Nobody waits while a slot is free, so a 503 is only ever given after N  *)
(* other submissions held all the slots for the whole of the wait.         *)
(***************************************************************************)
NoIdleSlot == Queued # {} => sem = N

(***************************************************************************)
(* No request waits for ever, however long those with the slots take: it   *)
(* gets a slot, a 503 or has gone away.                                    *)
(***************************************************************************)
WaitEnds == \A r \in Requests : state[r] = "queued" ~> state[r] # "queued"

(***************************************************************************)
(* The wait for a slot costs no one their login but those whose session    *)
(* had less left than the wait: the handler checks it only once it has its *)
(* slot (submit.go), so a session that was valid on arrival may no longer  *)
(* be, and one with the whole wait left always is.                         *)
(***************************************************************************)
LongSessionsAreAccepted ==
    \A r \in Requests :
        state[r] = "unauthorized" => issued[r] + SessionTTL < deadline[r]
=============================================================================
