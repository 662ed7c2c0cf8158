----------------------- MODULE SubmissionLimitProofs -----------------------
(***************************************************************************)
(* For any number of requests, slots and any waits: LimitSubmissions       *)
(* accounts for its slots, leaves none idle while a request waits, and     *)
(* costs nobody a session that had the whole wait left.                    *)
(***************************************************************************)
EXTENDS SubmissionLimit, FiniteSetTheorems, TLAPS

\* The channel's length is the number of requests inside the handler.
SlotInv == IsFiniteSet(Running) /\ sem = Cardinality(Running)

\* The send queue holds exactly the requests that wait, each once: one that
\* timed out or went away can no longer be handed a slot.
QueueInv ==
    /\ \A i \in 1 .. Len(queue) : state[queue[i]] = "queued"
    /\ \A i, j \in 1 .. Len(queue) : queue[i] = queue[j] => i = j
    /\ \A r \in Requests :
          state[r] = "queued" => \E i \in 1 .. Len(queue) : queue[i] = r

\* Nobody waits past their timer, or is given a slot after it.
TimerInv ==
    \A r \in Requests : state[r] \in {"queued", "admitted"} => clock <= deadline[r]

LInv == /\ TypeOK /\ SlotInv /\ QueueInv /\ NoIdleSlot /\ TimerInv
        /\ LongSessionsAreAccepted

-----------------------------------------------------------------------------
LEMMA InitLInv == Init => LInv
<1> SUFFICES ASSUME Init PROVE LInv
    OBVIOUS
<1> USE DEF Init
<1>1. TypeOK
    BY NumbersAssumption DEF TypeOK
<1>2. SlotInv
  <2>1. Running = {}
      BY DEF Running
  <2> QED
      BY <2>1, FS_EmptySet DEF SlotInv
<1>3. QueueInv
    BY DEF QueueInv
<1>4. NoIdleSlot /\ TimerInv /\ LongSessionsAreAccepted
    BY DEF NoIdleSlot, Queued, TimerInv, LongSessionsAreAccepted, Outcomes
<1> QED
    BY <1>1, <1>2, <1>3, <1>4 DEF LInv

\* A request that finds a slot free takes it.
LEMMA EnterLInv ==
    ASSUME LInv, NEW r \in Requests, NEW t \in 0 .. MaxClock, Enter(r, t)
    PROVE  LInv'
<1> USE DEF LInv, Enter, Arrive, SlotFree
<1>1. TypeOK'
    BY NumbersAssumption DEF TypeOK
<1>2. SlotInv'
  <2>1. Running' = Running \cup {r} /\ r \notin Running
      BY DEF Running, TypeOK
  <2> QED
      BY <2>1, FS_AddElement DEF SlotInv
<1>3. QueueInv'
  <2>1. \A q \in Requests : state'[q] = "queued" <=> state[q] = "queued"
      BY DEF TypeOK
  <2>2. queue' = queue /\ \A i \in 1 .. Len(queue) : queue[i] \in Requests
      BY DEF TypeOK
  <2> QED
      BY <2>1, <2>2 DEF QueueInv
<1>4. Queued = {}
    BY NumbersAssumption DEF NoIdleSlot, TypeOK
<1>5. NoIdleSlot'
    BY <1>4 DEF NoIdleSlot, Queued, TypeOK
<1>6. TimerInv' /\ LongSessionsAreAccepted'
    BY NumbersAssumption DEF TimerInv, LongSessionsAreAccepted, TypeOK
<1> QED
    BY <1>1, <1>2, <1>3, <1>5, <1>6

\* A request that finds none joins the queue.
LEMMA EnqueueLInv ==
    ASSUME LInv, NEW r \in Requests, NEW t \in 0 .. MaxClock, Enqueue(r, t)
    PROVE  LInv'
<1> USE DEF LInv, Enqueue, Arrive, SlotFree
<1>1. TypeOK'
    BY NumbersAssumption DEF TypeOK
<1>2. SlotInv'
  <2>1. Running' = Running
      BY DEF Running, TypeOK
  <2> QED
      BY <2>1 DEF SlotInv
<1>3. QueueInv'
  <2>1. /\ Len(queue') = Len(queue) + 1 /\ Len(queue) \in Nat
        /\ queue'[Len(queue) + 1] = r
        /\ \A i \in 1 .. Len(queue) : queue'[i] = queue[i] /\ queue[i] \in Requests
      BY DEF TypeOK
  <2>2. \A i \in 1 .. Len(queue) : queue[i] # r
      BY DEF QueueInv
  <2>3. state'[r] = "queued" /\ \A q \in Requests : q # r => state'[q] = state[q]
      BY DEF TypeOK
  <2>4. \A i \in 1 .. Len(queue') : i \in 1 .. Len(queue) \/ i = Len(queue) + 1
      BY <2>1
  <2>5. \A i \in 1 .. Len(queue') : state'[queue'[i]] = "queued"
      BY <2>1, <2>2, <2>3, <2>4 DEF QueueInv
  <2>6. \A i, j \in 1 .. Len(queue') : queue'[i] = queue'[j] => i = j
      BY <2>1, <2>2, <2>4 DEF QueueInv
  <2>7. \A q \in Requests :
            state'[q] = "queued" => \E i \in 1 .. Len(queue') : queue'[i] = q
      BY <2>1, <2>3 DEF QueueInv
  <2> QED
      BY <2>5, <2>6, <2>7 DEF QueueInv
<1>4. NoIdleSlot'
    BY NumbersAssumption DEF NoIdleSlot, TypeOK
<1>5. TimerInv' /\ LongSessionsAreAccepted'
    BY NumbersAssumption DEF TimerInv, LongSessionsAreAccepted, TypeOK
<1> QED
    BY <1>1, <1>2, <1>3, <1>4, <1>5

\* A request leaves the handler with an outcome, and its slot goes to the head
\* of the queue or back to the channel.
LEMMA ReleaseLInv ==
    ASSUME LInv, NEW r \in Running, NEW out \in {"finished", "unauthorized"},
           Release([state EXCEPT ![r] = out]), UNCHANGED <<deadline, issued, clock>>,
           out = "unauthorized" => issued[r] + SessionTTL < deadline[r]
    PROVE  LInv'
<1> USE DEF LInv
<1>1. r \in Requests /\ state[r] \in {"admitted", "running"} /\ sem \in Nat
    BY DEF Running, TypeOK
<1>2. sem >= 1
  <2>1. Running # {}
      OBVIOUS
  <2> QED
      BY <1>1, <2>1, FS_EmptySet DEF SlotInv
<1>3. CASE queue = <<>>
  <2>1. /\ sem' = sem - 1 /\ queue' = queue
        /\ state' = [state EXCEPT ![r] = out]
      BY <1>3 DEF Release
  <2>2. TypeOK'
    <3>1. sem' \in 0 .. N
        BY <1>1, <1>2, <2>1, NumbersAssumption DEF TypeOK
    <3>2. state' \in [Requests ->
              {"new", "queued", "admitted", "running"} \cup Outcomes]
        BY <1>1, <2>1 DEF TypeOK, Outcomes
    <3> QED
        BY <2>1, <3>1, <3>2 DEF TypeOK
  <2>3. Running' = Running \ {r}
      BY <1>1, <2>1 DEF Running, TypeOK
  <2>4. SlotInv'
      BY <2>1, <2>3, FS_RemoveElement DEF SlotInv
  <2>5. \A q \in Requests : state'[q] # "queued" /\ state[q] # "queued"
      BY <1>1, <1>3, <2>1 DEF QueueInv, TypeOK
  <2>6. QueueInv' /\ NoIdleSlot'
      BY <1>3, <2>1, <2>5 DEF QueueInv, NoIdleSlot, Queued
  <2>7. TimerInv' /\ LongSessionsAreAccepted'
      BY <1>1, <2>1 DEF TimerInv, LongSessionsAreAccepted, TypeOK
  <2> QED
      BY <2>2, <2>4, <2>6, <2>7
<1>4. CASE queue # <<>>
  <2> DEFINE h == Head(queue)
  <2>1. /\ sem' = sem /\ queue' = Tail(queue)
        /\ state' = [[state EXCEPT ![r] = out] EXCEPT ![h] = "admitted"]
      BY <1>4 DEF Release
  <2>2. /\ Len(queue) \in Nat /\ Len(queue) >= 1 /\ h = queue[1]
        /\ Len(queue') = Len(queue) - 1
        /\ \A i \in 1 .. Len(queue') : queue'[i] = queue[i + 1]
        /\ \A i \in 1 .. Len(queue) : queue[i] \in Requests
        /\ queue' \in Seq(Requests)
      BY <1>4, <2>1 DEF TypeOK
  <2>3. h \in Requests /\ state[h] = "queued" /\ h # r
      BY <1>1, <2>2 DEF QueueInv
  <2>4. /\ state'[h] = "admitted" /\ state'[r] = out
        /\ \A q \in Requests : q # h /\ q # r => state'[q] = state[q]
      BY <1>1, <2>1, <2>3 DEF TypeOK
  <2>5. TypeOK'
      BY <1>1, <2>1, <2>2, <2>3 DEF TypeOK, Outcomes
  <2>6. SlotInv'
    <3>1. Running' = (Running \ {r}) \cup {h}
        BY <1>1, <2>3, <2>4 DEF Running
    <3>2. h \notin Running
        BY <2>3 DEF Running
    <3>3. IsFiniteSet(Running \ {r}) /\ Cardinality(Running \ {r}) = sem - 1
        BY FS_RemoveElement DEF SlotInv
    <3>4. IsFiniteSet(Running') /\ Cardinality(Running') = (sem - 1) + 1
        BY <3>1, <3>2, <3>3, FS_AddElement
    <3> QED
        BY <1>1, <2>1, <3>4 DEF SlotInv
  <2>7. QueueInv'
    <3>1. \A i \in 1 .. Len(queue') : i + 1 \in 1 .. Len(queue) /\ i + 1 # 1
        BY <2>2
    <3>2. ASSUME NEW i \in 1 .. Len(queue')
          PROVE  queue'[i] # h /\ queue'[i] # r
      <4>1. i + 1 \in 1 .. Len(queue) /\ i + 1 # 1 /\ 1 \in 1 .. Len(queue)
          BY <2>2, <3>1
      <4>2. queue[i + 1] # queue[1] /\ state[queue[i + 1]] = "queued"
          BY <4>1 DEF QueueInv
      <4> QED
          BY <1>1, <2>2, <4>2
    <3>3. \A i \in 1 .. Len(queue') : state'[queue'[i]] = "queued"
        BY <2>2, <2>4, <3>1, <3>2 DEF QueueInv
    <3>4. ASSUME NEW i \in 1 .. Len(queue'), NEW j \in 1 .. Len(queue'),
                 queue'[i] = queue'[j]
          PROVE  i = j
      <4>1. queue[i + 1] = queue[j + 1]
          BY <2>2, <3>4
      <4>2. i + 1 \in 1 .. Len(queue) /\ j + 1 \in 1 .. Len(queue)
          BY <3>1
      <4>3. i + 1 = j + 1
          BY <4>1, <4>2 DEF QueueInv
      <4>4. i \in Nat /\ j \in Nat
          BY <2>2
      <4> QED
          BY <4>3, <4>4
    <3>5. ASSUME NEW q \in Requests, state'[q] = "queued"
          PROVE  \E i \in 1 .. Len(queue') : queue'[i] = q
      <4>1. q # h /\ state[q] = "queued"
          BY <2>4, <3>5
      <4>2. PICK i \in 1 .. Len(queue) : queue[i] = q
          BY <4>1 DEF QueueInv
      <4>3. i - 1 \in 1 .. Len(queue') /\ (i - 1) + 1 = i
          BY <2>2, <4>1, <4>2
      <4> QED
          BY <2>2, <4>2, <4>3
    <3> QED
        BY <3>3, <3>4, <3>5 DEF QueueInv
  <2>8. NoIdleSlot'
      BY <2>1, <2>3 DEF NoIdleSlot, Queued
  <2>9. TimerInv' /\ LongSessionsAreAccepted'
      BY <1>1, <2>3, <2>4 DEF TimerInv, LongSessionsAreAccepted
  <2> QED
      BY <2>5, <2>6, <2>7, <2>8, <2>9
<1> QED
    BY <1>3, <1>4

LEMMA AuthenticateLInv ==
    ASSUME LInv, NEW r \in Requests, Authenticate(r) PROVE LInv'
<1> USE DEF LInv, Authenticate
<1>1. r \in Running
    BY DEF Running
<1>2. CASE SessionValid(r)
  <2>1. state' = [state EXCEPT ![r] = "running"] /\ UNCHANGED <<queue, sem, deadline, issued, clock>>
      BY <1>2
  <2>2. Running' = Running
      BY <2>1 DEF Running, TypeOK
  <2>3. TypeOK'
      BY <2>1 DEF TypeOK
  <2>4. SlotInv'
      BY <2>1, <2>2 DEF SlotInv
  <2>5. \A q \in Requests : state'[q] = "queued" <=> state[q] = "queued"
      BY <2>1 DEF TypeOK
  <2>6. QueueInv'
      BY <2>1, <2>5 DEF QueueInv, TypeOK
  <2>7. NoIdleSlot' /\ TimerInv' /\ LongSessionsAreAccepted'
      BY <2>1, <2>5 DEF NoIdleSlot, Queued, TimerInv, LongSessionsAreAccepted, TypeOK
  <2> QED
      BY <2>3, <2>4, <2>6, <2>7
<1>3. CASE ~SessionValid(r)
  <2>1. issued[r] + SessionTTL < deadline[r]
      BY <1>3, NumbersAssumption DEF SessionValid, TimerInv, TypeOK
  <2> QED
      BY <1>1, <1>3, <2>1, ReleaseLInv
<1> QED
    BY <1>2, <1>3

\* The timer or the client ends a wait: the goroutine leaves the queue, which
\* keeps the others in their order.
LEMMA LeaveLInv ==
    ASSUME LInv, NEW r \in Requests, NEW out \in {"busy", "abandoned"},
           state[r] = "queued", state' = [state EXCEPT ![r] = out],
           queue' = Dequeued(r), UNCHANGED <<sem, deadline, issued, clock>>
    PROVE  LInv'
<1> USE DEF LInv
<1> DEFINE k == CHOOSE i \in DOMAIN queue : queue[i] = r
           n == Len(queue)
<1>1. n \in Nat /\ DOMAIN queue = 1 .. n /\ \A i \in 1 .. n : queue[i] \in Requests
    BY DEF TypeOK
<1>2. k \in 1 .. n /\ queue[k] = r
  <2>1. \E i \in DOMAIN queue : queue[i] = r
      BY <1>1 DEF QueueInv
  <2> QED
      BY <1>1, <2>1
<1> DEFINE From(i) == IF i < k THEN i ELSE i + 1
<1>3. queue' = [i \in 1 .. n - 1 |-> queue[From(i)]]
    BY DEF Dequeued
<1> HIDE DEF k
<1>4. \A i \in 1 .. n - 1 : From(i) \in 1 .. n /\ From(i) # k
    BY <1>1, <1>2
<1>5. queue' \in Seq(Requests) /\ Len(queue') = n - 1
  <2>1. n - 1 \in Nat
      BY <1>1, <1>2
  <2>2. \A i \in 1 .. n - 1 : queue[From(i)] \in Requests
      BY <1>1, <1>4
  <2> HIDE DEF From, n
  <2> QED
      BY <1>3, <2>1, <2>2
<1>6. \A i \in 1 .. n - 1 : queue'[i] = queue[From(i)]
    BY <1>3
<1>7. \A q \in Requests : q # r => state'[q] = state[q]
    BY DEF TypeOK
<1>8. state'[r] = out
    BY DEF TypeOK
<1>9. TypeOK'
    BY <1>5 DEF TypeOK, Outcomes
<1>10. SlotInv'
  <2>1. Running' = Running
      BY <1>7, <1>8 DEF Running
  <2> QED
      BY <2>1 DEF SlotInv
<1>11. QueueInv'
  <2>1. \A i \in 1 .. n - 1 : queue'[i] # r
      BY <1>1, <1>2, <1>4, <1>6 DEF QueueInv
  <2>2. \A i \in 1 .. n - 1 : state'[queue'[i]] = "queued"
      BY <1>1, <1>4, <1>6, <1>7, <2>1 DEF QueueInv
  <2>3. ASSUME NEW i \in 1 .. n - 1, NEW j \in 1 .. n - 1, queue'[i] = queue'[j]
        PROVE  i = j
    <3>1. From(i) = From(j)
        BY <1>4, <1>6, <2>3 DEF QueueInv
    <3> QED
        BY <1>1, <1>2, <3>1
  <2>4. ASSUME NEW q \in Requests, state'[q] = "queued"
        PROVE  \E i \in 1 .. n - 1 : queue'[i] = q
    <3>1. q # r /\ state[q] = "queued"
        BY <1>7, <1>8, <2>4
    <3>2. PICK j \in 1 .. n : queue[j] = q
        BY <3>1 DEF QueueInv
    <3>3. j # k
        BY <1>2, <3>1, <3>2
    <3>4. CASE j < k
      <4>1. j \in 1 .. n - 1 /\ From(j) = j
          BY <1>1, <1>2, <3>4
      <4> QED
          BY <1>6, <3>2, <4>1
    <3>5. CASE j > k
      <4>1. j - 1 \in 1 .. n - 1 /\ From(j - 1) = j
          BY <1>1, <1>2, <3>5
      <4> QED
          BY <1>6, <3>2, <4>1
    <3> QED
        BY <1>1, <1>2, <3>3, <3>4, <3>5
  <2> QED
      BY <1>5, <2>2, <2>3, <2>4 DEF QueueInv
<1>12. NoIdleSlot' /\ TimerInv' /\ LongSessionsAreAccepted'
    BY <1>7, <1>8 DEF NoIdleSlot, Queued, TimerInv, LongSessionsAreAccepted
<1> QED
    BY <1>9, <1>10, <1>11, <1>12

LEMMA NextLInv == LInv /\ [Next]_vars => LInv'
<1> SUFFICES ASSUME LInv, [Next]_vars PROVE LInv'
    OBVIOUS
<1>1. ASSUME NEW r \in Requests, Finish(r) PROVE LInv'
  <2>1. r \in Running
      BY <1>1 DEF Finish, Running
  <2> QED
      BY <1>1, <2>1, ReleaseLInv DEF Finish
<1>2. ASSUME NEW r \in Requests, TimeOut(r) \/ Abandon(r) PROVE LInv'
    BY <1>2, LeaveLInv DEF TimeOut, Abandon
<1>3. CASE Tick
  <2>1. TypeOK'
      BY <1>3 DEF LInv, Tick, TypeOK
  <2>2. TimerInv'
      BY <1>3 DEF LInv, Tick, TypeOK, TimerInv
  <2>3. SlotInv' /\ QueueInv' /\ NoIdleSlot' /\ LongSessionsAreAccepted'
      BY <1>3 DEF LInv, Tick, SlotInv, Running, QueueInv, NoIdleSlot, Queued,
         LongSessionsAreAccepted
  <2> QED
      BY <2>1, <2>2, <2>3 DEF LInv
<1>4. CASE UNCHANGED vars
    BY <1>4 DEF vars, LInv, TypeOK, SlotInv, Running, QueueInv, NoIdleSlot, Queued,
       TimerInv, LongSessionsAreAccepted
<1> QED
    BY <1>1, <1>2, <1>3, <1>4, EnterLInv, EnqueueLInv, AuthenticateLInv DEF Next

LEMMA LimitInvariance == Spec => []LInv
    BY InitLInv, NextLInv, PTL DEF Spec

-----------------------------------------------------------------------------
\* The slots taken are those of the requests inside the handler, at most N:
\* no outcome, timeout or client that went away leaks one.
THEOREM SlotsNeverLeak == Spec => []SlotsAccountedFor
<1>1. LInv => SlotsAccountedFor
    BY NumbersAssumption DEF LInv, SlotInv, TypeOK, SlotsAccountedFor
<1> QED
    BY LimitInvariance, <1>1, PTL

\* A request waits only while every slot is taken.
THEOREM NoSlotIdles == Spec => []NoIdleSlot
<1>1. LInv => NoIdleSlot
    BY DEF LInv
<1> QED
    BY LimitInvariance, <1>1, PTL

\* The session check after the wait turns away only sessions that had less
\* left than the wait.
THEOREM WaitCostsNoLongSession == Spec => []LongSessionsAreAccepted
<1>1. LInv => LongSessionsAreAccepted
    BY DEF LInv
<1> QED
    BY LimitInvariance, <1>1, PTL
=============================================================================
