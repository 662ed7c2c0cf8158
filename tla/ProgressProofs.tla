--------------------------- MODULE ProgressProofs ---------------------------
(***************************************************************************)
(* The progress row tells the truth about the newest submission, for any   *)
(* number of submissions, operators, sizes and ages; and so does the page  *)
(* that polls it.                                                          *)
(***************************************************************************)
EXTENDS Page, TLAPS

(***************************************************************************)
(* The inductive invariant of the tracker: tokens are unique and increase, *)
(* and the storage reader stands where the byte count says.                *)
(***************************************************************************)
GenInv ==
    /\ \A s \in Submissions : gen[s] <= nextGen
    /\ \A s, t \in Submissions : gen[s] = gen[t] /\ gen[s] > 0 => s = t
    /\ \A s \in active : gen[s] > 0
    /\ \A g \in expired : g <= nextGen

OffsetInv ==
    \A s \in Submissions :
        /\ phase[s] \in {"begun", "validating", "scanning"} => offset[s] = 0
        /\ phase[s] = "storing" => offset[s] = done[s]

\* A submission that has not begun has done nothing.
FreshInv ==
    \A s \in Submissions : gen[s] = 0 => phase[s] = "begun" /\ done[s] = 0

TInv == TypeOK /\ GenInv /\ OffsetInv /\ FreshInv /\ RowIsNewestsOwn /\ NewestIsShown

\* What a row says while its submission is at work.
LEMMA RowFacts ==
    ASSUME TInv, NEW s \in active, Mine(s)
    PROVE  /\ inflight[Op(s)] \in Row /\ Op(s) \in Operators
           /\ Newest(s) /\ inflight[Op(s)].phase = phase[s]
           /\ inflight[Op(s)].bytes = done[s]
<1>1. s \in Submissions /\ Op(s) \in Operators /\ inflight[Op(s)] \in Row
    BY OperatorOfAssumption DEF TInv, TypeOK, Op, Mine
<1>2. PICK t \in active : /\ Op(t) = Op(s) /\ Newest(t)
                          /\ inflight[Op(s)].gen = gen[t]
                          /\ inflight[Op(s)].phase = phase[t]
                          /\ inflight[Op(s)].bytes = done[t]
    BY <1>1 DEF TInv, RowIsNewestsOwn, Mine
<1>3. t = s
    BY <1>1, <1>2 DEF TInv, TypeOK, GenInv, Mine
<1> QED
    BY <1>1, <1>2, <1>3

\* A step that publishes bytes keeps the invariant, if it publishes what the
\* submission has done.
LEMMA PublishTInv ==
    ASSUME TInv, NEW s \in active, NEW p \in Phases, NEW b \in 0 .. Size,
           NEW tot \in Nat, Update(s, p, b, tot),
           phase' = [phase EXCEPT ![s] = p], done' = [done EXCEPT ![s] = b],
           offset' \in [Submissions -> 0 .. Size], OffsetInv',
           UNCHANGED <<nextGen, gen, active, clock, expired>>
    PROVE  TInv'
<1>0. s \in Submissions /\ Op(s) \in Operators
    BY OperatorOfAssumption DEF TInv, TypeOK, Op
<1>1. TypeOK'
  <2>1. Mine(s) => [gen |-> inflight[Op(s)].gen, phase |-> p, bytes |-> b,
                    total |-> tot, last |-> clock] \in Row
      BY <1>0, RowFacts DEF TInv, TypeOK, Row
  <2>2. inflight' \in [Operators -> Row \cup {None}]
      BY <1>0, <2>1 DEF TInv, TypeOK, Update
  <2> QED
      BY <1>0, <2>2 DEF TInv, TypeOK
<1>2. GenInv' /\ FreshInv'
    BY <1>0 DEF TInv, TypeOK, GenInv, FreshInv
<1>3. \A t \in Submissions : Newest(t)' <=> Newest(t)
    BY DEF Newest, Op
<1>4. \A o \in Operators : o # Op(s) => inflight'[o] = inflight[o]
    BY <1>0 DEF TInv, TypeOK, Update
<1>5. CASE ~Mine(s)
  <2>1. inflight' = inflight
      BY <1>5 DEF Update
  <2>2. \A t \in active : Mine(t) => t # s
      BY <1>5
  <2>3. RowIsNewestsOwn'
    <3> SUFFICES ASSUME NEW o \in Operators, inflight[o] # None
                 PROVE  \E t \in active :
                            /\ Op(t) = o /\ Newest(t) /\ inflight[o].gen = gen[t]
                            /\ inflight[o].phase = phase'[t] /\ inflight[o].bytes = done'[t]
        BY <2>1, <1>3 DEF TInv, TypeOK, RowIsNewestsOwn, Op
    <3>1. PICK t \in active : /\ Op(t) = o /\ Newest(t) /\ inflight[o].gen = gen[t]
                              /\ inflight[o].phase = phase[t] /\ inflight[o].bytes = done[t]
        BY DEF TInv, RowIsNewestsOwn
    <3>2. t # s
        BY <3>1, <1>5 DEF Mine
    <3> QED
        BY <3>1, <3>2, <1>0 DEF TInv, TypeOK
  <2>4. NewestIsShown'
      BY <2>1, <1>3 DEF TInv, TypeOK, NewestIsShown, Mine, Op
  <2> QED
      BY <1>1, <1>2, <2>3, <2>4 DEF TInv
<1>6. CASE Mine(s)
  <2>1. inflight'[Op(s)] = [gen |-> inflight[Op(s)].gen, phase |-> p, bytes |-> b,
                            total |-> tot, last |-> clock]
      BY <1>0, <1>6 DEF TInv, TypeOK, Update
  <2>2. /\ inflight'[Op(s)].gen = gen[s] /\ inflight'[Op(s)].phase = p
        /\ inflight'[Op(s)].bytes = b /\ inflight'[Op(s)] # None
      BY <2>1, <1>1, <1>6, <1>0, NoneAssumption DEF Mine, TypeOK, Row
  <2>3. Newest(s) /\ phase'[s] = p /\ done'[s] = b
      BY <1>0, <1>6, RowFacts DEF TInv, TypeOK
  <2>4. RowIsNewestsOwn'
    <3> SUFFICES ASSUME NEW o \in Operators, inflight'[o] # None
                 PROVE  \E t \in active :
                            /\ Op(t) = o /\ Newest(t) /\ inflight'[o].gen = gen[t]
                            /\ inflight'[o].phase = phase'[t] /\ inflight'[o].bytes = done'[t]
        BY <1>3 DEF TInv, TypeOK, RowIsNewestsOwn, Op
    <3>1. CASE o = Op(s)
        BY <3>1, <2>2, <2>3
    <3>2. CASE o # Op(s)
      <4>1. PICK t \in active : /\ Op(t) = o /\ Newest(t) /\ inflight[o].gen = gen[t]
                                /\ inflight[o].phase = phase[t] /\ inflight[o].bytes = done[t]
          BY <3>2, <1>4 DEF TInv, RowIsNewestsOwn
      <4>2. t # s
          BY <4>1, <3>2
      <4> QED
          BY <3>2, <4>1, <4>2, <1>0, <1>4 DEF TInv, TypeOK
    <3> QED
        BY <3>1, <3>2
  <2>5. NewestIsShown'
    <3> SUFFICES ASSUME NEW t \in active, Newest(t), gen[t] \notin expired PROVE Mine(t)'
        BY <1>3 DEF TInv, TypeOK, NewestIsShown
    <3>1. Mine(t) /\ Op(t) \in Operators
        BY OperatorOfAssumption DEF TInv, NewestIsShown, TypeOK, Op
    <3> QED
        BY <3>1, <2>2, <1>4, <1>6 DEF Mine, Op
  <2> QED
      BY <1>1, <1>2, <2>4, <2>5 DEF TInv
<1> QED
    BY <1>5, <1>6

LEMMA InitTInv == Init => TInv
<1> SUFFICES ASSUME Init PROVE TInv
    OBVIOUS
<1>1. TypeOK
    BY NumbersAssumption DEF Init, TypeOK, Phases
<1>2. GenInv /\ OffsetInv /\ FreshInv
    BY DEF Init, GenInv, OffsetInv, FreshInv
<1>3. RowIsNewestsOwn /\ NewestIsShown
    BY DEF Init, RowIsNewestsOwn, NewestIsShown
<1> QED
    BY <1>1, <1>2, <1>3 DEF TInv

LEMMA BeginTInv == ASSUME TInv, NEW s \in Submissions, Begin(s) PROVE TInv'
<1> DEFINE row == [gen |-> nextGen + 1, phase |-> "begun", bytes |-> 0,
                   total |-> 0, last |-> clock]
<1>0. Op(s) \in Operators /\ s \notin active
  <2>1. Op(s) \in Operators
      BY OperatorOfAssumption DEF Op
  <2>2. s \notin active
      BY DEF TInv, TypeOK, GenInv, Begin
  <2> QED
      BY <2>1, <2>2
<1>1. row \in Row /\ row # None
    BY NumbersAssumption, NoneAssumption DEF TInv, TypeOK, Row, Phases
<1>2. TypeOK'
    BY <1>0, <1>1 DEF TInv, TypeOK, Begin
<1>3. GenInv' /\ OffsetInv' /\ FreshInv'
    BY <1>0 DEF TInv, TypeOK, GenInv, OffsetInv, FreshInv, Begin
<1>4. /\ inflight'[Op(s)] = row /\ gen'[s] = nextGen + 1
      /\ \A o \in Operators : o # Op(s) => inflight'[o] = inflight[o]
      /\ \A t \in Submissions : t # s => gen'[t] = gen[t]
      /\ active' = active \cup {s}
    BY <1>0 DEF TInv, TypeOK, Begin
<1>5. Newest(s)' /\ \A t \in Submissions : t # s /\ Op(t) = Op(s) => ~Newest(t)'
    BY <1>4 DEF TInv, TypeOK, GenInv, Newest, Op
<1>6. \A t \in Submissions : Op(t) # Op(s) => (Newest(t)' <=> Newest(t))
    BY <1>4 DEF Newest, Op
<1>7. RowIsNewestsOwn'
  <2> SUFFICES ASSUME NEW o \in Operators, inflight'[o] # None
               PROVE  \E t \in active' :
                          /\ Op(t) = o /\ Newest(t)' /\ inflight'[o].gen = gen'[t]
                          /\ inflight'[o].phase = phase'[t] /\ inflight'[o].bytes = done'[t]
      BY DEF RowIsNewestsOwn, Op
  <2>1. CASE o = Op(s)
    <3>1. phase'[s] = "begun" /\ done'[s] = 0
        BY DEF TInv, FreshInv, Begin
    <3> QED
        BY <2>1, <3>1, <1>4, <1>5
  <2>2. CASE o # Op(s)
    <3>1. PICK t \in active : /\ Op(t) = o /\ Newest(t) /\ inflight[o].gen = gen[t]
                              /\ inflight[o].phase = phase[t] /\ inflight[o].bytes = done[t]
        BY <2>2, <1>4 DEF TInv, RowIsNewestsOwn
    <3> QED
        BY <2>2, <3>1, <1>0, <1>4, <1>6 DEF TInv, TypeOK, Begin
  <2> QED
      BY <2>1, <2>2
<1>8. NewestIsShown'
  <2> SUFFICES ASSUME NEW t \in active', Newest(t)', gen'[t] \notin expired'
               PROVE  Mine(t)'
      BY DEF NewestIsShown
  <2>1. CASE t = s
      BY <2>1, <1>1, <1>4 DEF Mine, Op
  <2>2. CASE t # s
    <3>1. t \in active /\ Op(t) # Op(s) /\ Op(t) \in Operators
      <4>1. t \in active /\ t \in Submissions
          BY <2>2, <1>4 DEF TInv, TypeOK
      <4>2. Op(t) # Op(s)
          BY <2>2, <4>1, <1>5
      <4>3. Op(t) \in Operators
          BY <4>1, OperatorOfAssumption DEF Op
      <4> QED
          BY <4>1, <4>2, <4>3
    <3>2. Newest(t) /\ gen[t] = gen'[t] /\ t \in Submissions /\ expired' = expired
        BY <2>2, <3>1, <1>4, <1>6 DEF TInv, TypeOK, Begin
    <3>3. Mine(t)
        BY <3>1, <3>2 DEF TInv, NewestIsShown
    <3> QED
        BY <3>1, <3>2, <3>3, <1>4 DEF Mine, Op
  <2> QED
      BY <2>1, <2>2
<1> QED
    BY <1>2, <1>3, <1>7, <1>8 DEF TInv

LEMMA AdvanceTInv == ASSUME TInv, NEW s \in Submissions, Advance(s) PROVE TInv'
<1>1. PICK p \in Follows[phase[s]] :
          /\ phase' = [phase EXCEPT ![s] = p]
          /\ Update(s, p, 0, IF p = "storing" THEN Size ELSE 0)
    BY DEF Advance
<1>2. phase[s] \in Phases /\ p \in Phases /\ p # "begun"
      /\ (p \in {"validating", "scanning", "storing"}
             => phase[s] \in {"begun", "validating", "scanning"})
    BY DEF TInv, TypeOK, Phases, Follows
<1>3. OffsetInv'
    BY <1>1, <1>2 DEF TInv, TypeOK, OffsetInv, Advance
<1>4. 0 \in 0 .. Size /\ (IF p = "storing" THEN Size ELSE 0) \in Nat
    BY NumbersAssumption
<1> QED
    BY <1>1, <1>2, <1>3, <1>4, PublishTInv DEF Advance, TInv, TypeOK

\* Reads and seeks publish the change of what was done.
LEMMA AddTInv ==
    ASSUME TInv, NEW s \in active, NEW n \in Int, done[s] + n \in 0 .. Size, Add(s, n),
           done' = [done EXCEPT ![s] = done[s] + n],
           offset' \in [Submissions -> 0 .. Size], OffsetInv',
           UNCHANGED <<phase, nextGen, gen, active, clock, expired>>
    PROVE  TInv'
<1>0. s \in Submissions /\ phase[s] \in Phases /\ phase' = [phase EXCEPT ![s] = phase[s]]
    BY DEF TInv, TypeOK
<1>1. CASE Mine(s)
  <2>1. /\ inflight[Op(s)].phase = phase[s] /\ inflight[Op(s)].bytes = done[s]
        /\ inflight[Op(s)].total \in Nat
      BY <1>1, RowFacts DEF Row
  <2>2. Update(s, phase[s], done[s] + n, inflight[Op(s)].total)
      BY <2>1 DEF Add
  <2> QED
      BY <1>0, <2>1, <2>2, PublishTInv
<1>2. CASE ~Mine(s)
  <2>1. Update(s, phase[s], done[s] + n, 0)
      BY <1>2 DEF Add, Update
  <2> QED
      BY <1>0, <2>1, PublishTInv
<1> QED
    BY <1>1, <1>2

LEMMA ScanReadTInv ==
    ASSUME TInv, NEW s \in Submissions, NEW n \in 1 .. Size, ScanRead(s, n) PROVE TInv'
<1>1. OffsetInv'
    BY DEF TInv, TypeOK, OffsetInv, ScanRead
<1>2. done[s] + n \in 0 .. Size /\ done' = [done EXCEPT ![s] = done[s] + n] /\ n \in Int
    BY NumbersAssumption DEF TInv, TypeOK, ScanRead
<1>3. offset' \in [Submissions -> 0 .. Size]
    BY DEF TInv, TypeOK, ScanRead
<1> QED
    BY <1>1, <1>2, <1>3, AddTInv DEF ScanRead

LEMMA StoreReadTInv ==
    ASSUME TInv, NEW s \in Submissions, NEW n \in 1 .. Size, StoreRead(s, n) PROVE TInv'
<1>1. OffsetInv'
    BY DEF TInv, TypeOK, OffsetInv, StoreRead
<1>2. done[s] + n \in 0 .. Size /\ done' = [done EXCEPT ![s] = done[s] + n] /\ n \in Int
    BY NumbersAssumption DEF TInv, TypeOK, StoreRead
<1>3. offset' \in [Submissions -> 0 .. Size]
    BY <1>2 DEF TInv, TypeOK, OffsetInv, StoreRead
<1> QED
    BY <1>1, <1>2, <1>3, AddTInv DEF StoreRead

LEMMA StoreSeekTInv ==
    ASSUME TInv, NEW s \in Submissions, NEW to \in 0 .. Size, StoreSeek(s, to) PROVE TInv'
<1>1. OffsetInv'
    BY DEF TInv, TypeOK, OffsetInv, StoreSeek
<1>2. /\ offset[s] = done[s] /\ done[s] \in 0 .. Size
      /\ Delta(s, to) \in Int /\ done[s] + Delta(s, to) = to
    BY NumbersAssumption DEF TInv, TypeOK, OffsetInv, StoreSeek, Delta
<1>3. offset' \in [Submissions -> 0 .. Size]
    BY DEF TInv, TypeOK, StoreSeek
<1> QED
    BY <1>1, <1>2, <1>3, AddTInv DEF StoreSeek

LEMMA DoneTInv == ASSUME TInv, NEW s \in Submissions, Done(s) PROVE TInv'
<1>0. Op(s) \in Operators /\ s \in active
    BY OperatorOfAssumption DEF Op, Done
<1>1. TypeOK'
    BY <1>0 DEF TInv, TypeOK, Done
<1>2. GenInv' /\ OffsetInv' /\ FreshInv'
    BY DEF TInv, TypeOK, GenInv, OffsetInv, FreshInv, Done
<1>3. /\ \A o \in Operators : o # Op(s) \/ ~Mine(s) => inflight'[o] = inflight[o]
      /\ Mine(s) => inflight'[Op(s)] = None
      /\ active' = active \ {s} /\ UNCHANGED <<gen, phase, done, expired>>
    BY <1>0 DEF TInv, TypeOK, Done, Removable
<1>4. \A t \in Submissions : Newest(t)' <=> Newest(t)
    BY <1>3 DEF Newest, Op
<1>5. RowIsNewestsOwn'
  <2> SUFFICES ASSUME NEW o \in Operators, inflight'[o] # None
               PROVE  \E t \in active \ {s} :
                          /\ Op(t) = o /\ Newest(t) /\ inflight'[o].gen = gen[t]
                          /\ inflight'[o].phase = phase[t] /\ inflight'[o].bytes = done[t]
      BY <1>3, <1>4 DEF TInv, TypeOK, RowIsNewestsOwn, Op
  <2>1. inflight'[o] = inflight[o] /\ (o # Op(s) \/ ~Mine(s))
      BY <1>3
  <2>2. PICK t \in active : /\ Op(t) = o /\ Newest(t) /\ inflight[o].gen = gen[t]
                            /\ inflight[o].phase = phase[t] /\ inflight[o].bytes = done[t]
      BY <2>1 DEF TInv, RowIsNewestsOwn
  <2>3. t # s
      BY <2>1, <2>2 DEF Mine
  <2> QED
      BY <2>1, <2>2, <2>3
<1>6. NewestIsShown'
  <2> SUFFICES ASSUME NEW t \in active, t # s, Newest(t), gen[t] \notin expired
               PROVE  Mine(t)'
      BY <1>3, <1>4 DEF TInv, TypeOK, NewestIsShown
  <2>1. Mine(t) /\ t \in Submissions /\ Op(t) \in Operators
      BY OperatorOfAssumption DEF TInv, TypeOK, NewestIsShown, Op
  <2>2. Op(t) # Op(s) \/ ~Mine(s)
      BY <2>1, <1>0 DEF TInv, TypeOK, GenInv, Mine
  <2> QED
      BY <2>1, <2>2, <1>3 DEF Mine, Op
<1> QED
    BY <1>1, <1>2, <1>5, <1>6 DEF TInv

LEMMA EvictTInv == ASSUME TInv, NEW o \in Operators, Evict(o) PROVE TInv'
<1>0. /\ inflight' = [inflight EXCEPT ![o] = None] /\ inflight[o] \in Row
      /\ expired' = expired \cup {inflight[o].gen}
      /\ UNCHANGED <<nextGen, gen, phase, done, offset, active, clock>>
    BY DEF TInv, TypeOK, Evict, subVars
<1>1. TypeOK'
    BY <1>0 DEF TInv, TypeOK, Row
<1>2. GenInv' /\ OffsetInv' /\ FreshInv'
  <2>1. PICK t \in active : inflight[o].gen = gen[t]
      BY DEF TInv, RowIsNewestsOwn, Evict
  <2> QED
      BY <1>0, <2>1 DEF TInv, TypeOK, GenInv, OffsetInv, FreshInv
<1>4. \A t \in Submissions : Newest(t)' <=> Newest(t)
    BY <1>0 DEF Newest, Op
<1>5. RowIsNewestsOwn'
    BY <1>0, <1>4 DEF TInv, TypeOK, RowIsNewestsOwn, Op
<1>6. NewestIsShown'
  <2> SUFFICES ASSUME NEW t \in active, Newest(t), gen[t] \notin expired'
               PROVE  Mine(t)'
      BY <1>0, <1>4 DEF TInv, TypeOK, NewestIsShown
  <2>1. Mine(t) /\ t \in Submissions /\ Op(t) \in Operators
      BY <1>0, OperatorOfAssumption DEF TInv, TypeOK, NewestIsShown, Op
  <2>2. Op(t) # o
      BY <1>0, <2>1 DEF Mine
  <2> QED
      BY <1>0, <2>1, <2>2 DEF TInv, TypeOK, Mine, Op
<1> QED
    BY <1>1, <1>2, <1>5, <1>6 DEF TInv

LEMMA IdleTInv ==
    ASSUME TInv, UNCHANGED <<inflight, nextGen, subVars, expired>>, clock' \in Nat
    PROVE  TInv'
    BY DEF TInv, TypeOK, subVars, GenInv, OffsetInv, FreshInv, RowIsNewestsOwn,
       NewestIsShown, Newest, Mine, Op

LEMMA NextTInv == TInv /\ [Next]_vars => TInv'
<1> SUFFICES ASSUME TInv, [Next]_vars PROVE TInv'
    OBVIOUS
<1>1. CASE UNCHANGED vars
    BY <1>1, IdleTInv DEF vars, TInv, TypeOK
<1>2. ASSUME NEW s \in Submissions, Begin(s) \/ Advance(s) \/ Done(s) PROVE TInv'
    BY <1>2, BeginTInv, AdvanceTInv, DoneTInv
<1>3. ASSUME NEW s \in Submissions, NEW n \in 1 .. Size, ScanRead(s, n) \/ StoreRead(s, n)
      PROVE  TInv'
    BY <1>3, ScanReadTInv, StoreReadTInv
<1>4. ASSUME NEW s \in Submissions, NEW to \in 0 .. Size, StoreSeek(s, to) PROVE TInv'
    BY <1>4, StoreSeekTInv
<1>5. ASSUME NEW o \in Operators, Evict(o) PROVE TInv'
    BY <1>5, EvictTInv
<1>6. CASE Tick
    BY <1>6, IdleTInv DEF Tick, TInv, TypeOK
<1> QED
    BY <1>1, <1>2, <1>3, <1>4, <1>5, <1>6 DEF Next

LEMMA TrackerInvariance == Spec => []TInv
    BY InitTInv, NextTInv, PTL DEF Spec

\* The row an operator polls is the true state of their newest submission.
THEOREM RowIsTrue == Spec => []RowIsNewestsOwn
<1>1. TInv => RowIsNewestsOwn
    BY DEF TInv
<1> QED
    BY TrackerInvariance, <1>1, PTL

\* Their newest submission has a row from its Begin to its Done, unless it
\* was silent for longer than progressTTL.
THEOREM NewestHasRow == Spec => []NewestIsShown
<1>1. TInv => NewestIsShown
    BY DEF TInv
<1> QED
    BY TrackerInvariance, <1>1, PTL

-----------------------------------------------------------------------------
(***************************************************************************)
(* The page over the tracker.                                              *)
(***************************************************************************)

\* Every step of the page and its server is a step of the tracker or leaves
\* it alone.
LEMMA PageStepIsTrackerStep == [PageNext]_allVars => [Next]_vars
<1>1. CASE UNCHANGED allVars
    BY <1>1 DEF allVars
<1>2. ASSUME NEW s \in Submissions, Refuse(s) \/ Expire(s) \/ Click(s) PROVE [Next]_vars
    BY <1>2 DEF Refuse, Expire, Click
<1>3. ASSUME NEW s \in Submissions, Serve(s) PROVE [Next]_vars
    BY <1>3 DEF Serve, Next
<1>4. ASSUME NEW p \in Polls, Ask(p) \/ Arrive(p) \/ Lose(p) PROVE [Next]_vars
    BY <1>4 DEF Ask, Arrive, Lose
<1>5. ASSUME NEW p \in Polls, AnswerPoll(p) PROVE [Next]_vars
    BY <1>5, PageAssumption DEF AnswerPoll, Next
<1>6. CASE Load \/ Break
    BY <1>6 DEF Load, Break
<1>7. CASE Tick
    BY <1>7 DEF Next
<1> QED
    BY <1>1, <1>2, <1>3, <1>4, <1>5, <1>6, <1>7 DEF PageNext

\* The page and its server together implement the tracker alone: whatever is
\* proved of the tracker holds while the page polls it.
THEOREM PageImplementsTracker == PageSpec => Spec
<1>1. PageInit => Init
    BY DEF PageInit
<1> QED
    BY <1>1, PageStepIsTrackerStep, PTL DEF PageSpec, Spec

(***************************************************************************)
(* The inductive invariant of the page.                                    *)
(***************************************************************************)
\* The page and the server agree on what was sent and begun.
SentInv ==
    /\ cur # None => cur \in sent
    /\ timer # None => timer = cur
    /\ \A s \in Submissions : gen[s] > 0 => s \in sent \ refused

\* A submission sent alone: the others are over, every poll is its own and
\* was answered about it.
AloneInv ==
    alone =>
        /\ cur # None
        /\ timer = None => cur \in dead
        /\ \A t \in sent \ {cur} : Ended(t)
        /\ panel # 0 => panel = gen[cur]
        /\ \A p \in Polls : poll[p] # None =>
              /\ poll[p].by = cur
              /\ poll[p].answer = "ok" => poll[p].row = gen[cur] /\ gen[cur] > 0
              /\ poll[p].answer = "unauthorized" => cur \in dead

PInv == TInv /\ PageTypeOK /\ SentInv /\ AloneInv

LEMMA InitPInv == PageInit => PInv
<1> SUFFICES ASSUME PageInit PROVE PInv
    OBVIOUS
<1>1. TInv
    BY InitTInv DEF PageInit
<1>2. PageTypeOK
    BY <1>1 DEF PageInit, PageTypeOK, TInv
<1>3. SentInv /\ AloneInv
    BY DEF PageInit, Init, SentInv, AloneInv
<1> QED
    BY <1>1, <1>2, <1>3 DEF PInv

\* Under the invariant, the row of a submission sent alone is its own.
LEMMA AloneRow ==
    ASSUME PInv, alone, inflight[User] # None
    PROVE  inflight[User].gen = gen[cur] /\ gen[cur] > 0
<1>1. PICK t \in active : inflight[User].gen = gen[t]
    BY PageAssumption DEF PInv, TInv, RowIsNewestsOwn
<1>2. t \in Submissions /\ gen[t] > 0 /\ t \in sent \ refused
    BY DEF PInv, TInv, TypeOK, GenInv, SentInv
<1>3. ~Ended(t)
    BY <1>2 DEF Ended
<1> QED
    BY <1>1, <1>2, <1>3 DEF PInv, AloneInv

LEMMA RefusePInv == ASSUME PInv, NEW s \in Submissions, Refuse(s), TInv' PROVE PInv'
<1>1. PageTypeOK'
    BY DEF PInv, PageTypeOK, Refuse, TInv
<1>2. SentInv'
    BY DEF PInv, SentInv, Refuse, vars, subVars
<1>3. \A t : Ended(t) => Ended(t)'
    BY DEF Refuse, Ended, vars, subVars
<1>4. AloneInv'
    BY <1>3 DEF PInv, AloneInv, Refuse, vars, subVars
<1> QED
    BY <1>1, <1>2, <1>4 DEF PInv

LEMMA ExpirePInv == ASSUME PInv, NEW s \in Submissions, Expire(s), TInv' PROVE PInv'
<1>1. PageTypeOK'
    BY DEF PInv, PageTypeOK, Expire, TInv
<1>2. SentInv'
    BY DEF PInv, SentInv, Expire, vars, subVars
<1>3. AloneInv'
    BY DEF PInv, AloneInv, Ended, Expire, vars, subVars
<1> QED
    BY <1>1, <1>2, <1>3 DEF PInv

LEMMA ClickPInv == ASSUME PInv, NEW s \in Submissions, Click(s), TInv' PROVE PInv'
<1>0. s # None
    BY PageAssumption
<1>1. PageTypeOK'
    BY DEF PInv, PageTypeOK, Click, Cleared, TInv
<1>2. SentInv'
    BY DEF PInv, SentInv, Click, vars, subVars
<1>3. AloneInv'
    BY <1>0 DEF PInv, AloneInv, Ended, Click, Cleared, vars, subVars
<1> QED
    BY <1>1, <1>2, <1>3 DEF PInv

\* A server step that begins nothing new leaves the page's invariant alone.
LEMMA WorkPInv ==
    ASSUME PInv, TInv', UNCHANGED <<gen, pageVars>>, active' \subseteq active
    PROVE  PInv'
<1>1. PageTypeOK'
    BY DEF PInv, PageTypeOK, pageVars, TInv
<1>2. SentInv'
    BY DEF PInv, SentInv, pageVars
<1>3. \A t : Ended(t) => Ended(t)'
    BY DEF Ended, pageVars
<1>4. AloneInv'
    BY <1>3 DEF PInv, AloneInv, pageVars
<1> QED
    BY <1>1, <1>2, <1>4 DEF PInv

LEMMA BeginPInv ==
    ASSUME PInv, TInv', NEW s \in sent \ refused, Begin(s), UNCHANGED pageVars
    PROVE  PInv'
<1>0. /\ s \in Submissions /\ ~Ended(s) /\ gen[s] = 0 /\ gen'[s] = nextGen + 1
      /\ \A t \in Submissions : t # s => gen'[t] = gen[t]
      /\ active' = active \cup {s} /\ nextGen \in Nat
    BY DEF PInv, PageTypeOK, TypeOK, Begin, Ended
<1>1. PageTypeOK'
    BY DEF PInv, PageTypeOK, pageVars, TInv
<1>2. SentInv'
    BY <1>0 DEF PInv, SentInv, pageVars
<1>3. AloneInv'
  <2> SUFFICES ASSUME alone PROVE AloneInv'
      BY DEF AloneInv, pageVars
  <2>1. s = cur
      BY <1>0 DEF PInv, AloneInv
  <2>2. \A t \in sent \ {cur} : Ended(t)'
      BY <1>0, <2>1 DEF PInv, AloneInv, PageTypeOK, Ended, pageVars
  <2>3. panel = 0 /\ \A p \in Polls : poll[p] # None => poll[p].answer # "ok"
      BY <1>0, <2>1 DEF PInv, AloneInv
  <2> QED
      BY <2>2, <2>3 DEF PInv, AloneInv, pageVars
<1> QED
    BY <1>1, <1>2, <1>3 DEF PInv

LEMMA ServePInv == ASSUME PInv, NEW s \in Submissions, Serve(s), TInv' PROVE PInv'
<1>0. UNCHANGED pageVars
    BY DEF Serve
<1>1. CASE s \in sent \ refused /\ Begin(s)
    BY <1>0, <1>1, BeginPInv
<1>2. CASE Advance(s) \/ Done(s)
    BY <1>0, <1>2, WorkPInv DEF Advance, Done
<1>3. ASSUME NEW n \in 1 .. Size, ScanRead(s, n) \/ StoreRead(s, n) PROVE PInv'
    BY <1>0, <1>3, WorkPInv DEF ScanRead, StoreRead
<1>4. ASSUME NEW to \in 0 .. Size, StoreSeek(s, to) PROVE PInv'
    BY <1>0, <1>4, WorkPInv DEF StoreSeek
<1> QED
    BY <1>1, <1>2, <1>3, <1>4 DEF Serve

LEMMA AnswerPollPInv == ASSUME PInv, NEW p \in Polls, AnswerPoll(p), TInv' PROVE PInv'
<1>0. /\ poll[p] \in Poll /\ poll[p] # None
      /\ UNCHANGED <<gen, active, cur, sent, refused, timer, dead, panel, alone>>
    BY DEF PInv, PageTypeOK, AnswerPoll, Evict, vars, subVars
<1>1. PICK a \in {"ok", "notfound", "unauthorized"}, row \in Nat :
          /\ Reply(p, a, row)
          /\ a = "unauthorized" => poll[p].by \in dead
          /\ a = "ok" => inflight[User] # None /\ row = inflight[User].gen
  <2>1. inflight[User] # None => inflight[User].gen \in Nat
      BY PageAssumption DEF PInv, PageTypeOK, TypeOK, Row
  <2>2. CASE poll[p].by \in dead /\ Reply(p, "unauthorized", 0)
      BY <2>2
  <2>3. CASE Reply(p, "notfound", 0)
      BY <2>3
  <2>4. CASE inflight[User] # None /\ Reply(p, "ok", inflight[User].gen)
      BY <2>1, <2>4
  <2> QED
      BY <2>2, <2>3, <2>4 DEF AnswerPoll
<1>2. /\ poll'[p] = [by |-> poll[p].by, answer |-> a, row |-> row]
      /\ \A q \in Polls : q # p => poll'[q] = poll[q]
      /\ poll' \in [Polls -> Poll \cup {None}]
    BY <1>0, <1>1 DEF PInv, PageTypeOK, Reply, Poll
<1>3. PageTypeOK'
    BY <1>0, <1>2 DEF PInv, PageTypeOK, TInv
<1>4. SentInv'
    BY <1>0 DEF PInv, SentInv
<1>5. AloneInv'
  <2> SUFFICES ASSUME alone PROVE AloneInv'
      BY <1>0 DEF AloneInv
  <2>1. poll[p].by = cur
      BY <1>0 DEF PInv, AloneInv
  <2>2. a = "ok" => row = gen[cur] /\ gen[cur] > 0
      BY <1>1, AloneRow
  <2> QED
      BY <1>0, <1>1, <1>2, <2>1, <2>2 DEF PInv, AloneInv, Ended
<1> QED
    BY <1>3, <1>4, <1>5 DEF PInv

LEMMA AskPInv == ASSUME PInv, NEW p \in Polls, Ask(p), TInv' PROVE PInv'
<1>1. [by |-> timer, answer |-> "asked", row |-> 0] \in Poll
    BY DEF PInv, PageTypeOK, Ask, Poll
<1>2. PageTypeOK'
    BY <1>1 DEF PInv, PageTypeOK, Ask, TInv
<1>3. SentInv'
    BY DEF PInv, SentInv, Ask, vars, subVars
<1>4. AloneInv'
    BY <1>1 DEF PInv, PageTypeOK, SentInv, AloneInv, Ended, Ask, vars, subVars
<1> QED
    BY <1>2, <1>3, <1>4 DEF PInv

LEMMA ArrivePInv == ASSUME PInv, NEW p \in Polls, Arrive(p), TInv' PROVE PInv'
<1>0. /\ poll[p] \in Poll /\ poll[p] # None
      /\ UNCHANGED <<gen, active, cur, sent, refused, dead, alone>>
    BY DEF PInv, PageTypeOK, Arrive, vars, subVars
<1>1. PageTypeOK'
    BY <1>0 DEF PInv, PageTypeOK, Arrive, Poll, TInv
<1>2. SentInv'
    BY <1>0 DEF PInv, SentInv, Arrive
<1>3. AloneInv'
    BY <1>0 DEF PInv, PageTypeOK, AloneInv, Ended, Arrive, EndsPolling
<1> QED
    BY <1>1, <1>2, <1>3 DEF PInv

LEMMA LosePInv == ASSUME PInv, NEW p \in Polls, Lose(p), TInv' PROVE PInv'
<1>1. PageTypeOK'
    BY DEF PInv, PageTypeOK, Lose, TInv
<1>2. SentInv'
    BY DEF PInv, SentInv, Lose, vars, subVars
<1>3. AloneInv'
    BY DEF PInv, PageTypeOK, AloneInv, Ended, Lose, vars, subVars
<1> QED
    BY <1>1, <1>2, <1>3 DEF PInv

LEMMA EndPInv == ASSUME PInv, Load \/ Break, TInv' PROVE PInv'
<1>1. PageTypeOK'
    BY DEF PInv, PageTypeOK, Load, Break, Stopped, TInv
<1>2. SentInv' /\ AloneInv'
    BY DEF PInv, SentInv, AloneInv, Load, Break, Stopped, vars, subVars
<1> QED
    BY <1>1, <1>2 DEF PInv

LEMMA NextPInv == PInv /\ [PageNext]_allVars => PInv'
<1> SUFFICES ASSUME PInv, [PageNext]_allVars PROVE PInv'
    OBVIOUS
<1>0. TInv'
    BY PageStepIsTrackerStep, NextTInv DEF PInv
<1>1. CASE UNCHANGED allVars
    BY <1>0, <1>1, WorkPInv DEF allVars, vars, subVars
<1>2. ASSUME NEW s \in Submissions, Refuse(s) \/ Serve(s) \/ Expire(s) \/ Click(s)
      PROVE  PInv'
    BY <1>0, <1>2, RefusePInv, ServePInv, ExpirePInv, ClickPInv
<1>3. ASSUME NEW p \in Polls, AnswerPoll(p) \/ Ask(p) \/ Arrive(p) \/ Lose(p)
      PROVE  PInv'
    BY <1>0, <1>3, AnswerPollPInv, AskPInv, ArrivePInv, LosePInv
<1>4. CASE Load \/ Break
    BY <1>0, <1>4, EndPInv
<1>5. CASE Tick /\ UNCHANGED pageVars
    BY <1>0, <1>5, WorkPInv DEF Tick, subVars
<1> QED
    BY <1>1, <1>2, <1>3, <1>4, <1>5 DEF PageNext

LEMMA PageInvariance == PageSpec => []PInv
    BY InitPInv, NextPInv, PTL DEF PageSpec

\* The page and the tracker keep their types.
THEOREM PageTypeCorrect == PageSpec => []PageTypeOK
<1>1. PInv => PageTypeOK
    BY DEF PInv
<1> QED
    BY PageInvariance, <1>1, PTL

\* The panel shows the submission in flight and no other, if it was sent
\* alone.
THEOREM PanelShowsItsOwn == PageSpec => []PanelIsOwn
<1>1. PInv => PanelIsOwn
    BY DEF PInv, AloneInv, PanelIsOwn
<1> QED
    BY PageInvariance, <1>1, PTL

\* The page polls for the submission in flight until its session expires.
THEOREM PollingIsFaithful == PageSpec => []PollsWhileAlive
<1>1. PInv => PollsWhileAlive
    BY DEF PInv, SentInv, AloneInv, PollsWhileAlive
<1> QED
    BY PageInvariance, <1>1, PTL
=============================================================================
