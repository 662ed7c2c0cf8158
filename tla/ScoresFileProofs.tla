------------------------- MODULE ScoresFileProofs -------------------------
(***************************************************************************)
(* The store keeps what it acknowledged and implements the atomic map, for *)
(* any number of callers, ids and failures.                                *)
(***************************************************************************)
EXTENDS ScoresFile, TLAPS

\* The mutex is held exactly by the call in progress.
MutexInv == \A p \in Procs : loc[p] # "idle" <=> lock = p

\* The map in memory is the current file with the one record changed: nobody
\* replaced the file since it was read.
MemInv ==
    \A p \in Procs :
        /\ loc[p] \in {"write", "sync", "rename"} =>
              mem[p] = [cur.content EXCEPT ![id[p]] = val[p]]
        /\ loc[p] \in {"sync", "rename"} => tmp[p].content = mem[p]
        /\ loc[p] = "rename" => tmp[p].synced = TRUE
        /\ loc[p] = "syncdir" => cur.content[id[p]] = val[p]

IInv == TypeOK /\ MutexInv /\ MemInv /\ AckedSurvives

\* Initially there is no file, nothing acknowledged and nobody at work.
LEMMA InitIInv == Init => IInv
<1> SUFFICES ASSUME Init PROVE IInv
    OBVIOUS
<1> USE DEF Init
<1>1. TypeOK
    BY FaultsAssumption DEF TypeOK, Empty, EmptyFile, Map, File, SoundFile, Locs
<1>2. MutexInv
    BY NoneAssumption DEF MutexInv
<1>3. MemInv
    BY DEF MemInv
<1>4. AckedSurvives
    BY DEF AckedSurvives, Empty, EmptyFile
<1> QED
    BY <1>1, <1>2, <1>3, <1>4 DEF IInv

\* Only one call is past its lock.
LEMMA OneCall ==
    ASSUME MutexInv, NEW p \in Procs, loc[p] # "idle",
           NEW q \in Procs, loc[q] # "idle"
    PROVE  p = q
    BY DEF MutexInv

\* Taking the lock disturbs no file.
LEMMA CallIInv ==
    ASSUME IInv, NEW p \in Procs, NEW i \in Ids, NEW v \in Values \cup {None},
           Call(p, i, v)
    PROVE  IInv'
<1> USE DEF IInv, Call, Goto, LockFree
<1>1. TypeOK'
    BY DEF TypeOK, Locs
<1>2. MutexInv'
    BY NoneAssumption DEF MutexInv, TypeOK
<1>3. MemInv'
    BY DEF MemInv, TypeOK
<1>4. AckedSurvives'
    BY DEF AckedSurvives
<1> QED
    BY <1>1, <1>2, <1>3, <1>4

\* A call that returns without having replaced the file.
LEMMA ReturnIInv ==
    ASSUME IInv, NEW p \in Procs, loc[p] # "idle", Return(p),
           faults' \in 0 .. MaxFaults,
           UNCHANGED <<id, val, mem, tmp, cur, disk, acked, unsure>>
    PROVE  IInv'
<1> USE DEF IInv, Return, Goto
<1>1. TypeOK'
    BY DEF TypeOK, Locs
<1>2. MutexInv'
    BY NoneAssumption DEF MutexInv, TypeOK
<1>3. MemInv'
    BY DEF MemInv, TypeOK
<1>4. AckedSurvives'
    BY DEF AckedSurvives
<1> QED
    BY <1>1, <1>2, <1>3, <1>4

LEMMA FaultBound == ASSUME TypeOK, Fault PROVE faults' \in 0 .. MaxFaults
    BY FaultsAssumption DEF TypeOK, Fault

\* Each step of a call, in order.
LEMMA ReadIInv == ASSUME IInv, NEW p \in Procs, Read(p) PROVE IInv'
<1> USE DEF IInv, Read, Goto
<1>1. TypeOK'
    BY DEF TypeOK, Locs, Map, SoundFile
<1>2. MutexInv'
    BY DEF MutexInv, TypeOK
<1>3. MemInv'
    BY DEF MemInv, TypeOK
<1>4. AckedSurvives'
    BY DEF AckedSurvives
<1> QED
    BY <1>1, <1>2, <1>3, <1>4

LEMMA WriteTempIInv == ASSUME IInv, NEW p \in Procs, WriteTemp(p) PROVE IInv'
<1> USE DEF IInv, WriteTemp, Goto
<1>1. TypeOK'
    BY DEF TypeOK, Locs, File
<1>2. MutexInv'
    BY DEF MutexInv, TypeOK
<1>3. MemInv'
    BY DEF MemInv, TypeOK, File
<1>4. AckedSurvives'
    BY DEF AckedSurvives
<1> QED
    BY <1>1, <1>2, <1>3, <1>4

LEMMA SyncIInv == ASSUME IInv, NEW p \in Procs, Sync(p) PROVE IInv'
<1> USE DEF IInv, Sync, Goto, Synced
<1>1. TypeOK'
    BY DEF TypeOK, Locs, File
<1>2. MutexInv'
    BY DEF MutexInv, TypeOK
<1>3. MemInv'
    BY DEF MemInv, TypeOK, File
<1>4. AckedSurvives'
    BY DEF AckedSurvives
<1> QED
    BY <1>1, <1>2, <1>3, <1>4

LEMMA RenameIInv == ASSUME IInv, NEW p \in Procs, Rename(p) PROVE IInv'
<1> USE DEF IInv, Rename, Goto
<1>0. tmp[p] \in SoundFile
  <2>1. tmp[p] \in File
      BY DEF TypeOK
  <2>2. tmp[p].content \in Map /\ tmp[p].synced \in {TRUE}
      BY DEF MemInv, TypeOK
  <2> QED
      BY <2>1, <2>2 DEF File, SoundFile
<1>1. TypeOK'
    BY <1>0 DEF TypeOK, Locs
<1>2. MutexInv'
    BY DEF MutexInv, TypeOK
<1>3. MemInv'
    BY OneCall DEF MemInv, TypeOK, MutexInv, SoundFile, Map
<1>4. AckedSurvives'
    BY DEF AckedSurvives, MemInv, TypeOK, SoundFile, Map
<1> QED
    BY <1>1, <1>2, <1>3, <1>4

LEMMA SyncDirIInv == ASSUME IInv, NEW p \in Procs, SyncDir(p) PROVE IInv'
<1> USE DEF IInv, SyncDir, Goto, Return, Hardened
<1>1. TypeOK'
    BY DEF TypeOK, Locs, SoundFile, Map
<1>2. MutexInv'
    BY NoneAssumption DEF MutexInv, TypeOK
<1>3. MemInv'
    BY OneCall DEF MemInv, TypeOK
<1>4. AckedSurvives'
    BY DEF AckedSurvives, MemInv, TypeOK, SoundFile, Map
<1> QED
    BY <1>1, <1>2, <1>3, <1>4

LEMMA DieIInv ==
    ASSUME IInv, Fault, Die, cur' \in {cur, disk}, disk' \in {cur', disk}
    PROVE  IInv'
<1> USE DEF IInv, Die
<1>1. TypeOK'
    BY FaultBound DEF TypeOK, Locs
<1>2. MutexInv'
    BY NoneAssumption DEF MutexInv
<1>3. MemInv'
    BY DEF MemInv, TypeOK
<1>4. AckedSurvives'
    BY DEF AckedSurvives
<1> QED
    BY <1>1, <1>2, <1>3, <1>4

\* Both files the name may refer to are synced, so neither is torn.
LEMMA RecoveredSound ==
    ASSUME TypeOK PROVE Recovered(cur) = cur /\ Recovered(disk) = disk
    BY DEF TypeOK, SoundFile, Recovered

LEMMA NextIInv == IInv /\ [Next]_vars => IInv'
<1> SUFFICES ASSUME IInv, [Next]_vars PROVE IInv'
    OBVIOUS
<1>1. CASE UNCHANGED vars
    BY <1>1 DEF vars, IInv, TypeOK, MutexInv, MemInv, AckedSurvives
<1>2. ASSUME NEW p \in Procs, NEW i \in Ids, NEW v \in Values \cup {None},
             Call(p, i, v)
      PROVE  IInv'
    BY <1>2, CallIInv
<1>3. ASSUME NEW p \in Procs, Read(p) PROVE IInv'
    BY <1>3, ReadIInv
<1>4. ASSUME NEW p \in Procs, ReadNothing(p) PROVE IInv'
    BY <1>4, ReturnIInv DEF ReadNothing, IInv, TypeOK
<1>5. ASSUME NEW p \in Procs, WriteTemp(p) PROVE IInv'
    BY <1>5, WriteTempIInv
<1>6. ASSUME NEW p \in Procs, Sync(p) PROVE IInv'
    BY <1>6, SyncIInv
<1>7. ASSUME NEW p \in Procs, Rename(p) PROVE IInv'
    BY <1>7, RenameIInv
<1>8. ASSUME NEW p \in Procs, SyncDir(p) PROVE IInv'
    BY <1>8, SyncDirIInv
<1>9. ASSUME NEW p \in Procs, Fail(p) PROVE IInv'
    BY <1>9, ReturnIInv, FaultBound DEF Fail, IInv
<1>10. CASE Crash
    BY <1>10, DieIInv DEF Crash
<1>11. CASE PowerCut
    BY <1>11, DieIInv, RecoveredSound DEF PowerCut, IInv
<1> QED
    BY <1>1, <1>2, <1>3, <1>4, <1>5, <1>6, <1>7, <1>8, <1>9, <1>10, <1>11 DEF Next

-----------------------------------------------------------------------------
\* The file the name refers to always parses and is always synced, whatever
\* fails and whenever the power is cut.
THEOREM FileIsSound == Spec => []TypeOK
<1>1. IInv => TypeOK
    BY DEF IInv
<1> QED
    BY InitIInv, NextIInv, <1>1, PTL DEF Spec

\* What Set and Delete acknowledged stays, for readers and after power cuts.
THEOREM AckedUpdatesSurvive == Spec => []AckedSurvives
<1>1. IInv => AckedSurvives
    BY DEF IInv
<1> QED
    BY InitIInv, NextIInv, <1>1, PTL DEF Spec

\* Every step of the store is a step of the atomic map, or changes nothing
\* the map shows.
LEMMA StepRefines ==
    IInv /\ [Next]_vars => [Abstract!Next]_<<cur.content, disk.content>>
<1> SUFFICES ASSUME IInv, Next
             PROVE  Abstract!Next \/ UNCHANGED <<cur.content, disk.content>>
    BY DEF vars
<1>1. ASSUME NEW p \in Procs, Rename(p) PROVE Abstract!Update
  <2>1. cur'.content = [cur.content EXCEPT ![id[p]] = val[p]]
      BY <1>1 DEF Rename, IInv, MemInv
  <2>2. id[p] \in Ids /\ val[p] \in Values \cup {None}
      BY DEF IInv, TypeOK
  <2>3. disk'.content = disk.content
      BY <1>1 DEF Rename
  <2> QED
      BY <2>1, <2>2, <2>3 DEF Abstract!Update
<1>2. ASSUME NEW p \in Procs, SyncDir(p) PROVE Abstract!Harden
    BY <1>2 DEF SyncDir, Hardened, Abstract!Harden
<1>3. ASSUME PowerCut PROVE Abstract!PowerCut
    BY <1>3, RecoveredSound DEF PowerCut, Abstract!PowerCut, IInv
<1>4. ASSUME NEW p \in Procs,
             \/ \E i \in Ids, v \in Values \cup {None} : Call(p, i, v)
             \/ Read(p) \/ ReadNothing(p) \/ WriteTemp(p) \/ Sync(p) \/ Fail(p)
      PROVE  UNCHANGED <<cur, disk>>
    BY <1>4 DEF Call, Read, ReadNothing, WriteTemp, Sync, Fail
<1>5. ASSUME Crash PROVE UNCHANGED <<cur, disk>>
    BY <1>5 DEF Crash
<1> QED
    BY <1>1, <1>2, <1>3, <1>4, <1>5 DEF Next, Abstract!Next

\* scoring.Store implements the atomic map: its callers may treat Set, Delete
\* and Get as single steps, as module Submissions does.
THEOREM StoreIsAtomicMap == Spec => ImplementsDurableMap
<1>1. Init => Abstract!Init
    BY DEF Init, Abstract!Init, Abstract!Map, EmptyFile, Empty
<1> QED
    BY InitIInv, NextIInv, StepRefines, <1>1, PTL
       DEF Spec, ImplementsDurableMap, Abstract!Spec
===========================================================================
