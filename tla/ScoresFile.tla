---------------------------- MODULE ScoresFile ----------------------------
(***************************************************************************)
(* scoring.Store (scoring/store.go) over atomicfile.Write                  *)
(* (internal/atomicfile/write.go): every update reads the whole file,      *)
(* changes one record in memory and replaces the file, all under the       *)
(* store's mutex.  FileLog.Delete rewrites the submission log the same     *)
(* way, and exercise.FileStore.Set is the case of a single record.         *)
(*                                                                         *)
(* A file has a content and is synced or not; the name scores.json refers  *)
(* to the file `cur` in the running kernel and to the file `disk` after a  *)
(* power cut, until the directory is synced.  A file whose data was never  *)
(* synced is torn by a power cut.                                          *)
(***************************************************************************)
EXTENDS Naturals

CONSTANTS
    Procs,      \* goroutines of the portal that call the store
    Ids,        \* submission ids
    Values,     \* scoring records
    None,       \* no record / nobody / nothing
    Torn,       \* content that does not parse
    MaxFaults   \* bound on failures, crashes and power cuts

ASSUME NoneAssumption == None \notin Procs /\ None \notin Values
ASSUME TornAssumption == Torn \notin [Ids -> Values \cup {None}]
ASSUME FaultsAssumption == MaxFaults \in Nat

Map == [Ids -> Values \cup {None}]
File == [content : Map \cup {Torn}, synced : BOOLEAN]

VARIABLES
    lock,       \* Store.mu: its holder, or None
    loc,        \* [Procs -> where the call is]
    id, val,    \* the record being set; val None is a deletion
    mem,        \* [Procs -> the map read and changed in memory]
    tmp,        \* [Procs -> the temporary file]
    cur,        \* the file the name refers to
    disk,       \* the file it refers to after a power cut
    faults,
    acked,      \* history: the map of values whose rewrite was acknowledged
    unsure      \* history: ids with a later call that was not

vars == <<lock, loc, id, val, mem, tmp, cur, disk, faults, acked, unsure>>

Locs == {"idle", "read", "write", "sync", "rename", "syncdir"}

\* The name never refers to a file that does not parse, or whose data could
\* still be torn: that is part of the type of cur and disk.
SoundFile == [content : Map, synced : {TRUE}]

TypeOK ==
    /\ lock \in Procs \cup {None}
    /\ loc \in [Procs -> Locs]
    /\ id \in [Procs -> Ids]
    /\ val \in [Procs -> Values \cup {None}]
    /\ mem \in [Procs -> Map]
    /\ tmp \in [Procs -> File]
    /\ cur \in SoundFile
    /\ disk \in SoundFile
    /\ faults \in 0 .. MaxFaults
    /\ acked \in Map
    /\ unsure \subseteq Ids

Empty == [i \in Ids |-> None]
EmptyFile == [content |-> Empty, synced |-> TRUE]

\* No file yet (or an empty one) reads as no records.
Init ==
    /\ lock = None
    /\ loc = [p \in Procs |-> "idle"]
    /\ id \in [Procs -> Ids]
    /\ val = [p \in Procs |-> None]
    /\ mem = [p \in Procs |-> Empty]
    /\ tmp = [p \in Procs |-> EmptyFile]
    /\ cur = EmptyFile
    /\ disk = EmptyFile
    /\ faults = 0
    /\ acked = Empty
    /\ unsure = {}

-----------------------------------------------------------------------------
Fault == faults < MaxFaults /\ faults' = faults + 1

Goto(p, label) == loc' = [loc EXCEPT ![p] = label]

\* The call returns and its deferred unlock runs.
Return(p) == Goto(p, "idle") /\ lock' = None

\* The mutex is free.
FaultyLockFree == TRUE   \* no mutex
LockFree == lock = None

\* Set(r) or Delete(i): take the lock.
Call(p, i, v) ==
    /\ loc[p] = "idle" /\ LockFree
    /\ lock' = p
    /\ id' = [id EXCEPT ![p] = i]
    /\ val' = [val EXCEPT ![p] = v]
    /\ Goto(p, "read")
    /\ UNCHANGED <<mem, tmp, cur, disk, faults, acked, unsure>>

\* all(), then the change in memory.
Read(p) ==
    /\ loc[p] = "read"
    /\ val[p] # None \/ cur.content[id[p]] # None
    /\ mem' = [mem EXCEPT ![p] = [cur.content EXCEPT ![id[p]] = val[p]]]
    /\ Goto(p, "write")
    /\ UNCHANGED <<lock, id, val, tmp, cur, disk, faults, acked, unsure>>

\* Deleting an id without a record returns without writing, hence without
\* making anything durable.
ReadNothing(p) ==
    /\ loc[p] = "read"
    /\ val[p] = None /\ cur.content[id[p]] = None
    /\ Return(p)
    /\ UNCHANGED <<id, val, mem, tmp, cur, disk, faults, acked, unsure>>

\* atomicfile.Write: CreateTemp, Write, Chmod.
WriteTemp(p) ==
    /\ loc[p] = "write"
    /\ tmp' = [tmp EXCEPT ![p] = [content |-> mem[p], synced |-> FALSE]]
    /\ Goto(p, "sync")
    /\ UNCHANGED <<lock, id, val, mem, cur, disk, faults, acked, unsure>>

\* f.Sync.
FaultySynced(file) == file
Synced(file) == [file EXCEPT !.synced = TRUE]

Sync(p) ==
    /\ loc[p] = "sync"
    /\ tmp' = [tmp EXCEPT ![p] = Synced(tmp[p])]
    /\ Goto(p, "rename")
    /\ UNCHANGED <<lock, id, val, mem, cur, disk, faults, acked, unsure>>

\* os.Rename: readers see the new file, the disk may not hold it yet.
Rename(p) ==
    /\ loc[p] = "rename"
    /\ cur' = tmp[p]
    /\ unsure' = unsure \cup {id[p]}
    /\ Goto(p, "syncdir")
    /\ UNCHANGED <<lock, id, val, mem, tmp, disk, faults, acked>>

\* What the disk holds when syncDir has returned.
FaultyHardened == disk   \* the directory is not synced
Hardened == cur

\* syncDir, and the nil error that acknowledges the update.
SyncDir(p) ==
    /\ loc[p] = "syncdir"
    /\ disk' = Hardened
    /\ acked' = [acked EXCEPT ![id[p]] = val[p]]
    /\ unsure' = unsure \ {id[p]}
    /\ Return(p)
    /\ UNCHANGED <<id, val, mem, tmp, cur, faults>>

\* Any of these steps fails: the error is returned and the temporary file
\* removed.  A failure of syncDir comes after the update is visible.
Fail(p) ==
    /\ loc[p] # "idle"
    /\ Fault /\ Return(p)
    /\ UNCHANGED <<id, val, mem, tmp, cur, disk, acked, unsure>>

\* The portal dies: its goroutines and its mutex with it.
Die ==
    /\ lock' = None
    /\ loc' = [p \in Procs |-> "idle"]
    /\ UNCHANGED <<id, val, mem, tmp, acked, unsure>>

Crash == Fault /\ Die /\ UNCHANGED <<cur, disk>>

\* The file system recovers one of the two files the name may refer to.
Recovered(file) ==
    [content |-> IF file.synced THEN file.content ELSE Torn, synced |-> TRUE]

PowerCut ==
    /\ Fault /\ Die
    /\ cur' \in {Recovered(cur), Recovered(disk)}
    /\ disk' = cur'

Next ==
    \/ \E p \in Procs :
          \/ \E i \in Ids, v \in Values \cup {None} : Call(p, i, v)
          \/ Read(p) \/ ReadNothing(p) \/ WriteTemp(p) \/ Sync(p) \/ Rename(p)
          \/ SyncDir(p) \/ Fail(p)
    \/ Crash \/ PowerCut

Spec == Init /\ [][Next]_vars

-----------------------------------------------------------------------------
(***************************************************************************)
(* An acknowledged update is there to stay: whatever crashed, was cut or   *)
(* failed since, a record has the value last acknowledged for its id, both *)
(* for readers now and after a power cut, unless a later call on that very *)
(* id got as far as the rename and was never acknowledged.  (atomicfile:   *)
(* "a torn write doesn't corrupt one record -- it loses all of them".)     *)
(***************************************************************************)
AckedSurvives ==
    \A i \in Ids \ unsure :
        cur.content[i] = acked[i] /\ disk.content[i] = acked[i]

(***************************************************************************)
(* The store is an atomic map: concurrent read-modify-write calls change   *)
(* one key at a time and lose none of each other's updates, and a power    *)
(* cut leaves a map that readers saw or that was made durable.             *)
(***************************************************************************)
Abstract == INSTANCE DurableMap WITH seen <- cur.content, durable <- disk.content

ImplementsDurableMap == Abstract!Spec
===========================================================================
