--------------------------- MODULE RescoreProofs ---------------------------
(***************************************************************************)
(* The rescore tool beside a portal with any number of handlers, ids and   *)
(* failures: the manual scores on file when it began, what a run beside a  *)
(* portal at rest leaves, and whose archive a record was computed from.    *)
(***************************************************************************)
EXTENDS Rescore, TLAPS

(***************************************************************************)
(* The inductive invariant.  First what the two processes know at each of  *)
(* their steps: a handler holds a map exactly while it holds the mutex.    *)
(***************************************************************************)
JobInv ==
    /\ \A h \in Handlers : job[h] # None =>
          /\ job[h].at = "write" <=> base[h] # None
          /\ job[h].op = "score" => job[h].irq \in IRQs
          /\ job[h].op = "score" /\ job[h].at \in {"update", "write"}
                => HasManual(job[h].rec)
    /\ \A h \in Handlers : job[h] = None => base[h] = None
    /\ \A g, h \in Handlers : base[g] # None /\ base[h] # None => g = h

\* The record the tool is about to write has a manual score exactly when the
\* record it read at the start has.
ToolInv ==
    /\ tpc = "write" <=> base[Tool] # None
    /\ tpc \in {"update", "write"} =>
          /\ tid \in Ids /\ after \in Record
          /\ HasManual(after) <=> HasManual(previous[tid])

\* No map anywhere knows a submission whose first record is yet to be
\* written, and nobody but its own handler works on it.
Unborn(i) ==
    /\ scores[i] = None /\ previous[i] = None /\ tid # i
    /\ i \notin entries \cup todo
    /\ \A p \in Handlers \cup {Tool} : base[p] # None => base[p][i] = None

Submitting(h) ==
    job[h] # None /\ job[h].op = "submit" /\ job[h].at \in {"update", "write"}

BornInv ==
    /\ \A i \in Ids \ sent :
          Unborn(i) /\ \A h \in Handlers : job[h] # None => job[h].id # i
    /\ \A h \in Handlers : Submitting(h) =>
          /\ Unborn(job[h].id)
          /\ \A g \in Handlers \ {h} : job[g] # None => job[g].id # job[h].id

\* How the maps in circulation are ordered: a manual score known to one is
\* known to those that will be written after it.
Chained(i) ==
    /\ HasManual(previous[i]) =>
          /\ HasManual(scores[i])
          /\ \A p \in Handlers \cup {Tool} : base[p] # None => HasManual(base[p][i])
    /\ \A h \in Handlers :
          base[h] # None /\ HasManual(scores[i]) => HasManual(base[h][i])
    /\ base[Tool] # None /\ HasManual(base[Tool][i]) =>
          /\ HasManual(scores[i])
          /\ \A h \in Handlers : base[h] # None => HasManual(base[h][i])

ChainInv == \A i \in Ids \ dropped : Chained(i)

IInv == TypeOK /\ JobInv /\ ToolInv /\ BornInv /\ ChainInv

-----------------------------------------------------------------------------
(* Facts about the types. *)

LEMMA FaultBound == ASSUME TypeOK, Fault PROVE faults' \in 0 .. MaxFaults
    BY BoundsAssumption DEF TypeOK, Fault

LEMMA NoScoresType == NoScores \in ScoresMap /\ \A i \in Ids : NoScores[i] = None
    BY DEF NoScores, ScoresMap

LEMMA WrittenMap ==
    ASSUME NEW m \in ScoresMap, NEW i \in Ids, NEW rec \in Record \cup {None}
    PROVE  /\ [m EXCEPT ![i] = rec] \in ScoresMap
           /\ [m EXCEPT ![i] = rec][i] = rec
           /\ \A k \in Ids \ {i} : [m EXCEPT ![i] = rec][k] = m[k]
    BY DEF ScoresMap

\* A handler that moves on keeps the rest of its job, the others all of it.
Ats == {"get", "archive", "update", "write", "log"}

LEMMA Moves ==
    ASSUME TypeOK, NEW h \in Handlers, job[h] # None, NEW a \in Ats, Goto(h, a)
    PROVE  /\ job' \in [Handlers -> Job \cup {None}]
           /\ job'[h] \in Job /\ job'[h] # None
           /\ job'[h].at = a /\ job'[h].op = job[h].op /\ job'[h].id = job[h].id
           /\ job'[h].irq = job[h].irq /\ job'[h].rec = job[h].rec
           /\ \A g \in Handlers \ {h} : job'[g] = job[g]
<1>1. job[h] \in Job /\ job' = [job EXCEPT ![h] = [job[h] EXCEPT !.at = a]]
    BY DEF TypeOK, Goto
<1>2. [job[h] EXCEPT !.at = a] \in Job
    BY <1>1 DEF Job, Ats
<1>3. job'[h] = [job[h] EXCEPT !.at = a] /\ \A g \in Handlers \ {h} : job'[g] = job[g]
    BY <1>1 DEF TypeOK
<1> QED
    BY <1>1, <1>2, <1>3, NamesAssumption DEF TypeOK, Job

\* One that returns leaves the others alone.
LEMMA Returns ==
    ASSUME TypeOK, NEW h \in Handlers, Return(h)
    PROVE  /\ job' \in [Handlers -> Job \cup {None}] /\ job'[h] = None
           /\ \A g \in Handlers \ {h} : job'[g] = job[g]
    BY DEF TypeOK, Return

LEMMA InitIInv == Init => IInv
<1> SUFFICES ASSUME Init PROVE IInv
    OBVIOUS
<1> USE DEF Init
<1>1. TypeOK
  <2>1. edits \in 0 .. MaxEdits /\ faults \in 0 .. MaxFaults
      BY BoundsAssumption
  <2>2. scores \in ScoresMap /\ previous \in ScoresMap
      BY NoScoresType
  <2> QED
      BY <2>1, <2>2 DEF TypeOK
<1>2. JobInv /\ ToolInv
    BY DEF JobInv, ToolInv
<1>3. BornInv /\ ChainInv
    BY NamesAssumption, NoScoresType
       DEF BornInv, Unborn, Submitting, ChainInv, Chained, HasManual
<1> QED
    BY <1>1, <1>2, <1>3 DEF IInv

-----------------------------------------------------------------------------
(* One lemma per action. *)

LEMMA SubmitIInv == ASSUME IInv, NEW h \in Handlers, NEW i \in Ids, Submit(h, i) PROVE IInv'
<1> USE DEF IInv, Submit, Start, Creatable, fileVars, portalVars, toolVars
<1>1. TypeOK'
  <2>1. job'[h] \in Job /\ job' = [job EXCEPT ![h] = job'[h]]
      BY NamesAssumption DEF TypeOK, Job, Record
  <2> QED
      BY <2>1 DEF TypeOK
<1>2. JobInv'
    BY NamesAssumption DEF TypeOK, JobInv, HasManual
<1>3. ToolInv'
    BY NamesAssumption DEF TypeOK, ToolInv, HasManual
<1>4. BornInv'
    BY DEF TypeOK, JobInv, BornInv, Unborn, Submitting
<1>5. ChainInv'
    BY DEF TypeOK, JobInv, ToolInv, ChainInv, Chained, HasManual
<1> QED
    BY <1>1, <1>2, <1>3, <1>4, <1>5

LEMMA SubmitLogIInv == ASSUME IInv, NEW h \in Handlers, SubmitLog(h) PROVE IInv'
<1> USE DEF IInv, SubmitLog, Append, AppendFails, Working, Return, fileVars, portalVars, toolVars
<1>1. TypeOK'
  <2>1. entries' \subseteq Ids /\ tail' \in {"clean", "noeol", "torn"}
      BY DEF TypeOK, Job
  <2>2. faults' \in 0 .. MaxFaults
      BY FaultBound DEF TypeOK
  <2> QED
      BY <2>1, <2>2 DEF TypeOK
<1>2. JobInv'
    BY NamesAssumption DEF TypeOK, JobInv, HasManual
<1>3. ToolInv'
    BY NamesAssumption DEF TypeOK, ToolInv, HasManual
<1>4. BornInv'
    BY DEF TypeOK, JobInv, BornInv, Unborn, Submitting
<1>5. ChainInv'
    BY DEF TypeOK, JobInv, ToolInv, ChainInv, Chained, HasManual
<1> QED
    BY <1>1, <1>2, <1>3, <1>4, <1>5

LEMMA ScoreLookupIInv == ASSUME IInv, NEW h \in Handlers, NEW i \in Ids, NEW q \in IRQs, ScoreLookup(h, i, q) PROVE IInv'
<1> USE DEF IInv, ScoreLookup, Start, fileVars, portalVars, toolVars
<1>1. TypeOK'
  <2>1. job'[h] \in Job /\ job' = [job EXCEPT ![h] = job'[h]]
      BY DEF TypeOK, Job
  <2>2. edits' \in 0 .. MaxEdits
      BY BoundsAssumption DEF TypeOK
  <2> QED
      BY <2>1, <2>2 DEF TypeOK
<1>2. JobInv'
    BY NamesAssumption DEF TypeOK, JobInv, HasManual
<1>3. ToolInv'
    BY NamesAssumption DEF TypeOK, ToolInv, HasManual
<1>4. BornInv'
    BY DEF TypeOK, JobInv, BornInv, Unborn, Submitting
<1>5. ChainInv'
    BY DEF TypeOK, JobInv, ToolInv, ChainInv, Chained, HasManual
<1> QED
    BY <1>1, <1>2, <1>3, <1>4, <1>5

LEMMA ScoreGetIInv == ASSUME IInv, NEW h \in Handlers, ScoreGet(h) PROVE IInv'
<1> USE DEF IInv, ScoreGet, Working, fileVars, portalVars, toolVars
<1> DEFINE rec == scores[job[h].id]
<1> DEFINE j == [job[h] EXCEPT !.at = "update", !.rec = [rec EXCEPT !.irq = job[h].irq]]
<1>0. \/ Return(h)
      \/ /\ job'[h] \in Job /\ job' \in [Handlers -> Job \cup {None}]
         /\ job'[h] # None /\ job'[h].at = "update" /\ job'[h].op = "score"
         /\ job'[h].id = job[h].id /\ job'[h].irq = job[h].irq
         /\ HasManual(job'[h].rec)
         /\ \A g \in Handlers \ {h} : job'[g] = job[g]
  <2> SUFFICES ASSUME ~Return(h) PROVE /\ job'[h] \in Job /\ job' \in [Handlers -> Job \cup {None}]
         /\ job'[h] # None /\ job'[h].at = "update" /\ job'[h].op = "score"
         /\ job'[h].id = job[h].id /\ job'[h].irq = job[h].irq
         /\ HasManual(job'[h].rec)
         /\ \A g \in Handlers \ {h} : job'[g] = job[g]
      OBVIOUS
  <2>1. job[h] \in Job /\ job[h].id \in Ids /\ job[h].irq \in IRQs
      BY DEF TypeOK, JobInv, Job
  <2>2. rec \in Record
      BY <2>1 DEF TypeOK, ScoresMap
  <2>3. [rec EXCEPT !.irq = job[h].irq] \in Record /\ HasManual([rec EXCEPT !.irq = job[h].irq])
      BY <2>1, <2>2, NamesAssumption DEF Record, HasManual
  <2>4. j \in Job /\ j.rec = [rec EXCEPT !.irq = job[h].irq] /\ j.at = "update"
        /\ j.op = job[h].op /\ j.id = job[h].id /\ j.irq = job[h].irq
      BY <2>1, <2>3 DEF Job
  <2>5. job' = [job EXCEPT ![h] = j]
      OBVIOUS
  <2>6. job'[h] = j /\ \A g \in Handlers \ {h} : job'[g] = job[g]
      BY <2>5 DEF TypeOK
  <2> QED
      BY <2>3, <2>4, <2>5, <2>6, NamesAssumption DEF TypeOK
<1>1. TypeOK'
    BY <1>0, Returns DEF TypeOK
<1>2. JobInv'
    BY <1>0, Returns DEF TypeOK, JobInv
<1>3. ToolInv'
    BY NamesAssumption DEF TypeOK, ToolInv, HasManual
<1>4. BornInv'
    BY <1>0, Returns DEF TypeOK, JobInv, BornInv, Unborn, Submitting
<1>5. ChainInv'
    BY DEF TypeOK, JobInv, ToolInv, ChainInv, Chained, HasManual
<1> QED
    BY <1>1, <1>2, <1>3, <1>4, <1>5

LEMMA DelLookupIInv == ASSUME IInv, NEW h \in Handlers, NEW i \in Ids, DelLookup(h, i) PROVE IInv'
<1> USE DEF IInv, DelLookup, Start, fileVars, portalVars, toolVars
<1>1. TypeOK'
    BY DEF TypeOK, Job
<1>2. JobInv'
    BY NamesAssumption DEF TypeOK, JobInv, HasManual
<1>3. ToolInv'
    BY NamesAssumption DEF TypeOK, ToolInv, HasManual
<1>4. BornInv'
    BY DEF TypeOK, JobInv, BornInv, Unborn, Submitting
<1>5. ChainInv'
    BY DEF TypeOK, JobInv, ToolInv, ChainInv, Chained, HasManual
<1> QED
    BY <1>1, <1>2, <1>3, <1>4, <1>5

LEMMA DelArchiveIInv == ASSUME IInv, NEW h \in Handlers, DelArchive(h) PROVE IInv'
<1> USE DEF IInv, DelArchive, Working, fileVars, portalVars, toolVars
<1>0. Goto(h, "update") \/ Return(h)
    OBVIOUS
<1>1. TypeOK'
  <2>1. job' \in [Handlers -> Job \cup {None}]
      BY <1>0, Moves, Returns DEF Ats
  <2>2. archive' \in [Files -> Ids \cup {None}] /\ faults' \in 0 .. MaxFaults
      BY FaultBound DEF TypeOK
  <2> QED
      BY <2>1, <2>2 DEF TypeOK
<1>2. JobInv'
    BY <1>0, Moves, Returns, NamesAssumption DEF TypeOK, JobInv, Ats
<1>3. ToolInv'
    BY NamesAssumption DEF TypeOK, ToolInv, HasManual
<1>4. BornInv'
    BY <1>0, Moves, Returns DEF TypeOK, JobInv, BornInv, Unborn, Submitting, Ats
<1>5. ChainInv'
    BY DEF TypeOK, JobInv, ToolInv, ChainInv, Chained, HasManual
<1> QED
    BY <1>1, <1>2, <1>3, <1>4, <1>5

LEMMA DelEntryIInv == ASSUME IInv, NEW h \in Handlers, DelEntry(h) PROVE IInv'
<1> USE DEF IInv, DelEntry, RemoveEntry, Working, Return, fileVars, portalVars, toolVars
<1>1. TypeOK'
  <2>1. entries' \subseteq Ids /\ tail' \in {"clean", "noeol", "torn"}
      BY DEF TypeOK
  <2>2. faults' \in 0 .. MaxFaults
      BY FaultBound DEF TypeOK
  <2> QED
      BY <2>1, <2>2 DEF TypeOK
<1>2. JobInv'
    BY NamesAssumption DEF TypeOK, JobInv, HasManual
<1>3. ToolInv'
    BY NamesAssumption DEF TypeOK, ToolInv, HasManual
<1>4. BornInv'
    BY DEF TypeOK, JobInv, BornInv, Unborn, Submitting
<1>5. ChainInv'
    BY DEF TypeOK, JobInv, ToolInv, ChainInv, Chained, HasManual
<1> QED
    BY <1>1, <1>2, <1>3, <1>4, <1>5

LEMMA UpdateReadIInv == ASSUME IInv, NEW h \in Handlers, UpdateRead(h) PROVE IInv'
<1> USE DEF IInv, UpdateRead, MutexFree, fileVars, portalVars, toolVars
<1>0. \/ job[h].op = "score" /\ Return(h) /\ UNCHANGED base
      \/ job[h].op # "score" /\ Goto(h, "log") /\ UNCHANGED base
         /\ job[h].op = "delete"
      \/ Goto(h, "write") /\ base' = [base EXCEPT ![h] = scores]
    BY DEF AfterUpdate
<1>1. TypeOK'
    BY <1>0, Moves, Returns DEF TypeOK, Ats
<1>2. JobInv'
    BY <1>0, Moves, Returns, NamesAssumption DEF TypeOK, JobInv, Ats
<1>3. ToolInv'
    BY NamesAssumption DEF TypeOK, ToolInv, HasManual
<1>4. BornInv'
    BY <1>0, Moves, Returns DEF TypeOK, JobInv, BornInv, Unborn, Submitting, Ats
<1>5. ChainInv'
    BY DEF TypeOK, JobInv, ToolInv, ChainInv, Chained, HasManual
<1> QED
    BY <1>1, <1>2, <1>3, <1>4, <1>5

LEMMA UpdateWriteIInv == ASSUME IInv, NEW h \in Handlers, UpdateWrite(h) PROVE IInv'
<1> USE DEF IInv, UpdateWrite, fileVars, portalVars, toolVars
<1>0. \/ job[h].op = "score" /\ Return(h)
      \/ job[h].op # "score" /\ Goto(h, "log")
    BY DEF AfterUpdate
<1>a. /\ job[h] \in Job /\ job[h].id \in Ids /\ job[h].rec \in Record \cup {None}
      /\ base[h] \in ScoresMap /\ base[h] # None
      /\ base' = [base EXCEPT ![h] = None] /\ base'[h] = None
      /\ \A p \in Handlers \cup {Tool} : p # h => base'[p] = base[p]
      /\ \A g \in Handlers : g # h => base[g] = None
    BY DEF TypeOK, JobInv, Job
<1>b. /\ scores' \in ScoresMap /\ scores'[job[h].id] = job[h].rec
      /\ \A k \in Ids \ {job[h].id} : scores'[k] = base[h][k]
    BY <1>a, WrittenMap DEF Written
<1>1. TypeOK'
    BY <1>0, <1>a, <1>b, Moves, Returns DEF TypeOK, Ats
<1>2. JobInv'
    BY <1>0, <1>a, Moves, Returns, NamesAssumption DEF TypeOK, JobInv, Ats
<1>3. ToolInv'
    BY NamesAssumption DEF TypeOK, ToolInv, HasManual
<1>4. BornInv'
  <2>1. \A i \in Ids \ {job[h].id} : Unborn(i) => Unborn(i)'
      BY <1>a, <1>b DEF TypeOK, Unborn
  <2>2. ~Submitting(h)' /\ (job'[h] # None => job'[h].id = job[h].id)
      BY <1>0, <1>a, Moves, Returns DEF Submitting, Ats
  <2>3. \A g \in Handlers \ {h} : job'[g] = job[g] /\ (Submitting(g)' <=> Submitting(g))
      BY <1>0, <1>a, Moves, Returns DEF Submitting, Ats
  <2>4. \A g \in Handlers : Submitting(g) => job[g].id \in Ids
      BY DEF Submitting, TypeOK, Job
  <2>5. job[h].id \in sent /\ \A g \in Handlers \ {h} : Submitting(g) => job[g].id # job[h].id
      BY <1>a DEF BornInv
  <2> QED
      BY <2>1, <2>2, <2>3, <2>4, <2>5 DEF BornInv
<1>5. ChainInv'
  <2> SUFFICES ASSUME NEW i \in Ids \ dropped' PROVE Chained(i)'
      BY DEF ChainInv
  <2>0. i \notin dropped /\ Chained(i)
      BY DEF ChainInv
  <2>1. CASE i # job[h].id
      BY <2>0, <2>1, <1>a, <1>b, SMTT(30) DEF Chained, HasManual, JobInv, TypeOK
  <2>2. CASE i = job[h].id /\ job[h].op = "score"
      BY <2>0, <2>2, <1>a, <1>b, SMTT(30) DEF Chained, HasManual, JobInv, TypeOK
  <2>3. CASE i = job[h].id /\ job[h].op = "submit"
      BY <2>0, <2>3, <1>a, <1>b DEF Chained, HasManual, JobInv, TypeOK,
         BornInv, Unborn, Submitting
  <2>4. job[h].op # "delete" \/ i # job[h].id
      OBVIOUS
  <2> QED
      BY <1>a, <2>1, <2>2, <2>3, <2>4 DEF Job
<1> QED
    BY <1>1, <1>2, <1>3, <1>4, <1>5

LEMMA UpdateFailsIInv == ASSUME IInv, NEW h \in Handlers, UpdateFails(h) PROVE IInv'
<1> USE DEF IInv, UpdateFails, Fault, fileVars, portalVars, toolVars
<1>0. \/ job[h].op # "submit" /\ Return(h)
      \/ job[h].op = "submit" /\ Goto(h, "log")
    OBVIOUS
<1>1. TypeOK'
    BY <1>0, FaultBound, Moves, Returns DEF TypeOK, Ats
<1>2. JobInv'
    BY <1>0, Moves, Returns, NamesAssumption DEF TypeOK, JobInv, Ats
<1>3. ToolInv'
    BY NamesAssumption DEF TypeOK, ToolInv, HasManual
<1>4. BornInv'
    BY <1>0, Moves, Returns DEF TypeOK, JobInv, BornInv, Unborn, Submitting, Ats
<1>5. ChainInv'
    BY DEF TypeOK, JobInv, ToolInv, ChainInv, Chained, HasManual
<1> QED
    BY <1>1, <1>2, <1>3, <1>4, <1>5

LEMMA ConfigureIInv == ASSUME IInv, Configure PROVE IInv'
<1> USE DEF IInv, Configure, fileVars, portalVars, toolVars
<1>1. TypeOK'
    BY DEF TypeOK, Job
<1>2. JobInv'
    BY NamesAssumption DEF TypeOK, JobInv, HasManual
<1>3. ToolInv'
    BY NamesAssumption DEF TypeOK, ToolInv, HasManual
<1>4. BornInv'
    BY DEF TypeOK, JobInv, BornInv, Unborn, Submitting
<1>5. ChainInv'
    BY DEF TypeOK, JobInv, ToolInv, ChainInv, Chained, HasManual
<1> QED
    BY <1>1, <1>2, <1>3, <1>4, <1>5

LEMMA PortalCrashIInv == ASSUME IInv, PortalCrash PROVE IInv'
<1> USE DEF IInv, PortalCrash, Fault, fileVars, portalVars, toolVars
<1>1. TypeOK'
    BY FaultBound DEF TypeOK, Job
<1>2. JobInv'
    BY NamesAssumption DEF TypeOK, JobInv, HasManual
<1>3. ToolInv'
    BY NamesAssumption DEF TypeOK, ToolInv, HasManual
<1>4. BornInv'
    BY DEF TypeOK, JobInv, BornInv, Unborn, Submitting
<1>5. ChainInv'
    BY DEF TypeOK, JobInv, ToolInv, ChainInv, Chained, HasManual
<1> QED
    BY <1>1, <1>2, <1>3, <1>4, <1>5

LEMMA ToolStartIInv == ASSUME IInv, ToolStart PROVE IInv'
<1> USE DEF IInv, ToolStart, fileVars, portalVars, toolVars
<1>1. TypeOK'
    BY NoScoresType DEF TypeOK
<1>2. JobInv'
    BY NamesAssumption DEF TypeOK, JobInv, HasManual
<1>3. ToolInv'
    BY NamesAssumption DEF TypeOK, ToolInv, HasManual
<1>4. BornInv'
  <2>1. \A i \in Ids : Unborn(i) => Unborn(i)'
      BY NoScoresType, NamesAssumption DEF TypeOK, Unborn
  <2>2. \A h \in Handlers : job'[h] = job[h] /\ (Submitting(h)' <=> Submitting(h))
      BY DEF Submitting
  <2>3. \A h \in Handlers : Submitting(h) => job[h].id \in Ids
      BY DEF Submitting, TypeOK, Job
  <2> QED
      BY <2>1, <2>2, <2>3 DEF BornInv
<1>5. ChainInv'
    BY NoScoresType DEF TypeOK, JobInv, ToolInv, ChainInv, Chained, HasManual
<1> QED
    BY <1>1, <1>2, <1>3, <1>4, <1>5

LEMMA ReadEntriesIInv == ASSUME IInv, ReadEntries PROVE IInv'
<1> USE DEF IInv, ReadEntries, fileVars, portalVars, toolVars
<1>1. TypeOK'
    BY DEF TypeOK, Job
<1>2. JobInv'
    BY NamesAssumption DEF TypeOK, JobInv, HasManual
<1>3. ToolInv'
    BY NamesAssumption DEF TypeOK, ToolInv, HasManual
<1>4. BornInv'
    BY DEF TypeOK, JobInv, BornInv, Unborn, Submitting
<1>5. ChainInv'
    BY DEF TypeOK, JobInv, ToolInv, ChainInv, Chained, HasManual
<1> QED
    BY <1>1, <1>2, <1>3, <1>4, <1>5

LEMMA ReadPreviousIInv == ASSUME IInv, ReadPrevious PROVE IInv'
<1> USE DEF IInv, ReadPrevious, fileVars, portalVars, toolVars
<1>1. TypeOK'
    BY DEF TypeOK, Job
<1>2. JobInv'
    BY NamesAssumption DEF TypeOK, JobInv, HasManual
<1>3. ToolInv'
    BY NamesAssumption DEF TypeOK, ToolInv, HasManual
<1>4. BornInv'
    BY DEF TypeOK, JobInv, BornInv, Unborn, Submitting
<1>5. ChainInv'
    BY DEF TypeOK, JobInv, ToolInv, ChainInv, Chained, HasManual
<1> QED
    BY <1>1, <1>2, <1>3, <1>4, <1>5

LEMMA RescoreOneIInv == ASSUME IInv, NEW i \in Ids, RescoreOne(i) PROVE IInv'
<1> USE DEF IInv, RescoreOne, fileVars, portalVars, toolVars
<1>0. Rescored(i) \in Record /\ (HasManual(Rescored(i)) <=> HasManual(previous[i]))
  <2>1. name[i] \in Files /\ archive[name[i]] \in Ids
      BY NamesAssumption DEF TypeOK
  <2>2. previous[i] \in Record \cup {None}
      BY DEF TypeOK, ScoresMap
  <2>3. Carried(i) \in IRQs \cup {None} /\ (Carried(i) # None <=> HasManual(previous[i]))
      BY <2>2 DEF Carried, HasManual, Record
  <2>4. Rescored(i) \in Record /\ Rescored(i).irq = Carried(i)
      BY <2>1, <2>3 DEF Rescored, Record
  <2> QED
      BY <2>3, <2>4, NamesAssumption DEF HasManual
<1>1. TypeOK'
    BY <1>0 DEF TypeOK
<1>2. JobInv'
    BY NamesAssumption DEF TypeOK, JobInv, HasManual
<1>3. ToolInv'
    BY <1>0 DEF TypeOK, ToolInv
<1>4. BornInv'
    BY DEF TypeOK, JobInv, BornInv, Unborn, Submitting
<1>5. ChainInv'
    BY DEF TypeOK, JobInv, ToolInv, ChainInv, Chained, HasManual
<1> QED
    BY <1>1, <1>2, <1>3, <1>4, <1>5

LEMMA SkipOneIInv == ASSUME IInv, NEW i \in Ids, SkipOne(i) PROVE IInv'
<1> USE DEF IInv, SkipOne, AfterSkip, Fault, fileVars, portalVars, toolVars
<1>1. TypeOK'
    BY FaultBound DEF TypeOK, Job
<1>2. JobInv'
    BY NamesAssumption DEF TypeOK, JobInv, HasManual
<1>3. ToolInv'
    BY NamesAssumption DEF TypeOK, ToolInv, HasManual
<1>4. BornInv'
    BY DEF TypeOK, JobInv, BornInv, Unborn, Submitting
<1>5. ChainInv'
    BY DEF TypeOK, JobInv, ToolInv, ChainInv, Chained, HasManual
<1> QED
    BY <1>1, <1>2, <1>3, <1>4, <1>5

LEMMA ToolReadIInv == ASSUME IInv, ToolRead PROVE IInv'
<1> USE DEF IInv, ToolRead, fileVars, portalVars, toolVars
<1>1. TypeOK'
    BY DEF TypeOK, Job
<1>2. JobInv'
    BY NamesAssumption DEF TypeOK, JobInv, HasManual
<1>3. ToolInv'
    BY NamesAssumption DEF TypeOK, ToolInv, HasManual
<1>4. BornInv'
    BY DEF TypeOK, JobInv, BornInv, Unborn, Submitting
<1>5. ChainInv'
    BY DEF TypeOK, JobInv, ToolInv, ChainInv, Chained, HasManual
<1> QED
    BY <1>1, <1>2, <1>3, <1>4, <1>5

LEMMA ToolWriteIInv == ASSUME IInv, ToolWrite PROVE IInv'
<1> USE DEF IInv, ToolWrite, fileVars, portalVars, toolVars
<1>a. /\ tid \in Ids /\ after \in Record
      /\ base[Tool] \in ScoresMap /\ base[Tool] # None
    BY DEF TypeOK, ToolInv
<1>b. /\ scores' \in ScoresMap /\ scores'[tid] = after
      /\ \A k \in Ids \ {tid} : scores'[k] = base[Tool][k]
    BY <1>a, WrittenMap DEF Written
<1>1. TypeOK'
    BY <1>a, <1>b DEF TypeOK
<1>2. JobInv'
    BY NamesAssumption DEF TypeOK, JobInv, HasManual
<1>3. ToolInv'
    BY NamesAssumption DEF TypeOK, ToolInv, HasManual
<1>4. BornInv'
  <2>1. \A i \in Ids : Unborn(i) => Unborn(i)'
      BY <1>a, <1>b, NamesAssumption DEF TypeOK, Unborn
  <2>2. \A h \in Handlers : job'[h] = job[h] /\ (Submitting(h)' <=> Submitting(h))
      BY DEF Submitting
  <2>3. \A h \in Handlers : Submitting(h) => job[h].id \in Ids
      BY DEF Submitting, TypeOK, Job
  <2> QED
      BY <2>1, <2>2, <2>3 DEF BornInv
<1>5. ChainInv'
    BY <1>a, <1>b DEF TypeOK, JobInv, ToolInv, ChainInv, Chained, HasManual
<1> QED
    BY <1>1, <1>2, <1>3, <1>4, <1>5

LEMMA ToolDoneIInv == ASSUME IInv, ToolDone PROVE IInv'
<1> USE DEF IInv, ToolDone, fileVars, portalVars, toolVars
<1>1. TypeOK'
    BY DEF TypeOK, Job
<1>2. JobInv'
    BY NamesAssumption DEF TypeOK, JobInv, HasManual
<1>3. ToolInv'
    BY NamesAssumption DEF TypeOK, ToolInv, HasManual
<1>4. BornInv'
    BY DEF TypeOK, JobInv, BornInv, Unborn, Submitting
<1>5. ChainInv'
    BY DEF TypeOK, JobInv, ToolInv, ChainInv, Chained, HasManual
<1> QED
    BY <1>1, <1>2, <1>3, <1>4, <1>5

LEMMA EndRunIInv == ASSUME IInv, EndRun, faults' \in 0 .. MaxFaults PROVE IInv'
<1> USE DEF IInv, EndRun, fileVars, portalVars, toolVars
<1>1. TypeOK'
    BY NoScoresType DEF TypeOK
<1>2. JobInv'
    BY NamesAssumption DEF TypeOK, JobInv, HasManual
<1>3. ToolInv'
    BY NamesAssumption DEF TypeOK, ToolInv, HasManual
<1>4. BornInv'
  <2>1. \A i \in Ids : Unborn(i) => Unborn(i)'
      BY NoScoresType, NamesAssumption DEF TypeOK, Unborn
  <2>2. \A h \in Handlers : job'[h] = job[h] /\ (Submitting(h)' <=> Submitting(h))
      BY DEF Submitting
  <2>3. \A h \in Handlers : Submitting(h) => job[h].id \in Ids
      BY DEF Submitting, TypeOK, Job
  <2> QED
      BY <2>1, <2>2, <2>3 DEF BornInv
<1>5. ChainInv'
    BY NoScoresType DEF TypeOK, JobInv, ToolInv, ChainInv, Chained, HasManual
<1> QED
    BY <1>1, <1>2, <1>3, <1>4, <1>5

-----------------------------------------------------------------------------
(* Every step, and the theorems. *)

LEMMA NextIInv == IInv /\ [Next]_vars => IInv'
<1> SUFFICES ASSUME IInv, [Next]_vars PROVE IInv'
    OBVIOUS
<1>1. CASE UNCHANGED vars
    BY <1>1 DEF vars, fileVars, portalVars, toolVars, IInv, TypeOK, JobInv, ToolInv,
       BornInv, Unborn, Submitting, ChainInv, Chained, HasManual
<1>2. ASSUME NEW h \in Handlers, Handle(h) PROVE IInv'
    BY <1>2, UpdateReadIInv, UpdateWriteIInv, UpdateFailsIInv, SubmitLogIInv,
       ScoreGetIInv, DelArchiveIInv, DelEntryIInv DEF Handle, Update
<1>3. ASSUME NEW h \in Handlers, NEW i \in Ids, Submit(h, i) \/ DelLookup(h, i)
      PROVE  IInv'
    BY <1>3, SubmitIInv, DelLookupIInv
<1>4. ASSUME NEW h \in Handlers, NEW i \in Ids, NEW q \in IRQs, ScoreLookup(h, i, q)
      PROVE  IInv'
    BY <1>4, ScoreLookupIInv
<1>5. CASE Configure \/ PortalCrash \/ ToolStart
    BY <1>5, ConfigureIInv, PortalCrashIInv, ToolStartIInv
<1>6. ASSUME NEW i \in Ids, RescoreOne(i) \/ SkipOne(i) PROVE IInv'
    BY <1>6, RescoreOneIInv, SkipOneIInv
<1>7. CASE ReadEntries \/ ReadPrevious \/ ToolRead \/ ToolWrite \/ ToolDone
    BY <1>7, ReadEntriesIInv, ReadPreviousIInv, ToolReadIInv, ToolWriteIInv,
       ToolDoneIInv
<1>8. CASE RefuseEntries \/ ToolAborts
    BY <1>8, EndRunIInv, FaultBound DEF RefuseEntries, ToolAborts, IInv, TypeOK
<1> QED
    BY <1>1, <1>2, <1>3, <1>4, <1>5, <1>6, <1>7, <1>8 DEF Next, Portal, ToolStep

LEMMA Invariance == Spec => []IInv
    BY InitIInv, NextIInv, PTL DEF Spec

\* The files both processes write keep their types: scores.json is always a
\* whole map of records.
THEOREM RescoreTypeCorrect == Spec => []TypeOK
<1>1. IInv => TypeOK
    BY DEF IInv
<1> QED
    BY Invariance, <1>1, PTL

\* A manual score on file when the tool reads the records outlives the run,
\* though the portal's handlers, however many, rewrite the same file without
\* a common lock.
THEOREM SettledManualsSurvive == Spec => []SettledManualSurvives
<1>1. IInv => SettledManualSurvives
    BY DEF IInv, ChainInv, Chained, SettledManualSurvives
<1> QED
    BY Invariance, <1>1, PTL

-----------------------------------------------------------------------------
(* A run of the tool during which the portal stands still.                 *)

Pending(id) == tpc \in {"update", "write"} /\ id = tid

\* What the run has corrected so far.
Corrected(id) == apply /\ id \in entries \ todo /\ ~Pending(id) /\ ~Skipped(id)

\* The part of the list that is done has recomputed records, the part that is
\* to come, and what was skipped, the records the tool read at the start.
QuietInv ==
    quiet =>
        /\ \A h \in Handlers : job[h] = None
        /\ tpc \in {"byid", "loop", "update", "write", "done"}
        /\ todo \subseteq entries
        /\ tpc = "byid" => todo = entries
        /\ tpc = "done" => todo = {}
        /\ tpc # "byid" => \A id \in Ids :
              scores[id] = IF Corrected(id) THEN Rescored(id) ELSE previous[id]
        /\ tpc \in {"update", "write"} =>
              /\ apply /\ tid \in entries \ todo /\ ~Skipped(tid)
              /\ after = Rescored(tid)
        /\ tpc = "write" => base[Tool] = scores

LEMMA NextQuietInv == ASSUME IInv, QuietInv, [Next]_vars PROVE QuietInv'
<1> SUFFICES ASSUME quiet' PROVE QuietInv'
    BY DEF QuietInv
<1> USE DEF QuietInv, Corrected, Pending, Skipped, Rescored, Carried
<1>0. TypeOK
    BY DEF IInv
<1>1. CASE ReadEntries
  <2>1. \A h \in Handlers : job[h] = None
      BY <1>1, Zenon DEF ReadEntries
  <2>2. UNCHANGED <<job, entries>> /\ tpc' = "byid" /\ todo' = entries
      BY <1>1 DEF ReadEntries, fileVars, portalVars
  <2> QED
      BY <2>1, <2>2
<1>2. ASSUME quiet, NEW h \in Handlers, Handle(h) PROVE FALSE
    BY <1>2 DEF Handle, Update, UpdateRead, UpdateWrite, UpdateFails, SubmitLog,
       ScoreGet, DelArchive, DelEntry, Working
<1>3. ASSUME NEW h \in Handlers, NEW i \in Ids, NEW q \in IRQs,
             Submit(h, i) \/ DelLookup(h, i) \/ ScoreLookup(h, i, q)
      PROVE  FALSE
    BY <1>3 DEF Submit, DelLookup, ScoreLookup, Start
<1>4. CASE ToolStart \/ RefuseEntries \/ ToolAborts
    BY <1>4 DEF ToolStart, RefuseEntries, ToolAborts, EndRun
<1>5. CASE quiet /\ ReadPrevious
    BY <1>5 DEF ReadPrevious, fileVars, portalVars
<1>6. ASSUME quiet, NEW i \in Ids, RescoreOne(i) PROVE QuietInv'
  <2>1. /\ UNCHANGED <<job, name, archive, entries, scores, previous, apply>>
        /\ todo' = todo \ {i} /\ i \in todo /\ tpc = "loop" /\ ~Skipped(i)
      BY <1>6 DEF RescoreOne, fileVars, portalVars
  <2>2. CASE apply
    <3>1. tid' = i /\ after' = Rescored(i) /\ tpc' = "update"
        BY <1>6, <2>2 DEF RescoreOne
    <3> QED
        BY <1>6, <2>1, <2>2, <3>1
  <2>3. CASE ~apply
    <3>1. tpc' = "loop"
        BY <1>6, <2>1, <2>3 DEF RescoreOne
    <3> QED
        BY <1>6, <2>1, <2>3, <3>1
  <2> QED
      BY <2>2, <2>3
<1>7. ASSUME quiet, NEW i \in Ids, SkipOne(i) PROVE QuietInv'
    BY <1>7 DEF SkipOne, AfterSkip, fileVars, portalVars
<1>8. CASE quiet /\ ToolRead
    BY <1>0, <1>8 DEF ToolRead, fileVars, portalVars, TypeOK
<1>9. CASE quiet /\ ToolWrite
  <2>1. /\ UNCHANGED <<job, name, archive, entries, previous, apply, todo>>
        /\ tpc' = "loop" /\ tpc = "write"
      BY <1>9 DEF ToolWrite, portalVars
  <2>2. scores' = [scores EXCEPT ![tid] = Rescored(tid)] /\ tid \in Ids
      BY <1>0, <1>9 DEF ToolWrite, Written, TypeOK
  <2>3. \A i \in Ids : scores'[i] = IF i = tid THEN Rescored(tid) ELSE scores[i]
      BY <1>0, <2>2 DEF TypeOK, ScoresMap
  <2>4. \A i \in Ids : Rescored(i)' = Rescored(i)
      BY <2>1
  <2>5. \A i \in Ids : Corrected(i)' <=> Corrected(i) \/ i = tid
      BY <1>9, <2>1
  <2> HIDE DEF Corrected, Rescored
  <2> QED
      BY <1>9, <2>1, <2>3, <2>4, <2>5
<1>10. CASE quiet /\ ToolDone
    BY <1>10 DEF ToolDone, fileVars, portalVars
<1>11. CASE quiet /\ (Configure \/ PortalCrash \/ UNCHANGED vars)
  <2>1. /\ UNCHANGED <<name, archive, entries, scores, previous, apply, todo, tpc,
                       tid, after>>
        /\ base'[Tool] = base[Tool] /\ \A h \in Handlers : job'[h] = None
      BY <1>11 DEF Configure, PortalCrash, vars, fileVars, portalVars, toolVars
  <2> QED
      BY <1>11, <2>1
<1>12. quiet \/ ReadEntries \/ ToolStart \/ (\E h \in Handlers, i \in Ids :
          Submit(h, i) \/ DelLookup(h, i) \/ \E q \in IRQs : ScoreLookup(h, i, q))
    BY DEF Next, Portal, Handle, Update, ToolStep, vars, UpdateRead, UpdateWrite,
       UpdateFails, SubmitLog, ScoreGet, DelArchive, DelEntry, Configure, PortalCrash,
       ReadPrevious, RescoreOne, SkipOne, ToolRead, ToolWrite, ToolDone, ToolAborts,
       RefuseEntries, EndRun
<1> HIDE DEF QuietInv
<1>13. ASSUME NEW h \in Handlers, NEW i \in Ids, Submit(h, i) \/ DelLookup(h, i)
       PROVE  FALSE
    BY <1>13 DEF Submit, DelLookup, Start
<1> QED
    BY <1>1, <1>2, <1>3, <1>4, <1>5, <1>6, <1>7, <1>8, <1>9, <1>10, <1>11, <1>12,
       <1>13, Zenon DEF Next, Portal, ToolStep

\* A completed -apply run beside a portal that stands still recomputes every
\* readable submission's record, manual score carried, and no other.
THEOREM QuietRunsCorrect == Spec => []QuietRunCorrects
<1>1. Init => QuietInv
    BY DEF Init, QuietInv
<1>2. IInv /\ QuietInv /\ [Next]_vars => QuietInv'
    BY NextQuietInv
<1>3. QuietInv => QuietRunCorrects
    BY DEF QuietInv, QuietRunCorrects, Corrected, Pending, Rescored, Carried
<1> QED
    BY Invariance, <1>1, <1>2, <1>3, PTL DEF Spec

\* The tool's write leaves every manual score as it is on file.
ManualsKept ==
    ToolWrite => \A id \in Ids : scores[id] # None /\ scores'[id] # None
                                    => scores'[id].irq = scores[id].irq

\* Beside a portal that stands still, no write of the tool changes a manual
\* score, in the middle of the run as little as at its end.  (Beside one that
\* does not it may: see ManualUntouched.)
THEOREM QuietRunsKeepManuals == Spec => [][quiet => ManualsKept]_vars
<1>1. Init => QuietInv
    BY DEF Init, QuietInv
<1>2. IInv /\ QuietInv /\ [Next]_vars => QuietInv'
    BY NextQuietInv
<1>3. ASSUME IInv, QuietInv, quiet, ToolWrite, NEW i \in Ids,
             scores[i] # None, scores'[i] # None
      PROVE  scores'[i].irq = scores[i].irq
  <2>1. /\ tid \in Ids /\ after = Rescored(tid) /\ base[Tool] = scores
        /\ scores[tid] = previous[tid]
      BY <1>3 DEF ToolWrite, QuietInv, Corrected, Pending, IInv, TypeOK
  <2>2. scores' = [scores EXCEPT ![tid] = after]
      BY <1>3, <2>1 DEF ToolWrite, Written
  <2>3. scores'[i] = IF i = tid THEN after ELSE scores[i]
      BY <1>3, <2>1, <2>2 DEF IInv, TypeOK, ScoresMap
  <2>4. scores[tid] # None => after.irq = scores[tid].irq
      BY <2>1 DEF Rescored, Carried
  <2> QED
      BY <1>3, <2>3, <2>4
<1>4. IInv /\ QuietInv => [quiet => ManualsKept]_vars
    BY <1>3 DEF ManualsKept
<1> QED
    BY Invariance, <1>1, <1>2, <1>4, PTL DEF Spec

-----------------------------------------------------------------------------
(* Whose archive a record was computed from, while nothing fails and with  *)
(* one delete handler at work at a time.                                   *)

Deleting(h) == job[h] # None /\ job[h].op = "delete"

\* Two deletions never overlap.
OneDelete == \A g, h \in Handlers : Deleting(g) /\ Deleting(h) => g = h

\* A submission being made is not listed and nobody else's; one being deleted
\* is still listed.
AloneInv ==
    \A h \in Handlers : job[h] # None =>
        /\ job[h].op = "submit" =>
              /\ job[h].id \notin entries
              /\ \A g \in Handlers \ {h} : job[g] # None => job[g].id # job[h].id
        /\ job[h].op = "delete" => job[h].id \in entries

\* A submission that is listed or being made, and not being deleted.
Made(i) ==
    i \in entries \/ \E h \in Handlers : job[h] # None /\ job[h].op = "submit"
                                         /\ job[h].id = i
Live(i) == Made(i) /\ ~BeingDeleted(i)

Own(i, rec) == rec # None => rec.from = i

\* The records of a live submission, wherever they are on their way.
OwnRecords(i) ==
    /\ Own(i, scores[i])
    /\ \A p \in Handlers \cup {Tool} : base[p] # None => Own(i, base[p][i])
    /\ tpc \in {"update", "write"} /\ tid = i => Own(i, after)
    /\ \A h \in Handlers : job[h] # None /\ job[h].id = i => Own(i, job[h].rec)

\* The log is sound, and a live submission's file is its own, until a deletion
\* removes it.
FromInv ==
    faults = 0 =>
        /\ tail = "clean"
        /\ \A i \in Ids : Live(i) => archive[name[i]] = i /\ OwnRecords(i)
        /\ \A h \in Handlers : Working(h, "delete", "archive") =>
               archive[name[job[h].id]] = job[h].id

LEMMA NoFaultYet == ASSUME IInv, [Next]_vars, faults' = 0 PROVE faults = 0 /\ ~Fault
<1>1. faults \in Nat
    BY BoundsAssumption DEF IInv, TypeOK
<1>2. ~Fault
    BY <1>1 DEF Fault
<1>3. UNCHANGED faults
    BY <1>2, ZenonT(60) DEF Next, Portal, Handle, Update, ToolStep, vars, Submit,
       SubmitLog, ScoreLookup, ScoreGet, DelLookup, DelArchive, DelEntry, UpdateRead,
       UpdateWrite, UpdateFails, Configure, PortalCrash, ToolStart, ReadEntries,
       ReadPrevious, RescoreOne, SkipOne, ToolRead, ToolWrite, ToolDone, ToolAborts,
       RefuseEntries
<1> QED
    BY <1>2, <1>3

\* A handler's step, as the job it leaves: none, or the same one further on.
LEMMA HandleJob ==
    ASSUME IInv, NEW h \in Handlers, Handle(h)
    PROVE  /\ job[h] \in Job /\ job[h] # None
           /\ \A g \in Handlers \ {h} : job'[g] = job[g]
           /\ \/ job'[h] = None
              \/ /\ job'[h] # None /\ job'[h].op = job[h].op
                 /\ job'[h].id = job[h].id
                 /\ job'[h].at # "archive"
                 /\ ScoreGet(h) \/ job'[h].rec = job[h].rec
<1>0. TypeOK
    BY DEF IInv
<1>1. job[h] # None /\ job[h] \in Job
    BY <1>0 DEF Handle, Update, UpdateRead, UpdateWrite, UpdateFails, SubmitLog,
       ScoreGet, DelArchive, DelEntry, Working, TypeOK
<1>2. CASE Return(h)
    BY <1>0, <1>1, <1>2, Returns
<1>3. CASE \E a \in {"update", "write", "log"} : Goto(h, a)
    BY <1>0, <1>1, <1>3, Moves DEF Ats
<1>4. CASE ScoreGet(h) /\ ~Return(h)
  <2> DEFINE rec == [scores[job[h].id] EXCEPT !.irq = job[h].irq]
  <2> DEFINE j == [job[h] EXCEPT !.at = "update", !.rec = rec]
  <2>1. job' = [job EXCEPT ![h] = j]
      BY <1>4 DEF ScoreGet
  <2>2. job'[h] = j /\ \A g \in Handlers \ {h} : job'[g] = job[g]
      BY <1>0, <2>1 DEF TypeOK
  <2>3. j.op = job[h].op /\ j.id = job[h].id /\ j.at = "update"
      BY <1>1 DEF Job
  <2>4. job'[h] # None
    <3>1. ScoreGet(h)
        BY <1>4
    <3>2. job[h].id \in Ids /\ job[h].irq \in IRQs
        BY <1>1, <3>1 DEF ScoreGet, Working, IInv, JobInv, Job
    <3>3. scores[job[h].id] \in Record
        BY <1>0, <1>4, <3>2 DEF ScoreGet, TypeOK, ScoresMap
    <3>4. rec \in Record
        BY <3>2, <3>3 DEF Record
    <3>5. j \in Job
        BY <1>1, <3>4 DEF Job
    <3> QED
        BY <2>2, <3>5, NamesAssumption
  <2> QED
      BY <1>1, <1>4, <2>2, <2>3, <2>4
<1> QED
    BY <1>2, <1>3, <1>4 DEF Handle, Update, UpdateRead, UpdateWrite, UpdateFails,
       SubmitLog, DelArchive, DelEntry, AfterUpdate


\* Which steps change the list, the archives or the jobs.
LEMMA HandleFiles ==
    ASSUME IInv, NEW h \in Handlers, Handle(h)
    PROVE  /\ name' = name
           /\ SubmitLog(h) \/ DelEntry(h) \/ UNCHANGED entries
           /\ DelArchive(h) \/ UNCHANGED archive
           /\ ~Fault /\ Deleting(h) /\ ~DelEntry(h) => job'[h] # None
<1>1. /\ name' = name
      /\ SubmitLog(h) \/ DelEntry(h) \/ UNCHANGED entries
      /\ DelArchive(h) \/ UNCHANGED archive
    BY DEF Handle, Update, UpdateRead, UpdateWrite, UpdateFails, SubmitLog, ScoreGet,
       DelArchive, DelEntry, fileVars
<1>2. ASSUME ~Fault, Deleting(h), ~DelEntry(h) PROVE job'[h] # None
  <2>1. \E a \in Ats : Goto(h, a)
      BY <1>2 DEF Handle, Update, UpdateRead, UpdateWrite, UpdateFails, SubmitLog,
         ScoreGet, DelArchive, Working, AfterUpdate, Deleting, Ats
  <2> QED
      BY <1>2, <2>1, Moves DEF IInv, Deleting
<1> QED
    BY <1>1, <1>2

Scoring(h, i) == \E q \in IRQs : ScoreLookup(h, i, q)

LEMMA OthersKeepJobs ==
    ASSUME [Next]_vars, ~PortalCrash,
           ~\E h \in Handlers : Handle(h) \/ \E i \in Ids :
                Submit(h, i) \/ DelLookup(h, i) \/ Scoring(h, i)
    PROVE  UNCHANGED <<name, archive, entries, tail, job>>
    BY DEF Next, Portal, Scoring, ToolStep, vars, fileVars, portalVars, Configure,
       ToolStart, ReadEntries, ReadPrevious, RescoreOne, SkipOne, ToolRead, ToolWrite,
       ToolDone, ToolAborts, RefuseEntries, EndRun

\* The three ways a handler starts.
LEMMA StartJob ==
    ASSUME IInv, NEW h \in Handlers, NEW i \in Ids,
           Submit(h, i) \/ DelLookup(h, i) \/ Scoring(h, i)
    PROVE  /\ job[h] = None /\ job'[h] # None /\ job'[h].id = i
           /\ \A g \in Handlers \ {h} : job'[g] = job[g]
           /\ name' = name /\ UNCHANGED <<entries, scores, base, toolVars>>
           /\ DelLookup(h, i) => job'[h].op = "delete" /\ job'[h].rec = None
           /\ Scoring(h, i) => job'[h].op = "score" /\ job'[h].rec = None
           /\ Submit(h, i) => job'[h].op = "submit" /\ job'[h].rec.from = i
<1>1. job' \in [Handlers -> Job \cup {None}]
    BY SubmitIInv, DelLookupIInv, ScoreLookupIInv DEF Scoring, IInv, TypeOK
<1>2. CASE Submit(h, i)
  <2> DEFINE r == [scored |-> configured, by |-> "portal", from |-> i, irq |-> None]
  <2> DEFINE j == [op |-> "submit", id |-> i, at |-> "update", irq |-> None, rec |-> r]
  <2>1. r \in Record
      BY DEF Record, IInv, TypeOK
  <2>2. j \in Job
      BY <2>1 DEF Job
  <2>3. job[h] = None /\ job' = [job EXCEPT ![h] = j] /\ r.from = i
      BY <1>2 DEF Submit, Start
  <2>4. job'[h] = j /\ \A g \in Handlers \ {h} : job'[g] = job[g]
      BY <2>3 DEF IInv, TypeOK
  <2>5. j # None /\ j.op = "submit" /\ j.id = i /\ j.rec.from = i
      BY <2>2, NamesAssumption
  <2>6. name' = name /\ UNCHANGED <<entries, scores, base, toolVars>>
        /\ ~DelLookup(h, i) /\ ~Scoring(h, i)
    <3>1. name' = name /\ UNCHANGED <<entries, scores, base, toolVars>>
        BY <1>2 DEF Submit
    <3>2. i \notin entries
        BY <1>2 DEF Submit, IInv, BornInv, Unborn
    <3> QED
        BY <3>1, <3>2 DEF DelLookup, Scoring, ScoreLookup
  <2> QED
      BY <2>3, <2>4, <2>5, <2>6
<1>3. CASE DelLookup(h, i)
  <2> DEFINE j == [op |-> "delete", id |-> i, at |-> "archive", irq |-> None, rec |-> None]
  <2>1. j \in Job
      BY DEF Job
  <2>2. job[h] = None /\ job' = [job EXCEPT ![h] = j] /\ i \in entries
      BY <1>3 DEF DelLookup, Start
  <2>3. job'[h] = j /\ j # None /\ \A g \in Handlers \ {h} : job'[g] = job[g]
      BY <2>1, <2>2, NamesAssumption DEF IInv, TypeOK
  <2>4. name' = name /\ UNCHANGED <<entries, scores, base, toolVars>>
      BY <1>3 DEF DelLookup, fileVars
  <2>5. ~Submit(h, i) /\ ~Scoring(h, i)
      BY <1>3, <2>2, <2>3 DEF Submit, Scoring, ScoreLookup, Start, IInv, BornInv, Unborn,
         TypeOK
  <2> QED
      BY <2>2, <2>3, <2>4, <2>5
<1>4. ASSUME NEW q \in IRQs, ScoreLookup(h, i, q)
      PROVE  /\ job[h] = None /\ job'[h] # None /\ job'[h].id = i
             /\ \A g \in Handlers \ {h} : job'[g] = job[g]
             /\ name' = name /\ UNCHANGED <<entries, scores, base, toolVars>>
             /\ job'[h].op = "score" /\ job'[h].rec = None
             /\ ~Submit(h, i) /\ ~DelLookup(h, i)
  <2> DEFINE j == [op |-> "score", id |-> i, at |-> "get", irq |-> q, rec |-> None]
  <2>1. j \in Job
      BY DEF Job
  <2>2. job[h] = None /\ job' = [job EXCEPT ![h] = j] /\ i \in entries
      BY <1>4 DEF ScoreLookup, Start
  <2>3. job'[h] = j /\ j # None /\ \A g \in Handlers \ {h} : job'[g] = job[g]
      BY <2>1, <2>2, NamesAssumption DEF IInv, TypeOK
  <2>4. name' = name /\ UNCHANGED <<entries, scores, base, toolVars>>
      BY <1>4 DEF ScoreLookup, fileVars
  <2>5. ~Submit(h, i) /\ ~DelLookup(h, i)
      BY <1>4, <2>2, <2>3 DEF Submit, DelLookup, Start, IInv, BornInv, Unborn, TypeOK
  <2> QED
      BY <2>2, <2>3, <2>4, <2>5
<1> QED
    BY <1>2, <1>3, <1>4 DEF Scoring

LEMMA NextAloneInv == ASSUME IInv, AloneInv, OneDelete, [Next]_vars PROVE AloneInv'
<1> USE DEF AloneInv
<1>1. ASSUME NEW h \in Handlers, Handle(h) PROVE AloneInv'
  <2>1. CASE SubmitLog(h)
    <3>1. job'[h] = None /\ entries' \in {entries, entries \cup {job[h].id}}
          /\ job[h] # None /\ job[h].op = "submit"
        BY <2>1, Returns DEF SubmitLog, Append, AppendFails, Working, IInv
    <3> QED
        BY <1>1, <3>1, HandleJob
  <2>2. CASE DelEntry(h)
    <3>1. job'[h] = None /\ entries' \in {entries, entries \ {job[h].id}}
          /\ Deleting(h)
        BY <2>2, Returns DEF DelEntry, RemoveEntry, Working, IInv, Deleting
    <3> QED
        BY <1>1, <3>1, HandleJob DEF OneDelete, Deleting
  <2>3. CASE UNCHANGED entries
      BY <1>1, <2>3, HandleJob
  <2> QED
      BY <1>1, <2>1, <2>2, <2>3, HandleFiles
<1>2. ASSUME NEW h \in Handlers, NEW i \in Ids,
             Submit(h, i) \/ DelLookup(h, i) \/ Scoring(h, i)
      PROVE  AloneInv'
  <2>1. CASE Submit(h, i)
    <3>1. i \notin entries /\ \A g \in Handlers : job[g] # None => job[g].id # i
        BY <2>1 DEF Submit, IInv, BornInv, Unborn
    <3> QED
        BY <2>1, <3>1, StartJob
  <2>2. CASE DelLookup(h, i) \/ Scoring(h, i)
    <3>1. i \in entries
        BY <2>2 DEF DelLookup, Scoring, ScoreLookup
    <3> QED
        BY <2>2, <3>1, StartJob
  <2> QED
      BY <1>2, <2>1, <2>2
<1>3. CASE UNCHANGED <<entries, job>>
    BY <1>3
<1>4. CASE PortalCrash
    BY <1>4 DEF PortalCrash
<1> QED
    BY <1>1, <1>2, <1>3, <1>4, OthersKeepJobs

\* A submission comes to life only by being submitted.
LEMMA LiveBefore ==
    ASSUME IInv, AloneInv, OneDelete, [Next]_vars, ~Fault, tail = "clean",
           NEW i \in Ids, Live(i)'
    PROVE  Live(i) \/ \E h \in Handlers : Submit(h, i)
<1> USE DEF Live, Made, BeingDeleted
<1>1. ASSUME NEW h \in Handlers, Handle(h) PROVE Live(i)
  <2>0. /\ job[h] # None /\ \A g \in Handlers \ {h} : job'[g] = job[g]
        /\ job'[h] # None => job'[h].op = job[h].op /\ job'[h].id = job[h].id
      BY <1>1, HandleJob
  <2>1. CASE DelEntry(h)
    <3>1. job'[h] = None /\ entries' = entries \ {job[h].id} /\ Deleting(h)
        BY <2>1, Returns DEF DelEntry, RemoveEntry, Readable, Working, IInv, Deleting
    <3>2. i # job[h].id
        BY <2>0, <3>1 DEF AloneInv, Deleting
    <3> QED
        BY <2>0, <3>1, <3>2
  <2>2. CASE ~DelEntry(h)
    <3>1. Made(i)
      <4>1. CASE SubmitLog(h)
          BY <2>0, <4>1 DEF SubmitLog, Append, Working
      <4>2. CASE UNCHANGED entries
          BY <2>0, <4>2
      <4> QED
          BY <1>1, <2>2, <4>1, <4>2, HandleFiles
    <3>2. ~BeingDeleted(i)
        BY <1>1, <2>0, <2>2, HandleFiles DEF Deleting
    <3> QED
        BY <3>1, <3>2
  <2> QED
      BY <2>1, <2>2
<1>2. ASSUME NEW h \in Handlers, NEW k \in Ids,
             Submit(h, k) \/ DelLookup(h, k) \/ Scoring(h, k)
      PROVE  Live(i) \/ Submit(h, i)
  <2>1. /\ job[h] = None /\ \A g \in Handlers \ {h} : job'[g] = job[g]
        /\ entries' = entries
        /\ Submit(h, k) \/ job'[h].op # "submit"
        /\ job'[h].id = k
      BY <1>2, StartJob
  <2> QED
      BY <2>1
<1>3. CASE UNCHANGED <<entries, job>>
    BY <1>3
<1> QED
    BY <1>1, <1>2, <1>3, OthersKeepJobs DEF PortalCrash

\* Nothing takes a live submission's file, or one about to be deleted.
LEMMA ArchiveStays ==
    ASSUME IInv, AloneInv, FromInv, OneDelete, [Next]_vars, faults = 0, ~Fault,
           NEW i \in Ids, archive[name[i]] = i,
           Live(i) \/ \E h \in Handlers : Working(h, "delete", "archive") /\ job[h].id = i
    PROVE  \/ archive'[name'[i]] = i
           \/ \E h \in Handlers : DelArchive(h) /\ job[h].id = i
<1>0. TypeOK /\ name[i] \in Files /\ i # None
    BY NamesAssumption DEF IInv, TypeOK
<1>1. ASSUME NEW h \in Handlers, NEW k \in Ids, Submit(h, k) PROVE archive'[name'[i]] = i
    BY <1>0, <1>1 DEF Submit, Creatable, TypeOK
<1>2. ASSUME NEW h \in Handlers, DelArchive(h), job[h].id # i
      PROVE  archive'[name'[i]] = i
  <2>1. archive[name[job[h].id]] = job[h].id
      BY <1>2 DEF DelArchive, FromInv
  <2>2. name[job[h].id] # name[i]
      BY <1>2, <2>1
  <2> QED
      BY <1>0, <1>2, <2>2 DEF DelArchive, TypeOK
<1>3. CASE UNCHANGED <<name, archive>>
    BY <1>3
<1>4. ASSUME NEW h \in Handlers, NEW k \in Ids, DelLookup(h, k) \/ Scoring(h, k)
      PROVE  UNCHANGED <<name, archive>>
    BY <1>4 DEF DelLookup, Scoring, ScoreLookup, fileVars
<1>5. ASSUME NEW h \in Handlers, Handle(h), ~DelArchive(h) PROVE UNCHANGED <<name, archive>>
    BY <1>5, HandleFiles
<1> QED
    BY <1>1, <1>2, <1>3, <1>4, <1>5, OthersKeepJobs DEF PortalCrash

\* The records of a live submission stay its own, on every way they take.
LEMMA OwnStays ==
    ASSUME IInv, [Next]_vars, ~Fault, NEW i \in Ids, archive[name[i]] = i, OwnRecords(i)
    PROVE  OwnRecords(i)'
<1> USE DEF OwnRecords, Own
<1>0. TypeOK
    BY DEF IInv
<1>1. ASSUME NEW h \in Handlers, NEW k \in Ids,
             Submit(h, k) \/ DelLookup(h, k) \/ Scoring(h, k)
      PROVE  OwnRecords(i)'
    BY <1>1, StartJob DEF toolVars
<1>2. ASSUME NEW h \in Handlers, ScoreGet(h) PROVE OwnRecords(i)'
  <2>1. /\ \A g \in Handlers \ {h} : job'[g] = job[g]
        /\ job'[h] # None => job'[h].id = job[h].id
        /\ job[h] \in Job
      BY <1>2, HandleJob DEF Handle
  <2>2. UNCHANGED <<scores, base, tpc, tid, after>>
      BY <1>2 DEF ScoreGet, fileVars, toolVars
  <2>3. ASSUME job'[h] # None, job[h].id = i PROVE Own(i, job'[h].rec)
    <3> DEFINE rec == [scores[i] EXCEPT !.irq = job[h].irq]
    <3> DEFINE j == [job[h] EXCEPT !.at = "update", !.rec = rec]
    <3>1. job' = [job EXCEPT ![h] = j] /\ scores[i] # None
        BY <1>0, <1>2, <2>3, Returns DEF ScoreGet
    <3>2. job'[h] = j
        BY <1>0, <3>1 DEF TypeOK
    <3>3. scores[i] \in Record
        BY <1>0, <3>1 DEF TypeOK, ScoresMap
    <3>4. rec.from = i
        BY <3>1, <3>3 DEF Record
    <3>5. j.rec = rec
        BY <2>1 DEF Job
    <3> QED
        BY <3>2, <3>4, <3>5
  <2> QED
      BY <2>1, <2>2, <2>3
<1>3. ASSUME NEW h \in Handlers, UpdateWrite(h) PROVE OwnRecords(i)'
  <2>1. /\ job[h].id \in Ids /\ job[h].rec \in Record \cup {None} /\ job[h] # None
        /\ base[h] \in ScoresMap /\ base[h] # None
      BY <1>0, <1>3 DEF UpdateWrite, IInv, TypeOK, JobInv, Job
  <2>2. scores'[i] = IF i = job[h].id THEN job[h].rec ELSE base[h][i]
    <3>1. scores' = [base[h] EXCEPT ![job[h].id] = job[h].rec]
        BY <1>3 DEF UpdateWrite, Written
    <3>2. /\ scores'[job[h].id] = job[h].rec
          /\ \A k \in Ids \ {job[h].id} : scores'[k] = base[h][k]
        BY <2>1, <3>1 DEF ScoresMap
    <3> QED
        BY <3>2
  <2>3. \A p \in Handlers \cup {Tool} : base'[p] # None => base'[p] = base[p]
      BY <1>0, <1>3 DEF UpdateWrite, TypeOK
  <2>4. UNCHANGED <<tpc, tid, after>> /\ ~ScoreGet(h)
      BY <1>3 DEF UpdateWrite, toolVars, ScoreGet, Working
  <2>5. \A g \in Handlers : job'[g] # None =>
            job[g] # None /\ job'[g].id = job[g].id /\ job'[g].rec = job[g].rec
      BY <1>3, <2>4, HandleJob DEF Handle, Update
  <2> QED
      BY <2>1, <2>2, <2>3, <2>4, <2>5
<1>4. ASSUME NEW h \in Handlers, Handle(h), ~ScoreGet(h), ~UpdateWrite(h)
      PROVE  OwnRecords(i)'
  <2>1. UNCHANGED <<scores, tpc, tid, after>>
      BY <1>4 DEF Handle, Update, UpdateRead, UpdateFails, SubmitLog, DelArchive,
         DelEntry, fileVars, toolVars
  <2>2. UNCHANGED base \/ base' = [base EXCEPT ![h] = scores]
      BY <1>4 DEF Handle, Update, UpdateRead, UpdateFails, SubmitLog, DelArchive, DelEntry
  <2>3. \A p \in Handlers \cup {Tool} : base'[p] = base[p] \/ base'[p] = scores
      BY <1>0, <2>2 DEF TypeOK
  <2>4. \A g \in Handlers : job'[g] # None =>
            job[g] # None /\ job'[g].id = job[g].id /\ job'[g].rec = job[g].rec
      BY <1>4, HandleJob
  <2> QED
      BY <2>1, <2>3, <2>4
<1>5. ASSUME NEW k \in Ids, RescoreOne(k) PROVE OwnRecords(i)'
  <2>1. UNCHANGED <<scores, base, job>>
      BY <1>5 DEF RescoreOne, fileVars, portalVars
  <2>2. tpc = "loop" /\ (tpc' = "loop" \/ (tid' = k /\ after' = Rescored(k)))
      BY <1>5 DEF RescoreOne
  <2>3. Rescored(i).from = i
      BY DEF Rescored
  <2> QED
      BY <2>1, <2>2, <2>3
<1>6. CASE ToolRead
    BY <1>0, <1>6 DEF ToolRead, fileVars, portalVars, TypeOK
<1>7. CASE ToolWrite
  <2>1. tid \in Ids /\ after \in Record /\ base[Tool] \in ScoresMap /\ base[Tool] # None
      BY <1>0, <1>7 DEF ToolWrite, IInv, ToolInv, TypeOK
  <2>2. scores'[i] = IF i = tid THEN after ELSE base[Tool][i]
      BY <1>7, <2>1, WrittenMap DEF ToolWrite, Written
  <2>3. \A p \in Handlers \cup {Tool} : base'[p] # None => base'[p] = base[p]
      BY <1>0, <1>7 DEF ToolWrite, TypeOK
  <2>4. UNCHANGED job /\ tpc = "write" /\ tpc' = "loop"
      BY <1>7 DEF ToolWrite, portalVars
  <2> QED
      BY <2>1, <2>2, <2>3, <2>4
<1>8. ASSUME UNCHANGED <<scores, base, job>>,
             UNCHANGED <<tpc, tid, after>> \/ tpc' \notin {"update", "write"}
      PROVE  OwnRecords(i)'
    BY <1>8
<1>9. CASE ToolStart \/ ReadEntries \/ ReadPrevious \/ ToolDone \/ Configure
             \/ (\E k \in Ids : SkipOne(k)) \/ UNCHANGED vars
    BY <1>8, <1>9 DEF ToolStart, ReadEntries, ReadPrevious, ToolDone, Configure,
       SkipOne, AfterSkip, vars, fileVars, portalVars, toolVars
<1>10. CASE RefuseEntries
  <2>1. /\ UNCHANGED <<scores, job>> /\ tpc' = "idle"
        /\ base' = [base EXCEPT ![Tool] = None]
      BY <1>10 DEF RefuseEntries, EndRun, fileVars, portalVars
  <2> QED
      BY <1>0, <2>1 DEF TypeOK
<1> QED
    BY <1>1, <1>2, <1>3, <1>4, <1>5, <1>6, <1>7, <1>9, <1>10
       DEF Next, Portal, ToolStep, Scoring, PortalCrash, ToolAborts

LEMMA NextFromInv ==
    ASSUME IInv, AloneInv, FromInv, OneDelete, OneDelete', [Next]_vars PROVE FromInv'
<1> SUFFICES ASSUME faults' = 0
             PROVE  /\ tail' = "clean"
                    /\ \A i \in Ids : Live(i)' => archive'[name'[i]] = i /\ OwnRecords(i)'
                    /\ \A h \in Handlers : Working(h, "delete", "archive")' =>
                           archive'[name'[job'[h].id]] = job'[h].id
    BY DEF FromInv
<1>0. faults = 0 /\ ~Fault /\ TypeOK /\ tail = "clean"
    BY NoFaultYet DEF IInv, FromInv
<1>1. tail' = "clean"
  <2>1. ASSUME NEW h \in Handlers, Handle(h) PROVE tail' = "clean"
      BY <1>0, <2>1 DEF Handle, Update, UpdateRead, UpdateWrite, UpdateFails, SubmitLog,
         Append, ScoreGet, DelArchive, DelEntry, RemoveEntry, fileVars
  <2>2. ASSUME NEW h \in Handlers, NEW i \in Ids,
               Submit(h, i) \/ DelLookup(h, i) \/ Scoring(h, i)
        PROVE  tail' = "clean"
      BY <1>0, <2>2 DEF Submit, DelLookup, Scoring, ScoreLookup, fileVars
  <2> QED
      BY <1>0, <2>1, <2>2, OthersKeepJobs DEF PortalCrash
<1>2. ASSUME NEW i \in Ids, Live(i)' PROVE archive'[name'[i]] = i /\ OwnRecords(i)'
  <2>1. ASSUME NEW h \in Handlers, Submit(h, i)
        PROVE  archive'[name'[i]] = i /\ OwnRecords(i)'
    <3>1. archive'[name'[i]] = i
      <4>1. name[i] \in Files
          BY <1>0, NamesAssumption DEF TypeOK
      <4> QED
          BY <1>0, <2>1, <4>1 DEF Submit, TypeOK
    <3>2. Unborn(i) /\ \A g \in Handlers : job[g] # None => job[g].id # i
        BY <2>1 DEF Submit, IInv, BornInv
    <3>3. OwnRecords(i)'
        BY <2>1, <3>2, StartJob DEF OwnRecords, Own, Unborn, toolVars
    <3> QED
        BY <3>1, <3>3
  <2>2. CASE Live(i)
    <3>1. archive[name[i]] = i /\ OwnRecords(i)
        BY <1>0, <2>2 DEF FromInv
    <3>2. ~\E h \in Handlers : DelArchive(h) /\ job[h].id = i
        BY <2>2 DEF Live, BeingDeleted, DelArchive, Working
    <3> QED
        BY <1>0, <2>2, <3>1, <3>2, ArchiveStays, OwnStays
  <2> QED
      BY <1>0, <1>2, <2>1, <2>2, LiveBefore
<1>3. ASSUME NEW h \in Handlers, Working(h, "delete", "archive")'
      PROVE  archive'[name'[job'[h].id]] = job'[h].id
  <2>1. ASSUME NEW i \in Ids, DelLookup(h, i)
        PROVE  archive'[name'[job'[h].id]] = job'[h].id
    <3>1. /\ i \in entries /\ UNCHANGED <<name, archive>> /\ job'[h].id = i
          /\ Deleting(h)' /\ job[h] = None
          /\ \A g \in Handlers \ {h} : job'[g] = job[g]
        BY <2>1, StartJob DEF DelLookup, fileVars, Deleting
    <3>2. ~BeingDeleted(i)
        BY <3>1 DEF BeingDeleted, OneDelete, Deleting
    <3> QED
        BY <1>0, <3>1, <3>2 DEF FromInv, Live, Made
  <2>2. CASE job'[h] = job[h] /\ ~DelArchive(h)
    <3>1. Working(h, "delete", "archive") /\ job[h].id \in Ids
        BY <1>0, <1>3, <2>2 DEF Working, TypeOK, Job
    <3>2. archive[name[job[h].id]] = job[h].id
        BY <1>0, <3>1 DEF FromInv
    <3>3. ASSUME NEW g \in Handlers, DelArchive(g) PROVE FALSE
        BY <2>2, <3>1, <3>3 DEF DelArchive, Working, OneDelete, Deleting
    <3> QED
        BY <1>0, <2>2, <3>1, <3>2, <3>3, ArchiveStays
  <2>3. ASSUME NEW g \in Handlers, Handle(g)
        PROVE  job'[h] = job[h] /\ ~DelArchive(h)
    <3>1. g # h
        BY <1>3, <2>3, HandleJob DEF Working
    <3>2. job'[h] = job[h]
        BY <2>3, <3>1, HandleJob
    <3>3. ~DelArchive(h)
        BY <1>3, <3>1, <3>2, HandleJob DEF Handle, Working
    <3> QED
        BY <3>2, <3>3
  <2>4. ASSUME NEW g \in Handlers, NEW i \in Ids,
               Submit(g, i) \/ DelLookup(g, i) \/ Scoring(g, i), ~DelLookup(h, i)
        PROVE  job'[h] = job[h] /\ ~DelArchive(h)
    <3>1. g # h
        BY <1>3, <2>4, StartJob DEF Working
    <3>2. job'[h] = job[h]
        BY <2>4, <3>1, StartJob
    <3>3. ~DelArchive(h)
        BY <1>3, <3>2, HandleJob DEF Handle, Working
    <3> QED
        BY <3>2, <3>3
  <2>5. CASE UNCHANGED <<name, archive, entries, job>>
    <3>1. ~DelArchive(h)
        BY <1>3, <2>5, HandleJob DEF Handle, Working
    <3> QED
        BY <2>2, <2>5, <3>1
  <2> QED
      BY <1>0, <2>1, <2>2, <2>3, <2>4, <2>5, OthersKeepJobs DEF PortalCrash
<1> QED
    BY <1>2, <1>3, <1>1

\* Until something fails, and while deletions do not overlap, a listed
\* submission's record was computed from its own archive, by the portal or by
\* the tool, though filenames are used again and the two processes overwrite
\* each other's updates.
THEOREM RecordsAreFromOwnArchive == Spec /\ []OneDelete => []FromOwnArchive
<1>1. Init => AloneInv /\ FromInv
    BY DEF Init, AloneInv, FromInv, Live, Made, Working
<1>2. IInv /\ AloneInv /\ OneDelete /\ [Next]_vars => AloneInv'
    BY NextAloneInv
<1>3. IInv /\ AloneInv /\ FromInv /\ OneDelete /\ OneDelete' /\ [Next]_vars => FromInv'
    BY NextFromInv
<1>4. IInv /\ FromInv => FromOwnArchive
    BY DEF FromInv, FromOwnArchive, Live, Made, OwnRecords, Own, IInv, TypeOK
<1> QED
    BY Invariance, <1>1, <1>2, <1>3, <1>4, PTL DEF Spec

=============================================================================
