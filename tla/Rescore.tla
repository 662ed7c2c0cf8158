------------------------------ MODULE Rescore ------------------------------
(***************************************************************************)
(* cmd/rescore beside a running portal.  The tool recomputes the automatic *)
(* half of every listed submission's record from the archives on disk and  *)
(* rewrites the scores file.  It is a process of its own: scoring.Store's  *)
(* mutex keeps the portal's handlers apart from each other, not from the   *)
(* tool.  An update of the scores file (Store.Set, Store.Delete) is        *)
(* therefore two steps here, the read of the whole map and the rename that *)
(* replaces it, between which the other process may rename a map of its    *)
(* own.  (That the rename itself is all or nothing is module ScoresFile.)  *)
(*                                                                         *)
(* The portal is reduced to what touches the files the tool reads: submit, *)
(* manual score and delete, whose other steps are module Submissions.      *)
(***************************************************************************)
EXTENDS Naturals, FiniteSets

CONSTANTS
    Ids,        \* submission ids
    Files,      \* archive filenames
    Names,      \* how ids may be sent under filenames, see name
    IRQs,       \* incident-response-quality scores an admin may enter
    Handlers,   \* concurrent handlers of the portal
    Tool,       \* the rescore process
    MaxEdits,   \* bound on manual scores entered
    MaxFaults,  \* bound on failures and crashes
    None        \* no archive, no record, no job

(***************************************************************************)
(* scoring.Result.  by tells a record computed by the portal at upload     *)
(* time from one recomputed by the tool, from whose archive was read.      *)
(***************************************************************************)
Record == [scored : BOOLEAN, by : {"portal", "tool"}, from : Ids,
           irq : IRQs \cup {None}]

ScoresMap == [Ids -> Record \cup {None}]

(***************************************************************************)
(* What a handler is doing: op, on which submission, where it has got to   *)
(* and the record it will Set (None when it will Delete).                  *)
(***************************************************************************)
Job == [op : {"submit", "score", "delete"}, id : Ids,
        at : {"get", "archive", "update", "write", "log"},
        irq : IRQs \cup {None}, rec : Record \cup {None}]

ASSUME BoundsAssumption == MaxEdits \in Nat /\ MaxFaults \in Nat
ASSUME NamesAssumption ==
    /\ Names \subseteq [Ids -> Files]
    /\ Tool \notin Handlers
    /\ None \notin Ids \cup IRQs
    /\ None \notin Record /\ None \notin ScoresMap /\ None \notin Job

VARIABLES
    name,       \* [Ids -> Files]: the filename each submission is sent under
    \* the files both processes see
    archive,    \* [Files -> Ids \cup {None}]: whose archive the file is
    entries,    \* ids listed in submissions.jsonl
    tail,       \* how submissions.jsonl ends: see Append
    scores,     \* scores.json, a ScoresMap
    configured, \* exercise.Config.Configured()
    \* the portal
    job,        \* [Handlers -> Job \cup {None}]
    sent,       \* ids that have been submitted
    \* the tool
    tpc,        \* "idle", "entries", "byid", "loop", "update", "write", "done"
    apply,      \* the -apply flag
    todo,       \* entries still to rescore
    previous,   \* the records ByID returned
    tid, after, \* the entry being rescored and the record computed for it
    \* both
    base,       \* [Handlers \cup {Tool} -> the map an update has read]
    edits, faults,
    \* history
    quiet,      \* since the tool read the entries no handler has been at
                \* work and no archive has failed to be read
    dropped     \* ids whose record a delete handler has removed

fileVars == <<name, archive, entries, tail, scores, configured>>
portalVars == <<job, sent, edits>>
toolVars == <<tpc, apply, todo, previous, tid, after>>
vars == <<fileVars, portalVars, toolVars, base, faults, quiet, dropped>>

NoScores == [i \in Ids |-> None]

TypeOK ==
    /\ name \in Names
    /\ archive \in [Files -> Ids \cup {None}]
    /\ entries \subseteq Ids
    /\ tail \in {"clean", "noeol", "torn"}
    /\ scores \in ScoresMap
    /\ configured \in BOOLEAN
    /\ job \in [Handlers -> Job \cup {None}]
    /\ sent \subseteq Ids
    /\ tpc \in {"idle", "entries", "byid", "loop", "update", "write", "done"}
    /\ apply \in BOOLEAN
    /\ todo \subseteq Ids
    /\ previous \in ScoresMap
    /\ tid \in Ids \cup {None}
    /\ after \in Record \cup {None}
    /\ base \in [Handlers \cup {Tool} -> ScoresMap \cup {None}]
    /\ edits \in 0 .. MaxEdits
    /\ faults \in 0 .. MaxFaults
    /\ quiet \in BOOLEAN
    /\ dropped \subseteq Ids

Init ==
    /\ name \in Names
    /\ archive = [f \in Files |-> None]
    /\ entries = {}
    /\ tail = "clean"
    /\ scores = NoScores
    /\ configured = FALSE
    /\ job = [h \in Handlers |-> None]
    /\ sent = {}
    /\ tpc = "idle"
    /\ apply = FALSE
    /\ todo = {}
    /\ previous = NoScores
    /\ tid = None
    /\ after = None
    /\ base = [p \in Handlers \cup {Tool} |-> None]
    /\ edits = 0
    /\ faults = 0
    /\ quiet = FALSE
    /\ dropped = {}

\* One more failure or crash.
Fault == faults < MaxFaults /\ faults' = faults + 1

-----------------------------------------------------------------------------
(***************************************************************************)
(* The portal.                                                             *)
(***************************************************************************)
Working(h, op, at) == job[h] # None /\ job[h].op = op /\ job[h].at = at

Start(h, j) == job[h] = None /\ job' = [job EXCEPT ![h] = j] /\ quiet' = FALSE

Goto(h, at) == job' = [job EXCEPT ![h].at = at]

Return(h) == job' = [job EXCEPT ![h] = None]

\* POST /submit: the archive is stored under its filename, never over an
\* existing one (LocalStore, the only store the tool can read), then the
\* automatic checks, if there is a configured exercise to check against.
FaultyCreatable(f) == TRUE   \* opened without O_EXCL
Creatable(f) == archive[f] = None

Submit(h, id) ==
    /\ id \notin sent /\ Creatable(name[id])
    /\ archive' = [archive EXCEPT ![name[id]] = id]
    /\ sent' = sent \cup {id}
    /\ Start(h, [op |-> "submit", id |-> id, at |-> "update", irq |-> None,
                 rec |-> [scored |-> configured, by |-> "portal",
                          from |-> id, irq |-> None]])
    /\ UNCHANGED <<name, entries, tail, scores, configured, edits, toolVars,
                   base, faults, dropped>>

\* FileLog.Record appends a line.  After an entry that lacks its newline
\* ("noeol") the two join into a line that does not parse ("torn"), which
\* nothing repairs.
Append(id) ==
    /\ entries' = IF tail = "clean" THEN entries \cup {id} ELSE entries
    /\ tail' = IF tail = "clean" THEN "clean" ELSE "torn"

\* A write that fails part way: nothing, a prefix, or all but the newline.
AppendFails(id) ==
    \/ UNCHANGED <<entries, tail>>
    \/ tail' = "torn" /\ UNCHANGED entries
    \/ tail = "clean" /\ tail' = "noeol" /\ entries' = entries \cup {id}

\* FileLog.Entries fails as soon as one line does not parse.
Readable == tail # "torn"

\* log.Record, once the record was written or failed to be; a failure is only
\* logged.
SubmitLog(h) ==
    /\ Working(h, "submit", "log")
    /\ \/ Append(job[h].id) /\ UNCHANGED faults
       \/ Fault /\ AppendFails(job[h].id)
    /\ Return(h)
    /\ UNCHANGED <<name, archive, scores, configured, sent, edits, toolVars,
                   base, quiet, dropped>>

\* POST /admin/submissions/{id}/score: the entry is looked up, ...
ScoreLookup(h, id, irq) ==
    /\ edits < MaxEdits /\ edits' = edits + 1
    /\ Readable /\ id \in entries
    /\ Start(h, [op |-> "score", id |-> id, at |-> "get", irq |-> irq,
                 rec |-> None])
    /\ UNCHANGED <<fileVars, sent, toolVars, base, faults, dropped>>

\* ... its record read, and refused when there is no automatic half, ...
ScoreGet(h) ==
    /\ Working(h, "score", "get")
    /\ LET rec == scores[job[h].id]
       IN \/ /\ rec # None /\ rec.scored
             /\ job' = [job EXCEPT ![h].at = "update",
                                   ![h].rec = [rec EXCEPT !.irq = job[h].irq]]
          \/ ~(rec # None /\ rec.scored) /\ Return(h)
    /\ UNCHANGED <<fileVars, sent, edits, toolVars, base, faults, quiet,
                   dropped>>

\* DELETE /admin/submissions/{id}: lookup, archive, (record,) entry.  A step
\* that fails, applied or not, ends it.
DelLookup(h, id) ==
    /\ Readable /\ id \in entries
    /\ Start(h, [op |-> "delete", id |-> id, at |-> "archive", irq |-> None,
                 rec |-> None])
    /\ UNCHANGED <<fileVars, sent, edits, toolVars, base, faults, dropped>>

DelArchive(h) ==
    /\ Working(h, "delete", "archive")
    /\ LET without == [archive EXCEPT ![name[job[h].id]] = None]
       IN \/ archive' = without /\ Goto(h, "update") /\ UNCHANGED faults
          \/ Fault /\ archive' \in {archive, without} /\ Return(h)
    /\ UNCHANGED <<name, entries, tail, scores, configured, sent, edits,
                   toolVars, base, quiet, dropped>>

\* FileLog.Delete rewrites the log, every line ended.
RemoveEntry(id) ==
    /\ entries' = entries \ {id}
    /\ tail' = IF id \in entries THEN "clean" ELSE tail

DelEntry(h) ==
    /\ Working(h, "delete", "log")
    /\ \/ Readable /\ RemoveEntry(job[h].id) /\ UNCHANGED faults
       \/ ~Readable /\ UNCHANGED <<entries, tail, faults>>
       \/ /\ Fault
          /\ \/ UNCHANGED <<entries, tail>>
             \/ Readable /\ RemoveEntry(job[h].id)
    /\ Return(h)
    /\ UNCHANGED <<name, archive, scores, configured, sent, edits, toolVars,
                   base, quiet, dropped>>

\* Store.Set and Store.Delete: the mutex is held from the read of the map to
\* its replacement; Delete of an absent record writes nothing.
MutexFree == ~\E h \in Handlers : job[h] # None /\ job[h].at = "write"

\* What a handler does once its Set or Delete has returned.
AfterUpdate(h) ==
    IF job[h].op = "score" THEN Return(h) ELSE Goto(h, "log")

UpdateRead(h) ==
    /\ job[h] # None /\ job[h].at = "update" /\ MutexFree
    /\ IF job[h].op = "delete" /\ scores[job[h].id] = None
       THEN AfterUpdate(h) /\ UNCHANGED base
       ELSE Goto(h, "write") /\ base' = [base EXCEPT ![h] = scores]
    /\ UNCHANGED <<fileVars, sent, edits, toolVars, faults, quiet, dropped>>

Written(p, id, rec) == [base[p] EXCEPT ![id] = rec]

UpdateWrite(h) ==
    /\ job[h] # None /\ job[h].at = "write"
    /\ scores' = Written(h, job[h].id, job[h].rec)
    /\ dropped' = IF job[h].op = "delete" THEN dropped \cup {job[h].id}
                                          ELSE dropped
    /\ base' = [base EXCEPT ![h] = None]
    /\ AfterUpdate(h)
    /\ UNCHANGED <<name, archive, entries, tail, configured, sent, edits,
                   toolVars, faults, quiet>>

\* A failed update: the submit handler logs it and lists the submission all
\* the same, the admin handlers answer 500.
UpdateFails(h) ==
    /\ job[h] # None /\ job[h].at = "write" /\ Fault
    /\ base' = [base EXCEPT ![h] = None]
    /\ IF job[h].op = "submit" THEN Goto(h, "log") ELSE Return(h)
    /\ UNCHANGED <<fileVars, sent, edits, toolVars, quiet, dropped>>

\* POST /admin/exercise.
Configure ==
    /\ ~configured /\ configured' = TRUE
    /\ UNCHANGED <<name, archive, entries, tail, scores, portalVars, toolVars,
                   base, faults, quiet, dropped>>

\* The portal dies: its handlers are gone, and with them their updates.
PortalCrash ==
    /\ Fault
    /\ job' = [h \in Handlers |-> None]
    /\ base' = [p \in Handlers \cup {Tool} |-> IF p = Tool THEN base[p] ELSE None]
    /\ UNCHANGED <<fileVars, sent, edits, toolVars, quiet, dropped>>

-----------------------------------------------------------------------------
(***************************************************************************)
(* The tool: run() of cmd/rescore.                                         *)
(***************************************************************************)

\* It is started, with or without -apply, and reads the exercise: nothing is
\* scored against one that is not configured.
Scorable == configured

ToolStart ==
    /\ tpc \in {"idle", "done"} /\ Scorable
    /\ \E flag \in BOOLEAN : apply' = flag
    /\ tpc' = "entries"
    /\ previous' = NoScores /\ quiet' = FALSE
    /\ UNCHANGED <<fileVars, portalVars, todo, tid, after, base, faults,
                   dropped>>

ReadEntries ==
    /\ tpc = "entries" /\ Readable
    /\ todo' = entries
    /\ quiet' = (\A h \in Handlers : job[h] = None)
    /\ tpc' = "byid"
    /\ UNCHANGED <<fileVars, portalVars, apply, previous, tid, after, base,
                   faults, dropped>>

\* run() returns an error: what it has not done yet stays undone.
EndRun ==
    /\ tpc' = "idle" /\ todo' = {} /\ previous' = NoScores
    /\ tid' = None /\ after' = None /\ apply' = FALSE /\ quiet' = FALSE
    /\ base' = [base EXCEPT ![Tool] = None]
    /\ UNCHANGED <<fileVars, portalVars, dropped>>

\* A log with a torn line ends every run here.
RefuseEntries == tpc = "entries" /\ ~Readable /\ EndRun /\ UNCHANGED faults

ReadPrevious ==
    /\ tpc = "byid"
    /\ previous' = scores
    /\ tpc' = "loop"
    /\ UNCHANGED <<fileVars, portalVars, apply, todo, tid, after, base, faults,
                   quiet, dropped>>

\* The manual entry is carried over from the record read at the start.
FaultyCarried(id) == None   \* the recomputed record as it is
Carried(id) == IF previous[id] # None THEN previous[id].irq ELSE None

\* rescoreOne: the archive found under the entry's filename is validated and
\* scored.  The entries are taken in any order.
Rescored(id) == [scored |-> TRUE, by |-> "tool", from |-> archive[name[id]],
                 irq |-> Carried(id)]

RescoreOne(id) ==
    /\ tpc = "loop" /\ id \in todo /\ archive[name[id]] # None
    /\ todo' = todo \ {id}
    /\ IF apply
       THEN /\ tid' = id /\ after' = Rescored(id)
            /\ tpc' = "update"
       ELSE UNCHANGED <<tpc, tid, after>>
    /\ UNCHANGED <<fileVars, portalVars, apply, previous, base, faults, quiet,
                   dropped>>

\* An archive that is missing or unreadable: the entry is skipped, its record
\* left as it is, and the loop goes on.
FaultyAfterSkip == "done"   \* the first unreadable archive ends the run
AfterSkip == "loop"

SkipOne(id) ==
    /\ tpc = "loop" /\ id \in todo
    /\ \/ archive[name[id]] = None /\ UNCHANGED <<faults, quiet>>
       \/ Fault /\ quiet' = FALSE
    /\ todo' = todo \ {id}
    /\ tpc' = AfterSkip
    /\ UNCHANGED <<fileVars, portalVars, apply, previous, tid, after, base,
                   dropped>>

\* scores.Set(after).
ToolRead ==
    /\ tpc = "update"
    /\ base' = [base EXCEPT ![Tool] = scores]
    /\ tpc' = "write"
    /\ UNCHANGED <<fileVars, portalVars, apply, todo, previous, tid, after,
                   faults, quiet, dropped>>

ToolWrite ==
    /\ tpc = "write"
    /\ scores' = Written(Tool, tid, after)
    /\ base' = [base EXCEPT ![Tool] = None]
    /\ tpc' = "loop" /\ tid' = None /\ after' = None
    /\ UNCHANGED <<name, archive, entries, tail, configured, portalVars, apply,
                   todo, previous, faults, quiet, dropped>>

ToolDone ==
    /\ tpc = "loop" /\ todo = {}
    /\ tpc' = "done"
    /\ UNCHANGED <<fileVars, portalVars, apply, todo, previous, tid, after,
                   base, faults, quiet, dropped>>

\* A file that cannot be read or written ends the run, as killing it does.
ToolAborts == tpc \notin {"idle", "done"} /\ Fault /\ EndRun

Update(h) == UpdateRead(h) \/ UpdateWrite(h) \/ UpdateFails(h)

Handle(h) ==
    \/ Update(h) \/ SubmitLog(h) \/ ScoreGet(h) \/ DelArchive(h) \/ DelEntry(h)

Portal ==
    \/ \E h \in Handlers :
          \/ Handle(h)
          \/ \E id \in Ids : \/ Submit(h, id) \/ DelLookup(h, id)
                             \/ \E irq \in IRQs : ScoreLookup(h, id, irq)
    \/ Configure
    \/ PortalCrash

ToolStep ==
    \/ ReadEntries \/ RefuseEntries \/ ReadPrevious
    \/ ToolRead \/ ToolWrite \/ ToolDone
    \/ \E id \in Ids : RescoreOne(id) \/ SkipOne(id)

Next == Portal \/ ToolStart \/ ToolStep \/ ToolAborts

Spec == Init /\ [][Next]_vars

(***************************************************************************)
(* The scheduler runs both processes; the operator runs the tool again, at *)
(* least now and then with -apply.                                         *)
(***************************************************************************)
FairSpec ==
    /\ Spec
    /\ \A h \in Handlers : WF_vars(Handle(h))
    /\ WF_vars(ToolStep)
    /\ WF_vars(ToolStart) /\ SF_vars(ToolStart /\ apply')

-----------------------------------------------------------------------------
(***************************************************************************)
(* Properties.                                                             *)
(***************************************************************************)

HasManual(rec) == rec # None /\ rec.irq # None

(***************************************************************************)
(* A manual score that was on file when the tool read the records is still *)
(* there as long as the tool runs, though the portal goes on rewriting the *)
(* same file, unless a delete removed the record (main.go: "it survives    *)
(* the rewrite").                                                          *)
(***************************************************************************)
SettledManualSurvives ==
    \A id \in Ids :
        HasManual(previous[id]) /\ id \notin dropped => HasManual(scores[id])

(***************************************************************************)
(* A completed -apply run during which the portal stood still leaves every *)
(* readable submission with a recomputed record that carries its manual    *)
(* score verbatim, and every other record as it was ("One unreadable       *)
(* archive must not cost the other 45 their correction, and leaving the    *)
(* old record in place is the conservative outcome").                      *)
(***************************************************************************)
Skipped(id) == archive[name[id]] = None

QuietRunCorrects ==
    tpc = "done" /\ apply /\ quiet =>
        \A id \in Ids :
            IF id \in entries /\ ~Skipped(id)
            THEN scores[id] = [scored |-> TRUE, by |-> "tool",
                               from |-> archive[name[id]],
                               irq |-> IF previous[id] = None THEN None
                                       ELSE previous[id].irq]
            ELSE scores[id] = previous[id]

(***************************************************************************)
(* While nothing fails, the record of a listed submission comes from its   *)
(* own archive, whichever of the two processes computed it last, unless    *)
(* the submission is being deleted: the tool opens by filename, and a      *)
(* filename may be used again.  Holds for one delete handler at a time.    *)
(***************************************************************************)
BeingDeleted(id) == \E h \in Handlers : job[h] # None /\ job[h].op = "delete"
                                        /\ job[h].id = id

FromOwnArchive ==
    faults = 0 =>
        \A id \in entries : scores[id] # None /\ ~BeingDeleted(id)
                                => scores[id].from = id

(***************************************************************************)
(* An operator who runs the tool again ends up with every readable         *)
(* submission recomputed, whatever was lost to overlapping updates, failed *)
(* writes, kills or archives that could not be read before, once the       *)
(* exercise is configured and the portal stands still; as long as the log  *)
(* can be read, for a torn line in it ends every run before it has done    *)
(* anything (main.go: "reading the submissions log").                      *)
(***************************************************************************)
RerunsCorrect ==
    <>[](configured /\ Readable => \A id \in entries : ~Skipped(id) =>
            scores[id] # None /\ scores[id].by = "tool")

(***************************************************************************)
(* The tool never changes a manual score (main.go: "The manually entered   *)
(* criterion is carried across untouched").                                *)
(***************************************************************************)
ManualUntouched ==
    [][ToolWrite => \A id \in Ids :
          scores[id] # None /\ scores'[id] # None
              => scores'[id].irq = scores[id].irq]_vars
=============================================================================
