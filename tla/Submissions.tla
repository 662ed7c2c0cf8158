---------------------------- MODULE Submissions ----------------------------
(***************************************************************************)
(* The life of a submission across the three stores the portal keeps: the  *)
(* archive store (storage.Store), the scoring records (scoring.Store) and  *)
(* the submission log (portal.FileLog).  Five handlers meet there, each    *)
(* making several separately locked calls:                                 *)
(*                                                                         *)
(*   SubmitHandler.ServeHTTP       portal/submit.go   process r \in Requests *)
(*   AdminDeleteSubmissionHandler  portal/delete.go   process d \in Deleters *)
(*   AdminScoreHandler             portal/score.go    process s \in Scorers  *)
(*   AdminSummaryHandler           portal/summary.go  process v \in Viewers  *)
(*   AdminSubmissionsHandler       portal/admin.go    process v \in Viewers  *)
(*                                                                         *)
(* A call on a store is one step: each is made under the store's mutex,    *)
(* and module ScoresFile shows that the file rewrite behind it takes       *)
(* effect at one instant.  Between two calls of one handler every other    *)
(* process may run, the client may disconnect and the portal may crash.    *)
(*                                                                         *)
(* A request is its own submission id: NewSubmissionID draws 128 random    *)
(* bits, so ids do not collide.  A log entry is the id; its other fields   *)
(* (filename, operator, scan coverage) are the request's.                  *)
(***************************************************************************)
EXTENDS Naturals, FiniteSets

CONSTANTS
    Requests,       \* submit requests, which are also the submission ids
    Deleters,       \* concurrent DELETE /admin/submissions/{id} handlers
    Scorers,        \* concurrent POST /admin/submissions/{id}/score handlers
    Viewers,        \* concurrent GET /admin/summary, /admin/submissions
    Operators,      \* operator addresses
    Files,          \* well-formed archive filenames: the storage keys
    IRQs,           \* incident-response-quality scores an admin may enter
    Uploads,        \* the uploads a request may carry, see Upload
    Local,          \* TRUE: storage.LocalStore, FALSE: storage.S3Store
    Scanning,       \* SubmitHandler.AVScanner # nil
    MaxFaults,      \* bound on I/O failures and crashes
    None            \* nil: no session, no name, no archive, no record...

(***************************************************************************)
(* What the handler looks at in a request, in the order it looks:          *)
(*   session   the operator RequireSession returns, None if it fails       *)
(*   form      the multipart body: parsable, with an "archive" field       *)
(*   file      the filename, None when ValidateFilename rejects it         *)
(*   shape     the verdicts of ValidateArchive and ValidateMetadata        *)
(*   owner     metadata.json's validator_address                           *)
(*   moniker   metadata.json's moniker is the filename's                   *)
(*   content   what the antivirus would find in the extracted content      *)
(***************************************************************************)
Upload == [session : Operators \cup {None},
           form    : {"ok", "unparsable", "noarchive"},
           file    : Files \cup {None},
           shape   : {"ok", "badarchive", "badmetadata"},
           owner   : Operators,
           moniker : BOOLEAN,
           content : {"clean", "infected", "unreadable"}]

ASSUME UploadsAssumption == Uploads \subseteq Upload
ASSUME ModeAssumption == Local \in BOOLEAN /\ Scanning \in BOOLEAN
ASSUME FaultsAssumption == MaxFaults \in Nat

(***************************************************************************)
(* scoring.Result: the automatic half (scored) and the manual half (irq).  *)
(***************************************************************************)
Result == [scored : BOOLEAN, irq : IRQs \cup {None}]

\* A stored object: whose upload it is, and whether all of it was written.
Archive == [owner : Requests, whole : BOOLEAN]

ASSUME NoneAssumption ==
    /\ None \notin Requests \cup Files \cup IRQs \cup Operators
    /\ None \notin Result /\ None \notin Archive

ReqPC == {"new", "validating", "scanning", "storing", "copying", "config",
          "checking", "scoring", "recording", "done", "dead"}

Statuses == {0, 200, 400, 401, 403, 422, 500, 503}

VARIABLES
    \* the submit requests
    up,         \* [Requests -> Uploads]: what each request carries
    pc,         \* [Requests -> ReqPC]
    status,     \* [Requests -> Statuses]: HTTP status answered, 0 before
    scan,       \* [Requests -> scan coverage], Entry.Scan
    result,     \* [Requests -> the scoring.Result the handler built]
    gone,       \* requests whose client has disconnected
    \* the stores
    archives,   \* [Files -> Archive \cup {None}]
    scores,     \* [Requests -> Result \cup {None}]
    logged,     \* ids of the entries of submissions.jsonl
    tail,       \* how submissions.jsonl ends: see Record
    configured, \* exercise.Config.Configured()
    \* the admin handlers
    dpc, did,           \* delete: where it is, and the id it deletes
    spc, sid, sirq, ssnap, \* score: id, the score entered, the record read
    vpc, vrows, vscored,   \* summary: the entries read, those shown scored
    \* environment and history
    faults,     \* I/O failures and crashes so far
    removed,    \* ids whose entry log.Delete took out of the log
    revived     \* ids whose record was gone when a score handler wrote it

reqVars == <<up, pc, status, scan, result, gone>>
storeVars == <<archives, scores, logged, tail, configured>>
delVars == <<dpc, did, removed>>
scoreVars == <<spc, sid, sirq, ssnap, revived>>
viewVars == <<vpc, vrows, vscored>>
vars == <<reqVars, storeVars, delVars, scoreVars, viewVars, faults>>

TypeOK ==
    /\ up \in [Requests -> Uploads]
    /\ pc \in [Requests -> ReqPC]
    /\ status \in [Requests -> Statuses]
    /\ scan \in [Requests -> {None, "complete", "partial"}]
    /\ result \in [Requests -> Result \cup {None}]
    /\ gone \subseteq Requests
    /\ archives \in [Files -> Archive \cup {None}]
    /\ scores \in [Requests -> Result \cup {None}]
    /\ logged \subseteq Requests
    /\ tail \in {"clean", "noeol", "torn"}
    /\ configured \in BOOLEAN
    /\ dpc \in [Deleters -> {"idle", "archive", "score", "entry"}]
    /\ did \in [Deleters -> Requests \cup {None}]
    /\ spc \in [Scorers -> {"idle", "get", "set"}]
    /\ sid \in [Scorers -> Requests \cup {None}]
    /\ sirq \in [Scorers -> IRQs \cup {None}]
    /\ ssnap \in [Scorers -> Result \cup {None}]
    /\ vpc \in [Viewers -> {"idle", "join", "shown"}]
    /\ vrows \in [Viewers -> SUBSET Requests]
    /\ vscored \in [Viewers -> SUBSET Requests]
    /\ faults \in 0 .. MaxFaults
    /\ removed \subseteq Requests
    /\ revived \subseteq Requests

Init ==
    /\ up \in [Requests -> Uploads]
    /\ pc = [r \in Requests |-> "new"]
    /\ status = [r \in Requests |-> 0]
    /\ scan = [r \in Requests |-> None]
    /\ result = [r \in Requests |-> None]
    /\ gone = {}
    /\ archives = [f \in Files |-> None]
    /\ scores = [r \in Requests |-> None]
    /\ logged = {}
    /\ tail = "clean"
    /\ configured = FALSE
    /\ dpc = [d \in Deleters |-> "idle"]
    /\ did = [d \in Deleters |-> None]
    /\ spc = [s \in Scorers |-> "idle"]
    /\ sid = [s \in Scorers |-> None]
    /\ sirq = [s \in Scorers |-> None]
    /\ ssnap = [s \in Scorers |-> None]
    /\ vpc = [v \in Viewers |-> "idle"]
    /\ vrows = [v \in Viewers |-> {}]
    /\ vscored = [v \in Viewers |-> {}]
    /\ faults = 0
    /\ removed = {}
    /\ revived = {}

-----------------------------------------------------------------------------
(***************************************************************************)
(* Helpers.                                                                *)
(***************************************************************************)
Goto(r, label) == pc' = [pc EXCEPT ![r] = label] /\ UNCHANGED status

\* writeSubmitResult: the handler answers and returns.
Answer(r, code) ==
    /\ pc' = [pc EXCEPT ![r] = "done"]
    /\ status' = [status EXCEPT ![r] = code]

\* One more I/O failure or crash.  A store call that fails may have taken
\* effect all the same: atomicfile.Write also returns an error when only the
\* directory sync after its rename failed, and an object-store request may
\* be applied though its answer is lost.
Fault == faults < MaxFaults /\ faults' = faults + 1

InFlight(r) == pc[r] \notin {"new", "done", "dead"}

-----------------------------------------------------------------------------
(***************************************************************************)
(* POST /submit                                                            *)
(***************************************************************************)

\* RequireSession, then ParseMultipartForm and FormFile, then ValidateFilename.
Authenticated(u) == u.session # None
FormReadable(u) == u.form = "ok"
FilenameValid(u) == u.file # None

Receive(r) ==
    /\ pc[r] = "new"
    /\ \/ ~Authenticated(up[r]) /\ Answer(r, 401)
       \/ Authenticated(up[r]) /\ ~FormReadable(up[r]) /\ Answer(r, 400)
       \/ Authenticated(up[r]) /\ FormReadable(up[r])
          /\ ~FilenameValid(up[r]) /\ Answer(r, 400)
       \/ Authenticated(up[r]) /\ FormReadable(up[r])
          /\ FilenameValid(up[r]) /\ Goto(r, "validating")
    /\ UNCHANGED <<up, scan, result, gone, storeVars, delVars, scoreVars,
                   viewVars, faults>>

\* ValidateArchive's verdict on the tar and ValidateMetadata's on its
\* metadata.json.
ArchiveValid(u) == u.shape # "badarchive"
MetadataValid(u) == u.shape # "badmetadata"

\* The identity cross-checks: metadata.json against the authenticated
\* operator, then against the filename.  (The definitions named Faulty... are
\* what a plausible slip would make of the one they precede; they are used
\* only to show that the properties notice.)
FaultyIdentityProved(u) == u.session # None   \* any authenticated operator
IdentityProved(u) == u.owner = u.session
MonikerMatches(u) == u.moniker

\* The phase after validation: the scan is skipped when no scanner is wired.
AfterValidation == IF Scanning THEN "scanning" ELSE "storing"

\* ValidateArchive (which gives up once the request's context is cancelled),
\* ValidateMetadata and the identity cross-checks.
Validate(r) ==
    /\ pc[r] = "validating"
    /\ \/ ~ArchiveValid(up[r]) /\ Answer(r, 400)
       \/ r \in gone /\ Answer(r, 400)
       \/ ArchiveValid(up[r])
          /\ \/ ~MetadataValid(up[r]) /\ Answer(r, 400)
             \/ MetadataValid(up[r]) /\ ~IdentityProved(up[r]) /\ Answer(r, 403)
             \/ MetadataValid(up[r]) /\ IdentityProved(up[r])
                /\ ~MonikerMatches(up[r]) /\ Answer(r, 400)
             \/ MetadataValid(up[r]) /\ IdentityProved(up[r])
                /\ MonikerMatches(up[r]) /\ Goto(r, AfterValidation)
    /\ UNCHANGED <<up, scan, result, gone, storeVars, delVars, scoreVars,
                   viewVars, faults>>

\* What scanArchive may return for some content.  The budget may run out, or
\* the stream break, before the infected or unreadable part is reached: the
\* verdict is then clean over an incomplete coverage.
ScanVerdicts(content) ==
    CASE content = "clean"      -> {"complete", "partial"}
      [] content = "infected"   -> {"infected", "partial"}
      [] content = "unreadable" -> {"unreadable", "partial"}

\* The switch on scanArchive's outcome.
Accepts(verdict) == verdict \in {"complete", "partial"}
Rejection(verdict) == IF verdict = "infected" THEN 422 ELSE 400

\* The antivirus step: fails closed on a scanner failure.
Scan(r) ==
    /\ pc[r] = "scanning"
    /\ \/ \E verdict \in ScanVerdicts(up[r].content) :
             \/ /\ Accepts(verdict)
                /\ scan' = [scan EXCEPT ![r] = verdict]
                /\ Goto(r, "storing")
             \/ /\ ~Accepts(verdict)
                /\ Answer(r, Rejection(verdict)) /\ UNCHANGED scan
          /\ UNCHANGED faults
       \/ r \in gone /\ Answer(r, 503) /\ UNCHANGED <<scan, faults>>
       \/ Fault /\ Answer(r, 503) /\ UNCHANGED scan
    /\ UNCHANGED <<up, result, gone, storeVars, delVars, scoreVars, viewVars>>

\* LocalStore.Save, the O_EXCL create: an existing file is never reopened.
FaultyCreatable(f) == TRUE   \* opened without O_EXCL
Creatable(f) == archives[f] = None

SaveOpen(r) ==
    /\ Local /\ pc[r] = "storing"
    /\ \/ /\ Creatable(up[r].file)
          /\ archives' = [archives EXCEPT ![up[r].file] =
                            [owner |-> r, whole |-> FALSE]]
          /\ Goto(r, "copying") /\ UNCHANGED faults
       \/ /\ ~Creatable(up[r].file) /\ Answer(r, 500)
          /\ UNCHANGED <<archives, faults>>
       \/ Fault /\ Answer(r, 500) /\ UNCHANGED archives
    /\ UNCHANGED <<up, scan, result, gone, scores, logged, tail, configured,
                   delVars, scoreVars, viewVars>>

\* io.Copy failed: 500.
FaultyCopyFailed(r) == Goto(r, "config")   \* the error dropped
CopyFailed(r) == Answer(r, 500)

\* LocalStore.Save, the copy.  A failed copy leaves the partial file behind.
\* A file unlinked in the meantime is written through its open descriptor
\* all the same, and Save succeeds.
SaveCopy(r) ==
    /\ pc[r] = "copying"
    /\ \/ /\ archives' = IF archives[up[r].file] = [owner |-> r, whole |-> FALSE]
                         THEN [archives EXCEPT ![up[r].file] =
                                 [owner |-> r, whole |-> TRUE]]
                         ELSE archives
          /\ Goto(r, "config") /\ UNCHANGED faults
       \/ Fault /\ CopyFailed(r) /\ UNCHANGED archives
    /\ UNCHANGED <<up, scan, result, gone, scores, logged, tail, configured,
                   delVars, scoreVars, viewVars>>

\* S3Store.Save: PutObject replaces whatever the key held.  The request's
\* context reaches it, so a disconnect may fail it, applied or not.
SavePut(r) ==
    /\ ~Local /\ pc[r] = "storing"
    /\ LET put == [archives EXCEPT ![up[r].file] =
                     [owner |-> r, whole |-> TRUE]]
       IN \/ archives' = put /\ Goto(r, "config") /\ UNCHANGED faults
          \/ /\ archives' \in {archives, put}
             /\ Answer(r, 500)
             /\ \/ r \in gone /\ UNCHANGED faults
                \/ Fault
    /\ UNCHANGED <<up, scan, result, gone, scores, logged, tail, configured,
                   delVars, scoreVars, viewVars>>

\* Without an exercise to check against only the checks are skipped.
FaultyAfterConfig == IF configured THEN "checking" ELSE "done"
AfterConfig == IF configured THEN "checking" ELSE "scoring"

\* exercise.FileStore.Get.  A failed read is logged and leaves no record; an
\* unconfigured exercise leaves an unscored one.
ReadConfig(r) ==
    /\ pc[r] = "config"
    /\ \/ /\ result' = [result EXCEPT ![r] = [scored |-> FALSE, irq |-> None]]
          /\ Goto(r, AfterConfig)
          /\ UNCHANGED faults
       \/ Fault /\ Goto(r, "recording") /\ UNCHANGED result
    /\ UNCHANGED <<up, scan, gone, storeVars, delVars, scoreVars, viewVars>>


\* autoChecks runs under context.WithoutCancel: whether the client is still
\* there does not matter.
FaultyRunsToCompletion(r) == r \notin gone   \* the request's own context
RunsToCompletion(r) == TRUE

\* autoChecks and the automatic scores; a failed read leaves it unscored.
AutoChecks(r) ==
    /\ pc[r] = "checking"
    /\ \/ /\ result' = [result EXCEPT ![r] =
                         [scored |-> RunsToCompletion(r), irq |-> None]]
          /\ UNCHANGED faults
       \/ Fault /\ UNCHANGED result
    /\ Goto(r, "scoring")
    /\ UNCHANGED <<up, scan, gone, storeVars, delVars, scoreVars, viewVars>>

\* Scores.Set: a failure is only logged.
SetScore(r) ==
    /\ pc[r] = "scoring"
    /\ LET set == [scores EXCEPT ![r] = result[r]]
       IN \/ scores' = set /\ UNCHANGED faults
          \/ Fault /\ scores' \in {scores, set}
    /\ Goto(r, "recording")
    /\ UNCHANGED <<up, scan, result, gone, archives, logged, tail, configured,
                   delVars, scoreVars, viewVars>>

(***************************************************************************)
(* FileLog.Record appends one line; it is a plain write, not a rewrite.    *)
(* The file ends in a complete line ("clean"), in a complete entry without *)
(* its newline ("noeol"), or holds a line that does not parse ("torn").    *)
(* An entry appended after "noeol" joins the entry before it into one line *)
(* that does not parse.  Nothing repairs a torn file.                      *)
(***************************************************************************)
Append(r) ==
    /\ logged' = IF tail = "clean" THEN logged \cup {r} ELSE logged
    /\ tail' = IF tail = "clean" THEN "clean" ELSE "torn"

\* A write that fails part way: nothing, a prefix, or all but the newline.
AppendFails(r) ==
    \/ UNCHANGED <<logged, tail>>
    \/ tail' = "torn" /\ UNCHANGED logged
    \/ tail = "clean" /\ tail' = "noeol" /\ logged' = logged \cup {r}

\* Log.Record: a failure is only logged; the answer is 200 either way.
Record(r) ==
    /\ pc[r] = "recording"
    /\ \/ Append(r) /\ UNCHANGED faults
       \/ Fault /\ AppendFails(r)
    /\ Answer(r, 200)
    /\ UNCHANGED <<up, scan, result, gone, archives, scores, configured,
                   delVars, scoreVars, viewVars>>

\* The client goes away: r.Context() is cancelled.
Disconnect(r) ==
    /\ InFlight(r) /\ r \notin gone
    /\ gone' = gone \cup {r}
    /\ UNCHANGED <<up, pc, status, scan, result, storeVars, delVars,
                   scoreVars, viewVars, faults>>

-----------------------------------------------------------------------------
\* POST /admin/exercise: a config that passes Validate has a deadline, so it
\* is configured, and no later one can undo that.
Configure ==
    /\ ~configured /\ configured' = TRUE
    /\ UNCHANGED <<reqVars, archives, scores, logged, tail, delVars,
                   scoreVars, viewVars, faults>>

\* FileLog.Entries fails as soon as one line does not parse.
Readable == tail # "torn"

-----------------------------------------------------------------------------
(***************************************************************************)
(* DELETE /admin/submissions/{id}                                          *)
(***************************************************************************)
DelReturn(d) ==
    /\ dpc' = [dpc EXCEPT ![d] = "idle"]
    /\ did' = [did EXCEPT ![d] = None]

DelGoto(d, label) == dpc' = [dpc EXCEPT ![d] = label] /\ UNCHANGED did

\* The lookup of the entry (and its filename).  An unreadable log (500) and
\* an unknown id (404) change nothing.
DelLookup(d, id) ==
    /\ dpc[d] = "idle" /\ Readable /\ id \in logged
    /\ dpc' = [dpc EXCEPT ![d] = "archive"]
    /\ did' = [did EXCEPT ![d] = id]
    /\ UNCHANGED <<reqVars, storeVars, removed, scoreVars, viewVars, faults>>

\* store.Delete failed: 502, before any bookkeeping.
FaultyArchiveKept(d) == DelGoto(d, "score")   \* bookkeeping goes on
ArchiveKept(d) == DelReturn(d)

\* store.Delete succeeded: a missing object is not an error.
FaultyArchiveGone(d) ==
    IF archives[up[did[d]].file] = None THEN DelReturn(d) ELSE DelGoto(d, "score")
ArchiveGone(d) == DelGoto(d, "score")

\* store.Delete(entry.Filename).
DelArchive(d) ==
    /\ dpc[d] = "archive"
    /\ LET without == [archives EXCEPT ![up[did[d]].file] = None]
       IN \/ archives' = without /\ ArchiveGone(d) /\ UNCHANGED faults
          \/ Fault /\ archives' \in {archives, without} /\ ArchiveKept(d)
    /\ UNCHANGED <<reqVars, scores, logged, tail, configured, removed,
                   scoreVars, viewVars>>

\* scores.Delete failed: 500, the entry stays.
FaultyScoreKept(d) == DelGoto(d, "entry")
ScoreKept(d) == DelReturn(d)

\* scores.Delete(id), a no-op without a record.
DelScore(d) ==
    /\ dpc[d] = "score"
    /\ LET without == [scores EXCEPT ![did[d]] = None]
       IN \/ scores' = without /\ DelGoto(d, "entry") /\ UNCHANGED faults
          \/ Fault /\ scores' \in {scores, without} /\ ScoreKept(d)
    /\ UNCHANGED <<reqVars, archives, logged, tail, configured, removed,
                   scoreVars, viewVars>>

\* FileLog.Delete: an entry another handler has already removed is fine; a
\* rewrite ends every line, so it repairs a missing newline.
RemoveEntry(id) ==
    /\ logged' = logged \ {id}
    /\ tail' = IF id \in logged THEN "clean" ELSE tail
    /\ removed' = removed \cup (logged \cap {id})

\* log.Delete(id), then 204.
DelEntry(d) ==
    /\ dpc[d] = "entry"
    /\ \/ Readable /\ RemoveEntry(did[d]) /\ UNCHANGED faults
       \/ ~Readable /\ UNCHANGED <<logged, tail, removed, faults>>
       \/ /\ Fault
          /\ \/ UNCHANGED <<logged, tail, removed>>
             \/ Readable /\ RemoveEntry(did[d])
    /\ DelReturn(d)
    /\ UNCHANGED <<reqVars, archives, scores, configured, scoreVars, viewVars>>

-----------------------------------------------------------------------------
(***************************************************************************)
(* POST /admin/submissions/{id}/score                                      *)
(***************************************************************************)
ScoreReturn(s) ==
    /\ spc' = [spc EXCEPT ![s] = "idle"]
    /\ sid' = [sid EXCEPT ![s] = None]
    /\ sirq' = [sirq EXCEPT ![s] = None]
    /\ ssnap' = [ssnap EXCEPT ![s] = None]

\* The body is a score in range and the id is in the log; the other answers
\* (400, 404, 415, 500) change nothing.
ScoreLookup(s, id, irq) ==
    /\ spc[s] = "idle" /\ Readable /\ id \in logged
    /\ spc' = [spc EXCEPT ![s] = "get"]
    /\ sid' = [sid EXCEPT ![s] = id]
    /\ sirq' = [sirq EXCEPT ![s] = irq]
    /\ UNCHANGED <<ssnap, revived, reqVars, storeVars, delVars, viewVars,
                   faults>>

\* A manual score completes an automatic half; without one it is refused.
FaultyScorable(rec) == rec # None
Scorable(rec) == rec # None /\ rec.scored

\* scores.Get(id): 409 without an automatic half, 500 on a read failure.
ScoreGet(s) ==
    /\ spc[s] = "get"
    /\ \/ /\ Scorable(scores[sid[s]])
          /\ spc' = [spc EXCEPT ![s] = "set"]
          /\ ssnap' = [ssnap EXCEPT ![s] = scores[sid[s]]]
          /\ UNCHANGED <<sid, sirq, faults>>
       \/ ~Scorable(scores[sid[s]]) /\ ScoreReturn(s) /\ UNCHANGED faults
       \/ Fault /\ ScoreReturn(s)
    /\ UNCHANGED <<reqVars, storeVars, delVars, viewVars, revived>>

\* The record read, with the manual score filled in.
FaultyWithManual(rec, irq) == [scored |-> FALSE, irq |-> irq]   \* a fresh record
WithManual(rec, irq) == [rec EXCEPT !.irq = irq]

\* scores.Set of that record, which brings it back if a delete handler has
\* removed it since it was read.
ScoreSet(s) ==
    /\ spc[s] = "set"
    /\ LET set == [scores EXCEPT ![sid[s]] = WithManual(ssnap[s], sirq[s])]
       IN \/ scores' = set /\ UNCHANGED faults
          \/ Fault /\ scores' \in {scores, set}
    /\ revived' = IF scores[sid[s]] = None /\ scores'[sid[s]] # None
                  THEN revived \cup {sid[s]} ELSE revived
    /\ ScoreReturn(s)
    /\ UNCHANGED <<reqVars, archives, logged, tail, configured, delVars,
                   viewVars>>

-----------------------------------------------------------------------------
(***************************************************************************)
(* GET /admin/summary (and /admin/submissions): the entries are read       *)
(* first, the scoring records afterwards, each under its own lock.         *)
(***************************************************************************)
ViewEntries(v) ==
    /\ vpc[v] \in {"idle", "shown"} /\ Readable
    /\ vrows' = [vrows EXCEPT ![v] = logged]
    /\ vscored' = [vscored EXCEPT ![v] = {}]
    /\ vpc' = [vpc EXCEPT ![v] = "join"]
    /\ UNCHANGED <<reqVars, storeVars, delVars, scoreVars, faults>>

FaultyShownScored(i) == scores[i] # None /\ scores[i].irq # None
ShownScored(i) == scores[i] # None /\ scores[i].scored

\* scores.ByID and the join; 500 when the records cannot be read.
ViewScores(v) ==
    /\ vpc[v] = "join"
    /\ \/ /\ vscored' = [vscored EXCEPT ![v] = {i \in vrows[v] : ShownScored(i)}]
          /\ vpc' = [vpc EXCEPT ![v] = "shown"] /\ UNCHANGED <<vrows, faults>>
       \/ /\ Fault /\ vpc' = [vpc EXCEPT ![v] = "idle"]
          /\ vrows' = [vrows EXCEPT ![v] = {}] /\ UNCHANGED vscored
    /\ UNCHANGED <<reqVars, storeVars, delVars, scoreVars>>

-----------------------------------------------------------------------------
\* The process dies and is restarted: handlers in progress are gone, what
\* they handed to the stores stays.
Crash ==
    /\ Fault
    /\ pc' = [r \in Requests |-> IF InFlight(r) THEN "dead" ELSE pc[r]]
    /\ dpc' = [d \in Deleters |-> "idle"]
    /\ did' = [d \in Deleters |-> None]
    /\ spc' = [s \in Scorers |-> "idle"]
    /\ sid' = [s \in Scorers |-> None]
    /\ sirq' = [s \in Scorers |-> None]
    /\ ssnap' = [s \in Scorers |-> None]
    /\ vpc' = [v \in Viewers |-> "idle"]
    /\ vrows' = [v \in Viewers |-> {}]
    /\ vscored' = [v \in Viewers |-> {}]
    /\ UNCHANGED <<up, status, scan, result, gone, storeVars, removed, revived>>

\* The steps of one handler, once called.
Submit(r) ==
    \/ Validate(r) \/ Scan(r) \/ SaveOpen(r) \/ SaveCopy(r) \/ SavePut(r)
    \/ ReadConfig(r) \/ AutoChecks(r) \/ SetScore(r) \/ Record(r)

Delete(d) == DelArchive(d) \/ DelScore(d) \/ DelEntry(d)

Score(s) == ScoreGet(s) \/ ScoreSet(s)

Next ==
    \/ \E r \in Requests : Receive(r) \/ Submit(r) \/ Disconnect(r)
    \/ \E d \in Deleters : Delete(d) \/ \E id \in Requests : DelLookup(d, id)
    \/ \E s \in Scorers : Score(s) \/ \E id \in Requests, irq \in IRQs :
                                         ScoreLookup(s, id, irq)
    \/ \E v \in Viewers : ViewEntries(v) \/ ViewScores(v)
    \/ Configure
    \/ Crash

Spec == Init /\ [][Next]_vars

\* Go schedules every runnable handler goroutine: a handler that can take
\* its next step eventually does.
Fairness ==
    /\ \A r \in Requests : WF_vars(Submit(r))
    /\ \A d \in Deleters : WF_vars(Delete(d))

FairSpec == Spec /\ Fairness

-----------------------------------------------------------------------------
(***************************************************************************)
(* Properties.                                                             *)
(***************************************************************************)

Owns(f, r) == archives[f] # None /\ archives[f].owner = r

Vetted(r) ==
    /\ up[r].session # None /\ up[r].shape = "ok"
    /\ up[r].owner = up[r].session /\ up[r].moniker
    /\ Scanning => scan[r] \in {"complete", "partial"}
    /\ ~Scanning => scan[r] = None

(***************************************************************************)
(* Nothing reaches the archive store, the scoring records or the log       *)
(* unless its sender proved the identity the archive claims and, when a    *)
(* scanner is wired, a clean verdict was returned for it (submit.go: "only *)
(* if every check passes"; Entry.Scan: "a scan that errors, or finds       *)
(* something, fails the submission outright, so no Entry is written").     *)
(***************************************************************************)
OnlyVettedIsKept ==
    \A r \in Requests :
        (r \in logged \/ scores[r] # None \/ \E f \in Files : Owns(f, r))
            => Vetted(r)

(***************************************************************************)
(* A scoring record never carries a manual score without an automatic half *)
(* (score.go: "A manual score completes an automatic half; it doesn't      *)
(* stand in for one"), whatever the record was when the admin handler read *)
(* it and whatever it is when the handler writes it back.                  *)
(***************************************************************************)
ManualNeedsAutomatic ==
    \A r \in Requests :
        scores[r] # None => (scores[r].irq # None => scores[r].scored)

(***************************************************************************)
(* A submission whose entry has left the log has left no archive behind    *)
(* (delete.go: the archive is deleted first, so that the dashboard never   *)
(* shows a submission gone "while its archive still exists somewhere with  *)
(* nothing left pointing at it").  Store failures and crashes included.    *)
(***************************************************************************)
NoStrandedArchive ==
    \A r \in removed : \A f \in Files : ~Owns(f, r)

(***************************************************************************)
(* A submission whose entry has left the log has no scoring record either  *)
(* (delete.go removes entry, record and archive "together"), whatever      *)
(* failed on the way, unless a score handler that had read the record      *)
(* before the delete wrote it back after: no other way leads to an orphan, *)
(* and a record that merely carries a manual score is no exception.        *)
(***************************************************************************)
NoOrphanRecord ==
    \A r \in removed : scores[r] # None => r \in revived

(***************************************************************************)
(* What the log lists was stored whole: the file a failed copy or a crash  *)
(* leaves behind half written never belongs to a listed entry.             *)
(***************************************************************************)
ListedArchiveIsWhole ==
    \A r \in logged : \A f \in Files : Owns(f, r) => archives[f].whole

(***************************************************************************)
(* While nothing fails, every listed submission still has its archive on   *)
(* local storage, unless a delete handler is taking that very submission   *)
(* apart.  Holds for one delete handler at a time.                         *)
(***************************************************************************)
BeingDeleted(r) == \E d \in Deleters : did[d] = r /\ dpc[d] \in {"score", "entry"}

ListedHasArchive ==
    faults = 0 =>
        \A r \in logged : BeingDeleted(r) \/ Owns(up[r].file, r)

(***************************************************************************)
(* While nothing fails, an archive on local storage belongs to a listed    *)
(* submission or to one whose handler is still at work, whatever clients   *)
(* disconnect.  (A crash between Save and Record, a failed copy or a       *)
(* failed append leaves one that no entry names, and that no handler       *)
(* removes.)                                                               *)
(***************************************************************************)
KeptIsListed ==
    Local /\ faults = 0 =>
        \A f \in Files : archives[f] # None =>
            archives[f].owner \in logged \/ InFlight(archives[f].owner)

(***************************************************************************)
(* A delete handler removes no archive but that of the submission it       *)
(* deletes (the design note on partial failure: "the retry just finishes   *)
(* the remaining steps").                                                  *)
(***************************************************************************)
DeletesOnlyItsOwn ==
    [][\A d \in Deleters, f \in Files :
          DelArchive(d) /\ archives[f] # None /\ archives'[f] = None
              => archives[f].owner = did[d]]_vars

(***************************************************************************)
(* A manual score, once entered, only goes with its record: no later       *)
(* write of the record (another admin's, or the submission's own) drops it *)
(* or the automatic half.                                                  *)
(***************************************************************************)
ScoresOnlyGrow ==
    [][\A r \in Requests :
          scores[r] # None /\ scores'[r] # None
              => /\ scores[r].scored => scores'[r].scored
                 /\ scores[r].irq # None => scores'[r].irq # None]_vars

(***************************************************************************)
(* While nothing fails, a row of the summary shows "not yet scored" only   *)
(* for a submission that was in fact not scored, or is deleted by now: the *)
(* record is written before the entry, and read after it.                  *)
(***************************************************************************)
RowsShowTheirScore ==
    \A v \in Viewers : \A r \in vrows[v] :
        vpc[v] = "shown" /\ faults = 0 /\ result[r] # None /\ result[r].scored
            => r \in vscored[v] \/ r \in removed \/ BeingDeleted(r)

(***************************************************************************)
(* Once the handler has begun the automatic checks, the submission ends up *)
(* listed with a scored record, whether or not its sender stays connected  *)
(* (submit.go: "a validator who closes their browser [...] must not leave  *)
(* the archive stored but permanently unscored"), unless something fails.  *)
(***************************************************************************)
CheckedIsListedScored ==
    \A r \in Requests :
        pc[r] = "checking" ~> \/ faults > 0
                              \/ /\ r \in logged
                                 /\ scores[r] # None /\ scores[r].scored

(***************************************************************************)
(* A delete that has started is finished by retrying it (storage/store.go: *)
(* "callers may retry a delete that partially succeeded"), unless the log  *)
(* can no longer be read.  Assumes an admin who retries.                   *)
(***************************************************************************)
RetrySpec ==
    FairSpec /\ \A id \in Requests : WF_vars(\E d \in Deleters : DelLookup(d, id))

RetriedDeleteFinishes ==
    \A id \in Requests :
        (\E d \in Deleters : did[d] = id) ~> (id \notin logged \/ ~Readable)
=============================================================================
