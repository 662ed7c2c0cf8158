# Validator-diagnostics portal: TLA+ models, model checks and proofs

The portal lets validators of a drill prove control of their operator key,
upload a diagnostics archive, and have it vetted, stored, scored and listed;
organisers score the one manual criterion, delete submissions and publish a
summary. Everything is kept in flat files, an archive store and memory, without
transactions: what can go wrong happens between two locked calls, at a failed
write, at a crash, or at the edge of a budget or a window. That is what this
project models.

Contents: [parts](#the-parts-of-the-system), [modules](#modules-and-code),
[runs](#runs), [fairness](#fairness), [proofs](#proofs),
[disagreements](#where-code-and-documentation-disagree),
[limits](#what-is-not-modelled), [plan](#plan).

## The parts of the system

| part | state | operations | what makes it correct |
|---|---|---|---|
| submit handler (`portal/submit.go`) | per request: phase, scan coverage, result | session, form, filename, archive, metadata and identity checks; antivirus; save; automatic scoring; record | only vetted uploads reach a store; a checked submission ends up listed and scored though its sender leaves |
| archive store (`storage/`) | filename → object | `Save` (exclusive create + copy, or replacing put), `Delete` (idempotent) | no overwrite on disk; nothing listed is half written; nothing stranded |
| submission log (`portal/log.go`) | lines of `submissions.jsonl` | `Record` (append), `Entries`, `Delete` (rewrite) | readable or an error; deletion removes one entry |
| scoring records (`scoring/store.go`, `internal/atomicfile`) | id → record in one file | `Set`, `Delete`, `Get`, `ByID` | an atomic map that survives crashes and power cuts |
| admin handlers (`portal/score.go`, `delete.go`, `summary.go`) | a snapshot taken before a later call | manual score, deletion, summary | no manual score without an automatic one; a deletion deletes everything, and only its own |
| submission limit (`portal/limit.go`) | N slots, a queue, timers | wait, enter, time out, give up, leave | never more than N, no leaked or idle slot, nobody waits for ever |
| progress tracker (`portal/progress.go`) | one row per operator | `Begin`, `Phase`, `Add`, `Done`, `Get` | the row is the newest submission's own |
| antivirus pass (`clamav/windowed.go`, `scanArchive`) | budget, window, overlap, coverage | one scan per window | no signature split by a boundary; coverage never overstated |
| archive validation (`submission/archive.go`) | names seen, bytes drained | walk the tar entry by entry | exactly the well-formed archives accepted, at a bounded cost |
| log assessment (`scoring/checks.go`, `score.go`) | first/last instant, byte budget | walk the logs again, scan lines, grade, print | coverage real, blame deserved, scored only if assessed |
| exercise configuration (`exercise/`) and upload tier | announce and deadline instants | replace, score an instant | the tier is the quarter |
| login (`auth/`, `portal/admin.go`, routes and secrets of `cmd/portal/main.go`) | nonces in memory, two signing secrets, stateless tokens | challenge, verify (upload or admin), admit, restart | every session proved, one per nonce, opening its own routes only |
| rescore tool (`cmd/rescore`) | a snapshot of entries and records | recompute and rewrite every record | manual scores kept, every readable record corrected |
| upload page (`cmd/portal/static/portal.js`) | request in flight, poll timer, panel | click, poll, paint, stop | the panel is about the submission in flight |
| metadata and filename validators (`submission/`) | none | verdict on a string or document | (verdicts) |
| admin page, flags, static assets (`cmd/portal`) | none of their own | rendering, start-up | (out of scope) |

Interactions. Every HTTP request is a goroutine. The submit handler runs behind
the limit, publishes to the progress tracker, and calls antivirus, archive
store, exercise store, scoring store and log in that order. The admin handlers
call log, archive store and scoring store, each call under its own mutex and
none under a common one. The rescore tool opens the same files from another
process. `PROJECT.json` lists, under `hazards`, each place where this can go
wrong.

## Modules and code

Names follow the code; `PROJECT.json` maps every definition to its lines.
Definitions named `Faulty...` stand before the definition they distort; nothing
uses them in the specification. They are what a plausible slip would make of
the code, and show that the properties would notice it.

**`Submissions`** is the core: submit, delete, score and summary handlers over
the archive store, the records and the log. One action is one call on a store
(or one phase that touches none); between two actions of a handler anything
else may run, its client may disconnect, and the portal may crash. `archives`
maps a filename to the object it holds (whose upload, whole or not), `scores`
an id to a record, `logged` is the set of entries and `tail` how the log file
ends, because an append may be cut short. A failed store call may or may not
have taken effect. A request is its own submission id. The record is reduced to
"has an automatic half" and the manual score. Uploads are records of the facts
the handler tests, in the order it tests them. Three variables are history:
`removed` (entries that left the log), `revived` (records a score handler has
written after their deletion) and `faults`.

**`ScoresFile`** opens up one store call: lock, read, change in memory, write a
temporary file, fsync, rename, directory fsync, with errors, process crashes and
power cuts between any two. **`DurableMap`** is the abstract specification: an
atomic map of which a power cut may lose what was not yet made durable.
`ScoresFile` implements it (`ImplementsDurableMap`), which is what justifies one
action per call in `Submissions`; `FileLog.Delete` and `exercise.FileStore.Set`
rewrite through the same function.

**`SubmissionLimit`**: the channel of N slots as a count with a queue of blocked
senders, timers against a clock, and the session check made with the slot held.

**`Rescore`**: the rescore tool and the portal as two processes over one scores
file. The store's mutex does not reach across processes, so an update is two
steps here: read the whole map, replace the file. The tool reads entries and
records once, then takes the entries one by one, skipping those whose archive
cannot be read; any write may fail and either process may die. The log has its `tail` here too:
an append cut short leaves a line that does not parse, after which the handlers'
lookups fail and every run of the tool ends at `Entries` (`RefuseEntries`).
A record tells who computed it and from whose archive, so that a filename used
again shows.

**`Progress`**: the tracker's map, its generation tokens, and what each
submission has really done, so that the published row can be compared with it.
**`Page`** extends it with the page that polls it: the submit button, the
timer, several polls under way at once whose answers may be lost or overtake
each other, and requests that end in the browser while the server is still at
work on them. Every step of the composition is a step of the tracker or leaves
it alone (`PageImplementsTracker`).

**`WindowedScan`**: `scanArchive` and `ScanStream`. A log is a length, an end
(EOF or error), whether it opens, and the position of a signature. One step
scans one window, the drain included. `seen` records what came back with a
verdict.

**`Archive`**: `ValidateArchive` over an arbitrary archive: any entries in any
order, repeated, mistyped, oversized, broken inside or cut short, a client that
leaves. `WellFormed` is the reference, stated on the archive as a whole.

**`UploadTier`**: `TieredTimeScore` with saturating `time.Time.Sub` and
truncating division; `QuarterScores` is the reference.

**`AutoChecks`** extends both: after the first walk accepted the archive, the
second (`autoChecks`, `ScanLogs`) hands each log to `scanLogWindow`; a log is
its lines, with a size and an instant, and a scan stops at the end, at the
byte budget, inside a line or at one that is too long. The record is made of
what both walks found; the summary's line is an operator on it.

**`Auth`**: nonces, signed challenges, verify handlers of both kinds that burn
the nonce and then wait for the chain, the tokens they mint and the routes
those open, expiry, restart. A secret is identified by the variable it is for
and the start that drew it: two configured secrets are taken to differ, which
`main` leaves to whoever configures them.

Each has an `MC...` module that gives TLC its constants. The modules ending in
`Proofs` hold the theorems.

## Runs

Passing runs:

| run | instance | shows |
|---|---|---|
| `admin` | two uploads out of a sound one and ten with one defect each, two deleters, one scorer, object storage, one fault | `OnlyVettedIsKept`, `NoStrandedArchive`, `NoOrphanRecord`, `ManualNeedsAutomatic`, `ScoresOnlyGrow` |
| `live` | two uploads of one filename, local disk, one deleter that is retried, one viewer, one fault, fair handlers | `CheckedIsListedScored`, `RetriedDeleteFinishes`; `ListedHasArchive`, `KeptIsListed`, `ListedArchiveIsWhole`, `RowsShowTheirScore` |
| `scoresfile` | two callers, two ids, two faults | `TypeOK` (the file always parses), `AckedSurvives`, `ImplementsDurableMap` |
| `rescore` | two submissions under one filename or two, one handler at a time, a manual score, the tool run any number of times, one fault | `SettledManualSurvives`, `QuietRunCorrects`, `FromOwnArchive`, `RerunsCorrect` |
| `limit` | four requests for two slots, holders that may never return | `SlotsAccountedFor`, `NoIdleSlot`, `LongSessionsAreAccepted`, `WaitEnds` |
| `page` | two submissions of one page, two polls under way, expiring rows and tokens | `RowIsNewestsOwn`, `NewestIsShown`, `PanelIsOwn`, `PollsWhileAlive` |
| `windows` | every pair of logs up to 12 bytes, window 4, overlap 2, budget 9, signature of 3 | `NoneMissed`, `CompleteIsTruthful`, `BytesAreExact`, `FailsClosed` |
| `autochecks` | every archive of up to three entries, each sound, with one defect or at a limit, and of four sound ones; every log of up to three lines, budget 5, lines of 1 to 3 with buffer 2; every configuration and instant in 0..18, durations up to 15 | `AcceptsExactlyWellFormed`, `CostIsBounded`, `CoverageIsReal`, `BlameIsDeserved`, `FullMarksAreEarned`, `ScoredIsAssessed`, `TierIsTheQuarter` |
| `auth` | two operators, one an admin, three nonces, two handlers, a restart that keeps the admin secret and renews the other | `SessionsAreProved`, `NonceBuysOneSession`, `AccessIsEarned` |

Violation runs: `retry`, `truncated` and `rescore_manual`, described
[below](#where-code-and-documentation-disagree).

Bounds. Two requests are enough for the core: its races are between two
submissions that share a filename, or between one submission and admin
handlers, and no handler looks at more than one submission except the summary,
row by row; the safety properties of that run are also proved for any number.
One fault puts a failure or crash at every step; two, in `scoresfile`, let a
failure be followed by another during its clean-up. `MaxFaults`, `MaxEdits`,
`MaxClock`, `MaxTime`, `MaxRestarts` and `Polls` are the only bounds on otherwise
unbounded behaviour. The antivirus instance has logs
shorter than, equal to and longer than a window, the overlap and the budget,
broken at every position; with durations of 5 bits the products of
`TieredTimeScore` do overflow when computed in the wrong order. Symmetry is used
for interchangeable requests, submissions, polls, handlers and nonces, and only
in runs without a liveness property. Deadlock is not checked where requests
simply run out (`CHECK_DEADLOCK FALSE`); `WindowedScan`, `AutoChecks` and
`ScoresFile` are checked for it.

Some properties carry the condition under which the code keeps them.
`ListedHasArchive` holds until something fails and with one delete handler (the
`retry` run shows what a failure and a retry do); so does `FromOwnArchive`.
`KeptIsListed` holds on local storage until something fails: what a crash
between storing and recording leaves behind no entry names. `RowsShowTheirScore`
holds, until something fails, for rows that are not being deleted, because log
and records are read in two calls. `NoOrphanRecord` leaves room for
the record a score handler at work during the deletion writes back, and for no
other: the history variable `revived` holds exactly those, so that a record left
behind with an earlier manual score counts as orphaned.
`RetriedDeleteFinishes` and `RerunsCorrect` end at a log that no longer parses:
nothing in the code repairs it. `BlameIsDeserved` takes the warnings "empty" and
"no recognizable timestamps" at their word only when the scan was not cut short;
the `truncated` run shows what they say when it was. `NewestIsShown` exempts a
row evicted by age. `SettledManualSurvives`
is about the manual scores the tool has read; `rescore_manual` shows what
happens to one entered later. `QuietRunCorrects` is about a run during which the
portal stood still. `PanelIsOwn` and the second half of `PollsWhileAlive` hold
when nothing of an earlier submission was left, on the server or on its way to
the page, as the present one was sent.

## Fairness

`live` assumes that a handler which can take its next step eventually does (Go
schedules every runnable goroutine, and every store call returns) and, for
`RetriedDeleteFinishes`, an admin who repeats a deletion that failed: the code
leaves the retry to the admin by design. `limit` assumes that timers fire,
time passes and goroutines run; nothing is assumed of how long a handler keeps
its slot. `rescore` assumes that both processes are scheduled and, for
`RerunsCorrect`, an operator who goes on running the tool, with `-apply` at least
now and then: the tool is a command, and running it again is how its skipped or
lost updates are made good. No fairness is assumed of clients, crashes or
failures.

## Proofs

TLAPS proves, for every value of the constants (any number of requests,
handlers, files, faults; any window, budget and log):

- **`SubmissionsProofs`**: `TypeCorrect`, `VettedOnly`,
  `NoManualWithoutAutomatic`, `NothingStranded`, `NoRecordOrphaned`,
  `ListedWhole`, `KeptUntilFailure`, `ScoresGrow`, `ListedKeepsArchive`,
  `OwnUntilFailure`, `RowsAreTrue`, `AcceptedStaysKept`.
  None of the invariants is inductive. The strengthening `IInv` adds, to the
  type invariant and to the properties themselves, `RequestInv` (what a
  request that has come this far has passed, and what record it holds),
  `ListedInv` (a listed request has reached its end), `ArchiveInv` (an object's
  owner has reached storage, and past the copy the object is whole),
  `DeleterInv` (past the archive step the deleted id owns no archive, and cannot
  regain one because its upload is over) and `ScorerInv` (the snapshot a score
  handler will write back has an automatic half). One lemma per action. On top
  of it `OrphanInv` follows a deletion past its record step (from there on its id
  has no record, or one in `revived`), and `KeptInv` adds
  that until something fails the log has no half-written line. `HeldInv`
  (until something fails a request holds its archive from the create to the
  append, and a listed one until a deletion is past its first step) gives
  `ListedKeepsArchive` and, of the deletion's own step, `OwnUntilFailure`: the
  wrong archive of the `retry` run takes a failure first. Both are about
  local storage and assume `[]OneDelete`, that two deletions never overlap: of
  two deletions of one submission the later could take a newer upload of the
  same filename. `RowInv` (a scored submission has its record from the step
  before its entry on, until it leaves) gives `RowsAreTrue` with any number of
  overlapping deletions, and with `AnsweredInv` `AcceptedStaysKept`: what a 200
  promised, the safety half of `CheckedIsListedScored`.
- **`ScoresFileProofs`**: `FileIsSound`, `AckedUpdatesSurvive`,
  `StoreIsAtomicMap`. The invariant says that whoever is past the lock holds it,
  that what it read is still the file's content with its own change applied,
  and that disk and file differ only at ids not yet acknowledged. The
  refinement maps the visible content to `seen` and the disk's to `durable`;
  only `Rename`, `SyncDir` and `PowerCut` are steps of the map.
- **`WindowedScanProofs`**: `ScanTypeCorrect`, `NoSignatureMissed`,
  `CompleteMeansAll`, `ScannerFailsClosed`, `BytesAreCounted`. The invariant says that `seen` holds, of the current log,
  exactly a prefix, that the overlap is as long as a signature less one once a
  window is full, and that no signature lies in what was seen. Assumes that a
  signature is no longer than the overlap plus one, and that two overlaps fit in
  a window: the defaults (1 GiB and 1 MiB) meet both. `FailInv` follows a
  scanner failure that did not end the scan to the end of its stream;
  `CountInv` equates the coverage of the finished streams and of the current
  one with the number of positions seen, by what a window adds to them
  (`WindowCounts`).
- **`RescoreProofs`**: `RescoreTypeCorrect`, `SettledManualsSurvive`,
  `QuietRunsCorrect`, `QuietRunsKeepManuals`, `RecordsAreFromOwnArchive`.
  `SettledManualSurvives` is about one map of records, and any process may be about to replace
  that map by one it read earlier. The invariant therefore says of every map
  anywhere (`previous`, those read for an update, the file) that it has the
  manual scores the tool started from (`ChainInv`); that nobody knows a
  submission before its first record is written (`BornInv`); and what each
  process holds at each of its steps (`JobInv`, `ToolInv`). `QuietInv` says of
  a run beside a portal at rest which records are corrected by now and that
  the map read for an update is still the file's. `FromInv` says, until
  something fails, that the file of a listed submission that is not being
  deleted is its own, and so is what every record of it in circulation was
  computed from (the file, the maps read for an update, the jobs, the tool's);
  it needs `AloneInv` (a submission being made is nobody else's, one being
  deleted is still listed) and assumes `[]OneDelete` as above.
- **`ProgressProofs`**: `RowIsTrue`, `NewestHasRow` of the tracker alone;
  `PageImplementsTracker`, by which they hold of the composition;
  `PageTypeCorrect`, `PanelShowsItsOwn`, `PollingIsFaithful`. Tokens are unique
  and increase and the reader's offset is the published count (`TInv`); while
  `alone`, every other submission has ended and every answer under way is the
  present one's (`AloneInv`).
- **`AutoChecksProofs`**: `AcceptanceIsExact`, `CostIsCapped`,
  `AutoChecksTypeCorrect`, `CoverageClaimsAreTrue`, `BlameIsAlwaysDeserved`,
  `FullMarksAreDeserved`, `ScoredMeansAssessed`, `QuarterDecidesTier`, for
  archives and logs of any length. `AInv`: the entries passed are proper and
  distinct, `seen` holds their names, and the cost is within the allowance of
  those names. `SInv`: the accumulators are the extremes of the lines read, and
  the check of every log passed is a judgement of that log; `SpentInv`, its part
  about the budget, says that nothing was charged exactly when no line was read,
  which tells an empty log from one without timestamps.
- **`SubmissionLimitProofs`**: `SlotsNeverLeak`, `NoSlotIdles`,
  `WaitCostsNoLongSession`. `LInv`: the send queue holds exactly the waiting
  requests, each once (so one that timed out is never handed a slot); the
  channel's length is the number of requests inside; nobody is admitted after
  their timer.
- **`AuthProofs`**: `AuthTypeCorrect`, `EverySessionProved`,
  `OneSessionPerNonce`, `AccessIsAlwaysEarned`. A nonce is in the store, or held
  by one handler, or spent on one session; a token carries the secret its kind
  had at the start that minted it.

The assumptions on constants are the named `ASSUME`s of each module, which TLC
evaluates in every run.

Every invariant and action property of a passing run is stated by a theorem.
Only model-checked are the liveness properties `CheckedIsListedScored`,
`RetriedDeleteFinishes`, `RerunsCorrect` and `WaitEnds`: fairness is out of the
prover's reach. Two of the violation runs have a theorem that says when the
statement they refute does hold (`OwnUntilFailure`, `QuietRunsKeepManuals`).
Conversely, most type invariants are proved and not among the runs' properties.

## Where code and documentation disagree

Each violation run checks one statement of a comment or document against the
code and finds a behaviour that contradicts it; `PROJECT.json`, `findings`,
quotes the line.

- `retry`: a deletion retried after the filename was uploaded again deletes the
  new archive.
- `truncated`: a scan cut short is to be no verdict on the log
  (`TruncatedIsNoVerdict`, after `scoring/checks.go:201-205`), and the code gives
  one on both sides. Cut short before its first timestamp, by an over-long line
  in the run's counterexample, it draws the warning "no recognizable timestamps
  found" and earns nothing; cut short after it has seen both ends of the window
  it is reported as covered and earns full credit. TLC stops at the first; the
  second violates the other half of the property.
- `rescore_manual`: a manual score entered while the tool runs is overwritten
  with the one it read at its start.

The models also show behaviour a reader of the comments and pages might not
expect. It has no run of its own; the conditions of the checked properties leave
room for it.

- A manual score that was reading its record while the submission was deleted
  writes the record back (`portal/score.go:105` against the order
  `portal/delete.go:10-12` gives).
- The summary's log and records are not one moment when a deletion comes between
  its two reads (`portal/summary.go:38-39`).
- The session is checked after the wait for a slot, not when the upload starts;
  `LongSessionsAreAccepted` is therefore about sessions with the whole wait left.
- A progress row may be evicted by age before its submission is done
  (`portal/progress.go:201-203`).
- A window whose source broke is not charged to the antivirus budget
  (`portal/submit.go:92-94`).
- A log that cannot be opened is accepted, as not scanned, when the budget ran
  out before it (`README.md:227-230` of the repository).
- A log whose gzip stream does not open is reported as empty.
- After an append cut short every run of the rescore tool stops at the log
  (`cmd/rescore/main.go:85-88`), as every admin lookup does, until someone mends
  the file by hand.
- When a submission ended in a network error and the next is sent at once, the
  panel may show the first one's progress, and a 401 to one of its polls may end
  the polling for the second (`portal.js:127-131`, `192-200`).
- The rescore tool may bring back the record of a submission deleted while it
  runs. The repository's `README.md:326` says there is no rescore at all.
- A scanner failure just after the log's own error is taken for the log's;
  `FailsClosed` is about failures not preceded by one.

## What is not modelled

The metadata schema and the filename pattern (verdicts only: pure tests of one
document or string), timestamp formats (the instant recovered), the genesis and
version comparisons, the INSTREAM protocol (a verdict or an error), token and
transaction encodings, markdown, flags, static assets, the admin page, and of
the upload page everything but submitting and polling. They keep no state
between two calls, or turn on the characters of a string. Storage keys other than well-formed filenames: `ValidateFilename`
excludes them before `validKey` sees them.

An acknowledged deletion of a record that does not exist writes nothing: after
an earlier deletion failed at its directory fsync, it may be acknowledged and
the record still come back after a power cut. `AckedSurvives` is therefore about
updates whose rewrite was acknowledged.

## Plan

Done, in this order: `Submissions` with its proofs; `DurableMap`/`ScoresFile`
and the refinement; `SubmissionLimit`; `WindowedScan`, `Auth` with proofs;
`Rescore`; `Progress` and `Page`; `Archive`, `UploadTier` and `AutoChecks`; both
kinds of session in `Auth`; proofs of each, by now of every safety property.

Next:

1. `Submissions` composed with `SubmissionLimit` and `Auth`: a session's life
   from challenge to the stored archive.
2. The clamd reply and framing of `ClamdScanner.Scan` under `WindowedScan`.
