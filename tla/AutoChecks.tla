----------------------------- MODULE AutoChecks -----------------------------
(***************************************************************************)
(* The automatic assessment of one upload: ValidateArchive's walk over the *)
(* archive (module Archive) and, once it is accepted and stored, the       *)
(* second walk of portal.autoChecks, in which submission.ScanLogs hands    *)
(* each log to scoring.scanLogWindow in the order of the archive; the      *)
(* record made of both (TieredTimeScore: module UploadTier) and the line   *)
(* AdminSummaryHandler prints about each log.                              *)
(*                                                                         *)
(* A log is its lines, in file order: each has a size and the instant      *)
(* parseLeadingTimestamp recovers from it, or None.  Instants and sizes    *)
(* are small integers.                                                     *)
(***************************************************************************)
EXTENDS Archive, UploadTier

CONSTANTS
    Uploads,        \* what may be uploaded when, to which exercise
    WinStart,       \* Config.InvestigationWindowStart
    WinEnd,         \* Config.InvestigationWindowEnd
    Grace,          \* windowGrace
    ByteBudget,     \* maxLogWindowBytes
    MaxLine,        \* maxLogLineBytes
    None

ASSUME WindowAssumption ==
    /\ WinStart \in Int /\ WinEnd \in Int /\ WinStart < WinEnd
    /\ Grace \in Nat /\ ByteBudget \in Nat \ {0} /\ MaxLine \in Nat \ {0}
    /\ None \notin Int

Line == [size : Nat \ {0}, ts : Int \cup {None}]

\* The lines, how the stream ends after them, and whether gzip.NewReader can
\* open it: one it cannot open decompresses to nothing.
IsLog(l) ==
    /\ l.lines \in Seq(Line)
    /\ l.end \in {"eof", "error"}
    /\ l.gzip \in BOOLEAN
    /\ ~l.gzip => l.lines = <<>>

\* An upload: the archive, Config.AnnouncedAt and DeadlineAt, recordedAt.
IsUpload(u) ==
    /\ IsArchive(u.archive)
    /\ u.announced \in Int /\ u.deadline \in Int /\ u.submitted \in Int
    /\ Valid(u.announced, u.deadline)

ASSUME UploadsAssumption ==
    (\A l \in Logs : IsLog(l)) /\ \A u \in Uploads : IsUpload(u)

Check == [detected : BOOLEAN, covered : BOOLEAN, truncated : BOOLEAN,
          scanned : 0 .. ByteBudget]

\* LogWindowCheck{}.
ZeroCheck == [detected |-> FALSE, covered |-> FALSE, truncated |-> FALSE,
              scanned |-> 0]

VARIABLES
    upload,     \* the upload, never changed
    entry,      \* the entry the second walk has come to, 0 before it
    pos,        \* lines scanned of it
    left,       \* bounded.N: bytes of budget left
    first, last, detected,  \* the scan's accumulators
    check,      \* windows: [LogNames -> Check]
    result      \* the scoring.Result, None until the walk is over

scanVars == <<pos, left, first, last, detected>>
vars == <<archiveVars, upload, entry, scanVars, check, result>>

\* Unscored and Scored records.
Result == [scored : {FALSE}]
             \cup [scored : {TRUE}, uploadTime : Int, logQuality : Int,
                   sentryPresent : BOOLEAN, window : [LogNames -> Check]]

TypeOK ==
    /\ ArchiveTypeOK
    /\ IsUpload(upload) /\ archive = upload.archive
    /\ entry \in 0 .. Len(archive.entries) + 1
    /\ pos \in Nat /\ left \in 0 .. ByteBudget
    /\ detected \in BOOLEAN
    /\ detected => first \in Int /\ last \in Int /\ first <= last
    /\ check \in [LogNames -> Check]
    /\ result \in Result \cup {None}

Init ==
    /\ upload \in Uploads /\ archive = upload.archive /\ ArchiveInit
    /\ entry = 0 /\ pos = 0 /\ left = ByteBudget
    /\ first = None /\ last = None /\ detected = FALSE
    /\ check = [n \in LogNames |-> ZeroCheck]
    /\ result = None

-----------------------------------------------------------------------------
(***************************************************************************)
(* The second walk.                                                        *)
(***************************************************************************)
Validate ==
    /\ ArchiveNext
    /\ UNCHANGED <<upload, entry, scanVars, check, result>>

\* The accepted upload is stored, rewound and walked again.
StartScoring ==
    /\ verdict = "accepted" /\ entry = 0 /\ result = None
    /\ entry' = 1
    /\ UNCHANGED <<archiveVars, upload, scanVars, check, result>>

Walking == entry \in 1 .. Len(archive.entries) /\ result = None
Now == archive.entries[entry]
Scanning == Walking /\ Now.name \in LogNames

SkipEntry ==
    /\ Walking /\ Now.name \notin LogNames
    /\ entry' = entry + 1
    /\ UNCHANGED <<archiveVars, upload, scanVars, check, result>>

NextLine == Now.log.lines[pos + 1]

\* The earliest and the latest instant seen, whatever the line order.
FaultyLater(ts) == ts   \* the last line's
Earlier(ts) == IF ~detected \/ ts < first THEN ts ELSE first
Later(ts) == IF ~detected \/ ts > last THEN ts ELSE last

Absorb(ts) ==
    IF ts = None
    THEN UNCHANGED <<first, last, detected>>
    ELSE first' = Earlier(ts) /\ last' = Later(ts) /\ detected' = TRUE

\* The next line fits the scanner's buffer and what is left of the budget.
Fits(l) == l.size <= MaxLine /\ l.size <= left

\* scanner.Scan() returns a whole line.
ReadLine ==
    /\ Scanning /\ Now.log.gzip /\ pos < Len(Now.log.lines)
    /\ Fits(NextLine)
    /\ Absorb(NextLine.ts)
    /\ pos' = pos + 1 /\ left' = left - NextLine.size
    /\ UNCHANGED <<archiveVars, upload, entry, check, result>>

\* Inclusive of the grace on both sides.
Covers(f, l) == f <= WinStart + Grace /\ l >= WinEnd - Grace

\* The check built when the scan stops, from the accumulators' final values.
Outcome(f, l, seenAny, n, truncated) ==
    [detected |-> seenAny, covered |-> seenAny /\ Covers(f, l),
     truncated |-> truncated, scanned |-> n]

\* scanLogWindow returns c; the walk goes on, the next scan starts afresh.
Return(c) ==
    /\ check' = [check EXCEPT ![Now.name] = c]
    /\ entry' = entry + 1
    /\ pos' = 0 /\ left' = ByteBudget
    /\ first' = None /\ last' = None /\ detected' = FALSE
    /\ UNCHANGED <<archiveVars, upload, result>>

\* scanHitCap: the budget is spent and a byte is still waiting.
HitCap(n) == n = 0 /\ pos < Len(Now.log.lines)

\* The lines end, or the budget does, between two lines.  A stream that
\* breaks is an error to the scanner, unless the budget hid it.
StopAtLine ==
    /\ Scanning /\ Now.log.gzip
    /\ pos = Len(Now.log.lines) \/ left = 0
    /\ Return(Outcome(first, last, detected, ByteBudget - left,
                      \/ left > 0 /\ Now.log.end = "error"
                      \/ HitCap(left)))

\* The budget ends inside a line: what is left of the line is the last token,
\* and its timestamp may or may not survive the cut.
StopInLine ==
    /\ Scanning /\ Now.log.gzip /\ pos < Len(Now.log.lines)
    /\ left > 0 /\ NextLine.size > left /\ left <= MaxLine
    /\ \E ts \in {None, NextLine.ts} :
          Return(Outcome(IF ts = None THEN first ELSE Earlier(ts),
                         IF ts = None THEN last ELSE Later(ts),
                         detected \/ ts # None, ByteBudget, HitCap(0)))

\* A line longer than the buffer: bufio.ErrTooLong.  How far the reader had
\* got is somewhere between the buffer and the budget.
StopTooLong ==
    /\ Scanning /\ Now.log.gzip /\ pos < Len(Now.log.lines)
    /\ NextLine.size > MaxLine /\ left > MaxLine
    /\ \E n \in ByteBudget - left + 1 .. ByteBudget :
          Return(Outcome(first, last, detected, n, TRUE))

\* gzip.NewReader fails: the zero check.
Unreadable ==
    /\ Scanning /\ ~Now.log.gzip
    /\ Return(ZeroCheck)

-----------------------------------------------------------------------------
(***************************************************************************)
(* The record, and what is said of it.                                     *)
(***************************************************************************)
FaultyWindowCredit(c, covered, found) ==   \* full credit once detected
    IF c.detected THEN covered ELSE 0

WindowCredit(c, covered, found) ==
    IF c.covered THEN covered ELSE IF c.detected THEN found ELSE 0

LogQualityScore(validatorCheck, sentryCheck) ==
    13 + WindowCredit(validatorCheck, 8, 4) + WindowCredit(sentryCheck, 4, 2)

Assessed ==
    [scored |-> TRUE, sentryPresent |-> sentry, window |-> check,
     uploadTime |-> TieredTimeScore(upload.submitted, upload.announced, upload.deadline),
     logQuality |-> LogQualityScore(check["validator"], check["sentry"])]

\* The walk is over: the submission is scored.
EndWalk ==
    /\ entry = Len(archive.entries) + 1 /\ result = None
    /\ result' = Assessed
    /\ UNCHANGED <<archiveVars, upload, entry, scanVars, check>>

\* The upload cannot be rewound or read again: nothing is claimed of it.
FaultyUnassessed == [Assessed EXCEPT !.scored = TRUE]
Unassessed == [scored |-> FALSE]

FailWalk ==
    /\ verdict = "accepted" /\ result = None
    /\ result' = Unassessed
    /\ UNCHANGED <<archiveVars, upload, entry, scanVars, check>>

\* The one line AdminSummaryHandler prints about a log that was submitted.
FaultyNote(c) ==   \* the truncated case tested last
    IF ~c.detected /\ c.scanned = 0 THEN "empty"
    ELSE IF ~c.detected THEN "notimestamps"
    ELSE IF ~c.covered THEN "uncovered"
    ELSE IF c.truncated THEN "unverified"
    ELSE "none"

Note(c) ==
    IF ~c.detected /\ c.scanned = 0 THEN "empty"
    ELSE IF ~c.detected THEN "notimestamps"
    ELSE IF c.truncated THEN "unverified"
    ELSE IF ~c.covered THEN "uncovered"
    ELSE "none"

Over == verdict \in {"rejected", "cancelled"} \/ result # None
Done == Over /\ UNCHANGED vars

Next ==
    \/ Validate \/ StartScoring \/ SkipEntry
    \/ ReadLine \/ StopAtLine \/ StopInLine \/ StopTooLong \/ Unreadable
    \/ EndWalk \/ FailWalk \/ Done

Spec == Init /\ [][Next]_vars

-----------------------------------------------------------------------------
(***************************************************************************)
(* Properties.  The reference is the upload itself.                        *)
(***************************************************************************)
Stamps(l) == {l.lines[i].ts : i \in DOMAIN l.lines} \ {None}

\* The lines span the window, on both sides.
Spans(l) == /\ \E t \in Stamps(l) : t <= WinStart + Grace
            /\ \E t \in Stamps(l) : t >= WinEnd - Grace

Scored == result # None /\ result.scored

\* The entries of that name.
Holding(n) == {i \in DOMAIN archive.entries : archive.entries[i].name = n}

(***************************************************************************)
(* Coverage is only claimed of a submitted log that has it, in whatever    *)
(* order the logs come in the archive and the lines in a log (checks.go:   *)
(* "rotated logs concatenated out of order") and wherever the scan         *)
(* stopped; and a scan that was not truncated denies it only of a log that *)
(* lacks it.                                                               *)
(***************************************************************************)
CoverageIsReal ==
    Scored => \A n \in LogNames :
        LET c == result.window[n]
        IN /\ c.covered => \E i \in Holding(n) : Spans(archive.entries[i].log)
           /\ \A i \in Holding(n) :
                 LET l == archive.entries[i].log
                 IN l.gzip /\ ~c.truncated => (c.covered <=> Spans(l))

(***************************************************************************)
(* Every warning the published summary prints about a log is true of it:   *)
(* one that "does not fully cover the window" does not, whether or not the *)
(* scan was cut short (score.go: "never as the validator's logs failing to *)
(* cover the window"); and, of a scan that was not, one called "empty" has *)
(* no lines, one with "no recognizable timestamps" has lines and no        *)
(* timestamp in them.  (What these two say after a scan that was cut short *)
(* is TruncatedIsNoVerdict.)                                               *)
(***************************************************************************)
BlameIsDeserved ==
    Scored => \A n \in LogNames : \A i \in Holding(n) :
        LET c == result.window[n]
            l == archive.entries[i].log
        IN /\ Note(c) = "uncovered" => ~Spans(l)
           /\ Note(c) = "empty" /\ ~c.truncated => l.lines = <<>>
           /\ Note(c) = "notimestamps" /\ ~c.truncated
                 => l.lines # <<>> /\ Stamps(l) = {}

(***************************************************************************)
(* What the first walk says of the sentry log and what the second found    *)
(* agree: no record speaks of a log nobody submitted, and full marks take  *)
(* a log of each that spans the window.                                    *)
(***************************************************************************)
FullMarksAreEarned ==
    Scored =>
        /\ result.logQuality \in 13 .. 25
        /\ result.logQuality > 21 => result.sentryPresent
        /\ ~result.sentryPresent => result.window["sentry"] = ZeroCheck
        /\ result.logQuality = 25 => \A n \in LogNames :
              \E i \in Holding(n) : Spans(archive.entries[i].log)

(***************************************************************************)
(* A record says "scored" only of an accepted archive whose every log was  *)
(* scanned (submit.go: a Scored record with zero checks "would claim a     *)
(* submission was assessed when the read that would have assessed it       *)
(* failed").                                                               *)
(***************************************************************************)
ScoredIsAssessed ==
    Scored => verdict = "accepted" /\ entry = Len(archive.entries) + 1

(***************************************************************************)
(* The upload is scored by the quarter of the announce-to-deadline window  *)
(* it falls in, and 0 outside it (TieredTimeScore).  The third boundary is *)
(* computed as total/4*3, so it may fall up to two ticks early, and never  *)
(* wraps.  For windows a Duration can express.                             *)
(***************************************************************************)
TierIsTheQuarter ==
    Scored /\ upload.deadline - upload.announced < MaxDuration =>
        result.uploadTime \in
            QuarterScores(upload.submitted - upload.announced,
                          upload.deadline - upload.announced)

(***************************************************************************)
(* What a scan that our own limits cut short leaves: "partial credit [...] *)
(* and an explicitly informational note in the generated summary, rather   *)
(* than either full marks it didn't earn or a warning it didn't deserve"   *)
(* (checks.go); so of every log whose stream is itself sound it is neither *)
(* claimed that it covers the window nor printed a warning.                *)
(***************************************************************************)
TruncatedIsNoVerdict ==
    Scored => \A n \in LogNames : \A i \in Holding(n) :
        LET c == result.window[n]
        IN c.truncated /\ archive.entries[i].log.end = "eof"
               => ~c.covered /\ Note(c) = "unverified"
=============================================================================
