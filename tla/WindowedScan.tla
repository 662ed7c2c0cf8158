---------------------------- MODULE WindowedScan ----------------------------
(***************************************************************************)
(* The antivirus pass over one upload: portal.scanArchive, which scans     *)
(* metadata.json whole and then every decompressed log under one budget,   *)
(* and clamav.WindowedScanner.ScanStream, which feeds a log to the scanner *)
(* in overlapping windows.                                                 *)
(*                                                                         *)
(* The loop is sequential; what varies is where the streams end, break or  *)
(* carry a signature relative to the window and budget boundaries, and     *)
(* where the scanner or the request fails.  A stream is its length and     *)
(* bytes are positions 1, 2, ...  One step scans one window, the drain     *)
(* after the verdict included.                                             *)
(***************************************************************************)
EXTENDS Naturals, FiniteSets

CONSTANTS
    Window,         \* WindowedScanner.windowSize()
    Overlap,        \* the overlap asked for, before overlap() clamps it
    Budget,         \* the submission's budget, after scanArchive's fallback
    DefaultBudget,  \* clamav.DefaultScanBudget
    SigLen,         \* length of a signature
    Logs,           \* the log entries of the archive are 1 .. NumLogs
    NumLogs

(***************************************************************************)
(* A decompressed log: its readable length, how reading ends after that    *)
(* (a truncated gzip stream ends in an error), whether gzip.NewReader can  *)
(* open it at all, and where a signature starts in it (0: nowhere).        *)
(***************************************************************************)
Log == [len : Nat, end : {"eof", "error"}, opens : BOOLEAN, sig : Nat]

ASSUME SizesAssumption ==
    /\ Window \in Nat \ {0} /\ Overlap \in Nat \ {0}
    /\ Budget \in Nat \ {0} /\ DefaultBudget \in Nat \ {0}
    /\ SigLen \in Nat \ {0} /\ NumLogs \in Nat

ASSUME LogsAssumption == Logs \subseteq Log

\* WindowedScanner.overlap(): an overlap of a whole window would leave no
\* room for fresh bytes.
Kept == IF Overlap >= Window THEN Window \div 2 ELSE Overlap

\* The defaults (1 GiB windows, 1 MiB overlap, signatures of a few KB) meet
\* this by orders of magnitude.
ASSUME GeometryAssumption == SigLen - 1 <= Kept /\ 2 * Kept <= Window

VARIABLES
    logs,       \* [1 .. NumLogs -> Logs]
    tainted,    \* metadata.json carries a signature
    phase,      \* where scanArchive is
    outcome,    \* what it returned
    cur,        \* the log ScanLogs is at
    remaining,  \* budget left for the logs from cur on
    bytes,      \* coverage.Bytes
    complete,   \* coverage.Complete
    read,       \* bytes read from the current stream
    tail,       \* length of the overlap carried into the next window
    scanned,    \* ScanStream's own count
    broke,      \* errRecorder.err # nil
    \* history
    seen,       \* <<log, position>> pairs that came back with a verdict
    failures    \* the scanner failed during some window

stream == <<read, tail, scanned, broke>>
coverage == <<bytes, complete>>
vars == <<logs, tainted, phase, outcome, cur, remaining, coverage, stream,
          seen, failures>>

Entries == 1 .. NumLogs

TypeOK ==
    /\ logs \in [Entries -> Logs]
    /\ tainted \in BOOLEAN
    /\ phase \in {"metadata", "next", "window", "ended", "returned"}
    /\ outcome \in {"none", "clean", "infected", "unreadable", "failed"}
    /\ cur \in 0 .. NumLogs
    /\ remaining \in 0 .. Budget
    /\ bytes \in 0 .. Budget
    /\ complete \in BOOLEAN
    /\ read \in Nat /\ scanned \in 0 .. read
    /\ tail \in 0 .. Window - 1   \* every window has room for a fresh byte
    /\ broke \in BOOLEAN
    /\ seen \subseteq Entries \X Nat
    /\ failures \in BOOLEAN

Init ==
    /\ logs \in [Entries -> Logs]
    /\ tainted \in BOOLEAN
    /\ phase = "metadata" /\ outcome = "none"
    /\ cur = 0 /\ remaining = Budget
    /\ bytes = 0 /\ complete = TRUE
    /\ read = 0 /\ tail = 0 /\ scanned = 0 /\ broke = FALSE
    /\ seen = {} /\ failures = FALSE

-----------------------------------------------------------------------------
Least(a, b) == IF a <= b THEN a ELSE b

\* WindowedScanner.budget() for the stream of the current log.
StreamBudget == IF remaining <= 0 THEN DefaultBudget ELSE remaining

\* scanArchive returns an error, and no coverage.
Failure(kind) ==
    /\ phase' = "returned" /\ outcome' = kind
    /\ bytes' = 0 /\ complete' = FALSE

\* metadata.json is scanned whole, outside the budget.
ScanMetadata ==
    /\ phase = "metadata"
    /\ \/ Failure("failed")
       \/ /\ tainted
          /\ phase' = "returned" /\ outcome' = "infected"
          /\ bytes' = 0 /\ complete' = FALSE
       \/ ~tainted /\ phase' = "next" /\ UNCHANGED <<outcome, coverage>>
    /\ UNCHANGED <<logs, tainted, cur, remaining, stream, seen, failures>>

\* The callback's first test: a log reached with nothing left is skipped.
Spent == remaining <= 0

\* ScanLogs reaches the next log entry, or the end of the tar, or finds the
\* request cancelled.
NextLog ==
    /\ phase = "next"
    /\ \/ /\ cur < NumLogs /\ cur' = cur + 1
          /\ \/ Spent /\ complete' = FALSE
                /\ UNCHANGED <<phase, outcome, bytes, stream>>
             \/ ~Spent /\ ~logs[cur + 1].opens
                /\ Failure("unreadable") /\ UNCHANGED stream
             \/ /\ ~Spent /\ logs[cur + 1].opens
                /\ phase' = "window" /\ UNCHANGED <<outcome, coverage>>
                /\ read' = 0 /\ tail' = 0 /\ scanned' = 0 /\ broke' = FALSE
       \/ /\ cur = NumLogs /\ phase' = "returned" /\ outcome' = "clean"
          /\ UNCHANGED <<cur, coverage, stream>>
       \/ Failure("failed") /\ UNCHANGED <<cur, stream>>
    /\ UNCHANGED <<logs, tainted, remaining, seen, failures>>

-----------------------------------------------------------------------------
(***************************************************************************)
(* One round of ScanStream's loop.                                         *)
(***************************************************************************)

\* Bytes the source and the budget still allow.
Left == Least(logs[cur].len, StreamBudget) - read

Capacity == Window - tail
Fresh == Least(Capacity, Left)

\* Reading on after `upto` bytes hits the source's error.  The source may
\* also report it along with its last byte, before anyone reads on.
ReadsPast(upto) == logs[cur].end = "error" /\ upto = logs[cur].len
                   /\ upto < StreamBudget
FaultyLastByte(upto) == TRUE   \* any error taken for the source's
LastByte(upto) == logs[cur].end = "error" /\ upto = logs[cur].len /\ upto > 0

\* The signature lies whole in the window being scanned.
Infected ==
    LET s == logs[cur].sig
    IN s > 0 /\ s > read - tail /\ s + SigLen - 1 <= read + Fresh

\* The head peek found nothing: the stream, or the budget, has ended.
PeekNothing ==
    /\ phase = "window" /\ Left = 0
    /\ phase' = "ended"
    /\ broke' = (broke \/ ReadsPast(read))
    /\ UNCHANGED <<logs, tainted, outcome, cur, remaining, coverage, read,
                   tail, scanned, seen, failures>>

\* The scanner returns a verdict over the whole window.
FaultyCounted == tail + Fresh   \* the overlap counted again
Counted == Fresh

FaultyCarried == 0              \* no overlap carried
Carried == Least(Kept, Fresh)

\* A short window: the stream or the budget ran out inside it.
Short == Fresh < Capacity

ScanWindow ==
    /\ phase = "window" /\ Left > 0
    /\ Short => ~ReadsPast(read + Fresh)
    /\ read' = read + Fresh
    /\ scanned' = scanned + Counted
    /\ seen' = seen \cup ({cur} \X (read - tail + 1 .. read + Fresh))
    /\ \/ Infected /\ phase' = "returned" /\ outcome' = "infected"
          /\ bytes' = bytes + scanned' /\ complete' = FALSE
          /\ remaining' = remaining - scanned' /\ UNCHANGED <<tail, broke>>
       \/ /\ ~Infected /\ phase' = IF Short THEN "ended" ELSE "window"
          /\ tail' = Carried
          /\ UNCHANGED <<outcome, coverage, remaining, broke>>
    /\ UNCHANGED <<logs, tainted, cur, failures>>

\* The scanner meets the error: it reads on, or the error comes with bytes it
\* reads itself rather than with the head peek.
Surfaces == Fresh > 1 \/ (Short /\ ReadsPast(read + Fresh))

\* Scan returned an error and the source has recorded one: no verdict, no
\* error, and the window is not counted.  The scanner's own failure, if it
\* comes after the source's, is taken for the source's.
WindowBreaks ==
    /\ phase = "window" /\ Left > 0
    /\ LastByte(read + Fresh)
    /\ (Surfaces /\ UNCHANGED failures) \/ failures' = TRUE
    /\ read' = read + Fresh /\ broke' = TRUE
    /\ phase' = "ended"
    /\ UNCHANGED <<logs, tainted, outcome, cur, remaining, coverage, tail,
                   scanned, seen>>

\* The scanner fails with the source healthy, or the request is cancelled.
ScannerFails ==
    /\ phase = "window"
    /\ Failure("failed") /\ failures' = TRUE
    /\ UNCHANGED <<logs, tainted, cur, remaining, stream, seen>>

\* The loop's verdict on the stream: no error recorded, and either budget
\* left over or nothing left to probe.
FaultyReachedEnd == ~broke   \* the probe forgotten
ReachedEnd ==
    ~broke /\ (read < StreamBudget
               \/ (read = logs[cur].len /\ logs[cur].end = "eof"))

\* ScanStream returns clean; scanArchive adds its coverage up.
StreamEnds ==
    /\ phase = "ended"
    /\ phase' = "next"
    /\ bytes' = bytes + scanned
    /\ complete' = (complete /\ ReachedEnd)
    /\ remaining' = remaining - scanned
    /\ UNCHANGED <<logs, tainted, outcome, cur, stream, seen, failures>>

Return == phase = "returned" /\ UNCHANGED vars

Next ==
    \/ ScanMetadata \/ NextLog \/ PeekNothing \/ ScanWindow \/ WindowBreaks
    \/ ScannerFails \/ StreamEnds \/ Return

Spec == Init /\ [][Next]_vars

-----------------------------------------------------------------------------
(***************************************************************************)
(* Properties.                                                             *)
(***************************************************************************)

Sig(i) == logs[i].sig .. logs[i].sig + SigLen - 1

(***************************************************************************)
(* A clean outcome means that no signature lies wholly in what was         *)
(* examined, wherever the window boundaries fell: windowed.go, "a          *)
(* signature straddling a boundary would be split [...] the overlap is     *)
(* what closes that gap".                                                  *)
(***************************************************************************)
NoneMissed ==
    outcome = "clean" =>
        \A i \in Entries : logs[i].sig > 0 => ~({i} \X Sig(i) \subseteq seen)

(***************************************************************************)
(* Coverage.Complete is never claimed for an archive with a byte that was  *)
(* not examined, a broken stream or a log that does not open: windowed.go, *)
(* "a partially scanned archive can never be mistaken for a fully scanned  *)
(* one".                                                                   *)
(***************************************************************************)
CompleteIsTruthful ==
    outcome = "clean" /\ complete =>
        \A i \in Entries :
            /\ logs[i].opens /\ logs[i].end = "eof"
            /\ {i} \X (1 .. logs[i].len) \subseteq seen

(***************************************************************************)
(* Coverage.Bytes is how much came back with a verdict, "counting the      *)
(* overlap between consecutive windows once", and never above the budget   *)
(* the logs share, however many of them there are.                         *)
(***************************************************************************)
BytesAreExact ==
    /\ outcome \in {"clean", "infected"} => bytes = Cardinality(seen)
    /\ bytes <= Budget

(***************************************************************************)
(* A scanner failure is never taken for a clean scan of a healthy log:     *)
(* ScanStream hides it only behind an error the log itself has reported,   *)
(* and then claims no complete coverage (windowed.go: "Only a failure of   *)
(* the underlying Scanner itself returns a non-nil error, which callers    *)
(* must treat as fail-closed").                                            *)
(***************************************************************************)
FailsClosed ==
    outcome = "clean" /\ failures =>
        ~complete /\ \E i \in Entries : logs[i].end = "error"
=============================================================================
