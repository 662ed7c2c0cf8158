------------------------------- MODULE Archive -------------------------------
(***************************************************************************)
(* submission.ValidateArchive: the walk over an uploaded .tar.gz that      *)
(* decides whether it is accepted.  The archive is whatever was uploaded:  *)
(* any entries in any order, oversized, repeated, mistyped or cut short.   *)
(*                                                                         *)
(* An entry is its name, whether it is a regular file, its size, whether   *)
(* it starts with the gzip magic, and whether the stream breaks inside it. *)
(***************************************************************************)
EXTENDS Integers, Sequences

CONSTANTS
    Logs,               \* what a log may hold (module AutoChecks)
    MaxLogSize,         \* Options.MaxLogSize
    MaxMetadataSize     \* Options.MaxMetadataSize

ASSUME LimitsAssumption == MaxLogSize \in Nat /\ MaxMetadataSize \in Nat

LogNames == {"validator", "sentry"}
Allowed == LogNames \cup {"metadata"}
Required == {"validator", "metadata"}

Entry == [name : Allowed \cup {"other"}, regular : BOOLEAN, size : Nat,
          magic : BOOLEAN, broken : BOOLEAN, log : Logs]

\* gzip: the outer stream can be opened; end: how it ends after the entries.
IsArchive(a) ==
    /\ a.gzip \in BOOLEAN /\ a.entries \in Seq(Entry)
    /\ a.end \in {"eof", "error"}

VARIABLES
    archive,
    at,         \* the entry tr.Next() is about to return
    seen,       \* the names it has returned
    sentry,     \* sentryPresent
    cost,       \* bytes of content read so far
    verdict     \* "walking", then what ValidateArchive returned

archiveVars == <<archive, at, seen, sentry, cost, verdict>>

ArchiveTypeOK ==
    /\ IsArchive(archive)
    /\ at \in 1 .. Len(archive.entries) + 1
    /\ seen \subseteq Allowed /\ sentry \in BOOLEAN /\ cost \in Nat
    /\ verdict \in {"walking", "accepted", "rejected", "cancelled"}

ArchiveInit ==
    /\ at = 1 /\ seen = {} /\ sentry = FALSE /\ cost = 0
    /\ verdict = "walking"

-----------------------------------------------------------------------------
AtEnd == at > Len(archive.entries)
Here == archive.entries[at]

Limit(n) == IF n = "metadata" THEN MaxMetadataSize ELSE MaxLogSize

\* readBounded and io.ReadAll(io.LimitReader(...)): one byte past the limit
\* tells an entry at the limit from one that overflows it.
FaultyDrained(e) == IF e.size <= Limit(e.name) THEN e.size ELSE Limit(e.name)
Drained(e) == IF e.size <= Limit(e.name) THEN e.size ELSE Limit(e.name) + 1

\* The header: a known name, not met before, of a regular file.
FaultyFresh(e) == TRUE
Fresh(e) == e.name \notin seen
HeaderFits(e) == e.name \in Allowed /\ Fresh(e) /\ e.regular

\* The content: readable, within its limit and, for a log, gzip by its magic.
ContentFits(e) ==
    /\ ~e.broken /\ Drained(e) <= Limit(e.name)
    /\ e.name \in LogNames => Drained(e) >= 2 /\ e.magic

Answer(v) == verdict' = v /\ UNCHANGED <<archive, at>>

\* gzip.NewReader fails, or tr.Next() does.
Corrupt ==
    /\ verdict = "walking"
    /\ ~archive.gzip \/ (AtEnd /\ archive.end = "error")
    /\ Answer("rejected") /\ UNCHANGED <<seen, sentry, cost>>

\* ctx.Err() at the head of the loop: the client has gone.
Cancel ==
    /\ verdict = "walking" /\ archive.gzip
    /\ Answer("cancelled") /\ UNCHANGED <<seen, sentry, cost>>

RefuseHeader ==
    /\ verdict = "walking" /\ archive.gzip /\ ~AtEnd /\ ~HeaderFits(Here)
    /\ Answer("rejected") /\ UNCHANGED <<seen, sentry, cost>>

\* A stream that breaks does so after any number of bytes.
RefuseContent ==
    /\ verdict = "walking" /\ archive.gzip /\ ~AtEnd
    /\ HeaderFits(Here) /\ ~ContentFits(Here)
    /\ \E n \in 0 .. Drained(Here) :
          /\ ~Here.broken => n = Drained(Here)
          /\ cost' = cost + n
    /\ seen' = seen \cup {Here.name}
    /\ Answer("rejected") /\ UNCHANGED sentry

AcceptEntry ==
    /\ verdict = "walking" /\ archive.gzip /\ ~AtEnd
    /\ HeaderFits(Here) /\ ContentFits(Here)
    /\ at' = at + 1
    /\ seen' = seen \cup {Here.name}
    /\ sentry' = (sentry \/ Here.name = "sentry")
    /\ cost' = cost + Drained(Here)
    /\ UNCHANGED <<archive, verdict>>

\* io.EOF: accepted if nothing required is missing.
EndOfArchive ==
    /\ verdict = "walking" /\ archive.gzip /\ AtEnd /\ archive.end = "eof"
    /\ Answer(IF Required \subseteq seen THEN "accepted" ELSE "rejected")
    /\ UNCHANGED <<seen, sentry, cost>>

ArchiveNext ==
    Corrupt \/ Cancel \/ RefuseHeader \/ RefuseContent \/ AcceptEntry \/ EndOfArchive

-----------------------------------------------------------------------------
Names(a) == {a.entries[i].name : i \in DOMAIN a.entries}

\* The reference, on the archive as a whole.
WellFormed(a) ==
    /\ a.gzip /\ a.end = "eof"
    /\ Required \subseteq Names(a) /\ Names(a) \subseteq Allowed
    /\ \A i, j \in DOMAIN a.entries :
          a.entries[i].name = a.entries[j].name => i = j
    /\ \A i \in DOMAIN a.entries :
          LET e == a.entries[i]
          IN /\ e.regular /\ ~e.broken /\ e.size <= Limit(e.name)
             /\ e.name \in LogNames => e.size >= 2 /\ e.magic

(***************************************************************************)
(* ValidateArchive accepts exactly the archives its comment describes,     *)
(* whatever the order of the entries and wherever the walk gives up, and   *)
(* reports a sentry log exactly when there is one; no good archive is      *)
(* refused unless the client left.                                         *)
(***************************************************************************)
AcceptsExactlyWellFormed ==
    /\ verdict = "accepted" =>
          WellFormed(archive) /\ (sentry <=> "sentry" \in Names(archive))
    /\ verdict = "rejected" => ~WellFormed(archive)

(***************************************************************************)
(* However large, repeated or mislabelled the entries, the walk reads no   *)
(* more than what the three entries may hold, and one byte to notice that  *)
(* one of them holds more ("decompression cost is capped by Options        *)
(* regardless of what the archive's headers or compression ratio claim").  *)
(***************************************************************************)
CostIsBounded ==
    cost <= 2 * MaxLogSize + MaxMetadataSize + 1
=============================================================================
