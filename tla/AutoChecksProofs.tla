-------------------------- MODULE AutoChecksProofs --------------------------
(***************************************************************************)
(* The assessment of an upload, for every archive, every log, every limit  *)
(* and every width of a Duration.                                          *)
(***************************************************************************)
EXTENDS AutoChecks, TLAPS

-----------------------------------------------------------------------------
(***************************************************************************)
(* The first walk.  Its inductive invariant speaks of the entries already  *)
(* passed: each is as it should be, they are distinct, and `seen` holds    *)
(* their names, no more and no less.                                       *)
(***************************************************************************)
Proper(e) ==
    /\ e.name \in Allowed /\ e.regular /\ ~e.broken /\ e.size <= Limit(e.name)
    /\ e.name \in LogNames => e.size >= 2 /\ e.magic

PassedInv ==
    verdict \in {"walking", "accepted"} =>
        /\ \A i \in 1 .. at - 1 :
              Proper(archive.entries[i]) /\ archive.entries[i].name \in seen
        /\ \A n \in seen : \E i \in 1 .. at - 1 : archive.entries[i].name = n
        /\ \A i, j \in 1 .. at - 1 :
              archive.entries[i].name = archive.entries[j].name => i = j
        /\ sentry <=> "sentry" \in seen

Allowance(S) ==
    (IF "validator" \in S THEN MaxLogSize ELSE 0)
        + (IF "sentry" \in S THEN MaxLogSize ELSE 0)
        + (IF "metadata" \in S THEN MaxMetadataSize ELSE 0)

CostInv ==
    /\ verdict = "walking" => cost <= Allowance(seen)
    /\ CostIsBounded

AcceptInv ==
    verdict = "accepted" =>
        /\ archive.gzip /\ archive.end = "eof"
        /\ at = Len(archive.entries) + 1 /\ Required \subseteq seen

AInv ==
    /\ ArchiveTypeOK /\ PassedInv /\ CostInv /\ AcceptInv
    /\ verdict = "rejected" => ~WellFormed(archive)

LEMMA HereType ==
    ASSUME ArchiveTypeOK, ~AtEnd
    PROVE  /\ Here \in Entry /\ at \in 1 .. Len(archive.entries)
           /\ DOMAIN archive.entries = 1 .. Len(archive.entries)
BY DEF ArchiveTypeOK, IsArchive, AtEnd, Here

\* One byte past the limit is enough to judge an entry's size.
LEMMA ContentIsProper ==
    ASSUME NEW e \in Entry, e.name \in Allowed
    PROVE  /\ Drained(e) \in Nat /\ Drained(e) <= Limit(e.name) + 1
           /\ Limit(e.name) \in Nat
           /\ ContentFits(e) => Drained(e) = e.size
           /\ e.regular => (ContentFits(e) <=> Proper(e))
<1>1. e.size \in Nat /\ Limit(e.name) \in Nat
    BY LimitsAssumption DEF Entry, Limit
<1> QED
    BY <1>1 DEF Drained, ContentFits, Proper

LEMMA AllowanceOf ==
    ASSUME NEW S \in SUBSET Allowed
    PROVE  /\ Allowance(S) \in Nat /\ Allowance(S) <= 2 * MaxLogSize + MaxMetadataSize
           /\ \A n \in Allowed \ S :
                 Allowance(S) + Limit(n) = Allowance(S \cup {n})
BY LimitsAssumption DEF Allowance, Allowed, LogNames, Limit

\* An archive accepted by the walk is well formed.
LEMMA AcceptedIsWellFormed ==
    ASSUME AInv, verdict = "accepted"
    PROVE  WellFormed(archive) /\ (sentry <=> "sentry" \in Names(archive))
<1>1. /\ DOMAIN archive.entries = 1 .. at - 1 /\ archive.gzip /\ archive.end = "eof"
      /\ Required \subseteq seen
    BY DEF AInv, ArchiveTypeOK, IsArchive, AcceptInv
<1>2. Names(archive) = seen
    BY <1>1 DEF AInv, PassedInv, Names
<1>3. Names(archive) \subseteq Allowed
    BY <1>2 DEF AInv, ArchiveTypeOK
<1>4. \A i \in DOMAIN archive.entries : Proper(archive.entries[i])
    BY <1>1 DEF AInv, PassedInv
<1>5. \A i, j \in DOMAIN archive.entries :
          archive.entries[i].name = archive.entries[j].name => i = j
    BY <1>1 DEF AInv, PassedInv
<1> QED
    BY <1>1, <1>2, <1>3, <1>4, <1>5 DEF WellFormed, Proper, AInv, PassedInv

LEMMA AcceptEntryAInv == ASSUME AInv, AcceptEntry PROVE AInv'
<1>0. /\ Here \in Entry /\ Here.name \in Allowed /\ Here.name \notin seen
      /\ Proper(Here) /\ Drained(Here) \in Nat /\ Drained(Here) <= Limit(Here.name)
      /\ at \in 1 .. Len(archive.entries) /\ Limit(Here.name) \in Nat
    BY HereType, ContentIsProper DEF AInv, AcceptEntry, HeaderFits, Fresh, ContentFits
<1>1. ArchiveTypeOK'
  <2>1. sentry' \in BOOLEAN
      BY DEF AcceptEntry
  <2>2. at' \in 1 .. Len(archive.entries) + 1 /\ cost' \in Nat /\ seen' \subseteq Allowed
      BY <1>0 DEF AInv, ArchiveTypeOK, AcceptEntry
  <2> QED
      BY <2>1, <2>2 DEF AInv, ArchiveTypeOK, AcceptEntry
<1>2. PassedInv'
  <2>1. at' = at + 1 /\ archive' = archive /\ seen' = seen \cup {Here.name}
        /\ Here = archive.entries[at] /\ verdict = "walking"
      BY DEF AcceptEntry, Here
  <2>2. \A i \in 1 .. at' - 1 : i \in 1 .. at - 1 \/ i = at
      BY <1>0, <2>1
  <2>3. \A i \in 1 .. at' - 1 :
            Proper(archive.entries[i]) /\ archive.entries[i].name \in seen'
      BY <1>0, <2>1, <2>2 DEF AInv, PassedInv
  <2>4. \A n \in seen' : \E i \in 1 .. at' - 1 : archive.entries[i].name = n
    <3>1. at \in 1 .. at' - 1 /\ 1 .. at - 1 \subseteq 1 .. at' - 1
        BY <1>0, <2>1
    <3> QED
        BY <2>1, <3>1 DEF AInv, PassedInv
  <2>5. \A i, j \in 1 .. at' - 1 :
            archive.entries[i].name = archive.entries[j].name => i = j
    <3>1. \A i \in 1 .. at - 1 : archive.entries[i].name # Here.name
        BY <1>0, <2>1 DEF AInv, PassedInv
    <3> QED
        BY <2>1, <2>2, <3>1 DEF AInv, PassedInv
  <2>6. (sentry <=> "sentry" \in seen)'
      BY <2>1 DEF AInv, PassedInv, AcceptEntry
  <2> QED
      BY <2>1, <2>3, <2>4, <2>5, <2>6 DEF PassedInv, Proper, Limit
<1>3. CostInv'
  <2>1. seen \in SUBSET Allowed /\ seen' \in SUBSET Allowed /\ seen' = seen \cup {Here.name}
      BY <1>1 DEF AInv, ArchiveTypeOK, AcceptEntry
  <2>2. cost <= Allowance(seen) /\ cost \in Nat /\ cost' = cost + Drained(Here)
      BY DEF AInv, CostInv, ArchiveTypeOK, AcceptEntry
  <2>3. /\ Allowance(seen) + Limit(Here.name) = Allowance(seen') /\ Allowance(seen) \in Nat
        /\ Allowance(seen') \in Nat /\ Allowance(seen') <= 2 * MaxLogSize + MaxMetadataSize
      BY <1>0, <2>1, AllowanceOf
  <2> QED
      BY <1>0, <2>2, <2>3, LimitsAssumption DEF CostInv, CostIsBounded, Allowance
<1>4. AcceptInv' /\ (verdict = "rejected" => ~WellFormed(archive))'
    BY DEF AcceptEntry, AcceptInv
<1> QED
    BY <1>1, <1>2, <1>3, <1>4 DEF AInv

LEMMA RefuseHeaderAInv == ASSUME AInv, RefuseHeader PROVE AInv'
<1>0. /\ Here \in Entry /\ at \in DOMAIN archive.entries /\ Here = archive.entries[at]
      /\ 1 .. at - 1 \subseteq DOMAIN archive.entries /\ at \notin 1 .. at - 1
    BY HereType DEF AInv, RefuseHeader, Here
<1>1. ~WellFormed(archive)
  <2>1. CASE Here.name \notin Allowed \/ ~Here.regular
      BY <1>0, <2>1 DEF WellFormed, Names
  <2>2. CASE Here.name \in seen
    <3>1. PICK i \in 1 .. at - 1 : archive.entries[i].name = Here.name
        BY <2>2 DEF AInv, PassedInv, RefuseHeader
    <3> QED
        BY <1>0, <3>1 DEF WellFormed
  <2> QED
      BY <2>1, <2>2 DEF RefuseHeader, HeaderFits, Fresh
<1> QED
    BY <1>1 DEF AInv, RefuseHeader, Answer, ArchiveTypeOK, PassedInv, CostInv,
       CostIsBounded, AcceptInv

LEMMA RefuseContentAInv == ASSUME AInv, RefuseContent PROVE AInv'
<1>0. /\ Here \in Entry /\ at \in DOMAIN archive.entries /\ Here = archive.entries[at]
      /\ Here.name \in Allowed \ seen /\ ~Proper(Here)
      /\ Drained(Here) \in Nat /\ Drained(Here) <= Limit(Here.name) + 1
      /\ Limit(Here.name) \in Nat
    BY HereType, ContentIsProper DEF AInv, RefuseContent, Here, HeaderFits, Fresh
<1>1. ~WellFormed(archive)
    BY <1>0 DEF WellFormed, Proper
<1>2. cost' \in Nat /\ cost' <= cost + Limit(Here.name) + 1
    BY <1>0 DEF AInv, ArchiveTypeOK, RefuseContent
<1>3. CostIsBounded'
  <2>1. seen \cup {Here.name} \in SUBSET Allowed /\ seen \in SUBSET Allowed
      BY <1>0 DEF AInv, ArchiveTypeOK
  <2>2. cost <= Allowance(seen) /\ cost \in Nat
      BY DEF AInv, CostInv, ArchiveTypeOK, RefuseContent
  <2>3. /\ Allowance(seen) + Limit(Here.name) = Allowance(seen \cup {Here.name})
        /\ Allowance(seen) \in Nat /\ Allowance(seen \cup {Here.name}) \in Nat
        /\ Allowance(seen \cup {Here.name}) <= 2 * MaxLogSize + MaxMetadataSize
      BY <1>0, <2>1, AllowanceOf
  <2> QED
      BY <1>0, <1>2, <2>2, <2>3, LimitsAssumption DEF CostIsBounded
<1>4. seen' \subseteq Allowed
    BY <1>0 DEF AInv, ArchiveTypeOK, RefuseContent
<1> QED
    BY <1>1, <1>2, <1>3, <1>4
       DEF AInv, RefuseContent, Answer, ArchiveTypeOK, PassedInv, CostInv, AcceptInv

LEMMA EndOfArchiveAInv == ASSUME AInv, EndOfArchive PROVE AInv'
<1>0. DOMAIN archive.entries = 1 .. at - 1 /\ at = Len(archive.entries) + 1
    BY DEF AInv, ArchiveTypeOK, IsArchive, EndOfArchive, AtEnd
<1>1. Names(archive) = seen
    BY <1>0 DEF AInv, PassedInv, Names, EndOfArchive
<1>2. verdict' = "rejected" => ~WellFormed(archive)
    BY <1>1 DEF WellFormed, EndOfArchive, Answer
<1>3. verdict' \in {"accepted", "rejected"}
      /\ (verdict' = "accepted" => Required \subseteq seen)
    BY DEF EndOfArchive, Answer
<1>4. AcceptInv'
    BY <1>0, <1>3 DEF AcceptInv, EndOfArchive, Answer
<1>5. PassedInv'
    BY DEF AInv, PassedInv, EndOfArchive, Answer, Proper, Limit
<1> QED
    BY <1>2, <1>3, <1>4, <1>5
       DEF AInv, EndOfArchive, Answer, ArchiveTypeOK, CostInv, CostIsBounded

LEMMA ArchiveStepAInv == ASSUME AInv, ArchiveNext PROVE AInv'
<1>1. CASE Corrupt
  <2>1. ~WellFormed(archive)
      BY <1>1 DEF Corrupt, WellFormed
  <2> QED
      BY <1>1, <2>1 DEF AInv, Corrupt, Answer, ArchiveTypeOK, PassedInv, CostInv,
         CostIsBounded, AcceptInv
<1>2. CASE Cancel
    BY <1>2 DEF AInv, Cancel, Answer, ArchiveTypeOK, PassedInv, CostInv,
       CostIsBounded, AcceptInv
<1> QED
    BY <1>1, <1>2, RefuseHeaderAInv, RefuseContentAInv, AcceptEntryAInv, EndOfArchiveAInv
       DEF ArchiveNext

LEMMA IdleAInv == ASSUME AInv, UNCHANGED archiveVars PROVE AInv'
BY DEF AInv, archiveVars, ArchiveTypeOK, PassedInv, CostInv, CostIsBounded, AcceptInv,
   Proper, Limit

LEMMA NextAInv == AInv /\ [Next]_vars => AInv'
<1>1. ASSUME AInv, Validate PROVE AInv'
    BY <1>1, ArchiveStepAInv DEF Validate
<1>2. ASSUME [Next]_vars, ~Validate PROVE UNCHANGED archiveVars
    BY <1>2 DEF Next, vars, StartScoring, SkipEntry, ReadLine, StopAtLine, StopInLine,
       StopTooLong, Unreadable, Return, EndWalk, FailWalk, Done
<1> QED
    BY <1>1, <1>2, IdleAInv

LEMMA InitAInv == Init => AInv
<1> SUFFICES ASSUME Init PROVE AInv
    OBVIOUS
<1>1. ArchiveTypeOK
  <2>1. IsArchive(archive)
      BY UploadsAssumption DEF Init, IsUpload
  <2>2. Len(archive.entries) \in Nat
      BY <2>1 DEF IsArchive
  <2>3. sentry \in BOOLEAN /\ seen \subseteq Allowed
      BY DEF Init, ArchiveInit
  <2>4. at \in 1 .. Len(archive.entries) + 1 /\ cost \in Nat
      BY <2>2 DEF Init, ArchiveInit
  <2> QED
      BY <2>1, <2>3, <2>4 DEF Init, ArchiveInit, ArchiveTypeOK
<1>2. PassedInv
    BY DEF Init, ArchiveInit, PassedInv
<1>3. CostInv /\ AcceptInv
    BY LimitsAssumption DEF Init, ArchiveInit, CostInv, CostIsBounded, Allowance, AcceptInv
<1> QED
    BY <1>1, <1>2, <1>3 DEF AInv, Init, ArchiveInit

LEMMA ArchiveInvariance == Spec => []AInv
    BY InitAInv, NextAInv, PTL DEF Spec

\* ValidateArchive accepts exactly the well-formed archives, for every
\* archive and every limit.
THEOREM AcceptanceIsExact == Spec => []AcceptsExactlyWellFormed
<1>1. AInv => AcceptsExactlyWellFormed
    BY AcceptedIsWellFormed DEF AInv, AcceptsExactlyWellFormed
<1> QED
    BY ArchiveInvariance, <1>1, PTL

\* Its cost is capped, whatever is uploaded.
THEOREM CostIsCapped == Spec => []CostIsBounded
<1>1. AInv => CostIsBounded
    BY DEF AInv, CostInv
<1> QED
    BY ArchiveInvariance, <1>1, PTL

-----------------------------------------------------------------------------
(***************************************************************************)
(* The second walk.  Of the log being scanned, the accumulators tell the   *)
(* truth about the lines read so far; of every log behind it, its check    *)
(* tells the truth about the log.                                          *)
(***************************************************************************)
Prefix(l, p, f, g, d) ==
    /\ p \in 0 .. Len(l.lines)
    /\ d => /\ f \in Int /\ g \in Int /\ f <= g
            /\ \E i \in 1 .. p : l.lines[i].ts = f
            /\ \E i \in 1 .. p : l.lines[i].ts = g
    /\ \A i \in 1 .. p : l.lines[i].ts # None =>
          d /\ f <= l.lines[i].ts /\ l.lines[i].ts <= g

LEMMA LineType ==
    ASSUME NEW l, IsLog(l), NEW i \in 1 .. Len(l.lines)
    PROVE  /\ l.lines[i] \in Line /\ l.lines[i].ts \in Int \cup {None}
           /\ l.lines[i].size \in Nat /\ l.lines[i].size > 0
<1>1. \A q \in Seq(Line) : \A j \in 1 .. Len(q) : q[j] \in Line
    OBVIOUS
<1>2. l.lines[i] \in Line
    BY <1>1 DEF IsLog
<1> QED
    BY <1>2 DEF Line

\* A line more.
LEMMA PrefixGrows ==
    ASSUME NEW l, IsLog(l), NEW p, p < Len(l.lines), NEW f, NEW g, NEW d \in BOOLEAN,
           Prefix(l, p, f, g, d)
    PROVE  LET ts == l.lines[p + 1].ts
           IN /\ ts = None => Prefix(l, p + 1, f, g, d)
              /\ ts # None => Prefix(l, p + 1, IF ~d \/ ts < f THEN ts ELSE f,
                                     IF ~d \/ ts > g THEN ts ELSE g, TRUE)
<1> DEFINE ts == l.lines[p + 1].ts
<1>1. p \in Nat /\ p + 1 \in 1 .. Len(l.lines) /\ Len(l.lines) \in Nat
    BY DEF Prefix, IsLog
<1>2. ts \in Int \cup {None} /\ \A i \in 1 .. p : l.lines[i].ts \in Int \cup {None}
  <2>1. 1 .. p \subseteq 1 .. Len(l.lines)
      BY <1>1
  <2> QED
      BY <1>1, <2>1, LineType
<1>3. \A i \in 1 .. p + 1 : i \in 1 .. p \/ i = p + 1
    BY <1>1
<1>4. 1 .. p \subseteq 1 .. p + 1 /\ p + 1 \in 1 .. p + 1 /\ p + 1 \in 0 .. Len(l.lines)
    BY <1>1
<1>5. CASE ts = None
  <2>1. \A i \in 1 .. p + 1 : l.lines[i].ts # None => i \in 1 .. p
      BY <1>3, <1>5
  <2> QED
      BY <1>4, <1>5, <2>1 DEF Prefix
<1>6. CASE ts # None
  <2> DEFINE f2 == IF ~d \/ ts < f THEN ts ELSE f
             g2 == IF ~d \/ ts > g THEN ts ELSE g
  <2>1. ts \in Int
      BY <1>2, <1>6
  <2>2. CASE ~d
    <3>1. \A i \in 1 .. p + 1 : l.lines[i].ts # None => i = p + 1
        BY <1>3, <2>2 DEF Prefix
    <3> QED
        BY <1>4, <1>6, <2>1, <2>2, <3>1 DEF Prefix
  <2>3. CASE d
    <3>1. f \in Int /\ g \in Int /\ f <= g
        BY <2>3 DEF Prefix
    <3>2. f2 \in Int /\ g2 \in Int /\ f2 <= f /\ g <= g2 /\ f2 <= ts /\ ts <= g2 /\ f2 <= g2
        BY <2>1, <2>3, <3>1
    <3>3. (\E i \in 1 .. p + 1 : l.lines[i].ts = f2) /\ (\E i \in 1 .. p + 1 : l.lines[i].ts = g2)
        BY <1>4, <2>3 DEF Prefix
    <3>4. ASSUME NEW i \in 1 .. p + 1, l.lines[i].ts # None
          PROVE  f2 <= l.lines[i].ts /\ l.lines[i].ts <= g2
      <4>1. CASE i = p + 1
          BY <4>1, <3>2
      <4>2. CASE i \in 1 .. p
        <5>1. l.lines[i].ts \in Int /\ f <= l.lines[i].ts /\ l.lines[i].ts <= g
            BY <4>2, <1>2, <3>4 DEF Prefix
        <5> HIDE DEF f2, g2
        <5> QED
            BY <5>1, <3>1, <3>2
      <4> QED
          BY <4>1, <4>2, <1>3
    <3> HIDE DEF f2, g2
    <3>5. Prefix(l, p + 1, f2, g2, TRUE)
        BY <1>4, <3>2, <3>3, <3>4 DEF Prefix
    <3> QED
        BY <3>5, <1>6 DEF f2, g2
  <2> QED
      BY <2>2, <2>3
<1> QED
    BY <1>5, <1>6

\* What the accumulators say of coverage is true, and all there is to say
\* once every line is read.
LEMMA PrefixJudges ==
    ASSUME NEW l, IsLog(l), NEW p, NEW f, NEW g, NEW d \in BOOLEAN, Prefix(l, p, f, g, d)
    PROVE  /\ d /\ Covers(f, g) => Spans(l)
           /\ p = Len(l.lines) => (Spans(l) => d /\ Covers(f, g))
<1>0. DOMAIN l.lines = 1 .. Len(l.lines) /\ Len(l.lines) \in Nat /\ 1 .. p \subseteq DOMAIN l.lines
    BY DEF IsLog, Prefix
<1>1. ASSUME d, Covers(f, g) PROVE Spans(l)
  <2>1. f \in Int /\ g \in Int /\ f \in Stamps(l) /\ g \in Stamps(l)
      BY <1>0, <1>1, WindowAssumption DEF Prefix, Stamps
  <2> QED
      BY <1>1, <2>1 DEF Spans, Covers
<1>2. ASSUME p = Len(l.lines), Spans(l) PROVE d /\ Covers(f, g)
  <2>1. PICK t \in Stamps(l) : t <= WinStart + Grace
      BY <1>2 DEF Spans
  <2>2. PICK u \in Stamps(l) : u >= WinEnd - Grace
      BY <1>2 DEF Spans
  <2>3. \A x \in Stamps(l) : x \in Int /\ d /\ f <= x /\ x <= g
    <3> TAKE x \in Stamps(l)
    <3>1. PICK i \in 1 .. p : l.lines[i].ts = x /\ x # None
        BY <1>0, <1>2 DEF Stamps
    <3>2. x \in Int
        BY <3>1, <1>0, LineType
    <3> QED
        BY <3>1, <3>2 DEF Prefix
  <2>4. d /\ f \in Int /\ g \in Int
      BY <2>1, <2>3 DEF Prefix
  <2> QED
      BY <2>1, <2>2, <2>3, <2>4, WindowAssumption DEF Covers
<1> QED
    BY <1>1, <1>2

\* Once every line is read, no timestamp has been missed.
LEMMA PrefixMissesNone ==
    ASSUME NEW l, IsLog(l), NEW f, NEW g, Prefix(l, Len(l.lines), f, g, FALSE)
    PROVE  Stamps(l) = {}
<1>1. DOMAIN l.lines = 1 .. Len(l.lines)
    BY DEF IsLog
<1>2. \A i \in 1 .. Len(l.lines) : l.lines[i].ts = None
    BY DEF Prefix
<1> QED
    BY <1>1, <1>2 DEF Stamps

\* A check is right about its log.
Judged(l, c) ==
    /\ c.covered => Spans(l)
    /\ l.gzip /\ ~c.truncated => (c.covered <=> Spans(l))
    /\ ~l.gzip => c = ZeroCheck
    /\ ~c.truncated => /\ ~c.detected => Stamps(l) = {}
                       /\ c.scanned = 0 <=> l.lines = <<>>

\* Some of the budget is spent as soon as a line is read.
SpentInv == pos = 0 <=> left = ByteBudget

OnLog ==
    entry \in 1 .. Len(archive.entries) /\ archive.entries[entry].name \in LogNames

AccInv ==
    IF OnLog THEN Prefix(archive.entries[entry].log, pos, first, last, detected)
             ELSE pos = 0 /\ detected = FALSE

ChecksInv ==
    \A n \in LogNames :
        /\ \A i \in Holding(n) : i < entry => Judged(archive.entries[i].log, check[n])
        /\ (\A i \in Holding(n) : i >= entry) => check[n] = ZeroCheck

ResultInv ==
    /\ entry > 0 => verdict = "accepted"
    /\ Scored => /\ entry = Len(archive.entries) + 1 /\ verdict = "accepted"
                 /\ result = Assessed

SInv == AInv /\ TypeOK /\ AccInv /\ SpentInv /\ ChecksInv /\ ResultInv

LEMMA ZeroIsCheck == ZeroCheck \in Check
BY WindowAssumption DEF ZeroCheck, Check

LEMMA NowType ==
    ASSUME TypeOK, Scanning
    PROVE  /\ Now \in Entry /\ Now.log \in Logs /\ IsLog(Now.log) /\ Now.name \in LogNames
           /\ entry \in 1 .. Len(archive.entries) /\ Len(archive.entries) \in Nat
           /\ entry \in DOMAIN archive.entries /\ Now = archive.entries[entry]
           /\ DOMAIN archive.entries = 1 .. Len(archive.entries)
<1>1. /\ archive.entries \in Seq(Entry) /\ entry \in 1 .. Len(archive.entries)
      /\ Now.name \in LogNames /\ Now = archive.entries[entry]
    BY DEF TypeOK, ArchiveTypeOK, IsArchive, Scanning, Walking, Now
<1>2. \A q \in Seq(Entry) : \A j \in 1 .. Len(q) : q[j] \in Entry
    OBVIOUS
<1>3. Now \in Entry
    BY <1>1, <1>2
<1>4. Now.log \in Logs
    BY <1>3 DEF Entry
<1> QED
    BY <1>1, <1>3, <1>4, UploadsAssumption

\* The log at hand is the only one of its name.
LEMMA NowIsAlone ==
    ASSUME SInv, Scanning
    PROVE  Holding(Now.name) = {entry}
<1>1. verdict = "accepted"
    BY NowType DEF SInv, ResultInv
<1>2. WellFormed(archive)
    BY <1>1, AcceptedIsWellFormed DEF SInv
<1>3. entry \in DOMAIN archive.entries /\ Now = archive.entries[entry]
    BY NowType DEF SInv
<1> QED
    BY <1>2, <1>3 DEF WellFormed, Holding

LEMMA PrefixStarts ==
    ASSUME NEW l, IsLog(l), NEW f, NEW g PROVE Prefix(l, 0, f, g, FALSE)
<1>1. Len(l.lines) \in Nat
    BY DEF IsLog
<1> QED
    BY <1>1 DEF Prefix

\* Wherever the walk goes, it starts on a log with nothing read.
LEMMA FreshScan ==
    ASSUME IsArchive(archive)', pos' = 0, detected' = FALSE PROVE AccInv'
<1>1. ASSUME OnLog' PROVE Prefix(archive.entries[entry].log, pos, first, last, detected)'
  <2>1. \A q \in Seq(Entry) : \A j \in 1 .. Len(q) : q[j] \in Entry
      OBVIOUS
  <2>2. archive'.entries[entry'] \in Entry
      BY <1>1, <2>1 DEF OnLog, IsArchive
  <2>3. archive'.entries[entry'].log \in Logs
      BY <2>2 DEF Entry
  <2>4. IsLog(archive'.entries[entry'].log)
      BY <2>3, UploadsAssumption
  <2>5. Prefix(archive'.entries[entry'].log, 0, first', last', FALSE)
      BY <2>4, PrefixStarts
  <2> QED
      BY <2>5
<1> QED
    BY <1>1 DEF AccInv

\* A scan that returns a check that is right about its log.
LEMMA ReturnSInv ==
    ASSUME SInv, AInv', Scanning, NEW c \in Check, Judged(Now.log, c), Return(c)
    PROVE  SInv'
<1>0. /\ UNCHANGED <<archive, verdict, upload, result, sentry>> /\ entry' = entry + 1
      /\ pos' = 0 /\ left' = ByteBudget /\ detected' = FALSE
      /\ check' = [check EXCEPT ![Now.name] = c] /\ result = None
    BY DEF Return, archiveVars, Scanning, Walking
<1>1. /\ entry \in 1 .. Len(archive.entries) /\ Now.name \in LogNames
      /\ Now = archive.entries[entry] /\ Len(archive.entries) \in Nat
      /\ DOMAIN archive.entries = 1 .. Len(archive.entries)
    BY NowType DEF SInv
<1>2. TypeOK'
  <2>1. check' \in [LogNames -> Check] /\ entry' \in 0 .. Len(archive.entries) + 1
        /\ left' \in 0 .. ByteBudget
      BY <1>0, <1>1, WindowAssumption DEF SInv, TypeOK
  <2>2. ArchiveTypeOK'
      BY DEF AInv
  <2>3. detected' \in BOOLEAN /\ ~detected'
      BY <1>0
  <2>4. (IsUpload(upload) /\ archive = upload.archive /\ result \in Result \cup {None})'
      BY <1>0 DEF SInv, TypeOK
  <2> QED
      BY <1>0, <2>1, <2>2, <2>3, <2>4 DEF TypeOK
<1>3. AccInv'
    BY <1>0, FreshScan DEF AInv, ArchiveTypeOK
<1>4. ChecksInv'
  <2>1. \A n : Holding(n)' = Holding(n)
      BY <1>0 DEF Holding
  <2>2. \A n \in LogNames : n # Now.name => check'[n] = check[n] /\ entry \notin Holding(n)
      BY <1>0, <1>1 DEF SInv, TypeOK, Holding
  <2>3. check'[Now.name] = c /\ Holding(Now.name) = {entry}
      BY <1>0, <1>1, NowIsAlone DEF SInv, TypeOK
  <2>4. \A n \in LogNames : \A i \in Holding(n) : i \in Int
      BY <1>1 DEF Holding
  <2>5. ASSUME NEW n \in LogNames
        PROVE  /\ \A i \in Holding(n) : i < entry' => Judged(archive.entries[i].log, check'[n])
               /\ (\A i \in Holding(n) : i >= entry') => check'[n] = ZeroCheck
    <3>1. CASE n = Now.name
      <4>1. Holding(n) = {entry} /\ check'[n] = c /\ archive.entries[entry].log = Now.log
          BY <1>1, <2>3, <3>1
      <4>2. ~(entry >= entry')
          BY <1>0, <1>1
      <4> QED
          BY <4>1, <4>2
    <3>2. CASE n # Now.name
      <4>1. \A i \in Holding(n) : i \in Int /\ i # entry
          BY <2>2, <2>4, <3>2
      <4>2. \A i \in Holding(n) : (i < entry' <=> i < entry) /\ (i >= entry' <=> i >= entry)
          BY <4>1, <1>0, <1>1
      <4> QED
          BY <4>2, <2>2, <3>2 DEF SInv, ChecksInv
    <3> QED
        BY <3>1, <3>2
  <2> QED
      BY <1>0, <2>1, <2>5 DEF ChecksInv
<1>5. ResultInv'
    BY <1>0, <1>1 DEF SInv, ResultInv, Scored
<1>6. SpentInv'
    BY <1>0 DEF SpentInv
<1> QED
    BY <1>2, <1>3, <1>4, <1>5, <1>6 DEF SInv

LEMMA ReadLineSInv == ASSUME SInv, AInv', ReadLine PROVE SInv'
<1> DEFINE l == Now.log
           ts == l.lines[pos + 1].ts
<1>0. /\ UNCHANGED <<archive, verdict, upload, entry, check, result, sentry>>
      /\ pos' = pos + 1 /\ left' = left - NextLine.size /\ Scanning /\ pos < Len(l.lines)
      /\ NextLine = l.lines[pos + 1] /\ Absorb(ts) /\ result = None
    BY DEF ReadLine, archiveVars, Scanning, Walking, NextLine
<1>1. /\ IsLog(l) /\ OnLog /\ Now = archive.entries[entry]
    BY <1>0, NowType DEF SInv, OnLog
<1>2. Prefix(l, pos, first, last, detected) /\ detected \in BOOLEAN
  <2>1. detected \in BOOLEAN
      BY DEF SInv, TypeOK
  <2>2. AccInv
      BY DEF SInv
  <2>3. Prefix(archive.entries[entry].log, pos, first, last, detected)
      BY <1>1, <2>2 DEF AccInv
  <2> QED
      BY <1>1, <2>1, <2>3
<1> HIDE DEF l, ts
<1>3. pos \in Nat /\ pos + 1 \in 1 .. Len(l.lines)
  <2>1. pos \in 0 .. Len(l.lines) /\ pos < Len(l.lines)
      BY <1>0, <1>2 DEF Prefix
  <2>2. l.lines \in Seq(Line)
      BY <1>1 DEF IsLog
  <2>3. Len(l.lines) \in Nat
      BY <2>2
  <2> QED
      BY <2>1, <2>3
<1>4. NextLine.size \in Nat /\ NextLine.size > 0 /\ NextLine.size <= left
  <2>1. NextLine.size \in Nat /\ NextLine.size > 0
      BY <1>0, <1>1, <1>3, LineType
  <2>2. NextLine.size <= left
      BY DEF ReadLine, Fits
  <2> QED
      BY <2>1, <2>2
<1> USE DEF l, ts
<1>5. Prefix(l, pos + 1, first', last', detected') /\ detected' \in BOOLEAN
  <2> HIDE DEF l
  <2>1. CASE ts = None
      BY <1>0, <1>1, <1>2, <2>1, PrefixGrows DEF Absorb
  <2>2. CASE ts # None
    <3>1. first' = Earlier(ts) /\ last' = Later(ts) /\ detected' = TRUE
        BY <1>0, <2>2 DEF Absorb
    <3>2. Prefix(l, pos + 1, IF ~detected \/ ts < first THEN ts ELSE first,
                 IF ~detected \/ ts > last THEN ts ELSE last, TRUE)
        BY <1>0, <1>1, <1>2, <2>2, PrefixGrows
    <3> QED
        BY <3>1, <3>2 DEF Earlier, Later
  <2> QED
      BY <2>1, <2>2
<1>6. TypeOK'
  <2>1. left' \in 0 .. ByteBudget /\ pos' \in Nat
      BY <1>0, <1>3, <1>4, WindowAssumption, SMTT(30) DEF SInv, TypeOK
  <2>2. detected' => first' \in Int /\ last' \in Int /\ first' <= last'
      BY <1>5 DEF Prefix
  <2>3. ArchiveTypeOK'
      BY DEF AInv
  <2> QED
      BY <1>0, <1>5, <2>1, <2>2, <2>3 DEF SInv, TypeOK
<1>7. AccInv'
    BY <1>0, <1>1, <1>5 DEF AccInv, OnLog
<1>8. ChecksInv' /\ ResultInv'
    BY <1>0 DEF SInv, ChecksInv, ResultInv, Scored, Holding
<1>9. SpentInv'
    BY <1>0, <1>3, <1>4, WindowAssumption, SMTT(30) DEF SInv, TypeOK, SpentInv
<1> QED
    BY <1>6, <1>7, <1>8, <1>9 DEF SInv

\* The ways a scan stops, each with a check that is right.
LEMMA StopSInv ==
    ASSUME SInv, AInv', StopAtLine \/ StopInLine \/ StopTooLong \/ Unreadable
    PROVE  SInv'
<1> DEFINE l == Now.log
<1>0. Scanning /\ left \in 0 .. ByteBudget /\ ByteBudget \in Nat
    BY WindowAssumption DEF SInv, TypeOK, StopAtLine, StopInLine, StopTooLong, Unreadable
<1>1. IsLog(l) /\ Prefix(l, pos, first, last, detected) /\ detected \in BOOLEAN
  <2>1. IsLog(l) /\ OnLog /\ Now = archive.entries[entry]
      BY <1>0, NowType DEF SInv, OnLog
  <2> QED
      BY <2>1 DEF SInv, AccInv, TypeOK
<1>2. CASE Unreadable
  <2>1. ~l.gzip /\ l.lines = <<>> /\ Stamps(l) = {}
      BY <1>1, <1>2 DEF Unreadable, IsLog, Stamps
  <2>2. Judged(l, ZeroCheck)
      BY <2>1 DEF Judged, ZeroCheck
  <2> QED
      BY <1>0, <1>2, <2>2, ZeroIsCheck, ReturnSInv DEF Unreadable
<1>3. CASE StopAtLine
  <2> DEFINE t == (left > 0 /\ l.end = "error") \/ HitCap(left)
             c == Outcome(first, last, detected, ByteBudget - left, t)
  <2>1. c \in Check
    <3>1. t \in BOOLEAN /\ (detected /\ Covers(first, last)) \in BOOLEAN
        BY DEF HitCap, Covers
    <3>2. ByteBudget - left \in 0 .. ByteBudget
        BY <1>0
    <3> HIDE DEF t
    <3> QED
        BY <1>1, <3>1, <3>2 DEF Outcome, Check
  <2>2. pos \in Nat /\ Len(l.lines) \in Nat /\ pos <= Len(l.lines)
      BY <1>1 DEF Prefix, IsLog
  <2>3. ~t => pos = Len(l.lines)
      BY <1>0, <1>3, <2>2 DEF StopAtLine, HitCap
  <2>4. l.gzip /\ c.truncated = t /\ (c.covered <=> detected /\ Covers(first, last))
      BY <1>3 DEF StopAtLine, Outcome
  <2>5. detected /\ Covers(first, last) => Spans(l)
      BY <1>1, PrefixJudges
  <2>6. ~t => (Spans(l) => detected /\ Covers(first, last))
      BY <1>1, <2>3, PrefixJudges
  <2>7. Return(c)
      BY <1>3 DEF StopAtLine
  <2>8. ~t => /\ ~detected => Stamps(l) = {}
              /\ ByteBudget - left = 0 <=> l.lines = <<>>
    <3>1. ~t /\ ~detected => Stamps(l) = {}
        BY <1>1, <2>3, PrefixMissesNone
    <3>2. l.lines = <<>> <=> Len(l.lines) = 0
        BY <1>1 DEF IsLog
    <3>3. ByteBudget - left = 0 <=> pos = 0
        BY <1>0 DEF SInv, SpentInv
    <3> QED
        BY <2>3, <3>1, <3>2, <3>3
  <2>9. c.detected = detected /\ c.scanned = ByteBudget - left
      BY DEF Outcome
  <2> HIDE DEF c, t
  <2>10. Judged(l, c)
      BY <2>4, <2>5, <2>6, <2>8, <2>9 DEF Judged
  <2> QED
      BY <1>0, <2>1, <2>7, <2>10, ReturnSInv
<1>4. CASE StopTooLong
  <2>1. PICK n \in ByteBudget - left + 1 .. ByteBudget :
            Return(Outcome(first, last, detected, n, TRUE))
      BY <1>4 DEF StopTooLong
  <2> DEFINE c == Outcome(first, last, detected, n, TRUE)
  <2>2. c \in Check
    <3>1. (detected /\ Covers(first, last)) \in BOOLEAN
        BY DEF Covers
    <3>2. n \in 0 .. ByteBudget
        BY <1>0
    <3> QED
        BY <1>1, <3>1, <3>2 DEF Outcome, Check
  <2>3. l.gzip /\ c.truncated = TRUE /\ (c.covered => detected /\ Covers(first, last))
      BY <1>4 DEF StopTooLong, Outcome
  <2>4. Judged(l, c)
      BY <1>1, <2>3, PrefixJudges DEF Judged
  <2> QED
      BY <1>0, <2>1, <2>2, <2>4, ReturnSInv
<1>5. CASE StopInLine
  <2>0. pos \in Nat /\ pos < Len(l.lines) /\ l.gzip /\ NextLine = l.lines[pos + 1]
      BY <1>1, <1>5 DEF Prefix, StopInLine, NextLine
  <2>1. PICK ts \in {None, NextLine.ts} :
            Return(Outcome(IF ts = None THEN first ELSE Earlier(ts),
                           IF ts = None THEN last ELSE Later(ts),
                           detected \/ ts # None, ByteBudget, HitCap(0)))
      BY <1>5 DEF StopInLine
  <2> DEFINE f == IF ts = None THEN first ELSE Earlier(ts)
             g == IF ts = None THEN last ELSE Later(ts)
             d == detected \/ ts # None
             c == Outcome(f, g, d, ByteBudget, HitCap(0))
  <2>2. HitCap(0) = TRUE
      BY <2>0 DEF HitCap
  <2>3. \E p : Prefix(l, p, f, g, d)
    <3>1. CASE ts = None
        BY <1>1, <3>1
    <3>2. CASE ts # None
      <4>1. ts = l.lines[pos + 1].ts
          BY <2>0, <2>1, <3>2
      <4> HIDE DEF l
      <4>2. Prefix(l, pos + 1, IF ~detected \/ ts < first THEN ts ELSE first,
                   IF ~detected \/ ts > last THEN ts ELSE last, TRUE)
          BY <1>1, <2>0, <3>2, <4>1, PrefixGrows
      <4>3. /\ f = (IF ~detected \/ ts < first THEN ts ELSE first)
            /\ g = (IF ~detected \/ ts > last THEN ts ELSE last) /\ d = TRUE
          BY <3>2 DEF Earlier, Later
      <4> QED
          BY <4>2, <4>3
    <3> QED
        BY <3>1, <3>2
  <2>4. d \in BOOLEAN
      OBVIOUS
  <2>5. Return(c)
      BY <2>1
  <2> HIDE DEF f, g, d
  <2>6. c \in Check
    <3>1. (d /\ Covers(f, g)) \in BOOLEAN
        BY DEF Covers
    <3>2. c = Outcome(f, g, d, ByteBudget, TRUE)
        BY <2>2, Zenon
    <3>3. ByteBudget \in 0 .. ByteBudget
        BY <1>0
    <3> HIDE DEF c
    <3> QED
        BY <2>4, <3>1, <3>2, <3>3 DEF Outcome, Check
  <2>7. c.truncated = TRUE /\ (c.covered => d /\ Covers(f, g))
      BY <2>2 DEF Outcome
  <2>8. Judged(l, c)
      BY <1>1, <2>0, <2>3, <2>4, <2>7, PrefixJudges DEF Judged
  <2> QED
      BY <1>0, <2>5, <2>6, <2>8, ReturnSInv
<1> QED
    BY <1>2, <1>3, <1>4, <1>5

\* The first walk and the start of the second.
LEMMA ValidateSInv == ASSUME SInv, AInv', Validate PROVE SInv'
<1>0. /\ UNCHANGED <<archive, upload, entry, pos, left, first, last, detected, check, result>>
      /\ verdict = "walking"
    BY DEF Validate, scanVars, ArchiveNext, Corrupt, Cancel, RefuseHeader, RefuseContent,
       AcceptEntry, EndOfArchive, Answer
<1>1. TypeOK'
    BY <1>0 DEF SInv, AInv, TypeOK
<1>2. AccInv' /\ ChecksInv'
    BY <1>0 DEF SInv, AccInv, OnLog, ChecksInv, Holding
<1>3. ResultInv' /\ SpentInv'
    BY <1>0 DEF SInv, ResultInv, SpentInv, Scored, TypeOK
<1> QED
    BY <1>1, <1>2, <1>3 DEF SInv

LEMMA StartScoringSInv == ASSUME SInv, AInv', StartScoring PROVE SInv'
<1>0. /\ UNCHANGED <<archive, upload, pos, left, first, last, detected, check, result, verdict>>
      /\ entry = 0 /\ entry' = 1 /\ verdict = "accepted" /\ result = None
    BY DEF StartScoring, archiveVars, scanVars
<1>1. Len(archive.entries) \in Nat /\ DOMAIN archive.entries = 1 .. Len(archive.entries)
    BY DEF SInv, TypeOK, ArchiveTypeOK, IsArchive
<1>2. TypeOK'
    BY <1>0, <1>1 DEF SInv, AInv, TypeOK
<1>3. pos = 0 /\ detected = FALSE
    BY <1>0 DEF SInv, AccInv, OnLog
<1>4. AccInv'
    BY <1>0, <1>3, FreshScan DEF AInv, ArchiveTypeOK
<1>5. \A n : \A i \in Holding(n) : ~(i < 1) /\ i >= 0
    BY <1>1 DEF Holding
<1>6. ChecksInv'
    BY <1>0, <1>5 DEF SInv, ChecksInv, Holding
<1>7. ResultInv' /\ SpentInv'
    BY <1>0 DEF SInv, ResultInv, SpentInv, Scored
<1> QED
    BY <1>2, <1>4, <1>6, <1>7 DEF SInv

LEMMA SkipEntrySInv == ASSUME SInv, AInv', SkipEntry PROVE SInv'
<1>0. /\ UNCHANGED <<archive, upload, pos, left, first, last, detected, check, result, verdict>>
      /\ entry' = entry + 1 /\ entry \in 1 .. Len(archive.entries) /\ result = None
      /\ archive.entries[entry].name \notin LogNames
    BY DEF SkipEntry, Walking, Now, archiveVars, scanVars
<1>1. Len(archive.entries) \in Nat /\ DOMAIN archive.entries = 1 .. Len(archive.entries)
    BY DEF SInv, TypeOK, ArchiveTypeOK, IsArchive
<1>2. TypeOK'
    BY <1>0, <1>1 DEF SInv, AInv, TypeOK
<1>3. pos = 0 /\ detected = FALSE
    BY <1>0 DEF SInv, AccInv, OnLog
<1>4. AccInv'
    BY <1>0, <1>3, FreshScan DEF AInv, ArchiveTypeOK
<1>5. \A n \in LogNames : \A i \in Holding(n) :
          (i < entry' <=> i < entry) /\ (i >= entry' <=> i >= entry)
    BY <1>0, <1>1 DEF Holding
<1>6. ChecksInv'
    BY <1>0, <1>5 DEF SInv, ChecksInv, Holding
<1>7. ResultInv' /\ SpentInv'
    BY <1>0 DEF SInv, ResultInv, SpentInv, Scored
<1> QED
    BY <1>2, <1>4, <1>6, <1>7 DEF SInv

\* The tiers are scores.
LEMMA ScoreType ==
    ASSUME TypeOK
    PROVE  Assessed \in Result
<1>1. LogQualityScore(check["validator"], check["sentry"]) \in Int
    BY DEF LogQualityScore, WindowCredit
<1>2. TieredTimeScore(upload.submitted, upload.announced, upload.deadline) \in Int
    BY DEF TieredTimeScore, Tier
<1>3. sentry \in BOOLEAN /\ check \in [LogNames -> Check]
    BY DEF TypeOK, ArchiveTypeOK
<1> QED
    BY <1>1, <1>2, <1>3 DEF Assessed, Result

LEMMA EndSInv == ASSUME SInv, AInv', EndWalk \/ FailWalk PROVE SInv'
<1>0. /\ UNCHANGED <<archive, upload, entry, pos, left, first, last, detected, check, verdict,
                     sentry>>
      /\ result' \in {Assessed, Unassessed} /\ verdict = "accepted"
      /\ result' = Assessed => entry = Len(archive.entries) + 1 \/ result' = Unassessed
  <2>1. Len(archive.entries) \in Nat
      BY DEF SInv, TypeOK, ArchiveTypeOK, IsArchive
  <2> QED
      BY <2>1 DEF EndWalk, FailWalk, archiveVars, scanVars, SInv, ResultInv
<1>1. TypeOK'
  <2>1. Assessed \in Result /\ Unassessed \in Result
      BY ScoreType DEF SInv, Unassessed, Result
  <2> QED
      BY <1>0, <2>1 DEF SInv, AInv, TypeOK
<1>2. AccInv' /\ ChecksInv'
    BY <1>0 DEF SInv, AccInv, OnLog, ChecksInv, Holding
<1>3. ResultInv'
  <2>1. Scored' => result' = Assessed /\ result' # Unassessed
      BY <1>0 DEF Scored, Unassessed
  <2>2. Assessed' = Assessed
      BY <1>0 DEF Assessed
  <2> QED
      BY <1>0, <2>1, <2>2 DEF SInv, ResultInv
<1>4. SpentInv'
    BY <1>0 DEF SInv, SpentInv
<1> QED
    BY <1>1, <1>2, <1>3, <1>4 DEF SInv

LEMMA IdleSInv == ASSUME SInv, AInv', UNCHANGED vars PROVE SInv'
<1>1. TypeOK'
    BY SMTT(30) DEF SInv, AInv, TypeOK, vars, scanVars, archiveVars
<1>2. AccInv' /\ SpentInv' /\ ChecksInv' /\ ResultInv'
    BY DEF SInv, AccInv, SpentInv, OnLog, ChecksInv, ResultInv, Scored, Assessed, Holding,
       vars, scanVars, archiveVars
<1> QED
    BY <1>1, <1>2 DEF SInv

LEMMA NextSInv == SInv /\ [Next]_vars => SInv'
<1> SUFFICES ASSUME SInv, [Next]_vars PROVE SInv'
    OBVIOUS
<1>1. AInv'
    BY NextAInv DEF SInv
<1>2. CASE Done \/ UNCHANGED vars
    BY <1>1, <1>2, IdleSInv DEF Done
<1> QED
    BY <1>1, <1>2, ValidateSInv, StartScoringSInv, SkipEntrySInv, ReadLineSInv, StopSInv,
       EndSInv DEF Next

LEMMA InitSInv == Init => SInv
<1> SUFFICES ASSUME Init PROVE SInv
    OBVIOUS
<1>1. AInv
    BY InitAInv
<1>2. TypeOK
  <2>1. check \in [LogNames -> Check]
      BY ZeroIsCheck DEF Init
  <2>2. IsUpload(upload) /\ archive = upload.archive
      BY UploadsAssumption DEF Init
  <2>3. Len(archive.entries) \in Nat
      BY <1>1 DEF AInv, ArchiveTypeOK, IsArchive
  <2>4. detected \in BOOLEAN /\ ~detected
      BY DEF Init
  <2>5. entry \in 0 .. Len(archive.entries) + 1 /\ pos \in Nat /\ left \in 0 .. ByteBudget
      BY <2>3, WindowAssumption DEF Init
  <2> QED
      BY <1>1, <2>1, <2>2, <2>4, <2>5 DEF AInv, TypeOK, Init
<1>3. AccInv /\ SpentInv /\ ResultInv
    BY DEF Init, AccInv, SpentInv, OnLog, ResultInv, Scored
<1>4. ChecksInv
  <2>1. DOMAIN archive.entries = 1 .. Len(archive.entries)
      BY <1>1 DEF AInv, ArchiveTypeOK, IsArchive
  <2>2. \A n \in LogNames : check[n] = ZeroCheck /\ \A i \in Holding(n) : ~(i < entry)
      BY <2>1 DEF Init, Holding
  <2> QED
      BY <2>2 DEF ChecksInv
<1> QED
    BY <1>1, <1>2, <1>3, <1>4 DEF SInv

LEMMA ScanInvariance == Spec => []SInv
    BY InitSInv, NextSInv, PTL DEF Spec

\* At the end every log has been judged, and a log that was not submitted
\* has the zero check.
LEMMA AtTheEnd ==
    ASSUME SInv, Scored
    PROVE  /\ result = Assessed /\ WellFormed(archive) /\ result.window = check
           /\ sentry <=> "sentry" \in Names(archive)
           /\ \A n \in LogNames :
                 /\ \A i \in Holding(n) : Judged(archive.entries[i].log, check[n])
                 /\ Holding(n) = {} => check[n] = ZeroCheck
<1>1. result = Assessed /\ verdict = "accepted" /\ entry = Len(archive.entries) + 1
    BY DEF SInv, ResultInv
<1>2. WellFormed(archive) /\ (sentry <=> "sentry" \in Names(archive))
    BY <1>1, AcceptedIsWellFormed DEF SInv
<1>3. Len(archive.entries) \in Nat /\ DOMAIN archive.entries = 1 .. Len(archive.entries)
    BY DEF SInv, TypeOK, ArchiveTypeOK, IsArchive
<1>4. \A n \in LogNames : \A i \in Holding(n) : i < entry
    BY <1>1, <1>3 DEF Holding
<1>5. result.window = check
    BY <1>1 DEF Assessed
<1> QED
    BY <1>1, <1>2, <1>4, <1>5 DEF SInv, ChecksInv

\* The states are what the module says they are.
THEOREM AutoChecksTypeCorrect == Spec => []TypeOK
<1>1. SInv => TypeOK
    BY DEF SInv
<1> QED
    BY ScanInvariance, <1>1, PTL

\* Coverage is claimed only of logs that have it, and denied by a complete
\* scan only of logs that lack it: for every log, budget and line length.
THEOREM CoverageClaimsAreTrue == Spec => []CoverageIsReal
<1>1. ASSUME SInv PROVE CoverageIsReal
  <2> SUFFICES ASSUME Scored, NEW n \in LogNames
               PROVE  /\ check[n].covered =>
                             \E i \in Holding(n) : Spans(archive.entries[i].log)
                      /\ \A i \in Holding(n) :
                            archive.entries[i].log.gzip /\ ~check[n].truncated =>
                               (check[n].covered <=> Spans(archive.entries[i].log))
      BY <1>1, AtTheEnd DEF CoverageIsReal
  <2>1. \A i \in Holding(n) : Judged(archive.entries[i].log, check[n])
      BY <1>1, AtTheEnd
  <2>2. check[n].covered => Holding(n) # {}
      BY <1>1, AtTheEnd DEF ZeroCheck
  <2> QED
      BY <2>1, <2>2 DEF Judged
<1> QED
    BY ScanInvariance, <1>1, PTL

\* Every warning the summary prints about a log is true of it: "does not cover
\* the window" always, "empty" and "no recognizable timestamps" unless the scan
\* was cut short.
THEOREM BlameIsAlwaysDeserved == Spec => []BlameIsDeserved
<1>1. ASSUME SInv PROVE BlameIsDeserved
  <2> SUFFICES ASSUME Scored, NEW n \in LogNames, NEW i \in Holding(n)
               PROVE  LET c == check[n]
                          l == archive.entries[i].log
                      IN /\ Note(c) = "uncovered" => ~Spans(l)
                         /\ Note(c) = "empty" /\ ~c.truncated => l.lines = <<>>
                         /\ Note(c) = "notimestamps" /\ ~c.truncated
                               => l.lines # <<>> /\ Stamps(l) = {}
      BY <1>1, AtTheEnd DEF BlameIsDeserved
  <2> DEFINE c == check[n]
             l == archive.entries[i].log
  <2>1. Judged(l, c)
      BY <1>1, AtTheEnd
  <2> HIDE DEF c, l
  <2>2. Note(c) = "uncovered" => c.detected /\ ~c.truncated /\ ~c.covered
      BY DEF Note
  <2>3. Note(c) = "empty" => c.scanned = 0
      BY DEF Note
  <2>4. Note(c) = "notimestamps" => ~c.detected /\ c.scanned # 0
      BY DEF Note
  <2>5. Note(c) = "uncovered" => ~Spans(l)
      BY <2>1, <2>2 DEF Judged, ZeroCheck
  <2>6. Note(c) = "empty" /\ ~c.truncated => l.lines = <<>>
      BY <2>1, <2>3 DEF Judged
  <2>7. Note(c) = "notimestamps" /\ ~c.truncated => l.lines # <<>> /\ Stamps(l) = {}
      BY <2>1, <2>4 DEF Judged
  <2> QED
      BY <2>5, <2>6, <2>7 DEF c, l
<1> QED
    BY ScanInvariance, <1>1, PTL

\* The log criterion stays within its points, and no log earns points it
\* does not deserve.
THEOREM FullMarksAreDeserved == Spec => []FullMarksAreEarned
<1>1. ASSUME SInv PROVE FullMarksAreEarned
  <2> SUFFICES ASSUME Scored PROVE FullMarksAreEarned
      BY DEF FullMarksAreEarned
  <2> DEFINE v == check["validator"]
             s == check["sentry"]
  <2>1. /\ result.logQuality = LogQualityScore(v, s) /\ result.sentryPresent = sentry
        /\ result.window = check
      BY <1>1, AtTheEnd DEF Assessed
  <2>2. /\ WindowCredit(v, 8, 4) \in {0, 4, 8} /\ (WindowCredit(v, 8, 4) = 8 => v.covered)
        /\ WindowCredit(s, 4, 2) \in {0, 2, 4} /\ (WindowCredit(s, 4, 2) = 4 => s.covered)
        /\ (s = ZeroCheck => WindowCredit(s, 4, 2) = 0)
      BY DEF WindowCredit, ZeroCheck
  <2>3. ~sentry => s = ZeroCheck
    <3>1. ~sentry => Holding("sentry") = {}
        BY <1>1, AtTheEnd DEF Names, Holding
    <3> QED
        BY <3>1, <1>1, AtTheEnd DEF LogNames
  <2>4. \A n \in LogNames : check[n].covered =>
            \E i \in Holding(n) : Spans(archive.entries[i].log)
    <3>1. \A n \in LogNames : check[n].covered => Holding(n) # {}
        BY <1>1, AtTheEnd DEF ZeroCheck
    <3> QED
        BY <3>1, <1>1, AtTheEnd DEF Judged
  <2> HIDE DEF v, s
  <2>5. LogQualityScore(v, s) \in 13 .. 25
        /\ (LogQualityScore(v, s) > 21 => WindowCredit(s, 4, 2) # 0)
        /\ (LogQualityScore(v, s) = 25 => v.covered /\ s.covered)
      BY <2>2 DEF LogQualityScore
  <2>6. result.logQuality > 21 => sentry
      BY <2>1, <2>2, <2>3, <2>5
  <2>7. result.logQuality = 25 => \A n \in LogNames : check[n].covered
      BY <2>1, <2>5 DEF LogNames, v, s
  <2> QED
      BY <2>1, <2>3, <2>4, <2>5, <2>6, <2>7 DEF FullMarksAreEarned, s
<1> QED
    BY ScanInvariance, <1>1, PTL

\* Only a finished walk over an accepted archive is recorded as scored.
THEOREM ScoredMeansAssessed == Spec => []ScoredIsAssessed
<1>1. SInv => ScoredIsAssessed
    BY DEF SInv, ResultInv, ScoredIsAssessed
<1> QED
    BY ScanInvariance, <1>1, PTL

-----------------------------------------------------------------------------
(***************************************************************************)
(* The upload criterion.                                                   *)
(***************************************************************************)
\* What integer division by 2 and 4 loses.
LEMMA Division ==
    ASSUME NEW x \in Nat
    PROVE  /\ x \div 4 \in Nat /\ 4 * (x \div 4) <= x /\ x < 4 * (x \div 4) + 4
           /\ x \div 2 \in Nat /\ 2 * (x \div 2) <= x /\ x < 2 * (x \div 2) + 2
OBVIOUS

\* The switch picks the quarter.
LEMMA TierOf ==
    ASSUME NEW T \in Nat, T > 0, NEW E \in Int, 0 <= E, E <= T
    PROVE  Tier(E, T) \in QuarterScores(E, T)
<1>d. /\ T \div 4 \in Nat /\ 4 * (T \div 4) <= T /\ T < 4 * (T \div 4) + 4
      /\ T \div 2 \in Nat /\ 2 * (T \div 2) <= T /\ T < 2 * (T \div 2) + 2
    BY Division
<1>1. CASE 4 * E <= T
    BY <1>1, <1>d DEF Tier, QuarterScores
<1>2. CASE T < 4 * E /\ 2 * E <= T
    BY <1>2, <1>d DEF Tier, QuarterScores
<1>3. CASE T < 2 * E /\ 4 * E <= 3 * T
  <2>1. Tier(E, T) = 13 \/ (Tier(E, T) = 6 /\ 4 * (E + 2) > 3 * T)
      BY <1>3, <1>d DEF Tier, ThreeQuarters
  <2>2. QuarterScores(E, T) = IF 4 * (E + 2) > 3 * T THEN {13, 6} ELSE {13}
      BY <1>3 DEF QuarterScores
  <2> QED
      BY <2>1, <2>2
<1>4. CASE 3 * T < 4 * E
  <2>1. Tier(E, T) = 6
      BY <1>4, <1>d DEF Tier, ThreeQuarters
  <2> QED
      BY <1>4, <2>1 DEF QuarterScores
<1> QED
    BY <1>1, <1>2, <1>3, <1>4

\* TieredTimeScore gives the quarter's score, and 0 outside the window, even
\* where Sub saturates.
LEMMA TieredTimeScoreOf ==
    ASSUME NEW t \in Int, NEW a \in Int, NEW d \in Int, Valid(a, d), d - a < MaxDuration
    PROVE  TieredTimeScore(t, a, d) \in QuarterScores(t - a, d - a)
<1>1. d - a \in Nat /\ d - a > 0 /\ t - a \in Int /\ MaxDuration \in Nat
    BY DurationAssumption DEF Valid
<1>2. Sub(d, a) = d - a
    BY <1>1 DEF Sub
<1>3. CASE t - a < 0
  <2>1. Sub(t, a) < 0
      BY <1>1, <1>3 DEF Sub
  <2>2. TieredTimeScore(t, a, d) = 0
      BY <2>1 DEF TieredTimeScore, Before
  <2> QED
      BY <1>3, <2>2 DEF QuarterScores
<1>4. CASE t - a > d - a
  <2>1. Sub(t, a) \in Int /\ Sub(t, a) > d - a
      BY <1>1, <1>4 DEF Sub
  <2>2. Tier(Sub(t, a), d - a) = 0
      BY <1>1, <2>1, Division DEF Tier, ThreeQuarters
  <2>3. TieredTimeScore(t, a, d) = 0
      BY <1>2, <2>2 DEF TieredTimeScore
  <2> QED
      BY <1>4, <2>3 DEF QuarterScores
<1>5. CASE 0 <= t - a /\ t - a <= d - a
  <2>1. Sub(t, a) = t - a
      BY <1>1, <1>5 DEF Sub
  <2>2. TieredTimeScore(t, a, d) = Tier(t - a, d - a)
      BY <1>1, <1>2, <1>5, <2>1 DEF TieredTimeScore, Before
  <2> QED
      BY <1>1, <1>5, <2>2, TierOf
<1> QED
    BY <1>1, <1>3, <1>4, <1>5

\* An upload is scored by its quarter of the window, whatever the exercise,
\* the moment and the width of a Duration.
THEOREM QuarterDecidesTier == Spec => []TierIsTheQuarter
<1>1. ASSUME SInv PROVE TierIsTheQuarter
  <2> SUFFICES ASSUME Scored, upload.deadline - upload.announced < MaxDuration
               PROVE  TierIsTheQuarter
      BY DEF TierIsTheQuarter
  <2>1. result.uploadTime =
            TieredTimeScore(upload.submitted, upload.announced, upload.deadline)
      BY <1>1, AtTheEnd DEF Assessed
  <2>2. IsUpload(upload)
      BY <1>1 DEF SInv, TypeOK
  <2> QED
      BY <2>1, <2>2, TieredTimeScoreOf DEF IsUpload, TierIsTheQuarter
<1> QED
    BY ScanInvariance, <1>1, PTL
=============================================================================
