------------------------- MODULE WindowedScanProofs -------------------------
(***************************************************************************)
(* Proofs about the windowed antivirus scan, for every window size,        *)
(* overlap, budget and set of logs that meet the assumptions.              *)
(***************************************************************************)
EXTENDS WindowedScan, FiniteSetTheorems, TLAPS

InStream == phase \in {"window", "ended"}

\* The budget is spent exactly by what is counted.
BudgetInv == outcome = "none" => bytes + remaining = Budget

\* The current stream: what was read fits the log and the budget, and what
\* was counted is what was read, except after a break.
StreamInv ==
    /\ InStream => /\ outcome = "none"
                   /\ cur \in Entries /\ logs[cur].opens /\ remaining > 0
                   /\ read <= Least(logs[cur].len, remaining)
    /\ phase = "window" => /\ ~broke /\ scanned = read
                           /\ tail <= read
                           /\ read = 0 \/ tail = Kept
    /\ phase = "ended" /\ ~broke =>
           /\ scanned = read
           /\ read = Least(logs[cur].len, remaining)
           /\ read < remaining => logs[cur].end = "eof"

\* What was examined of the current stream is a prefix of it, and nothing of
\* the logs after it has been.
SeenInv ==
    /\ InStream => \A p \in Nat : <<cur, p>> \in seen <=> p \in 1 .. scanned
    /\ phase \in {"metadata", "next"} \/ InStream =>
           \A i \in Entries, p \in Nat : i > cur => <<i, p>> \notin seen

\* No signature has been examined to its last byte.
LastUnseen ==
    outcome # "infected" =>
        \A i \in Entries :
            logs[i].sig > 0 => <<i, logs[i].sig + SigLen - 1>> \notin seen

Examined(i) ==
    /\ logs[i].opens /\ logs[i].end = "eof"
    /\ \A p \in 1 .. logs[i].len : <<i, p>> \in seen

\* While complete stands, the logs before the current one were examined whole.
WholeInv ==
    complete =>
        \A i \in Entries : (i < cur \/ (i = cur /\ ~InStream)) => Examined(i)

OutcomeInv ==
    /\ outcome = "none" <=> phase # "returned"
    /\ outcome = "clean" => cur = NumLogs
    /\ phase = "metadata" => cur = 0

IInv ==
    /\ TypeOK /\ BudgetInv /\ StreamInv /\ SeenInv /\ LastUnseen /\ WholeInv
    /\ OutcomeInv

-----------------------------------------------------------------------------
\* The overlap kept leaves at least half of every window for fresh bytes.
LEMMA KeptType == Kept \in Nat /\ Kept < Window
<1>1. CASE Overlap >= Window
  BY <1>1, SizesAssumption DEF Kept
<1>2. CASE ~(Overlap >= Window)
  BY <1>2, SizesAssumption DEF Kept
<1> QED BY <1>1, <1>2

\* Every log is a record with natural length and signature position.
LEMMA LogType ==
    ASSUME TypeOK, NEW i \in Entries
    PROVE  /\ logs[i].len \in Nat /\ logs[i].sig \in Nat
           /\ logs[i].end \in {"eof", "error"} /\ logs[i].opens \in BOOLEAN
BY LogsAssumption DEF TypeOK, Log

\* The initial state satisfies the invariant.
LEMMA InitIInv == Init => IInv
<1> SUFFICES ASSUME Init PROVE IInv
  OBVIOUS
<1> USE SizesAssumption DEF Init, Entries
<1>1. TypeOK
  <2>1. 0 \in 0 .. Budget /\ 0 \in 0 .. Window - 1 /\ 0 \in 0 .. NumLogs
        /\ 0 \in 0 .. 0 /\ Budget \in 0 .. Budget
    OBVIOUS
  <2>2. seen \subseteq Entries \X Nat
    OBVIOUS
  <2>3. tainted \in BOOLEAN /\ complete \in BOOLEAN /\ broke \in BOOLEAN
        /\ failures \in BOOLEAN
    OBVIOUS
  <2> QED BY <2>1, <2>2, <2>3 DEF TypeOK
<1>2. BudgetInv
  BY DEF BudgetInv
<1>3. StreamInv /\ SeenInv /\ OutcomeInv
  BY DEF StreamInv, SeenInv, OutcomeInv, InStream
<1>4. LastUnseen /\ WholeInv
  BY DEF LastUnseen, WholeInv, InStream
<1> QED BY <1>1, <1>2, <1>3, <1>4 DEF IInv

\* Scanning metadata.json preserves the invariant.
LEMMA ScanMetadataIInv == IInv /\ ScanMetadata => IInv'
<1> SUFFICES ASSUME IInv, ScanMetadata PROVE IInv'
  OBVIOUS
<1> USE SizesAssumption DEF ScanMetadata, Failure, stream, coverage, Entries
<1>1. TypeOK'
  <2>1. bytes' \in 0 .. Budget
    BY DEF IInv, TypeOK
  <2>3. complete' \in BOOLEAN
    BY DEF IInv, TypeOK
  <2>2. /\ phase' \in {"metadata", "next", "window", "ended", "returned"}
        /\ outcome' \in {"none", "clean", "infected", "unreadable", "failed"}
    BY DEF IInv, TypeOK
  <2> QED BY <2>1, <2>2, <2>3 DEF IInv, TypeOK
<1>2. BudgetInv' /\ StreamInv' /\ SeenInv' /\ OutcomeInv'
  BY DEF IInv, BudgetInv, StreamInv, SeenInv, OutcomeInv, InStream
<1>3. LastUnseen'
  BY DEF IInv, LastUnseen, OutcomeInv
<1>4. WholeInv'
  BY DEF IInv, WholeInv, InStream, OutcomeInv, TypeOK
<1> QED BY <1>1, <1>2, <1>3, <1>4 DEF IInv

\* Moving on to the next log, or off the end of the tar, preserves it.
LEMMA NextLogIInv == IInv /\ NextLog => IInv'
<1> SUFFICES ASSUME IInv, NextLog PROVE IInv'
  OBVIOUS
<1> USE SizesAssumption DEF NextLog, Failure, stream, coverage, Entries
<1>0. TypeOK /\ cur \in Nat
  BY DEF IInv, TypeOK
<1>1. TypeOK'
  <2>1. cur' \in 0 .. NumLogs
    BY DEF IInv, TypeOK
  <2>2. read' \in Nat /\ scanned' \in 0 .. read' /\ tail' \in 0 .. Window - 1
        /\ bytes' \in 0 .. Budget
    BY DEF IInv, TypeOK
  <2>3. broke' \in BOOLEAN /\ complete' \in BOOLEAN
    BY DEF IInv, TypeOK
  <2>4. /\ phase' \in {"metadata", "next", "window", "ended", "returned"}
        /\ outcome' \in {"none", "clean", "infected", "unreadable", "failed"}
    BY DEF IInv, TypeOK
  <2> QED BY <2>1, <2>2, <2>3, <2>4 DEF IInv, TypeOK
<1>2. BudgetInv'
  BY DEF IInv, BudgetInv, TypeOK, OutcomeInv
<1>3. StreamInv'
  <2>1. CASE phase' = "window"
    <3>1. /\ cur' \in Entries /\ logs[cur'].opens /\ remaining > 0
          /\ read' = 0 /\ tail' = 0 /\ scanned' = 0 /\ ~broke'
      BY <2>1 DEF IInv, TypeOK, Spent
    <3>2. 0 <= Least(logs[cur'].len, remaining)
      BY <3>1, <1>0, LogType DEF Least, TypeOK
    <3> QED BY <2>1, <3>1, <3>2 DEF IInv, StreamInv, InStream, OutcomeInv
  <2>2. CASE phase' # "window"
    BY <2>2 DEF StreamInv, InStream, IInv
  <2> QED BY <2>1, <2>2
<1>4. SeenInv'
  BY DEF IInv, SeenInv, TypeOK, InStream
<1>5. LastUnseen'
  BY DEF IInv, LastUnseen, OutcomeInv
<1>6. WholeInv'
  <2> SUFFICES ASSUME complete', NEW i \in Entries,
                      i < cur' \/ (i = cur' /\ ~InStream')
               PROVE  Examined(i)'
    BY DEF WholeInv
  <2>1. complete /\ ~InStream
    BY DEF InStream
  <2>2. i \in Nat /\ (i < cur \/ i = cur)
    <3>1. CASE cur' = cur
      BY <3>1, <1>0
    <3>2. CASE cur' = cur + 1 /\ InStream'
      BY <3>2, <1>0
    <3>3. cur' = cur \/ (cur' = cur + 1 /\ InStream')
      BY DEF InStream, IInv
    <3> QED BY <3>1, <3>2, <3>3
  <2>3. Examined(i)
    BY <1>0, <2>1, <2>2 DEF IInv, WholeInv
  <2> QED BY <2>3 DEF Examined
<1>7. OutcomeInv'
  BY DEF IInv, OutcomeInv, TypeOK
<1> QED BY <1>1, <1>2, <1>3, <1>4, <1>5, <1>6, <1>7 DEF IInv

\* In a stream the quantities the loop computes are natural numbers.
LEMMA StreamFacts ==
    ASSUME IInv, phase \in {"window", "ended"}
    PROVE  /\ cur \in Entries /\ cur \in Nat
           /\ logs[cur].len \in Nat /\ logs[cur].sig \in Nat
           /\ StreamBudget = remaining /\ remaining \in Nat /\ remaining > 0
           /\ read \in Nat /\ tail \in Nat /\ tail < Window
           /\ read <= logs[cur].len /\ read <= remaining
           /\ Left = Least(logs[cur].len, remaining) - read /\ Left \in Nat
           /\ Fresh \in Nat /\ Fresh <= Left /\ Fresh <= Window - tail
           /\ Fresh = Left \/ Fresh = Window - tail
<1>1. cur \in Entries /\ cur \in Nat /\ remaining \in Nat /\ remaining > 0
      /\ read \in Nat /\ tail \in Nat /\ tail < Window
      /\ read <= Least(logs[cur].len, remaining)
  BY SizesAssumption DEF IInv, TypeOK, StreamInv, InStream, Entries
<1>2. logs[cur].len \in Nat /\ logs[cur].sig \in Nat
  BY <1>1, LogType DEF IInv
<1>3. read <= logs[cur].len /\ read <= remaining
  BY <1>1, <1>2 DEF Least
<1>4. StreamBudget = remaining
  BY <1>1 DEF StreamBudget
<1>5. Left = Least(logs[cur].len, remaining) - read /\ Left \in Nat
  BY <1>1, <1>2, <1>3, <1>4 DEF Left, Least
<1>6. Fresh \in Nat /\ Fresh <= Left /\ Fresh <= Window - tail
      /\ (Fresh = Left \/ Fresh = Window - tail)
  BY <1>1, <1>5, SizesAssumption DEF Fresh, Capacity, Least
<1> QED BY <1>1, <1>2, <1>3, <1>4, <1>5, <1>6

\* A head peek that finds nothing preserves the invariant.
LEMMA PeekNothingIInv == IInv /\ PeekNothing => IInv'
<1> SUFFICES ASSUME IInv, PeekNothing PROVE IInv'
  OBVIOUS
<1> USE DEF PeekNothing, coverage
<1>1. TypeOK'
  <2>1. broke' \in BOOLEAN
    BY DEF ReadsPast
  <2> QED BY <2>1 DEF IInv, TypeOK
<1>2. StreamInv'
  <2>1. read = Least(logs[cur].len, remaining)
    BY StreamFacts DEF Least
  <2>2. ~broke' /\ read < remaining => logs[cur].end = "eof"
    <3>1. logs[cur].end \in {"eof", "error"}
      BY StreamFacts, LogType DEF IInv
    <3>2. ~broke' => ~ReadsPast(read)
      OBVIOUS
    <3> QED BY <2>1, <3>1, <3>2, StreamFacts DEF ReadsPast, Least
  <2> QED BY <2>1, <2>2 DEF IInv, StreamInv, InStream
<1>3. BudgetInv' /\ SeenInv' /\ LastUnseen' /\ OutcomeInv'
  BY DEF IInv, BudgetInv, SeenInv, LastUnseen, OutcomeInv, InStream
<1>4. WholeInv'
  BY DEF IInv, WholeInv, InStream, Examined
<1> QED BY <1>1, <1>2, <1>3, <1>4 DEF IInv

\* A window with a verdict preserves it: a signature that ends in the window
\* either starts in it, and is found, or is longer than the overlap.
LEMMA ScanWindowIInv == IInv /\ ScanWindow => IInv'
<1> SUFFICES ASSUME IInv, ScanWindow PROVE IInv'
  OBVIOUS
<1> USE DEF coverage
<1>0. /\ phase = "window" /\ outcome = "none" /\ scanned = read /\ ~broke
      /\ tail <= read /\ (read = 0 \/ tail = Kept)
      /\ Left > 0 /\ read' = read + Fresh /\ scanned' = read + Fresh
      /\ cur' = cur /\ logs' = logs
      /\ seen' = seen \cup ({cur} \X (read - tail + 1 .. read + Fresh))
  BY DEF ScanWindow, IInv, StreamInv, InStream, Counted
<1>1. /\ cur \in Entries /\ cur \in Nat /\ remaining \in Nat /\ remaining > 0
      /\ logs[cur].len \in Nat /\ logs[cur].sig \in Nat
      /\ StreamBudget = remaining
      /\ read \in Nat /\ tail \in Nat /\ tail < Window
      /\ Left = Least(logs[cur].len, remaining) - read /\ Left \in Nat
      /\ Fresh \in Nat /\ Fresh <= Left /\ Fresh <= Window - tail
      /\ Fresh = Left \/ Fresh = Window - tail
  BY <1>0, StreamFacts
<1>2. Window \in Nat /\ Window > 0 /\ SigLen \in Nat /\ SigLen > 0
      /\ Kept \in Nat /\ Kept < Window /\ SigLen - 1 <= Kept
      /\ 2 * Kept <= Window /\ Budget \in Nat
  BY SizesAssumption, GeometryAssumption, KeptType
<1>3. Fresh > 0 /\ read + Fresh <= Least(logs[cur].len, remaining)
  <2>1. Least(logs[cur].len, remaining) \in Nat
    BY <1>1 DEF Least
  <2> QED BY <1>0, <1>1, <1>2, <2>1
<1>4. bytes \in Nat /\ bytes + remaining = Budget
  BY <1>0, SizesAssumption DEF IInv, TypeOK, BudgetInv
<1>5. read + Fresh <= remaining
  BY <1>1, <1>3 DEF Least
<1>6. \A p \in Nat : <<cur, p>> \in seen' <=> p \in 1 .. read + Fresh
  <2>1. \A p \in Nat : <<cur, p>> \in seen <=> p \in 1 .. read
    BY <1>0 DEF IInv, SeenInv, InStream
  <2>2. \A p \in Nat : <<cur, p>> \in seen' <=>
          <<cur, p>> \in seen \/ p \in read - tail + 1 .. read + Fresh
    BY <1>0
  <2>3. \A p \in Nat : p \in 1 .. read + Fresh <=>
          p \in 1 .. read \/ p \in read - tail + 1 .. read + Fresh
    BY <1>0, <1>1
  <2> QED BY <2>1, <2>2, <2>3
<1>7. \A i \in Entries, p \in Nat :
        i # cur => (<<i, p>> \in seen' <=> <<i, p>> \in seen)
  BY <1>0
<1>8. /\ logs' \in [Entries -> Logs] /\ tainted' \in BOOLEAN
      /\ cur' \in 0 .. NumLogs /\ read' \in Nat /\ scanned' \in 0 .. read'
      /\ seen' \subseteq Entries \X Nat
      /\ failures' \in BOOLEAN
  <2>1. {cur} \X (read - tail + 1 .. read + Fresh) \subseteq Entries \X Nat
    BY <1>0, <1>1
  <2>2. read' \in Nat /\ scanned' \in 0 .. read'
    BY <1>0, <1>1
  <2> QED BY <1>0, <2>1, <2>2 DEF ScanWindow, IInv, TypeOK
<1>9. CASE Infected
  <2>1. /\ phase' = "returned" /\ outcome' = "infected" /\ complete' = FALSE
        /\ bytes' = bytes + (read + Fresh)
        /\ remaining' = remaining - (read + Fresh)
        /\ tail' = tail /\ broke' = broke
    BY <1>0, <1>9 DEF ScanWindow
  <2>2. bytes' \in 0 .. Budget /\ remaining' \in 0 .. Budget
    BY <1>1, <1>2, <1>4, <1>5, <2>1
  <2>3. TypeOK'
    BY <1>8, <2>1, <2>2 DEF IInv, TypeOK
  <2>4. BudgetInv' /\ StreamInv' /\ SeenInv' /\ LastUnseen' /\ WholeInv'
    BY <2>1 DEF BudgetInv, StreamInv, SeenInv, LastUnseen, WholeInv, InStream
  <2>5. OutcomeInv'
    BY <2>1 DEF OutcomeInv
  <2> QED BY <2>3, <2>4, <2>5 DEF IInv
<1>10. CASE ~Infected
  <2>1. /\ phase' = IF Short THEN "ended" ELSE "window"
        /\ tail' = Carried /\ outcome' = "none" /\ bytes' = bytes
        /\ complete' = complete /\ remaining' = remaining /\ ~broke'
        /\ Short => ~ReadsPast(read + Fresh)
    BY <1>0, <1>10 DEF ScanWindow
  <2>2. tail' \in Nat /\ tail' <= Kept /\ tail' <= Fresh
        /\ (Fresh < Kept \/ tail' = Kept)
    BY <1>1, <1>2, <2>1 DEF Carried, Least
  <2>3. broke' \in BOOLEAN
    BY <1>0, <1>10 DEF ScanWindow, IInv, TypeOK
  <2>4. TypeOK'
    <3>1. tail' \in 0 .. Window - 1
      BY <1>2, <2>2
    <3>2. phase' \in {"metadata", "next", "window", "ended", "returned"}
      BY <2>1
    <3> QED BY <1>8, <2>1, <2>3, <3>1, <3>2 DEF IInv, TypeOK
  <2>5. BudgetInv' /\ OutcomeInv'
    BY <1>0, <2>1 DEF IInv, BudgetInv, OutcomeInv
  <2>6. StreamInv'
    <3>1. logs[cur].opens /\ logs[cur].end \in {"eof", "error"}
      BY <1>0, <1>1, LogType DEF IInv, StreamInv, InStream
    <3>2. CASE Short
      <4>1. Fresh = Left
        BY <1>1, <3>2 DEF Short, Capacity
      <4>2. read + Fresh = Least(logs[cur].len, remaining)
        BY <1>1, <4>1 DEF Least
      <4>3. read + Fresh < remaining => logs[cur].end = "eof"
        BY <1>1, <2>1, <3>1, <3>2, <4>2 DEF ReadsPast, Least
      <4> QED BY <1>0, <1>1, <2>1, <3>1, <3>2, <4>2, <4>3, <1>3
              DEF StreamInv, InStream
    <3>3. CASE ~Short
      <4>1. Fresh = Window - tail
        BY <1>1, <1>2, <3>3 DEF Short, Capacity
      <4>2. tail <= Kept
        BY <1>0, <1>1, <1>2
      <4>3. Fresh >= Kept
        BY <1>1, <1>2, <4>1, <4>2
      <4>4. tail' = Kept
        BY <1>1, <1>2, <2>2, <4>3
      <4>5. tail' <= read'
        BY <1>0, <1>1, <1>2, <2>2
      <4> QED BY <1>0, <1>1, <1>3, <2>1, <3>1, <3>3, <4>4, <4>5
              DEF StreamInv, InStream
    <3> QED BY <3>2, <3>3
  <2>7. SeenInv'
    <3>1. \A p \in Nat : <<cur', p>> \in seen' <=> p \in 1 .. scanned'
      BY <1>0, <1>6
    <3>2. \A i \in Entries, p \in Nat : i > cur' => <<i, p>> \notin seen'
      BY <1>0, <1>1, <1>7 DEF IInv, SeenInv, InStream
    <3> QED BY <3>1, <3>2 DEF SeenInv
  <2>8. LastUnseen'
    <3> SUFFICES ASSUME NEW i \in Entries, logs[i].sig > 0
                 PROVE  <<i, logs[i].sig + SigLen - 1>> \notin seen'
      BY <1>0, <2>1 DEF LastUnseen
    <3>1. logs[i].sig \in Nat /\ logs[i].sig + SigLen - 1 \in Nat
      BY <1>2, LogType DEF IInv
    <3>2. <<i, logs[i].sig + SigLen - 1>> \notin seen
      BY <1>0 DEF IInv, LastUnseen
    <3>3. CASE i # cur
      BY <1>7, <3>1, <3>2, <3>3
    <3>4. CASE i = cur
      <4>1. ~(logs[cur].sig + SigLen - 1 \in 1 .. read)
        BY <1>0, <3>1, <3>2, <3>4 DEF IInv, SeenInv, InStream
      <4>2. logs[cur].sig + SigLen - 1 > read
        BY <1>1, <1>2, <3>1, <3>4, <4>1
      <4>3. logs[cur].sig <= read - tail \/ logs[cur].sig + SigLen - 1 > read + Fresh
        BY <1>1, <1>2, <1>10, <3>4 DEF Infected
      <4>4. logs[cur].sig + SigLen - 1 > read + Fresh
        <5>1. CASE read = 0
          BY <1>0, <1>1, <1>2, <3>4, <4>3, <5>1
        <5>2. CASE tail = Kept
          <6>1. ~(logs[cur].sig <= read - tail)
            BY <1>1, <1>2, <4>2, <5>2
          <6> QED BY <4>3, <6>1
        <5> QED BY <1>0, <5>1, <5>2
      <4> QED BY <1>1, <1>6, <3>1, <3>4, <4>4
    <3> QED BY <3>3, <3>4
  <2>9. WholeInv'
    <3> SUFFICES ASSUME complete', NEW i \in Entries, i < cur
                 PROVE  Examined(i)'
      BY <1>0, <2>1 DEF WholeInv, InStream
    <3>1. Examined(i)
      BY <2>1 DEF IInv, WholeInv
    <3> QED BY <1>0, <3>1 DEF Examined
  <2> QED BY <2>4, <2>5, <2>6, <2>7, <2>8, <2>9 DEF IInv
<1> QED BY <1>9, <1>10

\* A window the source breaks in preserves it.
LEMMA WindowBreaksIInv == IInv /\ WindowBreaks => IInv'
<1> SUFFICES ASSUME IInv, WindowBreaks PROVE IInv'
  OBVIOUS
<1> USE DEF WindowBreaks, coverage
<1>1. /\ Fresh \in Nat /\ read \in Nat /\ read' = read + Fresh
      /\ read' <= Least(logs[cur].len, remaining)
  BY StreamFacts DEF Least
<1>2. TypeOK'
  <2>1. read' \in Nat /\ scanned' \in 0 .. read'
    BY <1>1 DEF IInv, TypeOK
  <2>2. failures' \in BOOLEAN /\ broke' \in BOOLEAN
    BY DEF IInv, TypeOK
  <2> QED BY <2>1, <2>2 DEF IInv, TypeOK
<1>3. StreamInv'
  BY <1>1 DEF IInv, StreamInv, InStream
<1>4. BudgetInv' /\ SeenInv' /\ LastUnseen' /\ OutcomeInv'
  BY DEF IInv, BudgetInv, SeenInv, LastUnseen, OutcomeInv, InStream
<1>5. WholeInv'
  BY DEF IInv, WholeInv, InStream, Examined
<1> QED BY <1>2, <1>3, <1>4, <1>5 DEF IInv

\* A failure of the scanner preserves it.
LEMMA ScannerFailsIInv == IInv /\ ScannerFails => IInv'
<1> SUFFICES ASSUME IInv, ScannerFails PROVE IInv'
  OBVIOUS
<1> USE SizesAssumption DEF ScannerFails, Failure, stream
<1>1. TypeOK'
  <2>1. bytes' \in 0 .. Budget
    OBVIOUS
  <2>2. complete' \in BOOLEAN /\ failures' \in BOOLEAN
    OBVIOUS
  <2> QED BY <2>1, <2>2 DEF IInv, TypeOK
<1>2. BudgetInv' /\ StreamInv' /\ SeenInv' /\ OutcomeInv' /\ WholeInv'
  BY DEF BudgetInv, StreamInv, SeenInv, OutcomeInv, WholeInv, InStream
<1>3. LastUnseen'
  BY DEF IInv, LastUnseen, OutcomeInv
<1> QED BY <1>1, <1>2, <1>3 DEF IInv

\* Adding a finished stream to the coverage preserves it.
LEMMA StreamEndsIInv == IInv /\ StreamEnds => IInv'
<1> SUFFICES ASSUME IInv, StreamEnds PROVE IInv'
  OBVIOUS
<1> USE DEF StreamEnds, stream
<1>1. /\ scanned \in Nat /\ scanned <= remaining /\ remaining \in Nat
      /\ bytes \in Nat /\ bytes + remaining = Budget /\ Budget \in Nat
  BY StreamFacts, SizesAssumption DEF IInv, TypeOK, BudgetInv, StreamInv, InStream
<1>2. TypeOK'
  <2>1. bytes' \in 0 .. Budget /\ remaining' \in 0 .. Budget
    BY <1>1
  <2>2. complete' \in BOOLEAN
    BY DEF IInv, TypeOK
  <2> QED BY <2>1, <2>2 DEF IInv, TypeOK
<1>3. BudgetInv'
  BY <1>1 DEF BudgetInv
<1>4. StreamInv' /\ SeenInv' /\ LastUnseen' /\ OutcomeInv'
  BY DEF IInv, StreamInv, SeenInv, LastUnseen, OutcomeInv, InStream
<1>5. WholeInv'
  <2> SUFFICES ASSUME complete', NEW i \in Entries, i < cur \/ i = cur
               PROVE  Examined(i)'
    BY DEF WholeInv, InStream
  <2>1. complete /\ ReachedEnd
    OBVIOUS
  <2>2. CASE i < cur
    BY <2>1, <2>2 DEF IInv, WholeInv, Examined
  <2>3. CASE i = cur
    <3>1. ~broke /\ scanned = read /\ read = Least(logs[cur].len, remaining)
          /\ logs[cur].opens /\ (read < remaining => logs[cur].end = "eof")
      BY <2>1 DEF IInv, StreamInv, InStream, ReachedEnd
    <3>2. logs[cur].end = "eof" /\ read = logs[cur].len
      BY <2>1, <3>1, StreamFacts DEF ReachedEnd, Least
    <3>3. \A p \in 1 .. logs[cur].len : <<cur, p>> \in seen
      BY <3>1, <3>2 DEF IInv, SeenInv, InStream
    <3> QED BY <2>3, <3>1, <3>2, <3>3 DEF Examined
  <2> QED BY <2>2, <2>3
<1> QED BY <1>2, <1>3, <1>4, <1>5 DEF IInv

-----------------------------------------------------------------------------
\* The invariant holds in every reachable state.
LEMMA Invariance == Spec => []IInv
<1>1. IInv /\ [Next]_vars => IInv'
  <2> SUFFICES ASSUME IInv, [Next]_vars PROVE IInv'
    OBVIOUS
  <2>1. CASE UNCHANGED vars
    BY <2>1 DEF vars, stream, coverage, IInv, TypeOK, BudgetInv, StreamInv,
       SeenInv, LastUnseen, WholeInv, OutcomeInv, InStream, Examined
  <2>2. CASE Return
    BY <2>1, <2>2 DEF Return
  <2> QED BY <2>1, <2>2, ScanMetadataIInv, NextLogIInv, PeekNothingIInv,
             ScanWindowIInv, WindowBreaksIInv, ScannerFailsIInv,
             StreamEndsIInv DEF Next
<1> QED BY <1>1, InitIInv, PTL DEF Spec

(***************************************************************************)
(* Type correctness, with its bounds: the counted bytes never exceed the   *)
(* budget the logs share, and every window has room for a fresh byte.      *)
(***************************************************************************)
THEOREM ScanTypeCorrect == Spec => []TypeOK
<1>1. IInv => TypeOK
  BY DEF IInv
<1> QED BY <1>1, Invariance, PTL

(***************************************************************************)
(* No window size, overlap or budget lets a signature slip between two     *)
(* windows of ScanStream, as long as the overlap is at least one byte less *)
(* than the signature and at most half a window.                           *)
(***************************************************************************)
THEOREM NoSignatureMissed == Spec => []NoneMissed
<1>1. IInv => NoneMissed
  <2> SUFFICES ASSUME IInv, outcome = "clean", NEW i \in Entries,
                      logs[i].sig > 0, {i} \X Sig(i) \subseteq seen
               PROVE  FALSE
    BY DEF NoneMissed
  <2>1. logs[i].sig + SigLen - 1 \in Sig(i)
    BY LogType, SizesAssumption DEF Sig, IInv
  <2>2. <<i, logs[i].sig + SigLen - 1>> \in seen
    BY <2>1
  <2> QED BY <2>2 DEF IInv, LastUnseen
<1> QED BY <1>1, Invariance, PTL

(***************************************************************************)
(* scanArchive claims complete coverage only when every byte of every log  *)
(* came back with a verdict.                                               *)
(***************************************************************************)
THEOREM CompleteMeansAll == Spec => []CompleteIsTruthful
<1>1. IInv => CompleteIsTruthful
  <2> SUFFICES ASSUME IInv, outcome = "clean", complete, NEW i \in Entries
               PROVE  /\ logs[i].opens /\ logs[i].end = "eof"
                      /\ {i} \X (1 .. logs[i].len) \subseteq seen
    BY DEF CompleteIsTruthful
  <2>1. i < cur \/ (i = cur /\ ~InStream)
    BY SizesAssumption DEF IInv, OutcomeInv, InStream, Entries
  <2>2. Examined(i)
    BY <2>1 DEF IInv, WholeInv
  <2> QED BY <2>2 DEF Examined
<1> QED BY <1>1, Invariance, PTL

-----------------------------------------------------------------------------
(***************************************************************************)
(* The scanner's failures and the count of bytes, each on top of IInv.     *)
(***************************************************************************)

\* A failure that did not end the scan hid behind an error of a log, and has
\* cost the claim of complete coverage, or will when the stream ends.
FailInv ==
    failures /\ outcome \in {"none", "clean"} =>
        /\ \E i \in Entries : logs[i].end = "error"
        /\ ~complete \/ (phase = "ended" /\ broke)

LEMMA NextFailInv == IInv /\ FailInv /\ [Next]_vars => FailInv'
<1> SUFFICES ASSUME IInv, FailInv, [Next]_vars PROVE FailInv'
  OBVIOUS
<1> USE DEF FailInv
<1>1. CASE ScanMetadata
  BY <1>1 DEF ScanMetadata, Failure, stream, coverage
<1>2. CASE NextLog
  BY <1>2 DEF NextLog, Failure, stream, coverage, IInv, OutcomeInv
<1>3. CASE PeekNothing
  BY <1>3 DEF PeekNothing, coverage
<1>4. CASE ScanWindow
  BY <1>4 DEF ScanWindow, coverage
<1>5. CASE WindowBreaks
  <2>1. cur \in Entries /\ logs[cur].end = "error"
    BY <1>5, StreamFacts DEF WindowBreaks, LastByte
  <2> QED BY <1>5, <2>1 DEF WindowBreaks, coverage
<1>6. CASE ScannerFails
  BY <1>6 DEF ScannerFails, Failure
<1>7. CASE StreamEnds
  BY <1>7 DEF StreamEnds, ReachedEnd, stream
<1>8. CASE Return \/ UNCHANGED vars
  BY <1>8 DEF Return, vars, coverage, stream
<1> QED BY <1>1, <1>2, <1>3, <1>4, <1>5, <1>6, <1>7, <1>8 DEF Next

(***************************************************************************)
(* A failure of the scanner is never taken for a clean scan of logs that   *)
(* are themselves sound, wherever in a window it comes.                    *)
(***************************************************************************)
THEOREM ScannerFailsClosed == Spec => []FailsClosed
<1>1. Init => FailInv
  BY DEF Init, FailInv
<1>2. FailInv /\ IInv => FailsClosed
  BY DEF FailInv, FailsClosed, IInv, OutcomeInv
<1> QED BY <1>1, <1>2, NextFailInv, Invariance, PTL DEF Spec

-----------------------------------------------------------------------------
\* What counts so far: the coverage of the finished streams, and the current
\* stream's own.
Counting == bytes + (IF InStream THEN scanned ELSE 0)

CountInv ==
    /\ IsFiniteSet(seen)
    /\ outcome \in {"none", "clean", "infected"} => Counting = Cardinality(seen)
    /\ phase = "metadata" => seen = {}

\* n positions of one log, after the first a, are as many pairs.
Pairs(c, a, n) == {c} \X (a + 1 .. a + n)

LEMMA PairsCount ==
    ASSUME NEW c, NEW a \in Nat, NEW n \in Nat
    PROVE  IsFiniteSet(Pairs(c, a, n)) /\ Cardinality(Pairs(c, a, n)) = n
<1>1. IsFiniteSet({c}) /\ Cardinality({c}) = 1
  BY FS_Singleton
<1>2. IsFiniteSet(a + 1 .. a + n) /\ Cardinality(a + 1 .. a + n) = n
  <2>1. a + 1 \in Int /\ a + n \in Int
    OBVIOUS
  <2>2. IsFiniteSet(a + 1 .. a + n) /\ Cardinality(a + 1 .. a + n)
          = IF a + 1 > a + n THEN 0 ELSE (a + n) - (a + 1) + 1
    BY <2>1, FS_Interval
  <2>3. (IF a + 1 > a + n THEN 0 ELSE (a + n) - (a + 1) + 1) = n
    OBVIOUS
  <2> QED BY <2>2, <2>3
<1>3. /\ IsFiniteSet({c} \X (a + 1 .. a + n))
      /\ Cardinality({c} \X (a + 1 .. a + n))
           = Cardinality({c}) * Cardinality(a + 1 .. a + n)
  BY <1>1, <1>2, FS_Product
<1> QED BY <1>1, <1>2, <1>3 DEF Pairs

\* A window adds its fresh bytes to what was seen, the overlap being in it.
LEMMA WindowCounts ==
    ASSUME IInv, CountInv, ScanWindow
    PROVE  /\ IsFiniteSet(seen')
           /\ Cardinality(seen') = bytes + (read + Fresh)
<1>0. /\ phase = "window" /\ outcome = "none" /\ scanned = read
      /\ tail <= read /\ Left > 0
      /\ seen' = seen \cup ({cur} \X (read - tail + 1 .. read + Fresh))
  BY DEF ScanWindow, IInv, StreamInv, InStream
<1>1. /\ cur \in Entries /\ read \in Nat /\ tail \in Nat /\ Fresh \in Nat
      /\ bytes \in Nat
  BY <1>0, StreamFacts, SizesAssumption DEF IInv, TypeOK
<1>2. \A p \in Nat : <<cur, p>> \in seen <=> p \in 1 .. read
  BY <1>0 DEF IInv, SeenInv, InStream
<1> DEFINE New == Pairs(cur, read, Fresh)
<1>3. seen' = seen \cup New
  <2>1. \A p \in Nat : p \in read - tail + 1 .. read + Fresh =>
            p \in 1 .. read \/ p \in read + 1 .. read + Fresh
    BY <1>0, <1>1
  <2>2. \A p : p \in read + 1 .. read + Fresh => p \in read - tail + 1 .. read + Fresh
    BY <1>0, <1>1
  <2>3. \A p : p \in read - tail + 1 .. read + Fresh => p \in Nat
    BY <1>0, <1>1
  <2>4. \A p : p \in read - tail + 1 .. read + Fresh => <<cur, p>> \in seen \cup New
    BY <1>2, <2>1, <2>3 DEF Pairs
  <2>5. {cur} \X (read - tail + 1 .. read + Fresh) \subseteq seen \cup New
    BY <2>4
  <2>6. New \subseteq {cur} \X (read - tail + 1 .. read + Fresh)
    BY <2>2 DEF Pairs
  <2> HIDE DEF New
  <2> QED BY <1>0, <2>5, <2>6
<1>4. seen \cap New = {}
  <2>1. \A p : p \in read + 1 .. read + Fresh => p \in Nat /\ p \notin 1 .. read
    BY <1>1
  <2> QED BY <1>2, <2>1 DEF Pairs
<1>5. IsFiniteSet(New) /\ Cardinality(New) = Fresh
  BY <1>1, PairsCount
<1>6. IsFiniteSet(seen) /\ Cardinality(seen) = bytes + read
  BY <1>0 DEF CountInv, Counting, InStream
<1> HIDE DEF New
<1>7. IsFiniteSet(seen \cup New) /\ Cardinality(seen \cup New)
        = Cardinality(seen) + Cardinality(New) - Cardinality(seen \cap New)
  BY <1>5, <1>6, FS_Union
<1>8. Cardinality(seen \cap New) = 0
  BY <1>4, FS_EmptySet
<1> QED BY <1>1, <1>3, <1>5, <1>6, <1>7, <1>8

LEMMA NextCountInv == IInv /\ CountInv /\ [Next]_vars => CountInv'
<1> SUFFICES ASSUME IInv, CountInv, [Next]_vars PROVE CountInv'
  OBVIOUS
<1>0. bytes \in Nat /\ scanned \in Nat
  BY SizesAssumption DEF IInv, TypeOK
<1> USE DEF CountInv, Counting, InStream
<1>1. CASE ScanMetadata
  <2>1. seen' = seen /\ seen = {} /\ Cardinality(seen) = 0
    BY <1>1, FS_EmptySet DEF ScanMetadata
  <2> QED BY <1>0, <1>1, <2>1 DEF ScanMetadata, Failure, stream, coverage
<1>2. CASE NextLog
  BY <1>0, <1>2 DEF NextLog, Failure, stream, coverage, IInv, OutcomeInv
<1>3. CASE PeekNothing
  BY <1>3 DEF PeekNothing, coverage
<1>4. CASE ScanWindow
  <2>1. IsFiniteSet(seen') /\ Cardinality(seen') = bytes + (read + Fresh)
    BY <1>4, WindowCounts
  <2>2. scanned' = read + Fresh /\ read \in Nat /\ Fresh \in Nat
    BY <1>4, StreamFacts DEF ScanWindow, Counted, IInv, StreamInv
  <2>3. CASE Infected
    BY <1>0, <1>4, <2>1, <2>2, <2>3 DEF ScanWindow
  <2>4. CASE ~Infected
    BY <1>0, <1>4, <2>1, <2>2, <2>4 DEF ScanWindow, coverage
  <2> QED BY <2>3, <2>4
<1>5. CASE WindowBreaks
  BY <1>5 DEF WindowBreaks, coverage
<1>6. CASE ScannerFails
  BY <1>6 DEF ScannerFails, Failure
<1>7. CASE StreamEnds
  BY <1>0, <1>7 DEF StreamEnds, stream
<1>8. CASE Return \/ UNCHANGED vars
  BY <1>8 DEF Return, vars, coverage, stream
<1> QED BY <1>1, <1>2, <1>3, <1>4, <1>5, <1>6, <1>7, <1>8 DEF Next

(***************************************************************************)
(* The number of bytes reported is the number of bytes that came back with *)
(* a verdict, no byte counted twice for lying in two windows, and at most  *)
(* the budget.                                                             *)
(***************************************************************************)
THEOREM BytesAreCounted == Spec => []BytesAreExact
<1>1. Init => CountInv
  BY FS_EmptySet DEF Init, CountInv, Counting, InStream
<1>2. IInv /\ CountInv => BytesAreExact
  <2> SUFFICES ASSUME IInv, CountInv PROVE BytesAreExact
    OBVIOUS
  <2>1. bytes \in Nat /\ bytes <= Budget
    BY SizesAssumption DEF IInv, TypeOK
  <2>2. outcome \in {"clean", "infected"} => ~InStream
    BY DEF IInv, StreamInv
  <2> QED BY <2>1, <2>2 DEF CountInv, Counting, BytesAreExact
<1> QED BY <1>1, <1>2, NextCountInv, Invariance, PTL DEF Spec
=============================================================================
