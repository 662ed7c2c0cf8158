------------------------ MODULE SubmissionsProofs ------------------------
(***************************************************************************)
(* The safety of the submission stores for any number of requests, admins, *)
(* filenames, uploads and failures, on either storage backend.             *)
(***************************************************************************)
EXTENDS Submissions, TLAPS

(***************************************************************************)
(* The inductive invariant: what each handler may rely on at each of its   *)
(* steps, although the others run in between.                              *)
(***************************************************************************)
Valid(r) ==
    /\ up[r].session # None /\ up[r].file # None /\ up[r].shape = "ok"
    /\ up[r].owner = up[r].session /\ up[r].moniker

Accepted == {"storing", "copying", "config", "checking", "scoring", "recording"}
Stored == {"config", "checking", "scoring", "recording"}

\* A request past validation is valid; past the scan, vetted.
RequestInv ==
    \A r \in Requests :
        /\ pc[r] = "validating" => up[r].session # None /\ up[r].file # None
        /\ pc[r] \in Accepted \cup {"scanning"} => Valid(r)
        /\ pc[r] \in Accepted => Vetted(r)
        /\ pc[r] = "scanning" => Scanning
        /\ scan[r] # None => Scanning
        /\ result[r] # None => result[r].irq = None
        /\ pc[r] \in {"checking", "scoring"} => result[r] # None

\* A request is listed only once its handler is through, and its record is
\* not written before its last but one step.
ListedInv ==
    \A r \in Requests :
        /\ r \in logged \cup removed => pc[r] = "done" /\ Vetted(r)
        /\ pc[r] \notin {"recording", "done", "dead"} => scores[r] = None

\* An archive is under its owner's filename; it is whole once Save returned,
\* and a listed submission's Save did return.
ArchiveInv ==
    \A r \in Requests, f \in Files :
        Owns(f, r) =>
            /\ f = up[r].file
            /\ pc[r] \notin {"new", "validating", "scanning"}
            /\ Local => pc[r] # "storing"
            /\ pc[r] \in Stored \/ r \in logged => archives[f].whole

\* A delete handler works on a submission that was listed, and once past the
\* archive the submission owns none.
DeleterInv ==
    \A d \in Deleters :
        dpc[d] # "idle" =>
            /\ did[d] \in logged \cup removed
            /\ dpc[d] \in {"score", "entry"} =>
                  \A f \in Files : ~Owns(f, did[d])

\* A score handler works on a submission that was listed; the record it will
\* write back has an automatic half, and the score is one an admin entered.
ScorerInv ==
    \A s \in Scorers :
        /\ spc[s] # "idle" => sid[s] \in logged \cup removed /\ sirq[s] \in IRQs
        /\ spc[s] = "set" => ssnap[s] # None /\ ssnap[s].scored

Safety == OnlyVettedIsKept /\ ManualNeedsAutomatic /\ NoStrandedArchive

IInv == /\ TypeOK /\ RequestInv /\ ListedInv /\ ArchiveInv
        /\ DeleterInv /\ ScorerInv /\ Safety

-----------------------------------------------------------------------------
(* Initial states, then one lemma per action. *)

LEMMA InitIInv == Init => IInv
<1> SUFFICES ASSUME Init PROVE IInv
    OBVIOUS
<1> USE DEF Init
<1>1. TypeOK
  <2>1. faults \in 0 .. MaxFaults
      BY FaultsAssumption
  <2> QED
      BY <2>1, ZenonT(60) DEF TypeOK, ReqPC, Statuses
<1>2. RequestInv
    BY DEF RequestInv, Accepted
<1>3. ListedInv
    BY DEF ListedInv
<1>4. ArchiveInv /\ NoStrandedArchive
    BY DEF ArchiveInv, NoStrandedArchive, Owns
<1>5. DeleterInv /\ ScorerInv
    BY DEF DeleterInv, ScorerInv
<1>6. OnlyVettedIsKept /\ ManualNeedsAutomatic
    BY DEF OnlyVettedIsKept, ManualNeedsAutomatic, Owns
<1> QED
    BY <1>1, <1>2, <1>3, <1>4, <1>5, <1>6 DEF IInv, Safety

LEMMA FaultBound == ASSUME TypeOK, Fault PROVE faults' \in 0 .. MaxFaults
    BY FaultsAssumption DEF TypeOK, Fault

\* Storing an archive keeps the type of the store.
LEMMA PutType ==
    ASSUME TypeOK, NEW f, NEW r \in Requests, NEW w \in BOOLEAN
    PROVE  [archives EXCEPT ![f] = [owner |-> r, whole |-> w]]
              \in [Files -> Archive \cup {None}]
    BY DEF TypeOK, Archive

\* The submit handler.
LEMMA ResultType ==
    ASSUME NEW b \in BOOLEAN PROVE [scored |-> b, irq |-> None] \in Result
    BY DEF Result

LEMMA ReceiveIInv == ASSUME IInv, NEW r \in Requests, Receive(r) PROVE IInv'
<1> USE DEF IInv, Safety, Receive, Authenticated, FormReadable, FilenameValid, Answer, Goto, storeVars, delVars, scoreVars, viewVars
<1>1. TypeOK'
    BY DEF TypeOK, ReqPC, Statuses
<1>2. RequestInv'
    BY DEF RequestInv, TypeOK, Valid, Vetted, Accepted
<1>3. ListedInv'
    BY DEF ListedInv, TypeOK, Vetted
<1>4. ArchiveInv'
    BY DEF ArchiveInv, TypeOK, Owns, Stored
<1>5. DeleterInv'
    BY DEF DeleterInv, TypeOK, Owns
<1>6. ScorerInv'
    BY DEF ScorerInv, TypeOK
<1>7. OnlyVettedIsKept'
    BY DEF OnlyVettedIsKept, TypeOK, Owns, Vetted
<1>8. ManualNeedsAutomatic'
    BY DEF ManualNeedsAutomatic, TypeOK
<1>9. NoStrandedArchive'
    BY DEF NoStrandedArchive, TypeOK, Owns
<1> QED
    BY <1>1, <1>2, <1>3, <1>4, <1>5, <1>6, <1>7, <1>8, <1>9

LEMMA ValidateIInv == ASSUME IInv, NEW r \in Requests, Validate(r) PROVE IInv'
<1> USE DEF IInv, Safety, Validate, ArchiveValid, MetadataValid, Answer, Goto, AfterValidation, storeVars, delVars, scoreVars, viewVars
<1>1. TypeOK'
    BY DEF TypeOK, ReqPC, Statuses
<1>2. RequestInv'
  <2>1. \A q \in Requests : (Valid(q)' <=> Valid(q)) /\ (Vetted(q)' <=> Vetted(q))
      BY DEF Valid, Vetted
  <2>0. up[r].shape \in {"ok", "badarchive", "badmetadata"}
      BY UploadsAssumption DEF TypeOK, Upload
  <2>2. pc'[r] \in Accepted \cup {"scanning"} => Valid(r)
      BY <2>0 DEF RequestInv, TypeOK, Valid, Accepted, IdentityProved, MonikerMatches
  <2>3. pc'[r] \in Accepted => ~Scanning
      BY DEF TypeOK, Accepted
  <2>4. pc'[r] = "scanning" => Scanning
      BY DEF TypeOK
  <2>5. Valid(r) /\ ~Scanning => Vetted(r)
      BY DEF RequestInv, Valid, Vetted
  <2> QED
      BY <2>1, <2>2, <2>3, <2>4, <2>5 DEF RequestInv, TypeOK
<1>3. ListedInv'
    BY DEF ListedInv, TypeOK, Vetted
<1>4. ArchiveInv'
    BY DEF ArchiveInv, TypeOK, Owns, Stored
<1>5. DeleterInv'
    BY DEF DeleterInv, TypeOK, Owns
<1>6. ScorerInv'
    BY DEF ScorerInv, TypeOK
<1>7. OnlyVettedIsKept'
    BY DEF OnlyVettedIsKept, TypeOK, Owns, Vetted
<1>8. ManualNeedsAutomatic'
    BY DEF ManualNeedsAutomatic, TypeOK
<1>9. NoStrandedArchive'
    BY DEF NoStrandedArchive, TypeOK, Owns
<1> QED
    BY <1>1, <1>2, <1>3, <1>4, <1>5, <1>6, <1>7, <1>8, <1>9

LEMMA ScanIInv == ASSUME IInv, NEW r \in Requests, Scan(r) PROVE IInv'
<1> USE DEF IInv, Safety, Scan, Answer, Goto, Accepts, Fault, storeVars, delVars, scoreVars, viewVars
<1>1. TypeOK'
    BY FaultBound, SMTT(30) DEF TypeOK, ReqPC, Statuses, Rejection
<1>2. RequestInv'
    BY DEF RequestInv, TypeOK, Valid, Vetted, Accepted
<1>3. ListedInv'
    BY DEF ListedInv, TypeOK, Vetted
<1>4. ArchiveInv'
    BY DEF ArchiveInv, TypeOK, Owns, Stored
<1>5. DeleterInv'
    BY DEF DeleterInv, TypeOK, Owns
<1>6. ScorerInv'
    BY DEF ScorerInv, TypeOK
<1>7. OnlyVettedIsKept'
    BY DEF OnlyVettedIsKept, TypeOK, Owns, Vetted, RequestInv
<1>8. ManualNeedsAutomatic'
    BY DEF ManualNeedsAutomatic, TypeOK
<1>9. NoStrandedArchive'
    BY DEF NoStrandedArchive, TypeOK, Owns
<1> QED
    BY <1>1, <1>2, <1>3, <1>4, <1>5, <1>6, <1>7, <1>8, <1>9

LEMMA SaveOpenIInv == ASSUME IInv, NEW r \in Requests, SaveOpen(r) PROVE IInv'
<1> USE DEF IInv, Safety, SaveOpen, Answer, Goto, Fault, Creatable, delVars, scoreVars, viewVars
<1>1. TypeOK'
  <2>1. pc' \in [Requests -> ReqPC] /\ status' \in [Requests -> Statuses]
      BY DEF TypeOK, ReqPC, Statuses
  <2>2. faults' \in 0 .. MaxFaults
      BY FaultBound DEF TypeOK
  <2>3. archives' \in [Files -> Archive \cup {None}]
    <3>1. [archives EXCEPT ![up[r].file] = [owner |-> r, whole |-> FALSE]]
             \in [Files -> Archive \cup {None}]
        BY PutType, ZenonT(60)
    <3>2. \/ archives' = archives
          \/ archives' = [archives EXCEPT ![up[r].file] = [owner |-> r, whole |-> FALSE]]
        OBVIOUS
    <3>3. archives \in [Files -> Archive \cup {None}]
        BY DEF TypeOK
    <3> QED
        BY <3>1, <3>2, <3>3, ZenonT(60)
  <2> QED
      BY <2>1, <2>2, <2>3 DEF TypeOK
<1>2. RequestInv'
    BY DEF RequestInv, TypeOK, Valid, Vetted, Accepted
<1>3. ListedInv'
    BY DEF ListedInv, TypeOK, Vetted
<1>4. ArchiveInv'
    BY DEF ArchiveInv, TypeOK, Owns, Stored, ListedInv
<1>5. DeleterInv'
    BY DEF DeleterInv, TypeOK, Owns, ListedInv
<1>6. ScorerInv'
    BY DEF ScorerInv, TypeOK
<1>7. OnlyVettedIsKept'
    BY DEF OnlyVettedIsKept, TypeOK, Owns, Vetted, RequestInv, Accepted
<1>8. ManualNeedsAutomatic'
    BY DEF ManualNeedsAutomatic, TypeOK
<1>9. NoStrandedArchive'
    BY DEF NoStrandedArchive, TypeOK, Owns, ListedInv
<1> QED
    BY <1>1, <1>2, <1>3, <1>4, <1>5, <1>6, <1>7, <1>8, <1>9

LEMMA SaveCopyIInv == ASSUME IInv, NEW r \in Requests, SaveCopy(r) PROVE IInv'
<1> USE DEF IInv, Safety, SaveCopy, CopyFailed, Answer, Goto, Fault, delVars, scoreVars, viewVars
<1>1. TypeOK'
  <2>1. pc' \in [Requests -> ReqPC] /\ status' \in [Requests -> Statuses]
      BY DEF TypeOK, ReqPC, Statuses
  <2>2. faults' \in 0 .. MaxFaults
      BY FaultBound DEF TypeOK
  <2>3. archives' \in [Files -> Archive \cup {None}]
    <3>1. [archives EXCEPT ![up[r].file] = [owner |-> r, whole |-> TRUE]]
             \in [Files -> Archive \cup {None}]
        BY PutType, ZenonT(60)
    <3>2. \/ archives' = archives
          \/ archives' = [archives EXCEPT ![up[r].file] = [owner |-> r, whole |-> TRUE]]
        OBVIOUS
    <3>3. archives \in [Files -> Archive \cup {None}]
        BY DEF TypeOK
    <3> QED
        BY <3>1, <3>2, <3>3, ZenonT(60)
  <2> QED
      BY <2>1, <2>2, <2>3 DEF TypeOK
<1>2. RequestInv'
    BY DEF RequestInv, TypeOK, Valid, Vetted, Accepted
<1>3. ListedInv'
    BY DEF ListedInv, TypeOK, Vetted
<1>4. ArchiveInv'
  <2>1. \A f \in Files : Owns(f, r) /\ archives[f] # [owner |-> r, whole |-> FALSE]
                            => archives[f].whole
      BY DEF Owns, TypeOK, Archive
  <2>2. \A f \in Files : Owns(f, r)' => Owns(f, r)
      BY NoneAssumption, PutType DEF Owns, TypeOK, Archive
  <2>3. \A f \in Files, q \in Requests \ {r} :
            Owns(f, q)' => Owns(f, q) /\ archives'[f] = archives[f]
      BY DEF Owns, TypeOK
  <2>4. \A f \in Files : Owns(f, r)' /\ pc'[r] = "config" => archives'[f].whole
    <3> SUFFICES ASSUME NEW f \in Files, Owns(f, r)', pc'[r] = "config"
                 PROVE  archives'[f].whole
        OBVIOUS
    <3>1. Owns(f, r) /\ f = up[r].file
        BY <2>2 DEF ArchiveInv
    <3>2. CASE archives[f] = [owner |-> r, whole |-> FALSE]
      <4>1. archives'[f] = [owner |-> r, whole |-> TRUE]
          BY <3>1, <3>2 DEF TypeOK
      <4> QED
          BY <4>1
    <3>3. CASE archives[f] # [owner |-> r, whole |-> FALSE]
        BY <2>1, <3>1, <3>3 DEF TypeOK
    <3> QED
        BY <3>2, <3>3
  <2>5. r \notin logged
      BY DEF ListedInv
  <2> QED
      BY <2>2, <2>3, <2>4, <2>5 DEF ArchiveInv, TypeOK, Stored
<1>5. DeleterInv'
    BY SMTT(30) DEF DeleterInv, TypeOK, Owns, ListedInv
<1>6. ScorerInv'
    BY DEF ScorerInv, TypeOK
<1>7. OnlyVettedIsKept'
    BY DEF OnlyVettedIsKept, TypeOK, Owns, Vetted, RequestInv, Accepted
<1>8. ManualNeedsAutomatic'
    BY DEF ManualNeedsAutomatic, TypeOK
<1>9. NoStrandedArchive'
  <2>1. \A f \in Files, q \in Requests \ {r} : Owns(f, q)' => Owns(f, q)
      BY DEF Owns, TypeOK
  <2>2. r \notin removed
      BY DEF ListedInv
  <2> QED
      BY <2>1, <2>2 DEF NoStrandedArchive, TypeOK
<1> QED
    BY <1>1, <1>2, <1>3, <1>4, <1>5, <1>6, <1>7, <1>8, <1>9

LEMMA SavePutIInv == ASSUME IInv, NEW r \in Requests, SavePut(r) PROVE IInv'
<1> USE DEF IInv, Safety, SavePut, Answer, Goto, Fault, delVars, scoreVars, viewVars
<1>1. TypeOK'
  <2>1. pc' \in [Requests -> ReqPC] /\ status' \in [Requests -> Statuses]
      BY DEF TypeOK, ReqPC, Statuses
  <2>2. faults' \in 0 .. MaxFaults
      BY FaultBound DEF TypeOK
  <2>3. archives' \in [Files -> Archive \cup {None}]
    <3>1. [archives EXCEPT ![up[r].file] = [owner |-> r, whole |-> TRUE]]
             \in [Files -> Archive \cup {None}]
        BY PutType, ZenonT(60)
    <3>2. \/ archives' = archives
          \/ archives' = [archives EXCEPT ![up[r].file] = [owner |-> r, whole |-> TRUE]]
        OBVIOUS
    <3>3. archives \in [Files -> Archive \cup {None}]
        BY DEF TypeOK
    <3> QED
        BY <3>1, <3>2, <3>3, ZenonT(60)
  <2> QED
      BY <2>1, <2>2, <2>3 DEF TypeOK
<1>2. RequestInv'
    BY DEF RequestInv, TypeOK, Valid, Vetted, Accepted
<1>3. ListedInv'
    BY DEF ListedInv, TypeOK, Vetted
<1>4. ArchiveInv'
    BY SMTT(30) DEF ArchiveInv, TypeOK, Owns, Stored, ListedInv
<1>5. DeleterInv'
    BY DEF DeleterInv, TypeOK, Owns, ListedInv
<1>6. ScorerInv'
    BY DEF ScorerInv, TypeOK
<1>7. OnlyVettedIsKept'
    BY DEF OnlyVettedIsKept, TypeOK, Owns, Vetted, RequestInv, Accepted
<1>8. ManualNeedsAutomatic'
    BY DEF ManualNeedsAutomatic, TypeOK
<1>9. NoStrandedArchive'
    BY DEF NoStrandedArchive, TypeOK, Owns, ListedInv
<1> QED
    BY <1>1, <1>2, <1>3, <1>4, <1>5, <1>6, <1>7, <1>8, <1>9

LEMMA ReadConfigIInv == ASSUME IInv, NEW r \in Requests, ReadConfig(r) PROVE IInv'
<1> USE DEF IInv, Safety, ReadConfig, AfterConfig, Goto, Fault, storeVars, delVars, scoreVars, viewVars
<1>1. TypeOK'
  <2>1. pc' \in [Requests -> ReqPC] /\ status' \in [Requests -> Statuses]
      BY DEF TypeOK, ReqPC, Statuses
  <2>2. faults' \in 0 .. MaxFaults
      BY FaultBound DEF TypeOK
  <2>3. result' \in [Requests -> Result \cup {None}]
    <3>1. [scored |-> FALSE, irq |-> None] \in Result
        BY ResultType
    <3>2. result \in [Requests -> Result \cup {None}]
        BY DEF TypeOK
    <3> QED
        BY <3>1, <3>2, ZenonT(60)
  <2> QED
      BY <2>1, <2>2, <2>3 DEF TypeOK
<1>2. RequestInv'
  <2>1. \A q \in Requests : (Valid(q)' <=> Valid(q)) /\ (Vetted(q)' <=> Vetted(q))
      BY DEF Valid, Vetted
  <2>2. [scored |-> FALSE, irq |-> None] # None
      BY ResultType, NoneAssumption
  <2> QED
      BY <2>1, <2>2 DEF RequestInv, TypeOK, Accepted
<1>3. ListedInv'
    BY DEF ListedInv, TypeOK, Vetted
<1>4. ArchiveInv'
    BY DEF ArchiveInv, TypeOK, Owns, Stored
<1>5. DeleterInv'
    BY DEF DeleterInv, TypeOK, Owns
<1>6. ScorerInv'
    BY DEF ScorerInv, TypeOK
<1>7. OnlyVettedIsKept'
    BY DEF OnlyVettedIsKept, TypeOK, Owns, Vetted
<1>8. ManualNeedsAutomatic'
    BY DEF ManualNeedsAutomatic, TypeOK
<1>9. NoStrandedArchive'
    BY DEF NoStrandedArchive, TypeOK, Owns
<1> QED
    BY <1>1, <1>2, <1>3, <1>4, <1>5, <1>6, <1>7, <1>8, <1>9

LEMMA AutoChecksIInv == ASSUME IInv, NEW r \in Requests, AutoChecks(r) PROVE IInv'
<1> USE DEF IInv, Safety, AutoChecks, RunsToCompletion, Goto, Fault, storeVars, delVars, scoreVars, viewVars
<1>1. TypeOK'
  <2>1. pc' \in [Requests -> ReqPC] /\ status' \in [Requests -> Statuses]
      BY DEF TypeOK, ReqPC, Statuses
  <2>2. faults' \in 0 .. MaxFaults
      BY FaultBound DEF TypeOK
  <2>3. result' \in [Requests -> Result \cup {None}]
    <3>1. [scored |-> TRUE, irq |-> None] \in Result
        BY ResultType
    <3>2. result \in [Requests -> Result \cup {None}]
        BY DEF TypeOK
    <3> QED
        BY <3>1, <3>2, ZenonT(60)
  <2> QED
      BY <2>1, <2>2, <2>3 DEF TypeOK
<1>2. RequestInv'
  <2>1. \A q \in Requests : (Valid(q)' <=> Valid(q)) /\ (Vetted(q)' <=> Vetted(q))
      BY DEF Valid, Vetted
  <2>2. [scored |-> TRUE, irq |-> None] # None
      BY ResultType, NoneAssumption
  <2> QED
      BY <2>1, <2>2 DEF RequestInv, TypeOK, Accepted
<1>3. ListedInv'
    BY DEF ListedInv, TypeOK, Vetted
<1>4. ArchiveInv'
    BY DEF ArchiveInv, TypeOK, Owns, Stored
<1>5. DeleterInv'
    BY DEF DeleterInv, TypeOK, Owns
<1>6. ScorerInv'
    BY DEF ScorerInv, TypeOK
<1>7. OnlyVettedIsKept'
    BY DEF OnlyVettedIsKept, TypeOK, Owns, Vetted
<1>8. ManualNeedsAutomatic'
    BY DEF ManualNeedsAutomatic, TypeOK
<1>9. NoStrandedArchive'
    BY DEF NoStrandedArchive, TypeOK, Owns
<1> QED
    BY <1>1, <1>2, <1>3, <1>4, <1>5, <1>6, <1>7, <1>8, <1>9

LEMMA SetScoreIInv == ASSUME IInv, NEW r \in Requests, SetScore(r) PROVE IInv'
<1> USE DEF IInv, Safety, SetScore, Goto, Fault, delVars, scoreVars, viewVars
<1>1. TypeOK'
    BY FaultBound DEF TypeOK, ReqPC, Statuses
<1>2. RequestInv'
    BY DEF RequestInv, TypeOK, Valid, Vetted, Accepted
<1>3. ListedInv'
    BY DEF ListedInv, TypeOK, Vetted
<1>4. ArchiveInv'
    BY DEF ArchiveInv, TypeOK, Owns, Stored
<1>5. DeleterInv'
    BY DEF DeleterInv, TypeOK, Owns
<1>6. ScorerInv'
    BY DEF ScorerInv, TypeOK
<1>7. OnlyVettedIsKept'
    BY DEF OnlyVettedIsKept, TypeOK, Owns, Vetted, RequestInv, Accepted
<1>8. ManualNeedsAutomatic'
    BY DEF ManualNeedsAutomatic, TypeOK, RequestInv
<1>9. NoStrandedArchive'
    BY DEF NoStrandedArchive, TypeOK, Owns
<1> QED
    BY <1>1, <1>2, <1>3, <1>4, <1>5, <1>6, <1>7, <1>8, <1>9

LEMMA RecordIInv == ASSUME IInv, NEW r \in Requests, Record(r) PROVE IInv'
<1> USE DEF IInv, Safety, Record, Append, AppendFails, Answer, Fault, delVars, scoreVars, viewVars
<1>1. TypeOK'
    BY FaultBound DEF TypeOK, ReqPC, Statuses
<1>2. RequestInv'
    BY DEF RequestInv, TypeOK, Valid, Vetted, Accepted
<1>3. ListedInv'
    BY DEF ListedInv, TypeOK, Vetted, RequestInv, Accepted
<1>4. ArchiveInv'
    BY DEF ArchiveInv, TypeOK, Owns, Stored
<1>5. DeleterInv'
    BY DEF DeleterInv, TypeOK, Owns
<1>6. ScorerInv'
    BY DEF ScorerInv, TypeOK
<1>7. OnlyVettedIsKept'
    BY DEF OnlyVettedIsKept, TypeOK, Owns, Vetted, RequestInv, Accepted
<1>8. ManualNeedsAutomatic'
    BY DEF ManualNeedsAutomatic, TypeOK
<1>9. NoStrandedArchive'
    BY DEF NoStrandedArchive, TypeOK, Owns
<1> QED
    BY <1>1, <1>2, <1>3, <1>4, <1>5, <1>6, <1>7, <1>8, <1>9

LEMMA DisconnectIInv == ASSUME IInv, NEW r \in Requests, Disconnect(r) PROVE IInv'
<1> USE DEF IInv, Safety, Disconnect, storeVars, delVars, scoreVars, viewVars
<1>1. TypeOK'
    BY DEF TypeOK
<1>2. RequestInv'
    BY DEF RequestInv, TypeOK, Valid, Vetted, Accepted
<1>3. ListedInv'
    BY DEF ListedInv, TypeOK, Vetted
<1>4. ArchiveInv'
    BY DEF ArchiveInv, TypeOK, Owns, Stored
<1>5. DeleterInv'
    BY DEF DeleterInv, TypeOK, Owns
<1>6. ScorerInv'
    BY DEF ScorerInv, TypeOK
<1>7. OnlyVettedIsKept'
    BY DEF OnlyVettedIsKept, TypeOK, Owns, Vetted
<1>8. ManualNeedsAutomatic'
    BY DEF ManualNeedsAutomatic, TypeOK
<1>9. NoStrandedArchive'
    BY DEF NoStrandedArchive, TypeOK, Owns
<1> QED
    BY <1>1, <1>2, <1>3, <1>4, <1>5, <1>6, <1>7, <1>8, <1>9

\* The exercise configuration.
LEMMA ConfigureIInv == ASSUME IInv, Configure PROVE IInv'
<1> USE DEF IInv, Safety, Configure, reqVars, delVars, scoreVars, viewVars
<1>1. TypeOK'
    BY DEF TypeOK
<1>2. RequestInv'
    BY DEF RequestInv, TypeOK, Valid, Vetted, Accepted
<1>3. ListedInv'
    BY DEF ListedInv, TypeOK, Vetted
<1>4. ArchiveInv'
    BY DEF ArchiveInv, TypeOK, Owns, Stored
<1>5. DeleterInv'
    BY DEF DeleterInv, TypeOK, Owns
<1>6. ScorerInv'
    BY DEF ScorerInv, TypeOK
<1>7. OnlyVettedIsKept'
    BY DEF OnlyVettedIsKept, TypeOK, Owns, Vetted
<1>8. ManualNeedsAutomatic'
    BY DEF ManualNeedsAutomatic, TypeOK
<1>9. NoStrandedArchive'
    BY DEF NoStrandedArchive, TypeOK, Owns
<1> QED
    BY <1>1, <1>2, <1>3, <1>4, <1>5, <1>6, <1>7, <1>8, <1>9

\* The delete handler.
LEMMA DelLookupIInv == ASSUME IInv, NEW d \in Deleters, NEW i \in Requests, DelLookup(d, i) PROVE IInv'
<1> USE DEF IInv, Safety, DelLookup, reqVars, storeVars, scoreVars, viewVars
<1>1. TypeOK'
    BY DEF TypeOK
<1>2. RequestInv'
    BY DEF RequestInv, TypeOK, Valid, Vetted, Accepted
<1>3. ListedInv'
    BY DEF ListedInv, TypeOK, Vetted
<1>4. ArchiveInv'
    BY DEF ArchiveInv, TypeOK, Owns, Stored
<1>5. DeleterInv'
    BY DEF DeleterInv, TypeOK, Owns
<1>6. ScorerInv'
    BY DEF ScorerInv, TypeOK
<1>7. OnlyVettedIsKept'
    BY DEF OnlyVettedIsKept, TypeOK, Owns, Vetted
<1>8. ManualNeedsAutomatic'
    BY DEF ManualNeedsAutomatic, TypeOK
<1>9. NoStrandedArchive'
    BY DEF NoStrandedArchive, TypeOK, Owns
<1> QED
    BY <1>1, <1>2, <1>3, <1>4, <1>5, <1>6, <1>7, <1>8, <1>9

LEMMA DelArchiveIInv == ASSUME IInv, NEW d \in Deleters, DelArchive(d) PROVE IInv'
<1> USE DEF IInv, Safety, DelArchive, ArchiveGone, ArchiveKept, DelReturn, DelGoto, Fault, reqVars, scoreVars, viewVars
<1>1. TypeOK'
    BY FaultBound DEF TypeOK
<1>2. RequestInv'
    BY DEF RequestInv, TypeOK, Valid, Vetted, Accepted
<1>3. ListedInv'
    BY DEF ListedInv, TypeOK, Vetted
<1>4. ArchiveInv'
    BY DEF ArchiveInv, TypeOK, Owns, Stored
<1>5. DeleterInv'
    BY DEF DeleterInv, TypeOK, Owns, ArchiveInv
<1>6. ScorerInv'
    BY DEF ScorerInv, TypeOK
<1>7. OnlyVettedIsKept'
    BY DEF OnlyVettedIsKept, TypeOK, Owns, Vetted
<1>8. ManualNeedsAutomatic'
    BY DEF ManualNeedsAutomatic, TypeOK
<1>9. NoStrandedArchive'
    BY DEF NoStrandedArchive, TypeOK, Owns
<1> QED
    BY <1>1, <1>2, <1>3, <1>4, <1>5, <1>6, <1>7, <1>8, <1>9

LEMMA DelScoreIInv == ASSUME IInv, NEW d \in Deleters, DelScore(d) PROVE IInv'
<1> USE DEF IInv, Safety, DelScore, ScoreKept, DelReturn, DelGoto, Fault, reqVars, scoreVars, viewVars
<1>1. TypeOK'
    BY FaultBound DEF TypeOK
<1>2. RequestInv'
    BY DEF RequestInv, TypeOK, Valid, Vetted, Accepted
<1>3. ListedInv'
    BY DEF ListedInv, TypeOK, Vetted
<1>4. ArchiveInv'
    BY DEF ArchiveInv, TypeOK, Owns, Stored
<1>5. DeleterInv'
    BY DEF DeleterInv, TypeOK, Owns
<1>6. ScorerInv'
    BY DEF ScorerInv, TypeOK
<1>7. OnlyVettedIsKept'
    BY DEF OnlyVettedIsKept, TypeOK, Owns, Vetted
<1>8. ManualNeedsAutomatic'
    BY DEF ManualNeedsAutomatic, TypeOK
<1>9. NoStrandedArchive'
    BY DEF NoStrandedArchive, TypeOK, Owns
<1> QED
    BY <1>1, <1>2, <1>3, <1>4, <1>5, <1>6, <1>7, <1>8, <1>9

LEMMA DelEntryIInv == ASSUME IInv, NEW d \in Deleters, DelEntry(d) PROVE IInv'
<1> USE DEF IInv, Safety, DelEntry, RemoveEntry, DelReturn, Fault, reqVars, scoreVars, viewVars
<1>1. TypeOK'
    BY FaultBound DEF TypeOK
<1>2. RequestInv'
    BY DEF RequestInv, TypeOK, Valid, Vetted, Accepted
<1>3. ListedInv'
    BY DEF ListedInv, TypeOK, Vetted
<1>4. ArchiveInv'
    BY DEF ArchiveInv, TypeOK, Owns, Stored
<1>5. DeleterInv'
    BY DEF DeleterInv, TypeOK, Owns
<1>6. ScorerInv'
    BY DEF ScorerInv, TypeOK
<1>7. OnlyVettedIsKept'
    BY DEF OnlyVettedIsKept, TypeOK, Owns, Vetted
<1>8. ManualNeedsAutomatic'
    BY DEF ManualNeedsAutomatic, TypeOK
<1>9. NoStrandedArchive'
    BY DEF NoStrandedArchive, TypeOK, Owns, DeleterInv
<1> QED
    BY <1>1, <1>2, <1>3, <1>4, <1>5, <1>6, <1>7, <1>8, <1>9

\* The score handler.
LEMMA ScoreLookupIInv == ASSUME IInv, NEW s \in Scorers, NEW i \in Requests, NEW q \in IRQs, ScoreLookup(s, i, q) PROVE IInv'
<1> USE DEF IInv, Safety, ScoreLookup, reqVars, storeVars, delVars, viewVars
<1>1. TypeOK'
    BY DEF TypeOK
<1>2. RequestInv'
    BY DEF RequestInv, TypeOK, Valid, Vetted, Accepted
<1>3. ListedInv'
    BY DEF ListedInv, TypeOK, Vetted
<1>4. ArchiveInv'
    BY DEF ArchiveInv, TypeOK, Owns, Stored
<1>5. DeleterInv'
    BY DEF DeleterInv, TypeOK, Owns
<1>6. ScorerInv'
    BY DEF ScorerInv, TypeOK
<1>7. OnlyVettedIsKept'
    BY DEF OnlyVettedIsKept, TypeOK, Owns, Vetted
<1>8. ManualNeedsAutomatic'
    BY DEF ManualNeedsAutomatic, TypeOK
<1>9. NoStrandedArchive'
    BY DEF NoStrandedArchive, TypeOK, Owns
<1> QED
    BY <1>1, <1>2, <1>3, <1>4, <1>5, <1>6, <1>7, <1>8, <1>9

LEMMA ScoreGetIInv == ASSUME IInv, NEW s \in Scorers, ScoreGet(s) PROVE IInv'
<1> USE DEF IInv, Safety, ScoreGet, Scorable, ScoreReturn, Fault, reqVars, storeVars, delVars, viewVars
<1>1. TypeOK'
  <2>1. scores[sid[s]] \in Result \cup {None}
      BY DEF TypeOK, ScorerInv
  <2>2. /\ spc' \in [Scorers -> {"idle", "get", "set"}]
        /\ sid' \in [Scorers -> Requests \cup {None}]
        /\ sirq' \in [Scorers -> IRQs \cup {None}]
        /\ ssnap' \in [Scorers -> Result \cup {None}]
      BY <2>1 DEF TypeOK
  <2>3. faults' \in 0 .. MaxFaults
      BY FaultBound DEF TypeOK
  <2> QED
      BY <2>2, <2>3 DEF TypeOK
<1>2. RequestInv'
    BY DEF RequestInv, TypeOK, Valid, Vetted, Accepted
<1>3. ListedInv'
    BY DEF ListedInv, TypeOK, Vetted
<1>4. ArchiveInv'
    BY DEF ArchiveInv, TypeOK, Owns, Stored
<1>5. DeleterInv'
    BY DEF DeleterInv, TypeOK, Owns
<1>6. ScorerInv'
    BY DEF ScorerInv, TypeOK
<1>7. OnlyVettedIsKept'
    BY DEF OnlyVettedIsKept, TypeOK, Owns, Vetted
<1>8. ManualNeedsAutomatic'
    BY DEF ManualNeedsAutomatic, TypeOK
<1>9. NoStrandedArchive'
    BY DEF NoStrandedArchive, TypeOK, Owns
<1> QED
    BY <1>1, <1>2, <1>3, <1>4, <1>5, <1>6, <1>7, <1>8, <1>9

LEMMA ScoreSetIInv == ASSUME IInv, NEW s \in Scorers, ScoreSet(s) PROVE IInv'
<1> USE DEF IInv, Safety, ScoreSet, WithManual, ScoreReturn, Fault, reqVars, delVars, viewVars
<1>1. TypeOK'
    BY FaultBound, SMTT(30) DEF TypeOK, ScorerInv, Result
<1>2. RequestInv'
    BY DEF RequestInv, TypeOK, Valid, Vetted, Accepted
<1>3. ListedInv'
    BY DEF ListedInv, TypeOK, Vetted, ScorerInv
<1>4. ArchiveInv'
    BY DEF ArchiveInv, TypeOK, Owns, Stored
<1>5. DeleterInv'
    BY DEF DeleterInv, TypeOK, Owns
<1>6. ScorerInv'
    BY DEF ScorerInv, TypeOK
<1>7. OnlyVettedIsKept'
    BY DEF OnlyVettedIsKept, TypeOK, Owns, Vetted, ScorerInv, ListedInv
<1>8. ManualNeedsAutomatic'
    BY DEF ManualNeedsAutomatic, TypeOK, ScorerInv, Result
<1>9. NoStrandedArchive'
    BY DEF NoStrandedArchive, TypeOK, Owns
<1> QED
    BY <1>1, <1>2, <1>3, <1>4, <1>5, <1>6, <1>7, <1>8, <1>9

\* The summary handler.
LEMMA ViewEntriesIInv == ASSUME IInv, NEW v \in Viewers, ViewEntries(v) PROVE IInv'
<1> USE DEF IInv, Safety, ViewEntries, reqVars, storeVars, delVars, scoreVars
<1>1. TypeOK'
    BY DEF TypeOK
<1>2. RequestInv'
    BY DEF RequestInv, TypeOK, Valid, Vetted, Accepted
<1>3. ListedInv'
    BY DEF ListedInv, TypeOK, Vetted
<1>4. ArchiveInv'
    BY DEF ArchiveInv, TypeOK, Owns, Stored
<1>5. DeleterInv'
    BY DEF DeleterInv, TypeOK, Owns
<1>6. ScorerInv'
    BY DEF ScorerInv, TypeOK
<1>7. OnlyVettedIsKept'
    BY DEF OnlyVettedIsKept, TypeOK, Owns, Vetted
<1>8. ManualNeedsAutomatic'
    BY DEF ManualNeedsAutomatic, TypeOK
<1>9. NoStrandedArchive'
    BY DEF NoStrandedArchive, TypeOK, Owns
<1> QED
    BY <1>1, <1>2, <1>3, <1>4, <1>5, <1>6, <1>7, <1>8, <1>9

LEMMA ViewScoresIInv == ASSUME IInv, NEW v \in Viewers, ViewScores(v) PROVE IInv'
<1> USE DEF IInv, Safety, ViewScores, Fault, reqVars, storeVars, delVars, scoreVars
<1>1. TypeOK'
    BY FaultBound DEF TypeOK
<1>2. RequestInv'
    BY DEF RequestInv, TypeOK, Valid, Vetted, Accepted
<1>3. ListedInv'
    BY DEF ListedInv, TypeOK, Vetted
<1>4. ArchiveInv'
    BY DEF ArchiveInv, TypeOK, Owns, Stored
<1>5. DeleterInv'
    BY DEF DeleterInv, TypeOK, Owns
<1>6. ScorerInv'
    BY DEF ScorerInv, TypeOK
<1>7. OnlyVettedIsKept'
    BY DEF OnlyVettedIsKept, TypeOK, Owns, Vetted
<1>8. ManualNeedsAutomatic'
    BY DEF ManualNeedsAutomatic, TypeOK
<1>9. NoStrandedArchive'
    BY DEF NoStrandedArchive, TypeOK, Owns
<1> QED
    BY <1>1, <1>2, <1>3, <1>4, <1>5, <1>6, <1>7, <1>8, <1>9

\* A crash.
LEMMA CrashIInv == ASSUME IInv, Crash PROVE IInv'
<1> USE DEF IInv, Safety, Crash, Fault, InFlight, storeVars
<1>1. TypeOK'
    BY FaultBound DEF TypeOK, ReqPC
<1>2. RequestInv'
    BY DEF RequestInv, TypeOK, Valid, Vetted, Accepted
<1>3. ListedInv'
    BY DEF ListedInv, TypeOK, Vetted
<1>4. ArchiveInv'
    BY DEF ArchiveInv, TypeOK, Owns, Stored
<1>5. DeleterInv'
    BY DEF DeleterInv, TypeOK, Owns
<1>6. ScorerInv'
    BY DEF ScorerInv, TypeOK
<1>7. OnlyVettedIsKept'
    BY DEF OnlyVettedIsKept, TypeOK, Owns, Vetted
<1>8. ManualNeedsAutomatic'
    BY DEF ManualNeedsAutomatic, TypeOK
<1>9. NoStrandedArchive'
    BY DEF NoStrandedArchive, TypeOK, Owns
<1> QED
    BY <1>1, <1>2, <1>3, <1>4, <1>5, <1>6, <1>7, <1>8, <1>9

-----------------------------------------------------------------------------
(* Every step, and the theorems. *)

LEMMA NextIInv == IInv /\ [Next]_vars => IInv'
<1> SUFFICES ASSUME IInv, [Next]_vars PROVE IInv'
    OBVIOUS
<1>1. CASE UNCHANGED vars
    BY <1>1 DEF vars, reqVars, storeVars, delVars, scoreVars, viewVars, IInv,
       TypeOK, RequestInv, ListedInv, ArchiveInv, DeleterInv, ScorerInv, Safety,
       OnlyVettedIsKept, ManualNeedsAutomatic, NoStrandedArchive, Owns, Valid,
       Vetted
<1>2. ASSUME NEW r \in Requests, Receive(r) PROVE IInv'
    BY <1>2, ReceiveIInv
<1>3. ASSUME NEW r \in Requests, Validate(r) PROVE IInv'
    BY <1>3, ValidateIInv
<1>4. ASSUME NEW r \in Requests, Scan(r) PROVE IInv'
    BY <1>4, ScanIInv
<1>5. ASSUME NEW r \in Requests, SaveOpen(r) PROVE IInv'
    BY <1>5, SaveOpenIInv
<1>6. ASSUME NEW r \in Requests, SaveCopy(r) PROVE IInv'
    BY <1>6, SaveCopyIInv
<1>7. ASSUME NEW r \in Requests, SavePut(r) PROVE IInv'
    BY <1>7, SavePutIInv
<1>8. ASSUME NEW r \in Requests, ReadConfig(r) PROVE IInv'
    BY <1>8, ReadConfigIInv
<1>9. ASSUME NEW r \in Requests, AutoChecks(r) PROVE IInv'
    BY <1>9, AutoChecksIInv
<1>10. ASSUME NEW r \in Requests, SetScore(r) PROVE IInv'
    BY <1>10, SetScoreIInv
<1>11. ASSUME NEW r \in Requests, Record(r) PROVE IInv'
    BY <1>11, RecordIInv
<1>12. ASSUME NEW r \in Requests, Disconnect(r) PROVE IInv'
    BY <1>12, DisconnectIInv
<1>13. ASSUME NEW d \in Deleters, DelArchive(d) PROVE IInv'
    BY <1>13, DelArchiveIInv
<1>14. ASSUME NEW d \in Deleters, DelScore(d) PROVE IInv'
    BY <1>14, DelScoreIInv
<1>15. ASSUME NEW d \in Deleters, DelEntry(d) PROVE IInv'
    BY <1>15, DelEntryIInv
<1>16. ASSUME NEW s \in Scorers, ScoreGet(s) PROVE IInv'
    BY <1>16, ScoreGetIInv
<1>17. ASSUME NEW s \in Scorers, ScoreSet(s) PROVE IInv'
    BY <1>17, ScoreSetIInv
<1>18. ASSUME NEW v \in Viewers, ViewEntries(v) PROVE IInv'
    BY <1>18, ViewEntriesIInv
<1>19. ASSUME NEW v \in Viewers, ViewScores(v) PROVE IInv'
    BY <1>19, ViewScoresIInv
<1>20. ASSUME NEW d \in Deleters, NEW i \in Requests, DelLookup(d, i) PROVE IInv'
    BY <1>20, DelLookupIInv
<1>21. ASSUME NEW s \in Scorers, NEW i \in Requests, NEW q \in IRQs,
             ScoreLookup(s, i, q)
      PROVE  IInv'
    BY <1>21, ScoreLookupIInv
<1>22. CASE Configure
    BY <1>22, ConfigureIInv
<1>23. CASE Crash
    BY <1>23, CrashIInv
<1> QED
    BY <1>1, <1>2, <1>3, <1>4, <1>5, <1>6, <1>7, <1>8, <1>9, <1>10, <1>11, <1>12,
       <1>13, <1>14, <1>15, <1>16, <1>17, <1>18, <1>19, <1>20, <1>21, <1>22, <1>23
       DEF Next, Submit, Delete, Score

LEMMA Invariance == Spec => []IInv
    BY InitIInv, NextIInv, PTL DEF Spec

\* The variables keep their types.
THEOREM TypeCorrect == Spec => []TypeOK
<1>1. IInv => TypeOK
    BY DEF IInv
<1> QED
    BY Invariance, <1>1, PTL

\* Only what passed every check is stored, scored or listed.
THEOREM VettedOnly == Spec => []OnlyVettedIsKept
<1>1. IInv => OnlyVettedIsKept
    BY DEF IInv, Safety
<1> QED
    BY Invariance, <1>1, PTL

\* No manual score without an automatic half, however score, delete and
\* submit handlers interleave.
THEOREM NoManualWithoutAutomatic == Spec => []ManualNeedsAutomatic
<1>1. IInv => ManualNeedsAutomatic
    BY DEF IInv, Safety
<1> QED
    BY Invariance, <1>1, PTL

\* A submission that has left the log has left no archive behind, whatever
\* failed and however many handlers deleted it.
THEOREM NothingStranded == Spec => []NoStrandedArchive
<1>1. IInv => NoStrandedArchive
    BY DEF IInv, Safety
<1> QED
    BY Invariance, <1>1, PTL

\* A listed submission's archive was written to its end.
THEOREM ListedWhole == Spec => []ListedArchiveIsWhole
<1>1. IInv => ListedArchiveIsWhole
    BY DEF IInv, TypeOK, ArchiveInv, ListedArchiveIsWhole
<1> QED
    BY Invariance, <1>1, PTL

\* A scoring record keeps its automatic half and its manual score until it
\* is deleted.
THEOREM ScoresGrow == Spec => ScoresOnlyGrow
<1> DEFINE Grow == \A r \in Requests :
        scores[r] # None /\ scores'[r] # None
            => /\ scores[r].scored => scores'[r].scored
               /\ scores[r].irq # None => scores'[r].irq # None
<1>1. ASSUME IInv, NEW r \in Requests, SetScore(r) PROVE Grow
    BY <1>1 DEF SetScore, IInv, ListedInv, TypeOK
<1>2. ASSUME IInv, NEW d \in Deleters, DelScore(d) PROVE Grow
    BY <1>2 DEF DelScore, IInv, TypeOK
<1>3. ASSUME IInv, NEW s \in Scorers, ScoreSet(s) PROVE Grow
  <2>1. sid[s] \in Requests /\ sirq[s] \in IRQs /\ ssnap[s] \in Result /\ ssnap[s].scored
      BY <1>3 DEF ScoreSet, IInv, ScorerInv, TypeOK
  <2>2. WithManual(ssnap[s], sirq[s]).scored /\ WithManual(ssnap[s], sirq[s]).irq # None
      BY <2>1, NoneAssumption DEF WithManual, Result
  <2>3. \/ scores' = scores
        \/ scores' = [scores EXCEPT ![sid[s]] = WithManual(ssnap[s], sirq[s])]
      BY <1>3 DEF ScoreSet
  <2>4. \A r \in Requests : \/ scores'[r] = scores[r]
                           \/ scores'[r] = WithManual(ssnap[s], sirq[s])
      BY <1>3, <2>3 DEF IInv, TypeOK
  <2> QED
      BY <2>2, <2>4
<1>4. ASSUME IInv, [Next]_vars,
             ~\E r \in Requests : SetScore(r),
             ~\E d \in Deleters : DelScore(d),
             ~\E s \in Scorers : ScoreSet(s)
      PROVE  scores' = scores
    BY <1>4, ZenonT(60) DEF Next, Submit, Delete, Score, vars, reqVars, storeVars, delVars,
       scoreVars, viewVars, Receive, Validate, Scan, SaveOpen, SaveCopy, SavePut,
       ReadConfig, AutoChecks, Record, Disconnect, DelLookup, DelArchive,
       DelEntry, ScoreLookup, ScoreGet, ViewEntries, ViewScores, Configure, Crash
<1>5. IInv /\ [Next]_vars => [Grow]_vars
    BY <1>1, <1>2, <1>3, <1>4
<1> QED
    BY Invariance, <1>5, PTL DEF Spec, ScoresOnlyGrow

-----------------------------------------------------------------------------
(* What a delete leaves of the record, and what a finished upload leaves of *)
(* its archive, on top of IInv.                                            *)

\* The steps that write records, archives, entries or the deleters' places.
LEMMA OthersKeepStores ==
    ASSUME [Next]_vars,
           ~\E r \in Requests : SetScore(r) \/ Record(r),
           ~\E r \in Requests : SaveOpen(r) \/ SaveCopy(r) \/ SavePut(r),
           ~\E d \in Deleters : Delete(d) \/ \E i \in Requests : DelLookup(d, i),
           ~\E s \in Scorers : ScoreSet(s),
           ~Crash
    PROVE  UNCHANGED <<archives, scores, logged, tail, dpc, did, removed, revived>>
    BY DEF Next, Submit, Score, vars, reqVars, storeVars, delVars,
       scoreVars, viewVars, Receive, Validate, Scan, ReadConfig, AutoChecks,
       Disconnect, ScoreLookup, ScoreGet, ViewEntries, ViewScores, Configure

\* A record of a submission whose record a delete handler is past, or whose
\* entry is gone, was written back by a score handler that found it gone.
WrittenBack(r) == scores[r] # None => r \in revived

OrphanInv ==
    /\ \A r \in removed : WrittenBack(r)
    /\ \A d \in Deleters : dpc[d] = "entry" => WrittenBack(did[d])

LEMMA NextOrphanInv == IInv /\ OrphanInv /\ [Next]_vars => OrphanInv'
<1> SUFFICES ASSUME IInv, OrphanInv, [Next]_vars PROVE OrphanInv'
    OBVIOUS
<1> USE DEF IInv
<1>1. ASSUME NEW r \in Requests, SetScore(r) PROVE OrphanInv'
  <2>1. r \notin logged \cup removed
      BY <1>1 DEF SetScore, ListedInv
  <2>2. \A d \in Deleters : dpc[d] # "idle" => did[d] # r
      BY <2>1 DEF DeleterInv
  <2>3. \A i \in Requests : i # r => scores'[i] = scores[i]
      BY <1>1 DEF SetScore, TypeOK
  <2>4. /\ \A i \in removed : i \in Requests /\ i # r
        /\ \A d \in Deleters : dpc[d] = "entry" => did[d] \in Requests
      BY <2>1 DEF TypeOK, DeleterInv
  <2> QED
      BY <1>1, <2>2, <2>3, <2>4 DEF SetScore, delVars, scoreVars, OrphanInv,
         WrittenBack
<1>2. ASSUME NEW s \in Scorers, ScoreSet(s) PROVE OrphanInv'
  <2>1. sid[s] \in Requests
      BY <1>2 DEF ScoreSet, ScorerInv, TypeOK
  <2>2. \A r \in Requests : r # sid[s] => scores'[r] = scores[r]
      BY <1>2, <2>1 DEF ScoreSet, TypeOK
  <2>3. /\ revived \subseteq revived'
        /\ scores[sid[s]] = None /\ scores'[sid[s]] # None => sid[s] \in revived'
      BY <1>2 DEF ScoreSet
  <2>4. \A r \in Requests : WrittenBack(r) => WrittenBack(r)'
      BY <2>2, <2>3 DEF WrittenBack
  <2>5. /\ removed \subseteq Requests
        /\ \A d \in Deleters : dpc[d] = "entry" => did[d] \in Requests
      BY DEF DeleterInv, TypeOK
  <2> QED
      BY <1>2, <2>4, <2>5 DEF ScoreSet, delVars, OrphanInv, WrittenBack
<1>3. ASSUME NEW d \in Deleters, DelScore(d) PROVE OrphanInv'
    BY <1>3 DEF DelScore, ScoreKept, DelGoto, DelReturn, DeleterInv, OrphanInv,
       WrittenBack, TypeOK, scoreVars
<1>4. ASSUME NEW d \in Deleters, DelEntry(d) PROVE OrphanInv'
    BY <1>4 DEF DelEntry, RemoveEntry, DelReturn, OrphanInv, WrittenBack, TypeOK,
       scoreVars
<1>5. ASSUME NEW d \in Deleters, DelArchive(d) PROVE OrphanInv'
    BY <1>5 DEF DelArchive, ArchiveGone, ArchiveKept, DelGoto, DelReturn,
       OrphanInv, WrittenBack, TypeOK, scoreVars
<1>6. ASSUME NEW d \in Deleters, NEW i \in Requests, DelLookup(d, i)
      PROVE  OrphanInv'
    BY <1>6 DEF DelLookup, storeVars, scoreVars, OrphanInv, WrittenBack, TypeOK
<1>7. CASE Crash
    BY <1>7 DEF Crash, storeVars, OrphanInv, WrittenBack
<1>8. ASSUME NEW r \in Requests, Record(r) \/ SaveOpen(r) \/ SaveCopy(r) \/ SavePut(r)
      PROVE  OrphanInv'
    BY <1>8 DEF Record, SaveOpen, SaveCopy, SavePut, delVars, scoreVars, OrphanInv,
       WrittenBack
<1>9. CASE UNCHANGED <<scores, dpc, did, removed, revived>>
    BY <1>9 DEF OrphanInv, WrittenBack
<1> QED
    BY <1>1, <1>2, <1>3, <1>4, <1>5, <1>6, <1>7, <1>8, <1>9, OthersKeepStores
       DEF Delete

\* A submission that has left the log has left no record behind, whatever
\* failed while it was deleted, but for one that a score handler, having read
\* it before, wrote back after the delete.
THEOREM NoRecordOrphaned == Spec => []NoOrphanRecord
<1>1. Init => OrphanInv
    BY DEF Init, OrphanInv
<1>2. OrphanInv => NoOrphanRecord
    BY DEF OrphanInv, WrittenBack, NoOrphanRecord
<1> QED
    BY Invariance, NextOrphanInv, <1>1, <1>2, PTL DEF Spec

\* Until something fails the log ends in a complete line, and archives on
\* disk are listed or about to be.
KeptInv == KeptIsListed /\ (faults = 0 => tail = "clean")

LEMMA NextKeptInv == IInv /\ KeptInv /\ [Next]_vars => KeptInv'
<1> SUFFICES ASSUME IInv, KeptInv, [Next]_vars PROVE KeptInv'
    OBVIOUS
<1> USE DEF IInv
<1>0. \A f \in Files : archives[f] # None =>
          archives[f].owner \in Requests /\ Owns(f, archives[f].owner)
    BY NoneAssumption DEF TypeOK, Archive, Owns
<1>1. ASSUME Fault PROVE KeptInv'
    BY <1>1, FaultsAssumption DEF Fault, TypeOK, KeptInv, KeptIsListed
<1>3. ASSUME NEW r \in Requests, SaveOpen(r), ~Fault PROVE KeptInv'
  <2> DEFINE f0 == up[r].file
  <2>1. CASE pc'[r] = "done"
    <3>1. \A f \in Files : archives[f] # None => archives[f].owner # r
        BY <1>0, <1>3 DEF SaveOpen, ArchiveInv
    <3> QED
        BY <2>1, <3>1, <1>3, <1>0 DEF SaveOpen, Answer, Goto, TypeOK, KeptInv,
           KeptIsListed, InFlight
  <2>2. CASE pc'[r] # "done"
    <3>1. /\ archives' = [archives EXCEPT ![f0] = [owner |-> r, whole |-> FALSE]]
          /\ pc' = [pc EXCEPT ![r] = "copying"]
          /\ UNCHANGED <<logged, tail, faults>>
        BY <2>2, <1>3 DEF SaveOpen, Answer, Goto, TypeOK
    <3>2. \A f \in Files : \/ archives'[f] = archives[f]
                           \/ archives'[f] = [owner |-> r, whole |-> FALSE]
        BY <3>1 DEF TypeOK
    <3>3. InFlight(r)' /\ \A q \in Requests : InFlight(q) => InFlight(q)'
        BY <3>1 DEF TypeOK, InFlight
    <3> QED
        BY <3>1, <3>2, <3>3, <1>0 DEF KeptInv, KeptIsListed
  <2> QED
      BY <2>1, <2>2
<1>4. ASSUME NEW r \in Requests, SaveCopy(r), ~Fault PROVE KeptInv'
  <2>1. pc' = [pc EXCEPT ![r] = "config"] /\ UNCHANGED <<logged, tail, faults>>
      BY <1>4 DEF SaveCopy, Goto
  <2>2. \A f \in Files : \/ archives'[f] = archives[f]
                         \/ archives'[f] = [owner |-> r, whole |-> TRUE]
      BY <1>4 DEF SaveCopy, TypeOK
  <2>3. InFlight(r)' /\ \A q \in Requests : InFlight(q) => InFlight(q)'
      BY <2>1 DEF TypeOK, InFlight
  <2> QED
      BY <2>1, <2>2, <2>3, <1>0 DEF KeptInv, KeptIsListed
<1>5. ASSUME NEW r \in Requests, SavePut(r), ~Fault PROVE KeptInv'
    BY <1>5 DEF SavePut, KeptInv, KeptIsListed
<1>6. ASSUME NEW r \in Requests, Record(r), ~Fault PROVE KeptInv'
  <2>1. Append(r) /\ pc' = [pc EXCEPT ![r] = "done"] /\ UNCHANGED <<archives, faults>>
      BY <1>6 DEF Record, Answer
  <2>2. \A q \in Requests : InFlight(q) /\ q # r => InFlight(q)'
      BY <2>1 DEF TypeOK, InFlight
  <2> QED
      BY <2>1, <2>2, <1>0 DEF Append, KeptInv, KeptIsListed
<1>7. ASSUME NEW r \in Requests, SetScore(r) \/ ReadConfig(r) \/ AutoChecks(r)
                                 \/ Disconnect(r),
             ~Fault
      PROVE  KeptInv'
  <2>1. \A q \in Requests : InFlight(q) => InFlight(q)'
      BY <1>7 DEF SetScore, ReadConfig, AfterConfig, AutoChecks, Disconnect,
         Goto, InFlight, TypeOK
  <2>2. UNCHANGED <<archives, logged, tail, faults>>
      BY <1>7 DEF SetScore, ReadConfig, AutoChecks, Disconnect, storeVars
  <2> QED
      BY <2>1, <2>2, <1>0 DEF KeptInv, KeptIsListed
<1>8. ASSUME NEW r \in Requests, Receive(r) \/ Validate(r) \/ Scan(r), ~Fault
      PROVE  KeptInv'
  <2>1. pc[r] \in {"new", "validating", "scanning"}
      BY <1>8 DEF Receive, Validate, Scan
  <2>2. \A f \in Files : archives[f] # None => archives[f].owner # r
      BY <2>1, <1>0 DEF ArchiveInv
  <2>3. \A q \in Requests : InFlight(q) /\ q # r => InFlight(q)'
      BY <1>8 DEF Receive, Validate, Scan, Answer, Goto, InFlight, TypeOK
  <2>4. UNCHANGED <<archives, logged, tail, faults>>
      BY <1>8 DEF Receive, Validate, Scan, storeVars
  <2> QED
      BY <2>2, <2>3, <2>4, <1>0 DEF KeptInv, KeptIsListed
<1>9. ASSUME NEW d \in Deleters, DelEntry(d), ~Fault PROVE KeptInv'
  <2>1. \A f \in Files : archives[f] # None => archives[f].owner # did[d]
      BY <1>9, <1>0 DEF DelEntry, DeleterInv, Owns
  <2>2. UNCHANGED <<archives, pc, faults>> /\ logged \ {did[d]} \subseteq logged'
      BY <1>9 DEF DelEntry, RemoveEntry, reqVars
  <2>3. tail' = tail \/ tail' = "clean"
      BY <1>9 DEF DelEntry, RemoveEntry
  <2> QED
      BY <2>1, <2>2, <2>3 DEF KeptInv, KeptIsListed, InFlight
<1>10. ASSUME NEW d \in Deleters, DelArchive(d), ~Fault PROVE KeptInv'
  <2>1. \A f \in Files : archives'[f] = archives[f] \/ archives'[f] = None
      BY <1>10 DEF DelArchive, TypeOK
  <2> QED
      BY <1>10, <2>1 DEF DelArchive, reqVars, KeptInv, KeptIsListed, InFlight
<1>11. CASE UNCHANGED <<archives, logged, tail, pc, faults>>
    BY <1>11 DEF KeptInv, KeptIsListed, InFlight
<1>12. ASSUME NEW d \in Deleters, DelScore(d), ~Fault PROVE KeptInv'
    BY <1>11, <1>12 DEF DelScore, reqVars
<1>13. ASSUME NEW d \in Deleters, NEW i \in Requests, DelLookup(d, i) PROVE KeptInv'
    BY <1>11, <1>13 DEF DelLookup, reqVars, storeVars
<1>14. ASSUME NEW s \in Scorers, ScoreGet(s) \/ ScoreSet(s), ~Fault PROVE KeptInv'
    BY <1>11, <1>14 DEF ScoreGet, ScoreSet, reqVars, storeVars
<1>15. ASSUME NEW s \in Scorers, NEW i \in Requests, NEW q \in IRQs,
              ScoreLookup(s, i, q)
       PROVE  KeptInv'
    BY <1>11, <1>15 DEF ScoreLookup, reqVars, storeVars
<1>16. ASSUME NEW v \in Viewers, ViewEntries(v) \/ ViewScores(v), ~Fault PROVE KeptInv'
    BY <1>11, <1>16 DEF ViewEntries, ViewScores, reqVars, storeVars
<1>17. CASE Configure
    BY <1>11, <1>17 DEF Configure, reqVars
<1>18. CASE UNCHANGED vars
    BY <1>11, <1>18 DEF vars, reqVars, storeVars
<1> QED
    BY <1>1, <1>3, <1>4, <1>5, <1>6, <1>7, <1>8, <1>9, <1>10, <1>12, <1>13, <1>14,
       <1>15, <1>16, <1>17, <1>18 DEF Next, Submit, Delete, Score, Crash

\* Until something fails, no archive on local storage is left without an
\* entry once its handler is done.
THEOREM KeptUntilFailure == Spec => []KeptIsListed
<1>1. Init => KeptInv
    BY DEF Init, KeptInv, KeptIsListed
<1>2. KeptInv => KeptIsListed
    BY DEF KeptInv
<1> QED
    BY Invariance, NextKeptInv, <1>1, <1>2, PTL DEF Spec

-----------------------------------------------------------------------------
(* What a listed submission keeps while nothing fails: its archive, on     *)
(* local storage and with one delete handler at work at a time.            *)

\* Two deletions never overlap.
OneDelete ==
    \A d, e \in Deleters : dpc[d] # "idle" /\ dpc[e] # "idle" => d = e

Keeping == {"copying", "config", "checking", "scoring", "recording"}

Holds(r) == up[r].file \in Files /\ Owns(up[r].file, r)

\* A request holds its archive from the create on; listed, until a deletion
\* is past its first step.  A deletion at its first step is of a listed one.
HeldInv ==
    faults = 0 =>
        /\ \A r \in Requests : pc[r] \in Keeping => Holds(r)
        /\ \A r \in logged : BeingDeleted(r) \/ Holds(r)
        /\ \A d \in Deleters : dpc[d] = "archive" => did[d] \in logged

LEMMA NoFaultYet == ASSUME IInv, [Next]_vars, faults' = 0 PROVE faults = 0 /\ ~Fault
<1>1. faults \in Nat
    BY FaultsAssumption DEF IInv, TypeOK
<1>2. ~Fault
    BY <1>1 DEF Fault
<1>3. UNCHANGED faults
    BY <1>2, ZenonT(60) DEF Next, Submit, Delete, Score, vars, Receive, Validate,
       Scan, SaveOpen, SaveCopy, SavePut, ReadConfig, AutoChecks, SetScore, Record,
       Disconnect, DelLookup, DelArchive, DelScore, DelEntry, ScoreLookup, ScoreGet,
       ScoreSet, ViewEntries, ViewScores, Configure, Crash
<1> QED
    BY <1>2, <1>3

\* The steps that bring a request into Keeping, or take it out.
LEMMA KeepingSteps ==
    ASSUME Local, IInv, [Next]_vars, ~Fault, NEW r \in Requests, pc'[r] \in Keeping
    PROVE  pc[r] \in Keeping \/ SaveOpen(r)
<1> USE DEF Keeping
<1>0. TypeOK
    BY DEF IInv
<1>1. ASSUME NEW q \in Requests, Receive(q) \/ Validate(q) \/ Scan(q), pc[r] \notin Keeping
      PROVE  FALSE
    BY <1>0, <1>1 DEF Receive, Validate, Scan, Answer, Goto, AfterValidation, TypeOK
<1>2. ASSUME NEW q \in Requests, SaveOpen(q) \/ SaveCopy(q) \/ Record(q)
      PROVE  pc[r] \in Keeping \/ SaveOpen(r)
  <2>1. CASE q = r
      BY <1>2, <2>1 DEF SaveCopy, Record
  <2>2. CASE q # r
      BY <1>0, <1>2, <2>2 DEF SaveOpen, SaveCopy, Record, Answer, Goto, TypeOK
  <2> QED
      BY <2>1, <2>2
<1>3. ASSUME NEW q \in Requests, ReadConfig(q) \/ AutoChecks(q) \/ SetScore(q)
      PROVE  pc[r] \in Keeping
    BY <1>0, <1>3 DEF ReadConfig, AutoChecks, SetScore, Goto, TypeOK
<1>4. CASE UNCHANGED pc
    BY <1>4
<1> QED
    BY <1>1, <1>2, <1>3, <1>4
       DEF Next, Submit, Delete, Score, vars, reqVars, SavePut, Disconnect,
       DelLookup, DelArchive, DelScore, DelEntry, ScoreLookup, ScoreGet, ScoreSet,
       ViewEntries, ViewScores, Configure, Crash

\* Nothing but the deletion of a submission takes its archive away.
LEMMA HoldsOn ==
    ASSUME Local, IInv, HeldInv, OneDelete, [Next]_vars, faults = 0, ~Fault,
           NEW r \in Requests, Holds(r)
    PROVE  Holds(r)' \/ \E d \in Deleters : DelArchive(d) /\ did[d] = r
<1>0. TypeOK
    BY DEF IInv
<1>1. ASSUME NEW q \in Requests, SaveOpen(q) PROVE Holds(r)'
  <2>1. archives'[up[r].file] = archives[up[r].file] /\ up' = up
      BY <1>0, <1>1 DEF SaveOpen, Creatable, Holds, Owns, TypeOK
  <2> QED
      BY <2>1 DEF Holds, Owns
<1>2. ASSUME NEW q \in Requests, SaveCopy(q) PROVE Holds(r)'
  <2>1. \/ archives'[up[r].file] = archives[up[r].file]
        \/ /\ archives[up[r].file] = [owner |-> q, whole |-> FALSE]
           /\ archives'[up[r].file] = [owner |-> q, whole |-> TRUE]
      BY <1>0, <1>2 DEF SaveCopy, Holds, TypeOK
  <2>2. [owner |-> q, whole |-> TRUE] # None
    <3>1. [owner |-> q, whole |-> TRUE] \in Archive
        BY DEF Archive
    <3> QED
        BY <3>1, NoneAssumption
  <2>3. up' = up
      BY <1>2 DEF SaveCopy
  <2> QED
      BY <2>1, <2>2, <2>3 DEF Holds, Owns
<1>3. ASSUME NEW d \in Deleters, DelArchive(d), did[d] # r PROVE Holds(r)'
  <2>1. did[d] \in logged /\ ~BeingDeleted(did[d])
      BY <1>3 DEF DelArchive, HeldInv, BeingDeleted, OneDelete
  <2>2. Holds(did[d])
      BY <2>1 DEF HeldInv
  <2>3. up[did[d]].file # up[r].file
      BY <1>3, <2>2 DEF Holds, Owns
  <2>4. archives' = [archives EXCEPT ![up[did[d]].file] = None] /\ up' = up
      BY <1>3 DEF DelArchive, reqVars
  <2>5. archives'[up[r].file] = archives[up[r].file]
      BY <1>0, <2>3, <2>4 DEF Holds, TypeOK
  <2> QED
      BY <2>4, <2>5 DEF Holds, Owns
<1>4. CASE UNCHANGED <<archives, up>>
    BY <1>4 DEF Holds, Owns
<1> QED
    BY <1>1, <1>2, <1>3, <1>4
       DEF Next, Submit, Delete, Score, vars, reqVars, storeVars, Receive, Validate,
       Scan, SavePut, ReadConfig, AutoChecks, SetScore, Record, Disconnect,
       DelLookup, DelScore, DelEntry, ScoreLookup, ScoreGet, ScoreSet, ViewEntries,
       ViewScores, Configure, Crash

\* The log and the deleters' places, step by step.
LEMMA DeletionSteps ==
    ASSUME IInv, HeldInv, OneDelete, [Next]_vars, faults = 0, ~Fault, tail = "clean"
    PROVE  /\ \A r \in Requests :
                 r \in logged' => r \in logged \/ (pc[r] = "recording" /\ UNCHANGED archives
                                                    /\ UNCHANGED up)
           /\ \A r \in logged' : BeingDeleted(r) => BeingDeleted(r)'
           /\ \A d \in Deleters : DelArchive(d) => BeingDeleted(did[d])'
           /\ \A d \in Deleters : dpc'[d] = "archive" => did'[d] \in logged'
<1> USE DEF HeldInv, BeingDeleted
<1>0. TypeOK
    BY DEF IInv
<1>1. ASSUME NEW d \in Deleters, NEW i \in Requests, DelLookup(d, i)
      PROVE  /\ logged' = logged
             /\ \A r \in Requests : BeingDeleted(r) => BeingDeleted(r)'
             /\ \A e \in Deleters : dpc'[e] = "archive" => did'[e] \in logged'
    BY <1>0, <1>1 DEF DelLookup, TypeOK, storeVars
<1>2. ASSUME NEW d \in Deleters, DelArchive(d) \/ DelScore(d)
      PROVE  /\ logged' = logged /\ BeingDeleted(did[d])'
             /\ \A r \in Requests : BeingDeleted(r) => BeingDeleted(r)'
             /\ \A e \in Deleters : dpc'[e] = "archive" => did'[e] \in logged'
    BY <1>0, <1>2 DEF DelArchive, DelScore, ArchiveGone, DelGoto, TypeOK
<1>3. ASSUME NEW d \in Deleters, DelEntry(d)
      PROVE  /\ logged' = logged \ {did[d]}
             /\ \A r \in logged' : BeingDeleted(r) => BeingDeleted(r)'
             /\ \A e \in Deleters : dpc'[e] # "archive"
  <2>1. logged' = logged \ {did[d]}
      BY <1>3 DEF DelEntry, Readable, RemoveEntry
  <2>2. dpc' = [dpc EXCEPT ![d] = "idle"] /\ did' = [did EXCEPT ![d] = None]
      BY <1>3 DEF DelEntry, DelReturn
  <2>3. \A e \in Deleters : e # d => dpc[e] = "idle" /\ dpc'[e] = dpc[e] /\ did'[e] = did[e]
      BY <1>0, <1>3, <2>2 DEF DelEntry, OneDelete, TypeOK
  <2> QED
      BY <1>0, <2>1, <2>2, <2>3 DEF TypeOK
<1>4. ASSUME NEW r \in Requests, Record(r)
      PROVE  /\ logged' = logged \cup {r} /\ pc[r] = "recording"
             /\ UNCHANGED <<archives, up, dpc, did>>
    BY <1>4 DEF Record, Append, delVars
<1>5. CASE UNCHANGED <<logged, dpc, did>>
    BY <1>0, <1>5, <1>2
<1>6. \/ \E d \in Deleters, i \in Requests : DelLookup(d, i)
      \/ \E d \in Deleters : DelArchive(d) \/ DelScore(d) \/ DelEntry(d)
      \/ \E r \in Requests : Record(r)
      \/ UNCHANGED <<logged, dpc, did>>
  <2>1. ASSUME NEW r \in Requests, Receive(r) \/ Submit(r) \/ Disconnect(r), ~Record(r)
        PROVE  UNCHANGED <<logged, dpc, did>>
      BY <2>1 DEF Submit, storeVars, delVars, Receive, Validate, Scan, SaveOpen,
         SaveCopy, SavePut, ReadConfig, AutoChecks, SetScore, Disconnect
  <2>2. ASSUME NEW s \in Scorers, NEW i \in Requests, NEW q \in IRQs,
               ScoreLookup(s, i, q)
        PROVE  UNCHANGED <<logged, dpc, did>>
      BY <2>2 DEF storeVars, delVars, ScoreLookup
  <2>3. ASSUME NEW s \in Scorers, Score(s) PROVE UNCHANGED <<logged, dpc, did>>
      BY <2>3 DEF Score, storeVars, delVars, ScoreGet, ScoreSet
  <2>4. ASSUME NEW v \in Viewers, ViewEntries(v) \/ ViewScores(v)
        PROVE  UNCHANGED <<logged, dpc, did>>
      BY <2>4 DEF storeVars, delVars, ViewEntries, ViewScores
  <2>5. CASE Configure \/ UNCHANGED vars
      BY <2>5 DEF Configure, vars, storeVars, delVars
  <2> QED
      BY <2>1, <2>2, <2>3, <2>4, <2>5, Zenon DEF Next, Delete, Crash
<1>7. \A d \in Deleters : DelArchive(d) => BeingDeleted(did[d])'
    BY <1>2
<1> QED
    BY <1>0, <1>1, <1>2, <1>3, <1>4, <1>5, <1>6, <1>7 DEF TypeOK

LEMMA NextHeldInv ==
    ASSUME Local, IInv, KeptInv, HeldInv, OneDelete, [Next]_vars PROVE HeldInv'
<1> SUFFICES ASSUME faults' = 0
             PROVE  /\ \A r \in Requests : pc'[r] \in Keeping => Holds(r)'
                    /\ \A r \in logged' : BeingDeleted(r)' \/ Holds(r)'
                    /\ \A d \in Deleters : dpc'[d] = "archive" => did'[d] \in logged'
    BY DEF HeldInv
<1>0. faults = 0 /\ ~Fault /\ tail = "clean" /\ TypeOK
    BY NoFaultYet DEF KeptInv, IInv
<1>1. /\ \A r \in Requests : r \in logged' =>
            r \in logged \/ (pc[r] = "recording" /\ UNCHANGED archives /\ UNCHANGED up)
      /\ \A r \in logged' : BeingDeleted(r) => BeingDeleted(r)'
      /\ \A d \in Deleters : DelArchive(d) => BeingDeleted(did[d])'
      /\ \A d \in Deleters : dpc'[d] = "archive" => did'[d] \in logged'
    BY <1>0, DeletionSteps
<1>2. ASSUME NEW r \in Requests, pc'[r] \in Keeping PROVE Holds(r)'
  <2>1. CASE pc[r] \in Keeping
    <3>1. Holds(r)
        BY <1>0, <2>1 DEF HeldInv
    <3>2. ~\E d \in Deleters : DelArchive(d) /\ did[d] = r
        BY <1>0, <2>1 DEF HeldInv, IInv, ListedInv, DelArchive, Keeping
    <3> QED
        BY <1>0, <3>1, <3>2, HoldsOn
  <2>2. CASE SaveOpen(r) /\ pc[r] \notin Keeping
    <3>1. /\ archives' = [archives EXCEPT ![up[r].file] = [owner |-> r, whole |-> FALSE]]
          /\ up' = up
        BY <1>0, <1>2, <2>2 DEF SaveOpen, Answer, TypeOK, Keeping
    <3>2. up[r].file \in Files
      <4>1. up[r] \in Upload
          BY <1>0, UploadsAssumption DEF TypeOK
      <4>2. up[r].file # None
          BY <2>2 DEF SaveOpen, IInv, RequestInv, Accepted, Valid
      <4> QED
          BY <4>1, <4>2 DEF Upload
    <3>3. [owner |-> r, whole |-> FALSE] # None
      <4>1. [owner |-> r, whole |-> FALSE] \in Archive
          BY DEF Archive
      <4> QED
          BY <4>1, NoneAssumption
    <3> QED
        BY <1>0, <3>1, <3>2, <3>3 DEF Holds, Owns, TypeOK
  <2> QED
      BY <1>0, <1>2, <2>1, <2>2, KeepingSteps
<1>3. ASSUME NEW r \in logged', ~BeingDeleted(r)' PROVE Holds(r)'
  <2>1. r \in Requests
    <3>1. logged' \subseteq Requests
        BY NextIInv DEF IInv, TypeOK
    <3> QED
        BY <3>1
  <2>2. CASE r \in logged
    <3>1. Holds(r)
        BY <1>0, <1>1, <1>3, <2>2 DEF HeldInv
    <3>2. ASSUME NEW d \in Deleters, DelArchive(d), did[d] = r PROVE FALSE
      <4>1. BeingDeleted(did[d])'
          BY <1>1, <3>2
      <4>2. did' = did
          BY <1>0, <3>2 DEF DelArchive, ArchiveGone, DelGoto
      <4> QED
          BY <1>3, <3>2, <4>1, <4>2 DEF BeingDeleted
    <3> QED
        BY <1>0, <2>1, <3>1, <3>2, HoldsOn
  <2>3. CASE pc[r] = "recording" /\ UNCHANGED archives /\ UNCHANGED up
      BY <1>0, <2>1, <2>3 DEF HeldInv, Keeping, Holds, Owns
  <2> QED
      BY <1>1, <2>1, <2>2, <2>3
<1> QED
    BY <1>1, <1>2, <1>3

LEMMA InitHeldInv == Init => HeldInv
    BY DEF Init, HeldInv, Keeping

\* Until something fails, and while deletions do not overlap, a submission
\* the log lists has its archive on local storage, or is being deleted.
THEOREM ListedKeepsArchive ==
    ASSUME Local PROVE Spec /\ []OneDelete => []ListedHasArchive
<1>1. Init => KeptInv
    BY DEF Init, KeptInv, KeptIsListed
<1>2. IInv /\ KeptInv /\ HeldInv /\ OneDelete /\ [Next]_vars => HeldInv'
    BY NextHeldInv
<1>3. HeldInv => ListedHasArchive
    BY DEF HeldInv, ListedHasArchive, Holds
<1> QED
    BY Invariance, NextKeptInv, InitHeldInv, <1>1, <1>2, <1>3, PTL DEF Spec

\* A delete handler takes away the archive of its own submission only, up
\* to the first failure (after one, a retry may take a newer upload's: see
\* DeletesOnlyItsOwn).
DeletesItsOwn ==
    faults = 0 /\ faults' = 0 =>
        \A d \in Deleters, f \in Files :
            DelArchive(d) /\ archives[f] # None /\ archives'[f] = None
                => archives[f].owner = did[d]

LEMMA StepDeletesItsOwn ==
    ASSUME Local, IInv, HeldInv, OneDelete, [Next]_vars PROVE DeletesItsOwn
<1> SUFFICES ASSUME faults = 0, faults' = 0, NEW d \in Deleters, NEW f \in Files,
                    DelArchive(d), archives[f] # None, archives'[f] = None
             PROVE  archives[f].owner = did[d]
    BY DEF DeletesItsOwn
<1>1. ~Fault
    BY NoFaultYet
<1>2. did[d] \in logged /\ ~BeingDeleted(did[d])
    BY DEF DelArchive, HeldInv, BeingDeleted, OneDelete
<1>3. Holds(did[d])
    BY <1>2 DEF HeldInv
<1>4. archives' = [archives EXCEPT ![up[did[d]].file] = None]
    BY <1>1 DEF DelArchive
<1>5. f = up[did[d]].file
    BY <1>4 DEF IInv, TypeOK
<1> QED
    BY <1>3, <1>5 DEF Holds, Owns

\* Until something fails, and while deletions do not overlap, store.Delete
\* never removes the archive of another submission than the one deleted.
THEOREM OwnUntilFailure ==
    ASSUME Local PROVE Spec /\ []OneDelete => [][DeletesItsOwn]_vars
<1>1. Init => KeptInv
    BY DEF Init, KeptInv, KeptIsListed
<1>2. IInv /\ KeptInv /\ HeldInv /\ OneDelete /\ [Next]_vars => HeldInv'
    BY NextHeldInv
<1>3. IInv /\ HeldInv /\ OneDelete /\ [Next]_vars => [DeletesItsOwn]_vars
    BY StepDeletesItsOwn
<1> QED
    BY Invariance, NextKeptInv, InitHeldInv, <1>1, <1>2, <1>3, PTL DEF Spec

-----------------------------------------------------------------------------
(* What a row of the summary shows while nothing fails.                    *)

HasScore(r) == scores[r] # None /\ scores[r].scored
WasScored(r) == result[r] # None /\ result[r].scored
Leaving(r) == r \in removed \/ BeingDeleted(r)

\* A scored submission has a scored record from the step before its entry on,
\* until it leaves; a viewer's rows were all listed once.
RowInv ==
    faults = 0 =>
        /\ \A r \in Requests : pc[r] = "recording" \/ r \in logged =>
               (WasScored(r) => HasScore(r) \/ Leaving(r))
        /\ \A v \in Viewers : vrows[v] \subseteq logged \cup removed
        /\ RowsShowTheirScore

\* A deletion past its first step ends with the entry removed.
LEMMA LeavingStays ==
    ASSUME IInv, [Next]_vars, ~Fault, tail = "clean", NEW r \in Requests, Leaving(r)
    PROVE  Leaving(r)'
<1> USE DEF Leaving, BeingDeleted
<1>0. TypeOK
    BY DEF IInv
<1>1. ASSUME NEW d \in Deleters, NEW i \in Requests, DelLookup(d, i) PROVE Leaving(r)'
    BY <1>0, <1>1 DEF DelLookup, TypeOK
<1>2. ASSUME NEW d \in Deleters, DelArchive(d) \/ DelScore(d) PROVE Leaving(r)'
    BY <1>0, <1>2 DEF DelArchive, DelScore, ArchiveGone, DelGoto, TypeOK
<1>3. ASSUME NEW d \in Deleters, DelEntry(d) PROVE Leaving(r)'
  <2>1. removed' = removed \cup (logged \cap {did[d]})
      BY <1>3 DEF DelEntry, Readable, RemoveEntry
  <2>2. did[d] \in removed'
      BY <1>3, <2>1 DEF IInv, DeleterInv, DelEntry
  <2>3. \A e \in Deleters : e # d => dpc'[e] = dpc[e] /\ did'[e] = did[e]
      BY <1>0, <1>3 DEF DelEntry, DelReturn, TypeOK
  <2> QED
      BY <2>1, <2>2, <2>3
<1>4. CASE UNCHANGED <<dpc, did, removed>>
    BY <1>4
<1>5. ASSUME NEW q \in Requests, SetScore(q) \/ Record(q) \/ SaveOpen(q)
                                   \/ SaveCopy(q) \/ SavePut(q)
      PROVE  UNCHANGED <<dpc, did, removed>>
    BY <1>5 DEF SetScore, Record, SaveOpen, SaveCopy, SavePut, delVars
<1>6. ASSUME NEW s \in Scorers, ScoreSet(s) PROVE UNCHANGED <<dpc, did, removed>>
    BY <1>6 DEF ScoreSet, delVars
<1> QED
    BY <1>1, <1>2, <1>3, <1>4, <1>5, <1>6, OthersKeepStores DEF Delete, Crash

\* Only the deletion of a submission takes its automatic half away.
LEMMA ScoreStays ==
    ASSUME IInv, [Next]_vars, ~Fault, tail = "clean", NEW r \in Requests, HasScore(r)
    PROVE  HasScore(r)' \/ Leaving(r)'
<1> USE DEF HasScore
<1>0. TypeOK
    BY DEF IInv
<1>1. ASSUME NEW q \in Requests, SetScore(q) PROVE HasScore(r)'
    BY <1>0, <1>1 DEF SetScore, IInv, ListedInv, TypeOK
<1>2. ASSUME NEW d \in Deleters, DelScore(d) PROVE HasScore(r)' \/ Leaving(r)'
  <2>1. scores' = [scores EXCEPT ![did[d]] = None]
        /\ dpc' = [dpc EXCEPT ![d] = "entry"] /\ did' = did
      BY <1>2 DEF DelScore, DelGoto
  <2>2. CASE did[d] = r
      BY <1>0, <2>1, <2>2 DEF Leaving, BeingDeleted, TypeOK
  <2>3. CASE did[d] # r
      BY <1>0, <2>1, <2>3 DEF TypeOK
  <2> QED
      BY <2>2, <2>3
<1>3. ASSUME NEW s \in Scorers, ScoreSet(s) PROVE HasScore(r)'
  <2>1. ssnap[s] \in Result /\ ssnap[s].scored /\ sirq[s] \in IRQs
      BY <1>0, <1>3 DEF ScoreSet, IInv, ScorerInv, TypeOK
  <2>2. WithManual(ssnap[s], sirq[s]) \in Result /\ WithManual(ssnap[s], sirq[s]).scored
      BY <2>1 DEF WithManual, Result
  <2>3. scores'[r] = scores[r] \/ scores'[r] = WithManual(ssnap[s], sirq[s])
      BY <1>0, <1>3 DEF ScoreSet, TypeOK
  <2> QED
      BY <2>2, <2>3, NoneAssumption
<1>4. CASE UNCHANGED scores
    BY <1>4
<1>5. ASSUME NEW q \in Requests, Record(q) \/ SaveOpen(q) \/ SaveCopy(q) \/ SavePut(q)
      PROVE  UNCHANGED scores
    BY <1>5 DEF Record, SaveOpen, SaveCopy, SavePut
<1>6. ASSUME NEW d \in Deleters, NEW i \in Requests,
             DelArchive(d) \/ DelEntry(d) \/ DelLookup(d, i)
      PROVE  UNCHANGED scores
    BY <1>6 DEF DelArchive, DelEntry, DelLookup, storeVars
<1> QED
    BY <1>1, <1>2, <1>3, <1>4, <1>5, <1>6, OthersKeepStores DEF Delete, Crash

\* What the last two steps of a submit handler see.
LEMMA RecordingSteps ==
    ASSUME IInv, [Next]_vars, ~Fault, tail = "clean"
    PROVE  /\ \A r \in Requests : pc[r] \in {"recording", "done"} => result'[r] = result[r]
           /\ \A r \in Requests : pc'[r] = "recording" =>
                 pc[r] = "recording" \/ (WasScored(r)' => HasScore(r)')
           /\ \A r \in Requests : r \in logged' => r \in logged \/ pc[r] = "recording"
           /\ logged \cup removed \subseteq logged' \cup removed'
<1>0. TypeOK
    BY DEF IInv
<1> DEFINE Facts ==
        /\ \A r \in Requests : pc[r] \in {"recording", "done"} => result'[r] = result[r]
        /\ \A r \in Requests : pc'[r] = "recording" =>
              pc[r] = "recording" \/ (WasScored(r)' => HasScore(r)')
        /\ \A r \in Requests : r \in logged' => r \in logged \/ pc[r] = "recording"
        /\ logged \cup removed \subseteq logged' \cup removed'
<1> SUFFICES Facts
    OBVIOUS
<1>1. ASSUME NEW q \in Requests, SetScore(q) PROVE Facts
  <2>1. scores' = [scores EXCEPT ![q] = result[q]] /\ pc' = [pc EXCEPT ![q] = "recording"]
        /\ UNCHANGED <<result, logged, removed>>
      BY <1>1 DEF SetScore, Goto, delVars
  <2>2. scores'[q] = result'[q]
      BY <1>0, <2>1 DEF TypeOK
  <2> QED
      BY <1>0, <2>1, <2>2 DEF WasScored, HasScore, TypeOK
<1>2. ASSUME NEW q \in Requests, ReadConfig(q) \/ AutoChecks(q) PROVE Facts
    BY <1>0, <1>2 DEF ReadConfig, AutoChecks, AfterConfig, Goto, storeVars, delVars, TypeOK
<1>3. ASSUME NEW q \in Requests, Record(q) PROVE Facts
    BY <1>0, <1>3 DEF Record, Append, Answer, delVars, TypeOK
<1>4. ASSUME NEW q \in Requests,
             Receive(q) \/ Validate(q) \/ Scan(q) \/ SaveOpen(q) \/ SaveCopy(q)
                \/ SavePut(q) \/ Disconnect(q)
      PROVE  Facts
  <2>1. UNCHANGED <<result, logged, removed>>
      BY <1>4 DEF Receive, Validate, Scan, SaveOpen, SaveCopy, SavePut, Disconnect,
         storeVars, delVars
  <2>2. \A r \in Requests : pc'[r] = "recording" => pc[r] = "recording"
      BY <1>0, <1>4 DEF Receive, Validate, Scan, SaveOpen, SaveCopy, SavePut,
         Disconnect, Answer, Goto, AfterValidation, TypeOK
  <2> QED
      BY <2>1, <2>2
<1>5. ASSUME NEW d \in Deleters, DelEntry(d) PROVE Facts
  <2>1. UNCHANGED <<result, pc>> /\ logged' = logged \ {did[d]}
        /\ removed' = removed \cup (logged \cap {did[d]})
      BY <1>5 DEF DelEntry, Readable, RemoveEntry, reqVars
  <2> QED
      BY <2>1
<1>6. CASE UNCHANGED <<result, pc, logged, removed>>
    BY <1>6
<1>7. ASSUME NEW d \in Deleters, NEW i \in Requests,
             DelArchive(d) \/ DelScore(d) \/ DelLookup(d, i)
      PROVE  UNCHANGED <<result, pc, logged, removed>>
    BY <1>7 DEF DelArchive, DelScore, DelLookup, reqVars, storeVars
<1>8. ASSUME NEW s \in Scorers, NEW i \in Requests, NEW z \in IRQs,
             ScoreGet(s) \/ ScoreSet(s) \/ ScoreLookup(s, i, z)
      PROVE  UNCHANGED <<result, pc, logged, removed>>
    BY <1>8 DEF ScoreGet, ScoreSet, ScoreLookup, reqVars, storeVars, delVars
<1>9. ASSUME NEW v \in Viewers, ViewEntries(v) \/ ViewScores(v)
      PROVE  UNCHANGED <<result, pc, logged, removed>>
    BY <1>9 DEF ViewEntries, ViewScores, reqVars, storeVars, delVars
<1>10. CASE Configure \/ UNCHANGED vars
    BY <1>6, <1>10 DEF Configure, vars, reqVars, storeVars, delVars
<1>11. ASSUME NEW s \in Scorers, Score(s) PROVE UNCHANGED <<result, pc, logged, removed>>
    BY <1>11 DEF Score, ScoreGet, ScoreSet, reqVars, storeVars, delVars
<1>12. ASSUME NEW d \in Deleters, Delete(d) PROVE Facts
    BY <1>5, <1>6, <1>12 DEF Delete, DelArchive, DelScore, reqVars
<1> HIDE DEF Facts
<1> QED
    BY <1>1, <1>2, <1>3, <1>4, <1>6, <1>7, <1>8, <1>9, <1>10, <1>11, <1>12, Zenon
       DEF Next, Submit, Crash

LEMMA ViewerSteps ==
    ASSUME IInv, [Next]_vars, ~Fault, NEW v \in Viewers
    PROVE  \/ vpc'[v] = vpc[v] /\ vrows'[v] = vrows[v] /\ vscored'[v] = vscored[v]
           \/ vpc'[v] = "join" /\ vrows'[v] = logged
           \/ /\ vrows'[v] = vrows[v]
              /\ vscored'[v] = {i \in vrows[v] : HasScore(i)}
<1>1. ASSUME NEW w \in Viewers, ViewEntries(w) \/ ViewScores(w)
      PROVE  \/ vpc'[v] = vpc[v] /\ vrows'[v] = vrows[v] /\ vscored'[v] = vscored[v]
             \/ vpc'[v] = "join" /\ vrows'[v] = logged
             \/ /\ vrows'[v] = vrows[v]
                /\ vscored'[v] = {i \in vrows[v] : HasScore(i)}
    BY <1>1 DEF ViewEntries, ViewScores, ShownScored, HasScore, IInv, TypeOK
<1>2. CASE UNCHANGED viewVars
    BY <1>2 DEF viewVars
<1>3. ASSUME NEW r \in Requests, Receive(r) \/ Submit(r) \/ Disconnect(r)
      PROVE  UNCHANGED viewVars
    BY <1>3 DEF Submit, Receive, Validate, Scan, SaveOpen, SaveCopy, SavePut,
       ReadConfig, AutoChecks, SetScore, Record, Disconnect
<1>4. ASSUME NEW d \in Deleters, Delete(d) \/ \E i \in Requests : DelLookup(d, i)
      PROVE  UNCHANGED viewVars
    BY <1>4 DEF Delete, DelArchive, DelScore, DelEntry, DelLookup
<1>5. ASSUME NEW s \in Scorers,
             Score(s) \/ \E i \in Requests, z \in IRQs : ScoreLookup(s, i, z)
      PROVE  UNCHANGED viewVars
    BY <1>5 DEF Score, ScoreGet, ScoreSet, ScoreLookup
<1>6. CASE Configure \/ UNCHANGED vars
    BY <1>2, <1>6 DEF Configure, vars
<1> QED
    BY <1>1, <1>2, <1>3, <1>4, <1>5, <1>6 DEF Next, Crash

LEMMA NextRowInv == ASSUME IInv, KeptInv, RowInv, [Next]_vars PROVE RowInv'
<1> SUFFICES ASSUME faults' = 0
             PROVE  /\ \A r \in Requests : pc'[r] = "recording" \/ r \in logged' =>
                           (WasScored(r)' => HasScore(r)' \/ Leaving(r)')
                    /\ \A v \in Viewers : vrows'[v] \subseteq logged' \cup removed'
                    /\ RowsShowTheirScore'
    BY DEF RowInv
<1>0. faults = 0 /\ ~Fault /\ tail = "clean" /\ TypeOK
    BY NoFaultYet DEF KeptInv, IInv
<1>1. /\ \A r \in Requests : pc[r] \in {"recording", "done"} => result'[r] = result[r]
      /\ \A r \in Requests : pc'[r] = "recording" =>
            pc[r] = "recording" \/ (WasScored(r)' => HasScore(r)')
      /\ \A r \in Requests : r \in logged' => r \in logged \/ pc[r] = "recording"
      /\ logged \cup removed \subseteq logged' \cup removed'
    BY <1>0, RecordingSteps
<1>2. ASSUME NEW r \in Requests, pc'[r] = "recording" \/ r \in logged', WasScored(r)'
      PROVE  HasScore(r)' \/ Leaving(r)'
  <2>1. CASE pc[r] = "recording" \/ r \in logged
    <3>1. result'[r] = result[r]
        BY <1>1, <2>1 DEF IInv, ListedInv
    <3>2. HasScore(r) \/ Leaving(r)
        BY <1>0, <1>2, <2>1, <3>1 DEF RowInv, WasScored
    <3> QED
        BY <1>0, <3>2, ScoreStays, LeavingStays
  <2>2. CASE ~(pc[r] = "recording" \/ r \in logged)
      BY <1>1, <1>2, <2>2
  <2> QED
      BY <2>1, <2>2
<1>3. ASSUME NEW v \in Viewers PROVE vrows'[v] \subseteq logged' \cup removed'
    BY <1>0, <1>1, ViewerSteps DEF RowInv
<1>4. ASSUME NEW v \in Viewers, NEW r \in vrows'[v], vpc'[v] = "shown", WasScored(r)'
      PROVE  r \in vscored'[v] \/ Leaving(r)'
  <2>1. vrows'[v] = vrows[v] /\ (\/ vpc[v] = "shown" /\ vscored'[v] = vscored[v]
                                \/ vscored'[v] = {i \in vrows[v] : HasScore(i)})
      BY <1>0, <1>4, ViewerSteps
  <2>2. r \in logged \cup removed /\ r \in Requests
      BY <1>0, <1>4, <2>1 DEF RowInv, TypeOK
  <2>3. WasScored(r)
      BY <1>1, <1>4, <2>2 DEF WasScored, IInv, ListedInv
  <2>4. r \in vscored'[v] \/ Leaving(r)
    <3>1. CASE vpc[v] = "shown" /\ vscored'[v] = vscored[v]
        BY <1>0, <1>4, <2>1, <2>3, <3>1 DEF RowInv, RowsShowTheirScore, Leaving, WasScored
    <3>2. CASE vscored'[v] = {i \in vrows[v] : HasScore(i)}
        BY <1>0, <1>4, <2>1, <2>2, <2>3, <3>2 DEF RowInv, Leaving
    <3> QED
        BY <2>1, <3>1, <3>2
  <2> QED
      BY <1>0, <2>2, <2>4, LeavingStays
<1>5. RowsShowTheirScore'
    BY <1>4 DEF RowsShowTheirScore, WasScored, Leaving
<1> QED
    BY <1>2, <1>3, <1>5

\* Until something fails, whatever the admins and the other submissions do
\* between the two reads, a summary row shows "not yet scored" only for a
\* submission that was not scored, or that has been or is being deleted.
THEOREM RowsAreTrue == Spec => []RowsShowTheirScore
<1>1. Init => KeptInv
    BY DEF Init, KeptInv, KeptIsListed
<1>2. Init => RowInv
    BY DEF Init, RowInv, RowsShowTheirScore
<1>3. IInv /\ KeptInv /\ RowInv /\ [Next]_vars => RowInv'
    BY NextRowInv
<1>4. IInv /\ RowInv => RowsShowTheirScore
  <2>1. CASE faults = 0
      BY <2>1 DEF RowInv
  <2>2. CASE faults # 0
      BY <2>2 DEF RowsShowTheirScore
  <2> QED
      BY <2>1, <2>2
<1> QED
    BY Invariance, NextKeptInv, <1>1, <1>2, <1>3, <1>4, PTL DEF Spec

\* What a 200 stands for until something fails: the submission is listed,
\* with a scored record if it was scored, or has been deleted since.
AnsweredInv ==
    faults = 0 => \A r \in Requests : status[r] = 200 => r \in logged \cup removed

AcceptedIsKept ==
    faults = 0 => \A r \in Requests : status[r] = 200 =>
        /\ r \in logged \cup removed
        /\ WasScored(r) => HasScore(r) \/ Leaving(r)

LEMMA NextAnsweredInv == ASSUME IInv, KeptInv, AnsweredInv, [Next]_vars PROVE AnsweredInv'
<1> SUFFICES ASSUME faults' = 0, NEW r \in Requests, status'[r] = 200
             PROVE  r \in logged' \cup removed'
    BY DEF AnsweredInv
<1>0. faults = 0 /\ ~Fault /\ tail = "clean" /\ TypeOK
    BY NoFaultYet DEF KeptInv, IInv
<1>1. logged \cup removed \subseteq logged' \cup removed'
    BY <1>0, RecordingSteps
<1>2. CASE status[r] = 200
    BY <1>0, <1>1, <1>2 DEF AnsweredInv
<1>3. CASE Record(r)
    BY <1>0, <1>3 DEF Record, Append
<1>4. ASSUME NEW q \in Requests, Receive(q) \/ Submit(q) \/ Disconnect(q), ~Record(r)
      PROVE  status[r] = 200
  <2>1. CASE Record(q)
    <3>1. q # r
        BY <1>4, <2>1
    <3> QED
        BY <1>0, <2>1, <3>1 DEF Record, Answer, TypeOK
  <2>2. CASE ~Record(q)
      BY <1>0, <1>4, <2>2 DEF Submit, Receive, Validate, Scan, SaveOpen, SaveCopy,
         SavePut, ReadConfig, AutoChecks, SetScore, Disconnect, Answer, Goto,
         Rejection, CopyFailed, TypeOK
  <2> QED
      BY <2>1, <2>2
<1>5. CASE UNCHANGED status
    BY <1>2, <1>5
<1>6. ASSUME NEW d \in Deleters, Delete(d) \/ \E i \in Requests : DelLookup(d, i)
      PROVE  UNCHANGED status
    BY <1>6 DEF Delete, DelArchive, DelScore, DelEntry, DelLookup, reqVars
<1>7. ASSUME NEW s \in Scorers,
             Score(s) \/ \E i \in Requests, z \in IRQs : ScoreLookup(s, i, z)
      PROVE  UNCHANGED status
    BY <1>7 DEF Score, ScoreGet, ScoreSet, ScoreLookup, reqVars
<1>8. ASSUME NEW v \in Viewers, ViewEntries(v) \/ ViewScores(v) PROVE UNCHANGED status
    BY <1>8 DEF ViewEntries, ViewScores, reqVars
<1>9. CASE Configure \/ UNCHANGED vars
    BY <1>5, <1>9 DEF Configure, vars, reqVars
<1> QED
    BY <1>2, <1>3, <1>4, <1>5, <1>6, <1>7, <1>8, <1>9 DEF Next, Crash

\* Until something fails, a validator who was answered 200 is listed, scored
\* if the checks were run, or has been deleted by an admin.
THEOREM AcceptedStaysKept == Spec => []AcceptedIsKept
<1>1. Init => KeptInv /\ RowInv /\ AnsweredInv
    BY DEF Init, KeptInv, KeptIsListed, RowInv, RowsShowTheirScore, AnsweredInv
<1>2. IInv /\ KeptInv /\ RowInv /\ [Next]_vars => RowInv'
    BY NextRowInv
<1>3. IInv /\ KeptInv /\ AnsweredInv /\ [Next]_vars => AnsweredInv'
    BY NextAnsweredInv
<1>4. IInv /\ RowInv /\ AnsweredInv => AcceptedIsKept
    BY DEF RowInv, AnsweredInv, AcceptedIsKept, Leaving
<1> QED
    BY Invariance, NextKeptInv, <1>1, <1>2, <1>3, <1>4, PTL DEF Spec
=============================================================================
