--------------------------- MODULE SettlementProofs ---------------------------
(***************************************************************************)
(* Theorems about Settlement for every set of jobs, workers and handlers,  *)
(* every target and any number of faults: what money moves on, and what is *)
(* said about it afterwards.                                               *)
(***************************************************************************)
EXTENDS Settlement, TLAPS

\* A measurement of the very artifact that job j was delivered with.
MeasuredFor(j, s) ==
  s \in Snapshot /\ s \in snapshots /\ s.job = j /\ s.artifact = Delivered[j].artifact

\* A report that judges such a measurement by the job's own predicate.
JudgedOn(j, r) ==
  /\ r \in Report /\ MeasuredFor(j, r.snapshot)
  /\ r.accepted <=> MeetsTarget(r.snapshot.measured)

OutcomeOf(r) == IF r.accepted THEN "SETTLED" ELSE "REFUNDED"
ValueOf(r) == IF r.accepted THEN 100 ELSE 0

(* What a process holds between two awaits, and what stays true of it      *)
(* whatever the others do: measurements are never removed, and a verdict,  *)
(* once on the chain, never changes.                                       *)
Holds(p) ==
  \/ work[p] = Idle
  \/ \E j \in JobIds :
       \/ work[p] = [step |-> "verifying", job |-> j, committed |-> Delivered[j].artifact]
       \/ \E s \in Snapshot :
            work[p] = [step |-> "recording", job |-> j, snapshot |-> s] /\ MeasuredFor(j, s)
       \/ \E r \in Report :
            work[p] = [step |-> "judging", job |-> j, report |-> r] /\ JudgedOn(j, r)
       \/ \E r \in Report :
            work[p] = [step |-> "judged", job |-> j, report |-> r] /\ verdict[j] = r
       \/ \E r \in Report :
            /\ work[p] = [step |-> "reviewing", job |-> j, value |-> ValueOf(r)]
            /\ verdict[j] = r
       \/ work[p] = [step |-> "reviewed", job |-> j]

Processes == Verifiers \cup Handlers

ChainSound ==
  /\ job \in [JobIds -> Job]
  /\ \A j \in JobIds : job[j].artifact = Delivered[j].artifact

VerdictSound(j) ==
  verdict[j] # NoReport => JudgedOn(j, verdict[j]) /\ job[j].status = OutcomeOf(verdict[j])

RowSound(j) ==
  /\ row[j].deliverable = Delivered[j].artifact
  /\ row[j].snapshot # NoSnapshot => MeasuredFor(j, row[j].snapshot)
  /\ row[j].accepted # "null" =>
       /\ verdict[j] # NoReport
       /\ row[j].accepted = IF verdict[j].accepted THEN "yes" ELSE "no"
  /\ row[j].status \in {"SETTLED", "REFUNDED"} =>
       row[j].accepted # "null" /\ row[j].status = OutcomeOf(verdict[j])

FeedbackSound(j) ==
  \A i \in 1..Len(feedback[j]) : verdict[j] # NoReport /\ feedback[j][i] = ValueOf(verdict[j])

Types ==
  /\ row \in [JobIds -> Row]
  /\ stored \in [JobIds -> Artifacts \cup {NoArtifact}]
  /\ copy \in [Verifiers -> [JobIds -> Artifacts \cup {NoArtifact}]]
  /\ snapshots \subseteq Snapshot
  /\ verdict \in [JobIds -> Report \cup {NoReport}]
  /\ feedback \in [JobIds -> Seq({0, 100})]
  /\ DOMAIN work = Processes
  /\ faults \in 0..MaxFaults

SettleInv ==
  /\ Types
  /\ ChainSound
  /\ \A j \in JobIds : VerdictSound(j)
  /\ \A j \in JobIds : RowSound(j)
  /\ \A j \in JobIds : FeedbackSound(j)
  /\ \A p \in Processes : Holds(p)

-----------------------------------------------------------------------------
(* What survives the steps of others.                                      *)

\* Measurements are only added, and verdicts never replaced.
OnlyGrows ==
  /\ snapshots \subseteq snapshots'
  /\ \A j \in JobIds : verdict[j] # NoReport => verdict'[j] = verdict[j]

LEMMA MeasuredStays ==
  ASSUME OnlyGrows, NEW j, NEW s, MeasuredFor(j, s)
  PROVE  MeasuredFor(j, s)'
BY DEF OnlyGrows, MeasuredFor

LEMMA JudgedStays ==
  ASSUME OnlyGrows, NEW j, NEW r, JudgedOn(j, r)
  PROVE  JudgedOn(j, r)'
BY MeasuredStays DEF JudgedOn

LEMMA HoldsStays ==
  ASSUME OnlyGrows, NEW p, Holds(p), work'[p] = work[p]
  PROVE  Holds(p)'
<1>1. CASE work[p] = Idle  BY <1>1 DEF Holds
<1>2. ASSUME NEW j \in JobIds,
             work[p] = [step |-> "verifying", job |-> j, committed |-> Delivered[j].artifact]
      PROVE  Holds(p)'
  BY <1>2 DEF Holds
<1>3. ASSUME NEW j \in JobIds, NEW s \in Snapshot, MeasuredFor(j, s),
             work[p] = [step |-> "recording", job |-> j, snapshot |-> s]
      PROVE  Holds(p)'
  BY <1>3, MeasuredStays DEF Holds
<1>4. ASSUME NEW j \in JobIds, NEW r \in Report, JudgedOn(j, r),
             work[p] = [step |-> "judging", job |-> j, report |-> r]
      PROVE  Holds(p)'
  BY <1>4, JudgedStays DEF Holds
<1>5. ASSUME NEW j \in JobIds, NEW r \in Report, verdict[j] = r,
             \/ work[p] = [step |-> "judged", job |-> j, report |-> r]
             \/ work[p] = [step |-> "reviewing", job |-> j, value |-> ValueOf(r)]
      PROVE  Holds(p)'
  <2>1. verdict'[j] = r  BY <1>5, NullsAssumption DEF OnlyGrows
  <2> QED  BY <1>5, <2>1 DEF Holds, ValueOf
<1>6. ASSUME NEW j \in JobIds, work[p] = [step |-> "reviewed", job |-> j]
      PROVE  Holds(p)'
  BY <1>6 DEF Holds
<1> QED  BY <1>1, <1>2, <1>3, <1>4, <1>5, <1>6 DEF Holds

\* One process goes on; the others keep what they hold.
LEMMA OthersHold ==
  ASSUME SettleInv, OnlyGrows, NEW p \in Processes, NEW holding,
         work' = [work EXCEPT ![p] = holding], Holds(p)'
  PROVE  DOMAIN work' = Processes /\ \A q \in Processes : Holds(q)'
<1>1. ASSUME NEW q \in Processes, q # p PROVE Holds(q)'
  <2>1. work'[q] = work[q]  BY <1>1 DEF SettleInv, Types
  <2> QED  BY <2>1, HoldsStays DEF SettleInv
<1> QED  BY <1>1 DEF SettleInv, Types

\* Nobody goes on.
LEMMA AllHold ==
  ASSUME SettleInv, OnlyGrows, UNCHANGED work
  PROVE  DOMAIN work' = Processes /\ \A q \in Processes : Holds(q)'
BY HoldsStays DEF SettleInv, Types

LEMMA ChainKept ==
  ASSUME SettleInv, OnlyGrows, UNCHANGED <<job, verdict>>
  PROVE  /\ ChainSound'
         /\ \A j \in JobIds : VerdictSound(j)'
         /\ \A j \in JobIds : row'[j] = row[j] => RowSound(j)'
         /\ UNCHANGED feedback => \A j \in JobIds : FeedbackSound(j)'
<1>1. ChainSound'  BY DEF SettleInv, ChainSound
<1>2. ASSUME NEW j \in JobIds PROVE VerdictSound(j)'
  BY JudgedStays DEF SettleInv, VerdictSound
<1>3. ASSUME NEW j \in JobIds, row'[j] = row[j] PROVE RowSound(j)'
  BY <1>3, MeasuredStays DEF SettleInv, RowSound
<1>4. ASSUME UNCHANGED feedback, NEW j \in JobIds PROVE FeedbackSound(j)'
  BY <1>4 DEF SettleInv, FeedbackSound
<1> QED  BY <1>1, <1>2, <1>3, <1>4

\* What a process at a given step holds.
LEMMA Held ==
  ASSUME NEW p, Holds(p)
  PROVE  /\ At(p, "verifying") =>
              \E j \in JobIds :
                work[p] = [step |-> "verifying", job |-> j, committed |-> Delivered[j].artifact]
         /\ At(p, "recording") =>
              \E j \in JobIds, s \in Snapshot :
                work[p] = [step |-> "recording", job |-> j, snapshot |-> s] /\ MeasuredFor(j, s)
         /\ At(p, "judging") =>
              \E j \in JobIds, r \in Report :
                work[p] = [step |-> "judging", job |-> j, report |-> r] /\ JudgedOn(j, r)
         /\ At(p, "judged") =>
              \E j \in JobIds, r \in Report :
                work[p] = [step |-> "judged", job |-> j, report |-> r] /\ verdict[j] = r
         /\ At(p, "reviewing") =>
              \E j \in JobIds, r \in Report :
                /\ work[p] = [step |-> "reviewing", job |-> j, value |-> ValueOf(r)]
                /\ verdict[j] = r
         /\ At(p, "reviewed") => \E j \in JobIds : work[p] = [step |-> "reviewed", job |-> j]
<1>1. CASE work[p] = Idle  BY <1>1 DEF Idle, At
<1>2. ASSUME NEW j \in JobIds,
             work[p] = [step |-> "verifying", job |-> j, committed |-> Delivered[j].artifact]
      PROVE  At(p, "verifying") /\ ~At(p, "recording") /\ ~At(p, "judging")
             /\ ~At(p, "judged") /\ ~At(p, "reviewing") /\ ~At(p, "reviewed")
  BY <1>2 DEF At
<1>3. ASSUME NEW j \in JobIds, NEW s \in Snapshot,
             work[p] = [step |-> "recording", job |-> j, snapshot |-> s]
      PROVE  ~At(p, "verifying") /\ At(p, "recording") /\ ~At(p, "judging")
             /\ ~At(p, "judged") /\ ~At(p, "reviewing") /\ ~At(p, "reviewed")
  BY <1>3 DEF At
<1>4. ASSUME NEW j \in JobIds, NEW r \in Report,
             work[p] = [step |-> "judging", job |-> j, report |-> r]
      PROVE  ~At(p, "verifying") /\ ~At(p, "recording") /\ At(p, "judging")
             /\ ~At(p, "judged") /\ ~At(p, "reviewing") /\ ~At(p, "reviewed")
  BY <1>4 DEF At
<1>5. ASSUME NEW j \in JobIds, NEW r \in Report,
             work[p] = [step |-> "judged", job |-> j, report |-> r]
      PROVE  ~At(p, "verifying") /\ ~At(p, "recording") /\ ~At(p, "judging")
             /\ At(p, "judged") /\ ~At(p, "reviewing") /\ ~At(p, "reviewed")
  BY <1>5 DEF At
<1>6. ASSUME NEW j \in JobIds, NEW r \in Report,
             work[p] = [step |-> "reviewing", job |-> j, value |-> ValueOf(r)]
      PROVE  ~At(p, "verifying") /\ ~At(p, "recording") /\ ~At(p, "judging")
             /\ ~At(p, "judged") /\ At(p, "reviewing") /\ ~At(p, "reviewed")
  BY <1>6 DEF At
<1>7. ASSUME NEW j \in JobIds, work[p] = [step |-> "reviewed", job |-> j]
      PROVE  ~At(p, "verifying") /\ ~At(p, "recording") /\ ~At(p, "judging")
             /\ ~At(p, "judged") /\ ~At(p, "reviewing") /\ At(p, "reviewed")
  BY <1>7 DEF At
<1> HIDE DEF At
<1> QED
  <2>1. CASE \E j \in JobIds, s \in Snapshot :
               work[p] = [step |-> "recording", job |-> j, snapshot |-> s] /\ MeasuredFor(j, s)
    BY <2>1, <1>3
  <2>2. CASE \E j \in JobIds, r \in Report :
               work[p] = [step |-> "judging", job |-> j, report |-> r] /\ JudgedOn(j, r)
    BY <2>2, <1>4
  <2>3. CASE \E j \in JobIds, r \in Report :
               work[p] = [step |-> "judged", job |-> j, report |-> r] /\ verdict[j] = r
    BY <2>3, <1>5
  <2>4. CASE \E j \in JobIds, r \in Report :
               /\ work[p] = [step |-> "reviewing", job |-> j, value |-> ValueOf(r)]
               /\ verdict[j] = r
    BY <2>4, <1>6
  <2>5. CASE \E j \in JobIds :
               work[p] = [step |-> "verifying", job |-> j, committed |-> Delivered[j].artifact]
    BY <2>5, <1>2
  <2>6. CASE \E j \in JobIds : work[p] = [step |-> "reviewed", job |-> j]
    BY <2>6, <1>7
  <2> QED  BY <1>1, <2>1, <2>2, <2>3, <2>4, <2>5, <2>6 DEF Holds

LEMMA IdleHolds ==
  ASSUME SettleInv, NEW p \in Processes, work' = [work EXCEPT ![p] = Idle]
  PROVE  Holds(p)'
BY DEF SettleInv, Types, Holds

-----------------------------------------------------------------------------
(* The worker.                                                             *)

\* A row gets another claim, or another measurement of the same artifact.
LEMMA RowRefreshed ==
  ASSUME SettleInv, OnlyGrows, UNCHANGED <<job, verdict, feedback, stored>>,
         faults' \in 0..MaxFaults, snapshots' \subseteq Snapshot,
         copy' \in [Verifiers -> [JobIds -> Artifacts \cup {NoArtifact}]],
         NEW j \in JobIds, NEW r \in Row, row' = [row EXCEPT ![j] = r],
         r.deliverable = row[j].deliverable, r.accepted = row[j].accepted,
         r.status = row[j].status \/ r.status = "ESCROWED",
         r.snapshot = row[j].snapshot \/ MeasuredFor(j, r.snapshot),
         DOMAIN work' = Processes, \A p \in Processes : Holds(p)'
  PROVE  SettleInv'
<1>1. Types'
  <2>1. row' \in [JobIds -> Row]  BY DEF SettleInv, Types
  <2> QED  BY <2>1 DEF SettleInv, Types
<1>2. ASSUME NEW i \in JobIds PROVE RowSound(i)'
  <2>1. CASE i # j
    <3>1. row'[i] = row[i]  BY <2>1 DEF SettleInv, Types
    <3> QED  BY <3>1, ChainKept
  <2>2. CASE i = j
    <3>1. row'[j] = r  BY DEF SettleInv, Types
    <3>2. RowSound(j)  BY DEF SettleInv
    <3>3. r.snapshot # NoSnapshot => MeasuredFor(j, r.snapshot)'
      BY <3>2, MeasuredStays DEF RowSound
    <3> QED  BY <2>2, <3>1, <3>2, <3>3 DEF RowSound
  <2> QED  BY <2>1, <2>2
<1> QED  BY <1>1, <1>2, ChainKept DEF SettleInv

LEMMA ClaimStep ==
  ASSUME SettleInv, NEW v \in Verifiers, NEW j \in JobIds, ClaimVerification(v, j)
  PROVE  SettleInv'
<1> DEFINE r == [row[j] EXCEPT !.claim = "held"]
<1>0. row[j] \in Row /\ RowSound(j)  BY DEF SettleInv, Types
<1>1. /\ r \in Row /\ r.deliverable = row[j].deliverable /\ r.accepted = row[j].accepted
      /\ r.status = row[j].status /\ r.snapshot = row[j].snapshot
  BY <1>0 DEF Row
<1>2. OnlyGrows /\ UNCHANGED <<job, verdict, feedback, stored, faults, copy, snapshots>>
  BY DEF ClaimVerification, OnlyGrows, chain, vars
<1>3. row' = [row EXCEPT ![j] = r]  BY <1>0 DEF ClaimVerification, Row, SettleInv, Types
<1>4. DOMAIN work' = Processes /\ \A p \in Processes : Holds(p)'
  <2> DEFINE holding == [step |-> "verifying", job |-> j, committed |-> Delivered[j].artifact]
  <2>1. work' = [work EXCEPT ![v] = holding]
    BY <1>0 DEF ClaimVerification, Goes, RowSound
  <2>2. work'[v] = holding  BY <2>1 DEF SettleInv, Types, Processes
  <2>3. Holds(v)'  BY <2>2 DEF Holds
  <2> QED  BY <1>2, <2>1, <2>3, OthersHold DEF Processes
<1> HIDE DEF r
<1> QED  BY <1>1, <1>2, <1>3, <1>4, RowRefreshed DEF SettleInv, Types

LEMMA LapseStep ==
  ASSUME SettleInv, NEW j \in JobIds, ClaimLapses(j)
  PROVE  SettleInv'
<1> DEFINE r == [row[j] EXCEPT !.claim = "lapsed"]
<1>0. row[j] \in Row  BY DEF SettleInv, Types
<1>1. /\ r \in Row /\ r.deliverable = row[j].deliverable /\ r.accepted = row[j].accepted
      /\ r.status = row[j].status /\ r.snapshot = row[j].snapshot
  BY <1>0 DEF Row
<1>2. OnlyGrows /\ UNCHANGED <<job, verdict, feedback, stored, faults, copy, snapshots, work>>
  BY DEF ClaimLapses, OnlyGrows, chain, vars
<1>3. row' = [row EXCEPT ![j] = r]  BY <1>0 DEF ClaimLapses, Row, SettleInv, Types
<1>4. DOMAIN work' = Processes /\ \A p \in Processes : Holds(p)'  BY <1>2, AllHold
<1> HIDE DEF r
<1> QED  BY <1>1, <1>2, <1>3, <1>4, RowRefreshed DEF SettleInv, Types

LEMMA RetryStep ==
  ASSUME SettleInv, NEW j \in JobIds, FundingRetry(j)
  PROVE  SettleInv'
<1> DEFINE r == [row[j] EXCEPT !.status = "ESCROWED"]
<1>0. row[j] \in Row  BY DEF SettleInv, Types
<1>1. /\ r \in Row /\ r.deliverable = row[j].deliverable /\ r.accepted = row[j].accepted
      /\ r.status = "ESCROWED" /\ r.snapshot = row[j].snapshot
  BY <1>0 DEF Row
<1>2. OnlyGrows /\ UNCHANGED <<job, verdict, feedback, stored, faults, copy, snapshots, work>>
  BY DEF FundingRetry, OnlyGrows, chain, vars
<1>3. row' = [row EXCEPT ![j] = r]  BY <1>0 DEF FundingRetry, Row, SettleInv, Types
<1>4. DOMAIN work' = Processes /\ \A p \in Processes : Holds(p)'  BY <1>2, AllHold
<1> HIDE DEF r
<1> QED  BY <1>1, <1>2, <1>3, <1>4, RowRefreshed DEF SettleInv, Types

LEMMA MeasureStep ==
  ASSUME SettleInv, NEW v \in Verifiers, Measure(v)
  PROVE  SettleInv'
<1>0. PICK j \in JobIds :
        work[v] = [step |-> "verifying", job |-> j, committed |-> Delivered[j].artifact]
  <2>1. Holds(v) /\ At(v, "verifying")  BY DEF SettleInv, Processes, Measure
  <2> QED  BY <2>1, Held
<1>1. work[v].job = j /\ work[v].committed = Delivered[j].artifact  BY <1>0
<1>2. row[j] \in Row /\ UNCHANGED <<job, verdict, feedback, stored, faults>>
  BY DEF SettleInv, Types, Measure, chain, vars
<1>3. copy' \in [Verifiers -> [JobIds -> Artifacts \cup {NoArtifact}]]
  <2>1. FileOf(v, j) \in Artifacts \cup {NoArtifact}  BY DEF SettleInv, Types, FileOf
  <2> QED  BY <1>1, <2>1 DEF SettleInv, Types, Measure
<1>4. CASE ~IsCommitted(v, j)
  <2> DEFINE r == [row[j] EXCEPT !.claim = "parked"]
  <2>1. /\ r \in Row /\ r.deliverable = row[j].deliverable /\ r.accepted = row[j].accepted
        /\ r.status = row[j].status /\ r.snapshot = row[j].snapshot
    BY <1>2 DEF Row
  <2>2. row' = [row EXCEPT ![j] = r] /\ UNCHANGED snapshots /\ work' = [work EXCEPT ![v] = Idle]
    BY <1>1, <1>2, <1>4 DEF Measure, Ends, Goes, Row, SettleInv, Types
  <2>3. OnlyGrows  BY <1>2, <2>2 DEF OnlyGrows
  <2>4. DOMAIN work' = Processes /\ \A p \in Processes : Holds(p)'
    BY <2>2, <2>3, OthersHold, IdleHolds DEF Processes
  <2> HIDE DEF r
  <2> QED  BY <1>2, <1>3, <2>1, <2>2, <2>3, <2>4, RowRefreshed DEF SettleInv, Types
<1>5. CASE IsCommitted(v, j)
  <2>1. FileOf(v, j) = Delivered[j].artifact /\ Delivered[j].artifact \in Artifacts
    BY <1>1, <1>5, DeliveredAssumption DEF IsCommitted
  <2>2. PICK s \in Snapshot :
          /\ s.job = j /\ s.artifact = Delivered[j].artifact
          /\ snapshots' = snapshots \cup {s}
          /\ work' = [work EXCEPT ![v] = [step |-> "recording", job |-> j, snapshot |-> s]]
    <3>1. PICK score \in Scores \cup {Unmeasured} :
            LET s == [job |-> j, artifact |-> FileOf(v, j), measured |-> score]
            IN  /\ snapshots' = snapshots \cup {s}
                /\ work' = [work EXCEPT ![v] = [step |-> "recording", job |-> j, snapshot |-> s]]
      BY <1>1, <1>5 DEF Measure, Goes
    <3>2. [job |-> j, artifact |-> FileOf(v, j), measured |-> score] \in Snapshot
      BY <2>1 DEF Snapshot
    <3> QED  BY <2>1, <3>1, <3>2
  <2>3. UNCHANGED row  BY <1>1, <1>5 DEF Measure
  <2>4. OnlyGrows  BY <1>2, <2>2 DEF OnlyGrows
  <2>5. MeasuredFor(j, s)'  BY <2>2 DEF MeasuredFor
  <2>6. Holds(v)'
    <3>1. work'[v] = [step |-> "recording", job |-> j, snapshot |-> s]
      BY <2>2 DEF SettleInv, Types, Processes
    <3> QED  BY <2>5, <3>1 DEF Holds
  <2>7. DOMAIN work' = Processes /\ \A p \in Processes : Holds(p)'
    BY <2>2, <2>4, <2>6, OthersHold DEF Processes
  <2>8. Types'  BY <1>2, <1>3, <2>2, <2>3, <2>7 DEF SettleInv, Types
  <2> QED  BY <1>2, <2>3, <2>4, <2>7, <2>8, ChainKept DEF SettleInv
<1> QED  BY <1>4, <1>5

LEMMA RecordStep ==
  ASSUME SettleInv, NEW v \in Verifiers, RecordSnapshot(v)
  PROVE  SettleInv'
<1>0. PICK j \in JobIds, s \in Snapshot :
        work[v] = [step |-> "recording", job |-> j, snapshot |-> s] /\ MeasuredFor(j, s)
  <2>1. Holds(v) /\ At(v, "recording")  BY DEF SettleInv, Processes, RecordSnapshot
  <2> QED  BY <2>1, Held
<1> DEFINE r == [row[j] EXCEPT !.snapshot = s, !.claim = "none"]
<1>1. row[j] \in Row /\ work[v].job = j /\ work[v].snapshot = s
  BY <1>0 DEF SettleInv, Types
<1>2. /\ r \in Row /\ r.deliverable = row[j].deliverable /\ r.accepted = row[j].accepted
      /\ r.status = row[j].status /\ r.snapshot = s
  BY <1>1 DEF Row
<1>3. OnlyGrows /\ UNCHANGED <<job, verdict, feedback, stored, faults, copy, snapshots>>
  BY DEF RecordSnapshot, OnlyGrows, chain, vars
<1>4. row' = [row EXCEPT ![j] = r]  BY <1>1 DEF RecordSnapshot, Row, SettleInv, Types
<1>5. DOMAIN work' = Processes /\ \A p \in Processes : Holds(p)'
  BY <1>3, OthersHold, IdleHolds DEF RecordSnapshot, Ends, Goes, Processes
<1> HIDE DEF r
<1> QED  BY <1>0, <1>2, <1>3, <1>4, <1>5, RowRefreshed DEF SettleInv, Types

LEMMA RaiseStep ==
  ASSUME SettleInv, NEW v \in Verifiers, VerificationRaises(v)
  PROVE  SettleInv'
<1>0. PICK j \in JobIds : work[v].job = j
  <2>1. Holds(v) /\ (At(v, "verifying") \/ At(v, "recording"))
    BY DEF SettleInv, Processes, VerificationRaises, At
  <2>2. CASE At(v, "verifying")
    <3>1. PICK j \in JobIds :
            work[v] = [step |-> "verifying", job |-> j, committed |-> Delivered[j].artifact]
      BY <2>1, <2>2, Held
    <3> QED  BY <3>1
  <2>3. CASE At(v, "recording")
    <3>1. PICK j \in JobIds, s \in Snapshot :
            work[v] = [step |-> "recording", job |-> j, snapshot |-> s]
      BY <2>1, <2>3, Held
    <3> QED  BY <3>1
  <2> QED  BY <2>1, <2>2, <2>3
<1> DEFINE r == [row[j] EXCEPT !.claim = "held"]
<1>1. row[j] \in Row  BY DEF SettleInv, Types
<1>2. /\ r \in Row /\ r.deliverable = row[j].deliverable /\ r.accepted = row[j].accepted
      /\ r.status = row[j].status /\ r.snapshot = row[j].snapshot
  BY <1>1 DEF Row
<1>3. OnlyGrows /\ UNCHANGED <<job, verdict, feedback, stored, copy, snapshots>>
  BY DEF VerificationRaises, OnlyGrows, chain, vars
<1>4. row' = [row EXCEPT ![j] = r]  BY <1>0, <1>1 DEF VerificationRaises, Row, SettleInv, Types
<1>5. DOMAIN work' = Processes /\ \A p \in Processes : Holds(p)'
  BY <1>3, OthersHold, IdleHolds DEF VerificationRaises, Ends, Goes, Processes
<1>6. faults' \in 0..MaxFaults
  BY ProcessesAssumption DEF VerificationRaises, Fails, SettleInv, Types
<1> HIDE DEF r
<1> QED  BY <1>2, <1>3, <1>4, <1>5, <1>6, RowRefreshed DEF SettleInv, Types

-----------------------------------------------------------------------------
(* The verdict.                                                            *)

\* A process takes up or drops something, and nothing else happens.
LEMMA OnlyWorkMoves ==
  ASSUME SettleInv, UNCHANGED <<job, row, stored, copy, snapshots, verdict, feedback>>,
         faults' \in 0..MaxFaults,
         NEW p \in Processes, NEW holding, work' = [work EXCEPT ![p] = holding],
         work'[p] = holding => Holds(p)'
  PROVE  SettleInv'
<1>1. OnlyGrows  BY DEF OnlyGrows
<1>2. work'[p] = holding  BY DEF SettleInv, Types
<1>3. DOMAIN work' = Processes /\ \A q \in Processes : Holds(q)'
  BY <1>1, <1>2, OthersHold
<1>4. Types'  BY <1>3 DEF SettleInv, Types
<1> QED  BY <1>1, <1>3, <1>4, ChainKept DEF SettleInv

LEMMA JudgesStep ==
  ASSUME SettleInv, NEW h \in Handlers, NEW j \in JobIds, Judges(h, j)
  PROVE  SettleInv'
<1> DEFINE s == row[j].snapshot
           r == [snapshot |-> s, accepted |-> MeetsTarget(s.measured)]
           holding == [step |-> "judging", job |-> j, report |-> r]
<1>1. MeasuredFor(j, s) /\ s \in Snapshot
  BY DEF SettleInv, RowSound, Judges, MeasuredFor
<1>2. MeetsTarget(s.measured) \in BOOLEAN  BY DEF MeetsTarget
<1>3. r \in Report /\ JudgedOn(j, r)
  BY <1>1, <1>2 DEF Report, JudgedOn
<1>4. UNCHANGED <<job, row, stored, copy, snapshots, verdict, feedback, faults>>
  BY DEF Judges, chain, vars
<1>5. work' = [work EXCEPT ![h] = holding]  BY DEF Judges, Goes
<1>6. OnlyGrows  BY <1>4 DEF OnlyGrows
<1> HIDE DEF r
<1>7. ASSUME work'[h] = holding PROVE Holds(h)'
  <2>1. PICK rr \in Report : rr = r /\ JudgedOn(j, rr)  BY <1>3
  <2>2. JudgedOn(j, rr)'  BY <2>1, <1>6, JudgedStays
  <2>3. work'[h] = [step |-> "judging", job |-> j, report |-> rr]  BY <1>7, <2>1
  <2> QED  BY <2>2, <2>3 DEF Holds
<1> HIDE DEF holding
<1> QED  BY <1>4, <1>5, <1>7, OnlyWorkMoves DEF Processes, SettleInv, Types

(* What any transaction does to the jobs here: the artifact stays, and so  *)
(* does an outcome.                                                        *)
JobsMove ==
  /\ job' \in [JobIds -> Job]
  /\ \A j \in JobIds : /\ job'[j].artifact = job[j].artifact
                       /\ job[j].status \in Closed => job'[j].status = job[j].status

LEMMA StatusMoves ==
  ASSUME SettleInv, NEW j \in JobIds, NEW status \in Statuses, job[j].status \notin Closed,
         job' = [job EXCEPT ![j].status = status]
  PROVE  JobsMove /\ job'[j].status = status /\ \A i \in JobIds \ {j} : job'[i] = job[i]
<1>1. job \in [JobIds -> Job] /\ job[j] \in Job  BY DEF SettleInv, ChainSound
<1>2. /\ job'[j].status = status /\ job'[j].artifact = job[j].artifact
      /\ \A i \in JobIds \ {j} : job'[i] = job[i]
  BY <1>1 DEF Job
<1>3. job' \in [JobIds -> Job]  BY <1>1 DEF Job
<1> QED  BY <1>2, <1>3 DEF JobsMove

LEMMA ElsewhereStep ==
  ASSUME SettleInv, Elsewhere
  PROVE  SettleInv'
<1> USE DEF Closed, Statuses, Undecided, InProgress
<1>1. JobsMove
  <2>1. ASSUME NEW j \in JobIds, ClaimTimeoutRefund(j) PROVE JobsMove
    BY <2>1, StatusMoves DEF ClaimTimeoutRefund, RefundClaimable, PayOut
  <2>2. ASSUME NEW j \in JobIds, Party(j) PROVE JobsMove
    BY <2>2, StatusMoves DEF Party, RaiseDispute
  <2>3. ASSUME NEW j \in JobIds, Arbiter(j) PROVE JobsMove
    BY <2>3, StatusMoves DEF Arbiter, ResolveDispute, PayOut
  <2>4. CASE Tick
    BY <2>4 DEF Tick, JobsMove, SettleInv, ChainSound
  <2> QED  BY <2>1, <2>2, <2>3, <2>4 DEF Elsewhere
<1>2. OnlyGrows /\ UNCHANGED <<row, stored, copy, snapshots, verdict, feedback, work, faults>>
  BY DEF Elsewhere, offchain, OnlyGrows
<1>3. Types' /\ \A p \in Processes : Holds(p)'
  BY <1>2, AllHold DEF SettleInv, Types
<1>4. ChainSound'  BY <1>1 DEF SettleInv, ChainSound, JobsMove
<1>5. ASSUME NEW j \in JobIds PROVE VerdictSound(j)' /\ RowSound(j)' /\ FeedbackSound(j)'
  <2>1. VerdictSound(j)'
    BY <1>1, <1>2, JudgedStays DEF SettleInv, VerdictSound, JobsMove, OutcomeOf
  <2>2. RowSound(j)'
    BY <1>2, MeasuredStays DEF SettleInv, RowSound
  <2>3. FeedbackSound(j)'  BY <1>2 DEF SettleInv, FeedbackSound
  <2> QED  BY <2>1, <2>2, <2>3
<1> QED  BY <1>3, <1>4, <1>5 DEF SettleInv

LEMMA VerdictStep ==
  ASSUME SettleInv, NEW h \in Handlers, Verdict(h)
  PROVE  SettleInv'
<1>0. PICK j \in JobIds, r \in Report :
        work[h] = [step |-> "judging", job |-> j, report |-> r] /\ JudgedOn(j, r)
  <2>1. Holds(h) /\ At(h, "judging")  BY DEF SettleInv, Processes, Verdict
  <2> QED  BY <2>1, Held
<1>1. /\ work[h].job = j /\ work[h].report = r /\ r # NoReport /\ r.accepted \in BOOLEAN
      /\ UNCHANGED <<row, stored, copy, snapshots, feedback>>
  BY <1>0, NullsAssumption DEF Verdict, Report
<1>2. CASE job[j].status # "DELIVERED" /\ Ends(h) /\ UNCHANGED <<chain, verdict, faults>>
  <2>1. UNCHANGED job /\ work' = [work EXCEPT ![h] = Idle]
    BY <1>2 DEF chain, vars, Ends, Goes
  <2> QED  BY <1>1, <1>2, <2>1, IdleHolds, OnlyWorkMoves DEF Processes, SettleInv, Types
<1>3. ASSUME SubmitVerdict(j, r.accepted), verdict' = [verdict EXCEPT ![j] = r],
             \/ Goes(h, [step |-> "judged", job |-> j, report |-> r]) /\ UNCHANGED faults
             \/ Ends(h) /\ Fails
      PROVE  SettleInv'
  <2>1. /\ JobsMove /\ job[j].status = "DELIVERED" /\ job'[j].status = OutcomeOf(r)
        /\ \A i \in JobIds \ {j} : job'[i] = job[i]
    <3>1. job[j].status = "DELIVERED" /\ job' = [job EXCEPT ![j].status = OutcomeOf(r)]
      BY <1>1, <1>3 DEF SubmitVerdict, PayOut, OutcomeOf
    <3> QED  BY <3>1, StatusMoves DEF OutcomeOf, Statuses, Closed
  <2>2. verdict[j] = NoReport
    BY <2>1 DEF SettleInv, VerdictSound, OutcomeOf
  <2>3. verdict'[j] = r /\ \A i \in JobIds \ {j} : verdict'[i] = verdict[i]
    BY <1>3 DEF SettleInv, Types
  <2>4. OnlyGrows  BY <1>1, <2>2, <2>3 DEF OnlyGrows
  <2>5. DOMAIN work' = Processes /\ \A p \in Processes : Holds(p)'
    <3>1. CASE Goes(h, [step |-> "judged", job |-> j, report |-> r])
      <4>1. work'[h] = [step |-> "judged", job |-> j, report |-> r]
        BY <3>1 DEF Goes, SettleInv, Types, Processes
      <4>2. Holds(h)'  BY <4>1, <2>3 DEF Holds
      <4> QED  BY <3>1, <4>2, <2>4, OthersHold DEF Goes, Processes
    <3>2. CASE Ends(h)
      BY <3>2, <2>4, OthersHold, IdleHolds DEF Ends, Goes, Processes
    <3> QED  BY <1>3, <3>1, <3>2
  <2>6. Types'
    <3>1. faults' \in 0..MaxFaults
      BY <1>3, ProcessesAssumption DEF SettleInv, Types, Fails
    <3> QED  BY <1>1, <1>3, <2>5, <3>1 DEF SettleInv, Types
  <2>7. ChainSound'  BY <2>1 DEF SettleInv, ChainSound, JobsMove
  <2>8. ASSUME NEW i \in JobIds PROVE VerdictSound(i)' /\ RowSound(i)' /\ FeedbackSound(i)'
    <3>1. CASE i = j
      <4>1. VerdictSound(j)'
        <5>1. JudgedOn(j, r)'  BY <1>0, <2>4, JudgedStays
        <5> QED  BY <5>1, <2>1, <2>3 DEF VerdictSound
      <4>2. RowSound(j)'
        <5>1. RowSound(j)  BY DEF SettleInv
        <5> QED  BY <5>1, <1>1, <2>2, <2>4, MeasuredStays DEF RowSound
      <4>3. FeedbackSound(j)'
        <5>1. FeedbackSound(j)  BY DEF SettleInv
        <5>2. \A k \in 1..Len(feedback[j]) : FALSE  BY <5>1, <2>2 DEF FeedbackSound
        <5> QED  BY <5>2, <1>1 DEF FeedbackSound
      <4> QED  BY <3>1, <4>1, <4>2, <4>3
    <3>2. CASE i # j
      <4>1. verdict'[i] = verdict[i] /\ job'[i] = job[i]  BY <2>1, <2>3, <3>2
      <4>2. VerdictSound(i)'
        BY <4>1, <2>4, JudgedStays DEF SettleInv, VerdictSound
      <4>3. RowSound(i)'
        BY <4>1, <1>1, <2>4, MeasuredStays DEF SettleInv, RowSound
      <4>4. FeedbackSound(i)'  BY <4>1, <1>1 DEF SettleInv, FeedbackSound
      <4> QED  BY <4>2, <4>3, <4>4
    <3> QED  BY <3>1, <3>2
  <2> QED  BY <2>5, <2>6, <2>7, <2>8 DEF SettleInv
<1> QED  BY <1>1, <1>2, <1>3 DEF Verdict

LEMMA WriteVerdictStep ==
  ASSUME SettleInv, NEW h \in Handlers, WriteVerdict(h)
  PROVE  SettleInv'
<1>0. PICK j \in JobIds, r \in Report :
        work[h] = [step |-> "judged", job |-> j, report |-> r] /\ verdict[j] = r
  <2>1. Holds(h) /\ At(h, "judged")  BY DEF SettleInv, Processes, WriteVerdict
  <2> QED  BY <2>1, Held
<1>1. /\ work[h].job = j /\ work[h].report = r /\ r # NoReport /\ r.accepted \in BOOLEAN
      /\ UNCHANGED <<job, stored, copy, snapshots, verdict, feedback, faults>>
  BY <1>0, NullsAssumption DEF WriteVerdict, Report, chain, vars
<1>2. row[j] \in Row /\ RowSound(j)  BY DEF SettleInv, Types
<1>3. PICK new \in Row :
        /\ new.deliverable = row[j].deliverable /\ new.snapshot = row[j].snapshot
        /\ new.status = OutcomeOf(r) /\ new.accepted = IF r.accepted THEN "yes" ELSE "no"
        /\ row' = [row EXCEPT ![j] = new]
  <2> DEFINE new == [row[j] EXCEPT !.status = OutcomeOf(r),
                                   !.accepted = IF r.accepted THEN "yes" ELSE "no"]
  <2>1. /\ new \in Row /\ new.deliverable = row[j].deliverable /\ new.snapshot = row[j].snapshot
        /\ new.status = OutcomeOf(r) /\ new.accepted = IF r.accepted THEN "yes" ELSE "no"
    BY <1>2 DEF Row, OutcomeOf
  <2>2. row' = [row EXCEPT ![j] = new]
    BY <1>1, <1>2 DEF WriteVerdict, OutcomeOf, Row, SettleInv, Types
  <2> HIDE DEF new
  <2> QED  BY <2>1, <2>2
<1>4. row'[j] = new /\ \A i \in JobIds \ {j} : row'[i] = row[i]
  BY <1>3 DEF SettleInv, Types
<1>5. OnlyGrows  BY <1>1 DEF OnlyGrows
<1>6. DOMAIN work' = Processes /\ \A p \in Processes : Holds(p)'
  BY <1>5, OthersHold, IdleHolds DEF WriteVerdict, Ends, Goes, Processes
<1>7. Types'  BY <1>1, <1>3, <1>6 DEF SettleInv, Types
<1>8. ASSUME NEW i \in JobIds PROVE RowSound(i)'
  <2>1. CASE i # j
    <3>1. row'[i] = row[i]  BY <1>4, <2>1
    <3> QED  BY <3>1, <1>1, <1>5, ChainKept
  <2>2. CASE i = j
    <3>1. row'[j] = new  BY <1>4
    <3>2. new.snapshot # NoSnapshot => MeasuredFor(j, new.snapshot)'
      BY <1>2, <1>3, <1>5, MeasuredStays DEF RowSound
    <3>3. verdict'[j] = r  BY <1>0, <1>1
    <3> QED  BY <2>2, <3>1, <3>2, <3>3, <1>1, <1>2, <1>3 DEF RowSound
  <2> QED  BY <2>1, <2>2
<1> QED  BY <1>1, <1>5, <1>6, <1>7, <1>8, ChainKept DEF SettleInv

-----------------------------------------------------------------------------
(* The feedback, and failures.                                             *)

LEMMA PublishReadStep ==
  ASSUME SettleInv, NEW h \in Handlers, NEW j \in JobIds, PublishRead(h, j)
  PROVE  SettleInv'
<1>1. UNCHANGED <<job, row, stored, copy, snapshots, verdict, feedback, faults>>
  BY DEF PublishRead, chain, vars
<1>2. PICK r \in Report : verdict[j] = r /\ row[j].accepted = IF r.accepted THEN "yes" ELSE "no"
  BY DEF PublishRead, FeedbackOwed, SettleInv, RowSound, Types
<1>3. work' = [work EXCEPT ![h] = [step |-> "reviewing", job |-> j, value |-> ValueOf(r)]]
  BY <1>2 DEF PublishRead, Goes, ValueOf
<1>4. ASSUME work'[h] = [step |-> "reviewing", job |-> j, value |-> ValueOf(r)]
      PROVE  Holds(h)'
  BY <1>1, <1>2, <1>4 DEF Holds, ValueOf
<1> DEFINE holding == [step |-> "reviewing", job |-> j, value |-> ValueOf(r)]
<1>5. work' = [work EXCEPT ![h] = holding] /\ (work'[h] = holding => Holds(h)')
  BY <1>3, <1>4
<1> HIDE DEF holding
<1> QED  BY <1>1, <1>5, OnlyWorkMoves DEF Processes, SettleInv, Types

LEMMA GiveFeedbackStep ==
  ASSUME SettleInv, NEW h \in Handlers, GiveFeedback(h)
  PROVE  SettleInv'
<1>0. PICK j \in JobIds, r \in Report :
        /\ work[h] = [step |-> "reviewing", job |-> j, value |-> ValueOf(r)]
        /\ verdict[j] = r
  <2>1. Holds(h) /\ At(h, "reviewing")  BY DEF SettleInv, Processes, GiveFeedback
  <2> QED  BY <2>1, Held
<1>1. /\ work[h].job = j /\ work[h].value = ValueOf(r) /\ r # NoReport
      /\ UNCHANGED <<job, row, stored, copy, snapshots, verdict>>
  BY <1>0, NullsAssumption DEF GiveFeedback, chain, vars
<1>2. /\ feedback' = [feedback EXCEPT ![j] = Append(@, ValueOf(r))]
      /\ \/ work' = [work EXCEPT ![h] = [step |-> "reviewed", job |-> j]] /\ UNCHANGED faults
         \/ work' = [work EXCEPT ![h] = Idle] /\ Fails
  BY <1>1 DEF GiveFeedback, Goes, Ends
<1>3. OnlyGrows  BY <1>1 DEF OnlyGrows
<1>4. DOMAIN work' = Processes /\ \A p \in Processes : Holds(p)'
  <2>1. CASE work' = [work EXCEPT ![h] = [step |-> "reviewed", job |-> j]]
    <3>1. work'[h] = [step |-> "reviewed", job |-> j]
      BY <2>1 DEF SettleInv, Types, Processes
    <3>2. Holds(h)'  BY <3>1 DEF Holds
    <3> QED  BY <2>1, <3>2, <1>3, OthersHold DEF Processes
  <2>2. CASE work' = [work EXCEPT ![h] = Idle]
    BY <2>2, <1>3, OthersHold, IdleHolds DEF Processes
  <2> QED  BY <1>2, <2>1, <2>2
<1>5. ValueOf(r) \in {0, 100} /\ feedback[j] \in Seq({0, 100})
  BY DEF ValueOf, SettleInv, Types
<1>6. Types'
  <2>1. faults' \in 0..MaxFaults
    BY <1>2, ProcessesAssumption DEF SettleInv, Types, Fails
  <2>2. feedback' \in [JobIds -> Seq({0, 100})]
    <3>1. Append(feedback[j], ValueOf(r)) \in Seq({0, 100})  BY <1>5
    <3> QED  BY <1>2, <3>1 DEF SettleInv, Types
  <2> QED  BY <1>1, <1>4, <2>1, <2>2 DEF SettleInv, Types
<1>7. ASSUME NEW i \in JobIds PROVE FeedbackSound(i)'
  <2>1. CASE i # j
    <3>1. feedback'[i] = feedback[i]  BY <1>2, <2>1 DEF SettleInv, Types
    <3> QED  BY <1>1, <3>1 DEF SettleInv, FeedbackSound
  <2>2. CASE i = j
    <3>1. feedback'[j] = Append(feedback[j], ValueOf(r))
      BY <1>2 DEF SettleInv, Types
    <3>2. \A k \in 1..Len(feedback'[j]) : feedback'[j][k] = ValueOf(r)
      <4> SUFFICES ASSUME NEW k \in 1..Len(feedback'[j]) PROVE feedback'[j][k] = ValueOf(r)
        OBVIOUS
      <4>1. CASE k \in 1..Len(feedback[j])
        <5>1. feedback'[j][k] = feedback[j][k]  BY <3>1, <4>1, <1>5
        <5>2. feedback[j][k] = ValueOf(verdict[j])
          BY <4>1 DEF SettleInv, FeedbackSound
        <5> QED  BY <5>1, <5>2, <1>0
      <4>2. CASE k = Len(feedback[j]) + 1  BY <3>1, <4>2, <1>5
      <4> QED  BY <3>1, <4>1, <4>2, <1>5
    <3> QED  BY <2>2, <3>2, <1>0, <1>1 DEF FeedbackSound
  <2> QED  BY <2>1, <2>2
<1>8. ChainSound' /\ \A i \in JobIds : VerdictSound(i)' /\ RowSound(i)'
  BY <1>1, <1>3, ChainKept
<1> QED  BY <1>4, <1>6, <1>7, <1>8 DEF SettleInv

LEMMA WriteFeedbackStep ==
  ASSUME SettleInv, NEW h \in Handlers, WriteFeedback(h)
  PROVE  SettleInv'
<1>0. PICK j \in JobIds : work[h] = [step |-> "reviewed", job |-> j]
  <2>1. Holds(h) /\ At(h, "reviewed")  BY DEF SettleInv, Processes, WriteFeedback
  <2> QED  BY <2>1, Held
<1> DEFINE r == [row[j] EXCEPT !.published = TRUE]
<1>1. row[j] \in Row /\ work[h].job = j  BY <1>0 DEF SettleInv, Types
<1>2. /\ r \in Row /\ r.deliverable = row[j].deliverable /\ r.accepted = row[j].accepted
      /\ r.status = row[j].status /\ r.snapshot = row[j].snapshot
  BY <1>1 DEF Row
<1>3. OnlyGrows /\ UNCHANGED <<job, verdict, feedback, stored, faults, copy, snapshots>>
  BY DEF WriteFeedback, OnlyGrows, chain, vars
<1>4. row' = [row EXCEPT ![j] = r]  BY <1>1 DEF WriteFeedback, Row, SettleInv, Types
<1>5. DOMAIN work' = Processes /\ \A p \in Processes : Holds(p)'
  BY <1>3, OthersHold, IdleHolds DEF WriteFeedback, Ends, Goes, Processes
<1> HIDE DEF r
<1> QED  BY <1>2, <1>3, <1>4, <1>5, RowRefreshed DEF SettleInv, Types

LEMMA AbandonStep ==
  ASSUME SettleInv, NEW p \in Processes, Abandon(p)
  PROVE  SettleInv'
<1>1. /\ UNCHANGED <<job, row, stored, copy, snapshots, verdict, feedback>>
      /\ work' = [work EXCEPT ![p] = Idle] /\ faults' \in 0..MaxFaults
  BY ProcessesAssumption DEF Abandon, chain, vars, Ends, Goes, Fails, SettleInv, Types
<1> QED  BY <1>1, IdleHolds, OnlyWorkMoves

-----------------------------------------------------------------------------

LEMMA SettleStep == SettleInv /\ [SettleNext]_allVars => SettleInv'
<1> SUFFICES ASSUME SettleInv, [SettleNext]_allVars PROVE SettleInv'  OBVIOUS
<1>1. ASSUME NEW v \in Verifiers,
             Works(v) \/ VerificationRaises(v) \/ \E j \in JobIds : ClaimVerification(v, j)
      PROVE  SettleInv'
  BY <1>1, MeasureStep, RecordStep, RaiseStep, ClaimStep DEF Works
<1>2. ASSUME NEW h \in Handlers,
             \/ Continues(h)
             \/ \E j \in JobIds : VerifyRequest(h, j) \/ SettlementPass(h, j) \/ PublishRead(h, j)
      PROVE  SettleInv'
  BY <1>2, JudgesStep, VerdictStep, WriteVerdictStep, PublishReadStep, GiveFeedbackStep,
     WriteFeedbackStep
  DEF Continues, VerifyRequest, SettlementPass
<1>3. ASSUME NEW p \in Verifiers \cup Handlers, Abandon(p) PROVE SettleInv'
  BY <1>3, AbandonStep DEF Processes
<1>4. CASE UNCHANGED allVars
  <2>1. UNCHANGED <<job, row, stored, copy, snapshots, verdict, feedback, work, faults>>
    BY <1>4 DEF allVars, chain, vars, offchain
  <2>2. OnlyGrows  BY <2>1 DEF OnlyGrows
  <2> QED  BY <2>1, <2>2, AllHold, ChainKept DEF SettleInv, Types
<1> QED  BY <1>1, <1>2, <1>3, <1>4, LapseStep, RetryStep, ElsewhereStep DEF SettleNext

LEMMA SettleStart == SettleInit => SettleInv
<1> SUFFICES ASSUME SettleInit PROVE SettleInv  OBVIOUS
<1>1. Types
  <2>1. row \in [JobIds -> Row]
    BY DeliveredAssumption DEF SettleInit, Row
  <2>2. feedback \in [JobIds -> Seq({0, 100})]
    <3>1. << >> \in Seq({0, 100})  OBVIOUS
    <3> QED  BY <3>1 DEF SettleInit
  <2> QED  BY <2>1, <2>2, ProcessesAssumption DEF SettleInit, Types, Processes
<1>2. ChainSound  BY DeliveredAssumption DEF SettleInit, ChainSound
<1>3. ASSUME NEW j \in JobIds PROVE VerdictSound(j) /\ RowSound(j) /\ FeedbackSound(j)
  BY DEF SettleInit, VerdictSound, RowSound, FeedbackSound
<1>4. ASSUME NEW p \in Processes PROVE Holds(p)
  BY DEF SettleInit, Holds, Processes
<1> QED  BY <1>1, <1>2, <1>3, <1>4 DEF SettleInv

\* What rows, verdicts, feedback and processes claim is true in every behaviour.
THEOREM SettleInvariance == SettleSpec => []SettleInv
<1> QED  BY SettleStart, SettleStep, PTL DEF SettleSpec

\* Every variable of the services keeps its type, and whatever a process holds is
\* about a job that exists.
THEOREM SettleTypeCorrect == SettleSpec => []SettleTypeOK
<1>1. SettleInv => SettleTypeOK
  <2> SUFFICES ASSUME SettleInv, NEW p \in Processes, ~At(p, "idle") PROVE work[p].job \in JobIds
    BY DEF SettleInv, Types, SettleTypeOK, Processes
  <2>1. Holds(p) /\ work[p] # Idle  BY DEF SettleInv, At, Idle
  <2>2. PICK j \in JobIds :
          \/ work[p] = [step |-> "verifying", job |-> j, committed |-> Delivered[j].artifact]
          \/ \E s \in Snapshot : work[p] = [step |-> "recording", job |-> j, snapshot |-> s]
          \/ \E r \in Report :
               \/ work[p] = [step |-> "judging", job |-> j, report |-> r]
               \/ work[p] = [step |-> "judged", job |-> j, report |-> r]
               \/ work[p] = [step |-> "reviewing", job |-> j, value |-> ValueOf(r)]
          \/ work[p] = [step |-> "reviewed", job |-> j]
    BY <2>1, Zenon DEF Holds
  <2>3. ASSUME NEW s, work[p] = [step |-> "recording", job |-> j, snapshot |-> s]
        PROVE  work[p].job = j
    BY <2>3
  <2>4. ASSUME NEW r, \/ work[p] = [step |-> "judging", job |-> j, report |-> r]
                      \/ work[p] = [step |-> "judged", job |-> j, report |-> r]
        PROVE  work[p].job = j
    BY <2>4
  <2>5. ASSUME NEW x, work[p] = [step |-> "reviewing", job |-> j, value |-> x]
        PROVE  work[p].job = j
    BY <2>5
  <2>6. CASE \/ work[p] = [step |-> "verifying", job |-> j, committed |-> Delivered[j].artifact]
             \/ work[p] = [step |-> "reviewed", job |-> j]
    BY <2>6
  <2> QED  BY <2>2, <2>3, <2>4, <2>5, <2>6, Zenon
<1> QED  BY <1>1, SettleInvariance, PTL

\* Money moves on an independent measurement of the very artifact that was
\* committed on the chain, by the job's own predicate.
THEOREM VerdictsRestOnMeasurements == SettleSpec => []JudgedOnMeasurement
<1>1. SettleInv => JudgedOnMeasurement
  <2> SUFFICES ASSUME SettleInv, NEW j \in JobIds, verdict[j] # NoReport
               PROVE  /\ verdict[j].snapshot \in snapshots
                      /\ verdict[j].snapshot.job = j
                      /\ verdict[j].snapshot.artifact = job[j].artifact
                      /\ verdict[j].accepted <=> MeetsTarget(verdict[j].snapshot.measured)
                      /\ job[j].status = IF verdict[j].accepted THEN "SETTLED" ELSE "REFUNDED"
    BY DEF JudgedOnMeasurement
  <2>1. VerdictSound(j) /\ job[j].artifact = Delivered[j].artifact
    BY DEF SettleInv, ChainSound
  <2> QED  BY <2>1 DEF VerdictSound, JudgedOn, MeasuredFor, OutcomeOf
<1> QED  BY <1>1, SettleInvariance, PTL

\* With funding retries included: verdictAccepted repeats the verdict on the chain, and
\* a row that shows SETTLED or REFUNDED shows the status the chain has.
THEOREM RowsRepeatTheChain == SettleSpec => []OutcomeAsOnChain
<1>1. SettleInv => OutcomeAsOnChain
  BY DEF SettleInv, RowSound, VerdictSound, OutcomeAsOnChain
<1> QED  BY <1>1, SettleInvariance, PTL

\* The registry repeats verdicts, and nothing else.
THEOREM FeedbackRepeatsVerdicts == SettleSpec => []FeedbackTruthful
<1>1. SettleInv => FeedbackTruthful
  BY DEF SettleInv, FeedbackSound, FeedbackTruthful, ValueOf
<1> QED  BY <1>1, SettleInvariance, PTL

\* Whatever the services do to the chain, the contract allows it: every step is one
\* of its transactions or leaves it alone.
THEOREM SettlementUsesTheContract == SettleSpec => [][Next]_vars
<1>1. SettleInv /\ [SettleNext]_allVars => [Next]_vars
  <2> SUFFICES ASSUME SettleInv, SettleNext, vars' # vars PROVE Next
    BY DEF allVars, chain
  <2>1. CASE Elsewhere
    BY <2>1 DEF Elsewhere, Next
  <2>2. ASSUME NEW h \in Handlers, Verdict(h) PROVE Next
    <3>1. PICK j \in JobIds, r \in Report : work[h] = [step |-> "judging", job |-> j, report |-> r]
      <4>1. Holds(h) /\ At(h, "judging")  BY <2>2 DEF SettleInv, Processes, Verdict
      <4> QED  BY <4>1, Held
    <3>2. work[h].job = j /\ work[h].report = r /\ r.accepted \in BOOLEAN
      BY <3>1 DEF Report
    <3>3. SubmitVerdict(j, r.accepted)  BY <2>2, <3>2 DEF Verdict, chain
    <3> QED  BY <3>2, <3>3 DEF Next, Verifier
  <2> QED
    BY <2>1, <2>2
    DEF SettleNext, Works, Measure, RecordSnapshot, VerificationRaises, ClaimVerification, Continues,
        WriteVerdict, GiveFeedback, WriteFeedback, VerifyRequest, SettlementPass, Judges, PublishRead,
        Abandon, ClaimLapses, FundingRetry, chain
<1> QED  BY <1>1, SettleInvariance, PTL DEF SettleSpec

=============================================================================
