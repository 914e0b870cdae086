------------------------- MODULE TrainingWorkerProofs -------------------------
(***************************************************************************)
(* Theorems about TrainingWorker for any number of workers, runs, digests  *)
(* and faults.                                                             *)
(***************************************************************************)
EXTENDS TrainingWorker, TLAPS

\* What a worker past its training has made sure of, whoever owns the run by now.
Secured(w) ==
  /\ work[w].step = "measuring" => stored[work[w].run] # NoDigest
  /\ work[w].step = "completing" =>
       stored[work[w].run] # NoDigest /\ MeasuredAs(work[w].run, work[w].digest)

\* The artifact in storage was measured, is about to be, or its attempt was cut off.
Backed(t) ==
  \/ MeasuredAs(t, stored[t])
  \/ <<t, stored[t]>> \in cut
  \/ \E w \in Workers : work[w].step = "measuring" /\ work[w].run = t /\ work[w].digest = stored[t]

\* No artifact is in storage that nobody accounts for, and a run shows COMPLETED only
\* after an artifact and a snapshot were stored.
WorkInv ==
  /\ \A w \in Workers : Secured(w)
  /\ \A t \in Runs : stored[t] # NoDigest => Backed(t)
  /\ \A t \in Runs : training[t].status = "COMPLETED" => stored[t] # NoDigest /\ finals[t] # <<>>

\* The poll carries a digest, and the chain has one, only after it was measured, and
\* what the poll still has to write is what the chain took.
MarketInv ==
  /\ poll # NoPoll => stored[poll.run] # NoDigest /\ MeasuredAs(poll.run, poll.digest)
  /\ poll # NoPoll /\ poll.step = "delivered" => onchain[poll.run] = poll.digest
  /\ SubmittedWasMeasured

\* The inductive invariant.
QueueInv == TypeOK /\ WorkInv /\ MarketInv

LEMMA WorkShape ==
  ASSUME TypeOK, NEW w \in Workers
  PROVE  /\ work[w].step # "idle" => work[w].run \in Runs
         /\ work[w].step = "training" => work[w].run \in Runs
         /\ work[w].step \in {"storing", "measuring", "completing"} =>
              work[w] \in [step : {"storing", "measuring", "completing"}, run : Runs, digest : Digests]
<1>1. work[w] \in Works  BY DEF TypeOK
<1> QED  BY <1>1 DEF Works, Idle

\* Nothing that was stored or measured is taken back.
Kept ==
  \A t \in Runs :
    /\ stored[t] # NoDigest => stored'[t] # NoDigest
    /\ \A d \in Digests : MeasuredAs(t, d) => MeasuredAs(t, d)'
    /\ finals[t] # <<>> => finals'[t] # <<>>

LEMMA NothingLost ==
  ASSUME TypeOK, [Next]_vars
  PROVE  Kept
<1>1. ASSUME UNCHANGED <<stored, finals>> PROVE Kept
  BY <1>1 DEF Kept, MeasuredAs
<1>2. ASSUME NEW w \in Workers, Store(w) PROVE Kept
  <2>1. work[w].run \in Runs /\ work[w].digest \in Digests
    BY <1>2, WorkShape DEF Store, At
  <2> QED  BY <1>2, <2>1, NullsAssumption DEF Store, TypeOK, Kept, MeasuredAs
<1>3. ASSUME NEW w \in Workers, RecordFinal(w) PROVE Kept
  <2> DEFINE r == work[w].run
             d == work[w].digest
  <2>1. r \in Runs /\ d \in Digests
    BY <1>3, WorkShape DEF RecordFinal, At
  <2>2. /\ finals \in [Runs -> Seq(Digests)] /\ finals' = [finals EXCEPT ![r] = Append(finals[r], d)]
        /\ UNCHANGED stored
    BY <1>3 DEF RecordFinal, TypeOK
  <2> HIDE DEF r, d
  <2>3. ASSUME NEW t \in Runs, NEW e \in Digests, MeasuredAs(t, e) PROVE MeasuredAs(t, e)'
    <3>1. PICK i \in 1..Len(finals[t]) : finals[t][i] = e  BY <2>3 DEF MeasuredAs
    <3>2. i \in 1..Len(finals'[t]) /\ finals'[t][i] = e
      BY <2>1, <2>2, <3>1
    <3> QED  BY <3>2 DEF MeasuredAs
  <2>4. ASSUME NEW t \in Runs, finals[t] # <<>> PROVE finals'[t] # <<>>
    BY <2>1, <2>2, <2>4
  <2> QED  BY <2>2, <2>3, <2>4 DEF Kept
<1>4. \/ UNCHANGED <<stored, finals>>
      \/ \E w \in Workers : Store(w) \/ RecordFinal(w)
  BY DEF Next, Continues, Claim, Requeue, Beat, Train, Complete, Fail, Die, HeartbeatLapses, Cancel,
         WindowCloses, FundingRetry, PollRead, PollGoesOn, RelayDeliverable, WriteDelivered, vars, results
<1> QED  BY <1>1, <1>2, <1>3, <1>4

\* What the market has of a run stays true while runs go on.
LEMMA MarketStays ==
  ASSUME QueueInv, Kept, UNCHANGED market
  PROVE  MarketInv'
<1> USE DEF QueueInv, MarketInv, market
<1>1. poll' # NoPoll => stored'[poll'.run] # NoDigest /\ MeasuredAs(poll.run, poll.digest)'
  BY DEF TypeOK, Kept
<1>2. ASSUME NEW t \in Runs, onchain'[t] \notin {NoDigest, Missed}
      PROVE  stored'[t] # NoDigest /\ MeasuredAs(t, onchain[t])'
  <2>1. onchain[t] \in Digests /\ stored[t] # NoDigest /\ MeasuredAs(t, onchain[t])
    BY <1>2 DEF SubmittedWasMeasured, TypeOK
  <2> QED  BY <2>1 DEF Kept, MeasuredAs
<1>3. SubmittedWasMeasured'
  BY <1>2 DEF SubmittedWasMeasured, MeasuredAs
<1> QED  BY <1>1, <1>3 DEF MeasuredAs

\* A step that moves one worker, which leaves behind a snapshot or a trace of what it
\* was about to measure and accounts for what it stores.
LEMMA WorkerStep ==
  ASSUME QueueInv, Kept, TypeOK', UNCHANGED market,
         NEW w \in Workers, NEW holding, Goes(w, holding), Secured(w)', cut \subseteq cut',
         work[w].step = "measuring" =>
           \/ \E i \in 1..Len(finals'[work[w].run]) : finals'[work[w].run][i] = work[w].digest
           \/ <<work[w].run, work[w].digest>> \in cut',
         \A t \in Runs :
           \/ stored'[t] = stored[t]
           \/ work'[w].step = "measuring" /\ work'[w].run = t /\ work'[w].digest = stored'[t],
         \A t \in Runs : training'[t].status = "COMPLETED" =>
           training[t].status = "COMPLETED" \/ (stored[t] # NoDigest /\ finals[t] # <<>>)
  PROVE  QueueInv'
<1> USE DEF QueueInv, WorkInv
<1>0. \A v \in Workers : v # w => work'[v] = work[v]  BY DEF Goes, TypeOK
<1>1. ASSUME NEW v \in Workers PROVE Secured(v)'
  <2>1. CASE v = w
    BY <2>1
  <2>2. CASE v # w
    <3>1. work'[v] = work[v]  BY <1>0, <2>2
    <3>2. Secured(v)  OBVIOUS
    <3>3. work[v].step = "measuring" => work[v].run \in Runs  BY WorkShape
    <3>4. work[v].step = "completing" => work[v].run \in Runs /\ work[v].digest \in Digests
      BY WorkShape
    <3>5. work[v].step = "measuring" => stored'[work[v].run] # NoDigest
      BY <3>2, <3>3 DEF Secured, Kept
    <3>6. work[v].step = "completing" =>
            stored'[work[v].run] # NoDigest /\ MeasuredAs(work[v].run, work[v].digest)'
      BY <3>1, <3>2, <3>4 DEF Secured, Kept, MeasuredAs
    <3> QED  BY <3>1, <3>5, <3>6 DEF Secured, MeasuredAs
  <2> QED  BY <2>1, <2>2
<1>2. \A t \in Runs : training'[t].status = "COMPLETED" => stored'[t] # NoDigest /\ finals'[t] # <<>>
  BY DEF Kept
<1>3. ASSUME NEW t \in Runs, stored'[t] # NoDigest PROVE Backed(t)'
  <2>1. CASE stored'[t] # stored[t]
    BY <2>1 DEF Backed
  <2>2. CASE stored'[t] = stored[t]
    <3>1. stored[t] \in Digests /\ Backed(t)  BY <1>3, <2>2 DEF TypeOK
    <3>2. CASE MeasuredAs(t, stored[t])
      <4>1. MeasuredAs(t, stored[t])'  BY <2>2, <3>1, <3>2 DEF Kept, MeasuredAs
      <4> QED  BY <4>1 DEF Backed
    <3>3. CASE <<t, stored[t]>> \in cut
      BY <2>2, <3>3 DEF Backed
    <3>4. ASSUME NEW v \in Workers, work[v].step = "measuring", work[v].run = t,
                 work[v].digest = stored[t]
          PROVE  Backed(t)'
      <4>1. CASE v = w
        <5>1. \/ \E i \in 1..Len(finals'[t]) : finals'[t][i] = stored'[t]
              \/ <<t, stored'[t]>> \in cut'
          BY <2>2, <3>4, <4>1
        <5> QED  BY <5>1 DEF Backed, MeasuredAs
      <4>2. CASE v # w
        BY <1>0, <2>2, <3>4, <4>2 DEF Backed
      <4> QED  BY <4>1, <4>2
    <3> QED  BY <3>1, <3>2, <3>3, <3>4 DEF Backed
  <2> QED  BY <2>1, <2>2
<1> QED  BY <1>1, <1>2, <1>3, MarketStays

\* A step that stores and measures nothing and moves no worker.
LEMMA OtherStep ==
  ASSUME QueueInv, TypeOK', UNCHANGED <<results, work>>, MarketInv' \/ UNCHANGED market,
         \A t \in Runs : training'[t].status = "COMPLETED" => training[t].status = "COMPLETED"
  PROVE  QueueInv'
<1>1. WorkInv'
  BY DEF QueueInv, WorkInv, Secured, Backed, MeasuredAs, results
<1>2. Kept  BY DEF Kept, MeasuredAs, results
<1> QED  BY <1>1, <1>2, MarketStays DEF QueueInv

LEMMA IdleType == Idle \in Works
BY DEF Works

\* Writing a run's status, and that it is alive or not, keeps the rows' type.
LEMMA StatusWritten ==
  ASSUME TypeOK, NEW t \in Runs, NEW status \in Statuses, NEW beating \in BOOLEAN,
         \/ training' = [training EXCEPT ![t].status = status, ![t].beating = beating]
         \/ training' = [training EXCEPT ![t].status = status]
         \/ training' = [training EXCEPT ![t].beating = beating]
  PROVE  /\ training' \in [Runs -> [status : Statuses, by : Workers \cup {NoWorker}, beating : BOOLEAN]]
         /\ training'[t].status \in {status, training[t].status}
         /\ \A u \in Runs : u # t => training'[u] = training[u]
<1> DEFINE Rows == [status : Statuses, by : Workers \cup {NoWorker}, beating : BOOLEAN]
<1>1. training \in [Runs -> Rows] /\ training[t] \in Rows  BY DEF TypeOK
<1>2. PICK r \in Rows : /\ training' = [training EXCEPT ![t] = r]
                        /\ r.status \in {status, training[t].status}
  <2>1. CASE training' = [training EXCEPT ![t].status = status, ![t].beating = beating]
    <3> DEFINE r == [training[t] EXCEPT !.status = status, !.beating = beating]
    <3>1. r \in Rows /\ r.status = status  BY <1>1
    <3>2. training' = [training EXCEPT ![t] = r]  BY <1>1, <2>1
    <3> QED  BY <3>1, <3>2
  <2>2. CASE training' = [training EXCEPT ![t].status = status]
    <3> DEFINE r == [training[t] EXCEPT !.status = status]
    <3>1. r \in Rows /\ r.status = status  BY <1>1
    <3> QED  BY <2>2, <3>1
  <2>3. CASE training' = [training EXCEPT ![t].beating = beating]
    <3> DEFINE r == [training[t] EXCEPT !.beating = beating]
    <3>1. r \in Rows /\ r.status = training[t].status  BY <1>1
    <3> QED  BY <2>3, <3>1
  <2> QED  BY <2>1, <2>2, <2>3
<1> HIDE DEF Rows
<1>3. /\ training' \in [Runs -> Rows] /\ training'[t] = r
      /\ \A u \in Runs : u # t => training'[u] = training[u]
  BY <1>1, <1>2
<1> QED  BY <1>2, <1>3 DEF Rows

LEMMA QueueInit == Init => QueueInv
BY NullsAssumption, FaultsAssumption
DEF Init, QueueInv, WorkInv, MarketInv, TypeOK, Statuses, Works, Idle, Secured, SubmittedWasMeasured

LEMMA QueueStep == QueueInv /\ [Next]_vars => QueueInv'
<1> SUFFICES ASSUME QueueInv, [Next]_vars PROVE QueueInv'  OBVIOUS
<1> USE DEF results, market
<1>0. TypeOK /\ Kept  BY NothingLost DEF QueueInv
<1>1. ASSUME NEW w \in Workers, NEW t \in Runs, Claim(w, t) PROVE QueueInv'
  <2>1. TypeOK'  BY <1>0, <1>1 DEF Claim, Goes, TypeOK, Statuses, Works
  <2>2. Secured(w)'  BY <1>0, <1>1 DEF Claim, Goes, TypeOK, Secured
  <2>3. \A u \in Runs : training'[u].status = "COMPLETED" => training[u].status = "COMPLETED"
    BY <1>0, <1>1 DEF Claim, TypeOK
  <2> QED  BY <1>0, <1>1, <2>1, <2>2, <2>3, WorkerStep DEF Claim, At
<1>2. ASSUME NEW w \in Workers, Requeue(w) PROVE QueueInv'
  <2>1. ASSUME NEW t \in Runs
        PROVE  /\ training'[t] \in [status : Statuses, by : Workers \cup {NoWorker}, beating : BOOLEAN]
               /\ training'[t].status \in {training[t].status, "QUEUED"}
    <3>1. training[t] \in [status : Statuses, by : Workers \cup {NoWorker}, beating : BOOLEAN]
      BY <1>0 DEF TypeOK
    <3> QED  BY <1>2, <3>1 DEF Requeue, Statuses
  <2>2. TypeOK'  BY <1>0, <1>2, <2>1 DEF Requeue, TypeOK
  <2> QED  BY <1>2, <2>1, <2>2, OtherStep DEF Requeue
<1>3. ASSUME NEW w \in Workers, Beat(w) PROVE QueueInv'
  <2>1. work[w].run \in Runs  BY <1>0, <1>3, WorkShape DEF Beat, At
  <2>2. TypeOK' /\ \A t \in Runs : training'[t].status = training[t].status
    <3> DEFINE alive == [training[work[w].run] EXCEPT !.beating = TRUE]
    <3>1. training' = [training EXCEPT ![work[w].run] = alive]  BY <1>3 DEF Beat
    <3>3. training[work[w].run] \in [status : Statuses, by : Workers \cup {NoWorker}, beating : BOOLEAN]
      BY <1>0, <2>1 DEF TypeOK
    <3>2. /\ alive \in [status : Statuses, by : Workers \cup {NoWorker}, beating : BOOLEAN]
          /\ alive.status = training[work[w].run].status
      BY <3>3
    <3> HIDE DEF alive
    <3> QED  BY <1>0, <1>3, <2>1, <3>1, <3>2 DEF Beat, TypeOK
  <2> QED  BY <1>3, <2>2, OtherStep DEF Beat
<1>4. ASSUME NEW w \in Workers, Train(w) PROVE QueueInv'
  <2>1. PICK d \in Digests : Goes(w, [step |-> "storing", run |-> work[w].run, digest |-> d])
    BY <1>4 DEF Train
  <2>2. work[w].run \in Runs  BY <1>0, <1>4, WorkShape DEF Train, At
  <2>3. TypeOK'  BY <1>0, <1>4, <2>1, <2>2 DEF Train, Goes, TypeOK, Works
  <2>4. Secured(w)'  BY <1>0, <2>1 DEF Goes, TypeOK, Secured
  <2> QED  BY <1>0, <1>4, <2>1, <2>3, <2>4, WorkerStep DEF Train, At
<1>5. ASSUME NEW w \in Workers, Store(w) PROVE QueueInv'
  <2> DEFINE holding == [work[w] EXCEPT !.step = "measuring"]
  <2>1. work[w] \in [step : {"storing", "measuring", "completing"}, run : Runs, digest : Digests]
    BY <1>0, <1>5, WorkShape DEF Store, At
  <2>2. /\ holding \in [step : {"storing", "measuring", "completing"}, run : Runs, digest : Digests]
        /\ holding.step = "measuring" /\ holding.run = work[w].run /\ holding.digest = work[w].digest
    BY <2>1
  <2>3. Goes(w, holding)  BY <1>5 DEF Store
  <2> HIDE DEF holding
  <2>4. TypeOK'  BY <1>0, <1>5, <2>1, <2>2, <2>3 DEF Store, Goes, TypeOK, Works
  <2>5. Secured(w)'
    BY <1>0, <1>5, <2>1, <2>2, <2>3, NullsAssumption DEF Store, Goes, TypeOK, Secured
  <2>6. ASSUME NEW t \in Runs
        PROVE  \/ stored'[t] = stored[t]
               \/ work'[w].step = "measuring" /\ work'[w].run = t /\ work'[w].digest = stored'[t]
    BY <1>0, <1>5, <2>1, <2>2, <2>3 DEF Store, Goes, TypeOK
  <2> QED  BY <1>0, <1>5, <2>3, <2>4, <2>5, <2>6, WorkerStep DEF Store, At
<1>6. ASSUME NEW w \in Workers, RecordFinal(w) PROVE QueueInv'
  <2> DEFINE holding == [work[w] EXCEPT !.step = "completing"]
             r == work[w].run
             d == work[w].digest
  <2>1. work[w] \in [step : {"storing", "measuring", "completing"}, run : Runs, digest : Digests]
    BY <1>0, <1>6, WorkShape DEF RecordFinal, At
  <2>2. /\ holding \in [step : {"storing", "measuring", "completing"}, run : Runs, digest : Digests]
        /\ holding.step = "completing" /\ holding.run = r /\ holding.digest = d
        /\ r \in Runs /\ d \in Digests
    BY <2>1
  <2>3. Goes(w, holding) /\ finals' = [finals EXCEPT ![r] = Append(finals[r], d)]
    BY <1>6 DEF RecordFinal
  <2>4. finals \in [Runs -> Seq(Digests)]  BY <1>0 DEF TypeOK
  <2>5. stored[r] # NoDigest /\ UNCHANGED stored
    BY <1>6 DEF RecordFinal, At, QueueInv, WorkInv, Secured
  <2>6. work \in [Workers -> Works]  BY <1>0 DEF TypeOK
  <2>13. work[w].run = r /\ work[w].digest = d  OBVIOUS
  <2> HIDE DEF holding, r, d
  <2>7. \E i \in 1..Len(finals'[r]) : finals'[r][i] = d
    <3>1. finals'[r] = Append(finals[r], d) /\ finals[r] \in Seq(Digests)  BY <2>2, <2>3, <2>4
    <3>2. Len(finals'[r]) \in 1..Len(finals'[r]) /\ finals'[r][Len(finals'[r])] = d  BY <3>1
    <3> QED  BY <3>2
  <2>8. finals' \in [Runs -> Seq(Digests)]  BY <2>2, <2>3, <2>4
  <2>9. work' = [work EXCEPT ![w] = holding] /\ work' \in [Workers -> Works]
    BY <2>2, <2>3, <2>6 DEF Goes, Works
  <2>10. TypeOK'  BY <1>0, <1>6, <2>8, <2>9 DEF RecordFinal, TypeOK
  <2>11. work'[w] = holding  BY <2>6, <2>9
  <2>12. Secured(w)'  BY <2>2, <2>5, <2>7, <2>11 DEF Secured, MeasuredAs
  <2>14. \E i \in 1..Len(finals'[work[w].run]) : finals'[work[w].run][i] = work[w].digest
    BY <2>7, <2>13
  <2> QED  BY <1>0, <1>6, <2>3, <2>10, <2>12, <2>14, WorkerStep DEF RecordFinal
<1>7. ASSUME NEW w \in Workers, Complete(w) PROVE QueueInv'
  <2>1. /\ work[w].run \in Runs /\ stored[work[w].run] # NoDigest
        /\ MeasuredAs(work[w].run, work[w].digest)
    BY <1>0, <1>7, WorkShape DEF Complete, At, QueueInv, WorkInv, Secured
  <2>2. finals[work[w].run] # <<>>  BY <2>1 DEF MeasuredAs
  <2>3. TypeOK'
    <3>1. training' \in [Runs -> [status : Statuses, by : Workers \cup {NoWorker}, beating : BOOLEAN]]
      BY <1>0, <1>7, <2>1, StatusWritten DEF Complete, Statuses
    <3> QED  BY <1>0, <1>7, <3>1, IdleType DEF Complete, Ends, Goes, TypeOK
  <2>4. Goes(w, Idle) /\ Secured(w)'
    BY <1>0, <1>7 DEF Complete, Ends, Goes, TypeOK, Secured, Idle
  <2>5. \A t \in Runs : training'[t].status = "COMPLETED" =>
          training[t].status = "COMPLETED" \/ (stored[t] # NoDigest /\ finals[t] # <<>>)
    BY <1>0, <1>7, <2>1, <2>2 DEF Complete, TypeOK
  <2> QED  BY <1>0, <1>7, <2>3, <2>4, <2>5, WorkerStep DEF Complete, At
<1>8. ASSUME NEW w \in Workers, Fail(w) \/ Die(w) PROVE QueueInv'
  <2>1. work[w].run \in Runs /\ faults' \in 0..MaxFaults
    BY <1>0, <1>8, WorkShape, FaultsAssumption DEF Fail, Die, At, Fails, TypeOK
  <2>2. cut' = cut \cup (IF At(w, "measuring") THEN {<<work[w].run, work[w].digest>>} ELSE {})
    BY <1>8 DEF Fail, Die, CutOff
  <2>3. TypeOK'
    <3>1. training' \in [Runs -> [status : Statuses, by : Workers \cup {NoWorker}, beating : BOOLEAN]]
      BY <1>0, <1>8, <2>1, StatusWritten DEF Fail, Die, Statuses, TypeOK
    <3>2. At(w, "measuring") => work[w].digest \in Digests  BY <1>0, WorkShape DEF At
    <3>3. cut' \subseteq Runs \X Digests  BY <1>0, <2>1, <2>2, <3>2 DEF TypeOK
    <3> QED  BY <1>0, <1>8, <2>1, <3>1, <3>3, IdleType DEF Fail, Die, Ends, Goes, TypeOK
  <2>4. Goes(w, Idle) /\ Secured(w)'
    BY <1>0, <1>8 DEF Fail, Die, Ends, Goes, TypeOK, Secured, Idle
  <2>5. \A t \in Runs : training'[t].status = "COMPLETED" => training[t].status = "COMPLETED"
    BY <1>0, <1>8, <2>1, StatusWritten DEF Fail, Die, Statuses
  <2>6. cut \subseteq cut' /\ (work[w].step = "measuring" => <<work[w].run, work[w].digest>> \in cut')
    BY <2>2 DEF At
  <2> QED  BY <1>0, <1>8, <2>3, <2>4, <2>5, <2>6, WorkerStep DEF Fail, Die
<1>9. ASSUME NEW t \in Runs, HeartbeatLapses(t) \/ Cancel(t) PROVE QueueInv'
  <2>1. \/ training' = [training EXCEPT ![t].status = "CANCELLED"]
        \/ training' = [training EXCEPT ![t].beating = FALSE]
    BY <1>9 DEF HeartbeatLapses, Cancel
  <2>2. /\ training' \in [Runs -> [status : Statuses, by : Workers \cup {NoWorker}, beating : BOOLEAN]]
        /\ training'[t].status \in {"CANCELLED", training[t].status}
        /\ \A u \in Runs : u # t => training'[u] = training[u]
    BY <1>0, <2>1, StatusWritten DEF Statuses
  <2>3. TypeOK'  BY <1>0, <1>9, <2>2 DEF HeartbeatLapses, Cancel, TypeOK
  <2>4. \A u \in Runs : training'[u].status = "COMPLETED" => training[u].status = "COMPLETED"
    BY <2>2
  <2> QED  BY <1>9, <2>3, <2>4, OtherStep DEF HeartbeatLapses, Cancel
<1>10. ASSUME NEW t \in Runs, WindowCloses(t) PROVE QueueInv'
  <2>1. TypeOK'  BY <1>0, <1>10 DEF WindowCloses, TypeOK
  <2>2. \A u \in Runs : onchain'[u] = onchain[u] \/ (onchain[u] = NoDigest /\ onchain'[u] = Missed)
    BY <1>0, <1>10 DEF WindowCloses, TypeOK
  <2>3. poll # NoPoll => poll.run \in Runs /\ poll.digest # NoDigest
    BY <1>0, NullsAssumption DEF TypeOK
  <2>4. \A u \in Runs : job[u].deliverable # NoDigest => onchain[u] # NoDigest
    BY DEF QueueInv, MarketInv, SubmittedWasMeasured
  <2>5. SubmittedWasMeasured'
    BY <1>10, <2>2, <2>4
    DEF WindowCloses, QueueInv, MarketInv, SubmittedWasMeasured, MeasuredAs
  <2>6. MarketInv'
    BY <1>10, <2>2, <2>3, <2>5 DEF WindowCloses, QueueInv, MarketInv, MeasuredAs
  <2> QED  BY <1>10, <2>1, <2>6, OtherStep DEF WindowCloses
<1>11. ASSUME NEW t \in Runs, FundingRetry(t) PROVE QueueInv'
  <2> DEFINE back == [job[t] EXCEPT !.status = "ESCROWED"]
             Rows == [status : {"EXECUTING", "DELIVERED", "ESCROWED"},
                      deliverable : Digests \cup {NoDigest}]
  <2>1. job \in [Runs -> Rows] /\ job' = [job EXCEPT ![t] = back]
    BY <1>0, <1>11 DEF FundingRetry, TypeOK
  <2>2. back \in Rows /\ back.status = "ESCROWED" /\ back.deliverable = job[t].deliverable
    BY <2>1
  <2> HIDE DEF back
  <2>3. job' \in [Runs -> Rows]
    BY <2>1, <2>2
  <2>4. TypeOK'  BY <1>0, <1>11, <2>3 DEF FundingRetry, TypeOK
  <2>5. \A u \in Runs : /\ job'[u].deliverable = job[u].deliverable
                        /\ job'[u].status = "DELIVERED" => job[u].status = "DELIVERED"
    BY <2>1, <2>2
  <2>6. MarketInv'
    BY <1>11, <2>5 DEF FundingRetry, QueueInv, MarketInv, SubmittedWasMeasured, MeasuredAs
  <2> QED  BY <1>11, <2>4, <2>6, OtherStep DEF FundingRetry
<1>12. ASSUME NEW t \in Runs, PollRead(t) PROVE QueueInv'
  <2> DEFINE d == LatestFinal(t)
             relay == [step |-> "relaying", run |-> t, digest |-> d]
  <2>1. finals[t] \in Seq(Digests) /\ finals[t] # <<>>  BY <1>0, <1>12 DEF PollRead, TypeOK
  <2>2. d \in Digests /\ MeasuredAs(t, d)
    <3>1. Len(finals[t]) \in 1..Len(finals[t])  BY <2>1
    <3> QED  BY <2>1, <3>1 DEF LatestFinal, MeasuredAs
  <2>3. stored[t] # NoDigest
    BY <1>12 DEF PollRead, QueueInv, WorkInv
  <2>4. poll' = relay /\ UNCHANGED <<training, results, job, onchain, work, faults>>
    BY <1>12 DEF PollRead
  <2>5. /\ relay \in [step : {"relaying", "delivered"}, run : Runs, digest : Digests]
        /\ relay.step = "relaying" /\ relay.run = t /\ relay.digest = d
    BY <2>2
  <2> HIDE DEF d, relay
  <2>6. TypeOK'  BY <1>0, <2>4, <2>5 DEF TypeOK
  <2>7. MarketInv'
    BY <2>2, <2>3, <2>4, <2>5 DEF QueueInv, MarketInv, SubmittedWasMeasured, MeasuredAs
  <2> QED  BY <2>4, <2>6, <2>7, OtherStep
<1>13. CASE RelayDeliverable
  <2> DEFINE t == poll.run
             d == poll.digest
  <2>1. /\ poll \in [step : {"relaying", "delivered"}, run : Runs, digest : Digests]
        /\ t \in Runs /\ d \in Digests /\ stored[t] # NoDigest /\ MeasuredAs(t, d)
    BY <1>0, <1>13 DEF RelayDeliverable, TypeOK, QueueInv, MarketInv
  <2>2. /\ UNCHANGED <<training, results, job, work>> /\ faults' \in 0..MaxFaults
        /\ poll' \in {NoPoll, [poll EXCEPT !.step = "delivered"]}
        /\ \/ onchain[t] = NoDigest /\ onchain' = [onchain EXCEPT ![t] = d]
           \/ UNCHANGED onchain /\ poll' = NoPoll
    BY <1>0, <1>13, FaultsAssumption DEF RelayDeliverable, Fails, TypeOK
  <2> DEFINE told == [poll EXCEPT !.step = "delivered"]
  <2>3. /\ told \in [step : {"relaying", "delivered"}, run : Runs, digest : Digests]
        /\ told.run = t /\ told.digest = d
    BY <2>1
  <2>4. poll' \in {NoPoll, told}  BY <2>2
  <2> HIDE DEF t, d, told
  <2>5. TypeOK'  BY <1>0, <2>1, <2>2, <2>3, <2>4 DEF TypeOK
  <2>6. ASSUME NEW u \in Runs
        PROVE  /\ onchain'[u] \notin {NoDigest, Missed} => stored[u] # NoDigest /\ MeasuredAs(u, onchain'[u])
               /\ job[u].deliverable # NoDigest => job[u].deliverable = onchain'[u]
    <3>1. /\ onchain[u] \notin {NoDigest, Missed} => stored[u] # NoDigest /\ MeasuredAs(u, onchain[u])
          /\ job[u].deliverable # NoDigest => job[u].deliverable = onchain[u]
      BY DEF QueueInv, MarketInv, SubmittedWasMeasured
    <3>2. onchain'[u] = onchain[u] \/ (u = t /\ onchain[u] = NoDigest /\ onchain'[u] = d)
      BY <1>0, <2>1, <2>2 DEF TypeOK
    <3>3. CASE onchain'[u] = onchain[u]  BY <3>1, <3>3
    <3>4. CASE u = t /\ onchain[u] = NoDigest /\ onchain'[u] = d  BY <2>1, <3>1, <3>4
    <3> QED  BY <3>2, <3>3, <3>4
  <2>7. SubmittedWasMeasured'
    BY <2>2, <2>6 DEF QueueInv, MarketInv, SubmittedWasMeasured, MeasuredAs
  <2>8. poll' # NoPoll => /\ poll'.run = t /\ poll'.digest = d
                          /\ stored[t] # NoDigest /\ MeasuredAs(t, d) /\ onchain'[t] = d
    BY <1>0, <2>1, <2>2, <2>3, <2>4 DEF TypeOK
  <2>9. MarketInv'  BY <2>2, <2>7, <2>8 DEF MarketInv, MeasuredAs
  <2> QED  BY <2>2, <2>5, <2>9, OtherStep
<1>14. CASE WriteDelivered
  <2> DEFINE t == poll.run
             d == poll.digest
             written == [status |-> "DELIVERED", deliverable |-> d]
  <2>1. t \in Runs /\ d \in Digests /\ onchain[t] = d
    BY <1>0, <1>14 DEF WriteDelivered, TypeOK, QueueInv, MarketInv
  <2>2. /\ UNCHANGED <<training, results, onchain, work>> /\ faults' \in 0..MaxFaults /\ poll' = NoPoll
        /\ job' = [job EXCEPT ![t] = written] \/ UNCHANGED job
    BY <1>0, <1>14, FaultsAssumption DEF WriteDelivered, Fails, TypeOK
  <2>3. /\ written \in [status : {"EXECUTING", "DELIVERED", "ESCROWED"},
                        deliverable : Digests \cup {NoDigest}]
        /\ written.deliverable = d
    BY <2>1
  <2> HIDE DEF t, d, written
  <2>8. job' \in [Runs -> [status : {"EXECUTING", "DELIVERED", "ESCROWED"},
                          deliverable : Digests \cup {NoDigest}]]
    BY <1>0, <2>1, <2>2, <2>3 DEF TypeOK
  <2>4. TypeOK'  BY <1>0, <2>2, <2>8 DEF TypeOK
  <2>5. ASSUME NEW u \in Runs
        PROVE  /\ job'[u].deliverable # NoDigest => job'[u].deliverable = onchain[u]
               /\ job'[u].status = "DELIVERED" => job'[u].deliverable # NoDigest
    <3>1. job'[u] = job[u] \/ (u = t /\ job'[u] = written)
      BY <1>0, <2>1, <2>2 DEF TypeOK
    <3>2. CASE job'[u] = job[u]  BY <3>2 DEF QueueInv, MarketInv, SubmittedWasMeasured
    <3>3. CASE u = t /\ job'[u] = written  BY <2>1, <2>3, <3>3, NullsAssumption
    <3> QED  BY <3>1, <3>2, <3>3
  <2>6. SubmittedWasMeasured'
    BY <2>2, <2>5 DEF QueueInv, MarketInv, SubmittedWasMeasured, MeasuredAs
  <2>7. MarketInv'  BY <2>2, <2>6 DEF MarketInv
  <2> QED  BY <2>2, <2>4, <2>7, OtherStep
<1>15. CASE UNCHANGED vars
  BY <1>0, <1>15, OtherStep DEF vars, TypeOK
<1> QED
  BY <1>1, <1>2, <1>3, <1>4, <1>5, <1>6, <1>7, <1>8, <1>9, <1>10, <1>11, <1>12, <1>13, <1>14, <1>15
  DEF Next, Continues, PollGoesOn

-----------------------------------------------------------------------------
(* The theorems.                                                           *)

\* The queue's invariant, for every behaviour.
THEOREM QueueInvariance == Spec => []QueueInv
<1> QED  BY QueueInit, QueueStep, PTL DEF Spec

\* The queue's variables keep their types.
THEOREM QueueTypeCorrect == Spec => []TypeOK
<1>1. QueueInv => TypeOK  BY DEF QueueInv
<1> QED  BY <1>1, QueueInvariance, PTL

\* Whatever workers a run had, and whichever of them marks it COMPLETED, it then has an
\* artifact and a snapshot, and the artifact was measured unless its own attempt is
\* just before that or was cut off there.
THEOREM CompletedIsDeliverable == Spec => []CompletedHasDeliverable
<1>1. QueueInv => CompletedHasDeliverable
  BY DEF QueueInv, WorkInv, Backed, CompletedHasDeliverable
<1> QED  BY <1>1, QueueInvariance, PTL

\* No digest reaches the chain that was not measured for that run, and no row shows a
\* deliverable that the chain has not.
THEOREM SubmittedIsMeasured == Spec => []SubmittedWasMeasured
<1>1. QueueInv => SubmittedWasMeasured  BY DEF QueueInv, MarketInv
<1> QED  BY <1>1, QueueInvariance, PTL

=============================================================================
