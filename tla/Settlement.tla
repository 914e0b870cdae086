------------------------------ MODULE Settlement ------------------------------
(***************************************************************************)
(* From a delivered job to its verdict and the feedback on its provider:   *)
(*   workers/training-worker/src/verification_runner.py measures what was  *)
(*     delivered,                                                          *)
(*   services/evaluation-service (settlement-loop.ts, verifier.service.ts) *)
(*     judges the measurement and closes the escrow,                       *)
(*   services/base-chain-service (feedback-loop.ts, reputation.service.ts) *)
(*     publishes the creator's feedback.                                   *)
(* They share the A2AJob rows and the chain, and no lock: every step below *)
(* is one database statement or one transaction, any process may die       *)
(* between two of them, and a transaction's answer may be lost.            *)
(***************************************************************************)
EXTENDS A2AJobEscrow, Sequences, Functions

CONSTANTS
  Delivered,     \* the chain's record of each job when the model begins
  Target,        \* the jobs' targetOp and targetValue
  Scores,        \* values the target metric may be measured at
  Unmeasured,    \* the metric is null in the verification run
  NoSnapshot,    \* verificationSnapshotId is null
  NoReport,      \* reportHash is zero
  DeliveredAt,   \* order of delivery
  PollLimit,     \* how many pending jobs one settlement pass looks at
  Verifiers,     \* worker processes
  Handlers,      \* slots of timer ticks and requests in the two services
  MaxFaults      \* bound: processes dead, exceptions, answers lost

ASSUME DeliveredAssumption ==
  /\ Delivered \in [JobIds -> Job]
  /\ \A j \in JobIds : Delivered[j].status = "DELIVERED" /\ Delivered[j].artifact \in Artifacts
  /\ DeliveredAt \in [JobIds -> Nat]
ASSUME ScoresAssumption ==
  /\ Scores \subseteq Nat /\ Unmeasured \notin Scores
  /\ Target \in [op : {"gte", "gt", "lte", "lt", "eq"}, value : Nat]
ASSUME ProcessesAssumption == Verifiers \cap Handlers = {} /\ PollLimit \in Nat /\ MaxFaults \in Nat

VARIABLES
  row,        \* the A2AJob rows
  stored,     \* TrainingArtifact: the checkpoint kept for each job's training run
  copy,       \* the checkpoint file on each worker's own disk
  snapshots,  \* the VERIFICATION rows of AgentCapabilitySnapshot
  verdict,    \* the report each job's escrow was closed with
  feedback,   \* what the reputation registry holds about each job
  work,       \* what each process holds between two awaits
  faults

chain == vars
offchain == <<row, stored, copy, snapshots, verdict, feedback, work, faults>>
allVars == <<chain, offchain>>

Snapshot == [job : JobIds, artifact : Artifacts, measured : Scores \cup {Unmeasured}]
Report == [snapshot : Snapshot, accepted : BOOLEAN]

ASSUME NullsAssumption == NoSnapshot \notin Snapshot /\ NoReport \notin Report

Idle == [step |-> "idle"]

\* Every job is delivered, by a deliverable the marketplace wrote down too; the
\* worker that trained it may be one of the verifiers and still have its file, and
\* what is in storage may have been replaced since, or never have been stored.
SettleInit ==
  /\ job = Delivered
  /\ bal = [a \in Accounts |->
              IF a = Escrow THEN SumFunction([j \in JobIds |-> Delivered[j].price])
              ELSE InitialBalance]
  /\ usedAuth = {<<auth.from, auth.nonce>> : auth \in Authorizations}
  /\ treasury \in Wallets
  /\ commissionBps = InitialRate /\ paused = FALSE /\ now = 0
  /\ paid = [j \in JobIds |-> NoPayment]
  /\ fees = [a \in Accounts |-> 0]
  /\ row = [j \in JobIds |->
              [status |-> "DELIVERED", deliverable |-> Delivered[j].artifact, snapshot |-> NoSnapshot,
               claim |-> "none", accepted |-> "null", published |-> FALSE]]
  /\ stored \in [JobIds -> Artifacts \cup {NoArtifact}]
  /\ copy \in [Verifiers -> [JobIds -> Artifacts \cup {NoArtifact}]]
  /\ snapshots = {}
  /\ verdict = [j \in JobIds |-> NoReport]
  /\ feedback = [j \in JobIds |-> <<>>]
  /\ work = [p \in Verifiers \cup Handlers |-> Idle]
  /\ faults = 0

At(p, step) == work[p].step = step
Goes(p, holding) == work' = [work EXCEPT ![p] = holding]
Ends(p) == Goes(p, Idle)
Fails == faults < MaxFaults /\ faults' = faults + 1

\* The process dies, or its request fails, between two steps.
Abandon(p) ==
  /\ ~At(p, "idle")
  /\ Ends(p) /\ Fails
  /\ UNCHANGED <<chain, row, stored, copy, snapshots, verdict, feedback>>

-----------------------------------------------------------------------------
(* The worker: claim, measure, record.                                     *)

ClaimableUntilTaken(j) ==
  row[j].status = "DELIVERED" /\ row[j].snapshot = NoSnapshot /\ row[j].claim = "none"

Claimable(j) ==
  row[j].status = "DELIVERED" /\ row[j].snapshot = NoSnapshot /\ row[j].claim \in {"none", "lapsed"}

\* claim_next_verification: SKIP LOCKED may pass over an older job that another
\* statement is writing, so any claimable job may be the one.
ClaimVerification(v, j) ==
  /\ At(v, "idle")
  /\ Claimable(j)
  /\ row' = [row EXCEPT ![j].claim = "held"]
  /\ Goes(v, [step |-> "verifying", job |-> j, committed |-> row[j].deliverable])
  /\ UNCHANGED <<chain, stored, copy, snapshots, verdict, feedback, faults>>

\* Fifteen minutes after the claim, whether its worker died or is still at work.
ClaimLapses(j) ==
  /\ row[j].claim = "held"
  /\ row' = [row EXCEPT ![j].claim = "lapsed"]
  /\ UNCHANGED <<chain, stored, copy, snapshots, verdict, feedback, work, faults>>

\* A file on the worker's own disk is used before the stored artifact.
FileOf(v, j) == IF copy[v][j] # NoArtifact THEN copy[v][j] ELSE stored[j]

AnyFile(v, j) == FileOf(v, j) # NoArtifact

IsCommitted(v, j) == FileOf(v, j) # NoArtifact /\ FileOf(v, j) = work[v].committed

\* execute_verification up to the snapshot: another artifact than the committed
\* one, or none at all, parks the job for a hundred years.
Measure(v) ==
  LET j == work[v].job
  IN  /\ At(v, "verifying")
      /\ copy' = [copy EXCEPT ![v][j] = FileOf(v, j)]
      /\ \/ /\ ~IsCommitted(v, j)
            /\ row' = [row EXCEPT ![j].claim = "parked"]
            /\ Ends(v)
            /\ UNCHANGED snapshots
         \/ /\ IsCommitted(v, j)
            /\ \E score \in Scores \cup {Unmeasured} :
                 LET snapshot == [job |-> j, artifact |-> FileOf(v, j), measured |-> score]
                 IN  /\ snapshots' = snapshots \cup {snapshot}
                     /\ Goes(v, [step |-> "recording", job |-> j, snapshot |-> snapshot])
            /\ UNCHANGED row
      /\ UNCHANGED <<chain, stored, verdict, feedback, faults>>

\* The UPDATE names no owner and no status: a worker whose claim lapsed replaces
\* the snapshot of the one that took over, before or after the verdict.
RecordSnapshot(v) ==
  /\ At(v, "recording")
  /\ row' = [row EXCEPT ![work[v].job].snapshot = work[v].snapshot, ![work[v].job].claim = "none"]
  /\ Ends(v)
  /\ UNCHANGED <<chain, stored, copy, snapshots, verdict, feedback, faults>>

\* record_verification_crash: the claim's time starts again.
VerificationRaises(v) ==
  /\ work[v].step \in {"verifying", "recording"}
  /\ row' = [row EXCEPT ![work[v].job].claim = "held"]
  /\ Ends(v) /\ Fails
  /\ UNCHANGED <<chain, stored, copy, snapshots, verdict, feedback>>

-----------------------------------------------------------------------------
(* The verdict.                                                            *)

MeetsTarget(measured) ==
  \/ Target.op = "gte" /\ measured >= Target.value
  \/ Target.op = "gt" /\ measured > Target.value
  \/ Target.op = "lte" /\ measured <= Target.value
  \/ Target.op = "lt" /\ measured < Target.value
  \/ Target.op = "eq" /\ measured = Target.value

\* verifyAndSettle up to the published report; it throws on a null metric.
Judges(h, j) ==
  /\ At(h, "idle")
  /\ row[j].snapshot # NoSnapshot
  /\ row[j].snapshot.measured # Unmeasured
  /\ Goes(h, [step |-> "judging", job |-> j,
              report |-> [snapshot |-> row[j].snapshot,
                          accepted |-> MeetsTarget(row[j].snapshot.measured)]])
  /\ UNCHANGED <<chain, row, stored, copy, snapshots, verdict, feedback, faults>>

\* POST /jobs/:jobId/verify, at any time.
VerifyRequest(h, j) == Judges(h, j)

\* pendingVerdicts.
Pending(j) ==
  row[j].status = "DELIVERED" /\ row[j].snapshot # NoSnapshot /\ row[j].accepted = "null"

\* One job of a settlement pass, which looks at the oldest pending jobs only.
SettlementPass(h, j) ==
  /\ Pending(j)
  /\ Cardinality({k \in JobIds : Pending(k) /\ DeliveredAt[k] < DeliveredAt[j]}) < PollLimit
  /\ Judges(h, j)

VerdictUnchecked(h) ==
  LET j == work[h].job
      judged == [step |-> "judged", job |-> j, report |-> work[h].report]
  IN  /\ At(h, "judging")
      /\ \/ /\ SubmitVerdict(j, work[h].report.accepted)
            /\ verdict' = [verdict EXCEPT ![j] = work[h].report]
         \/ job[j].status \in Closed /\ UNCHANGED <<chain, verdict>>
      /\ Goes(h, judged)
      /\ UNCHANGED <<row, stored, copy, snapshots, feedback, faults>>

\* jobStatus and submitVerdict: only a job the chain shows as DELIVERED is judged.
\* (The ESCROWED and EXECUTING branch has no caller: a row gets a snapshot only
\* after its deliverable is on the chain, which never goes back.)
Verdict(h) ==
  LET j == work[h].job
      judged == [step |-> "judged", job |-> j, report |-> work[h].report]
  IN  /\ At(h, "judging")
      /\ \/ /\ SubmitVerdict(j, work[h].report.accepted)
            /\ verdict' = [verdict EXCEPT ![j] = work[h].report]
            /\ \/ Goes(h, judged) /\ UNCHANGED faults
               \/ Ends(h) /\ Fails
         \/ /\ job[j].status # "DELIVERED"
            /\ Ends(h)
            /\ UNCHANGED <<chain, verdict, faults>>
      /\ UNCHANGED <<row, stored, copy, snapshots, feedback>>

WriteVerdict(h) ==
  LET accepted == work[h].report.accepted
  IN  /\ At(h, "judged")
      /\ row' = [row EXCEPT ![work[h].job].status = IF accepted THEN "SETTLED" ELSE "REFUNDED",
                            ![work[h].job].accepted = IF accepted THEN "yes" ELSE "no"]
      /\ Ends(h)
      /\ UNCHANGED <<chain, stored, copy, snapshots, verdict, feedback, faults>>

-----------------------------------------------------------------------------
(* The creator's feedback, from the loop or POST /reputation/.../publish.  *)

FeedbackOwedOnSuccess(j) == row[j].accepted = "yes" /\ ~row[j].published

FeedbackOwed(j) == row[j].accepted # "null" /\ ~row[j].published

FeedbackOnStatus(h, j) ==
  /\ At(h, "idle")
  /\ job[j].status \in Closed /\ ~row[j].published
  /\ Goes(h, [step |-> "reviewing", job |-> j, value |-> IF job[j].status = "SETTLED" THEN 100 ELSE 0])
  /\ UNCHANGED <<chain, row, stored, copy, snapshots, verdict, feedback, faults>>

PublishRead(h, j) ==
  /\ At(h, "idle")
  /\ FeedbackOwed(j)
  /\ Goes(h, [step |-> "reviewing", job |-> j, value |-> IF row[j].accepted = "yes" THEN 100 ELSE 0])
  /\ UNCHANGED <<chain, row, stored, copy, snapshots, verdict, feedback, faults>>

\* giveFeedback takes every review it is sent.
GiveFeedback(h) ==
  LET j == work[h].job
  IN  /\ At(h, "reviewing")
      /\ feedback' = [feedback EXCEPT ![j] = Append(@, work[h].value)]
      /\ \/ Goes(h, [step |-> "reviewed", job |-> j]) /\ UNCHANGED faults
         \/ Ends(h) /\ Fails
      /\ UNCHANGED <<chain, row, stored, copy, snapshots, verdict>>

WriteFeedback(h) ==
  /\ At(h, "reviewed")
  /\ row' = [row EXCEPT ![work[h].job].published = TRUE]
  /\ Ends(h)
  /\ UNCHANGED <<chain, stored, copy, snapshots, verdict, feedback, faults>>

-----------------------------------------------------------------------------

\* POST fund again, for a job that is long funded: fundJob answers alreadyFunded, the
\* row's status is written by id over whatever it is, and startExecution finds that
\* the job has a training run.
FundingRetry(j) ==
  /\ row' = [row EXCEPT ![j].status = "ESCROWED"]
  /\ UNCHANGED <<chain, stored, copy, snapshots, verdict, feedback, work, faults>>

\* The chain's other users, and its clock.
Elsewhere ==
  /\ \/ \E j \in JobIds : ClaimTimeoutRefund(j) \/ Party(j) \/ Arbiter(j)
     \/ Tick
  /\ UNCHANGED offchain

Works(v) == Measure(v) \/ RecordSnapshot(v)

Continues(h) == Verdict(h) \/ WriteVerdict(h) \/ GiveFeedback(h) \/ WriteFeedback(h)

SettleNext ==
  \/ \E v \in Verifiers :
       Works(v) \/ VerificationRaises(v) \/ (\E j \in JobIds : ClaimVerification(v, j))
  \/ \E h \in Handlers :
       Continues(h) \/ (\E j \in JobIds : VerifyRequest(h, j) \/ SettlementPass(h, j) \/ PublishRead(h, j))
  \/ \E p \in Verifiers \cup Handlers : Abandon(p)
  \/ \E j \in JobIds : ClaimLapses(j) \/ FundingRetry(j)
  \/ Elsewhere

SettleSpec == SettleInit /\ [][SettleNext]_allVars

(* Both timers and the worker's polling go on, a claim's fifteen minutes   *)
(* pass, every statement and transaction returns, and a creator's key can  *)
(* pay for its feedback.  Nothing is assumed of the people who send        *)
(* requests, dispute jobs or claim refunds.                                *)
SettleFairness ==
  /\ \A v \in Verifiers :
       WF_allVars(Works(v)) /\ \A j \in JobIds : SF_allVars(ClaimVerification(v, j))
  /\ \A h \in Handlers :
       /\ WF_allVars(Continues(h))
       /\ \A j \in JobIds : SF_allVars(SettlementPass(h, j)) /\ SF_allVars(PublishRead(h, j))
  /\ \A j \in JobIds : WF_allVars(ClaimLapses(j))

LiveSettle == SettleSpec /\ SettleFairness

-----------------------------------------------------------------------------
(* Properties.                                                             *)

Row ==
  [status : {"ESCROWED", "DELIVERED", "SETTLED", "REFUNDED"}, deliverable : Artifacts,
   snapshot : Snapshot \cup {NoSnapshot}, claim : {"none", "held", "lapsed", "parked"},
   accepted : {"null", "yes", "no"}, published : BOOLEAN]

SettleTypeOK ==
  /\ row \in [JobIds -> Row]
  /\ stored \in [JobIds -> Artifacts \cup {NoArtifact}]
  /\ copy \in [Verifiers -> [JobIds -> Artifacts \cup {NoArtifact}]]
  /\ snapshots \subseteq Snapshot
  /\ verdict \in [JobIds -> Report \cup {NoReport}]
  /\ feedback \in [JobIds -> Seq({0, 100})]
  /\ \A p \in Verifiers \cup Handlers : ~At(p, "idle") => work[p].job \in JobIds
  /\ faults \in 0..MaxFaults

\* Money moves on an independent measurement of the very artifact committed on
\* the chain, by the job's own predicate, although late workers may replace the
\* row's snapshot at any time (verification_runner.py, "Checkpoint digest is
\* checked against the on-chain commitment"; "the provider never supplies the
\* score").
JudgedOnMeasurement ==
  \A j \in JobIds : verdict[j] # NoReport =>
    /\ verdict[j].snapshot \in snapshots
    /\ verdict[j].snapshot.job = j
    /\ verdict[j].snapshot.artifact = job[j].artifact
    /\ verdict[j].accepted <=> MeetsTarget(verdict[j].snapshot.measured)
    /\ job[j].status = IF verdict[j].accepted THEN "SETTLED" ELSE "REFUNDED"

\* What a row says of the outcome is what the escrow closed with, although verdicts
\* may be requested twice at once, race the timeout refund and disputes, and meet
\* funding retries: verdictAccepted repeats the verdict, and a row that shows
\* SETTLED or REFUNDED shows the chain's own status.  (A retry may hide the outcome
\* behind ESCROWED, and nothing repairs that row; it never shows a false one.)
OutcomeAsOnChain ==
  \A j \in JobIds :
    /\ row[j].accepted # "null" =>
         verdict[j] # NoReport /\ row[j].accepted = IF verdict[j].accepted THEN "yes" ELSE "no"
    /\ row[j].status \in {"SETTLED", "REFUNDED"} =>
         row[j].accepted # "null" /\ row[j].status = job[j].status

\* Only a verdict is published to the registry, and what is published is that
\* verdict, however often: a timeout or an arbiter's split says nothing about the
\* provider (publishJobFeedback).
FeedbackTruthful ==
  \A j \in JobIds : \A i \in 1..Len(feedback[j]) :
    verdict[j] # NoReport /\ feedback[j][i] = IF verdict[j].accepted THEN 100 ELSE 0

\* A delivered job does not wait unmeasured: a worker that dies or raises holds
\* it up only until its claim lapses; only an artifact that is not the committed
\* one parks it, and only a funding retry takes its row out of the workers' sight.
EveryDeliveryMeasured ==
  \A j \in JobIds :
    (row[j].snapshot = NoSnapshot) ~>
      (row[j].snapshot # NoSnapshot \/ row[j].claim = "parked" \/ row[j].status = "ESCROWED")

Measured(j) == row[j].snapshot # NoSnapshot /\ row[j].snapshot.measured # Unmeasured

\* A job "delivered, and independently verified" does not sit at DELIVERED "with its
\* escrow untouched": "nothing should have to call it for a job to get paid" (main.ts),
\* for "polling a table cannot drop anything" (settlement-loop.ts).  The rows that a
\* funding retry took back are left out: this is about the loop itself, and the rows
\* that fill its window for good.
VerifiedJobsSettle ==
  \A j \in JobIds :
    (Measured(j) /\ row[j].status = "DELIVERED" /\ job[j].status = "DELIVERED") ~>
      (~Measured(j) \/ row[j].status # "DELIVERED" \/ job[j].status # "DELIVERED")

\* Every verdict the marketplace knows of ends up in the registry.
VerdictsPublished ==
  \A j \in JobIds : (row[j].accepted # "null") ~> (feedback[j] # <<>>)

=============================================================================
