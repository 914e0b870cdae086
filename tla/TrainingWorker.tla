--------------------------- MODULE TrainingWorker ---------------------------
(***************************************************************************)
(* The queue of training runs and the workers that serve it:               *)
(* workers/training-worker/src (main.py, trait_training_runner.py), the    *)
(* cancellation of packages/db-client/src/repositories/                    *)
(* training.repository.ts, and the poll that turns a finished run into a   *)
(* deliverable (services/a2a-marketplace-service/src/execution.service.ts).*)
(*                                                                         *)
(* The workers' connections autocommit: each statement is an action.  A    *)
(* run belongs to whoever claimed it last, but no later statement of a     *)
(* worker checks that it is still the one.                                 *)
(***************************************************************************)
EXTENDS Integers, Sequences, FiniteSets

CONSTANTS
  Workers,
  NoWorker,     \* claimedBy is null
  Runs,         \* TrainingJob ids of marketplace jobs
  Digests,      \* checkpoints that an attempt may produce
  NoDigest,     \* nothing stored, nothing submitted
  Missed,       \* the escrow takes no deliverable any more, and has none
  NoPoll,
  PollLimit,    \* how many executing jobs one poll looks at
  MaxFaults     \* bound: processes dead, exceptions, relays failed, answers lost

ASSUME NullsAssumption ==
  /\ NoWorker \notin Workers /\ NoDigest \notin Digests /\ Missed \notin Digests \cup {NoDigest}
  /\ NoPoll \notin [step : {"relaying", "delivered"}, run : Runs, digest : Digests]
ASSUME FaultsAssumption == MaxFaults \in Nat /\ PollLimit \in Nat

VARIABLES
  training,   \* the TrainingJob rows
  stored,     \* TrainingArtifact, one per run
  finals,     \* the digests of each run's FINAL snapshots, in createdAt order
  cut,        \* history: artifacts of attempts cut off before their FINAL snapshot
  job,        \* status and deliverableHash of the A2AJob row that waits for the run
  onchain,    \* the deliverable the escrow has of that job
  work,       \* what each worker is doing
  poll,       \* the deliverable the poll is relaying, or has relayed
  faults

results == <<stored, finals, cut>>
market == <<job, onchain, poll>>
vars == <<training, results, market, work, faults>>

Statuses == {"QUEUED", "RUNNING", "COMPLETED", "FAILED", "CANCELLED"}
Ended == {"COMPLETED", "FAILED", "CANCELLED"}

Idle == [step |-> "idle"]

Init ==
  /\ training = [t \in Runs |-> [status |-> "QUEUED", by |-> NoWorker, beating |-> FALSE]]
  /\ stored = [t \in Runs |-> NoDigest]
  /\ finals = [t \in Runs |-> <<>>]
  /\ cut = {}
  /\ job = [t \in Runs |-> [status |-> "EXECUTING", deliverable |-> NoDigest]]
  /\ onchain = [t \in Runs |-> NoDigest]
  /\ work = [w \in Workers |-> Idle]
  /\ poll = NoPoll
  /\ faults = 0

At(w, step) == work[w].step = step
Goes(w, holding) == work' = [work EXCEPT ![w] = holding]
Ends(w) == Goes(w, Idle)
Fails == faults < MaxFaults /\ faults' = faults + 1

-----------------------------------------------------------------------------
(* The main loop between two runs.                                         *)

\* claim_next_job.
Claim(w, t) ==
  /\ At(w, "idle")
  /\ training[t].status = "QUEUED"
  /\ training' = [training EXCEPT ![t] = [status |-> "RUNNING", by |-> w, beating |-> TRUE]]
  /\ Goes(w, [step |-> "training", run |-> t])
  /\ UNCHANGED <<results, market, faults>>

\* The heartbeat is older than the sweep allows: its worker died, or is slow.
HeartbeatLapses(t) ==
  /\ training[t].status = "RUNNING" /\ training[t].beating
  /\ training' = [training EXCEPT ![t].beating = FALSE]
  /\ UNCHANGED <<results, market, work, faults>>

StaleUnclaimed ==
  {t \in Runs : training[t].status = "RUNNING" /\ ~training[t].beating /\ training[t].by = NoWorker}

StaleRuns == {t \in Runs : training[t].status = "RUNNING" /\ ~training[t].beating}

\* requeue_stale_jobs, one statement over all rows.
Requeue(w) ==
  /\ At(w, "idle")
  /\ StaleRuns # {}
  /\ training' = [t \in Runs |->
       IF t \in StaleRuns THEN [training[t] EXCEPT !.status = "QUEUED", !.by = NoWorker]
       ELSE training[t]]
  /\ UNCHANGED <<results, market, work, faults>>

-----------------------------------------------------------------------------
(* execute_job.                                                            *)

\* ProgressReporter.__call__.
Beat(w) ==
  /\ At(w, "training")
  /\ ~training[work[w].run].beating
  /\ training' = [training EXCEPT ![work[w].run].beating = TRUE]
  /\ UNCHANGED <<results, market, work, faults>>

\* run_training_job.  Two attempts at a run need not produce the same bytes: a
\* cancellation cuts one short, a deploy changes the code or the machine.
Train(w) ==
  /\ At(w, "training")
  /\ \E d \in Digests : Goes(w, [step |-> "storing", run |-> work[w].run, digest |-> d])
  /\ UNCHANGED <<training, results, market, faults>>

\* _persist_artifact.
Store(w) ==
  /\ At(w, "storing")
  /\ stored' = [stored EXCEPT ![work[w].run] = work[w].digest]
  /\ Goes(w, [work[w] EXCEPT !.step = "measuring"])
  /\ UNCHANGED <<training, finals, cut, market, faults>>

CompletesFirst(w) ==
  /\ At(w, "measuring")
  /\ training' = [training EXCEPT ![work[w].run].status = "COMPLETED"]
  /\ Goes(w, [work[w] EXCEPT !.step = "completing"])
  /\ UNCHANGED <<results, market, faults>>

\* _persist_snapshot; only the FINAL one is read again.
RecordFinal(w) ==
  /\ At(w, "measuring")
  /\ finals' = [finals EXCEPT ![work[w].run] = Append(@, work[w].digest)]
  /\ Goes(w, [work[w] EXCEPT !.step = "completing"])
  /\ UNCHANGED <<training, stored, cut, market, faults>>

Complete(w) ==
  /\ At(w, "completing")
  /\ training' = [training EXCEPT ![work[w].run].status = "COMPLETED", ![work[w].run].beating = TRUE]
  /\ Ends(w)
  /\ UNCHANGED <<results, market, faults>>

CutOff(w) ==
  cut' = cut \cup (IF At(w, "measuring") THEN {<<work[w].run, work[w].digest>>} ELSE {})

\* The main loop's except clause.
Fail(w) ==
  /\ ~At(w, "idle")
  /\ training' = [training EXCEPT ![work[w].run].status = "FAILED", ![work[w].run].beating = TRUE]
  /\ Ends(w) /\ Fails /\ CutOff(w)
  /\ UNCHANGED <<stored, finals, market>>

\* The process is killed; another one takes its place.
Die(w) ==
  /\ ~At(w, "idle")
  /\ Ends(w) /\ Fails /\ CutOff(w)
  /\ UNCHANGED <<training, stored, finals, market>>

-----------------------------------------------------------------------------
(* The run's other users.                                                  *)

\* TrainingRepository.cancel, in any status.
Cancel(t) ==
  /\ training[t].status # "CANCELLED"
  /\ training' = [training EXCEPT ![t].status = "CANCELLED"]
  /\ UNCHANGED <<results, market, work, faults>>

\* The deadline passes, or a party disputes the job.
WindowCloses(t) ==
  /\ onchain[t] = NoDigest
  /\ onchain' = [onchain EXCEPT ![t] = Missed]
  /\ UNCHANGED <<training, results, job, work, poll, faults>>

\* A repeated funding request writes ESCROWED over any status; the sweep passes over
\* a job that has a training run.
FundingRetry(t) ==
  /\ job' = [job EXCEPT ![t].status = "ESCROWED"]
  /\ UNCHANGED <<training, results, onchain, work, poll, faults>>

-----------------------------------------------------------------------------
(* pollExecution, one job at a time.                                       *)

Executing == {t \in Runs : job[t].status = "EXECUTING"}

\* take: limit, in no order: with more jobs than that, some may never be looked at.
AllPolled == Cardinality(Executing) <= PollLimit

StoredDigest(t) == stored[t]

LatestFinal(t) == finals[t][Len(finals[t])]

PollReadUnique(t) ==
  /\ poll = NoPoll
  /\ t \in Executing /\ training[t].status = "COMPLETED"
  /\ Len(finals[t]) = 1
  /\ poll' = [step |-> "relaying", run |-> t, digest |-> LatestFinal(t)]
  /\ UNCHANGED <<training, results, job, onchain, work, faults>>

\* The run is COMPLETED, and its latest FINAL snapshot names the deliverable.
PollRead(t) ==
  /\ poll = NoPoll
  /\ t \in Executing /\ training[t].status = "COMPLETED"
  /\ finals[t] # <<>>
  /\ poll' = [step |-> "relaying", run |-> t, digest |-> LatestFinal(t)]
  /\ UNCHANGED <<training, results, job, onchain, work, faults>>

\* submitDeliverable takes the first deliverable in time and refuses any other; the
\* relay may fail before it, or its answer be lost.
RelayDeliverable ==
  /\ poll # NoPoll /\ poll.step = "relaying"
  /\ \/ /\ onchain[poll.run] = NoDigest
        /\ onchain' = [onchain EXCEPT ![poll.run] = poll.digest]
        /\ \/ poll' = [poll EXCEPT !.step = "delivered"] /\ UNCHANGED faults
           \/ poll' = NoPoll /\ Fails
     \/ onchain[poll.run] # NoDigest /\ poll' = NoPoll /\ UNCHANGED <<onchain, faults>>
     \/ poll' = NoPoll /\ Fails /\ UNCHANGED onchain
  /\ UNCHANGED <<training, results, job, work>>

\* The row's update, or the end of the process before it.
WriteDelivered ==
  /\ poll # NoPoll /\ poll.step = "delivered"
  /\ poll' = NoPoll
  /\ \/ /\ job' = [job EXCEPT ![poll.run] = [status |-> "DELIVERED", deliverable |-> poll.digest]]
        /\ UNCHANGED faults
     \/ Fails /\ UNCHANGED job
  /\ UNCHANGED <<training, results, onchain, work>>

PollGoesOn == RelayDeliverable \/ WriteDelivered

Continues(w) == Train(w) \/ Store(w) \/ RecordFinal(w) \/ Complete(w)

Next ==
  \/ \E w \in Workers :
       (\E t \in Runs : Claim(w, t)) \/ Requeue(w) \/ Beat(w) \/ Continues(w) \/ Fail(w) \/ Die(w)
  \/ \E t \in Runs :
       HeartbeatLapses(t) \/ Cancel(t) \/ WindowCloses(t) \/ FundingRetry(t) \/ PollRead(t)
  \/ PollGoesOn

Spec == Init /\ [][Next]_vars

(* Workers keep polling and sweeping and finish what they train, time      *)
(* passes for the heartbeat of a dead one, and the poll's timer ticks; a   *)
(* job is sure of its turn only as long as the poll takes all of them.     *)
(* Nobody has to cancel anything.                                          *)
FairRun(t) ==
  /\ \A w \in Workers : SF_vars(Claim(w, t))
  /\ WF_vars(HeartbeatLapses(t))
  /\ SF_vars(AllPolled /\ PollRead(t))

FairProcesses ==
  /\ \A w \in Workers : WF_vars(Continues(w)) /\ SF_vars(Requeue(w))
  /\ WF_vars(PollGoesOn)

LiveSpec == Spec /\ FairProcesses /\ \A t \in Runs : FairRun(t)

-----------------------------------------------------------------------------
(* Properties.                                                             *)

Works ==
  {Idle} \cup [step : {"training"}, run : Runs]
         \cup [step : {"storing", "measuring", "completing"}, run : Runs, digest : Digests]

TypeOK ==
  /\ training \in [Runs -> [status : Statuses, by : Workers \cup {NoWorker}, beating : BOOLEAN]]
  /\ stored \in [Runs -> Digests \cup {NoDigest}]
  /\ finals \in [Runs -> Seq(Digests)]
  /\ cut \subseteq Runs \X Digests
  /\ job \in [Runs -> [status : {"EXECUTING", "DELIVERED", "ESCROWED"},
                       deliverable : Digests \cup {NoDigest}]]
  /\ onchain \in [Runs -> Digests \cup {NoDigest, Missed}]
  /\ work \in [Workers -> Works]
  /\ poll \in {NoPoll} \cup [step : {"relaying", "delivered"}, run : Runs, digest : Digests]
  /\ faults \in 0..MaxFaults

MeasuredAs(t, d) == \E i \in 1..Len(finals[t]) : finals[t][i] = d

\* "Persist before marking COMPLETED": whoever is still at work on the run, a run
\* that shows COMPLETED has an artifact and a FINAL snapshot, and the artifact in
\* storage is one that a snapshot of the run measured, unless the attempt that stored
\* it is just about to measure it or was cut off before it could.  (Not more: the
\* latest snapshot may be of another attempt than the artifact.)
CompletedHasDeliverable ==
  \A t \in Runs : training[t].status = "COMPLETED" =>
    /\ stored[t] # NoDigest /\ finals[t] # <<>>
    /\ \/ MeasuredAs(t, stored[t])
       \/ <<t, stored[t]>> \in cut
       \/ \E w \in Workers :
            work[w].step = "measuring" /\ work[w].run = t /\ work[w].digest = stored[t]

\* What is committed on the chain was measured by an attempt at that very run, and
\* what the row of the job shows as delivered is what the chain has, whatever became
\* of the run since and whatever answers of the relay were lost.
SubmittedWasMeasured ==
  \A t \in Runs :
    /\ onchain[t] \notin {NoDigest, Missed} => stored[t] # NoDigest /\ MeasuredAs(t, onchain[t])
    /\ job[t].deliverable # NoDigest => job[t].deliverable = onchain[t]
    /\ job[t].status = "DELIVERED" => job[t].deliverable # NoDigest

\* A crashed worker does not strand its run "in RUNNING forever".
EveryRunEnds ==
  \A t \in Runs : (training[t].status \notin Ended) ~> (training[t].status \in Ended)

\* A job that waits for the deliverable of its completed run.
Awaits(t) == t \in Executing /\ training[t].status = "COMPLETED" /\ onchain[t] = NoDigest

\* A completed run's deliverable reaches the chain, through failed relays, unless the
\* escrow's window closes before, the run is written over, a funding retry takes the
\* job out of the poll's sight, or more jobs are executing than one poll takes.  (Of
\* the row nothing is said: an answer lost leaves it EXECUTING for good.)
CompletedGetsSubmitted ==
  \A t \in Runs : Awaits(t) ~> (~Awaits(t) \/ ~AllPolled)

=============================================================================
