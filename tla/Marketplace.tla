----------------------------- MODULE Marketplace -----------------------------
(***************************************************************************)
(* The marketplace's own record of a job, from draft to delivery, against  *)
(* the chain's: services/a2a-marketplace-service (job.service.ts,          *)
(* negotiation.service.ts, routes/funding.routes.ts, execution.service.ts) *)
(* and the relay of services/base-chain-service (job.service.ts,           *)
(* settlement.service.ts).  The chain is A2AJobEscrow itself: a relay       *)
(* submits one of its transactions.                                        *)
(*                                                                         *)
(* Requests and timer ticks run concurrently, each from one await to the   *)
(* next.  A database write replaces the columns it names, whatever became  *)
(* of the row since the handler read it.  A relay's answer may be an error *)
(* although its transaction went through, and a handler may die at any     *)
(* await.                                                                  *)
(***************************************************************************)
EXTENDS A2AJobEscrow

CONSTANTS
  Handlers,        \* slots of concurrently running HTTP requests and timer ticks
  Providers,       \* wallets of the agents that may negotiate
  Draft,           \* what each job's author confirmed: postJob's arguments
  Runs,            \* training jobs that may be created
  NoRun,           \* trainingJobId is null
  Product,         \* the digest of the checkpoint a training run produces
  ExpiryMargin,    \* EXPIRY_MARGIN_SECONDS
  AgreementTtl,    \* AGREEMENT_TTL_SECONDS
  MaxFaults        \* bound: answers lost, relays failed and handlers dead

ASSUME DraftAssumption ==
  Draft \in [JobIds -> [creator : Wallets, terms : Terms, lo : Prices, hi : Prices, window : Windows]]
ASSUME ProvidersAssumption == Providers \subseteq Wallets
ASSUME TrainingAssumption == NoRun \notin Runs /\ Product \in [Runs -> Artifacts]
ASSUME MarketNumbers ==
  ExpiryMargin \in Nat /\ AgreementTtl \in Nat /\ MaxFaults \in Nat

VARIABLES
  row,      \* the A2AJob rows
  thread,   \* the agreement stored in each provider's negotiation on a job
  latest,   \* the negotiation with an agreement that was updated last
  training, \* the TrainingJob rows
  work,     \* what each handler holds between two awaits
  faults

chain == vars
market == <<row, thread, latest, training, work, faults>>
allVars == <<chain, market>>

RowStatuses ==
  {"DRAFT", "POSTING", "POSTED", "NEGOTIATING", "ESCROWED", "EXECUTING", "DELIVERED", "FAILED"}

NoThread == [state |-> "none"]
OpenThread == [state |-> "open"]
SignedThread(agreement) == [state |-> "signed", agreement |-> agreement]

Unqueued == [state |-> "none"]

Idle == [step |-> "idle"]

MarketInit ==
  /\ Init
  /\ row = [j \in JobIds |-> [status |-> "DRAFT", provider |-> NoWallet,
                              run |-> NoRun, artifact |-> NoArtifact]]
  /\ thread = [j \in JobIds |-> [p \in Providers |-> NoThread]]
  /\ latest = [j \in JobIds |-> NoWallet]
  /\ training = [t \in Runs |-> Unqueued]
  /\ work = [h \in Handlers |-> Idle]
  /\ faults = 0

-----------------------------------------------------------------------------
(* Steps of a handler.                                                     *)

At(h, step) == work[h].step = step
Goes(h, holding) == work' = [work EXCEPT ![h] = holding]
Ends(h) == Goes(h, Idle)

\* A handler that fails or dies here.
Fails == faults < MaxFaults /\ faults' = faults + 1

\* A relay answers: as it went, or, although it went through, with an error.
Answered(h, ok, lost) ==
  \/ Goes(h, ok) /\ UNCHANGED faults
  \/ Goes(h, lost) /\ Fails

Abandon(h) ==
  /\ ~At(h, "idle")
  /\ Ends(h) /\ Fails
  /\ UNCHANGED <<chain, row, thread, latest, training>>

-----------------------------------------------------------------------------
(* confirmAndPost.                                                         *)

ConfirmRead(h, j) ==
  /\ At(h, "idle")
  /\ row[j].status \in {"DRAFT", "FAILED"}
  /\ Goes(h, [step |-> "confirmed", job |-> j])
  /\ UNCHANGED <<chain, row, thread, latest, training, faults>>

ConfirmStart(h) ==
  /\ At(h, "confirmed")
  /\ row' = [row EXCEPT ![work[h].job].status = "POSTING"]
  /\ Goes(h, [step |-> "posting", job |-> work[h].job])
  /\ UNCHANGED <<chain, thread, latest, training, faults>>

PostOutcome(h, status) == [step |-> "posted", job |-> work[h].job, status |-> status]

\* postJob of base-chain-service: a job the chain knows already is a success, and
\* any failure on the way to the chain an error.
RelayPost(h) ==
  LET j == work[h].job
      d == Draft[j]
  IN  /\ At(h, "posting")
      /\ \/ /\ job[j].status # "NONE"
            /\ UNCHANGED <<chain, faults>>
            /\ Goes(h, PostOutcome(h, "POSTED"))
         \/ /\ PostJob(j, d.creator, d.terms, d.lo, d.hi, d.window)
            /\ Answered(h, PostOutcome(h, "POSTED"), PostOutcome(h, "FAILED"))
         \/ /\ UNCHANGED <<chain, faults>>
            /\ Goes(h, PostOutcome(h, "FAILED"))
      /\ UNCHANGED <<row, thread, latest, training>>

ConfirmEnd(h) ==
  /\ At(h, "posted")
  /\ row' = [row EXCEPT ![work[h].job].status = work[h].status]
  /\ Ends(h)
  /\ UNCHANGED <<chain, thread, latest, training, faults>>

-----------------------------------------------------------------------------
(* openNegotiation; Negotiation.tla models what happens on the thread.     *)

OpenRead(h, j, provider) ==
  /\ At(h, "idle")
  /\ row[j].status \in {"POSTED", "NEGOTIATING"}
  /\ thread[j][provider] = NoThread
  /\ Goes(h, [step |-> "opening", job |-> j, provider |-> provider,
              posted |-> row[j].status = "POSTED"])
  /\ UNCHANGED <<chain, row, thread, latest, training, faults>>

\* @@unique([jobId, providerAgentId]): a second create fails.
CreateThread(h) ==
  LET j == work[h].job
      provider == work[h].provider
  IN  /\ At(h, "opening")
      /\ \/ /\ thread[j][provider] = NoThread
            /\ thread' = [thread EXCEPT ![j][provider] = OpenThread]
            /\ IF work[h].posted THEN Goes(h, [step |-> "negotiating", job |-> j]) ELSE Ends(h)
         \/ /\ thread[j][provider] # NoThread
            /\ UNCHANGED thread
            /\ Ends(h)
      /\ UNCHANGED <<chain, row, latest, training, faults>>

OpenEnd(h) ==
  /\ At(h, "negotiating")
  /\ row' = [row EXCEPT ![work[h].job].status = "NEGOTIATING"]
  /\ Ends(h)
  /\ UNCHANGED <<chain, thread, latest, training, faults>>

\* signAgreement: the first time, or again with a new expiry.
SignedNow(j, provider, agreement) ==
  /\ agreement.jobId = j /\ agreement.provider = provider
  /\ agreement.terms = Draft[j].terms /\ agreement.window = Draft[j].window
  /\ agreement.price \in Draft[j].lo..Draft[j].hi
  /\ agreement.expiry = now + AgreementTtl
  /\ thread[j][provider].state = "signed" =>
       agreement.price = thread[j][provider].agreement.price

StoreSigned(j, provider, agreement) ==
  /\ thread' = [thread EXCEPT ![j][provider] = SignedThread(agreement)]
  /\ latest' = [latest EXCEPT ![j] = provider]

SignAgreement(j, provider) ==
  /\ thread[j][provider] # NoThread
  /\ \E agreement \in SignedAgreements :
       SignedNow(j, provider, agreement) /\ StoreSigned(j, provider, agreement)
  /\ UNCHANGED <<chain, row, training, work, faults>>

-----------------------------------------------------------------------------
(* POST /jobs/:jobId/fund.                                                 *)

FundRead(h, j, auth) ==
  /\ At(h, "idle")
  /\ latest[j] # NoWallet
  /\ auth.value = thread[j][latest[j]].agreement.price
  /\ Goes(h, [step |-> "refreshing", job |-> j, provider |-> latest[j], auth |-> auth,
              fresh |-> thread[j][latest[j]].agreement.expiry > now + ExpiryMargin])
  /\ UNCHANGED <<chain, row, thread, latest, training, faults>>

\* refreshIfExpired goes by the expiry read first; the relay takes the agreement
\* stored by then.
FundRefresh(h) ==
  LET j == work[h].job
      p == work[h].provider
      Relays(agreement) ==
        Goes(h, [step |-> "funding", job |-> j, provider |-> p,
                 auth |-> work[h].auth, agreement |-> agreement])
  IN  /\ At(h, "refreshing")
      /\ \/ /\ work[h].fresh
            /\ Relays(thread[j][p].agreement)
            /\ UNCHANGED <<thread, latest>>
         \/ /\ ~work[h].fresh
            /\ \E agreement \in SignedAgreements :
                 /\ SignedNow(j, p, agreement) /\ StoreSigned(j, p, agreement)
                 /\ Relays(agreement)
      /\ UNCHANGED <<chain, row, training, faults>>

RelayFundPastPosted(h) ==
  LET j == work[h].job
      funded == [step |-> "funded", job |-> j, provider |-> work[h].provider]
  IN  /\ At(h, "funding")
      /\ \/ /\ job[j].status # "POSTED"
            /\ UNCHANGED <<chain, faults>>
            /\ Goes(h, funded)
         \/ /\ FundWithAuthorization(j, work[h].agreement, work[h].auth)
            /\ Answered(h, funded, Idle)
      /\ UNCHANGED <<row, thread, latest, training>>

\* fundJob of base-chain-service: past POSTED, whatever was funded, a success; a
\* revert or any failure on the way to the chain, an error and no write.
RelayFund(h) ==
  LET j == work[h].job
      funded == [step |-> "funded", job |-> j, provider |-> work[h].provider]
  IN  /\ At(h, "funding")
      /\ \/ /\ job[j].status \notin {"NONE", "POSTED", "CANCELLED"}
            /\ UNCHANGED <<chain, faults>>
            /\ Goes(h, funded)
         \/ /\ FundWithAuthorization(j, work[h].agreement, work[h].auth)
            /\ Answered(h, funded, Idle)
         \/ /\ UNCHANGED <<chain, faults>>
            /\ Ends(h)
      /\ UNCHANGED <<row, thread, latest, training>>

\* The write names the negotiation read first, and the handler goes on to
\* startExecution.
FundEnd(h) ==
  LET j == work[h].job
  IN  /\ At(h, "funded")
      /\ row' = [row EXCEPT ![j].status = "ESCROWED", ![j].provider = work[h].provider]
      /\ Goes(h, [step |-> "starting", job |-> j])
      /\ UNCHANGED <<chain, thread, latest, training, faults>>

-----------------------------------------------------------------------------
(* startExecution, from the funding request, from the sweep                *)
(* startPendingExecutions, or by an operator.                              *)

Startable(j) ==
  row[j].run = NoRun /\ row[j].status = "ESCROWED" /\ row[j].provider # NoWallet

SweepNegotiated(h, j) ==
  /\ At(h, "idle")
  /\ row[j].status = "NEGOTIATING" /\ row[j].run = NoRun
  /\ Goes(h, [step |-> "starting", job |-> j])
  /\ UNCHANGED <<chain, row, thread, latest, training, faults>>

\* A tick finds the job and calls startExecution; POST /execution/jobs/:jobId/start
\* calls it too, and for a job that is not startable nothing comes of it.
SweepPending(h, j) ==
  /\ At(h, "idle")
  /\ row[j].status = "ESCROWED" /\ row[j].run = NoRun
  /\ Goes(h, [step |-> "starting", job |-> j])
  /\ UNCHANGED <<chain, row, thread, latest, training, faults>>

StartRead(h) ==
  LET j == work[h].job
  IN  /\ At(h, "starting")
      /\ IF Startable(j)
         THEN Goes(h, [step |-> "queueing", job |-> j, provider |-> row[j].provider])
         ELSE Ends(h)
      /\ UNCHANGED <<chain, row, thread, latest, training, faults>>

CreateTraining(h, t) ==
  /\ At(h, "queueing")
  /\ training[t] = Unqueued
  /\ training' = [training EXCEPT ![t] =
       [state |-> "QUEUED", job |-> work[h].job, provider |-> work[h].provider]]
  /\ Goes(h, [step |-> "queued", job |-> work[h].job, run |-> t])
  /\ UNCHANGED <<chain, row, thread, latest, faults>>

StartEnd(h) ==
  LET j == work[h].job
  IN  /\ At(h, "queued")
      /\ row' = [row EXCEPT ![j].run = work[h].run, ![j].status = "EXECUTING"]
      /\ Goes(h, [step |-> "marking", job |-> j])
      /\ UNCHANGED <<chain, thread, latest, training, faults>>

\* markExecuting is best effort: its failure changes nothing else.
RelayExecuting(h) ==
  /\ At(h, "marking")
  /\ MarkExecuting(work[h].job) \/ UNCHANGED chain
  /\ Ends(h)
  /\ UNCHANGED <<row, thread, latest, training, faults>>

\* The training worker, by the outcome it records.
TrainingEnds(t, state) ==
  /\ training[t].state = "QUEUED"
  /\ training' = [training EXCEPT ![t].state = state]
  /\ UNCHANGED <<chain, row, thread, latest, work, faults>>

-----------------------------------------------------------------------------
(* pollExecution, from its timer or POST /execution/poll.                  *)

DeliverableReady(j) ==
  row[j].status = "EXECUTING" /\ row[j].run # NoRun

\* The checkpoint of the run's FINAL snapshot, once the run has completed.
PollRead(h, j) ==
  /\ At(h, "idle")
  /\ DeliverableReady(j)
  /\ training[row[j].run].state = "COMPLETED"
  /\ Goes(h, [step |-> "delivering", job |-> j, artifact |-> Product[row[j].run]])
  /\ UNCHANGED <<chain, row, thread, latest, training, faults>>

RelayDeliverableAgain(h) ==
  LET j == work[h].job
      delivered == [step |-> "delivered", job |-> j, artifact |-> work[h].artifact]
  IN  /\ At(h, "delivering")
      /\ \/ SubmitDeliverable(j, work[h].artifact)
         \/ job[j].status = "DELIVERED" /\ UNCHANGED chain
      /\ Answered(h, delivered, Idle)
      /\ UNCHANGED <<row, thread, latest, training>>

RelayDeliverable(h) ==
  LET j == work[h].job
      delivered == [step |-> "delivered", job |-> j, artifact |-> work[h].artifact]
  IN  /\ At(h, "delivering")
      /\ \/ /\ SubmitDeliverable(j, work[h].artifact)
            /\ Answered(h, delivered, Idle)
         \/ /\ UNCHANGED chain
            /\ Ends(h)
            /\ IF job[j].status \in InProgress /\ InTime(j) THEN Fails ELSE UNCHANGED faults
      /\ UNCHANGED <<row, thread, latest, training>>

PollEnd(h) ==
  LET j == work[h].job
  IN  /\ At(h, "delivered")
      /\ row' = [row EXCEPT ![j].status = "DELIVERED", ![j].artifact = work[h].artifact]
      /\ Ends(h)
      /\ UNCHANGED <<chain, thread, latest, training, faults>>

-----------------------------------------------------------------------------
(* The chain's other users, and its clock.                                 *)

Elsewhere ==
  /\ \/ \E j \in JobIds : CancelBeforeFunding(j) \/ ClaimTimeoutRefund(j) \/ Party(j)
     \/ Tick
  /\ UNCHANGED market

Arrives(h) ==
  \E j \in JobIds :
    \/ ConfirmRead(h, j)
    \/ \E p \in Providers : OpenRead(h, j, p)
    \/ \E auth \in Authorizations : FundRead(h, j, auth)
    \/ SweepPending(h, j)
    \/ PollRead(h, j)

Continues(h) ==
  \/ ConfirmStart(h) \/ RelayPost(h) \/ ConfirmEnd(h)
  \/ CreateThread(h) \/ OpenEnd(h)
  \/ FundRefresh(h) \/ RelayFund(h) \/ FundEnd(h)
  \/ StartRead(h) \/ (\E t \in Runs : CreateTraining(h, t)) \/ StartEnd(h) \/ RelayExecuting(h)
  \/ RelayDeliverable(h) \/ PollEnd(h)

MarketNext ==
  \/ \E h \in Handlers : Arrives(h) \/ Continues(h) \/ Abandon(h)
  \/ \E j \in JobIds, p \in Providers : SignAgreement(j, p)
  \/ \E t \in Runs, state \in {"COMPLETED", "FAILED"} : TrainingEnds(t, state)
  \/ Elsewhere

MarketSpec == MarketInit /\ [][MarketNext]_allVars

(* The sweep's timer keeps ticking, and every await returns, with an answer *)
(* or an error.  Nothing is assumed of the people who send requests.        *)
MarketFairness ==
  \A h \in Handlers :
    /\ \A j \in JobIds : SF_allVars(SweepPending(h, j))
    /\ WF_allVars(Continues(h))

LiveMarket == MarketSpec /\ MarketFairness

-----------------------------------------------------------------------------
(* Properties.                                                             *)

Row ==
  [status : RowStatuses, provider : Providers \cup {NoWallet},
   run : Runs \cup {NoRun}, artifact : Artifacts \cup {NoArtifact}]

Threads ==
  {NoThread, OpenThread} \cup [state : {"signed"}, agreement : SignedAgreements]

TrainingJobs ==
  {Unqueued} \cup [state : {"QUEUED", "COMPLETED", "FAILED"}, job : JobIds, provider : Providers]

\* The marketplace's own variables; A2AJobEscrow has TypeOK for the chain's.
MarketTypeOK ==
  /\ row \in [JobIds -> Row]
  /\ thread \in [JobIds -> [Providers -> Threads]]
  /\ latest \in [JobIds -> Providers \cup {NoWallet}]
  /\ training \in [Runs -> TrainingJobs]
  /\ \A h \in Handlers :
       /\ ~At(h, "idle") => work[h].job \in JobIds
       /\ work[h].step \in {"delivering", "delivered"} => work[h].artifact \in Artifacts
  /\ faults \in 0..MaxFaults

\* The marketplace never believes more than the chain says: whatever relays and
\* writes overtake each other, a row shows a job as posted, funded or delivered
\* only after the transaction that made it so.
NeverAheadOfChain ==
  \A j \in JobIds :
    /\ row[j].status \in {"POSTED", "NEGOTIATING"} => job[j].status # "NONE"
    /\ row[j].status \in {"ESCROWED", "EXECUTING", "DELIVERED"} => job[j].status \in Funded
    /\ row[j].status = "DELIVERED" => job[j].artifact # NoArtifact

\* Compute is spent only for a job whose price is, or was, in the escrow.
WorkIsPaidFor ==
  \A t \in Runs : training[t] # Unqueued => job[training[t].job].status \in Funded

\* The deliverable on the chain is the product of a completed run for that job,
\* and a row that names a deliverable names that one: two runs and two polls of
\* one job cannot mix up what was committed with what will be verified.
DeliveredAsCommitted ==
  \A j \in JobIds :
    /\ row[j].artifact # NoArtifact => row[j].artifact = job[j].artifact
    /\ job[j].artifact # NoArtifact =>
         \E t \in Runs :
           /\ training[t] # Unqueued /\ training[t].job = j
           /\ training[t].state = "COMPLETED" /\ Product[t] = job[j].artifact

\* "Several may reach AGREED concurrently; the on-chain fundWithAuthorization
\* decides which one actually gets the job" (schema.prisma, A2AJob): the provider
\* the row names, who does the work and is rated for it, is the one the escrow pays.
ProviderAsFunded ==
  \A j \in JobIds : row[j].provider # NoWallet => row[j].provider = job[j].provider

\* startExecution: "Idempotent: ... A retried call after a dropped response must
\* not double-charge the provider's compute."
OneRunPerJob ==
  \A s, t \in Runs :
    training[s] # Unqueued /\ training[t] # Unqueued /\ training[s].job = training[t].job => s = t

\* A funded job whose start failed after the USDC was locked is not stranded: the
\* sweep queues its work, whichever request died (startPendingExecutions).
PendingStarts ==
  \A j \in JobIds :
    (row[j].status = "ESCROWED" /\ row[j].run = NoRun)
      ~> (row[j].status # "ESCROWED" \/ row[j].run # NoRun)

=============================================================================
