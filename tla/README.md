# Verification of AI Arena

TLA+ models, TLC runs and TLAPS proofs about the code under `src/`. Paths below
are relative to `src/`. `A` stands for `services/a2a-marketplace-service/src/`,
`B` for `services/base-chain-service/src/`, `E` for
`services/evaluation-service/src/`, `F` for `services/financial-service/src/`,
`L` for `services/league-worker/src/`, `W` for `workers/training-worker/src/` and
`C` for `contracts/evm/contracts/`.

## 1. The system

AI Arena is a set of TypeScript services, Python workers and Solidity contracts.
Three of its parts move money on the word of several processes that share a
database and a chain but no lock, and they are the ones modelled here:

- the agent-to-agent (A2A) marketplace: a creator's agent posts a job, negotiates
  a price with a provider's agent, locks USDC in an escrow contract, the
  provider's training runs, an independent measurement decides, the escrow pays;
- the wagers of arena battles and of the prediction league: two owners stake ARENA
  in a contract, the battle or the fixture is decided off the chain, a relayer
  settles;
- the studio subscription: time bought from a wallet, from prepaid credit under a
  signature, or by a relayer's renewal.

```
 creator / provider             a2a-marketplace-service            base-chain-service
   requests  ------------>  job, negotiation, funding,   -- relay -->  postJob, fund,
                            execution  (A2AJob rows,                    markExecuting,
                            threads, agreements)                        submitDeliverable
                                 |            ^                              |
                          TrainingJob rows    | COMPLETED + FINAL            v
                                 v            | snapshot              A2AJobEscrow.sol
                            training-worker --+                         ^        ^
                                 | verification_runner: VERIFICATION    |        |
                                 v snapshot                             |        |
                            evaluation-service: settlement loop -- verdict       |
                                 | accepted                                      |
                                 v                        parties, arbiter, admin, anyone
                            base-chain-service: feedback loop -> reputation registry

 battle-service ----.                                  league-service: predict, challenge
   create, end       v                                        | accept
 matchmaking    financial-service: lockEscrow,         <------'
   clean-up -->   settleEscrow, lockLeagueEscrow,      <-- league-worker: lock sweep,
                  settleLeagueBattle (EscrowRecord)        settlement tick
                     | arena-chain-service (relayer)
                     v
                ArenaEscrow.sol, ArenaTreasury.sol, RewardDistributor.sol
```

### Components, their state and what makes them correct

| component | state | operations | correct when |
|---|---|---|---|
| `C base/A2AJobEscrow.sol` | `_jobs`, treasury, rate, pause; USDC balances and nonces | post, cancel, fund, markExecuting, deliver, verdict, timeout refund, dispute, resolve, admin | each price comes in once, by the creator's own authorization, and leaves once, wholly; balances cover what is owed; terms are fixed at funding; undisputed money always leaves |
| `packages/a2a-protocol/src/negotiation.ts`, `A negotiation.service.ts` | thread row, message rows, stored agreement | append an offer, provider's policy, sign the agreement | the transcript is one legal chain under concurrent appends; agreements follow from it; the floor holds |
| `A job.service.ts`, `A routes/funding.routes.ts`, `A execution.service.ts`, `B job.service.ts`, `B settlement.service.ts` | A2AJob rows, TrainingJob rows | confirm and post, open a thread, fund, start, poll, relay | the rows never overstate the chain; work is paid for; what is committed is what ran; a funded job starts, once |
| `W main.py`, `W trait_training_runner.py` | TrainingJob, TrainingArtifact, FINAL snapshots | claim, requeue, beat, store, complete, fail; cancel | a completed run has its deliverable; what is committed was measured; no run is stranded |
| `W verification_runner.py`, `E settlement-loop.ts`, `E verifier.service.ts`, `B feedback-loop.ts`, `B reputation.service.ts` | claim, snapshot, verdict and feedback columns; the registry | claim, measure, record; judge; publish | verdicts rest on an independent measurement of the committed artifact; rows and feedback repeat the chain; every stage happens |
| `C arena/ArenaEscrow.sol`, `C arena/ArenaTreasury.sol` | matches, rate, pause; ARENA balances and approvals; commissions and rewards added up | create, join, start, settle, cancel, distribute, admin | equal stakes come in, the rate is the one they were staked under, one end; the vault holds the open stakes, to the token; the treasury's books are right |
| `F services/escrow.service.ts`, `services/battle-service/src/` | EscrowRecord and Battle rows, ratings | create and lock, start, end, dispute, clean up, settle | a record never overstates the chain; nobody is paid before a result is stored |
| `services/league-service/src/`, `L lib/settlement.ts`, `L jobs/` | LeagueMatch, LeaguePrediction, LeagueBattle, EscrowRecord rows; rewards granted | predict, override, challenge, accept and lock; lock sweep; settlement tick | each prediction is rewarded once; pools go to agents that were right; what is locked is settled; what rows and records say happened on the chain has |
| `C creator/CreatorStudioSubscription.sol` | tiers, expiry, prices, credit, nonces | subscribe, deposit, withdraw, signed purchase, renew, reprice, sweep | credit is backed; a signature costs what it says; renewals keep their distance; no time is minted, and none lost that fits |
| `services/matchmaking-service/src/` | Redis queue, match-found keys, battle rows | join, leave, match, fall back, clean up | an agent waits, plays or is idle, and is told which (only the clean-up of battles is modelled) |
| others (gateway, identity, storage, web, SDKs, ...) | | | mostly I/O; see `PROJECT.json`, `components` |

Hard behaviours: Node handlers interleave at every `await`; timers overlap
requests, themselves and, in a deploy, each other; a relayed transaction may
succeed while its answer is lost; a process may stop between a transaction and
the row that notes it; worker claims lapse while the worker lives; updates name a
row by its id whatever has become of it; and the clock decides between delivery,
verdict and refund. `PROJECT.json` lists them under `hazards`, each with the
properties that cover it.

## 2. The modules

| module | models | used by |
|---|---|---|
| `EscrowPromise` | abstract specification: money of a job comes in once, goes out once, wholly | refined by `A2AJobEscrow` |
| `A2AJobEscrow`, `MCA2AJobEscrow` | the USDC escrow, with USDC as it calls it | one run; extended by `Marketplace` and `Settlement` |
| `Negotiation`, `MCNegotiation` | one thread under concurrent handlers | one run |
| `Marketplace`, `MCMarketplace` | rows and relays up to delivery, composed with the contract | three runs |
| `Settlement`, `MCSettlement` | from delivery to verdict and feedback, composed with the contract | two runs |
| `TrainingWorker`, `MCTrainingWorker` | the queue of training runs, its workers and the poll that delivers | one run |
| `WagerPromise` | abstract specification: equal stakes, the agreed commission, one end | refined by `ArenaEscrow` |
| `ArenaEscrow` | the contract of battles and its treasury | extended by `Wager` and `League` |
| `Wager`, `MCWager` | battles and their escrow records, composed with the contract | one run |
| `League`, `MCLeague` | one fixture from the predictions to the money, composed with the contract | two runs |
| `Subscription`, `MCSubscription` | the subscription contract | one run |
| `Units` | a sum as the number of its units | the contracts' balances |
| `MarketplaceProofs` | theorems about `A2AJobEscrow` and `Marketplace` | |
| `WagerProofs` | theorems about `ArenaEscrow` and `Wager` | |
| `LeagueProofs`, `NegotiationProofs`, `SettlementProofs`, `TrainingWorkerProofs`, `SubscriptionProofs` | theorems about the module of that name | |
| `UnitsProofs` | lemmas on sums counted by units, products and rounded shares | the proofs about contracts and league |

### A2AJobEscrow

A transaction is one action and a revert is a disabled action. `job` is `_jobs`,
`bal` and `usedAuth` the USDC contract's ledger and spent nonces. `paid` and
`fees` add up the amounts of the events, which is how the chain itself remembers
what a job paid. Roles appear as the disjuncts of `Next`: `Relayer`, `Verifier`,
`Party`, `Arbiter`, `Admin`; `ClaimTimeoutRefund` is anybody's. Two fixed sets
stand for signatures: which address signed which agreement (`Signatures`), and
authorizations signed by a wallet. The relayer may submit any combination and
names the addresses whose signatures are checked (`VerifyAgreement`); as in the
code, nothing ties these to the creator or the provider. `validAfter` is left out
(the client signs 0), and so are EIP-712 encodings.

### Negotiation

`transcript` is the thread's message rows, `row` the state stored in the thread,
`work[h]` what handler `h` carries over an `await`. `Prepare` is everything
`appendOffer` does up to the request for a signature; `Sign`, `Insert`, `Reload`,
`Write` are the statements after it. `Decide` is `providerRespond`'s own load of
the messages, `PlayDecision` the second load inside `appendOffer`. `Abandon`
stands for every refusal, failure and crash. The only lock is the unique index
on (negotiation, seq), `SeqFree`. A message's digest is the sequence of contents
it commits to, so collisions are excluded and nothing else is.

### Marketplace

Extends the contract: a relay step performs the contract's own action.
`ConfirmRead`/`ConfirmStart`/`RelayPost`/`ConfirmEnd` are `confirmAndPost`;
`OpenRead`/`CreateThread`/`OpenEnd` are `openNegotiation`; `FundRead`/
`FundRefresh`/`RelayFund`/`FundEnd` the funding route, which goes on to
`StartRead`/`CreateTraining`/`StartEnd`/`RelayExecuting` (`startExecution`, also
reached by the sweep); `PollRead`/`RelayDeliverable`/`PollEnd` are
`pollExecution`. A write replaces the columns it names whatever became of the
row (`prisma.update` by id). `Answered` lets a relay's answer be lost after the
transaction went through; `Fails` counts these faults up to `MaxFaults`.
`SignAgreement` is one step here, since `Negotiation` has its steps, and the
training worker is `TrainingEnds`, since `TrainingWorker` has its steps.

### Settlement

Starts where the contract has recorded deliverables. `ClaimVerification`,
`Measure`, `RecordSnapshot`, `VerificationRaises` and `ClaimLapses` are the
verification runner; a claim is `held` for fifteen minutes, then `lapsed`, and
`parked` after a digest mismatch. Storage and each worker's disk hold any
artifact at the start: the committed one, another attempt's, or none.
`SettlementPass`, `VerifyRequest`, `Verdict`, `WriteVerdict` are the evaluation
service; `PublishRead`, `GiveFeedback`, `WriteFeedback` the feedback loop and its
route. `FundingRetry` is the funding route of the marketplace called again, which
writes ESCROWED by id over any status, an outcome included: the row is then in
nobody's sight, and `WriteVerdict` of a handler that was under way may still put the
outcome back. The branch of `verifyAndSettle` for jobs that are `ESCROWED` or
`EXECUTING` on the chain has no action: a row gets a snapshot only after its
deliverable is on the chain, which never goes back.

### TrainingWorker

The workers' connections autocommit, so each SQL statement is an action and the
`commit` and `rollback` calls change nothing. `beating` abstracts the heartbeat's
age: `HeartbeatLapses` may happen to a dead worker's run or to a slow one's.
Attempts may produce different checkpoints (a cancellation cuts one short; a
deploy changes code or machine). No statement after the claim checks the claim.

The poll is `PollRead`, `RelayDeliverable` and `WriteDelivered`. Of the escrow
only its answer matters: `onchain` is the deliverable it took, or `Missed` once
the window has closed (`WindowCloses`: deadline or dispute; a pause only delays).
The relay may be refused, fail, or lose its answer after the contract took the
deliverable, and the row then stays EXECUTING. `PollLimit` is the poll's window of
ten: rows that stay EXECUTING fill it, and then no turn is promised (`AllPolled`).
`FundingRetry` takes a row out of the poll's sight. `cut` is history: artifacts of
attempts that ended between storing and measuring. `MCTrainingWorker` starts with
a second job whose run was cancelled and whose window is closed.

### ArenaEscrow and Wager

What a transaction of `ArenaEscrow` requires is a predicate of its own (`MayCreate`,
`MaySettle`, ...), because the services act on a revert too: a relay step either
performs the transaction, or is refused where the predicate is false, or is a
fault. A transfer out of the escrow reverts on too small a balance (`CanSend`); that
this is never what refuses a settlement is `VaultExact`. `received` keeps, from the
token's events, what each match paid to whom. The rate is copied into the match when
it is created (`LockedRate`). `TreasurySide` is what else moves the treasury's
tokens: rewards that `RewardDistributor` has it pay (`Distribute`) and commissions
of tournaments (`TournamentCommission`), whose entrants, fees and prizes are left
out, as are tokens anybody sends to a contract on its own.

In `Wager`, `CreateBattle` to `RecordLock` are POST /battles with a wager and
`lockEscrow` behind it: three transactions (`RelayCreate`, `RelayJoin`,
`RelayStart`), then the record. `CancelUnlocked` is the answer to a failed lock;
`LockCallBreaks` is battle-service giving up on a call that financial-service
goes on with. `BeginRead`/`BeginWrite`, `Dispute` and `CleanRead`/`CleanWrite` are
start, dispute and the ten-minute clean-up: each checks a status it read before
and writes by id. `EndRead`, `Rate`, `WriteResult`, `SettleFind`, `RelaySettle`
and `RecordSettled` are POST /battles/:id/end with `settleEscrow`. `Dies` is a
stopped process or a thrown statement. The amount by which ratings move, replays
and events are left out; players may withdraw approvals, the admin may change the
rate and pause, and an operator may cancel a match on the chain.

### League

`AsksPrediction`/`EnsurePrediction`, `AsksOverride`/`Override`, `AsksBattle`/
`CreateBattle` and `AcceptBattle` with the lock of the stakes (`LockRead`,
`RelayLock`, `RecordLock`, `LockRow`) are league-service's requests and
`lockLeagueEscrow`. `LockDuePredictions` and `ExpirePendingBattle` are the minute's
lock sweep. `ListCandidates`, `Poll`, `Apply`, `Finish` and `VoidPredictions` are
the settlement tick; `ReadResult`, `ClaimPredictions`, `ListBattles`, `ScoreNext`,
`Reward`, `Book`, `JudgeNext`, `VoidWaiting`, `Find`, `Pay`, `Mark`, `Close` and
`Count` are `settleMatch` and `settleLeagueBattle`. Several ticks run at once:
`setInterval` does not wait for the one before. `Reward` pays out of the treasury and
fails when that holds too little. `Listed` gives the settlement every battle of the
fixture and the cancellation one page of them, `PageLimit` (20 in the code), whichever
these are. `JudgeNext` reads both awards in one step: they are two queries at once,
and since the awards of a fixture are written in any order, one step sees every mix of
them. `PredictionFails` is the inner
`catch` that goes on with the next prediction, `Dies` everything else.
`MatchLasts` states the one assumption about time: a result does not come in
before the minute's sweep has locked what was predicted, nor before a lock that
was under way at the kickoff has its answer. The figures of scores are abstracted
to `Points`; the consensus bonus is not.

### Subscription

A transaction is one action. `Buys` is any purchase or deposit from a wallet, for
oneself or another; `Sign` and `SubscribeWithSignature` are the signed request and
its relaying; `RenewFromCredit` is the relayer's. `charged` and `renewedAt` are
history, for the properties. `ForceSend` is 0G that arrives without a call, and
`Sweep` what the admin may take of it. `CarryOverSeconds` is the contract's integer
division at the prices of the moment, cast to uint64: `SecondsModulus` is 2^64, a
quotient beyond it keeps its low bits, while an expiry that does not fit reverts
(`ExpiryFits`).

### Units

`UnitsOf(f)` is a set with f[x] elements for each x, so that a sum is a cardinality
and can be proved about without induction over data.

## 3. The runs

All bounds are CONSTANTS in the `.cfg` files, named in the modules.

| run | bounds | shows |
|---|---|---|
| `escrow_jobs` | 2 jobs, 2 wallets, 3 signing addresses of which one is nobody's, prices 2 and 3, 2 windows, 3 rates (1 over the cap), times 0..3, fair clock and refund | `Solvent LedgerExplained PaidOutOnce FundedAsSigned FundsLeaveUnlessDisputed KeepsPromise` |
| `negotiation_race` | 2 handlers, up to 4 messages, 3 policies or a person, times 0..2, symmetry on handlers | `ChainVerifies FairDialogue AgreementsBinding RowNeverAhead FloorKept` |
| `marketplace_execution` | 1 job, 2 handlers, 2 training runs with different products, 1 fault | `NeverAheadOfChain WorkIsPaidFor DeliveredAsCommitted PendingStarts` |
| `marketplace_double` | the same | violation of `OneRunPerJob` |
| `marketplace_retry` | two providers with signed agreements, 1 handler, no fault | violation of `ProviderAsFunded` |
| `settlement_verdict` | 1 job, 2 workers, 2 handlers, scores on both sides of the target, 2 artifacts, 1 fault | `JudgedOnMeasurement OutcomeAsOnChain FeedbackTruthful EveryDeliveryMeasured VerdictsPublished` |
| `settlement_window` | 2 jobs, a pass that looks at 1, 1 worker, 1 handler, no fault | violation of `VerifiedJobsSettle` |
| `training_queue` | 2 workers, 1 run to serve and 1 cancelled, a poll that looks at 1, 2 checkpoints, 1 fault | `CompletedHasDeliverable SubmittedWasMeasured EveryRunEnds CompletedGetsSubmitted` |
| `wager_battle` | 1 battle, 3 agents of 2 players (one owns two), stakes 1 and 2, rates 1 and 3 (over the cap), 2 handlers, 2 faults, 2 reports of the end, rewards of 2, a tournament's commission of 1, symmetry on handlers | `VaultExact RecordFollowsChain PaidAfterResult KeepsWagerPromise` |
| `league_settlement` | 1 fixture, 1 battle, 2 workers, 1 fault, 2 requests, awards of 2 and 3 out of a treasury of 3 | `LeagueTypeOK RowsFollowChain RewardedOnce WinnersWereRight LockedPredictionsScore LockedBattlesPay` |
| `league_judged` | the same without faults | violation of `JudgedOnScores` |
| `subscription_credit` | 2 accounts with 3 and 1, prices 1 and 2, 2 signed requests, period 2, window 1, times 0..3, expiries below 8 | `CreditBacked ChargedAsSigned RenewalsSpaced ValueKept` |

Type invariants are proved (section 5) instead of run; the league's is run as well,
since its tasks carry the most from one await to the next.

Why the bounds are enough: jobs of the USDC escrow interact only through the shared
balance, the nonces and the treasury, so two jobs competing for one authorization are
the smallest interesting case, and what is proved removes that bound. In the
compositions the races are between two actors at one row, one thread or one battle;
two handlers, two workers and two attempts give each its rival. One fault is enough
to separate a transaction from the row that follows it. The training queue needs no
more to show a worker that dies, an attempt cut off and a lost answer, each beside a
second worker; a wager needs two for a lost answer in the lock and another in the
settlement. Battles share the contract's balance: that one is not paid out of another
is proved for any number of them, since two of them are beyond TLC in reasonable
time. The league's requests are bounded by two because each is then in the hands of a
worker; predictions are present by then on both sides, for challenging and accepting
make them. Two periods and prices one and two give the subscription divisions with
and without a remainder and a renewal at each edge of its window, and a modulus of 8
gives carry-overs that fit, that wrap and sums that revert. A treasury of 3 pays one
award of the league and refuses the other. Limits of a pass or a page are 1 because
what matters is one row more than the limit.

Deadlock checking is off in every configuration: jobs, threads, battles and
fixtures end, clocks stop at their bound, and quiescence is then the right outcome.

### Where the code and its own words disagree

The `violation` runs, quoted in `PROJECT.json` under `findings`:

- two concurrent starts queue two training runs for one job (`marketplace_double`);
- a repeated funding request names a provider the chain did not fund, and puts a
  job that is under way back to ESCROWED (`marketplace_retry`);
- a settlement pass takes a limited number of the oldest rows
  (`E verifier.service.ts:265`), rows that can never be settled keep their place in
  it, and enough of them starve every later job, while `E main.ts:126-127` says that
  "nothing should have to call" the manual route "for a job to get paid"
  (`settlement_window`);
- an overlapping settlement tick judges a league battle on awards that the first
  tick has not written yet (`league_judged`).

Further disagreements met while modelling; the models contain the behaviour, and
the properties above are stated so that they hold in spite of it:

- A dispute stops the clock of the USDC escrow for good: if the arbiter is silent
  the money stays (`C base/A2AJobEscrow.sol:509`), while lines 61-63 say that "a
  disappeared operator can never trap a creator's funds".
- "verifies BOTH agents signed these exact terms" and "the relayer cannot alter the
  terms it relays, because both signatures cover them"
  (`C base/A2AJobEscrow.sol:319`, `:333`): the relayer passes the two signers'
  addresses, nothing ties them to the job's creator, the provider or their agents,
  and both may be one address (`:294-304`, `:366-369`). What does bind is the
  budget posted with the job and the creator's authorization of the exact price;
  `FundedAsSigned` claims that and no more.
- A crash between the verdict transaction and the row leaves the row DELIVERED
  for ever, for the chain refuses a second verdict (`E verifier.service.ts:228`);
  `E settlement-loop.ts:18-19` says the loop "self-heals". A funding retry
  (`A routes/funding.routes.ts:252`) puts the row of a job that was settled back to
  ESCROWED, and nothing repairs it.
- A pause stops `submitDeliverable` but not the deadline
  (`C base/A2AJobEscrow.sol:427`): work may be finished and refused.
- A lost answer to the delivery leaves the row EXECUTING for good, for the contract
  refuses the repetition (`A execution.service.ts:185`). Such rows, and those of
  failed or cancelled runs, fill the poll's window of ten (`:134`): enough of them
  starve the others.
- "Persist before marking COMPLETED" (`W trait_training_runner.py:271-274`) holds of
  an artifact and a snapshot, but not of the pair: with two attempts at a run, or one
  cut off after it stored, the latest FINAL snapshot, which is what is committed, may
  measure another checkpoint than the one in storage.
- A run that was requeued from a slow worker is completed by both, and the second
  replaces the artifact that was committed; the verification then reads it as a
  swapped file (`W trait_training_runner.py:109`, `W verification_runner.py:17-20`).
- "Upgrading or downgrading never destroys value"
  (`C creator/CreatorStudioSubscription.sol:61`), but a change to Free forfeits what
  is left (lines 474-478), and "Value-preserving in both directions" (line 465) fails
  where the converted seconds exceed a uint64: the cast at line 507 drops multiples of
  2^64, and prices from 1 wei to 10,000 ether allow it. `ValueKept` claims that no
  change between paid tiers adds value, and that it keeps what fits.
  `renewFromCredit` has no limit on the price it charges.
- `docs/AI_SYSTEMS.md:170` calls the settlement of wagers "automatic on result". A
  failed lock cancels the battle and leaves the first stake on the chain, a
  disputed or cleaned-up battle leaves both there, and a settlement that fails is
  neither reported nor repeated: only an operator's `cancelMatch`
  (`C arena/ArenaEscrow.sol:143`) frees them. Two reports of one end may both
  update the ratings.
- Three comments of the league speak of one transaction over the escrow record and
  the battle's row (`L lib/financial.ts:49-54`,
  `services/league-service/src/services/league-battle.service.ts:106`,
  `services/league-service/src/lib/internal.ts:97-100`). They are separate statements
  after the chain's, and `F services/escrow.service.ts:193` does not look at the count
  of the conditional transition: a battle that the sweep expires while its accept is
  under way is DECLINED, with no escrow, over a LOCKED record and a STARTED match,
  and its stakes stay. `RowsFollowChain` says only that what rows and records report
  has happened.
- `L jobs/settlement-tick.ts` writes FINISHED before it settles, and no later tick
  looks at a FINISHED fixture: after a crash what is locked stays locked. The battles
  of a cancelled fixture beyond the newest twenty are neither refunded nor voided (`L
  lib/settlement.ts:194`,
  `packages/db-client/src/repositories/league.repository.ts:212`). An override that
  was checked before the lock is written after it, by the row's key. `F
  services/escrow.service.ts:264-267` says that a settlement log guards rewards
  against repetition; nothing reads it before granting. A LIVE answer that arrives
  late overwrites FINISHED. A battle may be counted twice in its agents' records.

## 4. Fairness

- Escrow: blocks keep coming and a claimable refund is claimed (the call is
  permissionless, so its beneficiary can make it). Nothing is assumed of the
  relayer, verifier, arbiter or admin.
- Marketplace: the sweep's `setInterval` keeps firing (strong fairness: the
  slots of the model are busy at times, those of Node are not), and every await
  returns, with an answer or an error.
- Settlement: both loops and the worker's polling go on, a claim's time passes,
  and a creator's key can pay for its feedback. The loop's backoff delays an
  attempt and never drops it, so fairness covers it. No request by a person,
  dispute or refund is assumed to come.
- TrainingWorker: workers poll, sweep and finish what they train, time passes
  for a dead one's heartbeat, and the poll ticks. A job is sure of its turn only
  while the poll's window takes all that are executing; a query without an order
  promises no more. The run that is cancelled from the start has no fairness.
- League: every await returns; the minute's sweep and the two minutes' tick come
  again and again. The tick has strong fairness because `setInterval` waits for no
  free worker, while the model's two workers are busy at times. No user is assumed
  to do anything, and no fault to stay away: the properties excuse behaviours with
  a fault or a treasury that cannot pay, for the code repairs neither.
- Wager and Subscription: none. Nothing retries a lock or a settlement and nothing
  renews by itself, so no liveness is claimed.

## 5. What is proved

Every theorem below holds for all values of the constants that the named ASSUMEs
allow: any sets of jobs, battles, players, accounts, handlers, workers and
signatures, finite or not unless said otherwise, and any number of faults.

`MarketplaceProofs`, of the contract:

- `TypeCorrect`, and with it `Invariance`. `TypeOK` alone is not inductive: that
  a pay-out leaves natural numbers needs the commission to be at most the price,
  hence the locked rate at most the cap, and a funded job to have a price and two
  parties that are wallets. The invariant ties each record to its status (what is
  set once funded, what is blank before) and each job's `paid` to its outcome.
- `EveryJobPaidOutOnce` and `FundedTermsFixed` follow from that
  invariant.
- `FundedByAuthorization`: `SignedInv` says of each funded job which authorization of
  its creator's and which agreement about it funded it, and that as many
  authorizations are spent as jobs are funded; a second use of one would break the
  count.
- `EscrowSolvent` and `LedgerAlwaysExplained`: neither is inductive job by job, for
  a pay-out changes the shared balance and several wallets. `BooksInv` counts units
  (`SumIs`, `SumChanges` in `UnitsProofs`): what is owed is a sum over jobs, and so
  are each wallet's deposits and receipts; funding adds exactly a price to the
  first two and an outcome moves exactly what is paid. That the sums are finite is
  part of the invariant, not an assumption on `JobIds`. Pay-outs to the escrow's
  own account (a treasury set to the escrow itself) only help.
- `ContractKeepsPromise`: under `PhaseOf`, `DealOf` and `paid`, every step of the
  contract is a step of `EscrowPromise` or a stutter.

`MarketplaceProofs`, of the marketplace over it:

- `MarketFollowsContract`: every step is a step of the contract or leaves the
  chain alone, so the theorems above hold of the composition too.
- `RowsNeverAhead`, `EveryRunPaidFor`, `CommittedIsDelivered` and
  `MarketTypeCorrect`. The properties say nothing of what a handler holds between
  two awaits, so none is inductive. `MarketInv` adds `Held`: what stays true of a
  stale copy whatever happens meanwhile. It may rely only on what never goes back,
  which `Grows` collects: a posted job stays posted or later, a funded one funded or
  closed, a deliverable is committed once, a signed thread stays signed, a
  completed run completed. One lemma per handler shows that its next holding is
  again of that kind, and one (`HeldGrows`) that everybody else's survives.

`NegotiationProofs`, for any budget, policy, precision, lifetime and message limit:

- `TranscriptVerifies`, `RulesHoldOfTheRows`, `SignedIsAgreed`, `RowIsHonest`,
  `NeverBelowTheFloor` and `ThreadTypeCorrect`, from `ThreadInv`. A handler
  checked its offer against a transcript that may have grown since. `Sound` says
  what is left of that check: the offer's place is at most the next one, and if it
  still is the next one, the transcript is the one that was read, so the offer
  fits it (`Fits`). Once the place is taken the unique index refuses the offer
  (`FreePlace`). `Fits` also says that the transcript was not closed, so an
  insertion can contradict no announced outcome and no signature. The floor needs
  one more thing: the provider's first message is never its `PROPOSE`, which alone
  ignores the floor, because the creator opens.

`TrainingWorkerProofs`:

- `CompletedIsDeliverable`, `SubmittedIsMeasured` and `QueueTypeCorrect`, from
  `QueueInv`, which adds `Secured`: what a worker past a given statement has left
  behind for its run stays there, whoever else claims that run, since artifacts
  are replaced and measurements added but neither is removed. That the artifact in
  storage is one that was measured needs its exceptions: an attempt between its two
  statements, and one that was cut off there. What the poll holds between its awaits
  is a measurement of that run, and after the relay what the chain has.

`SettlementProofs`:

- `VerdictsRestOnMeasurements`, `RowsRepeatTheChain`, `FeedbackRepeatsVerdicts` and
  `SettleTypeCorrect`, from `SettleInv`. The row's snapshot may be replaced at any
  time by a late worker, so the properties rest on what does not change:
  `OnlyGrows` says that measurements are only added and verdicts never replaced, and
  `Holds` says for every process, at every await, which of these it carries (a
  snapshot that measured the committed artifact, a report that follows from one, a
  verdict that the chain took). `HoldsStays` is the one lemma by which everybody
  else's holding survives a step. Of the row's status only SETTLED and REFUNDED are
  claimed to repeat the chain: a funding retry hides them behind ESCROWED.
- `SettlementUsesTheContract`: every step is one of the contract's or leaves the
  chain alone.

`WagerProofs`:

- `VaultAlwaysExact` and `TreasuryBooksRight`, from `ArenaInv`: the vault holds the
  stakes of the open matches, counted by units, and the treasury what it was minted
  and every commission, less every reward it paid. `ArenaKeepsPromise` is the
  refinement; the commission's bounds (`ArenaCommission`) are its arithmetic.
- `ServicesUseTheContract`, hence `WagersAreKept`: services that lose, repeat and
  reorder calls do not take the contract out of its promise.
- `RecordsFollowChain`, `NobodyPaidEarly` and `WagerTypeCorrect`, from `WagerInv`.
  What a handler holds goes stale, but a match never goes back: `Truthful` says
  for each step of a handler what it has secured on the chain before, for example
  that a lock about to be recorded has a match that is started or over, between
  the owners of the two agents.

`LeagueProofs`, for any finite set of agents and any battles, stakes, picks, points
and workers (the agents are finite because the consensus counts their votes):

- `LedgersAgree`, `AwardsGrantedOnce`, `RightAgentsPaid` and `LeagueWellTyped`, from
  `LeagueInv`. None of them is inductive: what keeps three ledgers in step is what
  each request and tick holds between its awaits, of which they say nothing.
  `TaskSound` says it of one worker, by its step: the predictions that it claimed are
  settled and not scored yet (`ClaimsSound`); a lock that is about to join, start or
  be recorded finds the match as the transaction before it left it (`LockSound`); a
  tick that pays has a winner who earned something, one that marks the record knows
  what the chain did, one that closes the row knows what the record says
  (`PayoutSound`). `ContractKept` carries the contract's own invariant, for a reward
  moves the treasury's tokens beside it. `Apart` says what two workers never do at
  once: hold claims on one agent, score one agent, open, lock or mark one battle.
  Nothing in the code is a lock for that; it follows from the conditional claim of
  predictions and from the contract, which refuses to create or to end a match twice.
  What is not in the invariant is as telling: two ticks may judge a battle and both
  set out to pay it, and the one that comes too late still counts it in its agents'
  records.
- Most steps disturb little of this, and the proof says so: a worker's step is
  shown sound by one lemma per part of the state that it writes (`QuietStep`,
  `PredictionStep`, `EarningStep`, `BattleStep`, `RecordStep`, `ContractStep`), each
  over a lemma that says what the others' tasks rely on there (`SoundThrough...`).
  `Recedes` covers the workers that claim, score and lock nothing new: they stay
  apart from the rest.
- `LeagueUsesTheContract`: every step is a transaction of the contract or leaves it
  alone, so `VaultAlwaysExact`, `TreasuryBooksRight` and `ArenaKeepsPromise` hold of
  the league too.
- `ResultsStand`: an award, a grant, a closed record and a battle that is over are
  final, whatever older view a worker holds. It needs the invariant, for the
  updates of awards and records name a row by its key alone.
- `LedgersAgree` is one-sided, as `RowsFollowChain` is: see section 3.

`SubscriptionProofs`:

- `CreditAlwaysBacked`, `SignersChargedAsSigned`, `RenewalsKeepDistance`,
  `PurchasesKeepValue` and `SubTypeCorrect`, from `SubInv`: the credits summed by
  units; a request that was charged has its nonce behind it (`ChargedOnce`);
  an account renewed at some time is paid up for a period from then
  (`RenewedIsPaid`), which forbids a renewal until the window opens; paid tiers
  have prices (`Priced`). `PurchasesKeepValue` is the bound
  p * (x div p) <= x < p * (x div p) + p on the quotient, which the cast can only
  make smaller, and leaves alone below the modulus, whatever the modulus is.

Only model-checked: all liveness (`FundsLeaveUnlessDisputed`, `PendingStarts`,
`EveryDeliveryMeasured`, `VerdictsPublished`, `EveryRunEnds`,
`CompletedGetsSubmitted`, `LockedPredictionsScore`, `LockedBattlesPay`), which the
provers cannot do under fairness. Every safety invariant and every action property
that a run checks is proved. The counterexamples of the violation runs are TLC's.

## 6. Not modelled, and the plan

Not modelled and why: see `components` with status `not_modelled`. Of the code,
more than half are generated contract bindings (`contracts/evm/typechain-types/`),
and most of the rest is user interface, game clients and services that read and
write single rows. Within the modelled parts: the bytes of reports and their hashes,
EIP-712 encodings, the attribution suffix of transactions, retries inside the
HTTP client (a retry is a repeated request), gas, the relay's own `submitVerdict`,
which has no caller, rivalries, moments, reschedules and season figures of the
league, its fantasy and market pages, x402 payments, tournaments, and setters of
addresses and roles in the contracts.

Known and not modelled: a negotiation thread that expired cannot be opened again
(`packages/db-client/prisma/schema.prisma:1265`); the discovery scan's opening move
is out of turn (`A discovery.service.ts:172`); two edits of an autobid policy lose
one (`A routes/autobid.routes.ts:98`); a process that stops after POSTING leaves a
job `confirmAndPost` refuses (`A job.service.ts:224`); `openNegotiation` may
overwrite a later status (`A negotiation.service.ts:174`); the report's hash drops
nested keys (`E verifier.service.ts:177`). In matchmaking two sweeps or joins may
match one agent twice, for the result of `zrem` is not looked at
(`services/matchmaking-service/src/services/matchmaker.ts:67`), an agent whose entry
expired stays in the sorted set, a crash after the removal loses both agents, and the
clean-up of an old battle removes an agent's newer queue entry.

Plan, most important first.

1. Matchmaking: the queue under concurrent joins, sweeps and clean-ups; every
   battle ends.
2. `C arena/ArenaTournament.sol` with its routes in arena-chain-service.
3. The theorems of the contract of battles in a module of their own, under those of
   its two callers.
4. Discovery and autobid composed with `Negotiation`.
