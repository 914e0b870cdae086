---------------------------- MODULE A2AJobEscrow ----------------------------
(***************************************************************************)
(* The on-chain job registry and USDC escrow of the agent-to-agent         *)
(* marketplace, contracts/evm/contracts/base/A2AJobEscrow.sol.             *)
(*                                                                         *)
(* A transaction is one atomic action; a reverted call is a disabled       *)
(* action.  The operator roles (relayer, verifier, arbiter, admin) are the *)
(* principals of the actions that carry their modifier.  The signatures    *)
(* produced off-chain are two fixed sets, agreements signed by addresses   *)
(* and EIP-3009 authorizations signed by wallets; the relayer may submit   *)
(* any combination of them, in the name of any signers.                    *)
(***************************************************************************)
EXTENDS Integers, FiniteSets, Units

CONSTANTS
  JobIds,            \* job identifiers derived off-chain
  Wallets,           \* addresses that hold USDC
  Escrow,            \* the address of this contract
  NoWallet,          \* address(0)
  Terms,             \* creator agent id + requirements hash, as one value
  NoTerms,           \* bytes32(0)
  Artifacts,         \* deliverable hashes
  NoArtifact,        \* bytes32(0)
  Prices,            \* USDC amounts that occur in budgets and agreements
  Windows,           \* execution windows callers ask for
  MinWindow, MaxWindow, Grace,   \* MIN/MAX_EXECUTION_WINDOW, VERIFICATION_GRACE
  BpsDenominator,    \* 10_000
  MaxCommissionBps,  \* MAX_COMMISSION_BPS
  Rates,             \* commission rates the admin asks for
  InitialRate,       \* commissionBps at deployment
  Signers,           \* addresses that sign agreements: agents, and anybody else
  Signatures,        \* who has signed which agreement: <<signer, agreement>>
  Authorizations,    \* EIP-3009 authorizations that carry their payer's signature
  InitialBalance,    \* USDC of each wallet at deployment
  Horizon,           \* bound: no job is posted or funded after this time
  MaxTime            \* bound: the last block timestamp

Accounts == Wallets \cup {Escrow}

Agreement ==
  [jobId : JobIds, terms : Terms, provider : Wallets, price : Prices,
   window : Windows, expiry : Nat]

Authorization ==
  [from : Wallets, to : Accounts, value : Prices, nonce : Nat, validBefore : Nat]

ASSUME AccountsAssumption == Escrow \notin Wallets /\ NoWallet \notin Accounts
ASSUME HashAssumption == NoTerms \notin Terms /\ NoArtifact \notin Artifacts
ASSUME NumbersAssumption ==
  /\ Prices \subseteq Nat \ {0}
  /\ Windows \subseteq Nat /\ Rates \subseteq Nat
  /\ MinWindow \in Nat /\ MaxWindow \in Nat /\ Grace \in Nat
  /\ BpsDenominator \in Nat \ {0} /\ MaxCommissionBps \in 0..BpsDenominator
  /\ InitialRate \in 0..MaxCommissionBps
  /\ InitialBalance \in Nat /\ Horizon \in Nat /\ MaxTime \in Nat
ASSUME SignaturesAssumption ==
  Signatures \subseteq Signers \X Agreement /\ Authorizations \subseteq Authorization

SignedAgreements == {signature[2] : signature \in Signatures}

-----------------------------------------------------------------------------

VARIABLES
  job,        \* _jobs
  bal,        \* the USDC ledger
  usedAuth,   \* authorizationState of the USDC contract: spent <<payer, nonce>>
  treasury, commissionBps, paused,
  now,        \* block.timestamp
  paid,       \* amounts of the JobSettled, JobRefunded and DisputeResolved events
  fees        \* commission received so far, by account

vars == <<job, bal, usedAuth, treasury, commissionBps, paused, now, paid, fees>>

Statuses == {"NONE", "POSTED", "ESCROWED", "EXECUTING", "DELIVERED",
             "SETTLED", "REFUNDED", "CANCELLED", "DISPUTED"}

InProgress == {"ESCROWED", "EXECUTING"}
Undecided  == InProgress \cup {"DELIVERED"}    \* funded, before any outcome
Holding    == Undecided \cup {"DISPUTED"}      \* the escrow owes the price
Closed     == {"SETTLED", "REFUNDED"}
Funded     == Holding \cup Closed

Job ==
  [status : Statuses, creator : Wallets \cup {NoWallet},
   provider : Wallets \cup {NoWallet}, terms : Terms \cup {NoTerms},
   budgetMin : Prices \cup {0}, budgetMax : Prices \cup {0},
   window : Windows \cup {0}, price : Prices \cup {0}, deadline : Nat,
   bps : 0..MaxCommissionBps, artifact : Artifacts \cup {NoArtifact}]

BlankJob ==
  [status |-> "NONE", creator |-> NoWallet, provider |-> NoWallet,
   terms |-> NoTerms, budgetMin |-> 0, budgetMax |-> 0, window |-> 0,
   price |-> 0, deadline |-> 0, bps |-> 0, artifact |-> NoArtifact]

Payment == [creator : Nat, provider : Nat, treasury : Nat]
NoPayment == [creator |-> 0, provider |-> 0, treasury |-> 0]

Init ==
  /\ job = [j \in JobIds |-> BlankJob]
  /\ bal = [a \in Accounts |-> IF a = Escrow THEN 0 ELSE InitialBalance]
  /\ usedAuth = {}
  /\ treasury \in Wallets
  /\ commissionBps = InitialRate
  /\ paused = FALSE
  /\ now = 0
  /\ paid = [j \in JobIds |-> NoPayment]
  /\ fees = [a \in Accounts |-> 0]

-----------------------------------------------------------------------------
(* USDC, as the contract calls it.                                         *)

Transfer(ledger, from, to, amount) ==
  IF from = to THEN ledger
  ELSE [ledger EXCEPT ![from] = @ - amount, ![to] = @ + amount]

\* receiveWithAuthorization takes effect only for a fresh nonce, in its
\* validity window, and when the payer can cover the amount.
Spendable(auth) ==
  /\ <<auth.from, auth.nonce>> \notin usedAuth
  /\ now < auth.validBefore
  /\ bal[auth.from] >= auth.value

-----------------------------------------------------------------------------
(* The relayer's transactions.                                             *)

PostedJob(creator, terms, lo, hi, window) ==
  [status |-> "POSTED", creator |-> creator, provider |-> NoWallet,
   terms |-> terms, budgetMin |-> lo, budgetMax |-> hi, window |-> window,
   price |-> 0, deadline |-> 0, bps |-> 0, artifact |-> NoArtifact]

PostJob(j, creator, terms, lo, hi, window) ==
  /\ ~paused /\ now <= Horizon
  /\ job[j].status = "NONE"
  /\ hi >= lo
  /\ window \in MinWindow..MaxWindow
  /\ job' = [job EXCEPT ![j] = PostedJob(creator, terms, lo, hi, window)]
  /\ UNCHANGED <<bal, usedAuth, treasury, commissionBps, paused, now, paid, fees>>

\* Not gated on whenNotPaused.
CancelBeforeFunding(j) ==
  /\ job[j].status = "POSTED"
  /\ job' = [job EXCEPT ![j].status = "CANCELLED"]
  /\ UNCHANGED <<bal, usedAuth, treasury, commissionBps, paused, now, paid, fees>>

AgreementFits(j, agreement) ==
  /\ agreement.jobId = j
  /\ agreement.terms = job[j].terms
  /\ agreement.window = job[j].window
  /\ agreement.expiry > now
  /\ agreement.price \in job[j].budgetMin..job[j].budgetMax
  /\ agreement.provider # job[j].creator

AuthorizationOfAnyPayer(j, agreement, auth) ==
  auth.to = Escrow /\ auth.value = agreement.price

AuthorizationFits(j, agreement, auth) ==
  /\ auth.to = Escrow
  /\ auth.value = agreement.price
  /\ auth.from = job[j].creator

VerifyAgreement(agreement, creatorSigner, providerSigner) ==
  {<<creatorSigner, agreement>>, <<providerSigner, agreement>>} \subseteq Signatures

\* The relayer names the signers: nothing ties them to the creator's or the
\* provider's wallet, or to their agents, and both may be one address.
FundWithAuthorization(j, agreement, auth) ==
  /\ ~paused /\ now <= Horizon
  /\ job[j].status = "POSTED"
  /\ AgreementFits(j, agreement)
  /\ \E creatorSigner, providerSigner \in Signers :
       VerifyAgreement(agreement, creatorSigner, providerSigner)
  /\ AuthorizationFits(j, agreement, auth)
  /\ Spendable(auth)
  /\ job' = [job EXCEPT ![j] =
       [@ EXCEPT !.status = "ESCROWED", !.provider = agreement.provider,
                 !.price = agreement.price, !.deadline = now + job[j].window,
                 !.bps = commissionBps]]
  /\ usedAuth' = usedAuth \cup {<<auth.from, auth.nonce>>}
  /\ bal' = Transfer(bal, auth.from, Escrow, auth.value)
  /\ UNCHANGED <<treasury, commissionBps, paused, now, paid, fees>>

MarkExecuting(j) ==
  /\ ~paused
  /\ job[j].status = "ESCROWED"
  /\ job' = [job EXCEPT ![j].status = "EXECUTING"]
  /\ UNCHANGED <<bal, usedAuth, treasury, commissionBps, paused, now, paid, fees>>

InTime(j) == now <= job[j].deadline

SubmitDeliverable(j, artifact) ==
  /\ ~paused
  /\ job[j].status \in InProgress
  /\ InTime(j)
  /\ job' = [job EXCEPT ![j].status = "DELIVERED", ![j].artifact = artifact]
  /\ UNCHANGED <<bal, usedAuth, treasury, commissionBps, paused, now, paid, fees>>

-----------------------------------------------------------------------------
(* Outcomes: every transaction that lets the escrowed USDC out.            *)

DisburseSwapped(j, shares) ==
  LET first == Transfer(bal, Escrow, job[j].creator, shares.provider)
  IN  Transfer(Transfer(first, Escrow, job[j].provider, shares.creator),
               Escrow, treasury, shares.treasury)

\* The ledger after the transfers of an outcome.
Disburse(j, shares) ==
  LET first == Transfer(bal, Escrow, job[j].creator, shares.creator)
  IN  Transfer(Transfer(first, Escrow, job[j].provider, shares.provider),
               Escrow, treasury, shares.treasury)

\* Close job j with the given shares; an ERC-20 transfer the escrow's balance
\* does not cover reverts the whole transaction.
PayOut(j, status, shares) ==
  /\ bal[Escrow] >= shares.creator + shares.provider + shares.treasury
  /\ bal' = Disburse(j, shares)
  /\ paid' = [paid EXCEPT ![j] =
       [creator |-> @.creator + shares.creator,
        provider |-> @.provider + shares.provider,
        treasury |-> @.treasury + shares.treasury]]
  /\ fees' = [fees EXCEPT ![treasury] = @ + shares.treasury]
  /\ job' = [job EXCEPT ![j].status = status]
  /\ UNCHANGED <<usedAuth, treasury, commissionBps, paused, now>>

RefundOf(price) == [creator |-> price, provider |-> 0, treasury |-> 0]

Commission(price, bps) == (price * bps) \div BpsDenominator

SettlementAtCurrentRate(price, bps) ==
  [creator |-> 0, provider |-> price - Commission(price, commissionBps),
   treasury |-> Commission(price, commissionBps)]

SettlementOf(price, bps) ==
  [creator |-> 0, provider |-> price - Commission(price, bps),
   treasury |-> Commission(price, bps)]

\* The verifier's transaction; not gated on whenNotPaused.
SubmitVerdict(j, accepted) ==
  /\ job[j].status = "DELIVERED"
  /\ \/ /\ ~accepted
        /\ PayOut(j, "REFUNDED", RefundOf(job[j].price))
     \/ /\ accepted
        /\ PayOut(j, "SETTLED", SettlementOf(job[j].price, job[j].bps))

RefundClaimableAgain(j) ==
  \/ job[j].status \in InProgress \cup {"REFUNDED"} /\ now > job[j].deadline
  \/ job[j].status = "DELIVERED" /\ now > job[j].deadline + Grace

RefundClaimableUnlessPaused(j) ==
  /\ ~paused
  /\ \/ job[j].status \in InProgress /\ now > job[j].deadline
     \/ job[j].status = "DELIVERED" /\ now > job[j].deadline + Grace

RefundClaimable(j) ==
  \/ job[j].status \in InProgress /\ now > job[j].deadline
  \/ job[j].status = "DELIVERED" /\ now > job[j].deadline + Grace

\* Anybody's transaction; not gated on whenNotPaused.
ClaimTimeoutRefund(j) ==
  /\ RefundClaimable(j)
  /\ PayOut(j, "REFUNDED", RefundOf(job[j].price))

RaiseDisputeAnytime(j, sender) ==
  /\ job[j].status \in Undecided \cup {"SETTLED"}
  /\ sender \in {job[j].creator, job[j].provider}
  /\ job' = [job EXCEPT ![j].status = "DISPUTED"]
  /\ UNCHANGED <<bal, usedAuth, treasury, commissionBps, paused, now, paid, fees>>

RaiseDispute(j, sender) ==
  /\ job[j].status \in Undecided
  /\ sender \in {job[j].creator, job[j].provider}
  /\ job' = [job EXCEPT ![j].status = "DISPUTED"]
  /\ UNCHANGED <<bal, usedAuth, treasury, commissionBps, paused, now, paid, fees>>

\* The arbiter's transaction.
ResolveDispute(j, toProvider, toCreator) ==
  /\ job[j].status = "DISPUTED"
  /\ toProvider + toCreator = job[j].price
  /\ PayOut(j, "SETTLED",
            [creator |-> toCreator, provider |-> toProvider, treasury |-> 0])

-----------------------------------------------------------------------------
(* The admin's transactions, and the clock.                                *)

SetCommissionBps(bps) ==
  /\ bps <= MaxCommissionBps
  /\ commissionBps' = bps
  /\ UNCHANGED <<job, bal, usedAuth, treasury, paused, now, paid, fees>>

\* Any address but zero, the escrow's own included.
SetTreasury(account) ==
  /\ treasury' = account
  /\ UNCHANGED <<job, bal, usedAuth, commissionBps, paused, now, paid, fees>>

Pause ==
  /\ ~paused /\ paused' = TRUE
  /\ UNCHANGED <<job, bal, usedAuth, treasury, commissionBps, now, paid, fees>>

Unpause ==
  /\ paused /\ paused' = FALSE
  /\ UNCHANGED <<job, bal, usedAuth, treasury, commissionBps, now, paid, fees>>

Tick ==
  /\ now < MaxTime
  /\ now' = now + 1
  /\ UNCHANGED <<job, bal, usedAuth, treasury, commissionBps, paused, paid, fees>>

Relayer(j) ==
  \/ \E creator \in Wallets, terms \in Terms, lo, hi \in Prices, window \in Windows :
        PostJob(j, creator, terms, lo, hi, window)
  \/ CancelBeforeFunding(j)
  \/ \E agreement \in SignedAgreements, auth \in Authorizations :
        FundWithAuthorization(j, agreement, auth)
  \/ MarkExecuting(j)
  \/ \E artifact \in Artifacts : SubmitDeliverable(j, artifact)

Verifier(j) == \E accepted \in BOOLEAN : SubmitVerdict(j, accepted)

Party(j) == \E sender \in Wallets : RaiseDispute(j, sender)

Arbiter(j) ==
  \E toProvider \in 0..job[j].price, toCreator \in 0..job[j].price :
    ResolveDispute(j, toProvider, toCreator)

Admin ==
  \/ \E bps \in Rates : SetCommissionBps(bps)
  \/ \E account \in Accounts : SetTreasury(account)
  \/ Pause
  \/ Unpause

Next ==
  \/ \E j \in JobIds :
       Relayer(j) \/ Verifier(j) \/ ClaimTimeoutRefund(j) \/ Party(j) \/ Arbiter(j)
  \/ Admin
  \/ Tick

Spec == Init /\ [][Next]_vars

(* Blocks keep coming, and a claimable refund is eventually claimed: the   *)
(* call is permissionless, so its beneficiary can make it.  Nothing is     *)
(* assumed of the relayer, the verifier, the arbiter or the admin.         *)
Fairness ==
  /\ WF_vars(Tick)
  /\ \A j \in JobIds : WF_vars(ClaimTimeoutRefund(j))

LiveSpec == Spec /\ Fairness

-----------------------------------------------------------------------------
(* Properties.                                                             *)

TypeOK ==
  /\ job \in [JobIds -> Job]
  /\ bal \in [Accounts -> Nat]
  /\ usedAuth \subseteq Wallets \X Nat
  /\ treasury \in Accounts
  /\ commissionBps \in 0..MaxCommissionBps
  /\ paused \in BOOLEAN
  /\ now \in Nat
  /\ paid \in [JobIds -> Payment]
  /\ fees \in [Accounts -> Nat]

\* The base units of USDC that the escrow owes to its unfinished jobs.
Owed(j) == IF job[j].status \in Holding THEN job[j].price ELSE 0
OwedUnits == UnitsOf([j \in JobIds |-> Owed(j)])

\* The contract can always pay every job it still holds, whatever the order of
\* outcomes: a payment of one job never draws on another one's escrow
\* (resolveDispute, "no over-payment that would draw on another job's funds").
Solvent == bal[Escrow] >= Cardinality(OwedUnits)

\* USDC that account a put into, and received from, the jobs.
Deposit(a, j) ==
  IF job[j].creator = a /\ job[j].status \in Funded THEN job[j].price ELSE 0
Receipt(a, j) ==
  (IF job[j].creator = a THEN paid[j].creator ELSE 0) +
  (IF job[j].provider = a THEN paid[j].provider ELSE 0)
Deposited(a) == Cardinality(UnitsOf([j \in JobIds |-> Deposit(a, j)]))
Received(a) == fees[a] + Cardinality(UnitsOf([j \in JobIds |-> Receipt(a, j)]))

\* Every account's balance is explained by the deposits and the events: nobody
\* is paid but the job's parties and the treasury of the moment, and no unit is
\* lost or minted, in any interleaving of several jobs' outcomes.
LedgerExplained ==
  \A a \in Wallets : bal[a] + Deposited(a) = InitialBalance + Received(a)

\* Outcome of a job: nothing leaves before it closes; a refund is whole and
\* takes no commission; a settlement pays the price exactly, either the
\* verifier's split at the rate locked at funding or an arbiter's split
\* without commission.
PaidOnce(j) ==
  /\ job[j].status = "REFUNDED" => paid[j] = RefundOf(job[j].price)
  /\ job[j].status = "SETTLED" =>
       \/ paid[j] = SettlementOf(job[j].price, job[j].bps)
       \/ /\ paid[j].treasury = 0
          /\ paid[j].creator + paid[j].provider = job[j].price
  /\ job[j].status \notin Closed => paid[j] = NoPayment

PaidOutOnce == \A j \in JobIds : PaidOnce(j)

\* A funded job was paid by an authorization that its creator's wallet signed for
\* exactly that price, and that no other job used; the price lies in the budget the
\* job was posted with, and its provider, terms and window are those of one agreement
\* about this very job.  Whose signatures the agreement carries is not part of it:
\* the contract checks those of the addresses the relayer names.
FundedAsSigned ==
  LET FundedJobs == {j \in JobIds : job[j].status \in Funded}
  IN  /\ \A j \in FundedJobs :
           \E agreement \in SignedAgreements, auth \in Authorizations :
             /\ agreement.jobId = j /\ agreement.terms = job[j].terms
             /\ agreement.provider = job[j].provider
             /\ agreement.provider # job[j].creator
             /\ agreement.price = job[j].price /\ agreement.window = job[j].window
             /\ job[j].price \in job[j].budgetMin..job[j].budgetMax
             /\ auth.from = job[j].creator /\ auth.to = Escrow /\ auth.value = job[j].price
             /\ <<auth.from, auth.nonce>> \in usedAuth
      /\ Cardinality(usedAuth) = Cardinality(FundedJobs)

\* Payee, refund destination, price, deadline and commission rate are fixed by
\* funding: no later step of any role changes them, whatever the admin does.
TermsFixed ==
  [][\A j \in JobIds : job[j].status \in Funded =>
       /\ job'[j].creator = job[j].creator /\ job'[j].provider = job[j].provider
       /\ job'[j].price = job[j].price /\ job'[j].deadline = job[j].deadline
       /\ job'[j].bps = job[j].bps]_vars

\* However the operators behave, paused or silent, a funded job without a
\* dispute ends: its money does not stay in the escrow (claimTimeoutRefund,
\* "the most important liveness property in the contract").
FundsLeaveUnlessDisputed ==
  \A j \in JobIds : (job[j].status \in Undecided) ~> (job[j].status \notin Undecided)

-----------------------------------------------------------------------------
(* The contract keeps the abstract promise.                                *)

PhaseOf(status) ==
  IF status = "CANCELLED" THEN "withdrawn"
  ELSE IF status \in Undecided THEN "held"
  ELSE IF status = "DISPUTED" THEN "contested"
  ELSE IF status \in Closed THEN "closed"
  ELSE "open"

DealOf(record) ==
  IF record.status \in Funded
  THEN [creator |-> record.creator, provider |-> record.provider, amount |-> record.price]
  ELSE [creator |-> NoWallet, provider |-> NoWallet, amount |-> 0]

Promise == INSTANCE EscrowPromise WITH
  Amounts <- Prices, Nobody <- NoWallet, CapNumerator <- MaxCommissionBps, CapDenominator <- BpsDenominator,
  phase <- [j \in JobIds |-> PhaseOf(job[j].status)],
  deal <- [j \in JobIds |-> DealOf(job[j])],
  shares <- paid

\* The implementation of the abstract escrow: money of a job comes in once and
\* goes out once, wholly, to the parties fixed at funding.
KeepsPromise == Promise!Spec

=============================================================================
