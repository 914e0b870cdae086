-------------------------- MODULE MarketplaceProofs --------------------------
(***************************************************************************)
(* The escrow of A2A jobs, whatever its callers send it (Spec): theorems   *)
(* for every set of jobs, wallets, prices, windows, signed agreements and  *)
(* authorizations.  Then the marketplace that drives it, for every set of  *)
(* handlers, providers, drafts and training runs, and any number of faults.*)
(***************************************************************************)
EXTENDS Marketplace, UnitsProofs

-----------------------------------------------------------------------------
(* The escrow: the commission.                                             *)

\* Commission is rounded down, so it is within the price and within the cap
\* whatever the price and the locked rate.
LEMMA CommissionBound ==
  ASSUME NEW price \in Nat, NEW bps \in 0..MaxCommissionBps
  PROVE  /\ Commission(price, bps) \in 0..price
         /\ Commission(price, bps) * BpsDenominator <= price * MaxCommissionBps
<1> DEFINE c == Commission(price, bps)
<1>1. BpsDenominator \in Nat \ {0} /\ bps \in 0..BpsDenominator /\ bps <= MaxCommissionBps
  BY NumbersAssumption
<1>2. c \in 0..price /\ c * BpsDenominator <= price * bps
  BY <1>1, RoundedShare DEF Commission
<1>3. price * bps <= price * MaxCommissionBps
  BY ProductMonotonic, NumbersAssumption
<1>4. c * BpsDenominator \in Int /\ price * bps \in Int /\ price * MaxCommissionBps \in Int
  BY <1>1, <1>2, NumbersAssumption
<1> HIDE DEF c
<1> QED  BY <1>2, <1>3, <1>4 DEF c

-----------------------------------------------------------------------------
(* The shape of the ledger.                                                *)

\* A transfer out of the escrow takes at most the amount from its balance,
\* and nothing when the recipient is the escrow itself; a recipient that is a
\* wallet gets the amount, and nobody else anything.
LEMMA TransferOut ==
  ASSUME NEW ledger \in [Accounts -> Nat], NEW to \in Accounts,
         NEW amount \in Nat, amount <= ledger[Escrow]
  PROVE  /\ Transfer(ledger, Escrow, to, amount) \in [Accounts -> Nat]
         /\ Transfer(ledger, Escrow, to, amount)[Escrow] \in
              {ledger[Escrow], ledger[Escrow] - amount}
         /\ \A a \in Wallets : Transfer(ledger, Escrow, to, amount)[a] =
              ledger[a] + (IF to = a THEN amount ELSE 0)
<1>1. Escrow \in Accounts /\ \A a \in Wallets : a \in Accounts /\ a # Escrow
  BY AccountsAssumption DEF Accounts
<1> QED  BY <1>1 DEF Transfer

Shares == [creator : Nat, provider : Nat, treasury : Nat]

SumOf(shares) == shares.creator + shares.provider + shares.treasury

\* What an outcome of job j brings account a.
ShareOf(a, j, shares) ==
  (IF job[j].creator = a THEN shares.creator ELSE 0) +
  (IF job[j].provider = a THEN shares.provider ELSE 0)

\* The transfers of an outcome leave the escrow with at least the rest, and bring
\* every wallet its shares.
LEMMA DisburseType ==
  ASSUME TypeOK, NEW j \in JobIds, NEW shares \in Shares,
         job[j].creator \in Wallets, job[j].provider \in Wallets,
         bal[Escrow] >= SumOf(shares)
  PROVE  /\ Disburse(j, shares) \in [Accounts -> Nat]
         /\ Disburse(j, shares)[Escrow] >= bal[Escrow] - SumOf(shares)
         /\ \A a \in Wallets : Disburse(j, shares)[a] =
              bal[a] + ShareOf(a, j, shares) + (IF treasury = a THEN shares.treasury ELSE 0)
<1> DEFINE first == Transfer(bal, Escrow, job[j].creator, shares.creator)
           second == Transfer(first, Escrow, job[j].provider, shares.provider)
           third == Transfer(second, Escrow, treasury, shares.treasury)
<1>1. /\ bal \in [Accounts -> Nat] /\ treasury \in Accounts /\ Escrow \in Accounts
      /\ job[j].creator \in Accounts /\ job[j].provider \in Accounts
      /\ shares.creator \in Nat /\ shares.provider \in Nat /\ shares.treasury \in Nat
  BY DEF TypeOK, Accounts, Shares
<1>2. /\ bal[Escrow] \in Nat /\ SumOf(shares) \in Nat
      /\ shares.creator + shares.provider + shares.treasury = SumOf(shares)
  BY <1>1 DEF SumOf
<1>3. /\ first \in [Accounts -> Nat] /\ first[Escrow] \in {bal[Escrow], bal[Escrow] - shares.creator}
      /\ \A a \in Wallets : first[a] = bal[a] + (IF job[j].creator = a THEN shares.creator ELSE 0)
  <2>1. shares.creator <= bal[Escrow]  BY <1>1, <1>2
  <2> QED  BY <1>1, <2>1, TransferOut
<1> HIDE DEF first
<1>4. /\ second \in [Accounts -> Nat]
      /\ second[Escrow] \in {first[Escrow], first[Escrow] - shares.provider}
      /\ \A a \in Wallets : second[a] = first[a] + (IF job[j].provider = a THEN shares.provider ELSE 0)
  <2>1. shares.provider <= first[Escrow]  BY <1>1, <1>2, <1>3
  <2> QED  BY <1>1, <1>3, <2>1, TransferOut
<1> HIDE DEF second
<1>5. /\ third \in [Accounts -> Nat]
      /\ third[Escrow] \in {second[Escrow], second[Escrow] - shares.treasury}
      /\ \A a \in Wallets : third[a] = second[a] + (IF treasury = a THEN shares.treasury ELSE 0)
  <2>1. shares.treasury <= second[Escrow]  BY <1>1, <1>2, <1>3, <1>4
  <2> QED  BY <1>1, <1>4, <2>1, TransferOut
<1> HIDE DEF third
<1>6. third[Escrow] >= bal[Escrow] - SumOf(shares)
  <2>1. first[Escrow] \in Nat /\ second[Escrow] \in Nat /\ third[Escrow] \in Nat
    BY <1>1, <1>3, <1>4, <1>5
  <2> QED  BY <1>1, <1>2, <1>3, <1>4, <1>5, <2>1
<1>7. ASSUME NEW a \in Wallets
      PROVE  third[a] = bal[a] + ShareOf(a, j, shares) + (IF treasury = a THEN shares.treasury ELSE 0)
  <2>1. bal[a] \in Nat  BY <1>1 DEF Accounts
  <2> QED  BY <1>1, <1>3, <1>4, <1>5, <2>1 DEF ShareOf
<1> QED  BY <1>5, <1>6, <1>7 DEF Disburse, first, second, third

-----------------------------------------------------------------------------
(* The inductive invariant: besides the types, the parties of a job are    *)
(* known and distinct from the moment they matter, and a job that still    *)
(* owes money has paid nothing.                                            *)

PartiesKnown ==
  \A j \in JobIds :
    /\ job[j].status # "NONE" => job[j].creator \in Wallets
    /\ job[j].status \in Funded =>
         /\ job[j].provider \in Wallets
         /\ job[j].provider # job[j].creator
         /\ job[j].price \in Prices

IInv == TypeOK /\ PartiesKnown /\ PaidOutOnce

LEMMA InitInvariant == Init => IInv
<1> SUFFICES ASSUME Init PROVE IInv  OBVIOUS
<1>1. TypeOK
  <2>1. BlankJob \in Job
    BY NumbersAssumption DEF BlankJob, Job, Statuses
  <2>2. NoPayment \in Payment  BY DEF NoPayment, Payment
  <2>3. InitialBalance \in Nat /\ InitialRate \in 0..MaxCommissionBps
    BY NumbersAssumption
  <2>4. treasury \in Accounts  BY DEF Init, Accounts
  <2> QED  BY <2>1, <2>2, <2>3, <2>4 DEF Init, TypeOK
<1>2. PartiesKnown
  BY DEF Init, PartiesKnown, BlankJob, Funded, Holding, Undecided, InProgress, Closed
<1>3. PaidOutOnce
  BY DEF Init, PaidOutOnce, PaidOnce, BlankJob, Closed
<1> QED  BY <1>1, <1>2, <1>3 DEF IInv

\* A payout of exactly the price from a job that still owes it closes the job
\* with that payment on record.
LEMMA PayOutInvariant ==
  ASSUME IInv, NEW j \in JobIds, NEW status \in Closed, NEW shares \in Shares,
         job[j].status \in Holding, PayOut(j, status, shares),
         \/ status = "REFUNDED" /\ shares = RefundOf(job[j].price)
         \/ status = "SETTLED" /\ shares = SettlementOf(job[j].price, job[j].bps)
         \/ /\ status = "SETTLED" /\ shares.treasury = 0
            /\ shares.creator + shares.provider = job[j].price
  PROVE  IInv'
<1> USE DEF IInv
<1>1. job[j] \in Job /\ j \in DOMAIN job /\ job' = [job EXCEPT ![j].status = status]
  BY DEF TypeOK, PayOut
<1>2. status \in Statuses  BY DEF Closed, Statuses
<1>3. job[j].status \in Funded /\ job[j].creator \in Wallets /\ job[j].provider \in Wallets
  BY DEF PartiesKnown, Funded, Holding, Undecided, InProgress
<1>4. paid[j] = NoPayment
  BY DEF PaidOutOnce, PaidOnce, Holding, Undecided, InProgress, Closed
<1>5. paid' = [paid EXCEPT ![j] = shares]
  <2>1. paid[j].creator = 0 /\ paid[j].provider = 0 /\ paid[j].treasury = 0
    BY <1>4 DEF NoPayment
  <2>2. shares = [creator |-> 0 + shares.creator, provider |-> 0 + shares.provider,
                  treasury |-> 0 + shares.treasury]
    BY DEF Shares
  <2> QED  BY <2>1, <2>2 DEF PayOut, TypeOK
<1>6. TypeOK'
  <2>1. job' \in [JobIds -> Job]  BY <1>1, <1>2 DEF TypeOK, Job
  <2>2. bal' \in [Accounts -> Nat]
    BY <1>3, DisburseType DEF PayOut, SumOf
  <2>3. paid' \in [JobIds -> Payment]  BY <1>5 DEF TypeOK, Payment, Shares
  <2>4. fees' \in [Accounts -> Nat]  BY DEF TypeOK, PayOut, Shares
  <2> QED  BY <2>1, <2>2, <2>3, <2>4 DEF TypeOK, PayOut
<1>7. PartiesKnown'
  BY <1>1, <1>3 DEF PartiesKnown, Funded, Closed, TypeOK, Job
<1>8. PaidOutOnce'
  <2> SUFFICES ASSUME NEW i \in JobIds PROVE PaidOnce(i)'  BY DEF PaidOutOnce
  <2>1. CASE i # j
    <3>1. job'[i] = job[i] /\ paid'[i] = paid[i]  BY <1>1, <1>5, <2>1 DEF TypeOK
    <3>2. PaidOnce(i)  BY DEF PaidOutOnce
    <3> QED  BY <3>1, <3>2 DEF PaidOnce
  <2>2. CASE i = j
    <3>1. /\ paid'[i] = shares /\ job'[i].status = status
          /\ job'[i].price = job[j].price /\ job'[i].bps = job[j].bps
      BY <1>1, <1>5, <2>2 DEF TypeOK, Job
    <3>2. CASE status = "REFUNDED"
      BY <3>1, <3>2 DEF PaidOnce, Closed
    <3>3. CASE status = "SETTLED"
      BY <3>1, <3>3 DEF PaidOnce, Closed
    <3> QED  BY <3>2, <3>3 DEF Closed
  <2> QED  BY <2>1, <2>2
<1> QED  BY <1>6, <1>7, <1>8

\* Agreements and authorizations have the fields the contract reads.
LEMMA SignedTyped == SignedAgreements \subseteq Agreement /\ Authorizations \subseteq Authorization
<1>1. \A signature \in Signatures : signature[2] \in Agreement  BY SignaturesAssumption
<1> QED  BY <1>1, SignaturesAssumption DEF SignedAgreements


LEMMA JobNumbers ==
  ASSUME TypeOK, NEW j \in JobIds
  PROVE  /\ job[j] \in Job /\ job[j].price \in Nat /\ job[j].window \in Nat
         /\ job[j].deadline \in Nat /\ job[j].bps \in 0..MaxCommissionBps
<1>1. job[j] \in Job  BY DEF TypeOK
<1>2. /\ job[j].price \in Prices \cup {0} /\ job[j].window \in Windows \cup {0}
      /\ job[j].deadline \in Nat /\ job[j].bps \in 0..MaxCommissionBps
  BY <1>1 DEF Job
<1>3. \A n \in Prices \cup Windows \cup {0} : n \in Nat  BY NumbersAssumption
<1> QED  BY <1>1, <1>2, <1>3

\* Replacing the record of one job that pays nothing out keeps the invariant
\* when the new record keeps it.
LEMMA RecordInvariant ==
  ASSUME IInv, NEW j \in JobIds, NEW record \in Job,
         job' = [job EXCEPT ![j] = record], UNCHANGED paid,
         job[j].status \notin Closed, record.status \notin Closed,
         record.status # "NONE" => record.creator \in Wallets,
         record.status \in Funded =>
           /\ record.provider \in Wallets /\ record.provider # record.creator
           /\ record.price \in Prices
  PROVE  job' \in [JobIds -> Job] /\ PartiesKnown' /\ PaidOutOnce'
<1> USE DEF IInv
<1>1. job' \in [JobIds -> Job]  BY DEF TypeOK
<1>2. job'[j] = record /\ \A i \in JobIds : i # j => job'[i] = job[i]
  BY DEF TypeOK
<1>3. PartiesKnown'
  BY <1>2 DEF PartiesKnown
<1>4. PaidOutOnce'
  <2> SUFFICES ASSUME NEW i \in JobIds PROVE PaidOnce(i)'  BY DEF PaidOutOnce
  <2>1. PaidOnce(i)  BY DEF PaidOutOnce
  <2>2. CASE i = j
    BY <1>2, <2>1, <2>2 DEF PaidOnce, Closed
  <2>3. CASE i # j
    BY <1>2, <2>1, <2>3 DEF PaidOnce
  <2> QED  BY <2>2, <2>3
<1> QED  BY <1>1, <1>3, <1>4

\* A step that touches neither the jobs nor their payments.
LEMMA IdleInvariant ==
  ASSUME IInv, UNCHANGED <<job, paid>>
  PROVE  job' \in [JobIds -> Job] /\ PartiesKnown' /\ PaidOutOnce'
<1> USE DEF IInv
<1>1. PartiesKnown'  BY DEF PartiesKnown
<1>2. PaidOutOnce'
  BY DEF PaidOutOnce, PaidOnce
<1> QED  BY <1>1, <1>2 DEF TypeOK

LEMMA StepInvariant == IInv /\ [Next]_vars => IInv'
<1> SUFFICES ASSUME IInv, [Next]_vars PROVE IInv'  OBVIOUS
<1> USE DEF IInv
<1>0. TypeOK  OBVIOUS
<1>1. ASSUME NEW j \in JobIds, NEW creator \in Wallets, NEW terms \in Terms,
             NEW lo \in Prices, NEW hi \in Prices, NEW window \in Windows,
             PostJob(j, creator, terms, lo, hi, window)
      PROVE  IInv'
  <2> DEFINE record == PostedJob(creator, terms, lo, hi, window)
  <2>1. record \in Job /\ record.status = "POSTED" /\ record.creator = creator
    <3>1. 0 \in 0..MaxCommissionBps  BY NumbersAssumption
    <3> QED  BY <3>1 DEF PostedJob, Job, Statuses
  <2>2. job' = [job EXCEPT ![j] = record] /\ UNCHANGED paid /\ job[j].status = "NONE"
    BY <1>1 DEF PostJob
  <2> HIDE DEF record
  <2>3. job' \in [JobIds -> Job] /\ PartiesKnown' /\ PaidOutOnce'
    BY <2>1, <2>2, RecordInvariant
    DEF Closed, Funded, Holding, Undecided, InProgress
  <2> QED  BY <1>1, <2>3 DEF PostJob, TypeOK
<1>2. ASSUME NEW j \in JobIds, CancelBeforeFunding(j) PROVE IInv'
  <2> DEFINE record == [job[j] EXCEPT !.status = "CANCELLED"]
  <2>1. record \in Job /\ record.status = "CANCELLED" /\ record.creator = job[j].creator
    BY DEF TypeOK, Job, Statuses
  <2>2. job' = [job EXCEPT ![j] = record] /\ UNCHANGED paid /\ job[j].status = "POSTED"
    BY <1>2 DEF CancelBeforeFunding
  <2> HIDE DEF record
  <2>3. job' \in [JobIds -> Job] /\ PartiesKnown' /\ PaidOutOnce'
    BY <2>1, <2>2, RecordInvariant
    DEF PartiesKnown, Closed, Funded, Holding, Undecided, InProgress
  <2> QED  BY <1>2, <2>3 DEF CancelBeforeFunding, TypeOK
<1>3. ASSUME NEW j \in JobIds, NEW agreement \in SignedAgreements, NEW auth \in Authorizations,
             FundWithAuthorization(j, agreement, auth)
      PROVE  IInv'
  <2> DEFINE record == [job[j] EXCEPT !.status = "ESCROWED", !.provider = agreement.provider,
               !.price = agreement.price, !.deadline = now + job[j].window,
               !.bps = commissionBps]
  <2>1. agreement \in Agreement /\ auth \in Authorization  BY SignedTyped
  <2>2. now + job[j].window \in Nat /\ commissionBps \in 0..MaxCommissionBps
    BY JobNumbers DEF TypeOK
  <2>3. /\ record \in Job /\ record.status = "ESCROWED" /\ record.creator = job[j].creator
        /\ record.provider \in Wallets /\ record.provider # record.creator
        /\ record.price \in Prices
    <3>1. agreement.provider \in Wallets /\ agreement.price \in Prices
      BY <2>1 DEF Agreement
    <3>2. agreement.provider # job[j].creator
      BY <1>3 DEF FundWithAuthorization, AgreementFits
    <3>3. job[j] \in Job  BY JobNumbers
    <3>4. /\ record.status = "ESCROWED" /\ record.creator = job[j].creator
          /\ record.provider = agreement.provider /\ record.price = agreement.price
      BY <3>3 DEF Job
    <3>5. record \in Job
      BY <2>2, <3>1, <3>3 DEF Job, Statuses
    <3> QED  BY <3>1, <3>2, <3>4, <3>5
  <2>4. job' = [job EXCEPT ![j] = record] /\ UNCHANGED paid /\ job[j].status = "POSTED"
    BY <1>3 DEF FundWithAuthorization
  <2> HIDE DEF record
  <2>5. job' \in [JobIds -> Job] /\ PartiesKnown' /\ PaidOutOnce'
    BY <2>3, <2>4, RecordInvariant
    DEF PartiesKnown, Closed, Funded, Holding, Undecided, InProgress
  <2>6. bal' \in [Accounts -> Nat]
    <3>1. /\ auth.from \in Accounts /\ Escrow \in Accounts /\ auth.value \in Nat
          /\ auth.value <= bal[auth.from] /\ bal \in [Accounts -> Nat]
      BY <1>3, <2>1, NumbersAssumption
      DEF Authorization, Accounts, FundWithAuthorization, Spendable, TypeOK
    <3> QED  BY <1>3, <3>1 DEF FundWithAuthorization, Transfer
  <2>7. usedAuth' \subseteq Wallets \X Nat
    BY <1>3, <2>1 DEF FundWithAuthorization, TypeOK, Authorization
  <2> QED  BY <1>3, <2>5, <2>6, <2>7 DEF FundWithAuthorization, TypeOK
<1>4. ASSUME NEW j \in JobIds, MarkExecuting(j) PROVE IInv'
  <2> DEFINE record == [job[j] EXCEPT !.status = "EXECUTING"]
  <2>1. /\ record \in Job /\ record.status = "EXECUTING" /\ record.creator = job[j].creator
        /\ record.provider = job[j].provider /\ record.price = job[j].price
    <3>1. job[j] \in Job /\ "EXECUTING" \in Statuses  BY DEF TypeOK, Statuses
    <3> QED  BY <3>1 DEF Job
  <2>2. job' = [job EXCEPT ![j] = record] /\ UNCHANGED paid /\ job[j].status = "ESCROWED"
    BY <1>4 DEF MarkExecuting
  <2> HIDE DEF record
  <2>3. job' \in [JobIds -> Job] /\ PartiesKnown' /\ PaidOutOnce'
    BY <2>1, <2>2, RecordInvariant
    DEF PartiesKnown, Closed, Funded, Holding, Undecided, InProgress
  <2> QED  BY <1>4, <2>3 DEF MarkExecuting, TypeOK
<1>5. ASSUME NEW j \in JobIds, NEW artifact \in Artifacts, SubmitDeliverable(j, artifact)
      PROVE  IInv'
  <2> DEFINE record == [job[j] EXCEPT !.status = "DELIVERED", !.artifact = artifact]
  <2>1. /\ record \in Job /\ record.status = "DELIVERED" /\ record.creator = job[j].creator
        /\ record.provider = job[j].provider /\ record.price = job[j].price
    <3>1. job[j] \in Job /\ "DELIVERED" \in Statuses  BY DEF TypeOK, Statuses
    <3> QED  BY <3>1 DEF Job
  <2>2. job' = [job EXCEPT ![j] = record] /\ UNCHANGED paid /\ job[j].status \in InProgress
    BY <1>5 DEF SubmitDeliverable, TypeOK
  <2> HIDE DEF record
  <2>3. job' \in [JobIds -> Job] /\ PartiesKnown' /\ PaidOutOnce'
    BY <2>1, <2>2, RecordInvariant
    DEF PartiesKnown, Closed, Funded, Holding, Undecided, InProgress
  <2> QED  BY <1>5, <2>3 DEF SubmitDeliverable, TypeOK
<1>6. ASSUME NEW j \in JobIds, NEW accepted \in BOOLEAN, SubmitVerdict(j, accepted)
      PROVE  IInv'
  <2>1. /\ job[j].status \in Holding /\ job[j].price \in Nat
        /\ job[j].bps \in 0..MaxCommissionBps
    BY <1>6, JobNumbers DEF SubmitVerdict, Holding, Undecided
  <2>2. RefundOf(job[j].price) \in Shares /\ SettlementOf(job[j].price, job[j].bps) \in Shares
    BY <2>1, CommissionBound DEF RefundOf, SettlementOf, Shares
  <2> QED  BY <1>6, <2>1, <2>2, PayOutInvariant DEF SubmitVerdict, Closed
<1>7. ASSUME NEW j \in JobIds, ClaimTimeoutRefund(j) PROVE IInv'
  <2>1. job[j].status \in Holding /\ job[j].price \in Nat
    BY <1>7, JobNumbers DEF ClaimTimeoutRefund, RefundClaimable, Holding, Undecided
  <2>2. RefundOf(job[j].price) \in Shares  BY <2>1 DEF RefundOf, Shares
  <2> QED  BY <1>7, <2>1, <2>2, PayOutInvariant DEF ClaimTimeoutRefund, Closed
<1>8. ASSUME NEW j \in JobIds, NEW sender \in Wallets, RaiseDispute(j, sender) PROVE IInv'
  <2> DEFINE record == [job[j] EXCEPT !.status = "DISPUTED"]
  <2>1. /\ record \in Job /\ record.status = "DISPUTED" /\ record.creator = job[j].creator
        /\ record.provider = job[j].provider /\ record.price = job[j].price
    BY DEF TypeOK, Job, Statuses
  <2>2. job' = [job EXCEPT ![j] = record] /\ UNCHANGED paid /\ job[j].status \in Undecided
    BY <1>8 DEF RaiseDispute
  <2> HIDE DEF record
  <2>3. job' \in [JobIds -> Job] /\ PartiesKnown' /\ PaidOutOnce'
    BY <2>1, <2>2, RecordInvariant
    DEF PartiesKnown, Closed, Funded, Holding, Undecided, InProgress
  <2> QED  BY <1>8, <2>3 DEF RaiseDispute, TypeOK
<1>9. ASSUME NEW j \in JobIds, NEW toProvider \in 0..job[j].price, NEW toCreator \in 0..job[j].price,
             ResolveDispute(j, toProvider, toCreator)
      PROVE  IInv'
  <2> DEFINE shares == [creator |-> toCreator, provider |-> toProvider, treasury |-> 0]
  <2>1. job[j].status \in Holding /\ shares \in Shares
    BY <1>9 DEF ResolveDispute, Holding, Shares
  <2>2. /\ shares.treasury = 0 /\ shares.creator + shares.provider = job[j].price
        /\ PayOut(j, "SETTLED", shares)
    BY <1>9 DEF ResolveDispute
  <2> QED  BY <2>1, <2>2, PayOutInvariant DEF Closed
<1>10. ASSUME NEW bps \in Rates, SetCommissionBps(bps) PROVE IInv'
  <2>1. job' \in [JobIds -> Job] /\ PartiesKnown' /\ PaidOutOnce'
    BY <1>10, IdleInvariant DEF SetCommissionBps
  <2>2. commissionBps' \in 0..MaxCommissionBps
    BY <1>10, NumbersAssumption DEF SetCommissionBps
  <2> QED  BY <1>10, <2>1, <2>2 DEF SetCommissionBps, TypeOK
<1>11. ASSUME NEW account \in Accounts, SetTreasury(account) PROVE IInv'
  BY <1>11, IdleInvariant DEF SetTreasury, TypeOK
<1>12. CASE Pause
  BY <1>12, IdleInvariant DEF Pause, TypeOK
<1>13. CASE Unpause
  BY <1>13, IdleInvariant DEF Unpause, TypeOK
<1>14. CASE Tick
  BY <1>14, IdleInvariant DEF Tick, TypeOK
<1>15. CASE UNCHANGED vars
  BY <1>15, IdleInvariant DEF vars, TypeOK
<1> QED
  BY <1>1, <1>2, <1>3, <1>4, <1>5, <1>6, <1>7, <1>8, <1>9, <1>10, <1>11, <1>12, <1>13,
     <1>14, <1>15
  DEF Next, Relayer, Verifier, Party, Arbiter, Admin

\* The constants' and the protocol's invariant together, for every behaviour.
THEOREM Invariance == Spec => []IInv
<1>1. Init => IInv  BY InitInvariant
<1>2. IInv /\ [Next]_vars => IInv'  BY StepInvariant
<1> QED  BY <1>1, <1>2, PTL DEF Spec

\* Every variable keeps its type: in particular no balance is ever negative.
THEOREM TypeCorrect == Spec => []TypeOK
<1>1. IInv => TypeOK  BY DEF IInv
<1> QED  BY <1>1, Invariance, PTL

\* However verdicts, timeouts, disputes and their resolutions interleave, a job
\* pays exactly its price and pays it once.
THEOREM EveryJobPaidOutOnce == Spec => []PaidOutOnce
<1>1. IInv => PaidOutOnce  BY DEF IInv
<1> QED  BY <1>1, Invariance, PTL

-----------------------------------------------------------------------------
(* What follows from the invariant.                                        *)

SameTerms(j) ==
  /\ job'[j].creator = job[j].creator /\ job'[j].provider = job[j].provider
  /\ job'[j].price = job[j].price /\ job'[j].deadline = job[j].deadline
  /\ job'[j].bps = job[j].bps

\* An outcome changes nothing of a job but its status.
LEMMA PayOutKeepsTerms ==
  ASSUME TypeOK, NEW i \in JobIds, NEW j \in JobIds, NEW status, NEW shares,
         PayOut(i, status, shares)
  PROVE  SameTerms(j)
BY DEF PayOut, TypeOK, SameTerms, Job

\* No step, of an operator, a party or the admin, changes the payee, the refund
\* destination, the price, the deadline or the commission rate of a funded job.
THEOREM FundedTermsFixed == Spec => TermsFixed
<1>1. ASSUME IInv, [Next]_vars, NEW j \in JobIds, job[j].status \in Funded
      PROVE  SameTerms(j)
  <2> USE <1>1 DEF IInv
  <2>0. /\ TypeOK /\ job[j].status \notin {"NONE", "POSTED"}
    BY DEF Funded, Holding, Undecided, InProgress, Closed
  <2>1. ASSUME NEW i \in JobIds, Relayer(i) PROVE SameTerms(j)
    <3>1. CASE job[i].status \in {"NONE", "POSTED"}
      <4>1. i # j  BY <2>0, <3>1
      <4>2. \E record : job' = [job EXCEPT ![i] = record]
        BY <2>1, <3>1
        DEF Relayer, PostJob, CancelBeforeFunding, FundWithAuthorization, MarkExecuting,
            SubmitDeliverable, InProgress
      <4> QED  BY <4>1, <4>2, <2>0 DEF SameTerms, TypeOK
    <3>2. CASE job[i].status \notin {"NONE", "POSTED"}
      <4>1. MarkExecuting(i) \/ \E artifact \in Artifacts : SubmitDeliverable(i, artifact)
        BY <2>1, <3>2 DEF Relayer, PostJob, CancelBeforeFunding, FundWithAuthorization
      <4>2. CASE MarkExecuting(i)
        BY <4>2, <2>0 DEF MarkExecuting, SameTerms, TypeOK, Job
      <4>3. ASSUME NEW artifact \in Artifacts, SubmitDeliverable(i, artifact) PROVE SameTerms(j)
        BY <4>3, <2>0 DEF SubmitDeliverable, SameTerms, TypeOK, Job
      <4> QED  BY <4>1, <4>2, <4>3
    <3> QED  BY <3>1, <3>2
  <2>2. ASSUME NEW i \in JobIds, Verifier(i) \/ ClaimTimeoutRefund(i) \/ Arbiter(i)
        PROVE  SameTerms(j)
    <3>1. \E status, shares : PayOut(i, status, shares)
      BY <2>2 DEF Verifier, SubmitVerdict, ClaimTimeoutRefund, Arbiter, ResolveDispute
    <3> QED  BY <3>1, <2>0, PayOutKeepsTerms
  <2>3. ASSUME NEW i \in JobIds, Party(i) PROVE SameTerms(j)
    BY <2>3, <2>0 DEF Party, RaiseDispute, SameTerms, TypeOK, Job
  <2>4. CASE Admin \/ Tick \/ UNCHANGED vars
    BY <2>4
    DEF Admin, SetCommissionBps, SetTreasury, Pause, Unpause, Tick, vars, SameTerms
  <2> QED  BY <2>1, <2>2, <2>3, <2>4 DEF Next
<1>2. IInv /\ [Next]_vars =>
        [\A j \in JobIds : job[j].status \in Funded => SameTerms(j)]_vars
  BY <1>1
<1>3. Spec => [][\A j \in JobIds : job[j].status \in Funded => SameTerms(j)]_vars
  BY <1>2, Invariance, PTL DEF Spec
<1> QED  BY <1>3 DEF TermsFixed, SameTerms

-----------------------------------------------------------------------------
(* Money: the escrow is always solvent, and the ledger is explained.       *)

Owing == [j \in JobIds |-> Owed(j)]
Deposits(a) == [j \in JobIds |-> Deposit(a, j)]
Receipts(a) == [j \in JobIds |-> Receipt(a, j)]

SolvencyInv == \E n \in Nat : SumIs(Owing, n) /\ n <= bal[Escrow]

LedgerOf(a) ==
  \E d, r \in Nat :
    /\ SumIs(Deposits(a), d) /\ SumIs(Receipts(a), r)
    /\ bal[a] + d = InitialBalance + fees[a] + r

BooksInv == SolvencyInv /\ \A a \in Wallets : LedgerOf(a)

LEMMA MoneyTypes ==
  ASSUME IInv
  PROVE  /\ Owing \in [JobIds -> Nat]
         /\ \A a \in Wallets : Deposits(a) \in [JobIds -> Nat] /\ Receipts(a) \in [JobIds -> Nat]
         /\ \A a \in Accounts : bal[a] \in Nat /\ fees[a] \in Nat
         /\ InitialBalance \in Nat /\ Escrow \in Accounts /\ Wallets \subseteq Accounts
<1>1. \A j \in JobIds : /\ job[j].price \in Nat
                        /\ paid[j].creator \in Nat /\ paid[j].provider \in Nat
  BY JobNumbers DEF IInv, TypeOK, Payment
<1> QED
  BY <1>1, NumbersAssumption
  DEF IInv, TypeOK, Owing, Owed, Deposits, Deposit, Receipts, Receipt, Accounts

\* Nothing has been paid to anybody for a job that is not closed.
LEMMA NoReceipt ==
  ASSUME IInv, NEW a \in Wallets, NEW j \in JobIds, job[j].status \notin Closed
  PROVE  Receipt(a, j) = 0
BY DEF IInv, PaidOutOnce, PaidOnce, NoPayment, Receipt

\* A step that moves no money and no claim.
LEMMA BooksKept ==
  ASSUME BooksInv, UNCHANGED <<bal, fees>>, Owing' = Owing,
         \A a \in Wallets : Deposits(a)' = Deposits(a) /\ Receipts(a)' = Receipts(a)
  PROVE  BooksInv'
<1>1. SolvencyInv'
  BY DEF BooksInv, SolvencyInv, SumIs
<1>2. ASSUME NEW a \in Wallets PROVE LedgerOf(a)'
  <2>1. PICK d, r \in Nat : /\ SumIs(Deposits(a), d) /\ SumIs(Receipts(a), r)
                            /\ bal[a] + d = InitialBalance + fees[a] + r
    BY DEF BooksInv, LedgerOf
  <2>2. SumIs(Deposits(a), d)' /\ SumIs(Receipts(a), r)'
    BY <2>1 DEF SumIs
  <2> QED  BY <2>1, <2>2 DEF LedgerOf
<1> QED  BY <1>1, <1>2 DEF BooksInv

\* A step of one job that neither funds nor closes it.
LEMMA RecordBooks ==
  ASSUME IInv, IInv', BooksInv, UNCHANGED <<bal, fees, paid>>,
         NEW j \in JobIds, NEW record, job' = [job EXCEPT ![j] = record],
         job[j].status \notin Closed, record.status \notin Closed,
         record.status \in Holding <=> job[j].status \in Holding,
         job[j].status \in Holding => record.price = job[j].price /\ record.creator = job[j].creator
  PROVE  BooksInv'
<1>1. job'[j] = record /\ \A i \in JobIds \ {j} : job'[i] = job[i]
  BY DEF IInv, TypeOK
<1>2. \A i \in JobIds : Owed(i)' = Owed(i)  BY <1>1 DEF Owed
<1>3. ASSUME NEW a \in Wallets
      PROVE  \A i \in JobIds : Deposit(a, i)' = Deposit(a, i) /\ Receipt(a, i)' = Receipt(a, i)
  <2>1. Receipt(a, j) = 0 /\ Receipt(a, j)' = 0  BY <1>1, NoReceipt DEF Receipt, IInv, PaidOutOnce, PaidOnce, NoPayment
  <2>2. Deposit(a, j)' = Deposit(a, j)  BY <1>1 DEF Deposit, Funded
  <2>3. \A i \in JobIds \ {j} : Deposit(a, i)' = Deposit(a, i) /\ Receipt(a, i)' = Receipt(a, i)
    BY <1>1 DEF Deposit, Receipt
  <2> QED  BY <2>1, <2>2, <2>3
<1>4. Owing' = Owing /\ \A a \in Wallets : Deposits(a)' = Deposits(a) /\ Receipts(a)' = Receipts(a)
  BY <1>2, <1>3 DEF Owing, Deposits, Receipts
<1> QED  BY <1>4, BooksKept

\* Funding adds a claim and exactly the USDC that covers it, which its creator
\* deposits.
LEMMA FundBooks ==
  ASSUME IInv, IInv', BooksInv, NEW j \in JobIds,
         NEW agreement \in SignedAgreements, NEW auth \in Authorizations,
         FundWithAuthorization(j, agreement, auth)
  PROVE  BooksInv'
<1>1. /\ agreement.price \in Nat /\ auth.value = agreement.price /\ auth.from = job[j].creator
      /\ auth.from \in Wallets /\ auth.from \in Accounts /\ auth.from # Escrow /\ Escrow \in Accounts
      /\ auth.value <= bal[auth.from]
  BY SignedTyped, NumbersAssumption, AccountsAssumption
  DEF FundWithAuthorization, AuthorizationFits, Agreement, Authorization, Spendable, Accounts
<1> DEFINE payer == job[j].creator
           price == agreement.price
<1>2. /\ job[j].status = "POSTED" /\ job'[j].status = "ESCROWED"
      /\ job'[j].price = price /\ job'[j].creator = payer
      /\ \A i \in JobIds \ {j} : job'[i] = job[i]
      /\ UNCHANGED <<paid, fees>>
  BY DEF FundWithAuthorization, IInv, TypeOK, Job
<1>3. bal' = [bal EXCEPT ![payer] = @ - price, ![Escrow] = @ + price]
  BY <1>1 DEF FundWithAuthorization, Transfer
<1>4. Owing' = [Owing EXCEPT ![j] = price] /\ Owing[j] = 0
  BY <1>2 DEF Owing, Owed, Holding, Undecided, InProgress
<1>5. SolvencyInv'
  <2>1. PICK n \in Nat : SumIs(Owing, n) /\ n <= bal[Escrow]  BY DEF BooksInv, SolvencyInv
  <2>2. SumIs(Owing', n - 0 + price)
    BY <1>1, <1>4, <2>1, MoneyTypes, SumChanges
  <2>3. bal'[Escrow] = bal[Escrow] + price /\ bal[Escrow] \in Nat
    BY <1>1, <1>3, MoneyTypes DEF IInv, TypeOK
  <2>4. n - 0 + price = n + price /\ n + price \in Nat /\ n + price <= bal'[Escrow]
    BY <1>1, <2>1, <2>3
  <2> QED  BY <2>2, <2>4 DEF SolvencyInv, SumIs
<1>6. ASSUME NEW a \in Wallets PROVE LedgerOf(a)'
  <2>1. PICK d, r \in Nat : /\ SumIs(Deposits(a), d) /\ SumIs(Receipts(a), r)
                            /\ bal[a] + d = InitialBalance + fees[a] + r
    BY DEF BooksInv, LedgerOf
  <2>2. Receipts(a)' = Receipts(a)
    <3>1. Receipt(a, j) = 0 /\ Receipt(a, j)' = 0
      BY <1>2, NoReceipt DEF Closed, IInv, PaidOutOnce, PaidOnce, NoPayment, Receipt
    <3>2. \A i \in JobIds \ {j} : Receipt(a, i)' = Receipt(a, i)  BY <1>2 DEF Receipt
    <3> QED  BY <3>1, <3>2 DEF Receipts
  <2>3. /\ Deposits(a)' = [Deposits(a) EXCEPT ![j] = IF a = payer THEN price ELSE 0]
        /\ Deposits(a)[j] = 0
    BY <1>2 DEF Deposits, Deposit, Funded, Holding, Undecided, InProgress, Closed
  <2>4. /\ bal'[a] = bal[a] - (IF a = payer THEN price ELSE 0)
        /\ bal[a] \in Nat /\ fees[a] \in Nat /\ a # Escrow
    BY <1>1, <1>3, MoneyTypes, AccountsAssumption DEF IInv, TypeOK, Accounts
  <2> DEFINE m == IF a = payer THEN price ELSE 0
  <2>5. m \in Nat  BY <1>1
  <2>6. Deposits(a)' = [Deposits(a) EXCEPT ![j] = m] /\ bal'[a] = bal[a] - m  BY <2>3, <2>4
  <2> HIDE DEF m
  <2>7. SumIs(Deposits(a)', d - 0 + m)
    BY <2>1, <2>3, <2>5, <2>6, MoneyTypes, SumChanges
  <2>8. d - 0 + m \in Nat /\ bal'[a] + (d - 0 + m) = InitialBalance + fees'[a] + r
    BY <1>2, <2>1, <2>4, <2>5, <2>6, MoneyTypes
  <2> QED  BY <2>1, <2>2, <2>7, <2>8 DEF LedgerOf, SumIs
<1> QED  BY <1>5, <1>6 DEF BooksInv

\* An outcome removes a claim, takes at most the USDC that covered it, and is
\* received by the parties and the treasury of the moment.
LEMMA OutcomeBooks ==
  ASSUME IInv, IInv', BooksInv, NEW j \in JobIds, NEW status \in Closed,
         NEW shares \in Shares, SumOf(shares) = job[j].price,
         job[j].status \in Holding, PayOut(j, status, shares)
  PROVE  BooksInv'
<1>1. /\ TypeOK /\ job[j].price \in Nat /\ job[j].creator \in Wallets /\ job[j].provider \in Wallets
      /\ shares.creator \in Nat /\ shares.provider \in Nat /\ shares.treasury \in Nat
  <2>1. TypeOK /\ job[j].price \in Nat  BY JobNumbers DEF IInv
  <2>2. job[j].creator \in Wallets /\ job[j].provider \in Wallets
    BY DEF IInv, PartiesKnown, Funded, Holding, Undecided, InProgress
  <2>3. shares.creator \in Nat /\ shares.provider \in Nat /\ shares.treasury \in Nat
    BY DEF Shares
  <2> QED  BY <2>1, <2>2, <2>3
<1>2. /\ job'[j].status = status /\ job'[j].price = job[j].price
      /\ job'[j].creator = job[j].creator /\ job'[j].provider = job[j].provider
      /\ \A i \in JobIds \ {j} : job'[i] = job[i]
  BY DEF PayOut, IInv, TypeOK, Job
<1>3. /\ paid'[j] = shares /\ \A i \in JobIds \ {j} : paid'[i] = paid[i]
  <2>1. paid[j] = NoPayment
    BY DEF IInv, PaidOutOnce, PaidOnce, Holding, Undecided, InProgress, Closed
  <2>2. paid[j].creator = 0 /\ paid[j].provider = 0 /\ paid[j].treasury = 0
    BY <2>1 DEF NoPayment
  <2>3. shares = [creator |-> 0 + shares.creator, provider |-> 0 + shares.provider,
                  treasury |-> 0 + shares.treasury]
    BY DEF Shares
  <2> QED  BY <2>2, <2>3 DEF PayOut, IInv, TypeOK
<1>4. /\ bal' = Disburse(j, shares) /\ bal[Escrow] >= SumOf(shares)
      /\ fees' = [fees EXCEPT ![treasury] = @ + shares.treasury]
  BY DEF PayOut, SumOf
<1>5. /\ bal'[Escrow] >= bal[Escrow] - job[j].price
      /\ \A a \in Wallets : bal'[a] =
           bal[a] + ShareOf(a, j, shares) + (IF treasury = a THEN shares.treasury ELSE 0)
  BY <1>1, <1>4, DisburseType
<1>6. Owing' = [Owing EXCEPT ![j] = 0] /\ Owing[j] = job[j].price
  BY <1>2 DEF Owing, Owed, Holding, Undecided, InProgress, Closed
<1>7. SolvencyInv'
  <2>1. PICK n \in Nat : SumIs(Owing, n) /\ n <= bal[Escrow]  BY DEF BooksInv, SolvencyInv
  <2>2. job[j].price <= n /\ SumIs(Owing', n - job[j].price + 0)
    BY <1>6, <2>1, MoneyTypes, SumChanges
  <2>3. bal[Escrow] \in Nat /\ bal'[Escrow] \in Nat  BY DEF IInv, TypeOK, Accounts
  <2>4. n - job[j].price + 0 \in Nat /\ n - job[j].price + 0 <= bal'[Escrow]
    BY <1>1, <1>5, <2>1, <2>2, <2>3
  <2> QED  BY <2>2, <2>4 DEF SolvencyInv, SumIs
<1>8. ASSUME NEW a \in Wallets PROVE LedgerOf(a)'
  <2>1. PICK d, r \in Nat : /\ SumIs(Deposits(a), d) /\ SumIs(Receipts(a), r)
                            /\ bal[a] + d = InitialBalance + fees[a] + r
    BY DEF BooksInv, LedgerOf
  <2>2. Deposits(a)' = Deposits(a)
    <3>1. Deposit(a, j)' = Deposit(a, j)  BY <1>2 DEF Deposit, Funded
    <3>2. \A i \in JobIds \ {j} : Deposit(a, i)' = Deposit(a, i)  BY <1>2 DEF Deposit
    <3> QED  BY <3>1, <3>2 DEF Deposits
  <2> DEFINE m == ShareOf(a, j, shares)
  <2>3. m \in Nat  BY <1>1 DEF ShareOf
  <2>4. Receipts(a)' = [Receipts(a) EXCEPT ![j] = m] /\ Receipts(a)[j] = 0
    <3>1. Receipt(a, j) = 0
      BY NoReceipt DEF Holding, Undecided, InProgress, Closed
    <3>2. Receipt(a, j)' = m  BY <1>2, <1>3 DEF Receipt, ShareOf
    <3>3. \A i \in JobIds \ {j} : Receipt(a, i)' = Receipt(a, i)  BY <1>2, <1>3 DEF Receipt
    <3> HIDE DEF m
    <3> QED  BY <3>1, <3>2, <3>3 DEF Receipts
  <2>5. /\ bal'[a] = bal[a] + m + (IF treasury = a THEN shares.treasury ELSE 0)
        /\ fees'[a] = fees[a] + (IF treasury = a THEN shares.treasury ELSE 0)
    BY <1>1, <1>4, <1>5 DEF TypeOK, Accounts
  <2> HIDE DEF m
  <2>6. SumIs(Receipts(a)', r - 0 + m)
    BY <2>1, <2>3, <2>4, MoneyTypes, SumChanges
  <2>7. r - 0 + m \in Nat /\ bal'[a] + d = InitialBalance + fees'[a] + (r - 0 + m)
    BY <1>1, <2>1, <2>3, <2>5, MoneyTypes
  <2> QED  BY <2>1, <2>2, <2>6, <2>7 DEF LedgerOf, SumIs
<1> QED  BY <1>7, <1>8 DEF BooksInv

LEMMA StepBooks == IInv /\ IInv' /\ BooksInv /\ [Next]_vars => BooksInv'
<1> SUFFICES ASSUME IInv, IInv', BooksInv, [Next]_vars PROVE BooksInv'  OBVIOUS
<1>0. TypeOK /\ \A j \in JobIds : job[j] \in Job  BY DEF IInv, TypeOK
<1>1. ASSUME NEW j \in JobIds, Relayer(j) \/ Party(j) PROVE BooksInv'
  <2> USE DEF Holding, Undecided, InProgress, Closed
  <2>1. ASSUME NEW creator, NEW terms, NEW lo, NEW hi, NEW window,
               PostJob(j, creator, terms, lo, hi, window)
        PROVE  BooksInv'
    BY <1>0, <2>1, RecordBooks DEF PostJob, PostedJob
  <2>2. CASE CancelBeforeFunding(j)
    BY <1>0, <2>2, RecordBooks DEF CancelBeforeFunding, Job
  <2>3. CASE MarkExecuting(j)
    BY <1>0, <2>3, RecordBooks DEF MarkExecuting, Job
  <2>4. ASSUME NEW artifact, SubmitDeliverable(j, artifact) PROVE BooksInv'
    <3> DEFINE record == [job[j] EXCEPT !.status = "DELIVERED", !.artifact = artifact]
    <3>1. job' = [job EXCEPT ![j] = record] /\ UNCHANGED <<bal, fees, paid>>
      BY <1>0, <2>4 DEF SubmitDeliverable, TypeOK
    <3>2. /\ record.status = "DELIVERED" /\ record.creator = job[j].creator
          /\ record.price = job[j].price
      BY <1>0 DEF Job
    <3> HIDE DEF record
    <3> QED  BY <1>0, <2>4, <3>1, <3>2, RecordBooks DEF SubmitDeliverable
  <2>5. CASE Party(j)
    BY <1>0, <2>5, RecordBooks DEF Party, RaiseDispute, Job
  <2> QED  BY <1>1, <2>1, <2>2, <2>3, <2>4, <2>5, FundBooks DEF Relayer
<1>4. ASSUME NEW j \in JobIds, NEW accepted \in BOOLEAN, SubmitVerdict(j, accepted)
      PROVE  BooksInv'
  <2>1. /\ job[j].status \in Holding /\ job[j].price \in Nat
        /\ job[j].bps \in 0..MaxCommissionBps
    BY <1>0, <1>4, JobNumbers DEF SubmitVerdict, Holding, Undecided
  <2>2. PICK c \in 0..job[j].price : c = Commission(job[j].price, job[j].bps)
    BY <2>1, CommissionBound
  <2>3. /\ RefundOf(job[j].price) \in Shares /\ SumOf(RefundOf(job[j].price)) = job[j].price
        /\ SettlementOf(job[j].price, job[j].bps) \in Shares
        /\ SumOf(SettlementOf(job[j].price, job[j].bps)) = job[j].price
    BY <2>1, <2>2 DEF RefundOf, SettlementOf, Shares, SumOf
  <2> QED  BY <1>4, <2>1, <2>3, OutcomeBooks DEF SubmitVerdict, Closed
<1>5. ASSUME NEW j \in JobIds, ClaimTimeoutRefund(j) PROVE BooksInv'
  <2>1. job[j].status \in Holding /\ job[j].price \in Nat
    BY <1>0, <1>5, JobNumbers DEF ClaimTimeoutRefund, RefundClaimable, Holding, Undecided
  <2>2. RefundOf(job[j].price) \in Shares /\ SumOf(RefundOf(job[j].price)) = job[j].price
    BY <2>1 DEF RefundOf, Shares, SumOf
  <2> QED  BY <1>5, <2>1, <2>2, OutcomeBooks DEF ClaimTimeoutRefund, Closed
<1>6. ASSUME NEW j \in JobIds, NEW toProvider \in 0..job[j].price, NEW toCreator \in 0..job[j].price,
             ResolveDispute(j, toProvider, toCreator)
      PROVE  BooksInv'
  <2> DEFINE shares == [creator |-> toCreator, provider |-> toProvider, treasury |-> 0]
  <2>1. job[j].status \in Holding /\ shares \in Shares /\ SumOf(shares) = job[j].price
    BY <1>6 DEF ResolveDispute, Holding, Shares, SumOf
  <2>2. PayOut(j, "SETTLED", shares)  BY <1>6 DEF ResolveDispute
  <2> QED  BY <2>1, <2>2, OutcomeBooks DEF Closed
<1>7. CASE Admin \/ Tick \/ UNCHANGED vars
  <2>1. UNCHANGED <<job, bal, fees, paid>>
    BY <1>7 DEF Admin, SetCommissionBps, SetTreasury, Pause, Unpause, Tick, vars
  <2> QED
    BY <2>1, BooksKept DEF Owing, Owed, Deposits, Deposit, Receipts, Receipt
<1> QED
  BY <1>1, <1>4, <1>5, <1>6, <1>7 DEF Next, Verifier, Arbiter

LEMMA BooksInvariance == Spec => []BooksInv
<1>1. Init => BooksInv
  <2> SUFFICES ASSUME Init PROVE BooksInv  OBVIOUS
  <2>1. \A j \in JobIds : job[j] = BlankJob /\ paid[j] = NoPayment  BY DEF Init
  <2>2. SumIs(Owing, 0)
    BY <2>1, SumOfZeros DEF Owing, Owed, BlankJob, Holding, Undecided, InProgress
  <2>3. SolvencyInv  BY <2>2 DEF Init, Accounts, SolvencyInv
  <2>4. ASSUME NEW a \in Wallets PROVE LedgerOf(a)
    <3>1. SumIs(Deposits(a), 0)
      BY <2>1, SumOfZeros
      DEF Deposits, Deposit, BlankJob, Funded, Holding, Undecided, InProgress, Closed
    <3>2. SumIs(Receipts(a), 0)
      BY <2>1, SumOfZeros DEF Receipts, Receipt, NoPayment
    <3>3. bal[a] + 0 = InitialBalance + fees[a] + 0
      BY AccountsAssumption, NumbersAssumption DEF Init, Accounts
    <3> QED  BY <3>1, <3>2, <3>3 DEF LedgerOf
  <2> QED  BY <2>3, <2>4 DEF BooksInv
<1>2. IInv /\ IInv' /\ BooksInv /\ [Next]_vars => BooksInv'  BY StepBooks
<1> QED  BY <1>1, <1>2, Invariance, PTL DEF Spec

\* The escrow can pay every job it still holds: no outcome of one job draws on
\* the money of another, whatever the number of jobs and their prices.
THEOREM EscrowSolvent == Spec => []Solvent
<1>1. IInv /\ BooksInv => Solvent
  BY MoneyTypes DEF BooksInv, SolvencyInv, SumIs, Solvent, OwedUnits, Owing
<1> QED  BY <1>1, Invariance, BooksInvariance, PTL

\* No wallet's money is lost or minted: what it has is what it began with, less its
\* deposits, plus what the events say it was paid.
THEOREM LedgerAlwaysExplained == Spec => []LedgerExplained
<1>1. IInv /\ BooksInv => LedgerExplained
  <2> SUFFICES ASSUME IInv, BooksInv, NEW a \in Wallets
               PROVE  bal[a] + Deposited(a) = InitialBalance + Received(a)
    BY DEF LedgerExplained
  <2>1. PICK d, r \in Nat : /\ SumIs(Deposits(a), d) /\ SumIs(Receipts(a), r)
                            /\ bal[a] + d = InitialBalance + fees[a] + r
    BY DEF BooksInv, LedgerOf
  <2>2. Deposited(a) = d /\ Received(a) = fees[a] + r
    BY <2>1 DEF Deposited, Received, SumIs, Deposits, Receipts
  <2>3. bal[a] \in Nat /\ fees[a] \in Nat  BY MoneyTypes
  <2> QED  BY <2>1, <2>2, <2>3, NumbersAssumption
<1> QED  BY <1>1, Invariance, BooksInvariance, PTL

-----------------------------------------------------------------------------
(* The contract implements the abstract escrow.                            *)

LEMMA InitPromise == Init => Promise!Init
BY DEF Init, BlankJob, NoPayment, PhaseOf, DealOf, Funded, Holding, Undecided, InProgress, Closed,
   Promise!Init, Promise!NoDeal, Promise!NoShares

\* A step of one job whose phase and deal stay the same is a stutter.
LEMMA AbstractStutter ==
  ASSUME TypeOK, NEW j \in JobIds, NEW record, job' = [job EXCEPT ![j] = record],
         PhaseOf(record.status) = PhaseOf(job[j].status), DealOf(record) = DealOf(job[j]),
         UNCHANGED paid
  PROVE  UNCHANGED Promise!pvars
<1>1. \A i \in JobIds : PhaseOf(job'[i].status) = PhaseOf(job[i].status)
  BY DEF TypeOK
<1>2. \A i \in JobIds : DealOf(job'[i]) = DealOf(job[i])
  BY DEF TypeOK
<1> QED  BY <1>1, <1>2 DEF Promise!pvars

\* An outcome is the abstract step in which the money goes out.
LEMMA OutcomeGoesOut ==
  ASSUME IInv, NEW j \in JobIds, NEW status \in Closed, NEW shares \in Shares,
         job[j].status \in Holding, PayOut(j, status, shares),
         SumOf(shares) = job[j].price,
         shares.treasury * BpsDenominator <= job[j].price * MaxCommissionBps,
         IF job[j].status = "DISPUTED" THEN shares.treasury = 0
         ELSE shares.creator = 0 \/ shares.provider + shares.treasury = 0
  PROVE  Promise!GoOut(j)
<1> DEFINE record == [job[j] EXCEPT !.status = status]
<1>1. /\ TypeOK /\ job[j] \in Job /\ job[j].price \in Nat
      /\ job' = [job EXCEPT ![j] = record]
  BY JobNumbers DEF IInv, PayOut
<1>2. /\ PhaseOf(record.status) = "closed" /\ DealOf(record) = DealOf(job[j])
      /\ DealOf(job[j]).amount = job[j].price
      /\ PhaseOf(job[j].status) = IF job[j].status = "DISPUTED" THEN "contested" ELSE "held"
  BY <1>1 DEF PhaseOf, DealOf, Funded, Holding, Undecided, InProgress, Closed, Job
<1> HIDE DEF record
<1>3. /\ [i \in JobIds |-> PhaseOf(job'[i].status)] =
           [[i \in JobIds |-> PhaseOf(job[i].status)] EXCEPT ![j] = "closed"]
      /\ [i \in JobIds |-> DealOf(job'[i])] = [i \in JobIds |-> DealOf(job[i])]
  BY <1>1, <1>2 DEF TypeOK
<1>4. paid' = [paid EXCEPT ![j] = shares]
  <2>1. paid[j] = NoPayment
    BY DEF IInv, PaidOutOnce, PaidOnce, Holding, Undecided, InProgress, Closed
  <2>2. paid[j].creator = 0 /\ paid[j].provider = 0 /\ paid[j].treasury = 0
    BY <2>1 DEF NoPayment
  <2>3. shares = [creator |-> 0 + shares.creator, provider |-> 0 + shares.provider,
                  treasury |-> 0 + shares.treasury]
    BY DEF Shares
  <2> QED  BY <2>2, <2>3, <1>1 DEF PayOut, TypeOK
<1>5. /\ shares.creator \in 0..job[j].price /\ shares.provider \in 0..job[j].price
      /\ shares.treasury \in 0..job[j].price
      /\ shares.creator + shares.provider + shares.treasury = job[j].price
      /\ shares = [creator |-> shares.creator, provider |-> shares.provider,
                   treasury |-> shares.treasury]
  BY <1>1 DEF Shares, SumOf
<1> QED  BY <1>2, <1>3, <1>4, <1>5 DEF Promise!GoOut

LEMMA StepPromise == IInv /\ [Next]_vars => [Promise!Next]_(Promise!pvars)
<1> SUFFICES ASSUME IInv, [Next]_vars PROVE Promise!Next \/ UNCHANGED Promise!pvars
  OBVIOUS
<1>0. TypeOK  BY DEF IInv
<1>1. ASSUME NEW j \in JobIds, NEW creator \in Wallets, NEW terms \in Terms,
             NEW lo \in Prices, NEW hi \in Prices, NEW window \in Windows,
             PostJob(j, creator, terms, lo, hi, window)
      PROVE  UNCHANGED Promise!pvars
  BY <1>0, <1>1, AbstractStutter
  DEF PostJob, PostedJob, PhaseOf, DealOf, Funded, Holding, Undecided, InProgress, Closed
<1>2. ASSUME NEW j \in JobIds, CancelBeforeFunding(j) PROVE Promise!Withdraw(j)
  <2> DEFINE record == [job[j] EXCEPT !.status = "CANCELLED"]
  <2>1. job' = [job EXCEPT ![j] = record] /\ UNCHANGED paid /\ job[j].status = "POSTED"
    BY <1>2 DEF CancelBeforeFunding
  <2>2. record.status = "CANCELLED"  BY <1>0 DEF TypeOK, Job
  <2>3. /\ PhaseOf(record.status) = "withdrawn" /\ PhaseOf(job[j].status) = "open"
        /\ DealOf(record) = DealOf(job[j])
    BY <2>1, <2>2 DEF PhaseOf, DealOf, Funded, Holding, Undecided, InProgress, Closed
  <2> HIDE DEF record
  <2>4. /\ [i \in JobIds |-> PhaseOf(job'[i].status)] =
             [[i \in JobIds |-> PhaseOf(job[i].status)] EXCEPT ![j] = "withdrawn"]
        /\ [i \in JobIds |-> DealOf(job'[i])] = [i \in JobIds |-> DealOf(job[i])]
    BY <1>0, <2>1, <2>3 DEF TypeOK
  <2> QED  BY <2>1, <2>3, <2>4 DEF Promise!Withdraw
<1>3. ASSUME NEW j \in JobIds, NEW agreement \in SignedAgreements, NEW auth \in Authorizations,
             FundWithAuthorization(j, agreement, auth)
      PROVE  Promise!ComeIn(j)
  <2> DEFINE record == [job[j] EXCEPT !.status = "ESCROWED", !.provider = agreement.provider,
               !.price = agreement.price, !.deadline = now + job[j].window,
               !.bps = commissionBps]
  <2>1. job' = [job EXCEPT ![j] = record] /\ UNCHANGED paid /\ job[j].status = "POSTED"
    BY <1>3 DEF FundWithAuthorization
  <2>2. /\ record.status = "ESCROWED" /\ record.creator = job[j].creator
        /\ record.provider = agreement.provider /\ record.price = agreement.price
    BY <1>0 DEF TypeOK, Job
  <2>3. agreement \in Agreement  BY SignedTyped
  <2>4. /\ job[j].creator \in Wallets /\ agreement.provider \in Wallets
        /\ job[j].creator # agreement.provider /\ agreement.price \in Prices
    BY <1>3, <2>1, <2>3
    DEF IInv, PartiesKnown, Agreement, FundWithAuthorization, AgreementFits
  <2>5. /\ PhaseOf(record.status) = "held" /\ PhaseOf(job[j].status) = "open"
        /\ DealOf(record) = [creator |-> job[j].creator, provider |-> agreement.provider,
                             amount |-> agreement.price]
    BY <2>1, <2>2 DEF PhaseOf, DealOf, Funded, Holding, Undecided, InProgress, Closed
  <2> HIDE DEF record
  <2>6. /\ [i \in JobIds |-> PhaseOf(job'[i].status)] =
             [[i \in JobIds |-> PhaseOf(job[i].status)] EXCEPT ![j] = "held"]
        /\ [i \in JobIds |-> DealOf(job'[i])] =
             [[i \in JobIds |-> DealOf(job[i])] EXCEPT ![j] =
                [creator |-> job[j].creator, provider |-> agreement.provider,
                 amount |-> agreement.price]]
    BY <1>0, <2>1, <2>5 DEF TypeOK
  <2>7. [i \in JobIds |-> PhaseOf(job[i].status)][j] = "open"  BY <2>5
  <2>8. \E c, p \in Wallets, n \in Prices :
          /\ c # p
          /\ [i \in JobIds |-> DealOf(job'[i])] =
               [[i \in JobIds |-> DealOf(job[i])] EXCEPT ![j] =
                  [creator |-> c, provider |-> p, amount |-> n]]
    BY <2>4, <2>6
  <2> QED  BY <2>1, <2>6, <2>7, <2>8 DEF Promise!ComeIn
<1>4. ASSUME NEW j \in JobIds,
             MarkExecuting(j) \/ \E artifact \in Artifacts : SubmitDeliverable(j, artifact)
      PROVE  UNCHANGED Promise!pvars
  <2>1. PICK record : /\ job' = [job EXCEPT ![j] = record] /\ UNCHANGED paid
                      /\ record.status \in {"EXECUTING", "DELIVERED"}
                      /\ record.creator = job[j].creator /\ record.provider = job[j].provider
                      /\ record.price = job[j].price
    BY <1>4, <1>0 DEF MarkExecuting, SubmitDeliverable, TypeOK, Job
  <2>2. job[j].status \in InProgress
    BY <1>4 DEF MarkExecuting, SubmitDeliverable, InProgress
  <2>3. PhaseOf(record.status) = PhaseOf(job[j].status) /\ DealOf(record) = DealOf(job[j])
    BY <2>1, <2>2 DEF PhaseOf, DealOf, Funded, Holding, Undecided, InProgress, Closed
  <2> QED  BY <1>0, <2>1, <2>3, AbstractStutter
<1>5. ASSUME NEW j \in JobIds, NEW accepted \in BOOLEAN, SubmitVerdict(j, accepted)
      PROVE  Promise!GoOut(j)
  <2>1. /\ job[j].status \in Holding /\ job[j].status # "DISPUTED" /\ job[j].price \in Nat
        /\ job[j].bps \in 0..MaxCommissionBps
    BY <1>0, <1>5, JobNumbers DEF SubmitVerdict, Holding, Undecided
  <2> DEFINE refund == RefundOf(job[j].price)
             settlement == SettlementOf(job[j].price, job[j].bps)
             c == Commission(job[j].price, job[j].bps)
  <2>2. c \in 0..job[j].price /\ c * BpsDenominator <= job[j].price * MaxCommissionBps
    BY <2>1, CommissionBound
  <2>3. 0 * BpsDenominator <= job[j].price * MaxCommissionBps
    <3>1. job[j].price * MaxCommissionBps \in Nat  BY <2>1, NumbersAssumption
    <3>2. 0 * BpsDenominator = 0  BY NumbersAssumption
    <3> QED  BY <3>1, <3>2
  <2>4. CASE ~accepted
    <3>1. /\ refund \in Shares /\ SumOf(refund) = job[j].price /\ refund.treasury = 0
          /\ refund.provider + refund.treasury = 0
      BY <2>1 DEF RefundOf, Shares, SumOf
    <3> HIDE DEF refund
    <3>2. PayOut(j, "REFUNDED", refund)  BY <1>5, <2>4 DEF SubmitVerdict, refund
    <3> QED  BY <2>1, <2>3, <3>1, <3>2, OutcomeGoesOut DEF Closed
  <2>5. CASE accepted
    <3> HIDE DEF c
    <3>1. settlement = [creator |-> 0, provider |-> job[j].price - c, treasury |-> c]
      BY DEF SettlementOf, c
    <3> HIDE DEF settlement
    <3>2. /\ settlement \in Shares /\ SumOf(settlement) = job[j].price
          /\ settlement.treasury = c /\ settlement.creator = 0
      BY <2>1, <2>2, <3>1 DEF Shares, SumOf
    <3>3. PayOut(j, "SETTLED", settlement)  BY <1>5, <2>5 DEF SubmitVerdict, settlement
    <3> QED  BY <2>1, <2>2, <3>2, <3>3, OutcomeGoesOut DEF Closed
  <2> QED  BY <2>4, <2>5
<1>6. ASSUME NEW j \in JobIds, ClaimTimeoutRefund(j) PROVE Promise!GoOut(j)
  <2> DEFINE refund == RefundOf(job[j].price)
  <2>1. job[j].status \in Holding /\ job[j].status # "DISPUTED" /\ job[j].price \in Nat
    BY <1>0, <1>6, JobNumbers
    DEF ClaimTimeoutRefund, RefundClaimable, Holding, Undecided, InProgress
  <2>2. 0 * BpsDenominator <= job[j].price * MaxCommissionBps
    <3>1. job[j].price * MaxCommissionBps \in Nat  BY <2>1, NumbersAssumption
    <3>2. 0 * BpsDenominator = 0  BY NumbersAssumption
    <3> QED  BY <3>1, <3>2
  <2>3. /\ refund \in Shares /\ SumOf(refund) = job[j].price /\ refund.treasury = 0
        /\ refund.provider + refund.treasury = 0
    BY <2>1 DEF RefundOf, Shares, SumOf
  <2> HIDE DEF refund
  <2>4. PayOut(j, "REFUNDED", refund)  BY <1>6 DEF ClaimTimeoutRefund, refund
  <2> QED  BY <2>1, <2>2, <2>3, <2>4, OutcomeGoesOut DEF Closed
<1>7. ASSUME NEW j \in JobIds, Party(j) PROVE Promise!Contest(j)
  <2> DEFINE record == [job[j] EXCEPT !.status = "DISPUTED"]
  <2>1. job' = [job EXCEPT ![j] = record] /\ UNCHANGED paid /\ job[j].status \in Undecided
    BY <1>7 DEF Party, RaiseDispute
  <2>2. /\ record.status = "DISPUTED" /\ record.creator = job[j].creator
        /\ record.provider = job[j].provider /\ record.price = job[j].price
    BY <1>0 DEF TypeOK, Job
  <2>3. /\ PhaseOf(record.status) = "contested" /\ PhaseOf(job[j].status) = "held"
        /\ DealOf(record) = DealOf(job[j])
    BY <2>1, <2>2 DEF PhaseOf, DealOf, Funded, Holding, Undecided, InProgress, Closed
  <2> HIDE DEF record
  <2>4. /\ [i \in JobIds |-> PhaseOf(job'[i].status)] =
             [[i \in JobIds |-> PhaseOf(job[i].status)] EXCEPT ![j] = "contested"]
        /\ [i \in JobIds |-> DealOf(job'[i])] = [i \in JobIds |-> DealOf(job[i])]
    BY <1>0, <2>1, <2>3 DEF TypeOK
  <2> QED  BY <2>1, <2>3, <2>4 DEF Promise!Contest
<1>8. ASSUME NEW j \in JobIds, NEW toProvider \in 0..job[j].price, NEW toCreator \in 0..job[j].price,
             ResolveDispute(j, toProvider, toCreator)
      PROVE  Promise!GoOut(j)
  <2> DEFINE shares == [creator |-> toCreator, provider |-> toProvider, treasury |-> 0]
  <2>1. /\ job[j].status \in Holding /\ job[j].status = "DISPUTED" /\ job[j].price \in Nat
        /\ shares \in Shares /\ SumOf(shares) = job[j].price /\ shares.treasury = 0
    BY <1>0, <1>8, JobNumbers DEF ResolveDispute, Holding, Shares, SumOf
  <2>2. 0 * BpsDenominator <= job[j].price * MaxCommissionBps
    <3>1. job[j].price * MaxCommissionBps \in Nat  BY <2>1, NumbersAssumption
    <3>2. 0 * BpsDenominator = 0  BY NumbersAssumption
    <3> QED  BY <3>1, <3>2
  <2>3. PayOut(j, "SETTLED", shares)  BY <1>8 DEF ResolveDispute
  <2> HIDE DEF shares
  <2> QED  BY <2>1, <2>2, <2>3, OutcomeGoesOut DEF Closed
<1>9. CASE Admin \/ Tick \/ UNCHANGED vars
  <2>1. job' = job /\ paid' = paid
    BY <1>9 DEF Admin, SetCommissionBps, SetTreasury, Pause, Unpause, Tick, vars
  <2> QED  BY <2>1 DEF Promise!pvars
<1>10. ASSUME NEW j \in JobIds, Relayer(j) PROVE Promise!Next \/ UNCHANGED Promise!pvars
  BY <1>1, <1>2, <1>3, <1>4, <1>10 DEF Relayer, Promise!Next
<1> QED
  BY <1>5, <1>6, <1>7, <1>8, <1>9, <1>10 DEF Next, Verifier, Arbiter, Promise!Next

\* The contract implements the abstract escrow: for every job the money comes
\* in once and goes out once, wholly, to the parties fixed at funding.
THEOREM ContractKeepsPromise == Spec => KeepsPromise
<1>1. Init => Promise!Init  BY InitPromise
<1>2. IInv /\ [Next]_vars => [Promise!Next]_(Promise!pvars)  BY StepPromise
<1> QED  BY <1>1, <1>2, Invariance, PTL DEF Spec, KeepsPromise, Promise!Spec

-----------------------------------------------------------------------------
(* Every funded job rests on an agreement, and was paid for by an          *)
(* authorization of its own: as many are spent as jobs are funded.         *)

FundedOnes == {j \in JobIds : job[j].status \in Funded}

SignedFor(j) ==
  \E agreement \in SignedAgreements, auth \in Authorizations :
    /\ agreement.jobId = j /\ agreement.terms = job[j].terms
    /\ agreement.provider = job[j].provider
    /\ agreement.provider # job[j].creator
    /\ agreement.price = job[j].price /\ agreement.window = job[j].window
    /\ job[j].price \in job[j].budgetMin..job[j].budgetMax
    /\ auth.from = job[j].creator /\ auth.to = Escrow /\ auth.value = job[j].price
    /\ <<auth.from, auth.nonce>> \in usedAuth

SignedInv ==
  /\ \A j \in FundedOnes : SignedFor(j)
  /\ IsFiniteSet(FundedOnes) /\ IsFiniteSet(usedAuth)
  /\ Cardinality(usedAuth) = Cardinality(FundedOnes)

\* What an agreement and an authorization vouch for.
SameSigned(i) ==
  /\ job'[i].terms = job[i].terms /\ job'[i].window = job[i].window
  /\ job'[i].creator = job[i].creator /\ job'[i].provider = job[i].provider
  /\ job'[i].price = job[i].price
  /\ job'[i].budgetMin = job[i].budgetMin /\ job'[i].budgetMax = job[i].budgetMax

\* A step that funds nothing and changes nothing that was signed.
LEMMA NothingFunded ==
  ASSUME SignedInv, UNCHANGED usedAuth,
         \A i \in JobIds : /\ job'[i].status \in Funded <=> job[i].status \in Funded
                           /\ job[i].status \in Funded => SameSigned(i)
  PROVE  SignedInv'
<1>1. FundedOnes' = FundedOnes  BY DEF FundedOnes
<1>2. ASSUME NEW i \in FundedOnes PROVE SignedFor(i)'
  <2>1. SignedFor(i) /\ SameSigned(i)  BY <1>2 DEF SignedInv, FundedOnes
  <2> QED  BY <2>1 DEF SignedFor, SameSigned
<1> QED  BY <1>1, <1>2 DEF SignedInv

\* A step that changes one job only, and of it only what nobody signs.
LEMMA OneJobMoves ==
  ASSUME SignedInv, TypeOK, UNCHANGED usedAuth, NEW j \in JobIds, NEW record,
         job' = [job EXCEPT ![j] = record],
         record.status \in Funded <=> job[j].status \in Funded,
         job[j].status \in Funded =>
           /\ record.terms = job[j].terms /\ record.window = job[j].window
           /\ record.creator = job[j].creator /\ record.provider = job[j].provider
           /\ record.price = job[j].price
           /\ record.budgetMin = job[j].budgetMin /\ record.budgetMax = job[j].budgetMax
  PROVE  SignedInv'
<1> SUFFICES ASSUME NEW i \in JobIds
             PROVE  /\ job'[i].status \in Funded <=> job[i].status \in Funded
                    /\ job[i].status \in Funded => SameSigned(i)
  BY NothingFunded
<1>1. CASE i = j  BY <1>1 DEF TypeOK, SameSigned
<1>2. CASE i # j  BY <1>2 DEF TypeOK, SameSigned
<1> QED  BY <1>1, <1>2

\* Funding spends an authorization that was fresh.
LEMMA OneJobFunded ==
  ASSUME SignedInv, TypeOK, NEW j \in JobIds,
         NEW agreement \in SignedAgreements, NEW auth \in Authorizations,
         FundWithAuthorization(j, agreement, auth)
  PROVE  SignedInv'
<1> DEFINE spent == <<auth.from, auth.nonce>>
<1>0. job[j] \in Job /\ job[j].status = "POSTED"
  BY DEF TypeOK, FundWithAuthorization
<1>1. /\ job'[j].status = "ESCROWED" /\ job'[j].provider = agreement.provider
      /\ job'[j].price = agreement.price /\ job'[j].creator = job[j].creator
      /\ job'[j].terms = job[j].terms /\ job'[j].window = job[j].window
      /\ job'[j].budgetMin = job[j].budgetMin /\ job'[j].budgetMax = job[j].budgetMax
  BY <1>0 DEF FundWithAuthorization, TypeOK, Job
<1>2. \A i \in JobIds : i # j => job'[i] = job[i]
  BY DEF FundWithAuthorization, TypeOK
<1>3. usedAuth' = usedAuth \cup {spent} /\ spent \notin usedAuth
  BY DEF FundWithAuthorization, Spendable
<1>4. FundedOnes' = FundedOnes \cup {j} /\ j \notin FundedOnes
  BY <1>0, <1>1, <1>2 DEF FundedOnes, Funded, Holding, Undecided, InProgress, Closed
<1>5. SignedFor(j)'
  BY <1>1, <1>3
  DEF SignedFor, FundWithAuthorization, AgreementFits, AuthorizationFits
<1>6. ASSUME NEW i \in FundedOnes PROVE SignedFor(i)'
  <2>1. SignedFor(i) /\ job'[i] = job[i]  BY <1>2, <1>4, <1>6 DEF SignedInv, FundedOnes
  <2> QED  BY <2>1, <1>3 DEF SignedFor
<1>7. /\ IsFiniteSet(FundedOnes') /\ IsFiniteSet(usedAuth')
      /\ Cardinality(FundedOnes') = Cardinality(FundedOnes) + 1
      /\ Cardinality(usedAuth') = Cardinality(usedAuth) + 1
  <2> HIDE DEF spent
  <2> QED  BY <1>3, <1>4, FS_AddElement DEF SignedInv
<1> QED  BY <1>4, <1>5, <1>6, <1>7 DEF SignedInv

LEMMA StepSigned == IInv /\ SignedInv /\ [Next]_vars => SignedInv'
<1> SUFFICES ASSUME IInv, SignedInv, [Next]_vars PROVE SignedInv'  OBVIOUS
<1> USE DEF Funded, Holding, Undecided, InProgress, Closed
<1>0. TypeOK /\ \A j \in JobIds : job[j] \in Job  BY DEF IInv, TypeOK
<1>1. ASSUME NEW j \in JobIds, Relayer(j) PROVE SignedInv'
  <2>1. ASSUME NEW creator, NEW terms, NEW lo, NEW hi, NEW window,
               PostJob(j, creator, terms, lo, hi, window)
        PROVE  SignedInv'
    BY <1>0, <2>1, OneJobMoves DEF PostJob, PostedJob
  <2>2. CASE CancelBeforeFunding(j)
    BY <1>0, <2>2, OneJobMoves DEF CancelBeforeFunding, Job
  <2>3. CASE MarkExecuting(j)
    BY <1>0, <2>3, OneJobMoves DEF MarkExecuting, Job
  <2>4. ASSUME NEW artifact, SubmitDeliverable(j, artifact) PROVE SignedInv'
    <3> DEFINE record == [job[j] EXCEPT !.status = "DELIVERED", !.artifact = artifact]
    <3>1. job' = [job EXCEPT ![j] = record]  BY <1>0, <2>4 DEF SubmitDeliverable, TypeOK
    <3>2. /\ record.status = "DELIVERED" /\ record.terms = job[j].terms
          /\ record.window = job[j].window /\ record.creator = job[j].creator
          /\ record.provider = job[j].provider /\ record.price = job[j].price
          /\ record.budgetMin = job[j].budgetMin /\ record.budgetMax = job[j].budgetMax
      BY <1>0 DEF Job
    <3> HIDE DEF record
    <3> QED  BY <1>0, <2>4, <3>1, <3>2, OneJobMoves DEF SubmitDeliverable
  <2> QED  BY <1>0, <1>1, <2>1, <2>2, <2>3, <2>4, OneJobFunded DEF Relayer
<1>2. ASSUME NEW j \in JobIds, NEW status \in Closed, NEW shares,
             job[j].status \in Holding, PayOut(j, status, shares)
      PROVE  SignedInv'
  BY <1>0, <1>2, OneJobMoves DEF PayOut, Job
<1>3. ASSUME NEW j \in JobIds, Verifier(j) \/ ClaimTimeoutRefund(j) \/ Arbiter(j)
      PROVE  SignedInv'
  <2>1. job[j].status \in Holding /\ \E status \in Closed : \E shares : PayOut(j, status, shares)
    BY <1>3
    DEF Verifier, SubmitVerdict, ClaimTimeoutRefund, RefundClaimable, Arbiter, ResolveDispute
  <2> QED  BY <1>2, <2>1
<1>4. ASSUME NEW j \in JobIds, Party(j) PROVE SignedInv'
  BY <1>0, <1>4, OneJobMoves DEF Party, RaiseDispute, Job
<1>5. CASE Admin \/ Tick \/ UNCHANGED vars
  <2>1. job' = job /\ usedAuth' = usedAuth
    BY <1>5 DEF Admin, SetCommissionBps, SetTreasury, Pause, Unpause, Tick, vars
  <2> QED  BY <2>1, NothingFunded DEF SameSigned
<1> QED  BY <1>1, <1>3, <1>4, <1>5 DEF Next

\* However the relayer combines the agreements and authorizations it has, and
\* whomever it names as signers: a job is only funded out of its creator's wallet,
\* by an authorization to the escrow for exactly the price that no other job spent,
\* at a price within the posted budget and on one agreement about that job.
THEOREM FundedByAuthorization == Spec => []FundedAsSigned
<1>1. Init => SignedInv
  <2> SUFFICES ASSUME Init PROVE SignedInv  OBVIOUS
  <2>1. FundedOnes = {} /\ usedAuth = {}
    BY DEF Init, FundedOnes, BlankJob, Funded, Holding, Undecided, InProgress, Closed
  <2> QED  BY <2>1, FS_EmptySet DEF SignedInv
<1>2. IInv /\ SignedInv /\ [Next]_vars => SignedInv'  BY StepSigned
<1>3. SignedInv => FundedAsSigned  BY DEF SignedInv, SignedFor, FundedOnes, FundedAsSigned
<1> QED  BY <1>1, <1>2, <1>3, Invariance, PTL DEF Spec

-----------------------------------------------------------------------------
(* The marketplace: what threads and runs say.                             *)

SignedThreads == [state : {"signed"}, agreement : SignedAgreements]
StartedRuns == [state : {"QUEUED", "COMPLETED", "FAILED"}, job : JobIds, provider : Providers]

\* Run t of runs was started for job j.
StartedFor(t, j, runs) == runs[t] \in StartedRuns /\ runs[t].job = j

\* A completed run for job j produced the artifact.
Produced(j, artifact, runs) ==
  \E t \in Runs : StartedFor(t, j, runs) /\ runs[t].state = "COMPLETED" /\ Product[t] = artifact

-----------------------------------------------------------------------------
(* The inductive invariant.  A handler's copies may be stale; what stays    *)
(* true of them is what no later step of the chain, of a thread or of a    *)
(* training run can take back.                                             *)

\* What a handler that holds w may rely on.
Held(w, jobs, threads, runs) ==
  /\ w.step # "idle" => w.job \in JobIds
  /\ w.step = "posted" =>
       /\ w.status \in {"POSTED", "FAILED"}
       /\ w.status = "POSTED" => jobs[w.job].status # "NONE"
  /\ w.step \in {"opening", "negotiating"} => jobs[w.job].status # "NONE"
  /\ w.step \in {"opening", "refreshing", "funding", "funded", "queueing"} => w.provider \in Providers
  /\ w.step \in {"refreshing", "funding"} => w.auth \in Authorizations
  /\ w.step = "refreshing" => threads[w.job][w.provider] \in SignedThreads
  /\ w.step = "funding" => w.agreement \in SignedAgreements
  /\ w.step \in {"funded", "queueing", "queued", "delivered"} => jobs[w.job].status \in Funded
  /\ w.step = "queued" => w.run \in Runs /\ StartedFor(w.run, w.job, runs)
  /\ w.step \in {"delivering", "delivered"} => w.artifact \in Artifacts
  /\ w.step = "delivering" => Produced(w.job, w.artifact, runs)
  /\ w.step = "delivered" => jobs[w.job].artifact = w.artifact

\* What a row r of job j says is so on the chain, and its run is its own.
Backed(j, r, jobs, runs) ==
  /\ r.status \in {"POSTED", "NEGOTIATING"} => jobs[j].status # "NONE"
  /\ r.status \in {"ESCROWED", "EXECUTING", "DELIVERED"} => jobs[j].status \in Funded
  /\ r.status = "DELIVERED" => jobs[j].artifact # NoArtifact
  /\ r.artifact # NoArtifact => r.artifact = jobs[j].artifact
  /\ r.run # NoRun => StartedFor(r.run, j, runs)

HandlersSound ==
  DOMAIN work = Handlers /\ \A h \in Handlers : Held(work[h], job, thread, training)

RowsSound ==
  row \in [JobIds -> Row] /\ \A j \in JobIds : Backed(j, row[j], job, training)

ThreadsSound ==
  /\ thread \in [JobIds -> [Providers -> Threads]]
  /\ latest \in [JobIds -> Providers \cup {NoWallet}]
  /\ \A j \in JobIds : latest[j] # NoWallet => thread[j][latest[j]] \in SignedThreads

RunsSound ==
  training \in [Runs -> TrainingJobs] /\ WorkIsPaidFor

\* A deliverable is on the chain only past the steps that could replace it, and
\* a completed run for that job produced it.
Early == {"NONE", "POSTED", "ESCROWED", "EXECUTING"}

DeliverablesSound ==
  \A j \in JobIds : job[j].artifact # NoArtifact =>
    /\ job[j].status \notin Early
    /\ Produced(j, job[j].artifact, training)

MarketInv ==
  /\ IInv
  /\ HandlersSound /\ RowsSound /\ ThreadsSound /\ RunsSound /\ DeliverablesSound
  /\ faults \in 0..MaxFaults

-----------------------------------------------------------------------------
(* What never goes back.                                                   *)

ChainGrows ==
  \A j \in JobIds :
    /\ job[j].status # "NONE" => job'[j].status # "NONE"
    /\ job[j].status \in Funded => job'[j].status \in Funded
    /\ job[j].status \notin Early => job'[j].status \notin Early
    /\ job[j].artifact # NoArtifact => job'[j].artifact = job[j].artifact

ThreadsGrow ==
  \A j \in JobIds, p \in Providers :
    thread[j][p] \in SignedThreads => thread'[j][p] \in SignedThreads

RunsGrow ==
  \A t \in Runs : training[t] \in StartedRuns =>
    /\ training'[t] \in StartedRuns /\ training'[t].job = training[t].job
    /\ training[t].state = "COMPLETED" => training'[t] = training[t]

Grows == ChainGrows /\ ThreadsGrow /\ RunsGrow

ArtifactsKept == \A j \in JobIds : job'[j].artifact = job[j].artifact

\* The transactions of Marketplace other than a delivery.
QuietStep(i) ==
  \/ \E creator \in Wallets, terms \in Terms, lo, hi \in Prices, window \in Windows :
       PostJob(i, creator, terms, lo, hi, window)
  \/ CancelBeforeFunding(i)
  \/ \E agreement \in SignedAgreements, auth \in Authorizations :
       FundWithAuthorization(i, agreement, auth)
  \/ MarkExecuting(i) \/ ClaimTimeoutRefund(i) \/ Party(i)

\* They take no posting, funding or deliverable back and add no deliverable.
LEMMA QuietGrows ==
  ASSUME TypeOK, DeliverablesSound, NEW i \in JobIds, QuietStep(i)
  PROVE  ChainGrows /\ ArtifactsKept
<1> USE DEF ArtifactsKept, Early
<1>1. ASSUME NEW creator \in Wallets, NEW terms \in Terms,
             NEW lo \in Prices, NEW hi \in Prices, NEW window \in Windows,
             PostJob(i, creator, terms, lo, hi, window)
      PROVE  ChainGrows /\ ArtifactsKept
  <2>1. job[i].artifact = NoArtifact /\ job[i].status \notin Funded
    BY <1>1 DEF PostJob, DeliverablesSound, Funded, Holding, Undecided, InProgress, Closed
  <2>2. /\ PostedJob(creator, terms, lo, hi, window).status = "POSTED"
        /\ PostedJob(creator, terms, lo, hi, window).artifact = NoArtifact
    BY DEF PostedJob
  <2> QED  BY <1>1, <2>1, <2>2 DEF PostJob, TypeOK, ChainGrows
<1>2. CASE CancelBeforeFunding(i)
  BY <1>2
  DEF CancelBeforeFunding, TypeOK, Job, ChainGrows, Funded, Holding, Undecided, InProgress, Closed
<1>3. ASSUME NEW agreement \in SignedAgreements, NEW auth \in Authorizations,
             FundWithAuthorization(i, agreement, auth)
      PROVE  ChainGrows /\ ArtifactsKept
  BY <1>3
  DEF FundWithAuthorization, TypeOK, Job, ChainGrows, Funded, Holding, Undecided, InProgress, Closed
<1>4. CASE MarkExecuting(i)
  BY <1>4
  DEF MarkExecuting, TypeOK, Job, ChainGrows, Funded, Holding, Undecided, InProgress, Closed
<1>5. CASE ClaimTimeoutRefund(i)
  <2>1. job' = [job EXCEPT ![i].status = "REFUNDED"]
    BY <1>5 DEF ClaimTimeoutRefund, PayOut
  <2> QED  BY <2>1 DEF TypeOK, Job, ChainGrows, Funded, Closed
<1>6. CASE Party(i)
  <2>1. job' = [job EXCEPT ![i].status = "DISPUTED"]
    BY <1>6 DEF Party, RaiseDispute
  <2> QED  BY <2>1 DEF TypeOK, Job, ChainGrows, Funded, Holding
<1> QED  BY <1>1, <1>2, <1>3, <1>4, <1>5, <1>6 DEF QuietStep

\* A deliverable is committed once: the contract takes it only while the job is
\* in progress.
LEMMA DeliveryGrows ==
  ASSUME TypeOK, DeliverablesSound, NEW i \in JobIds, NEW artifact \in Artifacts,
         SubmitDeliverable(i, artifact)
  PROVE  /\ ChainGrows
         /\ job'[i].status = "DELIVERED" /\ job'[i].artifact = artifact
         /\ \A j \in JobIds : j # i => job'[j] = job[j]
<1>1. job[i].artifact = NoArtifact
  BY DEF SubmitDeliverable, DeliverablesSound, InProgress, Early
<1> QED
  BY <1>1
  DEF SubmitDeliverable, TypeOK, Job, ChainGrows, Funded, Holding, Undecided, InProgress, Early

-----------------------------------------------------------------------------
(* The chain, seen from the marketplace.                                   *)

\* Whatever the marketplace and its rivals do is a transaction the contract
\* allows, with the signatures that exist, or leaves the jobs alone; and only a
\* poll delivers.
Quiet == UNCHANGED chain \/ Tick \/ \E i \in JobIds : QuietStep(i)

Delivery(h) ==
  At(h, "delivering") /\ SubmitDeliverable(work[h].job, work[h].artifact)

LEMMA MarketStep ==
  ASSUME MarketInv, [MarketNext]_allVars
  PROVE  Quiet \/ \E h \in Handlers : RelayDeliverable(h) /\ Delivery(h)
<1> DEFINE Goal == Quiet \/ \E h \in Handlers : RelayDeliverable(h) /\ Delivery(h)
<1> USE DEF MarketInv
<1>1. ASSUME NEW h \in Handlers, RelayPost(h) PROVE Quiet
  <2> DEFINE j == work[h].job
             d == Draft[j]
  <2>1. j \in JobIds
    BY <1>1 DEF RelayPost, At, HandlersSound, Held
  <2>2. /\ d.creator \in Wallets /\ d.terms \in Terms /\ d.lo \in Prices
        /\ d.hi \in Prices /\ d.window \in Windows
    BY <2>1, DraftAssumption
  <2>3. PostJob(j, d.creator, d.terms, d.lo, d.hi, d.window) \/ UNCHANGED chain
    BY <1>1 DEF RelayPost
  <2> HIDE DEF d
  <2> QED  BY <2>1, <2>2, <2>3 DEF Quiet, QuietStep
<1>2. ASSUME NEW h \in Handlers, RelayFund(h) PROVE Quiet
  <2>1. /\ work[h].job \in JobIds /\ work[h].agreement \in SignedAgreements
        /\ work[h].auth \in Authorizations
    BY <1>2 DEF RelayFund, At, HandlersSound, Held
  <2>2. FundWithAuthorization(work[h].job, work[h].agreement, work[h].auth) \/ UNCHANGED chain
    BY <1>2 DEF RelayFund
  <2> QED  BY <2>1, <2>2 DEF Quiet, QuietStep
<1>3. ASSUME NEW h \in Handlers, RelayExecuting(h) PROVE Quiet
  <2>1. work[h].job \in JobIds  BY <1>3 DEF RelayExecuting, At, HandlersSound, Held
  <2> QED  BY <1>3, <2>1 DEF RelayExecuting, Quiet, QuietStep
<1>4. ASSUME NEW h \in Handlers, RelayDeliverable(h) PROVE Goal
  BY <1>4 DEF RelayDeliverable, Delivery, Quiet
<1>5. Elsewhere => Quiet
  BY DEF Elsewhere, Quiet, QuietStep
<1>6. ASSUME NEW h \in Handlers, Arrives(h) PROVE Quiet
  BY <1>6 DEF Arrives, ConfirmRead, OpenRead, FundRead, SweepPending, PollRead, Quiet
<1>7. ASSUME NEW h \in Handlers, Continues(h) PROVE Goal
  <2>1. \/ UNCHANGED chain \/ RelayPost(h) \/ RelayFund(h) \/ RelayExecuting(h) \/ RelayDeliverable(h)
    BY <1>7
    DEF Continues, ConfirmStart, ConfirmEnd, CreateThread, OpenEnd, FundRefresh, FundEnd,
        StartRead, CreateTraining, StartEnd, PollEnd
  <2> QED  BY <2>1, <1>1, <1>2, <1>3, <1>4 DEF Quiet
<1>8. ASSUME NEW h \in Handlers, Abandon(h) PROVE Quiet
  BY <1>8 DEF Abandon, Quiet
<1>9. ASSUME NEW j \in JobIds, NEW p \in Providers, SignAgreement(j, p) PROVE Quiet
  BY <1>9 DEF SignAgreement, Quiet
<1>10. ASSUME NEW t \in Runs, NEW state, TrainingEnds(t, state) PROVE Quiet
  BY <1>10 DEF TrainingEnds, Quiet
<1>11. UNCHANGED allVars => Quiet  BY DEF allVars, Quiet
<1> QED
  BY <1>5, <1>6, <1>7, <1>8, <1>9, <1>10, <1>11 DEF MarketNext

LEMMA QuietIsNext ==
  ASSUME Quiet
  PROVE  [Next]_vars
BY DEF Quiet, QuietStep, Next, Relayer, chain

LEMMA DeliveryIsNext ==
  ASSUME MarketInv, NEW h \in Handlers, Delivery(h)
  PROVE  Next /\ work[h].job \in JobIds /\ work[h].artifact \in Artifacts
         /\ Produced(work[h].job, work[h].artifact, training)
<1>1. /\ work[h].job \in JobIds /\ work[h].artifact \in Artifacts
      /\ Produced(work[h].job, work[h].artifact, training)
  BY DEF Delivery, At, MarketInv, HandlersSound, Held
<1> QED  BY <1>1 DEF Delivery, Next, Relayer

\* The chain's part of the invariant.
LEMMA ChainSound ==
  ASSUME MarketInv, [MarketNext]_allVars
  PROVE  [Next]_vars /\ IInv' /\ ChainGrows /\ (RunsGrow => DeliverablesSound')
<1>1. TypeOK /\ IInv /\ DeliverablesSound  BY DEF MarketInv, IInv
<1>2. ASSUME RunsGrow, NEW j \in JobIds, NEW artifact, Produced(j, artifact, training)
      PROVE  Produced(j, artifact, training')
  BY <1>2 DEF Produced, StartedFor, RunsGrow
<1>3. CASE Quiet
  <2>1. ChainGrows /\ ArtifactsKept
    <3>1. CASE UNCHANGED job
      BY <3>1 DEF ChainGrows, ArtifactsKept
    <3> QED  BY <1>1, <1>3, <3>1, QuietGrows DEF Quiet, chain, vars, Tick
  <2>2. RunsGrow => DeliverablesSound'
    BY <1>1, <1>2, <2>1 DEF DeliverablesSound, ChainGrows, ArtifactsKept
  <2> QED  BY <1>1, <1>3, <2>1, <2>2, QuietIsNext, StepInvariant
<1>4. ASSUME NEW h \in Handlers, Delivery(h)
      PROVE  [Next]_vars /\ IInv' /\ ChainGrows /\ (RunsGrow => DeliverablesSound')
  <2> DEFINE i == work[h].job
             artifact == work[h].artifact
  <2>1. /\ Next /\ i \in JobIds /\ artifact \in Artifacts /\ Produced(i, artifact, training)
    BY <1>4, DeliveryIsNext
  <2>2. /\ ChainGrows /\ job'[i].status = "DELIVERED" /\ job'[i].artifact = artifact
        /\ \A j \in JobIds : j # i => job'[j] = job[j]
    BY <1>1, <1>4, <2>1, DeliveryGrows DEF Delivery
  <2> HIDE DEF i, artifact
  <2>3. ASSUME RunsGrow, NEW j \in JobIds, job'[j].artifact # NoArtifact
        PROVE  job'[j].status \notin Early /\ Produced(j, job'[j].artifact, training')
    <3>1. CASE j = i
      BY <1>2, <2>1, <2>2, <2>3, <3>1 DEF Early
    <3>2. CASE j # i
      <4>1. job'[j] = job[j]  BY <2>2, <3>2
      <4> QED  BY <1>1, <1>2, <2>3, <4>1 DEF DeliverablesSound
    <3> QED  BY <3>1, <3>2
  <2> QED  BY <1>1, <2>1, <2>2, <2>3, StepInvariant DEF DeliverablesSound
<1> QED  BY <1>3, <1>4, MarketStep

-----------------------------------------------------------------------------
(* How each part of the invariant survives a step that grows.              *)

\* A stale copy stays as good as it was.
LEMMA HeldGrows ==
  ASSUME MarketInv, Grows, NEW h \in Handlers
  PROVE  Held(work[h], job', thread', training')
<1> DEFINE w == work[h]
<1>1. Held(w, job, thread, training)
  BY DEF MarketInv, HandlersSound
<1>2. NoArtifact \notin Artifacts  BY HashAssumption
<1>3. ASSUME NEW t \in Runs, NEW j \in JobIds, StartedFor(t, j, training)
      PROVE  StartedFor(t, j, training')
  BY <1>3 DEF StartedFor, Grows, RunsGrow
<1>4. ASSUME NEW j \in JobIds, NEW artifact, Produced(j, artifact, training)
      PROVE  Produced(j, artifact, training')
  BY <1>4, <1>3 DEF Produced, StartedFor, Grows, RunsGrow
<1>5. w.step = "queued" => w.run \in Runs /\ StartedFor(w.run, w.job, training')
  BY <1>1, <1>3 DEF Held
<1>6. w.step = "delivering" => Produced(w.job, w.artifact, training')
  BY <1>1, <1>4 DEF Held
<1>7. w.step = "refreshing" => thread'[w.job][w.provider] \in SignedThreads
  BY <1>1 DEF Held, Grows, ThreadsGrow
<1> HIDE DEF w
<1>8. /\ w.step = "posted" => (w.status = "POSTED" => job'[w.job].status # "NONE")
      /\ w.step \in {"opening", "negotiating"} => job'[w.job].status # "NONE"
      /\ w.step \in {"funded", "queueing", "queued", "delivered"} => job'[w.job].status \in Funded
      /\ w.step = "delivered" => job'[w.job].artifact = w.artifact
  BY <1>1, <1>2 DEF Held, Grows, ChainGrows
<1> QED  BY <1>1, <1>5, <1>6, <1>7, <1>8 DEF Held, w

\* The handler that moves holds something sound, and the others grow.
LEMMA HandlerStep ==
  ASSUME MarketInv, Grows, NEW h \in Handlers, NEW holding, Goes(h, holding),
         Held(holding, job', thread', training')
  PROVE  HandlersSound'
<1>1. DOMAIN work = Handlers  BY DEF MarketInv, HandlersSound
<1>2. /\ DOMAIN work' = Handlers /\ work'[h] = holding
      /\ \A g \in Handlers : g # h => work'[g] = work[g]
  BY <1>1 DEF Goes
<1>3. ASSUME NEW g \in Handlers PROVE Held(work'[g], job', thread', training')
  BY <1>2, HeldGrows
<1> QED  BY <1>2, <1>3 DEF HandlersSound

\* No handler moves.
LEMMA HandlersKept ==
  ASSUME MarketInv, Grows, UNCHANGED work
  PROVE  HandlersSound'
<1>1. DOMAIN work' = Handlers  BY DEF MarketInv, HandlersSound
<1>2. ASSUME NEW g \in Handlers PROVE Held(work'[g], job', thread', training')
  BY HeldGrows
<1> QED  BY <1>1, <1>2 DEF HandlersSound

LEMMA IdleHeld ==
  Held(Idle, job', thread', training')
BY DEF Held, Idle

LEMMA BackedGrows ==
  ASSUME MarketInv, Grows, NEW j \in JobIds
  PROVE  Backed(j, row[j], job', training')
<1>1. Backed(j, row[j], job, training) /\ row[j] \in Row  BY DEF MarketInv, RowsSound
<1>2. row[j].run # NoRun => row[j].run \in Runs  BY <1>1 DEF Row
<1>3. row[j].run # NoRun => StartedFor(row[j].run, j, training')
  BY <1>1, <1>2 DEF Backed, StartedFor, Grows, RunsGrow
<1>4. row[j].artifact # NoArtifact => row[j].artifact = job'[j].artifact
  BY <1>1 DEF Backed, Grows, ChainGrows
<1>5. row[j].status = "DELIVERED" => job'[j].artifact # NoArtifact
  BY <1>1 DEF Backed, Grows, ChainGrows
<1> QED  BY <1>1, <1>3, <1>4, <1>5 DEF Backed, Grows, ChainGrows

LEMMA RowsKept ==
  ASSUME MarketInv, Grows, UNCHANGED row
  PROVE  RowsSound'
<1>1. \A j \in JobIds : Backed(j, row'[j], job', training')  BY BackedGrows
<1> QED  BY <1>1 DEF MarketInv, RowsSound

LEMMA RowWritten ==
  ASSUME MarketInv, Grows, NEW j \in JobIds, NEW r \in Row, row' = [row EXCEPT ![j] = r],
         Backed(j, r, job', training')
  PROVE  RowsSound'
<1>1. row \in [JobIds -> Row]  BY DEF MarketInv, RowsSound
<1>2. row' \in [JobIds -> Row] /\ row'[j] = r /\ \A i \in JobIds : i # j => row'[i] = row[i]
  BY <1>1
<1>3. ASSUME NEW i \in JobIds PROVE Backed(i, row'[i], job', training')
  BY <1>2, BackedGrows
<1> QED  BY <1>2, <1>3 DEF RowsSound

LEMMA ThreadsKept ==
  ASSUME MarketInv, UNCHANGED <<thread, latest>>
  PROVE  ThreadsSound' /\ ThreadsGrow
BY DEF MarketInv, ThreadsSound, ThreadsGrow

\* Replacing one thread of one job.
LEMMA ThreadReplaced ==
  ASSUME thread \in [JobIds -> [Providers -> Threads]],
         NEW j \in JobIds, NEW p \in Providers, NEW t \in Threads,
         thread' = [thread EXCEPT ![j][p] = t]
  PROVE  /\ thread' \in [JobIds -> [Providers -> Threads]]
         /\ \A i \in JobIds, q \in Providers :
              thread'[i][q] = IF i = j /\ q = p THEN t ELSE thread[i][q]
<1> DEFINE column == [thread[j] EXCEPT ![p] = t]
<1>1. /\ column \in [Providers -> Threads]
      /\ \A q \in Providers : column[q] = IF q = p THEN t ELSE thread[j][q]
  OBVIOUS
<1>2. thread' = [thread EXCEPT ![j] = column]
  OBVIOUS
<1> HIDE DEF column
<1>3. \A i \in JobIds : thread'[i] = IF i = j THEN column ELSE thread[i]
  BY <1>2
<1> QED  BY <1>1, <1>2, <1>3

LEMMA ThreadSigned ==
  ASSUME MarketInv, NEW j \in JobIds, NEW p \in Providers, NEW agreement \in SignedAgreements,
         StoreSigned(j, p, agreement)
  PROVE  ThreadsSound' /\ ThreadsGrow
<1> DEFINE signedThread == SignedThread(agreement)
<1>1. signedThread \in SignedThreads /\ signedThread \in Threads
  BY DEF SignedThread, SignedThreads, Threads
<1>2. /\ thread \in [JobIds -> [Providers -> Threads]]
      /\ latest \in [JobIds -> Providers \cup {NoWallet}]
  BY DEF MarketInv, ThreadsSound
<1>3. /\ thread' = [thread EXCEPT ![j][p] = signedThread]
      /\ latest' = [latest EXCEPT ![j] = p]
  BY DEF StoreSigned
<1> HIDE DEF signedThread
<1>4. /\ thread' \in [JobIds -> [Providers -> Threads]]
      /\ \A i \in JobIds, q \in Providers :
           thread'[i][q] = IF i = j /\ q = p THEN signedThread ELSE thread[i][q]
      /\ latest' \in [JobIds -> Providers \cup {NoWallet}]
  <2>1. latest' \in [JobIds -> Providers \cup {NoWallet}]  BY <1>2, <1>3
  <2> QED  BY <1>1, <1>2, <1>3, <2>1, ThreadReplaced
<1>5. ThreadsGrow
  BY <1>1, <1>4 DEF ThreadsGrow
<1>6. ASSUME NEW i \in JobIds, latest'[i] # NoWallet PROVE thread'[i][latest'[i]] \in SignedThreads
  <2>1. CASE i = j
    <3>1. latest'[j] = p  BY <1>2, <1>3
    <3> QED  BY <1>1, <1>4, <2>1, <3>1
  <2>2. CASE i # j
    <3>1. latest'[i] = latest[i] /\ thread'[i] = thread[i]  BY <1>2, <1>3, <2>2
    <3> QED  BY <1>6, <3>1 DEF MarketInv, ThreadsSound
  <2> QED  BY <2>1, <2>2
<1> QED  BY <1>4, <1>5, <1>6 DEF ThreadsSound

LEMMA RunsKept ==
  ASSUME MarketInv, ChainGrows, UNCHANGED training
  PROVE  RunsSound' /\ RunsGrow
<1>1. ASSUME NEW t \in Runs, training[t] # Unqueued PROVE training[t].job \in JobIds
  BY <1>1 DEF MarketInv, RunsSound, TrainingJobs, Unqueued
<1> QED  BY <1>1 DEF MarketInv, RunsSound, RunsGrow, WorkIsPaidFor, ChainGrows

-----------------------------------------------------------------------------
(* One lemma per group of steps.                                           *)

\* A step that changes at most the chain, the handler and the faults.
LEMMA RelayInvariant ==
  ASSUME MarketInv, [MarketNext]_allVars, UNCHANGED <<row, thread, latest, training>>,
         faults' \in 0..MaxFaults,
         NEW h \in Handlers, NEW holding, Goes(h, holding),
         Grows => Held(holding, job', thread', training')
  PROVE  MarketInv'
<1>1. IInv' /\ ChainGrows /\ (RunsGrow => DeliverablesSound')  BY ChainSound
<1>2. RunsSound' /\ RunsGrow  BY <1>1, RunsKept
<1>3. ThreadsSound' /\ ThreadsGrow  BY ThreadsKept
<1>4. Grows  BY <1>1, <1>2, <1>3 DEF Grows
<1>5. HandlersSound'  BY <1>4, HandlerStep
<1>6. RowsSound'  BY <1>4, RowsKept
<1> QED  BY <1>1, <1>2, <1>3, <1>5, <1>6 DEF MarketInv

\* A handler that ends, one that dies included.
LEMMA EndInvariant ==
  ASSUME MarketInv, [MarketNext]_allVars, UNCHANGED <<row, thread, latest, training>>,
         faults' \in 0..MaxFaults, NEW h \in Handlers, Ends(h)
  PROVE  MarketInv'
<1>1. Goes(h, Idle)  BY DEF Ends
<1> QED  BY <1>1, IdleHeld, RelayInvariant

\* A handler's write to the row of its job.
LEMMA WriteInvariant ==
  ASSUME MarketInv, [MarketNext]_allVars, UNCHANGED <<chain, thread, latest, training, faults>>,
         NEW h \in Handlers, NEW holding, Goes(h, holding),
         Held(holding, job, thread, training),
         NEW j \in JobIds, NEW r \in Row, row' = [row EXCEPT ![j] = r],
         Backed(j, r, job, training)
  PROVE  MarketInv'
<1>1. IInv' /\ ChainGrows /\ (RunsGrow => DeliverablesSound')  BY ChainSound
<1>2. RunsSound' /\ RunsGrow  BY <1>1, RunsKept
<1>3. ThreadsSound' /\ ThreadsGrow  BY ThreadsKept
<1>4. Grows  BY <1>1, <1>2, <1>3 DEF Grows
<1>5. UNCHANGED job  BY DEF chain, vars
<1>6. HandlersSound'  BY <1>4, <1>5, HandlerStep
<1>7. RowsSound'  BY <1>4, <1>5, RowWritten
<1> QED  BY <1>1, <1>2, <1>3, <1>6, <1>7 DEF MarketInv

LEMMA FaultsBounded ==
  ASSUME MarketInv
  PROVE  /\ UNCHANGED faults => faults' \in 0..MaxFaults
         /\ Fails => faults' \in 0..MaxFaults
BY MarketNumbers DEF MarketInv, Fails

\* An answer that may be lost leaves the handler with one of two holdings.
LEMMA AnsweredInvariant ==
  ASSUME MarketInv, [MarketNext]_allVars, UNCHANGED <<row, thread, latest, training>>,
         NEW h \in Handlers, NEW ok, NEW lost, Answered(h, ok, lost),
         Grows => Held(ok, job', thread', training') /\ Held(lost, job', thread', training')
  PROVE  MarketInv'
<1>1. faults' \in 0..MaxFaults  BY FaultsBounded DEF Answered
<1>2. Goes(h, ok) \/ Goes(h, lost)  BY DEF Answered
<1> QED  BY <1>1, <1>2, RelayInvariant

\* A request or a tick arrives and reads the row, the threads and the runs.
LEMMA ArrivalInvariant ==
  ASSUME MarketInv, [MarketNext]_allVars, NEW h \in Handlers, Arrives(h)
  PROVE  MarketInv'
<1>1. PICK j \in JobIds :
        \/ ConfirmRead(h, j) \/ (\E p \in Providers : OpenRead(h, j, p))
        \/ (\E auth \in Authorizations : FundRead(h, j, auth))
        \/ SweepPending(h, j) \/ PollRead(h, j)
  BY DEF Arrives
<1>2. UNCHANGED <<chain, row, thread, latest, training, faults>> /\ UNCHANGED job
  BY <1>1 DEF ConfirmRead, OpenRead, FundRead, SweepPending, PollRead, chain, vars
<1>3. faults' \in 0..MaxFaults  BY <1>2, FaultsBounded
<1>4. row[j] \in Row /\ Backed(j, row[j], job, training)  BY DEF MarketInv, RowsSound
<1>5. ASSUME NEW holding, Goes(h, holding), Held(holding, job, thread, training)
      PROVE  MarketInv'
  BY <1>2, <1>3, <1>5, RelayInvariant
<1>6. CASE ConfirmRead(h, j)
  <2> DEFINE holding == [step |-> "confirmed", job |-> j]
  <2>1. Held(holding, job, thread, training)  BY DEF Held
  <2> QED  BY <2>1, <1>5, <1>6 DEF ConfirmRead
<1>7. ASSUME NEW p \in Providers, OpenRead(h, j, p) PROVE MarketInv'
  <2> DEFINE holding == [step |-> "opening", job |-> j, provider |-> p,
                         posted |-> row[j].status = "POSTED"]
  <2>1. job[j].status # "NONE"  BY <1>4, <1>7 DEF OpenRead, Backed
  <2>2. Held(holding, job, thread, training)  BY <2>1 DEF Held
  <2> QED  BY <2>2, <1>5, <1>7 DEF OpenRead
<1>8. ASSUME NEW auth \in Authorizations, FundRead(h, j, auth) PROVE MarketInv'
  <2> DEFINE holding == [step |-> "refreshing", job |-> j, provider |-> latest[j], auth |-> auth,
                         fresh |-> thread[j][latest[j]].agreement.expiry > now + ExpiryMargin]
  <2>1. latest[j] \in Providers /\ thread[j][latest[j]] \in SignedThreads
    BY <1>8 DEF FundRead, MarketInv, ThreadsSound
  <2>2. Held(holding, job, thread, training)  BY <2>1 DEF Held
  <2> QED  BY <2>2, <1>5, <1>8 DEF FundRead
<1>9. CASE SweepPending(h, j)
  <2> DEFINE holding == [step |-> "starting", job |-> j]
  <2>1. Held(holding, job, thread, training)  BY DEF Held
  <2> QED  BY <2>1, <1>5, <1>9 DEF SweepPending
<1>10. CASE PollRead(h, j)
  <2> DEFINE t == row[j].run
             holding == [step |-> "delivering", job |-> j, artifact |-> Product[t]]
  <2>1. t \in Runs /\ StartedFor(t, j, training) /\ training[t].state = "COMPLETED"
    BY <1>4, <1>10 DEF PollRead, DeliverableReady, Row, Backed
  <2>2. Product[t] \in Artifacts  BY <2>1, TrainingAssumption
  <2>3. Produced(j, Product[t], training)  BY <2>1 DEF Produced
  <2> HIDE DEF t
  <2>4. Held(holding, job, thread, training)  BY <2>2, <2>3 DEF Held
  <2> QED  BY <2>4, <1>5, <1>10 DEF PollRead, t
<1> QED  BY <1>1, <1>6, <1>7, <1>8, <1>9, <1>10

\* What the handler at work holds, and the row of its job.
LEMMA AtWork ==
  ASSUME MarketInv, NEW h \in Handlers, ~At(h, "idle")
  PROVE  /\ work[h].job \in JobIds /\ Held(work[h], job, thread, training)
         /\ row[work[h].job] \in Row
         /\ Backed(work[h].job, row[work[h].job], job, training)
<1>1. Held(work[h], job, thread, training) /\ work[h].job \in JobIds
  BY DEF MarketInv, HandlersSound, Held, At
<1> QED  BY <1>1 DEF MarketInv, RowsSound

\* confirmAndPost.
LEMMA ConfirmInvariant ==
  ASSUME MarketInv, [MarketNext]_allVars, NEW h \in Handlers,
         ConfirmStart(h) \/ RelayPost(h) \/ ConfirmEnd(h)
  PROVE  MarketInv'
<1> DEFINE j == work[h].job
<1>1. /\ j \in JobIds /\ Held(work[h], job, thread, training)
      /\ row[j] \in Row /\ Backed(j, row[j], job, training)
  BY AtWork DEF ConfirmStart, RelayPost, ConfirmEnd, At
<1>2. CASE ConfirmStart(h)
  <2> DEFINE holding == [step |-> "posting", job |-> j]
             r == [row[j] EXCEPT !.status = "POSTING"]
  <2>1. Held(holding, job, thread, training)  BY <1>1 DEF Held
  <2>2. r \in Row /\ Backed(j, r, job, training)
    BY <1>1 DEF Row, RowStatuses, Backed
  <2>3. row' = [row EXCEPT ![j] = r] /\ Goes(h, holding)
        /\ UNCHANGED <<chain, thread, latest, training, faults>>
    BY <1>2 DEF ConfirmStart
  <2> QED  BY <1>1, <2>1, <2>2, <2>3, WriteInvariant
<1>3. CASE RelayPost(h)
  <2>1. Held(PostOutcome(h, "FAILED"), job', thread', training')
    BY <1>1 DEF PostOutcome, Held
  <2>2. ASSUME job'[j].status # "NONE"
        PROVE  Held(PostOutcome(h, "POSTED"), job', thread', training')
    BY <1>1, <2>2 DEF PostOutcome, Held
  <2>3. UNCHANGED <<row, thread, latest, training>>  BY <1>3 DEF RelayPost
  <2>4. ASSUME job[j].status # "NONE", UNCHANGED <<chain, faults>>, Goes(h, PostOutcome(h, "POSTED"))
        PROVE  MarketInv'
    <3>1. job'[j].status # "NONE" /\ faults' \in 0..MaxFaults
      BY <2>4, FaultsBounded DEF chain, vars
    <3> QED  BY <2>2, <2>3, <2>4, <3>1, RelayInvariant
  <2>5. ASSUME PostJob(j, Draft[j].creator, Draft[j].terms, Draft[j].lo, Draft[j].hi, Draft[j].window),
               Answered(h, PostOutcome(h, "POSTED"), PostOutcome(h, "FAILED"))
        PROVE  MarketInv'
    <3>1. job'[j].status = "POSTED"
      BY <1>1, <2>5 DEF PostJob, PostedJob, MarketInv, IInv, TypeOK
    <3> QED  BY <2>1, <2>2, <2>3, <2>5, <3>1, AnsweredInvariant
  <2>6. ASSUME UNCHANGED <<chain, faults>>, Goes(h, PostOutcome(h, "FAILED")) PROVE MarketInv'
    <3>1. faults' \in 0..MaxFaults  BY <2>6, FaultsBounded
    <3> QED  BY <2>1, <2>3, <2>6, <3>1, RelayInvariant
  <2> QED  BY <1>3, <2>4, <2>5, <2>6 DEF RelayPost
<1>4. CASE ConfirmEnd(h)
  <2> DEFINE r == [row[j] EXCEPT !.status = work[h].status]
  <2>1. r \in Row /\ Backed(j, r, job, training)
    BY <1>1, <1>4 DEF ConfirmEnd, At, Held, Row, RowStatuses, Backed
  <2>2. /\ row' = [row EXCEPT ![j] = r] /\ Goes(h, Idle)
        /\ UNCHANGED <<chain, thread, latest, training, faults>>
    BY <1>4 DEF ConfirmEnd, Ends
  <2>3. Held(Idle, job, thread, training)  BY DEF Held, Idle
  <2> QED  BY <1>1, <2>1, <2>2, <2>3, WriteInvariant
<1> QED  BY <1>2, <1>3, <1>4

\* openNegotiation past its reads.
LEMMA OpenInvariant ==
  ASSUME MarketInv, [MarketNext]_allVars, NEW h \in Handlers, CreateThread(h) \/ OpenEnd(h)
  PROVE  MarketInv'
<1> DEFINE j == work[h].job
           p == work[h].provider
<1>1. /\ j \in JobIds /\ Held(work[h], job, thread, training)
      /\ row[j] \in Row /\ Backed(j, row[j], job, training)
  BY AtWork DEF CreateThread, OpenEnd, At
<1>2. CASE CreateThread(h)
  <2>1. p \in Providers /\ job[j].status # "NONE"
    BY <1>1, <1>2 DEF CreateThread, At, Held
  <2>2. /\ IInv' /\ ChainGrows /\ (RunsGrow => DeliverablesSound')
        /\ UNCHANGED <<job, row, latest, training, faults>>
    BY <1>2, ChainSound DEF CreateThread, chain, vars
  <2>3. RunsSound' /\ RunsGrow  BY <2>2, RunsKept
  <2>4. thread' = thread \/ (thread[j][p] = NoThread /\ thread' = [thread EXCEPT ![j][p] = OpenThread])
    BY <1>2 DEF CreateThread
  <2>5. ThreadsSound' /\ ThreadsGrow
    <3>1. NoThread \notin SignedThreads /\ OpenThread \in Threads
      BY DEF NoThread, OpenThread, SignedThreads, Threads
    <3>2. ThreadsGrow /\ thread' \in [JobIds -> [Providers -> Threads]]
      <4>1. thread \in [JobIds -> [Providers -> Threads]]  BY DEF MarketInv, ThreadsSound
      <4>2. CASE thread' = thread
        BY <4>1, <4>2 DEF ThreadsGrow
      <4>3. CASE thread[j][p] = NoThread /\ thread' = [thread EXCEPT ![j][p] = OpenThread]
        <5>1. /\ thread' \in [JobIds -> [Providers -> Threads]]
              /\ \A i \in JobIds, q \in Providers :
                   thread'[i][q] = IF i = j /\ q = p THEN OpenThread ELSE thread[i][q]
          BY <1>1, <2>1, <3>1, <4>1, <4>3, ThreadReplaced
        <5> QED  BY <3>1, <4>3, <5>1 DEF ThreadsGrow
      <4> QED  BY <2>4, <4>2, <4>3
    <3> QED  BY <2>2, <3>2 DEF MarketInv, ThreadsSound, ThreadsGrow
  <2>6. Grows  BY <2>2, <2>3, <2>5 DEF Grows
  <2>7. RowsSound'  BY <2>2, <2>6, RowsKept
  <2>8. HandlersSound'
    <3>1. Held([step |-> "negotiating", job |-> j], job', thread', training')
      BY <1>1, <2>1, <2>2 DEF Held
    <3>2. Goes(h, [step |-> "negotiating", job |-> j]) \/ Goes(h, Idle)
      BY <1>2 DEF CreateThread, Ends
    <3> QED  BY <2>6, <3>1, <3>2, IdleHeld, HandlerStep
  <2> QED  BY <2>2, <2>3, <2>5, <2>7, <2>8 DEF MarketInv
<1>3. CASE OpenEnd(h)
  <2> DEFINE r == [row[j] EXCEPT !.status = "NEGOTIATING"]
  <2>1. r \in Row /\ Backed(j, r, job, training)
    BY <1>1, <1>3 DEF OpenEnd, At, Held, Row, RowStatuses, Backed
  <2>2. /\ row' = [row EXCEPT ![j] = r] /\ Goes(h, Idle)
        /\ UNCHANGED <<chain, thread, latest, training, faults>>
    BY <1>3 DEF OpenEnd, Ends
  <2>3. Held(Idle, job, thread, training)  BY DEF Held, Idle
  <2> QED  BY <1>1, <2>1, <2>2, <2>3, WriteInvariant
<1> QED  BY <1>2, <1>3

\* The funding request past its first read.
LEMMA FundInvariant ==
  ASSUME MarketInv, [MarketNext]_allVars, NEW h \in Handlers,
         FundRefresh(h) \/ RelayFund(h) \/ FundEnd(h)
  PROVE  MarketInv'
<1> DEFINE j == work[h].job
           p == work[h].provider
<1>1. /\ j \in JobIds /\ p \in Providers /\ Held(work[h], job, thread, training)
      /\ row[j] \in Row /\ Backed(j, row[j], job, training)
  BY AtWork DEF FundRefresh, RelayFund, FundEnd, At, Held
<1>2. CASE FundRefresh(h)
  <2> DEFINE holding(agreement) == [step |-> "funding", job |-> j, provider |-> p,
                                    auth |-> work[h].auth, agreement |-> agreement]
  <2>1. ASSUME NEW agreement \in SignedAgreements
        PROVE  Held(holding(agreement), job', thread', training')
    BY <1>1, <1>2 DEF FundRefresh, At, Held
  <2>2. UNCHANGED <<chain, row, training, faults>> /\ UNCHANGED job
    BY <1>2 DEF FundRefresh, chain, vars
  <2>3. faults' \in 0..MaxFaults  BY <2>2, FaultsBounded
  <2>4. ASSUME Goes(h, holding(thread[j][p].agreement)), UNCHANGED <<thread, latest>>
        PROVE  MarketInv'
    <3>1. thread[j][p].agreement \in SignedAgreements
      BY <1>1, <1>2 DEF FundRefresh, At, Held, SignedThreads
    <3> QED  BY <2>1, <2>2, <2>3, <2>4, <3>1, RelayInvariant
  <2>5. ASSUME NEW agreement \in SignedAgreements, StoreSigned(j, p, agreement),
               Goes(h, holding(agreement))
        PROVE  MarketInv'
    <3>1. IInv' /\ ChainGrows /\ (RunsGrow => DeliverablesSound')  BY ChainSound
    <3>2. RunsSound' /\ RunsGrow  BY <2>2, <3>1, RunsKept
    <3>3. ThreadsSound' /\ ThreadsGrow  BY <1>1, <2>5, ThreadSigned
    <3>4. Grows  BY <3>1, <3>2, <3>3 DEF Grows
    <3>5. HandlersSound'  BY <2>1, <2>5, <3>4, HandlerStep
    <3>6. RowsSound'  BY <2>2, <3>4, RowsKept
    <3> QED  BY <2>3, <3>1, <3>2, <3>3, <3>5, <3>6 DEF MarketInv
  <2> QED  BY <1>2, <2>4, <2>5 DEF FundRefresh
<1>3. CASE RelayFund(h)
  <2> DEFINE funded == [step |-> "funded", job |-> j, provider |-> p]
  <2>1. ASSUME job'[j].status \in Funded PROVE Held(funded, job', thread', training')
    BY <1>1, <2>1 DEF Held
  <2>2. UNCHANGED <<row, thread, latest, training>>  BY <1>3 DEF RelayFund
  <2>3. job[j] \in Job /\ job \in [JobIds -> Job]
    BY <1>1 DEF MarketInv, IInv, TypeOK
  <2>4. ASSUME job[j].status \notin {"NONE", "POSTED", "CANCELLED"},
               UNCHANGED <<chain, faults>>, Goes(h, funded)
        PROVE  MarketInv'
    <3>1. job'[j].status \in Funded
      BY <2>3, <2>4
      DEF chain, vars, Job, Statuses, Funded, Holding, Undecided, InProgress, Closed
    <3>2. faults' \in 0..MaxFaults  BY <2>4, FaultsBounded
    <3> QED  BY <2>1, <2>2, <2>4, <3>1, <3>2, RelayInvariant
  <2>5. ASSUME FundWithAuthorization(j, work[h].agreement, work[h].auth), Answered(h, funded, Idle)
        PROVE  MarketInv'
    <3>1. job'[j].status = "ESCROWED"
      BY <1>1, <2>3, <2>5 DEF FundWithAuthorization, Job
    <3>2. job'[j].status \in Funded  BY <3>1 DEF Funded, Holding, Undecided, InProgress
    <3> QED  BY <2>1, <2>2, <2>5, <3>2, IdleHeld, AnsweredInvariant
  <2>6. ASSUME UNCHANGED <<chain, faults>>, Ends(h) PROVE MarketInv'
    BY <2>2, <2>6, FaultsBounded, EndInvariant
  <2> QED  BY <1>3, <2>4, <2>5, <2>6 DEF RelayFund
<1>4. CASE FundEnd(h)
  <2> DEFINE r == [row[j] EXCEPT !.status = "ESCROWED", !.provider = p]
             holding == [step |-> "starting", job |-> j]
  <2>1. job[j].status \in Funded  BY <1>1, <1>4 DEF FundEnd, At, Held
  <2>2. r \in Row /\ Backed(j, r, job, training)
    BY <1>1, <2>1 DEF Row, RowStatuses, Backed
  <2>3. Held(holding, job, thread, training)  BY <1>1 DEF Held
  <2>4. /\ row' = [row EXCEPT ![j] = r] /\ Goes(h, holding)
        /\ UNCHANGED <<chain, thread, latest, training, faults>>
    BY <1>4 DEF FundEnd
  <2> QED  BY <1>1, <2>2, <2>3, <2>4, WriteInvariant
<1> QED  BY <1>2, <1>3, <1>4

\* startExecution.
LEMMA StartInvariant ==
  ASSUME MarketInv, [MarketNext]_allVars, NEW h \in Handlers,
         \/ StartRead(h) \/ (\E t \in Runs : CreateTraining(h, t))
         \/ StartEnd(h) \/ RelayExecuting(h)
  PROVE  MarketInv'
<1> DEFINE j == work[h].job
<1>1. /\ j \in JobIds /\ Held(work[h], job, thread, training)
      /\ row[j] \in Row /\ Backed(j, row[j], job, training)
  BY AtWork DEF StartRead, CreateTraining, StartEnd, RelayExecuting, At
<1>2. CASE StartRead(h)
  <2>1. UNCHANGED <<row, thread, latest, training, faults>> /\ UNCHANGED job
    BY <1>2 DEF StartRead, chain, vars
  <2>2. faults' \in 0..MaxFaults  BY <2>1, FaultsBounded
  <2>3. CASE Startable(j)
    <3> DEFINE holding == [step |-> "queueing", job |-> j, provider |-> row[j].provider]
    <3>1. row[j].provider \in Providers /\ job[j].status \in Funded
      BY <1>1, <2>3 DEF Startable, Row, Backed
    <3>2. Held(holding, job', thread', training')  BY <1>1, <2>1, <3>1 DEF Held
    <3>3. Goes(h, holding)  BY <1>2, <2>3 DEF StartRead
    <3> QED  BY <2>1, <2>2, <3>2, <3>3, RelayInvariant
  <2>4. CASE ~Startable(j)
    <3>1. Ends(h)  BY <1>2, <2>4 DEF StartRead
    <3> QED  BY <2>1, <2>2, <3>1, EndInvariant
  <2> QED  BY <2>3, <2>4
<1>3. ASSUME NEW t \in Runs, CreateTraining(h, t) PROVE MarketInv'
  <2> DEFINE started == [state |-> "QUEUED", job |-> j, provider |-> work[h].provider]
             holding == [step |-> "queued", job |-> j, run |-> t]
  <2>1. /\ IInv' /\ ChainGrows /\ (RunsGrow => DeliverablesSound')
        /\ UNCHANGED <<job, row, thread, latest, faults>>
    BY <1>3, ChainSound DEF CreateTraining, chain, vars
  <2>2. job[j].status \in Funded /\ work[h].provider \in Providers
    BY <1>1, <1>3 DEF CreateTraining, At, Held
  <2>3. started \in StartedRuns /\ started.job = j /\ Unqueued \notin StartedRuns
    BY <1>1, <2>2 DEF StartedRuns, Unqueued
  <2>4. started \in TrainingJobs  BY <2>3 DEF StartedRuns, TrainingJobs
  <2>5. training[t] = Unqueued /\ training' = [training EXCEPT ![t] = started]
        /\ training \in [Runs -> TrainingJobs]
    BY <1>3 DEF CreateTraining, MarketInv, RunsSound
  <2> HIDE DEF started
  <2>6. training' \in [Runs -> TrainingJobs] /\ training'[t] = started
        /\ \A s \in Runs : s # t => training'[s] = training[s]
    BY <2>4, <2>5
  <2>7. RunsGrow
    BY <2>3, <2>5, <2>6 DEF RunsGrow
  <2>8. ASSUME NEW s \in Runs, training'[s] # Unqueued
        PROVE  job'[training'[s].job].status \in Funded
    BY <2>1, <2>2, <2>3, <2>6, <2>8 DEF MarketInv, RunsSound, WorkIsPaidFor
  <2>9. RunsSound'  BY <2>6, <2>8 DEF RunsSound, WorkIsPaidFor
  <2>10. ThreadsSound' /\ ThreadsGrow  BY <2>1, ThreadsKept
  <2>11. Grows  BY <2>1, <2>7, <2>10 DEF Grows
  <2>12. HandlersSound'
    <3>1. StartedFor(t, j, training')  BY <2>3, <2>6 DEF StartedFor
    <3>2. Held(holding, job', thread', training')  BY <1>1, <2>1, <2>2, <3>1 DEF Held
    <3>3. Goes(h, holding)  BY <1>3 DEF CreateTraining
    <3> QED  BY <2>11, <3>2, <3>3, HandlerStep
  <2>13. RowsSound'  BY <2>1, <2>11, RowsKept
  <2> QED  BY <2>1, <2>7, <2>9, <2>10, <2>12, <2>13 DEF MarketInv
<1>4. CASE StartEnd(h)
  <2> DEFINE r == [row[j] EXCEPT !.run = work[h].run, !.status = "EXECUTING"]
             holding == [step |-> "marking", job |-> j]
  <2>1. /\ job[j].status \in Funded /\ work[h].run \in Runs
        /\ StartedFor(work[h].run, j, training)
    BY <1>1, <1>4 DEF StartEnd, At, Held
  <2>2. r \in Row /\ Backed(j, r, job, training)
    BY <1>1, <2>1 DEF Row, RowStatuses, Backed
  <2>3. Held(holding, job, thread, training)  BY <1>1 DEF Held
  <2>4. /\ row' = [row EXCEPT ![j] = r] /\ Goes(h, holding)
        /\ UNCHANGED <<chain, thread, latest, training, faults>>
    BY <1>4 DEF StartEnd
  <2> QED  BY <1>1, <2>2, <2>3, <2>4, WriteInvariant
<1>5. CASE RelayExecuting(h)
  BY <1>5, FaultsBounded, EndInvariant DEF RelayExecuting
<1> QED  BY <1>2, <1>3, <1>4, <1>5

\* pollExecution past its reads.
LEMMA PollInvariant ==
  ASSUME MarketInv, [MarketNext]_allVars, NEW h \in Handlers,
         RelayDeliverable(h) \/ PollEnd(h)
  PROVE  MarketInv'
<1> DEFINE j == work[h].job
           artifact == work[h].artifact
<1>1. /\ j \in JobIds /\ artifact \in Artifacts /\ Held(work[h], job, thread, training)
      /\ row[j] \in Row /\ Backed(j, row[j], job, training)
  BY AtWork DEF RelayDeliverable, PollEnd, At, Held
<1>2. CASE RelayDeliverable(h)
  <2> DEFINE delivered == [step |-> "delivered", job |-> j, artifact |-> artifact]
  <2>1. UNCHANGED <<row, thread, latest, training>>  BY <1>2 DEF RelayDeliverable
  <2>2. ASSUME SubmitDeliverable(j, artifact), Answered(h, delivered, Idle) PROVE MarketInv'
    <3>1. TypeOK /\ DeliverablesSound  BY DEF MarketInv, IInv
    <3>2. job'[j].status = "DELIVERED" /\ job'[j].artifact = artifact
      BY <1>1, <2>2, <3>1, DeliveryGrows
    <3>3. Held(delivered, job', thread', training')
      BY <1>1, <3>2 DEF Held, Funded, Holding, Undecided
    <3> QED  BY <2>1, <2>2, <3>3, IdleHeld, AnsweredInvariant
  <2>3. ASSUME Ends(h), Fails \/ UNCHANGED faults PROVE MarketInv'
    BY <2>1, <2>3, FaultsBounded, EndInvariant
  <2> QED  BY <1>2, <2>2, <2>3 DEF RelayDeliverable
<1>3. CASE PollEnd(h)
  <2> DEFINE r == [row[j] EXCEPT !.status = "DELIVERED", !.artifact = artifact]
  <2>1. job[j].status \in Funded /\ job[j].artifact = artifact
    BY <1>1, <1>3 DEF PollEnd, At, Held
  <2>2. r \in Row /\ Backed(j, r, job, training)
    BY <1>1, <2>1, HashAssumption DEF Row, RowStatuses, Backed
  <2>3. Held(Idle, job, thread, training)  BY DEF Held, Idle
  <2>4. /\ row' = [row EXCEPT ![j] = r] /\ Goes(h, Idle)
        /\ UNCHANGED <<chain, thread, latest, training, faults>>
    BY <1>3 DEF PollEnd, Ends
  <2> QED  BY <1>1, <2>2, <2>3, <2>4, WriteInvariant
<1> QED  BY <1>2, <1>3

\* Steps of no handler.
LEMMA OthersInvariant ==
  ASSUME MarketInv, [MarketNext]_allVars, UNCHANGED <<row, work, faults>>,
         \/ \E j \in JobIds, p \in Providers : SignAgreement(j, p)
         \/ \E t \in Runs, state \in {"COMPLETED", "FAILED"} : TrainingEnds(t, state)
         \/ UNCHANGED <<thread, latest, training>>
  PROVE  MarketInv'
<1>1. IInv' /\ ChainGrows /\ (RunsGrow => DeliverablesSound') /\ faults' \in 0..MaxFaults
  BY ChainSound, FaultsBounded
<1>2. ASSUME ThreadsSound', ThreadsGrow, RunsSound', RunsGrow PROVE MarketInv'
  <2>1. Grows  BY <1>1, <1>2 DEF Grows
  <2> QED  BY <1>1, <1>2, <2>1, HandlersKept, RowsKept DEF MarketInv
<1>3. ASSUME NEW j \in JobIds, NEW p \in Providers, SignAgreement(j, p) PROVE MarketInv'
  <2>1. ThreadsSound' /\ ThreadsGrow  BY <1>3, ThreadSigned DEF SignAgreement
  <2>2. RunsSound' /\ RunsGrow  BY <1>1, <1>3, RunsKept DEF SignAgreement
  <2> QED  BY <1>2, <2>1, <2>2
<1>4. ASSUME NEW t \in Runs, NEW state \in {"COMPLETED", "FAILED"}, TrainingEnds(t, state)
      PROVE  MarketInv'
  <2>1. ThreadsSound' /\ ThreadsGrow  BY <1>4, ThreadsKept DEF TrainingEnds
  <2>2. UNCHANGED job  BY <1>4 DEF TrainingEnds, chain, vars
  <2>3. /\ training \in [Runs -> TrainingJobs] /\ WorkIsPaidFor
        /\ training[t].state = "QUEUED" /\ training' = [training EXCEPT ![t].state = state]
    BY <1>4 DEF TrainingEnds, MarketInv, RunsSound
  <2>4. training[t] \in StartedRuns /\ training[t] # Unqueued
    BY <2>3 DEF TrainingJobs, Unqueued, StartedRuns
  <2>5. /\ training'[t] \in StartedRuns /\ training'[t].job = training[t].job
        /\ training'[t] \in TrainingJobs
        /\ \A s \in Runs : s # t => training'[s] = training[s]
    BY <2>3, <2>4 DEF StartedRuns, TrainingJobs
  <2>6. RunsGrow  BY <2>3, <2>5 DEF RunsGrow
  <2>7. training' \in [Runs -> TrainingJobs]  BY <2>3, <2>5
  <2>8. WorkIsPaidFor'  BY <2>2, <2>3, <2>4, <2>5 DEF WorkIsPaidFor
  <2> QED  BY <1>2, <2>1, <2>6, <2>7, <2>8 DEF RunsSound
<1>5. CASE UNCHANGED <<thread, latest, training>>
  BY <1>1, <1>2, <1>5, ThreadsKept, RunsKept
<1> QED  BY <1>3, <1>4, <1>5

LEMMA MarketInitInvariant == MarketInit => MarketInv
<1> SUFFICES ASSUME MarketInit PROVE MarketInv  OBVIOUS
<1>1. IInv  BY InitInvariant DEF MarketInit
<1>2. HandlersSound
  BY DEF MarketInit, HandlersSound, Held, Idle
<1>3. RowsSound
  BY DEF MarketInit, RowsSound, Row, RowStatuses, Backed
<1>4. ThreadsSound
  BY DEF MarketInit, ThreadsSound, Threads
<1>5. RunsSound
  BY DEF MarketInit, RunsSound, TrainingJobs, WorkIsPaidFor
<1>6. DeliverablesSound
  BY DEF MarketInit, Init, BlankJob, DeliverablesSound
<1>7. faults \in 0..MaxFaults  BY MarketNumbers DEF MarketInit
<1> QED  BY <1>1, <1>2, <1>3, <1>4, <1>5, <1>6, <1>7 DEF MarketInv

LEMMA MarketStepInvariant == MarketInv /\ [MarketNext]_allVars => MarketInv'
<1> SUFFICES ASSUME MarketInv, [MarketNext]_allVars PROVE MarketInv'  OBVIOUS
<1>1. ASSUME NEW h \in Handlers, Arrives(h) PROVE MarketInv'
  BY <1>1, ArrivalInvariant
<1>2. ASSUME NEW h \in Handlers, Continues(h) PROVE MarketInv'
  BY <1>2, ConfirmInvariant, OpenInvariant, FundInvariant, StartInvariant, PollInvariant
  DEF Continues
<1>3. ASSUME NEW h \in Handlers, Abandon(h) PROVE MarketInv'
  BY <1>3, FaultsBounded, EndInvariant DEF Abandon
<1>4. ASSUME NEW j \in JobIds, NEW p \in Providers, SignAgreement(j, p) PROVE MarketInv'
  BY <1>4, OthersInvariant DEF SignAgreement
<1>5. ASSUME NEW t \in Runs, NEW state \in {"COMPLETED", "FAILED"}, TrainingEnds(t, state)
      PROVE  MarketInv'
  BY <1>5, OthersInvariant DEF TrainingEnds
<1>6. CASE Elsewhere
  BY <1>6, OthersInvariant DEF Elsewhere, market
<1>7. CASE UNCHANGED allVars
  BY <1>7, OthersInvariant DEF allVars, market
<1> QED  BY <1>1, <1>2, <1>3, <1>4, <1>5, <1>6, <1>7 DEF MarketNext

-----------------------------------------------------------------------------
(* The theorems.                                                           *)

\* The invariant of the marketplace, for every behaviour: what the chain, the
\* rows, the threads, the training runs and the handlers' copies say of each other.
THEOREM MarketInvariance == MarketSpec => []MarketInv
<1> QED  BY MarketInitInvariant, MarketStepInvariant, PTL DEF MarketSpec

\* Whatever requests, timers, faults and rivals do, the chain goes through a
\* behaviour of the contract: each theorem about A2AJobEscrow holds here too.
THEOREM MarketFollowsContract == MarketSpec => Spec
<1>1. MarketInit => Init  BY DEF MarketInit
<1>2. MarketInv /\ [MarketNext]_allVars => [Next]_vars  BY ChainSound
<1> QED  BY <1>1, <1>2, MarketInvariance, PTL DEF MarketSpec, Spec

\* A row, however late and in whatever order its writes arrive, never shows a
\* job further than the chain has it.
THEOREM RowsNeverAhead == MarketSpec => []NeverAheadOfChain
<1>1. MarketInv => NeverAheadOfChain
  BY DEF MarketInv, RowsSound, Backed, NeverAheadOfChain
<1> QED  BY <1>1, MarketInvariance, PTL

\* Every training run was queued for a job whose price the escrow had received.
THEOREM EveryRunPaidFor == MarketSpec => []WorkIsPaidFor
<1>1. MarketInv => WorkIsPaidFor  BY DEF MarketInv, RunsSound
<1> QED  BY <1>1, MarketInvariance, PTL

\* However many runs and polls a job has, its deliverable on the chain is one
\* completed run's product and the row names that deliverable or none.
THEOREM CommittedIsDelivered == MarketSpec => []DeliveredAsCommitted
<1>1. MarketInv => DeliveredAsCommitted
  <2> SUFFICES ASSUME MarketInv PROVE DeliveredAsCommitted  OBVIOUS
  <2>1. Unqueued \notin StartedRuns  BY DEF Unqueued, StartedRuns
  <2>2. ASSUME NEW j \in JobIds, job[j].artifact # NoArtifact
        PROVE  \E t \in Runs :
                 /\ training[t] # Unqueued /\ training[t].job = j
                 /\ training[t].state = "COMPLETED" /\ Product[t] = job[j].artifact
    BY <2>1, <2>2 DEF MarketInv, DeliverablesSound, Produced, StartedFor
  <2>3. ASSUME NEW j \in JobIds, row[j].artifact # NoArtifact PROVE row[j].artifact = job[j].artifact
    BY <2>3 DEF MarketInv, RowsSound, Backed
  <2> QED  BY <2>2, <2>3 DEF DeliveredAsCommitted
<1> QED  BY <1>1, MarketInvariance, PTL

\* The marketplace's variables keep their types.
THEOREM MarketTypeCorrect == MarketSpec => []MarketTypeOK
<1>1. MarketInv => MarketTypeOK
  <2> SUFFICES ASSUME MarketInv PROVE MarketTypeOK  OBVIOUS
  <2>1. ASSUME NEW h \in Handlers
        PROVE  /\ ~At(h, "idle") => work[h].job \in JobIds
               /\ work[h].step \in {"delivering", "delivered"} => work[h].artifact \in Artifacts
    BY DEF MarketInv, HandlersSound, Held, At
  <2> QED  BY <2>1 DEF MarketInv, RowsSound, ThreadsSound, RunsSound, MarketTypeOK
<1> QED  BY <1>1, MarketInvariance, PTL

=============================================================================
