---------------------------- MODULE Subscription ----------------------------
(***************************************************************************)
(* contracts/evm/contracts/creator/CreatorStudioSubscription.sol: time on  *)
(* a paid tier bought from a wallet, from prepaid credit under a signed    *)
(* request, or by a relayer's renewal.                                     *)
(*                                                                         *)
(* A transaction is one action.  The address of the treasury and the       *)
(* counters kept for statistics are left out.                              *)
(***************************************************************************)
EXTENDS Integers, FiniteSets, Units

CONSTANTS
  Accounts,
  Requests,       \* the SubscribeRequests that accounts may sign
  Period,         \* PERIOD, 30 days
  RenewWindow,    \* RENEW_WINDOW, 3 days
  MaxPeriods,     \* MAX_PERIODS
  SecondsModulus, \* 2^64: expiries and carried seconds are uint64
  MaxTierPrice,   \* MAX_TIER_PRICE
  InitialPrice,   \* the prices set by the constructor
  Prices,         \* prices the admin asks for
  InitialWallet,  \* 0G of each account
  MaxTime         \* bound: the time that passes

Tiers == {"Free", "Plus", "Pro"}
PaidTiers == {"Plus", "Pro"}

ASSUME SubscriptionAssumption ==
  /\ Period \in Nat \ {0} /\ RenewWindow \in 0..Period
  /\ MaxPeriods \in Nat \ {0} /\ MaxTierPrice \in Nat \ {0}
  /\ InitialPrice \in [Tiers -> 0..MaxTierPrice]
  /\ InitialPrice["Free"] = 0 /\ \A t \in PaidTiers : InitialPrice[t] > 0
  /\ Prices \subseteq Nat /\ InitialWallet \in [Accounts -> Nat]
  /\ SecondsModulus \in Nat \ {0} /\ MaxTime \in 0..(SecondsModulus - 1)
  /\ Requests \subseteq [account : Accounts, tier : Tiers, periods : 0..255, autoRenew : BOOLEAN,
                         maxCost : Nat, nonce : Nat, deadline : Nat]

VARIABLES
  price,        \* _tierPrice
  sub,          \* _subscriptions
  credit,
  totalCredit,
  balance,      \* 0G of the contract
  wallet,       \* 0G of the accounts
  collected,    \* totalCollected, forwarded to the treasury
  nonce,        \* nonces
  signed,       \* the requests signed so far
  charged,      \* what has been charged to credit under each request
  renewedAt,    \* when the relayer last renewed an account on its present tier
  subPaused,
  now

subVars ==
  <<price, sub, credit, totalCredit, balance, wallet, collected, nonce, signed, charged,
    renewedAt, subPaused, now>>

NoExpiry == SecondsModulus - 1   \* type(uint64).max
Never == -1

SubInit ==
  /\ price = InitialPrice
  /\ sub = [a \in Accounts |-> [tier |-> "Free", started |-> FALSE, expiresAt |-> 0, autoRenew |-> FALSE]]
  /\ credit = [a \in Accounts |-> 0]
  /\ totalCredit = 0 /\ balance = 0 /\ collected = 0
  /\ wallet = InitialWallet
  /\ nonce = [a \in Accounts |-> 0]
  /\ signed = {}
  /\ charged = [r \in Requests |-> 0]
  /\ renewedAt = [a \in Accounts |-> Never]
  /\ subPaused = FALSE
  /\ now = 0

-----------------------------------------------------------------------------
(* Prices and time: _quote, _carryOverSeconds, _applySubscription.         *)

Sells(tier, periods) ==
  \/ tier = "Free" /\ periods = 0
  \/ tier \in PaidTiers /\ periods \in 1..MaxPeriods

Cost(tier, periods) == price[tier] * periods

HasTimeLeft(s) == s.tier # "Free" /\ s.expiresAt # NoExpiry /\ s.expiresAt > now

\* Time left on another tier taken over second for second.
SecondsLeft(s, tier) == IF HasTimeLeft(s) THEN s.expiresAt - now ELSE 0

\* The quotient is a uint256, and the cast to uint64 keeps its low bits.
CarryOverSeconds(s, tier) ==
  IF HasTimeLeft(s)
  THEN (((s.expiresAt - now) * price[s.tier]) \div price[tier]) % SecondsModulus
  ELSE 0

Expiry(s, tier, periods) ==
  IF tier = "Free" THEN NoExpiry
  ELSE IF s.tier = tier /\ HasTimeLeft(s) THEN s.expiresAt + periods * Period
  ELSE now + periods * Period + CarryOverSeconds(s, tier)

\* The sum is checked: a purchase whose expiry does not fit reverts.
ExpiryFits(s, tier, periods) == Expiry(s, tier, periods) < SecondsModulus

Applied(s, tier, periods, autoRenew) ==
  [tier |-> tier, started |-> TRUE, expiresAt |-> Expiry(s, tier, periods), autoRenew |-> autoRenew]

\* The time of the last renewal counts as long as the tier stays.
KeepsRenewal(a, tier) ==
  renewedAt' = [renewedAt EXCEPT ![a] = IF sub[a].tier = tier THEN @ ELSE Never]

-----------------------------------------------------------------------------
(* Paid from a wallet, for oneself or another.                             *)

Subscribe(payer, a, tier, periods, value) ==
  LET cost == Cost(tier, periods)
  IN  /\ ~subPaused
      /\ Sells(tier, periods)
      /\ cost <= value /\ value <= wallet[payer]
      /\ ExpiryFits(sub[a], tier, periods)
      /\ wallet' = [wallet EXCEPT ![payer] = @ - value]
      /\ credit' = [credit EXCEPT ![a] = @ + (value - cost)]
      /\ totalCredit' = totalCredit + (value - cost)
      /\ balance' = balance + (value - cost)
      /\ collected' = collected + cost
      /\ sub' = [sub EXCEPT ![a] = Applied(@, tier, periods, @.autoRenew)]
      /\ KeepsRenewal(a, tier)
      /\ UNCHANGED <<price, nonce, signed, charged, subPaused, now>>

\* depositCredit, depositCreditFor and a plain transfer to the contract.
DepositCredit(payer, a, value) ==
  /\ 0 < value /\ value <= wallet[payer]
  /\ wallet' = [wallet EXCEPT ![payer] = @ - value]
  /\ credit' = [credit EXCEPT ![a] = @ + value]
  /\ totalCredit' = totalCredit + value
  /\ balance' = balance + value
  /\ UNCHANGED <<price, sub, collected, nonce, signed, charged, renewedAt, subPaused, now>>

WithdrawCredit(a, amount) ==
  /\ 0 < amount /\ amount <= credit[a]
  /\ credit' = [credit EXCEPT ![a] = @ - amount]
  /\ totalCredit' = totalCredit - amount
  /\ balance' = balance - amount
  /\ wallet' = [wallet EXCEPT ![a] = @ + amount]
  /\ UNCHANGED <<price, sub, collected, nonce, signed, charged, renewedAt, subPaused, now>>

-----------------------------------------------------------------------------
(* Paid from credit, in the relayer's transactions.                        *)

SpendsCredit(a, cost) ==
  /\ cost <= credit[a]
  /\ credit' = [credit EXCEPT ![a] = @ - cost]
  /\ totalCredit' = totalCredit - cost
  /\ balance' = balance - cost
  /\ collected' = collected + cost
  /\ UNCHANGED wallet

Sign(r) ==
  /\ r \notin signed
  /\ signed' = signed \cup {r}
  /\ UNCHANGED <<price, sub, credit, totalCredit, balance, wallet, collected, nonce, charged,
                 renewedAt, subPaused, now>>

\* A nonce that has not been used, but is not used up either.
NonceUnspent(r) == nonce[r.account] = r.nonce /\ UNCHANGED nonce
UseNonce(r) == nonce[r.account] = r.nonce /\ nonce' = [nonce EXCEPT ![r.account] = @ + 1]

SubscribeWithSignature(r) ==
  LET a == r.account
      cost == Cost(r.tier, r.periods)
  IN  /\ ~subPaused
      /\ r \in signed /\ now <= r.deadline
      /\ UseNonce(r)
      /\ Sells(r.tier, r.periods) /\ cost <= r.maxCost
      /\ SpendsCredit(a, cost)
      /\ ExpiryFits(sub[a], r.tier, r.periods)
      /\ sub' = [sub EXCEPT ![a] = Applied(@, r.tier, r.periods, r.autoRenew)]
      /\ charged' = [charged EXCEPT ![r] = @ + cost]
      /\ KeepsRenewal(a, r.tier)
      /\ UNCHANGED <<price, signed, subPaused, now>>

\* Due while the subscription runs at all.
DueAtAnyTime(a) == sub[a].expiresAt > now
Due(a) == sub[a].expiresAt <= now + RenewWindow

RenewFromCredit(a) ==
  LET tier == sub[a].tier
  IN  /\ ~subPaused
      /\ sub[a].autoRenew /\ tier # "Free" /\ sub[a].started
      /\ Due(a)
      /\ SpendsCredit(a, price[tier])
      /\ ExpiryFits(sub[a], tier, 1)
      /\ sub' = [sub EXCEPT ![a] = Applied(@, tier, 1, TRUE)]
      /\ renewedAt' = [renewedAt EXCEPT ![a] = now]
      /\ UNCHANGED <<price, nonce, signed, charged, subPaused, now>>

SetAutoRenew(a, enabled) ==
  /\ sub[a].autoRenew # enabled
  /\ sub' = [sub EXCEPT ![a].autoRenew = enabled]
  /\ UNCHANGED <<price, credit, totalCredit, balance, wallet, collected, nonce, signed, charged,
                 renewedAt, subPaused, now>>

-----------------------------------------------------------------------------
(* The admin, strangers and the clock.                                     *)

SetTierPrice(tier, newPrice) ==
  /\ tier \in PaidTiers /\ newPrice \in 1..MaxTierPrice
  /\ price' = [price EXCEPT ![tier] = newPrice]
  /\ UNCHANGED <<sub, credit, totalCredit, balance, wallet, collected, nonce, signed, charged,
                 renewedAt, subPaused, now>>

SetSubPause(on) ==
  /\ subPaused = ~on
  /\ subPaused' = on
  /\ UNCHANGED <<price, sub, credit, totalCredit, balance, wallet, collected, nonce, signed, charged,
                 renewedAt, now>>

\* 0G that arrives without a call (selfdestruct) is nobody's credit.
ForceSend(a, value) ==
  /\ 0 < value /\ value <= wallet[a]
  /\ wallet' = [wallet EXCEPT ![a] = @ - value]
  /\ balance' = balance + value
  /\ UNCHANGED <<price, sub, credit, totalCredit, collected, nonce, signed, charged, renewedAt,
                 subPaused, now>>

\* The whole balance.
SweepableAll == balance
Sweepable == IF balance > totalCredit THEN balance - totalCredit ELSE 0

Sweep ==
  /\ Sweepable > 0
  /\ balance' = balance - Sweepable
  /\ UNCHANGED <<price, sub, credit, totalCredit, wallet, collected, nonce, signed, charged,
                 renewedAt, subPaused, now>>

Tick ==
  /\ now < MaxTime
  /\ now' = now + 1
  /\ UNCHANGED <<price, sub, credit, totalCredit, balance, wallet, collected, nonce, signed, charged,
                 renewedAt, subPaused>>

-----------------------------------------------------------------------------

Buys(payer, a) ==
  \/ \E tier \in Tiers, periods \in 0..MaxPeriods, value \in 0..wallet[payer] :
       Subscribe(payer, a, tier, periods, value)
  \/ \E value \in 1..wallet[payer] : DepositCredit(payer, a, value)

SubNext ==
  \/ \E payer, a \in Accounts : Buys(payer, a)
  \/ \E a \in Accounts :
       \/ \E amount \in 1..credit[a] : WithdrawCredit(a, amount)
       \/ RenewFromCredit(a)
       \/ \E enabled \in BOOLEAN : SetAutoRenew(a, enabled)
       \/ \E value \in 1..wallet[a] : ForceSend(a, value)
  \/ \E r \in Requests : Sign(r) \/ SubscribeWithSignature(r)
  \/ \E tier \in Tiers, newPrice \in Prices : SetTierPrice(tier, newPrice)
  \/ \E on \in BOOLEAN : SetSubPause(on)
  \/ Sweep
  \/ Tick

SubSpec == SubInit /\ [][SubNext]_subVars

-----------------------------------------------------------------------------
(* Properties.                                                             *)

Sub == [tier : Tiers, started : BOOLEAN, expiresAt : 0..NoExpiry, autoRenew : BOOLEAN]

SubTypeOK ==
  /\ price \in [Tiers -> 0..MaxTierPrice]
  /\ sub \in [Accounts -> Sub]
  /\ credit \in [Accounts -> Nat] /\ wallet \in [Accounts -> Nat]
  /\ totalCredit \in Nat /\ balance \in Nat /\ collected \in Nat
  /\ nonce \in [Accounts -> Nat]
  /\ signed \subseteq Requests
  /\ charged \in [Requests -> Nat]
  /\ renewedAt \in [Accounts -> Nat \cup {Never}]
  /\ subPaused \in BOOLEAN
  /\ now \in Nat

(* "Credit is a strict liability": totalCredit is the sum of all credits,  *)
(* and the contract holds it, whatever is bought, withdrawn, forced in or  *)
(* swept (_addCredit, _spendCredit, sweep).                                *)
CreditBacked == totalCredit = Cardinality(UnitsOf(credit)) /\ totalCredit <= balance

(* A signed request never costs its signer more than its maxCost, however  *)
(* often it is relayed and whatever happens to prices in between           *)
(* (subscribeWithSignature).                                               *)
ChargedAsSigned == \A r \in Requests : charged[r] <= r.maxCost

(* "a relayer cannot drain a consenting user's credit early or in bulk":   *)
(* on one tier, two renewals of an account are at least a period less the  *)
(* window apart (renewFromCredit).                                         *)
RenewalsSpaced ==
  [][\A a \in Accounts :
       (renewedAt[a] # Never /\ renewedAt'[a] # Never /\ credit'[a] < credit[a] /\ sub'[a] # sub[a]
          /\ nonce' = nonce)
         => now >= renewedAt[a] + Period - RenewWindow]_subVars

\* What is left of a subscription at the price of its tier, times Period.
Worth(a) ==
  IF sub[a].tier = "Free" \/ sub[a].expiresAt <= now THEN 0
  ELSE (sub[a].expiresAt - now) * price[sub[a].tier]

\* What is left is worth fewer seconds of a tier than a uint64 holds.
Representable(a, tier) ==
  sub[a].expiresAt # NoExpiry /\ Worth(a) \div price[tier] < SecondsModulus

(* "Upgrading or downgrading never destroys value", where that is true:    *)
(* a purchase of a paid tier never makes an account's time worth more than *)
(* it was and what was collected, and while the time left fits into uint64 *)
(* seconds of the new tier it loses less than one of them.  Beyond that    *)
(* the cast of _carryOverSeconds drops 2^64 seconds at a time, and value   *)
(* is destroyed (_applySubscription, _carryOverSeconds).                   *)
ValueKept ==
  [][\A a \in Accounts :
       (sub'[a] # sub[a] /\ sub'[a].tier # "Free") =>
         LET tier == sub'[a].tier
             due == Worth(a) + (collected' - collected) * Period
         IN  /\ Worth(a)' <= due
             /\ Representable(a, tier) => due < Worth(a)' + price[tier]]_subVars

=============================================================================
