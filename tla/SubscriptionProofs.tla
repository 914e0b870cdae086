-------------------------- MODULE SubscriptionProofs --------------------------
(***************************************************************************)
(* What holds of CreatorStudioSubscription for every set of accounts, of   *)
(* requests and of prices, and for all time: the credit it owes is the sum *)
(* of the accounts' credits and is there, a signed request costs at most   *)
(* what it allows, renewals keep their distance, and no purchase of a paid *)
(* tier creates value, or destroys it while the time fits into uint64.     *)
(***************************************************************************)
EXTENDS Subscription, UnitsProofs

\* A paid tier always has a price.
Priced == \A t \in PaidTiers : price[t] > 0

\* The credit on the books is the sum of the accounts' credits, and is held.
CreditSummed == SumIs(credit, totalCredit) /\ totalCredit <= balance

\* A request that has been charged has used its nonce up.
ChargedOnce ==
  \A r \in Requests :
    charged[r] = 0 \/ (charged[r] <= r.maxCost /\ nonce[r.account] > r.nonce)

\* Since its last renewal an account is paid up for a period at least.
RenewedIsPaid ==
  \A a \in Accounts : renewedAt[a] # Never =>
    /\ renewedAt[a] <= now
    /\ sub[a].tier # "Free" /\ sub[a].expiresAt >= renewedAt[a] + Period

SubInv == SubTypeOK /\ Priced /\ CreditSummed /\ ChargedOnce /\ RenewedIsPaid

-----------------------------------------------------------------------------
(* Arithmetic.                                                             *)

LEMMA TimesNat == ASSUME NEW x \in Nat, NEW y \in Nat PROVE x * y \in Nat
OBVIOUS

LEMMA TimesSum ==
  ASSUME NEW x \in Int, NEW y \in Int, NEW z \in Int
  PROVE  (x + y) * z = x * z + y * z
OBVIOUS

LEMMA DivIs ==
  ASSUME NEW x \in Nat, NEW p \in Nat, p > 0
  PROVE  /\ x \div p \in Nat
         /\ (x \div p) * p <= x /\ x < (x \div p) * p + p
OBVIOUS

LEMMA TimesMonotone ==
  ASSUME NEW x \in Nat, NEW y \in Nat, NEW p \in Nat, x <= y
  PROVE  x * p <= y * p
<1>1. PICK d \in Nat : d = y - x  OBVIOUS
<1>2. y * p = x * p + d * p  BY <1>1, TimesSum
<1>3. d * p \in Nat /\ x * p \in Nat  BY <1>1, TimesNat
<1> QED  BY <1>2, <1>3

LEMMA ModIs ==
  ASSUME NEW x \in Nat, NEW m \in Nat, m > 0
  PROVE  /\ x % m \in Nat /\ x % m <= x
         /\ x < m => x % m = x
OBVIOUS

\* The price of some periods, times a period.
LEMMA PriceOfTime ==
  ASSUME NEW p \in Nat, NEW k \in Nat, NEW t \in Nat
  PROVE  (k * t) * p = (p * k) * t
OBVIOUS

-----------------------------------------------------------------------------
(* The pieces that operations share.                                       *)

LEMMA SubInvInit == SubInit => SubInv
<1> SUFFICES ASSUME SubInit PROVE SubInv  OBVIOUS
<1> USE SubscriptionAssumption DEF SubInit
<1>1. SubTypeOK
  <2>1. 0 \in 0..NoExpiry  BY DEF NoExpiry
  <2>2. sub \in [Accounts -> Sub]  BY <2>1 DEF Sub, Tiers
  <2> QED  BY <2>2 DEF SubTypeOK, Never
<1>2. SumIs(credit, 0)
  <2>1. credit \in [Accounts -> Nat] /\ \A a \in Accounts : credit[a] = 0  OBVIOUS
  <2> QED  BY <2>1, SumOfZeros
<1>3. Priced /\ CreditSummed  BY <1>2 DEF Priced, CreditSummed
<1>4. ChargedOnce /\ RenewedIsPaid
  BY DEF ChargedOnce, RenewedIsPaid, Never
<1> QED  BY <1>1, <1>3, <1>4 DEF SubInv

LEMMA CreditAdded ==
  ASSUME SubInv, NEW a \in Accounts, NEW v \in Nat,
         credit' = [credit EXCEPT ![a] = @ + v],
         totalCredit' = totalCredit + v, balance' = balance + v
  PROVE  /\ CreditSummed'
         /\ credit' \in [Accounts -> Nat] /\ totalCredit' \in Nat /\ balance' \in Nat
<1>1. /\ credit \in [Accounts -> Nat] /\ totalCredit \in Nat /\ balance \in Nat
      /\ SumIs(credit, totalCredit) /\ totalCredit <= balance
  BY DEF SubInv, SubTypeOK, CreditSummed
<1>2. credit[a] \in Nat /\ credit[a] + v \in Nat /\ credit' = [credit EXCEPT ![a] = credit[a] + v]
  BY <1>1
<1>3. SumIs(credit', totalCredit - credit[a] + (credit[a] + v))
  BY <1>1, <1>2, SumChanges
<1>4. totalCredit - credit[a] + (credit[a] + v) = totalCredit'  BY <1>1, <1>2
<1>5. totalCredit' <= balance' /\ totalCredit' \in Nat /\ balance' \in Nat  BY <1>1
<1>6. credit' \in [Accounts -> Nat]  BY <1>1, <1>2
<1>7. SumIs(credit, totalCredit)'  BY <1>3, <1>4 DEF SumIs
<1> QED  BY <1>5, <1>6, <1>7 DEF CreditSummed

LEMMA CreditTaken ==
  ASSUME SubInv, NEW a \in Accounts, NEW v \in Nat, v <= credit[a],
         credit' = [credit EXCEPT ![a] = @ - v],
         totalCredit' = totalCredit - v, balance' = balance - v
  PROVE  /\ CreditSummed'
         /\ credit' \in [Accounts -> Nat] /\ totalCredit' \in Nat /\ balance' \in Nat
<1>1. /\ credit \in [Accounts -> Nat] /\ totalCredit \in Nat /\ balance \in Nat
      /\ SumIs(credit, totalCredit) /\ totalCredit <= balance
  BY DEF SubInv, SubTypeOK, CreditSummed
<1>2. credit[a] \in Nat /\ credit[a] - v \in Nat /\ credit' = [credit EXCEPT ![a] = credit[a] - v]
  BY <1>1
<1>3. credit[a] <= totalCredit /\ SumIs(credit', totalCredit - credit[a] + (credit[a] - v))
  BY <1>1, <1>2, SumChanges
<1>4. totalCredit - credit[a] + (credit[a] - v) = totalCredit'  BY <1>1, <1>2
<1>5. totalCredit' <= balance' /\ totalCredit' \in Nat /\ balance' \in Nat  BY <1>1, <1>2, <1>3
<1>6. credit' \in [Accounts -> Nat]  BY <1>1, <1>2
<1>7. SumIs(credit, totalCredit)'  BY <1>3, <1>4 DEF SumIs
<1> QED  BY <1>5, <1>6, <1>7 DEF CreditSummed

LEMMA ExpiryNat ==
  ASSUME SubInv, NEW a \in Accounts
  PROVE  sub[a] \in Sub /\ sub[a].tier \in Tiers /\ sub[a].expiresAt \in Nat
<1>1. sub[a] \in Sub /\ NoExpiry \in Nat
  BY SubscriptionAssumption DEF SubInv, SubTypeOK, NoExpiry
<1> QED  BY <1>1 DEF Sub

\* The seconds carried over: what the old time is worth in new seconds, less
\* the multiples of the modulus that the cast drops.
LEMMA CarryOver ==
  ASSUME SubInv, NEW a \in Accounts, NEW tier \in PaidTiers
  PROVE  /\ CarryOverSeconds(sub[a], tier) \in Nat /\ Worth(a) \in Nat
         /\ CarryOverSeconds(sub[a], tier) * price[tier] <= Worth(a)
         /\ Representable(a, tier) =>
              Worth(a) < CarryOverSeconds(sub[a], tier) * price[tier] + price[tier]
<1>1. /\ now \in Nat /\ price \in [Tiers -> 0..MaxTierPrice] /\ MaxTierPrice \in Nat
      /\ SecondsModulus \in Nat /\ SecondsModulus > 0
  BY SubscriptionAssumption DEF SubInv, SubTypeOK
<1>2. sub[a].expiresAt \in Nat /\ sub[a].tier \in Tiers  BY ExpiryNat
<1>3. PICK p \in Nat : p = price[tier] /\ p > 0
  BY <1>1 DEF SubInv, Priced, PaidTiers, Tiers
<1>4. PICK q \in Nat : q = price[sub[a].tier]  BY <1>1, <1>2
<1>5. CASE HasTimeLeft(sub[a])
  <2>1. PICK left \in Nat : left = sub[a].expiresAt - now  BY <1>1, <1>2, <1>5 DEF HasTimeLeft
  <2>2. PICK w \in Nat : w = left * q  BY TimesNat
  <2>3. Worth(a) = w  BY <1>1, <1>2, <1>4, <1>5, <2>1, <2>2 DEF Worth, HasTimeLeft
  <2>4. PICK whole \in Nat : whole = w \div p  BY <1>3, DivIs
  <2>5. CarryOverSeconds(sub[a], tier) = whole % SecondsModulus
    BY <1>3, <1>4, <1>5, <2>1, <2>2, <2>4 DEF CarryOverSeconds
  <2>6. PICK carried \in Nat : carried = whole % SecondsModulus  BY <1>1, ModIs
  <2>7. carried <= whole /\ (whole < SecondsModulus => carried = whole)  BY <1>1, <2>6, ModIs
  <2>8. carried * p <= whole * p  BY <2>7, TimesMonotone
  <2>9. whole * p <= w /\ w < whole * p + p  BY <1>3, <2>4, DivIs
  <2>10. carried * p \in Nat /\ whole * p \in Nat  BY TimesNat
  <2>11. carried * p <= w  BY <2>8, <2>9, <2>10
  <2>12. ASSUME Representable(a, tier) PROVE w < carried * p + p
    <3>1. whole < SecondsModulus  BY <1>3, <2>3, <2>4, <2>12 DEF Representable
    <3> QED  BY <2>7, <2>9, <3>1
  <2> QED  BY <1>3, <2>3, <2>5, <2>6, <2>11, <2>12
<1>6. CASE ~HasTimeLeft(sub[a])
  <2>1. CarryOverSeconds(sub[a], tier) = 0  BY <1>6 DEF CarryOverSeconds
  <2>2. 0 * p = 0  OBVIOUS
  <2>3. CASE sub[a].tier = "Free" \/ sub[a].expiresAt <= now
    BY <1>3, <2>1, <2>2, <2>3 DEF Worth
  <2>4. CASE ~(sub[a].tier = "Free" \/ sub[a].expiresAt <= now)
    <3>1. PICK left \in Nat : left = sub[a].expiresAt - now  BY <1>1, <1>2, <2>4
    <3>2. Worth(a) = left * q  BY <1>4, <2>4, <3>1 DEF Worth
    <3>3. left * q \in Nat  BY TimesNat
    <3>4. ~Representable(a, tier)  BY <1>1, <1>2, <1>6, <2>4 DEF Representable, HasTimeLeft
    <3> QED  BY <1>3, <2>1, <2>2, <3>2, <3>3, <3>4
  <2> QED  BY <2>3, <2>4
<1> QED  BY <1>5, <1>6

\* What Applied makes of a subscription: on a paid tier it runs for the periods
\* bought at least.
LEMMA AppliedRuns ==
  ASSUME SubInv, NEW a \in Accounts, NEW tier \in Tiers, NEW periods \in Nat,
         NEW autoRenew \in BOOLEAN, Sells(tier, periods), ExpiryFits(sub[a], tier, periods),
         NEW s, s = Applied(sub[a], tier, periods, autoRenew)
  PROVE  /\ s \in Sub /\ s.tier = tier
         /\ tier # "Free" =>
              /\ s.expiresAt \in Nat /\ s.expiresAt >= now + Period
              /\ sub[a].tier = tier /\ HasTimeLeft(sub[a]) =>
                   s.expiresAt = sub[a].expiresAt + periods * Period
              /\ ~(sub[a].tier = tier /\ HasTimeLeft(sub[a])) =>
                   s.expiresAt = now + periods * Period + CarryOverSeconds(sub[a], tier)
              /\ periods > 0 /\ periods * Period \in Nat
<1>1. /\ sub[a] \in Sub /\ sub[a].expiresAt \in Nat /\ now \in Nat
      /\ Period \in Nat /\ Period > 0 /\ SecondsModulus \in Nat /\ SecondsModulus > 0
  BY SubscriptionAssumption, ExpiryNat DEF SubInv, SubTypeOK
<1>2. s.tier = tier /\ s.started = TRUE /\ s.autoRenew = autoRenew
      /\ s.expiresAt = Expiry(sub[a], tier, periods) /\ s.expiresAt < SecondsModulus
      /\ s = [tier |-> tier, started |-> TRUE, expiresAt |-> s.expiresAt, autoRenew |-> autoRenew]
  BY DEF Applied, ExpiryFits
<1>3. s.expiresAt \in Nat => s \in Sub
  <2>1. s.expiresAt \in Nat => s.expiresAt \in 0..NoExpiry  BY <1>1, <1>2 DEF NoExpiry
  <2> QED  BY <1>2, <2>1 DEF Sub
<1>4. CASE tier = "Free"
  <2>1. s.expiresAt = NoExpiry /\ NoExpiry \in Nat  BY <1>1, <1>2, <1>4 DEF Expiry, NoExpiry
  <2> QED  BY <1>2, <1>3, <1>4, <2>1
<1>5. CASE tier # "Free"
  <2>1. periods > 0 /\ tier \in PaidTiers  BY <1>5 DEF Sells, PaidTiers
  <2>2. periods * Period \in Nat /\ periods * Period >= Period
    <3>1. periods - 1 \in Nat /\ (periods - 1) * Period \in Nat  BY <1>1, <2>1, TimesNat
    <3>2. periods * Period = (periods - 1) * Period + Period  BY <1>1
    <3> QED  BY <1>1, <3>1, <3>2
  <2>3. CarryOverSeconds(sub[a], tier) \in Nat  BY <2>1, CarryOver
  <2>4. CASE sub[a].tier = tier /\ HasTimeLeft(sub[a])
    <3>1. s.expiresAt = sub[a].expiresAt + periods * Period  BY <1>2, <1>5, <2>4 DEF Expiry
    <3>2. s.expiresAt \in Nat /\ s.expiresAt >= now + Period
      BY <1>1, <2>2, <2>4, <3>1 DEF HasTimeLeft
    <3> QED  BY <1>2, <1>3, <2>1, <2>2, <2>4, <3>1, <3>2
  <2>5. CASE ~(sub[a].tier = tier /\ HasTimeLeft(sub[a]))
    <3>1. s.expiresAt = now + periods * Period + CarryOverSeconds(sub[a], tier)
      BY <1>2, <1>5, <2>5 DEF Expiry
    <3>2. s.expiresAt \in Nat /\ s.expiresAt >= now + Period  BY <1>1, <2>2, <2>3, <3>1
    <3> QED  BY <1>2, <1>3, <2>1, <2>2, <2>5, <3>1, <3>2
  <2> QED  BY <2>4, <2>5
<1> QED  BY <1>4, <1>5

\* A subscription bought or renewed, and the mark of its last renewal.
LEMMA Resubscribed ==
  ASSUME SubInv, NEW a \in Accounts, NEW tier \in Tiers, NEW periods \in Nat,
         NEW autoRenew \in BOOLEAN, Sells(tier, periods), ExpiryFits(sub[a], tier, periods),
         sub' = [sub EXCEPT ![a] = Applied(sub[a], tier, periods, autoRenew)],
         KeepsRenewal(a, tier) \/ (tier # "Free" /\ renewedAt' = [renewedAt EXCEPT ![a] = now]),
         UNCHANGED now
  PROVE  /\ sub' \in [Accounts -> Sub] /\ renewedAt' \in [Accounts -> Nat \cup {Never}]
         /\ RenewedIsPaid'
<1>1. /\ sub \in [Accounts -> Sub] /\ renewedAt \in [Accounts -> Nat \cup {Never}] /\ now \in Nat
      /\ now' = now /\ Period \in Nat
  BY SubscriptionAssumption DEF SubInv, SubTypeOK
<1>2. PICK s : s = Applied(sub[a], tier, periods, autoRenew)  OBVIOUS
<1>3. /\ s \in Sub /\ s.tier = tier
      /\ tier # "Free" => s.expiresAt \in Nat /\ s.expiresAt >= now + Period
  BY <1>2, AppliedRuns
<1>4. sub' \in [Accounts -> Sub] /\ sub'[a] = s /\ \A x \in Accounts : x # a => sub'[x] = sub[x]
  BY <1>1, <1>2, <1>3
<1>5. PICK r \in Nat \cup {Never} :
        /\ renewedAt' = [renewedAt EXCEPT ![a] = r]
        /\ r = Never \/ (sub[a].tier = tier /\ r = renewedAt[a]) \/ (tier # "Free" /\ r = now)
  BY <1>1 DEF KeepsRenewal
<1>6. /\ renewedAt' \in [Accounts -> Nat \cup {Never}] /\ renewedAt'[a] = r
      /\ \A x \in Accounts : x # a => renewedAt'[x] = renewedAt[x]
  BY <1>1, <1>5
<1>7. ASSUME NEW x \in Accounts, renewedAt'[x] # Never
      PROVE  /\ renewedAt'[x] <= now'
             /\ sub'[x].tier # "Free" /\ sub'[x].expiresAt >= renewedAt'[x] + Period
  <2>1. CASE x # a  BY <1>1, <1>4, <1>6, <1>7, <2>1 DEF SubInv, RenewedIsPaid
  <2>2. CASE x = a /\ sub[a].tier = tier /\ r = renewedAt[a]
    <3>1. sub[a].tier # "Free" /\ renewedAt[a] <= now
      BY <1>6, <1>7, <2>2 DEF SubInv, RenewedIsPaid
    <3>2. renewedAt[a] \in Nat  BY <1>1, <1>6, <1>7, <2>2
    <3> QED  BY <1>1, <1>3, <1>4, <1>6, <2>2, <3>1, <3>2
  <2>3. CASE x = a /\ tier # "Free" /\ r = now  BY <1>1, <1>3, <1>4, <1>6, <2>3
  <2> QED  BY <1>5, <1>6, <1>7, <2>1, <2>2, <2>3
<1>8. RenewedIsPaid'  BY <1>7 DEF RenewedIsPaid
<1> QED  BY <1>4, <1>6, <1>8

\* An account keeps its subscription but for the wish to have it renewed.
LEMMA SubscriptionsStay ==
  ASSUME SubInv, UNCHANGED <<renewedAt, now>>,
         \A a \in Accounts : sub'[a].tier = sub[a].tier /\ sub'[a].expiresAt = sub[a].expiresAt
  PROVE  RenewedIsPaid'
BY DEF SubInv, RenewedIsPaid

-----------------------------------------------------------------------------
(* One lemma for each operation.                                           *)

LEMMA CostNat ==
  ASSUME SubInv, NEW tier \in Tiers, NEW periods \in Nat
  PROVE  Cost(tier, periods) \in Nat
<1>1. price[tier] \in Nat  BY SubscriptionAssumption DEF SubInv, SubTypeOK
<1> QED  BY <1>1, TimesNat DEF Cost

LEMMA SubscribeStep ==
  ASSUME SubInv, NEW payer \in Accounts, NEW a \in Accounts, NEW tier \in Tiers,
         NEW periods \in Nat, NEW value \in Nat, Subscribe(payer, a, tier, periods, value)
  PROVE  SubInv'
<1>1. PICK cost \in Nat : cost = Cost(tier, periods)  BY CostNat
<1>2. PICK change \in Nat : change = value - cost /\ cost <= value /\ value <= wallet[payer]
  BY <1>1 DEF Subscribe
<1>3. /\ credit' = [credit EXCEPT ![a] = @ + change] /\ totalCredit' = totalCredit + change
      /\ balance' = balance + change /\ collected' = collected + cost
      /\ wallet' = [wallet EXCEPT ![payer] = @ - value]
      /\ UNCHANGED <<price, nonce, signed, charged, subPaused, now>>
  BY <1>1, <1>2 DEF Subscribe
<1>4. /\ CreditSummed' /\ credit' \in [Accounts -> Nat] /\ totalCredit' \in Nat /\ balance' \in Nat
  BY <1>2, <1>3, CreditAdded
<1>5. sub[a].autoRenew \in BOOLEAN  BY DEF SubInv, SubTypeOK, Sub
<1>6. /\ Sells(tier, periods) /\ ExpiryFits(sub[a], tier, periods) /\ KeepsRenewal(a, tier)
      /\ now' = now
      /\ sub' = [sub EXCEPT ![a] = Applied(sub[a], tier, periods, sub[a].autoRenew)]
  BY DEF Subscribe
<1>7. /\ sub' \in [Accounts -> Sub] /\ renewedAt' \in [Accounts -> Nat \cup {Never}]
      /\ RenewedIsPaid'
  BY <1>5, <1>6, Resubscribed
<1>8. wallet' \in [Accounts -> Nat]  BY <1>2, <1>3 DEF SubInv, SubTypeOK
<1>9. SubTypeOK'  BY <1>1, <1>3, <1>4, <1>7, <1>8 DEF SubInv, SubTypeOK
<1> QED  BY <1>3, <1>4, <1>7, <1>9 DEF SubInv, Priced, ChargedOnce

LEMMA DepositStep ==
  ASSUME SubInv, NEW payer \in Accounts, NEW a \in Accounts, NEW value \in Nat,
         DepositCredit(payer, a, value)
  PROVE  SubInv'
<1>1. /\ CreditSummed' /\ credit' \in [Accounts -> Nat] /\ totalCredit' \in Nat /\ balance' \in Nat
  BY CreditAdded DEF DepositCredit
<1>2. wallet' \in [Accounts -> Nat]  BY DEF DepositCredit, SubInv, SubTypeOK
<1> QED
  BY <1>1, <1>2
  DEF DepositCredit, SubInv, SubTypeOK, Priced, ChargedOnce, RenewedIsPaid

LEMMA WithdrawStep ==
  ASSUME SubInv, NEW a \in Accounts, NEW amount \in Nat, WithdrawCredit(a, amount)
  PROVE  SubInv'
<1>1. /\ CreditSummed' /\ credit' \in [Accounts -> Nat] /\ totalCredit' \in Nat /\ balance' \in Nat
  BY CreditTaken DEF WithdrawCredit
<1>2. wallet' \in [Accounts -> Nat]  BY DEF WithdrawCredit, SubInv, SubTypeOK
<1> QED
  BY <1>1, <1>2
  DEF WithdrawCredit, SubInv, SubTypeOK, Priced, ChargedOnce, RenewedIsPaid

LEMMA SignedStep ==
  ASSUME SubInv, NEW r \in Requests, SubscribeWithSignature(r)
  PROVE  SubInv'
<1>1. PICK a \in Accounts : a = r.account  BY SubscriptionAssumption
<1>2. r.tier \in Tiers /\ r.periods \in Nat /\ r.autoRenew \in BOOLEAN /\ r.nonce \in Nat /\ r.maxCost \in Nat
  BY SubscriptionAssumption
<1>3. PICK cost \in Nat : cost = Cost(r.tier, r.periods)  BY <1>2, CostNat
<1>4. /\ cost <= credit[a] /\ cost <= r.maxCost /\ nonce[a] = r.nonce
      /\ nonce' = [nonce EXCEPT ![a] = @ + 1] /\ charged' = [charged EXCEPT ![r] = @ + cost]
      /\ credit' = [credit EXCEPT ![a] = @ - cost] /\ totalCredit' = totalCredit - cost
      /\ balance' = balance - cost /\ collected' = collected + cost
      /\ UNCHANGED <<price, wallet, signed, subPaused, now>>
  BY <1>1, <1>3 DEF SubscribeWithSignature, SpendsCredit, UseNonce
<1>5. /\ CreditSummed' /\ credit' \in [Accounts -> Nat] /\ totalCredit' \in Nat /\ balance' \in Nat
  BY <1>4, CreditTaken
<1>6. /\ Sells(r.tier, r.periods) /\ ExpiryFits(sub[a], r.tier, r.periods)
      /\ KeepsRenewal(a, r.tier) /\ now' = now
      /\ sub' = [sub EXCEPT ![a] = Applied(sub[a], r.tier, r.periods, r.autoRenew)]
  BY <1>1 DEF SubscribeWithSignature
<1>7. /\ sub' \in [Accounts -> Sub] /\ renewedAt' \in [Accounts -> Nat \cup {Never}]
      /\ RenewedIsPaid'
  BY <1>2, <1>6, Resubscribed
<1>8. /\ nonce' \in [Accounts -> Nat] /\ charged' \in [Requests -> Nat] /\ collected' \in Nat
  BY <1>2, <1>3, <1>4 DEF SubInv, SubTypeOK
<1>9. SubTypeOK'  BY <1>4, <1>5, <1>7, <1>8 DEF SubInv, SubTypeOK
<1>10. ChargedOnce'
  <2> SUFFICES ASSUME NEW x \in Requests
               PROVE  charged'[x] = 0 \/ (charged'[x] <= x.maxCost /\ nonce'[x.account] > x.nonce)
    BY DEF ChargedOnce
  <2>1. nonce \in [Accounts -> Nat] /\ charged \in [Requests -> Nat]  BY DEF SubInv, SubTypeOK
  <2>2. charged[x] = 0 \/ (charged[x] <= x.maxCost /\ nonce[x.account] > x.nonce)
    BY DEF SubInv, ChargedOnce
  <2>3. x.account \in Accounts /\ x.nonce \in Nat /\ nonce'[x.account] >= nonce[x.account]
    BY <1>4, <2>1, SubscriptionAssumption
  <2>4. CASE x = r
    <3>1. charged[r] = 0  BY <1>1, <1>2, <1>4, <2>1, <2>2, <2>4
    <3>2. charged'[r] = cost /\ nonce'[a] = r.nonce + 1  BY <1>4, <2>1, <3>1
    <3> QED  BY <1>1, <1>2, <1>4, <2>4, <3>2
  <2>5. CASE x # r
    <3>1. charged'[x] = charged[x]  BY <1>4, <2>1, <2>5
    <3>2. nonce[x.account] \in Nat /\ nonce'[x.account] \in Nat  BY <1>8, <2>1, <2>3
    <3> QED  BY <2>2, <2>3, <3>1, <3>2
  <2> QED  BY <2>4, <2>5
<1> QED  BY <1>4, <1>5, <1>7, <1>9, <1>10 DEF SubInv, Priced

LEMMA RenewStep ==
  ASSUME SubInv, NEW a \in Accounts, RenewFromCredit(a)
  PROVE  SubInv'
<1>1. PICK tier \in Tiers : tier = sub[a].tier /\ tier # "Free"
  BY DEF SubInv, SubTypeOK, Sub, RenewFromCredit
<1>2. PICK cost \in Nat : cost = price[tier]
  BY SubscriptionAssumption DEF SubInv, SubTypeOK
<1>3. /\ cost <= credit[a] /\ credit' = [credit EXCEPT ![a] = @ - cost]
      /\ totalCredit' = totalCredit - cost
      /\ balance' = balance - cost /\ collected' = collected + cost
      /\ UNCHANGED <<price, wallet, nonce, signed, charged, subPaused, now>>
  BY <1>1, <1>2 DEF RenewFromCredit, SpendsCredit
<1>4. /\ CreditSummed' /\ credit' \in [Accounts -> Nat] /\ totalCredit' \in Nat /\ balance' \in Nat
  BY <1>3, CreditTaken
<1>5. /\ Sells(tier, 1) /\ ExpiryFits(sub[a], tier, 1) /\ now' = now
      /\ renewedAt' = [renewedAt EXCEPT ![a] = now]
      /\ sub' = [sub EXCEPT ![a] = Applied(sub[a], tier, 1, TRUE)]
  BY <1>1, SubscriptionAssumption DEF RenewFromCredit, Sells, Tiers, PaidTiers
<1>6. /\ sub' \in [Accounts -> Sub] /\ renewedAt' \in [Accounts -> Nat \cup {Never}]
      /\ RenewedIsPaid'
  BY <1>1, <1>5, Resubscribed
<1>7. SubTypeOK'  BY <1>2, <1>3, <1>4, <1>6 DEF SubInv, SubTypeOK
<1> QED  BY <1>3, <1>4, <1>6, <1>7 DEF SubInv, Priced, ChargedOnce

LEMMA OtherSteps ==
  ASSUME SubInv,
         \/ \E r \in Requests : Sign(r)
         \/ \E a \in Accounts, enabled \in BOOLEAN : SetAutoRenew(a, enabled)
         \/ \E tier \in Tiers, newPrice \in Prices : SetTierPrice(tier, newPrice)
         \/ \E on \in BOOLEAN : SetSubPause(on)
         \/ \E a \in Accounts, value \in Nat : ForceSend(a, value)
         \/ Sweep \/ Tick \/ UNCHANGED subVars
  PROVE  SubInv'
<1>1. CASE \E r \in Requests : Sign(r)
  BY <1>1
  DEF Sign, SubInv, SubTypeOK, Priced, CreditSummed, ChargedOnce, RenewedIsPaid
<1>2. ASSUME NEW a \in Accounts, NEW enabled \in BOOLEAN, SetAutoRenew(a, enabled) PROVE SubInv'
  <2>1. /\ sub' = [sub EXCEPT ![a].autoRenew = enabled]
        /\ UNCHANGED <<price, credit, totalCredit, balance, wallet, collected, nonce, signed, charged,
                       renewedAt, subPaused, now>>
    BY <1>2 DEF SetAutoRenew
  <2>2. sub \in [Accounts -> Sub]  BY DEF SubInv, SubTypeOK
  <2>3. /\ sub' \in [Accounts -> Sub]
        /\ \A x \in Accounts : sub'[x].tier = sub[x].tier /\ sub'[x].expiresAt = sub[x].expiresAt
    BY <2>1, <2>2 DEF Sub
  <2>4. RenewedIsPaid'  BY <2>1, <2>3, SubscriptionsStay
  <2>5. SubTypeOK'  BY <2>1, <2>3 DEF SubInv, SubTypeOK
  <2> QED  BY <2>1, <2>4, <2>5 DEF SubInv, Priced, CreditSummed, ChargedOnce
<1>3. ASSUME NEW tier \in Tiers, NEW newPrice \in Prices, SetTierPrice(tier, newPrice) PROVE SubInv'
  <2>1. /\ price' = [price EXCEPT ![tier] = newPrice] /\ newPrice \in 1..MaxTierPrice
        /\ UNCHANGED <<sub, credit, totalCredit, balance, wallet, collected, nonce, signed, charged,
                       renewedAt, subPaused, now>>
    BY <1>3 DEF SetTierPrice
  <2>2. price' \in [Tiers -> 0..MaxTierPrice] /\ Priced'
    BY <2>1, SubscriptionAssumption DEF SubInv, SubTypeOK, Priced, PaidTiers, Tiers
  <2> QED
    BY <2>1, <2>2
    DEF SubInv, SubTypeOK, CreditSummed, ChargedOnce, RenewedIsPaid
<1>4. CASE \E on \in BOOLEAN : SetSubPause(on)
  BY <1>4
  DEF SetSubPause, SubInv, SubTypeOK, Priced, CreditSummed, ChargedOnce, RenewedIsPaid
<1>5. ASSUME NEW a \in Accounts, NEW value \in Nat, ForceSend(a, value) PROVE SubInv'
  BY <1>5
  DEF ForceSend, SubInv, SubTypeOK, Priced, CreditSummed, ChargedOnce, RenewedIsPaid
<1>6. CASE Sweep
  <2>1. balance' = totalCredit /\ totalCredit' = totalCredit /\ credit' = credit
    BY <1>6 DEF Sweep, Sweepable, SubInv, SubTypeOK
  <2> QED
    BY <1>6, <2>1
    DEF Sweep, SubInv, SubTypeOK, Priced, CreditSummed, ChargedOnce, RenewedIsPaid
<1>7. CASE Tick
  BY <1>7, SubscriptionAssumption
  DEF Tick, SubInv, SubTypeOK, Priced, CreditSummed, ChargedOnce, RenewedIsPaid
<1>8. CASE UNCHANGED subVars
  BY <1>8
  DEF subVars, SubInv, SubTypeOK, Priced, CreditSummed, ChargedOnce, RenewedIsPaid
<1> QED  BY <1>1, <1>2, <1>3, <1>4, <1>5, <1>6, <1>7, <1>8

-----------------------------------------------------------------------------
(* What follows.                                                           *)

LEMMA SubInvStep == SubInv /\ [SubNext]_subVars => SubInv'
<1> SUFFICES ASSUME SubInv, [SubNext]_subVars PROVE SubInv'  OBVIOUS
<1>1. ASSUME NEW payer \in Accounts, NEW a \in Accounts, Buys(payer, a) PROVE SubInv'
  <2>1. wallet[payer] \in Nat /\ MaxPeriods \in Nat
    BY SubscriptionAssumption DEF SubInv, SubTypeOK
  <2>2. ASSUME NEW tier \in Tiers, NEW periods \in 0..MaxPeriods, NEW value \in 0..wallet[payer],
               Subscribe(payer, a, tier, periods, value)
        PROVE  SubInv'
    BY <2>1, <2>2, SubscribeStep
  <2>3. ASSUME NEW value \in 1..wallet[payer], DepositCredit(payer, a, value) PROVE SubInv'
    BY <2>1, <2>3, DepositStep
  <2> QED  BY <1>1, <2>2, <2>3 DEF Buys
<1>2. ASSUME NEW a \in Accounts, NEW amount \in 1..credit[a], WithdrawCredit(a, amount) PROVE SubInv'
  <2>1. amount \in Nat  BY DEF SubInv, SubTypeOK
  <2> QED  BY <1>2, <2>1, WithdrawStep
<1>3. ASSUME NEW a \in Accounts, RenewFromCredit(a) PROVE SubInv'  BY <1>3, RenewStep
<1>4. ASSUME NEW r \in Requests, SubscribeWithSignature(r) PROVE SubInv'  BY <1>4, SignedStep
<1>5. ASSUME NEW a \in Accounts, NEW value \in 1..wallet[a], ForceSend(a, value) PROVE SubInv'
  <2>1. value \in Nat  BY DEF SubInv, SubTypeOK
  <2> QED  BY <1>5, <2>1, OtherSteps
<1>6. CASE \/ \E r \in Requests : Sign(r)
           \/ \E a \in Accounts, enabled \in BOOLEAN : SetAutoRenew(a, enabled)
           \/ \E tier \in Tiers, newPrice \in Prices : SetTierPrice(tier, newPrice)
           \/ \E on \in BOOLEAN : SetSubPause(on)
           \/ Sweep \/ Tick \/ UNCHANGED subVars
  BY <1>6, OtherSteps
<1> QED  BY <1>1, <1>2, <1>3, <1>4, <1>5, <1>6 DEF SubNext

THEOREM SubInvariance == SubSpec => []SubInv
<1> QED  BY SubInvInit, SubInvStep, PTL DEF SubSpec

\* Every variable keeps its type: no credit, no wallet and no balance is ever
\* negative, and every expiry fits into its uint64.
THEOREM SubTypeCorrect == SubSpec => []SubTypeOK
<1>1. SubInv => SubTypeOK  BY DEF SubInv
<1> QED  BY <1>1, SubInvariance, PTL

\* The credit on the books is exactly what the accounts own, and the contract
\* holds it, whatever is bought, renewed, withdrawn, forced in or swept.
THEOREM CreditAlwaysBacked == SubSpec => []CreditBacked
<1>1. SubInv => CreditBacked  BY DEF SubInv, CreditSummed, SumIs, CreditBacked
<1> QED  BY <1>1, SubInvariance, PTL

\* No request ever costs more than the sum its signer allowed.
THEOREM SignersChargedAsSigned == SubSpec => []ChargedAsSigned
<1>1. SubInv => ChargedAsSigned
  <2> SUFFICES ASSUME SubInv, NEW r \in Requests PROVE charged[r] <= r.maxCost
    BY DEF ChargedAsSigned
  <2>1. r.maxCost \in Nat  BY SubscriptionAssumption
  <2> QED  BY <2>1 DEF SubInv, ChargedOnce
<1> QED  BY <1>1, SubInvariance, PTL

\* Two renewals of an account on one tier are a period less the window apart.
THEOREM RenewalsKeepDistance == SubSpec => RenewalsSpaced
<1> DEFINE Spaced(a) ==
      (renewedAt[a] # Never /\ renewedAt'[a] # Never /\ credit'[a] < credit[a] /\ sub'[a] # sub[a]
         /\ nonce' = nonce)
        => now >= renewedAt[a] + Period - RenewWindow
<1>1. SubInv /\ [SubNext]_subVars => \A a \in Accounts : Spaced(a)
  <2> SUFFICES ASSUME SubInv, [SubNext]_subVars, NEW a \in Accounts,
                      renewedAt[a] # Never, credit'[a] < credit[a], sub'[a] # sub[a], nonce' = nonce
               PROVE  now >= renewedAt[a] + Period - RenewWindow
    OBVIOUS
  <2>1. /\ credit \in [Accounts -> Nat] /\ nonce \in [Accounts -> Nat] /\ now \in Nat
        /\ renewedAt[a] \in Nat /\ Period \in Nat /\ RenewWindow \in Nat
        /\ sub[a].expiresAt >= renewedAt[a] + Period /\ sub[a].expiresAt \in Nat
    BY SubscriptionAssumption, ExpiryNat DEF SubInv, SubTypeOK, RenewedIsPaid
  <2>2. CASE \E x \in Accounts : RenewFromCredit(x)
    <3>1. PICK x \in Accounts : RenewFromCredit(x)  BY <2>2
    <3>2. x = a  BY <3>1, <2>1 DEF RenewFromCredit, SpendsCredit
    <3>3. sub[a].expiresAt <= now + RenewWindow  BY <3>1, <3>2 DEF RenewFromCredit, Due
    <3> QED  BY <2>1, <3>3
  <2>3. ASSUME NEW payer \in Accounts, NEW x \in Accounts, Buys(payer, x) PROVE FALSE
    <3>1. \E v \in Nat : credit' = [credit EXCEPT ![x] = @ + v]
      <4>1. wallet[payer] \in Nat /\ MaxPeriods \in Nat
        BY SubscriptionAssumption DEF SubInv, SubTypeOK
      <4>2. ASSUME NEW tier \in Tiers, NEW periods \in 0..MaxPeriods, NEW value \in 0..wallet[payer],
                   Subscribe(payer, x, tier, periods, value)
            PROVE  \E v \in Nat : credit' = [credit EXCEPT ![x] = @ + v]
        <5>1. Cost(tier, periods) \in Nat  BY <4>1, CostNat
        <5>2. value - Cost(tier, periods) \in Nat  BY <4>1, <4>2, <5>1 DEF Subscribe
        <5> QED  BY <4>2, <5>2 DEF Subscribe
      <4>3. ASSUME NEW value \in 1..wallet[payer], DepositCredit(payer, x, value)
            PROVE  \E v \in Nat : credit' = [credit EXCEPT ![x] = @ + v]
        BY <4>1, <4>3 DEF DepositCredit
      <4> QED  BY <2>3, <4>2, <4>3 DEF Buys
    <3> QED  BY <2>1, <3>1
  <2>4. ASSUME NEW x \in Accounts, NEW amount \in Nat, WithdrawCredit(x, amount) PROVE FALSE
    BY <2>4 DEF WithdrawCredit
  <2>5. ASSUME NEW r \in Requests, SubscribeWithSignature(r) PROVE FALSE
    <3>1. r.account \in Accounts  BY SubscriptionAssumption
    <3>2. nonce' = [nonce EXCEPT ![r.account] = @ + 1]  BY <2>5 DEF SubscribeWithSignature, UseNonce
    <3> QED  BY <2>1, <3>1, <3>2
  <2>6. CASE \/ \E r \in Requests : Sign(r)
             \/ \E x \in Accounts, enabled \in BOOLEAN : SetAutoRenew(x, enabled)
             \/ \E tier \in Tiers, newPrice \in Prices : SetTierPrice(tier, newPrice)
             \/ \E on \in BOOLEAN : SetSubPause(on)
             \/ \E x \in Accounts : \E value \in 1..wallet[x] : ForceSend(x, value)
             \/ Sweep \/ Tick \/ UNCHANGED subVars
    <3>1. credit' = credit
      BY <2>6 DEF Sign, SetAutoRenew, SetTierPrice, SetSubPause, ForceSend, Sweep, Tick, subVars
    <3> QED  BY <2>1, <3>1
  <2>7. CASE \E x \in Accounts : \E amount \in 1..credit[x] : WithdrawCredit(x, amount)
    <3>1. PICK x \in Accounts, amount \in Nat : WithdrawCredit(x, amount)  BY <2>1, <2>7
    <3> QED  BY <2>4, <3>1
  <2> QED  BY <2>2, <2>3, <2>5, <2>6, <2>7 DEF SubNext
<1> HIDE DEF Spaced
<1>2. SubSpec => [][\A a \in Accounts : Spaced(a)]_subVars
  BY <1>1, SubInvariance, PTL DEF SubSpec
<1> QED  BY <1>2 DEF RenewalsSpaced, Spaced

-----------------------------------------------------------------------------
(* The value of what is left.                                              *)

LEMMA AppliedWorth ==
  ASSUME SubInv, NEW a \in Accounts, NEW tier \in PaidTiers, NEW periods \in Nat,
         NEW autoRenew \in BOOLEAN, Sells(tier, periods), ExpiryFits(sub[a], tier, periods),
         sub' = [sub EXCEPT ![a] = Applied(sub[a], tier, periods, autoRenew)],
         UNCHANGED <<price, now>>
  PROVE  /\ sub'[a].tier = tier
         /\ Worth(a)' <= Worth(a) + Cost(tier, periods) * Period
         /\ Representable(a, tier) =>
              Worth(a) + Cost(tier, periods) * Period < Worth(a)' + price[tier]
<1>1. tier \in Tiers /\ tier # "Free"  BY DEF Tiers, PaidTiers
<1>2. /\ now \in Nat /\ Period \in Nat /\ Period > 0 /\ sub[a].expiresAt \in Nat
      /\ price \in [Tiers -> 0..MaxTierPrice] /\ MaxTierPrice \in Nat
  BY SubscriptionAssumption, ExpiryNat DEF SubInv, SubTypeOK
<1>3. PICK p \in Nat : p = price[tier] /\ p > 0  BY <1>1, <1>2 DEF SubInv, Priced
<1>4. PICK s : s = Applied(sub[a], tier, periods, autoRenew)  OBVIOUS
<1>5. /\ s.tier = tier /\ s.expiresAt \in Nat /\ s.expiresAt >= now + Period
      /\ sub[a].tier = tier /\ HasTimeLeft(sub[a]) =>
           s.expiresAt = sub[a].expiresAt + periods * Period
      /\ ~(sub[a].tier = tier /\ HasTimeLeft(sub[a])) =>
           s.expiresAt = now + periods * Period + CarryOverSeconds(sub[a], tier)
      /\ periods * Period \in Nat
  BY <1>1, <1>4, AppliedRuns
<1>6. sub'[a] = s  BY <1>4 DEF SubInv, SubTypeOK
<1>7. Worth(a)' = (s.expiresAt - now) * p
  BY <1>1, <1>2, <1>3, <1>5, <1>6 DEF Worth
<1>8. PICK bought \in Nat : bought = periods * Period  BY <1>5
<1>9. bought * p = Cost(tier, periods) * Period  BY <1>2, <1>3, <1>8, PriceOfTime DEF Cost
<1>10. bought * p \in Nat  BY <1>3, <1>8, TimesNat
<1>11. CASE sub[a].tier = tier /\ HasTimeLeft(sub[a])
  <2>1. PICK left \in Nat : left = sub[a].expiresAt - now  BY <1>2, <1>11 DEF HasTimeLeft
  <2>2. Worth(a) = left * p  BY <1>1, <1>2, <1>3, <1>11, <2>1 DEF Worth, HasTimeLeft
  <2>3. s.expiresAt - now = left + bought  BY <1>1, <1>2, <1>5, <1>8, <1>11, <2>1
  <2>4. Worth(a)' = left * p + bought * p  BY <1>3, <1>7, <1>8, <2>1, <2>3, TimesSum
  <2>5. left * p \in Nat  BY <1>3, <2>1, TimesNat
  <2> QED  BY <1>3, <1>5, <1>6, <1>9, <1>10, <2>2, <2>4, <2>5
<1>12. CASE ~(sub[a].tier = tier /\ HasTimeLeft(sub[a]))
  <2>1. CarryOverSeconds(sub[a], tier) \in Nat  BY CarryOver
  <2>2. PICK carried \in Nat : carried = CarryOverSeconds(sub[a], tier)  BY <2>1
  <2>3. s.expiresAt - now = bought + carried  BY <1>1, <1>2, <1>5, <1>8, <1>12, <2>2
  <2>4. Worth(a)' = bought * p + carried * p  BY <1>3, <1>7, <1>8, <2>2, <2>3, TimesSum
  <2>5. carried * p \in Nat  BY <1>3, <2>2, TimesNat
  <2>6. /\ Worth(a) \in Nat /\ carried * p <= Worth(a)
        /\ Representable(a, tier) => Worth(a) < carried * p + p
    BY <1>3, <2>2, CarryOver
  <2> QED  BY <1>3, <1>5, <1>6, <1>9, <1>10, <2>4, <2>5, <2>6
<1> QED  BY <1>11, <1>12

\* A purchase or a renewal on a paid tier never adds value beyond what was
\* collected, and as long as the time left fits into uint64 seconds of the new
\* tier it loses less than a second of it: for any prices and any length of the
\* period.  Of time that does not fit the cast drops multiples of the modulus,
\* and only the first half holds.
THEOREM PurchasesKeepValue == SubSpec => ValueKept
<1> DEFINE Kept(a) ==
      (sub'[a] # sub[a] /\ sub'[a].tier # "Free") =>
        LET tier == sub'[a].tier
            due == Worth(a) + (collected' - collected) * Period
        IN  /\ Worth(a)' <= due
            /\ Representable(a, tier) => due < Worth(a)' + price[tier]
<1>1. SubInv /\ [SubNext]_subVars => \A a \in Accounts : Kept(a)
  <2> SUFFICES ASSUME SubInv, [SubNext]_subVars, NEW a \in Accounts,
                      sub'[a] # sub[a], sub'[a].tier # "Free"
               PROVE  /\ Worth(a)' <= Worth(a) + (collected' - collected) * Period
                      /\ Representable(a, sub'[a].tier) =>
                           Worth(a) + (collected' - collected) * Period < Worth(a)' + price[sub'[a].tier]
    OBVIOUS
  <2>1. /\ sub \in [Accounts -> Sub] /\ collected \in Nat /\ Period \in Nat /\ MaxPeriods \in Nat
        /\ wallet \in [Accounts -> Nat]
    BY SubscriptionAssumption DEF SubInv, SubTypeOK
  <2>2. ASSUME NEW x \in Accounts, NEW tier \in Tiers, NEW periods \in Nat, NEW on \in BOOLEAN,
               NEW cost \in Nat, cost = Cost(tier, periods), Sells(tier, periods),
               ExpiryFits(sub[x], tier, periods),
               sub' = [sub EXCEPT ![x] = Applied(sub[x], tier, periods, on)],
               UNCHANGED <<price, now>>, collected' = collected + cost
        PROVE  /\ Worth(a)' <= Worth(a) + (collected' - collected) * Period
               /\ Representable(a, sub'[a].tier) =>
                    Worth(a) + (collected' - collected) * Period < Worth(a)' + price[sub'[a].tier]
    <3>1. x = a  BY <2>1, <2>2
    <3>2. tier # "Free"  BY <2>1, <2>2, <3>1 DEF Applied
    <3>3. tier \in PaidTiers  BY <3>2 DEF Tiers, PaidTiers
    <3>4. collected' - collected = cost  BY <2>1, <2>2
    <3>5. /\ sub' = [sub EXCEPT ![a] = Applied(sub[a], tier, periods, on)]
          /\ Sells(tier, periods) /\ ExpiryFits(sub[a], tier, periods)
          /\ UNCHANGED <<price, now>>
      BY <2>2, <3>1
    <3>6. /\ sub'[a].tier = tier
          /\ Worth(a)' <= Worth(a) + Cost(tier, periods) * Period
          /\ Representable(a, tier) =>
               Worth(a) + Cost(tier, periods) * Period < Worth(a)' + price[tier]
      BY <3>3, <3>5, AppliedWorth
    <3> QED  BY <2>2, <3>4, <3>6
  <2>3. ASSUME NEW payer \in Accounts, NEW x \in Accounts, Buys(payer, x)
        PROVE  \E tier \in Tiers : \E periods, value \in Nat : Subscribe(payer, x, tier, periods, value)
    <3>1. CASE \E value \in 1..wallet[payer] : DepositCredit(payer, x, value)
      BY <3>1 DEF DepositCredit
    <3>2. CASE \E tier \in Tiers, periods \in 0..MaxPeriods, value \in 0..wallet[payer] :
                 Subscribe(payer, x, tier, periods, value)
      <4>1. PICK tier \in Tiers, periods \in 0..MaxPeriods, value \in 0..wallet[payer] :
              Subscribe(payer, x, tier, periods, value)
        BY <3>2
      <4>2. periods \in Nat /\ value \in Nat  BY <2>1
      <4> QED  BY <4>1, <4>2
    <3> QED  BY <2>3, <3>1, <3>2 DEF Buys
  <2>4. ASSUME NEW payer \in Accounts, NEW x \in Accounts, Buys(payer, x)
        PROVE  /\ Worth(a)' <= Worth(a) + (collected' - collected) * Period
               /\ Representable(a, sub'[a].tier) =>
                    Worth(a) + (collected' - collected) * Period < Worth(a)' + price[sub'[a].tier]
    <3>1. PICK tier \in Tiers, periods \in Nat, value \in Nat : Subscribe(payer, x, tier, periods, value)
      BY <2>3, <2>4
    <3>2. Cost(tier, periods) \in Nat /\ sub[x].autoRenew \in BOOLEAN  BY <2>1, CostNat DEF Sub
    <3> QED  BY <2>2, <3>1, <3>2 DEF Subscribe
  <2>5. ASSUME NEW r \in Requests, SubscribeWithSignature(r)
        PROVE  /\ Worth(a)' <= Worth(a) + (collected' - collected) * Period
               /\ Representable(a, sub'[a].tier) =>
                    Worth(a) + (collected' - collected) * Period < Worth(a)' + price[sub'[a].tier]
    <3>1. r.account \in Accounts /\ r.tier \in Tiers /\ r.periods \in Nat /\ r.autoRenew \in BOOLEAN
      BY SubscriptionAssumption
    <3>2. Cost(r.tier, r.periods) \in Nat  BY <3>1, CostNat
    <3> QED  BY <2>2, <2>5, <3>1, <3>2 DEF SubscribeWithSignature, SpendsCredit
  <2>6. ASSUME NEW x \in Accounts, RenewFromCredit(x)
        PROVE  /\ Worth(a)' <= Worth(a) + (collected' - collected) * Period
               /\ Representable(a, sub'[a].tier) =>
                    Worth(a) + (collected' - collected) * Period < Worth(a)' + price[sub'[a].tier]
    <3>1. PICK tier \in Tiers : tier = sub[x].tier /\ tier # "Free"
      BY <2>1, <2>6 DEF Sub, RenewFromCredit
    <3>2. Sells(tier, 1) /\ Cost(tier, 1) = price[tier] /\ Cost(tier, 1) \in Nat
      <4>1. price[tier] \in Nat /\ Cost(tier, 1) \in Nat
        BY CostNat, SubscriptionAssumption DEF SubInv, SubTypeOK
      <4> QED  BY <4>1, <3>1, SubscriptionAssumption DEF Sells, Cost, Tiers, PaidTiers
    <3> QED  BY <2>2, <2>6, <3>1, <3>2 DEF RenewFromCredit, SpendsCredit
  <2>7. ASSUME NEW x \in Accounts, NEW enabled \in BOOLEAN, SetAutoRenew(x, enabled)
        PROVE  /\ Worth(a)' <= Worth(a) + (collected' - collected) * Period
               /\ Representable(a, sub'[a].tier) =>
                    Worth(a) + (collected' - collected) * Period < Worth(a)' + price[sub'[a].tier]
    <3>1. /\ sub'[a].tier = sub[a].tier /\ sub'[a].expiresAt = sub[a].expiresAt
          /\ price' = price /\ now' = now /\ collected' = collected
      BY <2>1, <2>7 DEF SetAutoRenew, Sub
    <3>2. Worth(a)' = Worth(a)  BY <3>1 DEF Worth
    <3>3. (collected' - collected) * Period = 0  BY <2>1, <3>1
    <3>4. PICK p \in Nat : p = price[sub[a].tier] /\ p > 0
      BY <2>1, <3>1, SubscriptionAssumption DEF SubInv, SubTypeOK, Priced, Sub, Tiers, PaidTiers
    <3>5. Worth(a) \in Nat
      <4>1. "Plus" \in PaidTiers  BY DEF PaidTiers
      <4> QED  BY <4>1, CarryOver
    <3> QED  BY <3>1, <3>2, <3>3, <3>4, <3>5
  <2>8. CASE \/ \E r \in Requests : Sign(r)
             \/ \E tier \in Tiers, newPrice \in Prices : SetTierPrice(tier, newPrice)
             \/ \E on \in BOOLEAN : SetSubPause(on)
             \/ \E x \in Accounts : \E value \in 1..wallet[x] : ForceSend(x, value)
             \/ \E x \in Accounts : \E amount \in 1..credit[x] : WithdrawCredit(x, amount)
             \/ Sweep \/ Tick \/ UNCHANGED subVars
    BY <2>8 DEF Sign, SetTierPrice, SetSubPause, ForceSend, WithdrawCredit, Sweep, Tick, subVars
  <2> QED  BY <2>4, <2>5, <2>6, <2>7, <2>8 DEF SubNext
<1> HIDE DEF Kept
<1>2. SubSpec => [][\A a \in Accounts : Kept(a)]_subVars
  BY <1>1, SubInvariance, PTL DEF SubSpec
<1> QED  BY <1>2 DEF ValueKept, Kept

=============================================================================
