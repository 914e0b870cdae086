---------------------------- MODULE EscrowPromise ----------------------------
(***************************************************************************)
(* What the marketplace's escrow promises to the parties of a job, and     *)
(* nothing of how: a job's money comes in once, under terms fixed at that  *)
(* moment, and goes out once, wholly, in one step, to those parties and to *)
(* a commission of at most the hard cap.  A contested job ends without     *)
(* commission.                                                             *)
(***************************************************************************)
EXTENDS Integers

CONSTANTS JobIds, Wallets, Amounts, Nobody, CapNumerator, CapDenominator

VARIABLES
  phase,   \* "open", "withdrawn", "held", "contested" or "closed"
  deal,    \* the creator, the provider and the amount, fixed when money comes in
  shares   \* what each side and the treasury received in the end

pvars == <<phase, deal, shares>>

NoDeal == [creator |-> Nobody, provider |-> Nobody, amount |-> 0]
NoShares == [creator |-> 0, provider |-> 0, treasury |-> 0]

Init ==
  /\ phase = [j \in JobIds |-> "open"]
  /\ deal = [j \in JobIds |-> NoDeal]
  /\ shares = [j \in JobIds |-> NoShares]

Withdraw(j) ==
  /\ phase[j] = "open"
  /\ phase' = [phase EXCEPT ![j] = "withdrawn"]
  /\ UNCHANGED <<deal, shares>>

ComeIn(j) ==
  /\ phase[j] = "open"
  /\ \E c, p \in Wallets, n \in Amounts :
       /\ c # p
       /\ deal' = [deal EXCEPT ![j] = [creator |-> c, provider |-> p, amount |-> n]]
  /\ phase' = [phase EXCEPT ![j] = "held"]
  /\ UNCHANGED shares

Contest(j) ==
  /\ phase[j] = "held"
  /\ phase' = [phase EXCEPT ![j] = "contested"]
  /\ UNCHANGED <<deal, shares>>

GoOut(j) ==
  /\ phase[j] \in {"held", "contested"}
  /\ \E c, p, t \in 0..deal[j].amount :
       /\ c + p + t = deal[j].amount
       /\ t * CapDenominator <= deal[j].amount * CapNumerator
       \* All or nothing unless contested; only a success pays commission.
       /\ IF phase[j] = "contested" THEN t = 0 ELSE c = 0 \/ p + t = 0
       /\ shares' = [shares EXCEPT ![j] = [creator |-> c, provider |-> p, treasury |-> t]]
  /\ phase' = [phase EXCEPT ![j] = "closed"]
  /\ UNCHANGED deal

Next == \E j \in JobIds : Withdraw(j) \/ ComeIn(j) \/ Contest(j) \/ GoOut(j)

Spec == Init /\ [][Next]_pvars

=============================================================================
