---------------------------- MODULE WagerPromise ----------------------------
(***************************************************************************)
(* What the arena's escrow promises to two players, and nothing of how:    *)
(* equal stakes come in, first one player's and then the other's, the      *)
(* commission agreed on with the first of them; the match then closes      *)
(* once, and either each player gets its own stake back or one of them     *)
(* gets the whole pool but that commission.                                *)
(***************************************************************************)
EXTENDS Integers, FiniteSets

CONSTANTS MatchIds, Players, Stakes, Denominator, Cap

VARIABLES
  stakes,   \* who has put in how much, as a set of <<player, amount>>
  cut,      \* the commission rate agreed on, in parts of Denominator
  closed,   \* the matches that are over
  got       \* what each player got back, as a set of <<player, amount>>

pvars == <<stakes, cut, closed, got>>

Init ==
  /\ stakes = [m \in MatchIds |-> {}]
  /\ cut = [m \in MatchIds |-> 0]
  /\ closed = {}
  /\ got = [m \in MatchIds |-> {}]

Open(m) ==
  /\ stakes[m] = {}
  /\ \E p \in Players, n \in Stakes, c \in 0..Cap :
       /\ stakes' = [stakes EXCEPT ![m] = {<<p, n>>}]
       /\ cut' = [cut EXCEPT ![m] = c]
  /\ UNCHANGED <<closed, got>>

Match(m) ==
  /\ m \notin closed
  /\ \E p, q \in Players, n \in Stakes :
       /\ p # q /\ stakes[m] = {<<p, n>>}
       /\ stakes' = [stakes EXCEPT ![m] = {<<p, n>>, <<q, n>>}]
  /\ UNCHANGED <<cut, closed, got>>

Refund(m) ==
  /\ m \notin closed /\ stakes[m] # {}
  /\ closed' = closed \cup {m}
  /\ got' = [got EXCEPT ![m] = stakes[m]]
  /\ UNCHANGED <<stakes, cut>>

Award(m) ==
  /\ m \notin closed
  /\ \E p, q \in Players, n \in Stakes : \E commission \in 0..(2 * n) :
       /\ p # q /\ stakes[m] = {<<p, n>>, <<q, n>>}
       \* The commission is the agreed share of the pool, rounded down.
       /\ commission * Denominator <= 2 * n * cut[m]
       /\ 2 * n * cut[m] < (commission + 1) * Denominator
       /\ got' = [got EXCEPT ![m] = {<<p, 2 * n - commission>>}]
  /\ closed' = closed \cup {m}
  /\ UNCHANGED <<stakes, cut>>

Next == \E m \in MatchIds : Open(m) \/ Match(m) \/ Refund(m) \/ Award(m)

Spec == Init /\ [][Next]_pvars

=============================================================================
