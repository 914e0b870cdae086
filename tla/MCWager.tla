------------------------------ MODULE MCWager ------------------------------
(* Small instances of Wager: battles of Alice's agent against agents of     *)
(* Bob's and of her own, between players who can afford one or two stakes.  *)
EXTENDS Wager, TLC

CONSTANTS Alice, Bob, Red, Pink, Blue, B1, B2

MCOwner == Red :> Alice @@ Pink :> Alice @@ Blue :> Bob
MCPair == [b \in MatchIds |-> IF b = B1 THEN <<Red, Blue>> ELSE <<Blue, Pink>>]
MCWagered == [b \in MatchIds |-> IF b = B1 THEN 1 ELSE 2]

HandlerSymmetry == Permutations(Handlers)

=============================================================================
