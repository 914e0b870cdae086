------------------------------ MODULE MCLeague ------------------------------
(* A small league: Alice's agent challenges Bob's over one fixture.         *)
EXTENDS League, TLC

CONSTANTS Alice, Bob, Red, Blue

MCOwner == Red :> Alice @@ Blue :> Bob
MCSides == [b \in MatchIds |-> <<Red, Blue>>]
MCStaked == [b \in MatchIds |-> 1]

WorkerSymmetry == Permutations(Workers)

=============================================================================
