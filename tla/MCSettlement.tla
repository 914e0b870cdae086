---------------------------- MODULE MCSettlement ----------------------------
(* Small instances of Settlement: jobs of Alice's delivered by Bob. *)
EXTENDS Settlement, TLC

CONSTANTS Alice, Bob, Artifact1

MCWallets == {Alice, Bob}

MCDelivered ==
  [j \in JobIds |->
    [status |-> "DELIVERED", creator |-> Alice, provider |-> Bob,
     terms |-> CHOOSE t \in Terms : TRUE, budgetMin |-> 2, budgetMax |-> 2,
     window |-> 1, price |-> 2, deadline |-> 0, bps |-> 2, artifact |-> Artifact1]]

MCAuthorizations ==
  {[from |-> Alice, to |-> Escrow, value |-> 2, nonce |-> n, validBefore |-> 1] :
     n \in 1..Cardinality(JobIds)}

MCTarget == [op |-> "gte", value |-> 5]

\* One of two jobs came first.
First == CHOOSE j \in JobIds : TRUE
MCDeliveredAt == [j \in JobIds |-> IF j = First THEN 1 ELSE 2]

(* What Bob's training left behind: one worker trained and still has a file, *)
(* of whatever attempt; the other has none.                                  *)
MCInit ==
  /\ SettleInit
  /\ treasury = Alice
  /\ Cardinality({v \in Verifiers : \E j \in JobIds : copy[v][j] # NoArtifact}) <= 1
MCSpec == MCInit /\ [][SettleNext]_allVars
MCLiveSpec == MCSpec /\ SettleFairness

=============================================================================
