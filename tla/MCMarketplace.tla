---------------------------- MODULE MCMarketplace ----------------------------
(* Small instances of Marketplace: one job of Alice's, a thread of each     *)
(* provider on it, and two training runs with products of their own.        *)
EXTENDS Marketplace, TLC

CONSTANTS Alice, Run1, Run2, Artifact1, Artifact2

MCWallets == {Alice} \cup Providers

MCDraft ==
  [j \in JobIds |->
    [creator |-> Alice, terms |-> CHOOSE t \in Terms : TRUE, lo |-> 2, hi |-> 2, window |-> 1]]

\* The marketplace signs with the keys it keeps for both agents.
MCSignatures ==
  {<<w, [jobId |-> j, terms |-> t, provider |-> p, price |-> 2, window |-> 1, expiry |-> n]>> :
     w \in MCWallets, j \in JobIds, t \in Terms, p \in Providers, n \in 0..MaxTime + AgreementTtl}

MCAuthorizations ==
  {[from |-> Alice, to |-> Escrow, value |-> 2, nonce |-> 1, validBefore |-> MaxTime + 1]}

MCProduct == Run1 :> Artifact1 @@ Run2 :> Artifact2

\* The treasury plays no part before a verdict.
MCInit == MarketInit /\ treasury = Alice
MCSpec == MCInit /\ [][MarketNext]_allVars
MCLiveSpec == MCSpec /\ MarketFairness

=============================================================================
