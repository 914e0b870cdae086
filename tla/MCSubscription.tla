--------------------------- MODULE MCSubscription ---------------------------
(* Small instances of Subscription: two requests signed on successive       *)
(* nonces, which the relayer may repeat, prices that move while they are    *)
(* out, and renewals in between.                                            *)
EXTENDS Subscription, TLC

CONSTANTS Alice, Bob

MCInitialPrice == "Free" :> 0 @@ "Plus" :> 1 @@ "Pro" :> 2

MCInitialWallet == Alice :> 4 @@ Bob :> 1

MCRequests ==
  {[account |-> Alice, tier |-> "Plus", periods |-> 1, autoRenew |-> TRUE,
    maxCost |-> 1, nonce |-> 0, deadline |-> 2],
   [account |-> Alice, tier |-> "Pro", periods |-> 1, autoRenew |-> FALSE,
    maxCost |-> 2, nonce |-> 1, deadline |-> 3]}

=============================================================================
