--------------------------- MODULE MCA2AJobEscrow ---------------------------
(* Small instances of A2AJobEscrow: Alice, who funds the jobs she posts, *)
(* and Bob; either of them, or the contract, may be the treasury.          *)
EXTENDS A2AJobEscrow

CONSTANTS Alice, Bob, Stranger

MCWallets == {Alice, Bob}

MCSigners == {Alice, Bob, Stranger}

\* Alice and Bob sign for the lower price, one agreement with the creator's own
\* wallet as payee included, and an address of neither side for the higher one; all
\* expire in the middle of the behaviour.
MCSignatures ==
  UNION {{<<s, [jobId |-> j, terms |-> t, provider |-> w, price |-> p, window |-> n,
                expiry |-> Horizon + 1]>> :
            s \in IF \A q \in Prices : p <= q THEN {Alice, Bob} ELSE {Stranger}} :
          j \in JobIds, t \in Terms, w \in MCWallets, p \in Prices, n \in Windows}

\* Alice signed one authorization per price, each with a nonce of its own: her
\* two jobs compete for them when they agree on the same price.
MCAuthorizations ==
  {[from |-> Alice, to |-> a, value |-> p, nonce |-> p, validBefore |-> Horizon + 1] :
     a \in {Escrow, Bob}, p \in Prices}

=============================================================================
