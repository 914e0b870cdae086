SPECIFICATION LiveSpec
CONSTANTS
  JobIds = {j1, j2}
  Alice = alice
  Bob = bob
  Wallets <- MCWallets
  Escrow = escrow
  NoWallet = zero
  Terms = {t1}
  NoTerms = noterms
  Artifacts = {a1}
  NoArtifact = noartifact
  Prices = {2, 3}
  Windows = {0, 1}
  MinWindow = 1
  MaxWindow = 1
  Grace = 1
  BpsDenominator = 4
  MaxCommissionBps = 2
  Rates = {1, 2, 3}
  InitialRate = 1
  Stranger = stranger
  Signers <- MCSigners
  Signatures <- MCSignatures
  Authorizations <- MCAuthorizations
  InitialBalance = 5
  Horizon = 0
  MaxTime = 3
INVARIANTS Solvent LedgerExplained PaidOutOnce FundedAsSigned
PROPERTIES FundsLeaveUnlessDisputed KeepsPromise
CHECK_DEADLOCK FALSE
