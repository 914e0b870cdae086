SPECIFICATION MCSpec
CONSTANTS
  JobIds = {j1}
  Alice = alice
  Wallets <- MCWallets
  Escrow = escrow
  NoWallet = zero
  Terms = {t1}
  NoTerms = noterms
  Artifact1 = a1
  Artifact2 = a2
  Artifacts = {a1, a2}
  NoArtifact = noartifact
  Prices = {2}
  Windows = {1}
  MinWindow = 1
  MaxWindow = 1
  Grace = 1
  BpsDenominator = 4
  MaxCommissionBps = 2
  Rates = {1}
  InitialRate = 1
  Signers <- MCWallets
  Signatures <- MCSignatures
  Authorizations <- MCAuthorizations
  InitialBalance = 2
  Horizon = 0
  MaxTime = 2
  Providers = {bob}
  Handlers = {h1, h2}
  Draft <- MCDraft
  Run1 = r1
  Run2 = r2
  Runs = {r1, r2}
  NoRun = norun
  Product <- MCProduct
  ExpiryMargin = 0
  AgreementTtl = 1
  MaxFaults = 1
INVARIANTS OneRunPerJob
CHECK_DEADLOCK FALSE
