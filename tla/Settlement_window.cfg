SPECIFICATION MCLiveSpec
CONSTANTS
  JobIds = {j1, j2}
  Alice = alice
  Bob = bob
  Wallets <- MCWallets
  Escrow = escrow
  NoWallet = zero
  Terms = {t1}
  NoTerms = noterms
  Artifact1 = a1
  Artifacts = {a1}
  NoArtifact = noartifact
  Prices = {2}
  Windows = {1}
  MinWindow = 1
  MaxWindow = 1
  Grace = 1
  BpsDenominator = 4
  MaxCommissionBps = 2
  Rates = {1}
  InitialRate = 1
  Signers = {}
  Signatures = {}
  Authorizations <- MCAuthorizations
  InitialBalance = 0
  Horizon = 0
  MaxTime = 2
  Delivered <- MCDelivered
  Target <- MCTarget
  Scores = {5}
  Unmeasured = unmeasured
  NoSnapshot = nosnapshot
  NoReport = noreport
  DeliveredAt <- MCDeliveredAt
  PollLimit = 1
  Verifiers = {v1}
  Handlers = {h1}
  MaxFaults = 0
PROPERTIES VerifiedJobsSettle
CHECK_DEADLOCK FALSE
