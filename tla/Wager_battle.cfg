SPECIFICATION WagerSpec
CONSTANTS
  B1 = b1
  B2 = b2
  MatchIds = {b1}
  Alice = alice
  Bob = bob
  Players = {alice, bob}
  NoPlayer = zero
  Vault = vault
  Treasury = treasury
  Tournament = tournament
  Stakes = {1, 2}
  Allowances = {0, 2}
  BpsDenominator = 4
  MaxCommissionBps = 2
  Rates = {1, 3}
  InitialRate = 2
  InitialTokens = 2
  InitialAllowance = 0
  InitialTreasury = 0
  InitialTournament = 1
  Rewards = {2}
  Red = red
  Pink = pink
  Blue = blue
  Agents = {red, pink, blue}
  NoAgent = noagent
  Owner <- MCOwner
  Pair <- MCPair
  Wagered <- MCWagered
  Handlers = {h1, h2}
  MaxFaults = 2
  MaxEnds = 2
INVARIANTS VaultExact RecordFollowsChain PaidAfterResult
PROPERTIES KeepsWagerPromise
SYMMETRY HandlerSymmetry
CHECK_DEADLOCK FALSE
