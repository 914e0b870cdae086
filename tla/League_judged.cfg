SPECIFICATION LeagueSpec
CONSTANTS
  MatchIds = {b1}
  Alice = alice
  Bob = bob
  Players = {alice, bob}
  NoPlayer = zero
  Vault = vault
  Treasury = treasury
  Tournament = tournament
  Stakes = {1}
  Allowances = {}
  BpsDenominator = 4
  MaxCommissionBps = 2
  Rates = {}
  InitialRate = 2
  InitialTokens = 1
  InitialAllowance = 1
  InitialTreasury = 4
  InitialTournament = 0
  Rewards = {2, 3}
  Red = red
  Blue = blue
  Agents = {red, blue}
  NoAgent = noagent
  Owner <- MCOwner
  Sides <- MCSides
  Staked <- MCStaked
  Picks = {"HOME", "AWAY"}
  Results = {"AWAY"}
  Points = {2}
  PageLimit = 1
  Workers = {w1, w2}
  MaxFaults = 0
  MaxRequests = 2
INVARIANTS JudgedOnScores
CHECK_DEADLOCK FALSE
SYMMETRY WorkerSymmetry
