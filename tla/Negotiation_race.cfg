SPECIFICATION Spec
CONSTANTS
  Handlers = {h1, h2}
  BudgetMin = 1
  BudgetMax = 4
  AskedPrices = {0, 2, 3}
  Policies <- MCPolicies
  ByHand = byHand
  ScaleUnit = 2
  MaxMessages = 4
  Ttls = {0, 1}
  AgreementTtl = 2
  MaxTime = 2
INVARIANTS ChainVerifies FairDialogue AgreementsBinding RowNeverAhead FloorKept
SYMMETRY HandlerSymmetry
CHECK_DEADLOCK FALSE
