SPECIFICATION SubSpec
CONSTANTS
  Alice = alice
  Bob = bob
  Accounts = {alice, bob}
  Requests <- MCRequests
  Period = 2
  RenewWindow = 1
  MaxPeriods = 2
  SecondsModulus = 8
  MaxTierPrice = 2
  InitialPrice <- MCInitialPrice
  Prices = {2}
  InitialWallet <- MCInitialWallet
  MaxTime = 3
INVARIANTS CreditBacked ChargedAsSigned
PROPERTIES RenewalsSpaced ValueKept
CHECK_DEADLOCK FALSE
