SPECIFICATION Spec
CONSTANTS
  u = u
  k = k
  m1 = m1
  m2 = m2
  Accounts = {u, k}
  MarketIds = {m1}
  MatraFeed = "MATRA"
  MarketConfigs <- LiveMarkets
  Endowment <- Purses
  PriceInputs <- TwoPrices
  DepositInputs = {10}
  WithdrawInputs = {50}
  SizeInputs = {2}
  CloseInputs = {0, 1}
  LeverageInputs = {1, 2}
  BondInputs = {7}
  MinLeverageBps = 1
  MaxLeverageBps = 2
  KeeperBondMinimum = 7
  BadDebtThreshold = 10
  BadDebtWindowBlocks = 1
  WithdrawDwellBlocks = 1
  MaxMarkBasisBps = 1
  MaxSamples = 1
  SizeScale = 2
  LeverageUnit = 1
  BpsScale = 10
  MaxOpened = 2
  Horizon = 2
PROPERTIES
  AdjustIsSafe
CHECK_DEADLOCK FALSE
