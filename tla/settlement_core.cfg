SPECIFICATION FairUpgradedSpec
CONSTANTS
  a1 = a1
  k1 = k1
  k2 = k2
  k3 = k3
  r1 = r1
  vault = vault
  c1 = c1
  c2 = c2
  Accounts = {a1}
  Keys = {k1, k2, k3}
  DepositTxs = {}
  DepositAda <- NoDeposits
  Kinds <- PayoutOnly
  CoverAmounts = {1}
  Committees <- OnlyTrio
  FirstCommittee <- Trio
  MinSignerInputs = {}
  PoolInputs = {}
  GenesisPool <- SmallPool
  DefaultMinSignerThreshold = 2
  SettlementRequestTtl = 1
  MaxPendingBatches = 2
  MaxExpirePerBlock = 2
  MaxCommittee = 3
  BpsScale = 10
  U32Modulus = 1000
  MaxAda = 4
  MaxBatch = 2
  Requesters = {r1, k3}
  Treasury = vault
  GenesisFree <- SmallFree
  Evidence <- Claimed
  Confirmed <- BorneOut
  Honest = {k1, k2}
  Bonds = {3}
  MinSettlementBond = 2
  MinFinalityDepth = 2
  MaxObservedDepth = 4
  SlashWatcherShareBps = 5
  BondReleaseDelayBlocks = 1
  ClaimIds = {c1, c2}
  IntentTTL = 2
  MaxNonce = 2
  Horizon = 5
  LastRequestBlock = 3
INVARIANTS
  SettlementTypeOK
  OneStagePerClaim
  ReserveBacksBonds
PROPERTIES
  BondsAreEscrowed
  EveryBondComesBack
CHECK_DEADLOCK FALSE
