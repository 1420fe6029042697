SPECIFICATION ThreeChains
CONSTANTS
  a1 = a1
  k1 = k1
  k2 = k2
  k3 = k3
  r1 = r1
  vault = vault
  c1 = c1
  c2 = c2
  Accounts = {a1}
  Keys = {k1, k2, k3}
  DepositTxs = {}
  DepositAda <- NoDeposits
  Kinds <- TwoKinds
  CoverAmounts = {1}
  Committees <- OnlyTrio
  FirstCommittee <- Trio
  MinSignerInputs = {}
  PoolInputs = {}
  GenesisPool <- SmallPool
  DefaultMinSignerThreshold = 2
  SettlementRequestTtl = 1
  MaxPendingBatches = 2
  MaxExpirePerBlock = 2
  MaxCommittee = 3
  BpsScale = 10
  U32Modulus = 1000
  MaxAda = 4
  MaxBatch = 2
  Requesters = {r1}
  Treasury = vault
  GenesisFree <- SmallFree
  Evidence <- Named
  Confirmed <- BorneOut
  Honest = {k1, k2}
  Bonds = {2}
  MinSettlementBond = 2
  MinFinalityDepth = 2
  MaxObservedDepth = 4
  SlashWatcherShareBps = 5
  BondReleaseDelayBlocks = 1
  ClaimIds = {c1, c2}
  IntentTTL = 2
  MaxNonce = 2
  Horizon = 6
  LastRequestBlock = 6
  CutoverGrace = 2
  MaxMigrateClaims = 1
  MaxMigrateIntents = 1
  MaxMigrateRequests = 1
  MaxSettleBatch = 2
  CardanoIdsToSeed <- TestNetwork
  MaxUpgrades = 4
INVARIANTS
  TryState
  AuditFlagsAreExact
  NoSlashedRequestReturns
  SettledOnConfirmedEvidence
  HonestIsNeverSlashed
PROPERTIES
  SettlementIsFinal
  LegacyStaysClosed
CHECK_DEADLOCK FALSE
