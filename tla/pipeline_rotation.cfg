SPECIFICATION FairSpec
CONSTANTS
  k1 = k1
  k2 = k2
  k3 = k3
  t1 = t1
  t2 = t2
  Accounts = {a1}
  Keys = {k1, k2, k3}
  ClaimIds = {c1}
  DepositTxs = {t1}
  Kinds <- OneKind
  CoverAmounts = {1}
  DepositAda <- SmallDepositAda
  Committees <- Rotating
  FirstCommittee <- Pair
  MinSignerInputs = {0, 1}
  PoolInputs <- RootPool
  GenesisPool <- EmptyPool
  DefaultMinSignerThreshold = 2
  IntentTTL = 3
  SettlementRequestTtl = 1
  MaxPendingBatches = 2
  MaxExpirePerBlock = 2
  MaxCommittee = 3
  BpsScale = 10
  U32Modulus = 1000
  MaxAda = 6
  MaxNonce = 1
  MaxBatch = 1
  Horizon = 5
PROPERTIES
  EveryIntentLeavesTheIndex
CHECK_DEADLOCK FALSE
