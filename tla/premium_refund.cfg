SPECIFICATION Spec
CONSTANTS
  k1 = k1
  k2 = k2
  k3 = k3
  t1 = t1
  t2 = t2
  Accounts = {a1}
  Keys = {k1, k2}
  ClaimIds = {c1, c2}
  DepositTxs = {t1, t2}
  Kinds <- SmallKinds
  CoverAmounts = {1}
  DepositAda <- SmallDepositAda
  Committees <- OnlyPair
  FirstCommittee <- Pair
  MinSignerInputs = {}
  PoolInputs = {}
  GenesisPool <- EmptyPool
  DefaultMinSignerThreshold = 2
  IntentTTL = 2
  SettlementRequestTtl = 1
  MaxPendingBatches = 2
  MaxExpirePerBlock = 2
  MaxCommittee = 2
  BpsScale = 10
  U32Modulus = 1000
  MaxAda = 6
  MaxNonce = 2
  MaxBatch = 2
  Horizon = 5
PROPERTIES
  ExpiryReturnsPremium
CHECK_DEADLOCK FALSE
