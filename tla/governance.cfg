SPECIFICATION Spec
CONSTANTS
  k1 = k1
  k2 = k2
  k3 = k3
  Keys = {k1, k2, k3}
  ThresholdInputs = {0, 1, 2, 3}
  TimelockInputs = {0}
  GenesisMembers <- Pair
  GenesisThreshold = 2
  GenesisTimelock = 0
  DefaultRotationTimelock = 2
  MaxCommittee = 2
  MaxRotationEvents = 3
  Horizon = 3
INVARIANTS
  TypeOK
  ThresholdFitsSeats
PROPERTIES
  AnnouncedThresholdTakesEffect
CHECK_DEADLOCK FALSE
