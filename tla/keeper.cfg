SPECIFICATION FairSpec
CONSTANTS
  c1 = c1
  Claims = {c1}
  RequestTtl = 2
  ReleaseDelay = 1
  BackOffBase = 1
  FeeSpikeMaxAttempts = 2
  SlotDriftMaxRetries = 2
  MaxFaults = 2
INVARIANTS
  MarkedStaysSettled
PROPERTIES
  PaidInOneVisit
  ConfirmedIsSettled
  BondsComeBack
