SPECIFICATION Spec
CONSTANTS
  h1 = h1
  h2 = h2
  x = x
  Pairs = {p1}
  Keys = {h1, h2, x}
  Honest = {h1, h2}
  Seen <- Moving
  SeenDecimals = 6
  OtherPrices = {99}
  DecimalsInputs = {6, 18, 19}
  MinAttestorThreshold = 3
  MaxAttestors = 3
  MaxStaleSlots = 1
  MaxFutureSlots = 1
  MaxAge = 0
  Horizon = 3
INVARIANTS
  BundlesAreAccountedFor
  PriceHasQuorum
  PriceIsBracketed
  FreshIsRecent
PROPERTIES
  FeedNeverRewinds
CHECK_DEADLOCK FALSE
