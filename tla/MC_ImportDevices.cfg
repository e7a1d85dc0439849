SPECIFICATION DevicesSpec
CONSTANTS
  None = None
  d1 = d1
  h1 = h1
  h2 = h2
  Devices = {d1}
  Hands = {h1, h2}
  Holder <- OfOneDevice
  Items = {i1}
  Receipts = {r1, r2, r3}
  Passes = {}
  MaxAttempts = 3
  MaxEvents = 1
CONSTRAINT ThirdClaimIsUndisturbed
SYMMETRY Symmetry
INVARIANTS DevicesTypeOK AcknowledgedIsDescribed WorkCanBeStopped OwedIsSelected
CHECK_DEADLOCK FALSE
