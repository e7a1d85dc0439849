SPECIFICATION DevicesSpec
CONSTANTS
  None = None
  d1 = d1
  h1 = h1
  h2 = h2
  Devices = {d1}
  Hands = {h1}
  Holder <- OfOneDevice
  Items = {i1, i2}
  Receipts = {r1, r2, r3}
  Passes = {}
  MaxAttempts = 3
  MaxEvents = 0
PROPERTY NoListingIsLeftBehind
CHECK_DEADLOCK FALSE
