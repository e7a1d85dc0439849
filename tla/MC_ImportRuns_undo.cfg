SPECIFICATION Spec
CONSTANTS
  None = None
  Devices = {phone}
  Items = {listing, other}
  Passes = {pass1}
  Receipts = {}
  MaxAttempts = 1
  phone = phone
  tablet = tablet
  listing = listing
  other = other
  pass1 = pass1
  pass2 = pass2
  r1 = r1
PROPERTY DifferentIsAdded
CHECK_DEADLOCK FALSE
