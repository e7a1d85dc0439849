SPECIFICATION LiveSpec
CONSTANTS
  None = None
  Devices = {phone, tablet}
  Items = {listing}
  Passes = {pass1, pass2}
  Receipts = {r1}
  r1 = r1
  MaxAttempts = 2
  phone = phone
  tablet = tablet
  listing = listing
  other = other
  pass1 = pass1
  pass2 = pass2
INVARIANTS TypeOK CreatedOnce ReviewIsAsked DeletedIsQuiet
PROPERTIES SettledIsFinal NoneUnderAQuestion SettledNeverFails DeletionEnds
CHECK_DEADLOCK FALSE
