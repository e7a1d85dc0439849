SPECIFICATION LiveSpec
CONSTANTS
  Drainers = {d1, d2}
  m1 = m1
  m2 = m2
  Messages = {m1, m2}
  None = None
  p = p
  q = q
  o = o
  People = {p, q, o}
  Sellers <- SellersDef
  Operators <- OperatorsDef
  Inbox <- InboxDef
  Topic <- TopicDef
  AttemptsMax = 2
  Batch = 1
  MaxFaults = 2
INVARIANTS TypeOK TriesAreEarned DeliveredReachedAll
PROPERTIES VerdictIsFinal EveryMessageEnds
CHECK_DEADLOCK FALSE
