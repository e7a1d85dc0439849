SPECIFICATION DriverSpec
CONSTANTS
  i1 = i1
  i2 = i2
  j1 = j1
  m1 = m1
  None = None
  Items = {i1, i2}
  Jobs = {j1}
  Mappings = {m1}
  Devices = {d1}
  Attempts = {a1, a2}
  JobOf <- OneJob
  MappingOf <- OneMapping
  Op <- TwoEdits
  WaitsFor <- NothingWaits
  ParkGates = {"binding", "awaiting_counterpart", "reconciliation", "election", "ReauthRequired"}
  Outcomes = {"succeeded", "failed", "ambiguous", "skipped", "blocked"}
  Verdicts = {"committed", "failed", "ambiguous", "abandoned"}
  Halts = {h1}
  AttemptsMax = 2
  MaxCount = 1
  StepBudget = 32
  EarlyAnswers = {"rejected", "expired", "interstitial", "rate_limited", "not_sent", "ambiguous"}
  LateAnswers = {"ambiguous"}
SYMMETRY Symmetry
INVARIANTS AbandonedSentNothing SucceededIsCommitted
CHECK_DEADLOCK FALSE
