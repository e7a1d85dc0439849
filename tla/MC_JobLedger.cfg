SPECIFICATION Spec
CONSTANTS
  i1 = i1
  i2 = i2
  j1 = j1
  m1 = m1
  None = None
  Items = {i1, i2}
  Jobs = {j1}
  Mappings = {m1}
  Devices = {d1}
  Attempts = {a1, a2}
  JobOf <- OneJob
  MappingOf <- OneMapping
  Op <- CreateAndRevise
  WaitsFor <- ReviseWaits
  ParkGates = {"ReauthRequired", "awaiting_counterpart"}
  Outcomes = {"succeeded", "ambiguous"}
  Verdicts = {"committed", "ambiguous"}
  Halts = {}
  AttemptsMax = 2
  MaxCount = 1
SYMMETRY AttemptSymmetry
INVARIANTS TypeOK DeletedIsQuiet CancelledSentNothing CompletionIsAnnounced
PROPERTIES SettledIsFinal TakenIsFenced DeletedIsFinal BindingFollowsItsFence
CHECK_DEADLOCK FALSE
