SPECIFICATION Spec
CONSTANTS
  i1 = i1
  i2 = i2
  j1 = j1
  m1 = m1
  None = None
  Items = {i1}
  Jobs = {j1}
  Mappings = {m1}
  Devices = {d1}
  Attempts = {a1}
  JobOf <- Job1
  MappingOf <- Map1
  Op <- OneCreate
  WaitsFor <- Waits1
  ParkGates = {"ReauthRequired", "awaiting_counterpart"}
  Outcomes = {"succeeded"}
  Verdicts = {"committed"}
  Halts = {}
  AttemptsMax = 2
  MaxCount = 1
PROPERTY StrandedCreateIsNotRequeued
CHECK_DEADLOCK FALSE
