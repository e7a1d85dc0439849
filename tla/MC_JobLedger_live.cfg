SPECIFICATION LiveSpec
CONSTANTS
  i1 = i1
  i2 = i2
  j1 = j1
  m1 = m1
  None = None
  Items = {i1, i2}
  Jobs = {j1}
  Mappings = {m1}
  Devices = {d1}
  Attempts = {a1}
  JobOf <- OneJob
  MappingOf <- OneMapping
  Op <- CreateAndRevise
  WaitsFor <- ReviseWaits
  ParkGates = {"awaiting_counterpart", "reconciliation"}
  Outcomes = {"succeeded"}
  Verdicts = {"committed"}
  Halts = {h1}
  AttemptsMax = 2
  MaxCount = 1
PROPERTIES LapsedIsTaken StoppingIsResolved
CHECK_DEADLOCK FALSE
