SPECIFICATION LiveSpec
CONSTANTS
  a = a
  b = b
  c = c
  Runs = {r1}
  Tasks = {a, b}
  Upstream <- Join
  BadTasks = {b}
  Schedulers = {s1}
  Executors = {e1}
  Slots = {w1}
  MaxBatches = 1
  MaxFaults = 1
INVARIANTS
  TruthInv
PROPERTIES
  SkipsOnlyWaiting
  OrphansAreCleared
CHECK_DEADLOCK FALSE
