SPECIFICATION Spec
CONSTANTS
  a = a
  b = b
  c = c
  Runs = {r1}
  Tasks = {a, b}
  Upstream <- Join
  BadTasks = {}
  Schedulers = {s1}
  Executors = {e1}
  Slots = {w1}
  MaxBatches = 1
  MaxFaults = 0
INVARIANT
  FinalizedIsFinished
CHECK_DEADLOCK FALSE
