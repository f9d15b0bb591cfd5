SPECIFICATION Spec
CONSTANTS
  a = a
  b = b
  c = c
  Runs = {r1}
  Tasks = {a}
  Upstream <- Join
  BadTasks = {}
  Schedulers = {s1}
  Executors = {e1}
  Slots = {w1, w2}
  MaxBatches = 1
  MaxFaults = 0
PROPERTY
  FinishedIsNotRestarted
CHECK_DEADLOCK FALSE
