SPECIFICATION LiveSpec
CONSTANTS
  a = a
  b = b
  c = c
  Runs = {r1}
  Tasks = {a}
  Upstream <- Chain
  BadTasks = {}
  Schedulers = {s1}
  Executors = {e1, e2}
  Slots = {w1}
  MaxBatches = 1
  MaxFaults = 1
PROPERTIES
  QueuedIsTaken
  SucceededRunsClose
  KeepsPromise
CHECK_DEADLOCK FALSE
