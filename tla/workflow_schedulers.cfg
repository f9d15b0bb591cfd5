SPECIFICATION Spec
CONSTANTS
  a = a
  b = b
  c = c
  Runs = {r1}
  Tasks = {a, b}
  Upstream <- Chain
  BadTasks = {}
  Schedulers = {s1, s2}
  Executors = {e1}
  Slots = {w1}
  MaxBatches = 1
  MaxFaults = 1
INVARIANTS
  TypeOK
  SuccessIsEarned
  UpstreamFirst
  FailureHasACause
PROPERTY
  KeepsPromise
CHECK_DEADLOCK FALSE
