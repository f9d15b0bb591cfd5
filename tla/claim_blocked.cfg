SPECIFICATION LiveSpec
CONSTANTS
  m = m
  n = n
  d = d
  e = e
  Metas = {m,n}
  Dags = {d, e}
  DagOf <- DagOfEach
  BadDags = {d}
  Schedulers = {s1}
  Slots = {w1}
  MaxFaults = 1
PROPERTIES
  OnlyBadRunsSkipped
