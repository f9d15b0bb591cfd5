SPECIFICATION Spec
CONSTANTS
  m = m
  n = n
  d = d
  e = e
  Metas = {m}
  Dags = {d, e}
  DagOf <- DagOfEach
  BadDags = {d}
  Schedulers = {s1,s2}
  Slots = {w1}
  MaxFaults = 0
INVARIANTS
  RunIsNamed
