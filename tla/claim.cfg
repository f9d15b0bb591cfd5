SPECIFICATION LiveSpec
CONSTANTS
  m = m
  n = n
  d = d
  e = e
  Metas = {m,n}
  Dags = {d, e}
  DagOf <- DagOfEach
  BadDags = {d}
  Schedulers = {s1}
  Slots = {w1,w2}
  MaxFaults = 1
INVARIANTS
  TypeOK
  OneRun
  GoodAreNamed
PROPERTIES
  RejectedStays
  KeepsPromise
  SubmittedIsTaken
  RunsAreQueued
