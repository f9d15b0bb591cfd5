SPECIFICATION LiveSpec
CONSTANTS
  p = p
  q = q
  f = f
  c = c
  d = d
  o = o
  v = v
  Jobs = {p,q,f,c,d}
  Parent <- Parents
  Owners = {o,v}
  Called = {p,c}
  Workers = {w1,w2}
  QueueSize = 1
  None = None
  Gone = Gone
PROPERTIES
  SubmitEnds
CHECK_DEADLOCK FALSE
