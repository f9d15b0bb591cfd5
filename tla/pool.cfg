SPECIFICATION LiveSpec
CONSTANTS
  p = p
  q = q
  f = f
  c = c
  d = d
  o = o
  v = v
  Jobs = {p,f,q,c}
  Parent <- Parents
  Owners = {o,v}
  Called = {p,c,q}
  Workers = {w1,w2}
  QueueSize = 1
  None = None
  Gone = Gone
INVARIANTS
  TypeOK
  CallbackNotLost
  CallbackFindsResult
  CallbackCount
  OnlyNestingJams
PROPERTIES
  CalledIsHanded
CHECK_DEADLOCK FALSE
