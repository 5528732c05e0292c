SPECIFICATION WFairSpec
CONSTANTS
  p = p  r1 = r1  r2 = r2  w1 = w1  w2 = w2  k1 = k1  k2 = k2
  Project = {p}
  Request = {r1, r2}
  Worker = {w1, w2}
  Poll = {k1}
  LogCap = 2
  MaxLines = 2
  SlowReset = FALSE
INVARIANTS WTypeOK LogIsFaithful ResultsAreFinal
PROPERTIES NotStuckWaiting
CHECK_DEADLOCK FALSE
