SPECIFICATION FairSpec
CONSTANTS
  p = p  q = q  shared = shared
  None = None
  Project = {p}
  Dir = {shared}
  SeedDir = out
  DirOf <- SharedDir
  Request = {r1, r2}
  Worker = {w1, w2}
  LogCap = 1
  Unnoticed = FALSE
PROPERTIES NotStuckRunning ImplementsView
