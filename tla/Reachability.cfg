SPECIFICATION FairSpec
CONSTANTS
  a = a  b = b  c = c  d = d
  src = src  inc = inc
  Function <- FourFunctions
  File <- Files
  Modules <- AllModules
CHECK_DEADLOCK FALSE
INVARIANTS TypeOK OnlyJustified NothingMissed DeadIsIsolated LinesAreThoseOfLiveCode
PROPERTIES ImplementsClosure Terminates
