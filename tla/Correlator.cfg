SPECIFICATION Spec
CONSTANTS
  t = "t"  u = "u"  src = "src.cpp"  other = "other.cpp"  hdr = "hdr.h"
  A = "A"  B = "B"  AisOn = "A > 0"
  Target <- AllTargets
  File <- AllFiles
  Macro <- AllMacros
  Expr <- AllExpr
  Meaning <- Truth
  Kinds = {"ifdef", "ifndef", "if"}
  Conditions = {"A"}
  Worlds <- AllWorlds
CHECK_DEADLOCK FALSE
INVARIANTS TypeOK HighIsSafe CoveredIsAlive DeadIsReported DeadTextIsReported PlainlyDeadIsHigh SavedLinesAreDistinct
           SuiteResults
