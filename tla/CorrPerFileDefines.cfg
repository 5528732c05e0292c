SPECIFICATION Spec
CONSTANTS
  t = "t"  u = "u"  src = "src.cpp"  other = "other.cpp"  hdr = "hdr.h"
  A = "A"  B = "B"  AisOn = "A > 0"
  Target <- AllTargets
  File <- AllFiles
  Macro <- AllMacros
  Expr <- AllExpr
  Meaning <- Truth
  Kinds = {"ifdef", "ifndef"}
  Conditions = {"A"}
  Worlds <- MixedWorlds
CHECK_DEADLOCK FALSE
INVARIANT HighNeverCompiled
