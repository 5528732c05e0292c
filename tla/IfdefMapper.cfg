SPECIFICATION Spec
CONSTANTS
  MaxLen = 5
  MainWords = {"ifdef", "elif", "elifdef", "else", "endif", "code", "user.h", "sys.h"}
  File <- Files
  Main = "main.cpp"
  System = {"sys.h"}
  Texts <- AllTexts
CHECK_DEADLOCK FALSE
INVARIANTS TypeOK Aligned BlocksAreExact NothingLost
PROPERTIES FiledAsHeard FiledAsPhase4Reads
