SPECIFICATION EvaluationSpec
CONSTANTS
  Target <- SuiteTarget
  File <- SuiteFile
  Macro <- SuiteMacro
  Expr <- SuiteExpr
  Meaning <- SuiteMeaning
  Worlds <- SuiteWorlds
INVARIANT AsDocumented
