SPECIFICATION Spec
CONSTANTS
  lib = lib  util = util  srv = srv  cli = cli
  A = A  B = B  t = t  u = u
  None = None  Gone = Gone
  Source = {lib, util, srv, cli}
  Macro = {A, B}
  Target = {t, u}
  Version = {1, 2}
  Symbols <- Exports
  Projects <- AllProjects
  MaxCommands = 3
  Analyses = 2
  MaxFailed = 1
CHECK_DEADLOCK FALSE
INVARIANTS TypeOK FindingsOfThisProject NothingForgotten ReportOfOneAnalysis ArtifactsInOrder
           PhasesAgreeOnMacros
