SPECIFICATION Spec
CONSTANTS
  p = p  q = q  k1 = k1  k2 = k2
  Project = {p, q}
  Seed = Seed
  None = None
  Load = {k1, k2}
  Last = 2
  Before = {0, 2}
  Analyses = 1
  Choices = 1
SYMMETRY Interchangeable
VIEW WhatMatters
INVARIANTS TypeOK AnalysisIsShown ChoiceIsShown
CHECK_DEADLOCK FALSE
