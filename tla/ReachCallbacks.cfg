SPECIFICATION Spec
CONSTANTS
  a = a  b = b  c = c  d = d
  src = src  inc = inc
  Function <- FourFunctions
  File <- Files
  Modules <- CallbackModules
CHECK_DEADLOCK FALSE
INVARIANT CallbacksAreLive
