SPECIFICATION Spec
CONSTANTS
  Initiations = {i1}
  Closers = {k1}
INVARIANT DeadBeforeClose
CHECK_DEADLOCK FALSE
