SPECIFICATION FairSpec
CONSTANTS
  Initiations = {i1, i2}
  Closers = {k1, k2}
INVARIANTS
  TypeOK
  OneShutdown
PROPERTIES
  GoroutinesEnd
  ExitsUntouched
CHECK_DEADLOCK FALSE
