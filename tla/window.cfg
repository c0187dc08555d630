SPECIFICATION Spec
CONSTANTS
  Second = 2
  Period = 6
  QueryThreshold = 12
  TTL = 26
  PushTime = 2
  PassTime = 6
  MaxTime = 50
INVARIANTS
  NeverEarly
  SettledInTime
  QueriedInTime
  IInv
PROPERTIES
  SweptAfterQuery
  TimedOutAfterQuery
CHECK_DEADLOCK FALSE
