SPECIFICATION FairSpec
CONSTANTS
  Callers = {g1, g2}
  Lifetimes = {1, 5}
  Margin = 3
  FetchTime = 1
  MaxTime = 3
INVARIANTS
  IInv
  HandedOutFresh
  NeverStuck
PROPERTIES
  SingleFlight
  CallsReturn
