SPECIFICATION Spec
CONSTANTS
  SessionIds = {s1}
  CheckoutIds = {c1}
  NoCheckout = NoCheckout
  Initiators = {i1}
  Handlers = {h1, h2}
  Redeemers = {r1, r2}
  NoSession = NoSession
  MaxCrashes = 1
SYMMETRY Symmetry
INVARIANTS
  TypeOK
  SingleRelease
  ReleasedOnlyIfPaid
  NoEarlyTimeout
  AppliedSticks
  DroppedOnlyIfMoved
PROPERTIES
  RecordsSettle
  ImplementsOneTimeGate
