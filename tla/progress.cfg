SPECIFICATION FairSpec
CONSTANTS
  SessionIds = {s1}
  CheckoutIds = {c1}
  NoCheckout = NoCheckout
  Initiators = {i1}
  Handlers = {h1}
  Redeemers = {r1}
  NoSession = NoSession
  MaxCrashes = 2
PROPERTIES
  SessionsSettle
  RecoveryCompletes
