SPECIFICATION Spec
CONSTANTS
  SessionIds = {s1, s2}
  CheckoutIds = {c1, c2}
  NoCheckout = NoCheckout
  Initiators = {i1, i2}
  Handlers = {h1}
  Redeemers = {r1}
  NoSession = NoSession
  MaxCrashes = 0
SYMMETRY Symmetry
INVARIANTS
  OnePromptPerSession
  CorrelationSound
  OutcomeAgreement
  IInv
