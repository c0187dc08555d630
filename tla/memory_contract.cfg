SPECIFICATION Spec
CONSTANTS
  SessionIds = {s1}
  CheckoutIds = {c1, c2}
  NoCheckout = NoCheckout
  NoSession = NoSession
  Callers = {g1, g2}
  ManagerOnly = FALSE
SYMMETRY Symmetry
INVARIANTS
  TypeOK
  IndexAgrees
  NeverStuck
PROPERTY ImplementsContract
