SPECIFICATION Spec
CONSTANTS
  SessionIds = {s1}
  CheckoutIds = {c1}
  NoCheckout = NoCheckout
  Callers = {g1, g2}
  ManagerOnly = TRUE
SYMMETRY Symmetry
INVARIANT TypeOK
PROPERTY ImplementsContract
