SPECIFICATION Spec
CONSTANT Inputs <- MCInputs
INVARIANTS
  TypeOK
  MatchesForms
  ReturnsE164
  Idempotent
CHECK_DEADLOCK FALSE
