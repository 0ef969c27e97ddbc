SPECIFICATION Spec
CONSTANTS
  Calls = {c1, c2}
  FinanceConfigured = TRUE
  NoToken = NoToken
INVARIANT LandedIsReported
CHECK_DEADLOCK FALSE
