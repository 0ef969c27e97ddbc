SPECIFICATION FairSpec
CONSTANTS
  Calls = {c1, c2}
  FinanceConfigured = TRUE
  NoToken = NoToken
INVARIANTS
  TypeOK AtMostOneWrite DefiniteAnswersTrue OwnKeyOnly
  StaleTokenNeverSurfaces CanSettle
PROPERTIES EveryCallAnswered ImplementsSubmission
CHECK_DEADLOCK FALSE
