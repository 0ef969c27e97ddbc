SPECIFICATION FairSpec
CONSTANTS
  Transactions = {t1}
  Spellings = {"number", "string"}
  h1 = h1
  Hashes = {h1, h2}
  Details = {d1}
  Absent = Absent
  c1 = c1
  c2 = c2
  Commits = {c1, c2}
  n1 = n1
  n2 = n2
  Nonces = {n1, n2}
  NotShown = NotShown
  NoAnswer = NoAnswer
  NoStash = NoStash
  NotSeen = NotSeen
  NoPass = NoPass
  Replies = {"ok", "unauthorized", "server_error"}
  ReadFailures = {"JISR_TEMPORARILY_UNAVAILABLE"}
  ScanMayMiss = FALSE
  TTL = 0
  Window = 0
  MaxClock = 1
  MaxEpoch = 1
  MaxEdits = 1
CONSTRAINT FirstNamesFirst
INVARIANTS
  TypeOK DeletesWhatWasPrepared RefusalDeletesNothing ConfirmedGoneIsGone
  SubmissionsApart CanStep
PROPERTIES EveryCommitAnswered ImplementsControlledWrite
CHECK_DEADLOCK FALSE
