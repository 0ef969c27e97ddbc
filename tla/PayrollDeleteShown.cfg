SPECIFICATION Spec
CONSTANTS
  Transactions = {t1}
  Spellings = {"number"}
  Hashes = {h1, h2}
  Details = {d1, d2}
  Absent = Absent
  Commits = {c1, c2}
  Nonces = {n1, n2}
  NotShown = NotShown
  NoAnswer = NoAnswer
  NoStash = NoStash
  NotSeen = NotSeen
  NoPass = NoPass
  Replies = {"ok", "not_found", "server_error"}
  ReadFailures = {"JISR_TEMPORARILY_UNAVAILABLE"}
  ScanMayMiss = FALSE
  TTL = 1
  Window = 1
  MaxClock = 2
  MaxEpoch = 1
  MaxEdits = 1
INVARIANT DeletesWhatWasShown
CHECK_DEADLOCK FALSE
