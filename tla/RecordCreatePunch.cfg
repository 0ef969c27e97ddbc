SPECIFICATION Spec
CONSTANTS
  Commits = {c1, c2}
  NoAnswer = NoAnswer
  Replies = {"ok", "unprocessable"}
  ReadFailures = {"JISR_TEMPORARILY_UNAVAILABLE"}
  Codes = {e1}
  Spellings = {"number"}
  ListedAs = "number"
  EmployeesScanned = 2
  PunchesRead = 2
  Labels = {x}
  Nonces = {n1, n2}
  NotShown = NotShown
  NoStash = NoStash
  NotSeen = NotSeen
  NoPass = NoPass
  TTL = 1
  Window = 1
  MaxClock = 1
  MaxEpoch = 0
  MaxHires = 1
INVARIANT NoSilentDoublePunch
CHECK_DEADLOCK FALSE
