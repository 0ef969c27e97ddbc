SPECIFICATION InvocationSpec
CONSTANTS
  Commits = {c1, c2}
  NoAnswer = NoAnswer
  Replies = {"ok", "rate_limited"}
  ReadFailures = {"JISR_RATE_LIMITED"}
  Codes = {e1}
  Spellings = {"number"}
  ListedAs = "number"
  EmployeesScanned = 1
  PunchesRead = 1
  Labels = {x, y}
  n1 = n1
  n2 = n2
  Nonces = {n1, n2}
  ReasonOf <- MCReasonOf
  None = None
  NotShown = NotShown
  NoStash = NoStash
  NotSeen = NotSeen
  NoPass = NoPass
  TTL = 0
  Window = 0
  MaxClock = 1
  MaxEpoch = 1
  MaxHires = 1
SYMMETRY Symmetry
CONSTRAINT FirstPrepareFirst
INVARIANTS
  InvocationTypeOK UnacknowledgedIsNew ReportsNewRecord RepeatIsAcknowledged
  RefusalWritesNothing CanStep
  AuditedUnlessUnsafe TrailIsTrue CommitsFollowPrepares CountsAgree
PROPERTY ImplementsControlledWrite
CHECK_DEADLOCK FALSE
