SPECIFICATION Spec
CONSTANTS
  Keys = {k1, k2}
  Commits = {c1, c2, c3}
  NotSeen = NotSeen
  NoPass = NoPass
  Window = 2
  MaxClock = 5
  MaxEpoch = 1
PROPERTY NoUnacknowledgedRepeat
CHECK_DEADLOCK FALSE
