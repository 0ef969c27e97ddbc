SPECIFICATION Spec
CONSTANTS
  Nonces = {n1, n2}
  Organizations = {o1, o2}
  Principals = {p1, p2}
  Operations = {op1}
  Hashes = {h1, h2}
  Payloads = {x, y}
  NoStash = NoStash
  TTL = 1
  MaxClock = 3
  MaxEpoch = 1
INVARIANTS SingleUse OwnerCanCommit
PROPERTY ImplementsPreviewedWrite
