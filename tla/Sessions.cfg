SPECIFICATION MCSpec
CONSTANTS
  Handlers = {h1, h2}
  MaxPairs = 3
  MaxFaults = 2
  None = None
  Keys = {k1, k2, k3}
  Callers = {c1, c2}
  Capacity = 2
  TTL = 2
  NoKey = NoKey
  MaxClock = 3
  MaxQueued = 4
INVARIANTS
  TypeOK
  NewestKept
  LoggedOutIsGone
PROPERTIES
  EndsForCause
  ImplementsRecollection
