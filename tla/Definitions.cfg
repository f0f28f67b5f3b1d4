SPECIFICATION Spec
CONSTANTS
  Entries = {1, 2}
  Processes = {"old", "new"}
  Release <- MCRelease
  Latest = 2
  Wording <- MCWording
  Badge <- MCBadge
  Exp <- MCExp
  NoBadge = NoBadge
  Edited = "edited"
  MaxFaults = 1
  None = None
INVARIANTS
  TypeOK
  SettledAsPromised
  ExpStaleOnlyIfOwed
PROPERTIES
  Converges
CHECK_DEADLOCK FALSE
