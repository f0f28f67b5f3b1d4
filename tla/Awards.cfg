SPECIFICATION Spec
CONSTANTS
  Passes = {p1, p2}
  Top = 2
  LeaseMayLapse = TRUE
  MaxFaults = 2
  None = None
  Failed = Failed
INVARIANTS
  TypeOK
  AwardedOnce
  RecordMatchesGitLab
PROPERTIES
  TrackedStaysTracked
  TopTierDelivered
