SPECIFICATION Spec
CONSTANTS
  Passes = {p1, p2}
  Top = 2
  LeaseMayLapse = TRUE
  MaxFaults = 1
  None = None
  Failed = Failed
PROPERTY OnlyUntrackedTakenBack
