SPECIFICATION Spec
CONSTANTS
  Checkers = {c1, c2}
  MaxStarts = 0
  MaxOptOuts = 1
PROPERTY NothingCountedAfterOptOut
