SPECIFICATION Spec
CONSTANTS
  Checkers = {c1, c2}
  MaxStarts = 1
  MaxOptOuts = 1
INVARIANTS
  ReasonKeptCurrent
PROPERTIES
  NothingCountedForExcluded
  ReasonConverges
