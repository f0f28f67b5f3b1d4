SPECIFICATION Spec
CONSTANTS
  Groups = {1}
  Projects = {2}
  Processes = {"p", "q"}
  MaxFaults = 2
  None = None
INVARIANTS
  TypeOK
  SettledAsPromised
  OneHookUnlessRaced
PROPERTIES
  EveryTargetHooked
CHECK_DEADLOCK FALSE
