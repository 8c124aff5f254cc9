SPECIFICATION FairSpec
CONSTANTS
  usr1 = usr1
  usr2 = usr2
  a = a
  b = b
  Signal = {usr1, usr2}
  Id = {a, b}
  MaxCallbacks = 3
  MaxSent = 3
CHECK_DEADLOCK FALSE
INVARIANTS
  TablesAgree
  WalkIsStable
PROPERTIES
  AllAreCalled
  HandlersEnd
