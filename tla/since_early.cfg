SPECIFICATION Spec
CONSTANTS
  Null <- MCNull
  Groups = 3
  Base = 4
  Versions <- MCVersions
  Times <- MCTimes
  MaxRows = 2
INVARIANTS NothingBefore
CHECK_DEADLOCK FALSE
