SPECIFICATION Spec
CONSTANTS
  d1 = d1
  d2 = d2
  d3 = d3
  b1 = b1
  b2 = b2
  Absent = Absent
  Device = {d1, d2, d3}
  Bit = {b1}
  InterruptTypeMap <- SomeMsi
  InitialEntry <- MsiEntries
  PolicyChoice = {0}
  PriorityChoice = {0}
  LimitChoice = {1}
  FaultyDevice = {d1}
CONSTRAINT OneSearch
INVARIANTS
  RowsAgree
  UntouchedKeeps
PROPERTIES
  AcceptedIsStored
