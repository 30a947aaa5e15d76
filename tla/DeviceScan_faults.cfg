SPECIFICATION Spec
CONSTANTS
  b1 = b1
  Absent = Absent
  NoConf = NoConf
  Bit = {b1}
  Count = 2
  Machine <- SomeMachines
INVARIANTS
  TypeOK
  HandlesInUse
  NoHandleLeft
  ScanComplete
  InterruptsWhole
PROPERTIES
  ScanEnds
CHECK_DEADLOCK FALSE
