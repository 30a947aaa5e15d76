SPECIFICATION Spec
CONSTANTS
  d1 = d1
  d2 = d2
  d3 = d3
  b1 = b1
  b2 = b2
  Absent = Absent
  Device = {d1, d2}
  Bit = {b1}
  InterruptTypeMap <- NoMsi
  InitialEntry <- AffinityEntries
  PolicyChoice = {4}
  PriorityChoice = {0, 3}
  LimitChoice = {}
  FaultyDevice = {}
INVARIANTS
  NamedValuesStored
