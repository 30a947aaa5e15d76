SPECIFICATION Spec
CONSTANTS
  d1 = d1
  d2 = d2
  b1 = b1
  b2 = b2
  name = name
  Absent = Absent
  Junk = Junk
  Beyond = Beyond
  NoName = NoName
  nobody = nobody
  Name = {name, nobody, NoName}
  Device = {d1, d2}
  Bit = {b1, b2}
  InterruptTypeMap <- SomeMsi
  DevObjName <- OneNamed
  InitialEntry <- AllEntries
  OthersEntry <- SomeOthers
  Args <- AllArgs
  FaultyDevice = {d2}
CONSTRAINT
  OneKey
INVARIANTS
  TypeOK
  RunEffect
  UnaskedKept
