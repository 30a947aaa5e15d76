SPECIFICATION SpecExport
CONSTANTS
  w1 = w1
  w2 = w2
  b1 = b1
  Absent = Absent
  Closed = Closed
  NoFile = NoFile
  Bit = {b1}
  ByteBits = 2
  ByteCount = 4
  Writer = {w1}
  Window = {w1}
  InterruptTypes = {2}
  InitialEntry <- FullEntry
  Change <- LimitChanges
  Faulty = FALSE
PROPERTIES
  ImportRestores
