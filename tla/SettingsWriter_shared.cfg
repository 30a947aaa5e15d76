SPECIFICATION Spec
CONSTANTS
  w1 = w1
  w2 = w2
  b1 = b1
  Absent = Absent
  Closed = Closed
  Bit = {b1}
  Writer = {w1, w2}
  Window = {w1}
  InterruptTypes = {2}
  InitialEntry <- Entries
  Change <- SharedChanges
  Faulty = FALSE
INVARIANTS
  UndisturbedIsStored
  MaskUnlessTorn
PROPERTIES
  StoreSpec
