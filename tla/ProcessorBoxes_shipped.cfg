SPECIFICATION SpecTopology
CONSTANTS
  Thread = {0, 1, 2, 3, 4, 5}
  Topology <- Shipped
  LayoutInput <- Layouts
INVARIANTS
  TypeOK
  BoxesShowMask
  OneThreadPerCore
  ClassPresets
  CachePresets
  PresetsWork
  LayoutIsRight
  LargestCoreCounted
  GridIsBest
