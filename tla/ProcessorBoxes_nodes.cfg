SPECIFICATION SpecTopology
CONSTANTS
  Thread = {0, 1, 2, 3, 4, 5}
  Topology <- Nodes
  LayoutInput <- Layouts
INVARIANTS
  CachePresets
