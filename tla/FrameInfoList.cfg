SPECIFICATION SpecList
CONSTANTS
  a1 = a1
  a2 = a2
  a3 = a3
  a4 = a4
  Null = Null
  Items <- MCItems
  Pts <- MCPts
  MaxInfos = 5
INVARIANTS WellLinked
PROPERTIES ImplementsStore
SYMMETRY Symmetry
CHECK_DEADLOCK FALSE
