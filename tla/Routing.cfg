SPECIFICATION Spec
CONSTANTS
  SatelliteCount = 3
  Worlds <- SmallWorlds
  IslCapacity = 2
  FixedCapacity = 2
  Infinity = 4
INVARIANTS
  RouteIsBest
PROPERTIES
  SettledIsFinal
\* The route is found.
CHECK_DEADLOCK FALSE
