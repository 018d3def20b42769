CONSTANTS
  Window = 7
  MaxLevels = 1
  MaxElevation = 3
  MaxSlope = 2
  MaxTurns = 2
  Setups <- MCSetups
  Worlds <- Walks
  Others <- MCOthers
  Sky <- MCSky
  IslRate = 2
  FixedRate = 1
SPECIFICATION Spec
INVARIANTS GridKept PassesExact PairsAccepted EnvelopeIsBest RoutesHold
CHECK_DEADLOCK FALSE
