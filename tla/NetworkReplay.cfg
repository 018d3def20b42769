CONSTANTS
  Source = 2
  Target = 3
  Holdings <- MCHoldings
  Replays <- MCReplays
  Serialization <- MCSerialization
SPECIFICATION Spec
INVARIANTS AcquisitionGates AccountAccepted EvidenceIsValidated
CHECK_DEADLOCK FALSE
