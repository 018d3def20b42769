CONSTANTS
  Span <- MCSpan
  Grid <- MCGrid
  Tolerance = 2
  Links <- MCLinks
  Replays <- MCReplays
  Serialization <- MCSerialization
  PathDelay <- MCPathDelay
SPECIFICATION Spec
INVARIANTS TraceHolds AccountAccepted EvidenceIsValidated
CHECK_DEADLOCK FALSE
