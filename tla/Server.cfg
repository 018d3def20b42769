CONSTANTS
  h1 = h1
  h2 = h2
  Handlers = {h1, h2}
  Second = 3
  Stall = 1
  RateLimit = 2
  MaxPending = 1
  MaxWindow = 8
  MaxSamples = 9
  MaxStep = 4
  MaxReplayWindow = 4
  MaxRuns = 4
  FoldedText <- MCFoldedText
  DottedText = {}
  Startup <- BaseDocument
  Setups <- MCSetups
SPECIFICATION Spec
INVARIANT RateIsHonest
INVARIANT JobsAreVetted
\* Clients stop, and the server waits for ever.
CHECK_DEADLOCK FALSE
