SPECIFICATION FairStoreSpec
CONSTANTS
  j1 = j1
  j2 = j2
  Jobs = {j1, j2}
  Phases = {"engine"}
  Closers = {c1}
  MaxPending = 2
  MaxObjects = 2
  None = None
  Handlers = {h1, h2}
  Worker = Worker
  ResultSize <- Results
  ExportSize <- Exports
  Setups <- SoundSetups
INVARIANTS
  DoneHasResult
  NoLeak
  UsageIsExact
  UsageWithinLimit
  CloseRemovesResults
PROPERTIES
  ExportLockReleased
\* The worker waits for ever once nobody submits any more.
CHECK_DEADLOCK FALSE
