SPECIFICATION StoreSpec
CONSTANTS
  j1 = j1
  j2 = j2
  Jobs = {j1, j2}
  Phases = {"engine"}
  Closers = {}
  MaxPending = 2
  MaxObjects = 1
  None = None
  Handlers = {h1}
  Worker = Worker
  ResultSize <- SmallResults
  ExportSize <- BigExports
  Setups <- RacingSetups
INVARIANT DoneHasResult
\* The worker waits for ever once nobody submits any more.
CHECK_DEADLOCK FALSE
