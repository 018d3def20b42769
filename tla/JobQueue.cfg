\* Three ids and room for two of them, so that the queue can be full; two
\* objects per id, so that a failed or evicted id is submitted again.
SPECIFICATION FairSpec
CONSTANTS
  Jobs = {j1, j2, j3}
  Phases = {"engine"}
  Closers = {c1, c2}
  MaxPending = 2
  MaxObjects = 2
  None = None
INVARIANTS
  TypeOK
  NoJobLost
  CloseIsFinal
PROPERTIES
  ResultKept
  JobSettles
  CloseReturns
  BoardSpec
\* The worker waits for ever once nobody submits any more.
CHECK_DEADLOCK FALSE
