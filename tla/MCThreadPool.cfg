\* A pool with a thread that leaves it and deletes itself.
SPECIFICATION FairSpec
CONSTANTS
  plain = plain
  remover = remover
  manager = manager
  NoOne = NoOne
  Threads <- MCThreads
  Workers = {w1, w2}
  Callers <- MCCallers
  Manager = manager
  Removers <- MCRemovers
  SelfDeleters <- MCRemovers
  Handshake = TRUE
  MaxRuns = 2
INVARIANTS
  PoolPointsToLive
  NoRunOnDeleted
  NoRemovalDeadlock
PROPERTIES
  StopThreadsJoins
  StopThreadsReturns
CHECK_DEADLOCK FALSE
