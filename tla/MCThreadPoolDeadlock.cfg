\* destroyAllThreads right after startThreads: the manager does not wait.
SPECIFICATION Spec
CONSTANTS
  plain = plain
  remover = remover
  manager = manager
  NoOne = NoOne
  Threads <- MCThreads
  Workers = {w1, w2}
  Callers <- MCCallers
  Manager = manager
  Removers <- MCRemovers
  SelfDeleters <- MCRemovers
  Handshake = FALSE
  MaxRuns = 1
INVARIANT NoRemovalDeadlock
CHECK_DEADLOCK FALSE
