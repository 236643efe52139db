\* threadStop right after threadStart: the owner does not wait.
SPECIFICATION Spec
CONSTANTS
  owner = owner
  h1 = h1
  h2 = h2
  NoOne = NoOne
  Threads = {t1}
  Workers = {w1, w2, w3}
  Callers <- MCCallers
  Helpers <- MCHelpers
  Owner <- MCOwner
  Handshake = FALSE
  MaxRuns = 2
INVARIANT StopJoins
CHECK_DEADLOCK FALSE
