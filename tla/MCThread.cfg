\* The life of a Thread object whose owner waits for each start.
SPECIFICATION FairSpec
CONSTANTS
  owner = owner
  h1 = h1
  h2 = h2
  NoOne = NoOne
  Threads = {t1}
  Workers = {w1, w2, w3}
  Callers <- MCCallers
  Helpers <- MCHelpers
  Owner <- MCOwner
  Handshake = TRUE
  MaxRuns = 2
INVARIANTS
  OneRun
  StopJoins
  StopStaysRequested
  DeletedOnce
PROPERTIES
  StopTerminates
  ResumeWakes
CHECK_DEADLOCK FALSE
