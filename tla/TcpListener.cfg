\* A server, and three threads that stop it.
SPECIFICATION FairSpec
CONSTANT Stoppers = {s1, s2, s3}
INVARIANTS
  ListenKeepsSocket
PROPERTIES
  StopMeansStopped
  StopRequestServed
  StopListenReturns
CHECK_DEADLOCK FALSE
