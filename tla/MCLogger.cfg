SPECIFICATION FairSpec
CONSTANTS
  app = app
  admin = admin
  Threads <- MCThreads
  Prios <- MCPrios
  INFO = 7
  DEBUG = 8
  a = a
  b = b
  h = h
  n1 = n1
  n2 = n2
  n3 = n3
  m = m
  Names = {a, b}
  Generations = 2
  Inodes = {1, 2, 3, 4, 5, 6, 7, 8}
  NULL = NULL
  Levels = {0, 1}
  Places = {m}
  Handlers = {h}
  Nodes = {n1, n2, n3}
  Maxsize = 1
  Offers <- MCOffers
  Setups <- MCSetups
  Calls <- MCCalls
  MaxFaults = 1
INVARIANTS
  OutputUndisturbed
  RotationLosesOldest
  BlocksStayTogether
PROPERTIES
  CallsReturn
CHECK_DEADLOCK FALSE
