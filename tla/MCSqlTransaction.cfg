\* All three databases; only PostgreSQL loses connections.
SPECIFICATION Spec
CONSTANTS
  Rows = {r1, r2, r3}
  Dialects <- MCDialects
  Lossy <- MCLossy
  ThrowsAfter = {"INSERT", "COMMIT", "ROLLBACK", "SAVEPOINT"}
  MaxDepth = 3
  MaxSavepoints = 3
INVARIANTS
  LevelsAreOnServer
PROPERTIES
  ImplementsNesting
  MethodsKeepPromises
CHECK_DEADLOCK FALSE
