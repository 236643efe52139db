\* A server that an exception may end.
SPECIFICATION FairSpec
CONSTANT Stoppers = {s1}
PROPERTY StopListenReturnsAlways
CHECK_DEADLOCK FALSE
