\* One request, its answer, and a message from another thread of the server.
SPECIFICATION FairSpec
CONSTANTS
  client = client
  server = server
  c = c
  s = s
  n = n
  ask = ask
  answer = answer
  note = note
  Ends <- MCEnds
  Threads <- MCThreads
  End <- MCEnd
  Readers <- MCReaders
  Announces = {c, s, n}
  Outbox <- MCOutbox
  Size <- MCSize
  Large = {answer}
  HeadWords = 1
INVARIANTS
  DeliveredAsSent
  PackedOnlyIfAnnounced
PROPERTIES
  InStep
  AllArrive
CHECK_DEADLOCK FALSE
