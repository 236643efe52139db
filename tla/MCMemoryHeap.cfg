\* Blocks of one and of two elements at three addresses; the third free cleans up.
SPECIFICATION ObjectsSpec
CONSTANTS
  Blocks = {b1, b2, b3}
  NULL = NULL
  IncreaseSize = 1
  GrowPercent = 100
  Sizes = {0, 2, 3}
  CleanupAfter = 2
  MaxElements = 2
  Asked = {0, 2}
  HeaderSize = 32
  GroupSize = 32
  Unset <- MCUnset
  Newline = 1
  Word = 16
  Page = 2
  Scratch = 4
  MaxAlloc = 4
  Data <- MCData
  Lengths = {0, 1, 3}
  Offsets <- MCOffsets
  Texts = {0, 1, 2}
  Strings = {1, 2, 3, 4, 5}
  Freed <- MCFreed
  Slack = 2
  MaxLen = 3
  MaxRows = 6
  Others <- MCOthers
INVARIANTS
  NoDanglingPointer
  NoBlockLost
  HeapKeepsBooks
  ArrayOwnsStrings
PROPERTIES
  GroupKeepsBooks
  KeepsReserve
  GrowsOnlyWhenFull
  ImplementsPool
  CallsReturn
  ImplementsList
  ImplementsKeyTree
  ImplementsByteFile
  ImplementsTaggedFile
  ImplementsText
CHECK_DEADLOCK FALSE
