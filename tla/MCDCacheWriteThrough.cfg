SPECIFICATION Spec
CONSTANTS
  Lanes <- MCLane
  Byte <- MCByte
  SETS = 1
  WAYS = 2
  BLOCK_WORDS = 1
  WRITE_BACK = FALSE
  Blocks = 3
  Uncached <- MCUncached
  Requests <- MCRequests
  NoRequest = NoRequest
  NoWord = NoWord
  FlushLevels = {FALSE, TRUE}
INVARIANTS
  NoDuplicateLines
  NoDuplicateAccess
  MissCountedOnce
PROPERTIES
  ImplementsMemory
