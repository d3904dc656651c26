SPECIFICATION FairSpec
CONSTANTS
  Lanes <- MCLane
  Byte <- MCByte
  SETS = 1
  WAYS = 1
  BLOCK_WORDS = 2
  WRITE_BACK = TRUE
  Blocks = 2
  Uncached <- MCNone
  Requests <- MCRequests
  NoRequest = NoRequest
  NoWord = NoWord
  FlushLevels = {FALSE, TRUE}
INVARIANTS
  CleanLinesMatchMemory
PROPERTIES
  FlushDrains
  ImplementsMemory
  EveryAccessAndFlushCompletes
