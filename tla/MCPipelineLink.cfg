SPECIFICATION Spec
CONSTANTS
  WordBits = 5
  Regs <- MCRegs
  LinkRegs <- MCLinkRegs
  RESET_PC = 0
  Programs <- MCEmptyFunction
  IDX_BITS = 2
  TAG_BITS = 1
  GHIST_BITS = 1
  GSHARE = TRUE
  RAS_DEPTH = 2
  IrqLevels = {FALSE, TRUE}
INVARIANT ForwardingCoversPairs
