SPECIFICATION MCSpec
CONSTANTS
  Workloads = {"polling"}
  Lanes = {0, 1}
  Byte <- MCByte
  Word <- MCWord
  ZeroWord <- MCZero
  FetchRequests <- MCNoFetch
  DataRequests <- MCStores
  NoRequest = NoRequest
  ImemLast = 7
  UartBase = 8
  UartLast = 23
  GpioBase = 32
  GpioLast = 63
  DmemBase = 64
  DmemLast = 71
  ImemWords = 1
  DmemWords = 1
  Image <- MCImage
  FrameCycles = 4340
  ButtonLevels = {FALSE}
INVARIANTS
  StallBounded
