SPECIFICATION MCSpec
CONSTANTS
  Workloads = {"memory", "gpio", "polling"}
  Lanes = {0, 1}
  Byte <- MCByte
  Word <- MCWord
  ZeroWord <- MCZero
  FetchRequests <- MCFetch
  DataRequests <- MCRequests
  NoRequest = NoRequest
  ImemLast = 7
  UartBase = 8
  UartLast = 23
  GpioBase = 32
  GpioLast = 63
  DmemBase = 64
  DmemLast = 71
  ImemWords = 1
  DmemWords = 1
  Image <- MCImage
  FrameCycles = 10
  ButtonLevels = {FALSE, TRUE}
INVARIANTS
  BoundedLatency
PROPERTIES
  ImplementsAtomicSoc
  DevicesKeepContract
