SPECIFICATION Spec
CONSTANTS
  Lanes = {0}
  Word = {0, 1}
  ZeroWord = 0
  FetchRequests <- MCFetch
  DataRequests <- MCData
  NoRequest = NoRequest
  ImemLast = 7
  UartBase = 16
  UartLast = 19
  GpioBase = 24
  GpioLast = 27
  DmemBase = 32
  DmemLast = 39
INVARIANT
  FabricInv
PROPERTY
  ImplementsAbstractBus
