\* The units of Units at small sizes.  The divisor is the least for which the
\* decoder may count one cycle less per bit; the power-on time is longer than
\* the synchroniser and the debounce time longer than the window of a bounce;
\* mtime runs long enough to acknowledge an interrupt, return and be entered
\* again; the texts have three and two characters, with one press each before,
\* during and after another's message.  The bytes are the first and the last
\* bits alone, alternating and equal bits.
SPECIFICATION UnitsSpec
CONSTANTS
  SETS = 1
  WAYS = 2
  BLOCK_WORDS = 2
  Blocks = 3
  DIVISOR = 19
  UartDivisor = 18
  Byte = {0, 1, 2, 64, 128, 85, 170, 255}
  POWER_ON_CYCLES = 16
  STABLE_CYCLES = 5
  Top = 5
  BannerLength = 3
  MessageLength = 2
  MaxPresses = 3
  NoWord = NoWord
  NoAddr = NoAddr
INVARIANTS
  FetchDelivers
  DecodesWhatWasSent
  InputsAreClean
  AcknowledgedStaysQuiet
  TextIsWhole
  LedsCountPresses
PROPERTIES
  EveryFetchCompletes
  ImplementsUartLine
  OneEventPerPress
  PressIsShown
