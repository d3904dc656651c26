------------------------------- MODULE SocBus -------------------------------
(***************************************************************************)
(* The bus of rv32i_soc with its real devices: the fabric of WbFabric, the *)
(* instruction and data memories, the UART register block with its         *)
(* transmitter, and the GPIO and interrupt registers.  One step of Tick is *)
(* one posedge of the clock for all of them.                               *)
(*                                                                         *)
(* Two inputs stay abstract.  The debounced button is any level, with a    *)
(* rise pulse registered together with each rising level (module           *)
(* ButtonDebounce).  The transmitter is a countdown of the FrameCycles a   *)
(* frame takes (module UartLink).                                          *)
(***************************************************************************)
EXTENDS WbFabric

CONSTANTS
  Byte,         \* the values of a byte lane
  ImemWords,    \* wb_imem.DEPTH_WORDS
  DmemWords,    \* wb_dmem.DEPTH_WORDS
  Image,        \* the initial contents of the instruction memory
  FrameCycles,  \* ten bit times of uart_tx: 10 * DIVISOR
  ButtonLevels  \* the debounced levels the button takes

ASSUME DeviceAssumption ==
  /\ Byte \subseteq 0..255 /\ {0, 1} \subseteq Byte /\ \A b \in Byte : b % 16 \in Byte
  /\ 0 \in Lanes
  /\ Word = [Lanes -> Byte] /\ ZeroWord = [l \in Lanes |-> 0]
  /\ {ImemWords, DmemWords, FrameCycles} \subseteq Nat \ {0}
  /\ ButtonLevels \subseteq BOOLEAN
  /\ Image \in [0..(ImemWords - 1) -> Word]

\* As rv32i_soc lays the regions out: they begin at word addresses and hold
\* the registers and the memories behind them.
ASSUME LayoutAssumption ==
  /\ \A base \in {UartBase, GpioBase, DmemBase} : base % 4 = 0
  /\ 4 * ImemWords <= ImemLast + 1
  /\ UartBase + 7 <= UartLast /\ GpioBase + 15 <= GpioLast
  /\ DmemBase + 4 * DmemWords <= DmemLast + 1

VARIABLES
  imem_busy, dmem_busy,        \* one-shot response flags of the memories
  dmem,                        \* contents of the data memory
  uart_state, tx_data,         \* wb_uart: "IDLE", "WAIT_TX" or "HOLD"
  tx_left, frame,              \* transmitter: cycles left, byte on the line
  gpio_state, led, irq_pending, irq_enable,
  button_state, button_rise    \* outputs of the debouncer

memoryVars == <<imem_busy, dmem_busy, dmem>>
uartVars == <<uart_state, tx_data, tx_left, frame>>
gpioVars == <<gpio_state, led, irq_pending, irq_enable>>
buttonVars == <<button_state, button_rise>>
socVars == <<vars, memoryVars, uartVars, gpioVars, buttonVars>>

Ack(w) == [kind |-> "ack", dat |-> w]
Err == [kind |-> "err", dat |-> ZeroWord]

\* A register read returns its value in the low bits of lane 0.
RegisterWord(n) == [ZeroWord EXCEPT ![0] = n]
Flag(b) == IF b THEN 1 ELSE 0
Bit0(w) == w[0] % 2 = 1

\* The strobed lanes of a write replace those of the stored word.
Merge(old, r) == [l \in Lanes |-> IF l \in r.strb THEN r.dat[l] ELSE old[l]]

-----------------------------------------------------------------------------
(* wb_imem and wb_dmem: a one-cycle registered response, then one busy     *)
(* cycle in which the still-selected transaction is not taken again.       *)

InRange(base, words) ==
  bus_q.adr >= base /\ bus_q.adr - base < 4 * words /\ bus_q.adr % 4 = 0
WordIndex(base) == (bus_q.adr - base) \div 4

ImemTakes == SlaveCyc("IMEM") /\ ~imem_busy
ImemResponse ==
  IF ~ImemTakes THEN NoResponse
  ELSE IF IsWrite(bus_q) \/ ~InRange(0, ImemWords) THEN Err
  ELSE Ack(Image[WordIndex(0)])

DmemTakes == SlaveCyc("DMEM") /\ ~dmem_busy
DmemResponse ==
  IF ~DmemTakes THEN NoResponse
  ELSE IF ~InRange(DmemBase, DmemWords) THEN Err
  ELSE IF IsWrite(bus_q) THEN Ack(ZeroWord)
  ELSE Ack(dmem[WordIndex(DmemBase)])

MemoryStep ==
  /\ imem_busy' = ImemTakes
  /\ dmem_busy' = DmemTakes
  /\ dmem' = IF DmemTakes /\ InRange(DmemBase, DmemWords) /\ IsWrite(bus_q)
               THEN [dmem EXCEPT ![WordIndex(DmemBase)] = Merge(@, bus_q)]
               ELSE dmem

-----------------------------------------------------------------------------
(* wb_uart and its transmitter.                                            *)

TXDATA == UartBase
STATUS == UartBase + 4

tx_ready == tx_left = 0
tx_valid == uart_state = "WAIT_TX" /\ tx_ready

UartTakes == uart_state = "IDLE" /\ SlaveCyc("UART")
TakesByte == UartTakes /\ bus_q.adr = TXDATA /\ IsWrite(bus_q) /\ 0 \in bus_q.strb

\* Fault: a store is acknowledged in every cycle it waits for the transmitter.
UartAcksWaiting ==
  CASE uart_state = "WAIT_TX" -> Ack(ZeroWord)
    [] UartTakes /\ bus_q.adr = TXDATA /\ ~IsWrite(bus_q) -> Ack(ZeroWord)
    [] UartTakes /\ bus_q.adr = STATUS /\ ~IsWrite(bus_q) ->
         Ack(RegisterWord(Flag(tx_ready)))
    [] UartTakes /\ ~TakesByte /\ (IsWrite(bus_q) \/ bus_q.adr \notin {TXDATA, STATUS}) -> Err
    [] OTHER -> NoResponse

UartResponse ==
  CASE tx_valid -> Ack(ZeroWord)
    [] UartTakes /\ bus_q.adr = TXDATA /\ ~IsWrite(bus_q) -> Ack(ZeroWord)
    [] UartTakes /\ bus_q.adr = STATUS /\ ~IsWrite(bus_q) ->
         Ack(RegisterWord(Flag(tx_ready)))
    [] UartTakes /\ ~TakesByte /\ (IsWrite(bus_q) \/ bus_q.adr \notin {TXDATA, STATUS}) -> Err
    [] OTHER -> NoResponse

\* Fault: the register block does not hold until the transaction is gone.
UartNoHold ==
  /\ tx_data' = IF TakesByte THEN bus_q.dat[0] ELSE tx_data
  /\ uart_state' = CASE TakesByte -> "WAIT_TX"
                      [] UartTakes \/ tx_valid -> "IDLE"
                      [] OTHER -> uart_state

UartStep ==
  \/ /\ TakesByte
     /\ tx_data' = bus_q.dat[0]
     /\ uart_state' = "WAIT_TX"
  \/ /\ ~TakesByte
     /\ UNCHANGED tx_data
     /\ uart_state' = CASE UartTakes \/ tx_valid -> "HOLD"
                        [] uart_state = "HOLD" /\ ~SlaveCyc("UART") -> "IDLE"
                        [] OTHER -> uart_state

\* Fault: one cycle too many in every frame.
TransmitterLong ==
  \/ tx_valid /\ frame' = tx_data /\ tx_left' = FrameCycles + 1
  \/ tx_ready /\ ~tx_valid /\ UNCHANGED <<frame, tx_left>>
  \/ ~tx_ready /\ tx_left' = tx_left - 1 /\ UNCHANGED frame

TransmitterStep ==
  \/ tx_valid /\ frame' = tx_data /\ tx_left' = FrameCycles
  \/ tx_ready /\ ~tx_valid /\ UNCHANGED <<frame, tx_left>>
  \/ ~tx_ready /\ tx_left' = tx_left - 1 /\ UNCHANGED frame

-----------------------------------------------------------------------------
(* wb_gpio_irq.                                                            *)

LED == GpioBase
BUTTON == GpioBase + 4
PENDING == GpioBase + 8
ENABLE == GpioBase + 12

GpioTakes == gpio_state = "IDLE" /\ SlaveCyc("GPIO")
WritesLane0(a) == GpioTakes /\ IsWrite(bus_q) /\ bus_q.adr = a /\ 0 \in bus_q.strb
clear_pending == WritesLane0(PENDING) /\ Bit0(bus_q.dat)

GpioRead ==
  CASE bus_q.adr = LED -> led
    [] bus_q.adr = BUTTON -> Flag(button_state)
    [] bus_q.adr = PENDING -> Flag(irq_pending)
    [] bus_q.adr = ENABLE -> Flag(irq_enable)

GpioResponse ==
  IF ~GpioTakes THEN NoResponse
  ELSE IF \/ bus_q.adr \notin {LED, BUTTON, PENDING, ENABLE}
          \/ IsWrite(bus_q) /\ bus_q.adr = BUTTON THEN Err
  ELSE IF IsWrite(bus_q) THEN Ack(ZeroWord)
  ELSE Ack(RegisterWord(GpioRead))

\* Fault: a clearing write wins over a simultaneous button edge.
GpioClearWins ==
  /\ gpio_state' = IF SlaveCyc("GPIO") THEN "HOLD" ELSE "IDLE"
  /\ irq_pending' = ((button_rise \/ irq_pending) /\ ~clear_pending)
  /\ led' = IF WritesLane0(LED) THEN bus_q.dat[0] % 16 ELSE led
  /\ irq_enable' = IF WritesLane0(ENABLE) THEN Bit0(bus_q.dat) ELSE irq_enable

GpioStep ==
  /\ gpio_state' = IF SlaveCyc("GPIO") THEN "HOLD" ELSE "IDLE"
  /\ irq_pending' = (button_rise \/ (irq_pending /\ ~clear_pending))
  /\ led' = IF WritesLane0(LED) THEN bus_q.dat[0] % 16 ELSE led
  /\ irq_enable' = IF WritesLane0(ENABLE) THEN Bit0(bus_q.dat) ELSE irq_enable

irq_external == irq_pending /\ irq_enable

\* The debounced level changes at any time; its rise pulse is registered with it.
ButtonStep ==
  /\ button_state' \in ButtonLevels
  /\ button_rise' = (button_state' /\ ~button_state)

-----------------------------------------------------------------------------

ResponseOf == [IMEM |-> ImemResponse, UART |-> UartResponse,
               GPIO |-> GpioResponse, DMEM |-> DmemResponse]

SlavesStep ==
  /\ resp' = ResponseOf
  /\ MemoryStep
  /\ UartStep
  /\ TransmitterStep
  /\ GpioStep
  /\ ButtonStep

SocInit ==
  /\ Init
  /\ imem_busy = FALSE /\ dmem_busy = FALSE
  /\ dmem = [i \in 0..(DmemWords - 1) |-> ZeroWord]
  /\ uart_state = "IDLE" /\ tx_data = 0 /\ tx_left = 0 /\ frame = 0
  /\ gpio_state = "IDLE" /\ led = 0 /\ irq_pending = FALSE /\ irq_enable = FALSE
  /\ button_state = FALSE /\ button_rise = FALSE

SocTick ==
  /\ ClientStep
  /\ AdapterStep
  /\ ArbiterStep
  /\ InterconnectStep
  /\ FaultLatchStep
  /\ SlavesStep

\* A clock edge with rst high: every register returns to its reset value, in
\* the middle of whatever was going on; the block RAM keeps its contents.
SocReset ==
  /\ Reset
  /\ imem_busy' = FALSE /\ dmem_busy' = FALSE /\ UNCHANGED dmem
  /\ uart_state' = "IDLE" /\ tx_data' = 0 /\ tx_left' = 0 /\ frame' = 0
  /\ gpio_state' = "IDLE" /\ led' = 0 /\ irq_pending' = FALSE /\ irq_enable' = FALSE
  /\ button_state' = FALSE /\ button_rise' = FALSE

SocNext == SocTick \/ SocReset

SocSpec == SocInit /\ [][SocNext]_socVars

-----------------------------------------------------------------------------
(* Properties.                                                             *)

\* The devices keep the contract the fabric was verified under.
DevicesKeepContract == Spec

Atomic == INSTANCE AtomicSoc WITH
  pend <- src,
  ans <- [c \in Clients |-> AnswerTo(c)],
  fault <- (bus_fault \/ \E c \in Clients : fault_pulse[c]),
  txBusy <- tx_left # 0,
  txByte <- frame,
  pending <- irq_pending,
  enable <- irq_enable,
  button <- button_state,
  edge <- button_rise

\* Every load and store takes effect exactly once, atomically, with the
\* answer the register table gives at that moment; no button edge is lost to
\* a clearing write; an accepted TXDATA write starts exactly one frame.
ImplementsAtomicSoc == Atomic!Spec
=============================================================================
