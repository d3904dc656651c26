------------------------------ MODULE AtomicSoc ------------------------------
(***************************************************************************)
(* The programmer's view of the SoC bus: a request takes effect in one     *)
(* indivisible step, exactly once, at the moment its answer is produced,   *)
(* and the answer is what the register table of the SoC guide says for the *)
(* state at that moment.  Between requests the devices change only by      *)
(* themselves: a button edge sets the pending bit, a frame ends.           *)
(***************************************************************************)
EXTENDS Naturals

CONSTANTS
  Lanes, Word, ZeroWord, FetchRequests, DataRequests, NoRequest,
  ImemLast, UartBase, UartLast, GpioBase, GpioLast, DmemBase, DmemLast,
  ImemWords, DmemWords, Image

VARIABLES
  pend, ans, fault,       \* as in AbstractBus
  dmem,                   \* data memory
  txBusy, txByte,         \* a frame is on the line, and its byte
  led, pending, enable,   \* GPIO registers
  button, edge            \* debounced level, and a rising edge this cycle

WordOf(a) == a - (a % 4)
Within(a, lo, hi) == lo <= a /\ a <= hi

Bus == INSTANCE AbstractBus WITH
  Mapped <- LAMBDA c, a : \/ Within(WordOf(a), 0, ImemLast)
                          \/ /\ c = "DATA"
                             /\ \/ Within(WordOf(a), UartBase, UartLast)
                                \/ Within(WordOf(a), GpioBase, GpioLast)
                                \/ Within(WordOf(a), DmemBase, DmemLast)

vars == <<pend, ans, fault, dmem, txBusy, txByte, led, pending, enable, button, edge>>

\* A register of the table: its readable value, and whether it may be written.
Registers ==
  [TXDATA  |-> [at |-> UartBase,      value |-> 0, writable |-> TRUE],
   STATUS  |-> [at |-> UartBase + 4,  value |-> IF txBusy THEN 0 ELSE 1, writable |-> FALSE],
   LED     |-> [at |-> GpioBase,      value |-> led, writable |-> TRUE],
   BUTTON  |-> [at |-> GpioBase + 4,  value |-> IF button THEN 1 ELSE 0, writable |-> FALSE],
   PENDING |-> [at |-> GpioBase + 8,  value |-> IF pending THEN 1 ELSE 0, writable |-> TRUE],
   ENABLE  |-> [at |-> GpioBase + 12, value |-> IF enable THEN 1 ELSE 0, writable |-> TRUE]]

DmemIndex(a) == (WordOf(a) - DmemBase) \div 4

\* The value a read of address a by client c returns, as a set: empty where
\* the access is an error.
ReadValue(c, a) ==
  (IF WordOf(a) \div 4 < ImemWords THEN {Image[WordOf(a) \div 4]} ELSE {})
  \cup (IF c = "DATA" /\ WordOf(a) >= DmemBase /\ DmemIndex(a) < DmemWords
          THEN {dmem[DmemIndex(a)]} ELSE {})
  \cup {[ZeroWord EXCEPT ![0] = Registers[x].value] :
          x \in {y \in DOMAIN Registers : c = "DATA" /\ Registers[y].at = WordOf(a)}}

Writable(c, r) ==
  /\ c = "DATA"
  /\ \/ WordOf(r.adr) >= DmemBase /\ DmemIndex(r.adr) < DmemWords
     \/ \E x \in DOMAIN Registers :
          /\ Registers[x].at = WordOf(r.adr) /\ Registers[x].writable
          /\ x = "TXDATA" => 0 \in r.strb

Outcome(c, r) ==
  LET values == ReadValue(c, r.adr)
      good == IF r.strb = {} THEN values # {} ELSE Writable(c, r)
  IN  IF ~good THEN [kind |-> "err", dat |-> ZeroWord]
      ELSE [kind |-> "ack",
            dat |-> IF r.strb = {} THEN CHOOSE w \in values : TRUE ELSE ZeroWord]

\* The write to address a that takes effect in this step, as a set: the data
\* side was just acknowledged for it.
Effect(a) ==
  {r \in {pend["DATA"]} \ {NoRequest} :
     ans'["DATA"].kind = "ack" /\ WordOf(r.adr) = a /\ r.strb # {}}
Lane0(a) == {r.dat[0] : r \in {x \in Effect(a) : 0 \in x.strb}}

Memory ==
  dmem' = [i \in DOMAIN dmem |->
    [l \in Lanes |->
      LET new == {r.dat[l] : r \in {x \in Effect(DmemBase + 4 * i) : l \in x.strb}}
      IN  IF new = {} THEN dmem[i][l] ELSE CHOOSE b \in new : TRUE]]

\* An acknowledged TXDATA write starts a frame with its byte, which requires
\* the line to be idle; nothing else starts one, and a frame in progress can
\* only end.
Line ==
  IF Lane0(UartBase) = {}
    THEN txByte' = txByte /\ (txBusy' => txBusy)
    ELSE ~txBusy /\ txBusy' /\ {txByte'} = Lane0(UartBase)

\* A simultaneous button edge wins over a clearing write.
Gpio ==
  /\ pending' = (edge \/ (pending /\ \A b \in Lane0(GpioBase + 8) : b % 2 = 0))
  /\ IF Lane0(GpioBase) = {} THEN led' = led
                             ELSE {led'} = {b % 16 : b \in Lane0(GpioBase)}
  /\ IF Lane0(GpioBase + 12) = {} THEN enable' = enable
     ELSE {enable'} = {b % 2 = 1 : b \in Lane0(GpioBase + 12)}
  /\ button' \in BOOLEAN /\ edge' = (button' /\ ~button)

Init ==
  /\ Bus!Init
  /\ dmem = [i \in 0..(DmemWords - 1) |-> ZeroWord]
  /\ ~txBusy /\ txByte = 0
  /\ led = 0 /\ ~pending /\ ~enable /\ ~button /\ ~edge

Cycle ==
  /\ Bus!Cycle
  /\ \A c \in Bus!Clients :
       ans'[c].kind # "none" => ans'[c] = Outcome(c, pend[c])
  /\ Memory /\ Line /\ Gpio

\* A reset forgets everything but the contents of the memory.
Reset ==
  /\ Bus!Reset
  /\ UNCHANGED dmem
  /\ ~txBusy' /\ txByte' = 0
  /\ led' = 0 /\ ~pending' /\ ~enable' /\ ~button' /\ ~edge'

Next == Cycle \/ Reset
Spec == Init /\ [][Next]_vars
=============================================================================
