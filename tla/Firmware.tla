------------------------------ MODULE Firmware ------------------------------
(***************************************************************************)
(* The demo firmware on the SoC: main and the interrupt handler of demo.c  *)
(* with the trap entry of start.S, sharing the UART and the GPIO registers.*)
(* A step is one access of a device register or of a CSR; an interrupt may *)
(* fall between any two, except while a store waits for the transmitter    *)
(* and the pipeline stands still.  The devices behave as in AtomicSoc: a   *)
(* store to TXDATA waits for the line, a button edge beats a clear.        *)
(*                                                                         *)
(* Only the external interrupt is ever enabled and every access is of a    *)
(* decoded register, so the handler's branch for other causes is never     *)
(* taken.                                                                  *)
(***************************************************************************)
EXTENDS Naturals, Sequences

CONSTANTS
  BannerLength,    \* characters of "rv32i soc ready\n"
  MessageLength,   \* characters of "external irq\n"
  MaxPresses       \* bound: presses between two resets

VARIABLES
  pc, at, value,             \* program position, next character, a register
  frame,                     \* what trap entry saved, None outside the handler
  mie, meie,                 \* mstatus.MIE and mie.MEIE
  irq_count,                 \* the firmware's counter, in data memory
  busy, led, pending, enable,          \* devices
  line,      \* history: what the UART accepted, [by, at] for each character
  presses,   \* history: button events since the last reset
  owed       \* history: a press the LEDs do not show yet

None == << >>
cpuVars == <<pc, at, value, frame, mie, meie>>
deviceVars == <<busy, led, pending, enable>>
historyVars == <<line, presses, owed>>
vars == <<cpuVars, irq_count, deviceVars, historyVars>>

Handling == frame # None
TextLength == IF Handling THEN MessageLength ELSE BannerLength

\* The four LEDs, one of them lit, rotated by one.
rotate(v) == IF v = 0 THEN 1 ELSE ((v * 2) % 16) + (v \div 8)

-----------------------------------------------------------------------------
(* start.S and main.                                                       *)

\* Clear .bss, set the trap vector, call main.
start ==
  /\ pc = "start" /\ pc' = "clear"
  /\ irq_count' = 0
  /\ UNCHANGED <<at, value, frame, mie, meie, deviceVars, historyVars>>

\* Fault: the LEDs are set last, when interrupts are on.
EnableFirst ==
  /\ UNCHANGED <<at, value, frame, irq_count, busy, historyVars>>
  /\ \/ pc = "clear" /\ pc' = "enable" /\ pending' = FALSE /\ UNCHANGED <<led, enable, mie, meie>>
     \/ pc = "enable" /\ pc' = "meie" /\ enable' = TRUE /\ UNCHANGED <<led, pending, mie, meie>>
     \/ pc = "meie" /\ pc' = "mie" /\ meie' = TRUE /\ UNCHANGED <<led, pending, enable, mie>>
     \/ pc = "mie" /\ pc' = "led" /\ mie' = TRUE /\ UNCHANGED <<led, pending, enable, meie>>
     \/ pc = "led" /\ pc' = "poll" /\ led' = 1 /\ UNCHANGED <<pending, enable, mie, meie>>

\* The stores and CSR writes before the banner.
configure ==
  /\ UNCHANGED <<at, value, frame, irq_count, busy, historyVars>>
  /\ \/ pc = "clear" /\ pc' = "led" /\ pending' = FALSE /\ UNCHANGED <<led, enable, mie, meie>>
     \/ pc = "led" /\ pc' = "enable" /\ led' = 1 /\ UNCHANGED <<pending, enable, mie, meie>>
     \/ pc = "enable" /\ pc' = "meie" /\ enable' = TRUE /\ UNCHANGED <<led, pending, mie, meie>>
     \/ pc = "meie" /\ pc' = "mie" /\ meie' = TRUE /\ UNCHANGED <<led, pending, enable, mie>>
     \/ pc = "mie" /\ pc' = "poll" /\ mie' = TRUE /\ UNCHANGED <<led, pending, enable, meie>>

\* ++main_loop_progress: a plain instruction, an interrupt may follow.
main_loop == pc = "loop" /\ UNCHANGED vars

-----------------------------------------------------------------------------
(* uart_puts, by main and by the handler.                                  *)

\* Read STATUS until TX_READY is set.
poll ==
  /\ pc = "poll" /\ ~busy /\ pc' = "store"
  /\ UNCHANGED <<at, value, frame, mie, meie, irq_count, deviceVars, historyVars>>

Advance ==
  IF at = TextLength
    THEN at' = 1 /\ pc' = (IF Handling THEN "mret" ELSE "loop")
    ELSE at' = at + 1 /\ pc' = "poll"

\* Fault: a store to a busy transmitter is dropped.
TransmitOrDrop ==
  /\ pc = "store" /\ Advance /\ busy' = TRUE
  /\ line' = IF busy THEN line
             ELSE Append(line, [by |-> IF Handling THEN "irq" ELSE "main", at |-> at])
  /\ UNCHANGED <<value, frame, mie, meie, irq_count, led, pending, enable, presses, owed>>

\* Store to TXDATA.  The handler may have used the line since main polled it.
transmit ==
  /\ pc \in {"store", "wait"}
  /\ IF busy
       THEN pc' = "wait" /\ UNCHANGED <<at, busy, line>>
       ELSE /\ Advance /\ busy' = TRUE
            /\ line' = Append(line, [by |-> IF Handling THEN "irq" ELSE "main", at |-> at])
  /\ UNCHANGED <<value, frame, mie, meie, irq_count, led, pending, enable, presses, owed>>

-----------------------------------------------------------------------------
(* The interrupt: trap entry, trap_handler_c, return.                      *)

irq_pending == pending /\ enable /\ meie /\ mie /\ pc # "wait"

trap_entry ==
  /\ irq_pending
  /\ frame' = <<pc, at, value>>
  /\ pc' = "acknowledge" /\ at' = 1 /\ mie' = FALSE
  /\ UNCHANGED <<value, meie, irq_count, deviceVars, historyVars>>

\* Fault: the pending bit is cleared once more, after the LEDs changed.
AcknowledgeAgain ==
  \/ /\ pc = "acknowledge" /\ pc' = "read" /\ pending' = FALSE
     /\ UNCHANGED <<at, value, frame, mie, meie, irq_count, busy, led, enable, historyVars>>
  \/ /\ pc = "read" /\ pc' = "show" /\ value' = led % 16
     /\ UNCHANGED <<at, frame, mie, meie, irq_count, deviceVars, historyVars>>
  \/ /\ pc = "show" /\ pc' = "count" /\ led' = rotate(value) /\ owed' = pending
     /\ UNCHANGED <<at, value, frame, mie, meie, irq_count, busy, pending, enable, line, presses>>
  \/ /\ pc = "count" /\ pc' = "poll" /\ irq_count' = irq_count + 1 /\ pending' = FALSE
     /\ UNCHANGED <<at, value, frame, mie, meie, busy, led, enable, historyVars>>

\* GPIO_IRQ_PENDING = 1; value = GPIO_LED; GPIO_LED = rotated; ++irq_count.
trap_handler_c ==
  \/ /\ pc = "acknowledge" /\ pc' = "read" /\ pending' = FALSE
     /\ UNCHANGED <<at, value, frame, mie, meie, irq_count, busy, led, enable, historyVars>>
  \/ /\ pc = "read" /\ pc' = "show" /\ value' = led % 16
     /\ UNCHANGED <<at, frame, mie, meie, irq_count, deviceVars, historyVars>>
  \/ /\ pc = "show" /\ pc' = "count" /\ led' = rotate(value) /\ owed' = pending
     /\ UNCHANGED <<at, value, frame, mie, meie, irq_count, busy, pending, enable, line, presses>>
  \/ /\ pc = "count" /\ pc' = "poll" /\ irq_count' = irq_count + 1
     /\ UNCHANGED <<at, value, frame, mie, meie, deviceVars, historyVars>>

\* Restore the registers and return; only an interrupted program was enabled.
mret ==
  /\ pc = "mret"
  /\ pc' = frame[1] /\ at' = frame[2] /\ value' = frame[3]
  /\ frame' = None /\ mie' = TRUE
  /\ UNCHANGED <<meie, irq_count, deviceVars, historyVars>>

-----------------------------------------------------------------------------
(* The devices and the board.                                              *)

FrameEnds ==
  /\ busy /\ busy' = FALSE
  /\ UNCHANGED <<cpuVars, irq_count, led, pending, enable, historyVars>>

\* A debounced press.  Those before main clears the pending bit are discarded.
Press ==
  /\ presses < MaxPresses
  /\ presses' = presses + 1
  /\ pending' = TRUE
  /\ owed' = (owed \/ pc \notin {"start", "clear"})
  /\ UNCHANGED <<cpuVars, irq_count, busy, led, enable, line>>

\* Everything but the contents of data memory.
Reset ==
  /\ pc' = "start" /\ at' = 1 /\ value' = 0 /\ frame' = None
  /\ mie' = FALSE /\ meie' = FALSE
  /\ busy' = FALSE /\ led' = 0 /\ pending' = FALSE /\ enable' = FALSE
  /\ line' = << >> /\ presses' = 0 /\ owed' = FALSE
  /\ UNCHANGED irq_count

Init ==
  /\ pc = "start" /\ at = 1 /\ value = 0 /\ frame = None
  /\ mie = FALSE /\ meie = FALSE
  /\ busy = FALSE /\ led = 0 /\ pending = FALSE /\ enable = FALSE
  /\ irq_count = 0
  /\ line = << >> /\ presses = 0 /\ owed = FALSE

Cpu == start \/ configure \/ main_loop \/ poll \/ transmit \/ trap_handler_c \/ mret
Running == Cpu \/ trap_entry \/ FrameEnds \/ Press
Next == Running \/ Reset

\* The processor runs, every loop of the program has a plain instruction after
\* which a pending interrupt is taken, and frames end.
Fairness == WF_vars(Cpu) /\ WF_vars(trap_entry) /\ WF_vars(FrameEnds)
Spec == Init /\ [][Next]_vars /\ Fairness

-----------------------------------------------------------------------------
(* Properties.                                                             *)

\* Of the characters before position i the last one of main's is number n; none
\* if n = 0.
FollowsOn(text, i, n) ==
  \/ n = 0 /\ \A k \in 1 .. i - 1 : text[k].by # "main"
  \/ \E j \in 1 .. i - 1 :
       text[j] = [by |-> "main", at |-> n] /\ \A k \in j + 1 .. i - 1 : text[k].by # "main"

\* The transcript: main's characters come once and in order, and a message of
\* the handler is never interrupted or cut, wherever the interrupt falls
\* between a poll and its store (uart_putc).
TextIsWhole ==
  /\ \A i \in 1..Len(line) : line[i].by = "main" => FollowsOn(line, i, line[i].at - 1)
  /\ \A i \in 1..Len(line) : line[i].by = "irq" =>
       /\ line[i].at > 1 => i > 1 /\ line[i - 1] = [by |-> "irq", at |-> line[i].at - 1]
       /\ line[i].at < MessageLength /\ i < Len(line) =>
            line[i + 1] = [by |-> "irq", at |-> line[i].at + 1]
  /\ pc = "loop" => \E i \in 1..Len(line) : line[i] = [by |-> "main", at |-> BannerLength]

\* The LED that n rotations of the first one light.
LedAfter(n) == <<1, 2, 4, 8>>[(n % 4) + 1]

\* One LED change for each interrupt, no interrupt without a press of its own,
\* whatever a reset leaves in data memory (trap_handler_c; the checklist of
\* docs/soc.md: one LED change and one line for a press, none for holding it).
LedsCountPresses ==
  pc \notin {"start", "clear", "led"} =>
    /\ led = LedAfter(irq_count + (IF pc = "count" THEN 1 ELSE 0))
    /\ irq_count
       + (IF pending THEN 1 ELSE 0)
       + (IF Handling /\ pc \in {"read", "show", "count"} THEN 1 ELSE 0) <= presses

\* A press after start-up is always shown: none is lost while the handler
\* prints, clears or returns.
PressIsShown == (<>[][Running]_vars) => (owed ~> ~owed)
=============================================================================
