------------------------------ MODULE UartLink ------------------------------
(***************************************************************************)
(* uart_tx driving the UartDecoder of the SoC simulator: the transmitter   *)
(* serialises a byte as a start bit, eight data bits LSB first and a stop  *)
(* bit, DIVISOR cycles each; the decoder resynchronises on every falling   *)
(* edge and samples in the middle of each bit, as it counts them: its own  *)
(* divisor may be one less.  A step is one clock edge followed by one call *)
(* of observe with the level the edge produced.                            *)
(***************************************************************************)
EXTENDS Integers, Sequences

CONSTANTS
  DIVISOR,      \* clock cycles per bit of the transmitter, CLOCK_HZ / UART_BAUD rounded
  UartDivisor,  \* of the decoder, the same quotient truncated
  Byte          \* the bytes sent

VARIABLES
  frame, bit_index, divider_count, busy,             \* uart_tx
  phase, previous, countdown, bit, value, error,     \* UartDecoder
  inFlight   \* history: bytes accepted by uart_tx and not yet decoded

txVars == <<frame, bit_index, divider_count, busy>>
rxVars == <<phase, previous, countdown, bit, value, error>>
vars == <<txVars, rxVars, inFlight>>

Place == <<1, 2, 4, 8, 16, 32, 64, 128>>
BitOf(b, i) == (b \div Place[i + 1]) % 2

\* Fault: the most significant bit is sent first.
FrameMsbFirst(b) == [i \in 0..9 |->
  IF i = 0 THEN 0 ELSE IF i = 9 THEN 1 ELSE BitOf(b, 8 - i)]

\* {1'b1, data, 1'b0}, indexed by bit_index
FrameOf(b) == [i \in 0..9 |->
  IF i = 0 THEN 0 ELSE IF i = 9 THEN 1 ELSE BitOf(b, i - 1)]

ready == ~busy
tx == IF busy THEN frame[bit_index] ELSE 1

-----------------------------------------------------------------------------

Accept(b) ==
  /\ ~busy
  /\ frame' = FrameOf(b) /\ bit_index' = 0 /\ divider_count' = 0 /\ busy' = TRUE

\* No valid byte is offered.
Rest == ~busy /\ UNCHANGED txVars

\* Fault: the frame ends with its last data bit.
ShiftNoStop ==
  /\ busy
  /\ UNCHANGED frame
  /\ divider_count' = (divider_count + 1) % DIVISOR
  /\ IF divider_count # DIVISOR - 1 THEN UNCHANGED <<bit_index, busy>>
     ELSE bit_index' = (bit_index + 1) % 9 /\ busy' = (bit_index # 8)

Shift ==
  /\ busy
  /\ UNCHANGED frame
  /\ \/ /\ divider_count # DIVISOR - 1
        /\ divider_count' = divider_count + 1
        /\ UNCHANGED <<bit_index, busy>>
     \/ /\ divider_count = DIVISOR - 1
        /\ divider_count' = 0
        /\ bit_index' = IF bit_index = 9 THEN 0 ELSE bit_index + 1
        /\ busy' = (bit_index # 9)

-----------------------------------------------------------------------------
(* UartDecoder::observe(level); Decodes(level) is the moment it returns a  *)
(* value.                                                                  *)

Decodes(level) == phase = "Stop" /\ countdown = 1

SeesStart(level) ==
  /\ phase = "Idle"
  /\ IF previous = 1 /\ level = 0
       THEN phase' = "Start" /\ countdown' = UartDivisor \div 2
       ELSE UNCHANGED <<phase, countdown>>
  /\ UNCHANGED <<bit, value, error>>

Waits == /\ phase # "Idle" /\ countdown # 1
         /\ countdown' = countdown - 1
         /\ UNCHANGED <<phase, bit, value, error>>

Samples(level) ==
  /\ phase # "Idle" /\ countdown = 1
  /\ \/ /\ phase = "Start"
        /\ error' = (error \/ level = 1)
        /\ phase' = "Data" /\ countdown' = UartDivisor
        /\ UNCHANGED <<bit, value>>
     \/ /\ phase = "Data"
        /\ value' = value + level * Place[bit + 1]
        /\ bit' = bit + 1
        /\ phase' = IF bit = 7 THEN "Stop" ELSE "Data"
        /\ countdown' = UartDivisor
        /\ UNCHANGED error
     \/ /\ phase = "Stop"
        /\ error' = (error \/ level = 0)
        /\ phase' = "Idle" /\ countdown' = 0 /\ bit' = 0 /\ value' = 0

observe(level) ==
  /\ previous' = level
  /\ SeesStart(level) \/ Waits \/ Samples(level)

-----------------------------------------------------------------------------

Init ==
  /\ frame = [i \in 0..9 |-> 0] /\ bit_index = 0 /\ divider_count = 0 /\ busy = FALSE
  /\ phase = "Idle" /\ previous = 1 /\ countdown = 0 /\ bit = 0 /\ value = 0
  /\ error = FALSE
  /\ inFlight = <<>>

Undelivered(queue) == IF Decodes(tx') /\ queue # <<>> THEN Tail(queue) ELSE queue

Tick ==
  \/ \E b \in Byte : Accept(b) /\ observe(tx') /\ inFlight' = Append(Undelivered(inFlight), b)
  \/ (Rest \/ Shift) /\ observe(tx') /\ inFlight' = Undelivered(inFlight)

\* The simulator constructs its decoder when it releases reset.
Reset ==
  /\ frame' = [i \in 0..9 |-> 0] /\ bit_index' = 0 /\ divider_count' = 0 /\ busy' = FALSE
  /\ phase' = "Idle" /\ previous' = 1 /\ countdown' = 0 /\ bit' = 0 /\ value' = 0
  /\ error' = FALSE
  /\ inFlight' = <<>>

Next == Tick \/ Reset
Spec == Init /\ [][Next]_vars

-----------------------------------------------------------------------------
(* Properties.                                                             *)

\* What the decoder returns is the oldest accepted byte not yet returned:
\* nothing is lost, invented, repeated or reordered; and no framing error is
\* ever seen, however closely bytes follow each other: the mid-bit samples
\* never drift out of their bits, though the two divisors may differ.
DecodesWhatWasSent ==
  /\ ~error
  /\ phase = "Stop" /\ countdown = 1 => inFlight # <<>> /\ value = Head(inFlight)

\* The transmitter is busy for exactly ten bit times per byte: it implements
\* the countdown that SocBus uses for it.
Remaining == IF busy THEN DIVISOR * (10 - bit_index) - divider_count ELSE 0
LastByte == frame[1] + 2 * frame[2] + 4 * frame[3] + 8 * frame[4]
            + 16 * frame[5] + 32 * frame[6] + 64 * frame[7] + 128 * frame[8]
Line == INSTANCE UartLine
  WITH tx_left <- Remaining, frame <- LastByte, FrameCycles <- 10 * DIVISOR
ImplementsUartLine == Line!Spec
=============================================================================
