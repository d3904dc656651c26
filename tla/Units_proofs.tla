---------------------------- MODULE Units_proofs ----------------------------
(***************************************************************************)
(* What Units promises, for every value of its constants.                  *)
(*                                                                         *)
(* The serial link: sample n of the decoder (0 for the start bit, 9 for    *)
(* the stop bit) falls Offset(n) cycles into bit n: half a bit, less one   *)
(* cycle for every bit when the divisors differ.  The invariant ties the   *)
(* decoder's countdown to the transmitter's position through that offset.  *)
(*                                                                         *)
(* The board's inputs: the histories of the properties (edges, samples)    *)
(* are related to the registers.  A synchroniser stage is still set as     *)
(* long as too few edges have passed; the counter counts exactly the       *)
(* latest samples that differ from the accepted level.                     *)
(*                                                                         *)
(* The timer: a pending bit that can still be taken is not older than the  *)
(* last write of mtimecmp that an interrupt handler made.                  *)
(*                                                                         *)
(* The firmware: where main stands, in or under the handler, says how much *)
(* of the banner is out; where the handler stands says how its message     *)
(* ends, and which of the presses it has not counted yet.                  *)
(***************************************************************************)
EXTENDS Units, Sequences, TLAPS

\* A step of the units is a step of each unit or leaves it alone.
LEMMA UnitSteps ==
  ASSUME [UnitsNext]_unitsVars
  PROVE  /\ [Uart!Next]_uartVars /\ [Inputs!Next]_inputVars
         /\ [Timer!Next]_timerVars /\ [Demo!Next]_demoVars
BY DEF UnitsNext, unitsVars, ICacheRuns, UartRuns, InputsRun, TimerRuns, FirmwareRuns

-----------------------------------------------------------------------------
(* The serial link.                                                        *)

\* How many cycles into bit n its sample falls.
Offset(n) == (UartDivisor \div 2) - (IF UartDivisor = DIVISOR THEN 0 ELSE n)

TransmitterInv ==
  /\ frame \in [0..9 -> {0, 1}] /\ busy \in BOOLEAN
  /\ bit_index \in 0..9 /\ divider_count \in 0..(DIVISOR - 1)

\* The decoder waits for its sample n.
Await(n) ==
  /\ countdown \in Nat /\ countdown >= 1
  /\ \/ bit_index = n /\ countdown = Offset(n) - divider_count
     \/ bit_index + 1 = n /\ countdown = Offset(n) + DIVISOR - divider_count

Quiet == phase = "Idle" /\ bit = 0 /\ value = 0 /\ previous = 1 /\ inFlight = <<>>

\* The first k bits of b.
Prefix(b, k) == IF k = 8 THEN b ELSE b % Uart!Place[k + 1]

Silent == ~busy /\ Quiet
Ending == busy /\ Quiet /\ bit_index = 9 /\ frame[9] = 1
Carrying(b) ==
  /\ busy /\ inFlight = <<b>> /\ frame = Uart!FrameOf(b)
  /\ \/ phase = "Start" /\ Await(0) /\ bit = 0 /\ value = 0
     \/ phase = "Data" /\ bit \in 0..7 /\ Await(bit + 1) /\ value = Prefix(b, bit)
     \/ phase = "Stop" /\ bit = 8 /\ Await(9) /\ value = b

LinkInv ==
  /\ TransmitterInv /\ error = FALSE
  /\ Silent \/ Ending \/ \E b \in Byte : Carrying(b)

-----------------------------------------------------------------------------
(* Arithmetic.                                                             *)

\* Every sample falls inside its bit.
LEMMA OffsetInBit ==
  ASSUME Divisors, NEW n \in 0..9
  PROVE  Offset(n) \in Nat /\ Offset(n) < DIVISOR
BY DEF Divisors, Offset

\* Only the last sample may fall on the first cycle of its bit, and each falls
\* as much earlier in its bit as the divisors differ.
LEMMA OffsetSteps ==
  ASSUME Divisors, NEW n \in 0..8
  PROVE  Offset(n) >= 1 /\ Offset(n + 1) = Offset(n) + UartDivisor - DIVISOR
BY DEF Divisors, Offset

\* The cycles left of a frame, counted in whole bits.
LEMMA BitsLeft ==
  ASSUME DIVISOR \in Nat, NEW i \in 0..9
  PROVE  /\ DIVISOR * (10 - i) >= DIVISOR
         /\ DIVISOR * (10 - i) = DIVISOR * (9 - i) + DIVISOR
         /\ DIVISOR * (9 - i) \in Nat /\ DIVISOR * (10 - (i + 1)) = DIVISOR * (9 - i)
<1>1. i = 0 \/ i = 1 \/ i = 2 \/ i = 3 \/ i = 4 \/ i = 5 \/ i = 6 \/ i = 7 \/ i = 8 \/ i = 9
  OBVIOUS
<1>2. QED BY <1>1

\* A frame holds bits.
LEMMA FrameBits ==
  ASSUME NEW b \in 0..255
  PROVE  /\ Uart!FrameOf(b) \in [0..9 -> {0, 1}]
         /\ Uart!FrameOf(b)[0] = 0 /\ Uart!FrameOf(b)[9] = 1
         /\ \A k \in 0..7 : Uart!FrameOf(b)[k + 1] = Uart!BitOf(b, k)
<1>1. \A k \in 0..7 : Uart!BitOf(b, k) \in {0, 1}
  BY DEF Uart!BitOf, Uart!Place
<1>2. \A i \in 1..8 : i - 1 \in 0..7
  OBVIOUS
<1>3. QED BY <1>1, <1>2 DEF Uart!FrameOf

\* Adding bit k to the k bits below it gives the k + 1 lowest bits.
LEMMA OneMoreBit ==
  ASSUME NEW b \in 0..255, NEW k \in 0..7
  PROVE  Prefix(b, k) + Uart!BitOf(b, k) * Uart!Place[k + 1] = Prefix(b, k + 1)
<1> DEFINE P(i) == Prefix(b, i) + Uart!BitOf(b, i) * Uart!Place[i + 1] = Prefix(b, i + 1)
<1>0. P(0)  BY DEF Prefix, Uart!BitOf, Uart!Place
<1>1. P(1)  BY DEF Prefix, Uart!BitOf, Uart!Place
<1>2. P(2)  BY DEF Prefix, Uart!BitOf, Uart!Place
<1>3. P(3)  BY DEF Prefix, Uart!BitOf, Uart!Place
<1>4. P(4)  BY DEF Prefix, Uart!BitOf, Uart!Place
<1>5. P(5)  BY DEF Prefix, Uart!BitOf, Uart!Place
<1>6. P(6)  BY DEF Prefix, Uart!BitOf, Uart!Place
<1>7. P(7)  BY DEF Prefix, Uart!BitOf, Uart!Place
<1>8. \A i \in 0..7 : i = 0 \/ i = 1 \/ i = 2 \/ i = 3 \/ i = 4 \/ i = 5 \/ i = 6 \/ i = 7
  OBVIOUS
<1> HIDE DEF P
<1>9. P(k)
  BY <1>0, <1>1, <1>2, <1>3, <1>4, <1>5, <1>6, <1>7, <1>8
<1>10. QED BY <1>9 DEF P

\* No bits are none.
LEMMA NoBits == ASSUME NEW b \in 0..255 PROVE Prefix(b, 0) = 0
BY DEF Prefix, Uart!Place

\* The byte of a frame is the byte it was made of.
LEMMA ByteOfFrame ==
  ASSUME NEW b \in 0..255, NEW f, f = Uart!FrameOf(b)
  PROVE  f[1] + 2 * f[2] + 4 * f[3] + 8 * f[4] + 16 * f[5] + 32 * f[6]
         + 64 * f[7] + 128 * f[8] = b
<1>1. /\ f[1] = (b % 2) /\ f[2] = (b \div 2) % 2 /\ f[3] = (b \div 4) % 2
      /\ f[4] = (b \div 8) % 2 /\ f[5] = (b \div 16) % 2 /\ f[6] = (b \div 32) % 2
      /\ f[7] = (b \div 64) % 2 /\ f[8] = (b \div 128) % 2
  BY DEF Uart!FrameOf, Uart!BitOf, Uart!Place
<1>2. (b % 2) + 2 * ((b \div 2) % 2) = b % 4
  OBVIOUS
<1>3. (b % 4) + 4 * ((b \div 4) % 2) = b % 8
  OBVIOUS
<1>4. (b % 8) + 8 * ((b \div 8) % 2) = b % 16
  OBVIOUS
<1>5. (b % 16) + 16 * ((b \div 16) % 2) = b % 32
  OBVIOUS
<1>6. (b % 32) + 32 * ((b \div 32) % 2) = b % 64
  OBVIOUS
<1>7. (b % 64) + 64 * ((b \div 64) % 2) = b % 128
  OBVIOUS
<1>8. (b % 128) + 128 * ((b \div 128) % 2) = b
  OBVIOUS
<1>9. QED BY <1>1, <1>2, <1>3, <1>4, <1>5, <1>6, <1>7, <1>8

-----------------------------------------------------------------------------
(* One step.                                                               *)

\* The transmitter's registers stay in range.
LEMMA TransmitterStep ==
  ASSUME Divisors, TransmitterInv,
         Uart!Rest \/ Uart!Shift \/ (\E b \in Byte : Uart!Accept(b))
  PROVE  TransmitterInv'
<1>1. CASE Uart!Rest
  BY <1>1 DEF TransmitterInv, Uart!Rest, Uart!txVars
<1>2. CASE Uart!Shift
  <2>1. /\ bit_index \in 0..9 /\ divider_count \in 0..(DIVISOR - 1) /\ DIVISOR \in Nat
        /\ DIVISOR >= 1 /\ frame' = frame /\ busy
    BY <1>2 DEF TransmitterInv, Uart!Shift, Divisors
  <2>2. CASE divider_count # DIVISOR - 1
    <3>1. divider_count' = divider_count + 1 /\ bit_index' = bit_index /\ busy' = busy
      BY <1>2, <2>2 DEF Uart!Shift
    <3>2. QED BY <2>1, <2>2, <3>1 DEF TransmitterInv
  <2>3. CASE divider_count = DIVISOR - 1
    <3>1. /\ divider_count' = 0 /\ busy' \in BOOLEAN
          /\ bit_index' = IF bit_index = 9 THEN 0 ELSE bit_index + 1
      BY <1>2, <2>3 DEF Uart!Shift
    <3>2. bit_index' \in 0..9 /\ divider_count' \in 0..(DIVISOR - 1)
      BY <2>1, <3>1
    <3>3. QED BY <2>1, <3>1, <3>2 DEF TransmitterInv
  <2>4. QED BY <2>2, <2>3
<1>3. ASSUME NEW b \in Byte, Uart!Accept(b) PROVE TransmitterInv'
  <2>1. b \in 0..255
    BY DEF Divisors
  <2>2. /\ frame' = Uart!FrameOf(b) /\ bit_index' = 0 /\ divider_count' = 0 /\ busy' = TRUE
    BY <1>3 DEF Uart!Accept
  <2>3. frame' \in [0..9 -> {0, 1}]
    BY <2>1, <2>2, FrameBits
  <2>4. bit_index' \in 0..9 /\ divider_count' \in 0..(DIVISOR - 1)
    BY <2>2 DEF Divisors
  <2>5. QED BY <2>2, <2>3, <2>4 DEF TransmitterInv
<1>4. QED BY <1>1, <1>2, <1>3

\* Before its sample the decoder and the transmitter move together.
LEMMA Approach ==
  ASSUME Divisors, TransmitterInv, Uart!Shift, NEW n \in 0..9, Await(n), countdown # 1,
         countdown' = countdown - 1
  PROVE  busy' = TRUE /\ Await(n)'
<1>1. Offset(n) \in Nat /\ Offset(n) < DIVISOR /\ DIVISOR \in Nat
  BY OffsetInBit DEF Divisors
<1>2. countdown \in Nat /\ countdown' \in Nat /\ countdown' >= 1
  BY DEF Await
<1>3. bit_index \in 0..9 /\ divider_count \in 0..(DIVISOR - 1)
  BY DEF TransmitterInv
<1>4. CASE divider_count # DIVISOR - 1
  <2>1. divider_count' = divider_count + 1 /\ bit_index' = bit_index /\ busy' = busy
    BY <1>4 DEF Uart!Shift
  <2>2. busy' = TRUE
    BY <2>1 DEF Uart!Shift, TransmitterInv
  <2>3. \/ bit_index' = n /\ countdown' = Offset(n) - divider_count'
        \/ bit_index' + 1 = n /\ countdown' = Offset(n) + DIVISOR - divider_count'
    BY <1>1, <1>2, <1>3, <2>1 DEF Await
  <2>4. QED BY <1>2, <2>2, <2>3 DEF Await
<1>5. CASE divider_count = DIVISOR - 1
  <2>1. bit_index + 1 = n /\ countdown = Offset(n) + DIVISOR - divider_count
    BY <1>1, <1>2, <1>3, <1>5 DEF Await
  <2>2. bit_index # 9
    BY <1>3, <2>1
  <2>3. divider_count' = 0 /\ bit_index' = bit_index + 1 /\ busy' = TRUE
    BY <1>5, <2>2 DEF Uart!Shift
  <2>4. bit_index' = n /\ countdown' = Offset(n) - divider_count'
    BY <1>1, <1>2, <1>3, <1>5, <2>1, <2>3
  <2>5. QED BY <1>2, <2>3, <2>4 DEF Await
<1>6. QED BY <1>4, <1>5

\* The sample is of the bit it is meant for, and the next one is awaited a bit
\* later.
LEMMA Arrive ==
  ASSUME Divisors, TransmitterInv, Uart!Shift, NEW n \in 0..9, Await(n), countdown = 1
  PROVE  /\ busy' = TRUE /\ bit_index' = n /\ Uart!tx' = frame[n]
         /\ n # 9 /\ countdown' = UartDivisor => Await(n + 1)'
<1>1. Offset(n) \in Nat /\ Offset(n) < DIVISOR /\ DIVISOR \in Nat
  BY OffsetInBit DEF Divisors
<1>2. bit_index \in 0..9 /\ divider_count \in 0..(DIVISOR - 1) /\ frame' = frame
  BY DEF TransmitterInv, Uart!Shift
<1>3. /\ busy' = TRUE /\ bit_index' = n /\ divider_count' = Offset(n)
  <2>1. CASE bit_index = n /\ 1 = Offset(n) - divider_count
    <3>1. divider_count # DIVISOR - 1
      BY <1>1, <1>2, <2>1
    <3>2. divider_count' = divider_count + 1 /\ bit_index' = bit_index /\ busy' = busy
      BY <3>1 DEF Uart!Shift
    <3>3. busy' = TRUE
      BY <3>2 DEF Uart!Shift, TransmitterInv
    <3>4. QED BY <1>1, <1>2, <2>1, <3>2, <3>3
  <2>2. CASE bit_index + 1 = n /\ 1 = Offset(n) + DIVISOR - divider_count
    <3>1. divider_count = DIVISOR - 1 /\ Offset(n) = 0 /\ bit_index # 9
      BY <1>1, <1>2, <2>2
    <3>2. divider_count' = 0 /\ bit_index' = bit_index + 1 /\ busy' = TRUE
      BY <3>1 DEF Uart!Shift
    <3>3. QED BY <2>2, <3>1, <3>2
  <2>3. QED BY <2>1, <2>2 DEF Await
<1>4. Uart!tx' = frame[n]
  BY <1>2, <1>3 DEF Uart!tx
<1>5. ASSUME n # 9, countdown' = UartDivisor PROVE Await(n + 1)'
  <2>1. Offset(n + 1) = Offset(n) + UartDivisor - DIVISOR
    <3>1. n \in 0..8
      BY <1>5
    <3>2. QED BY <3>1, OffsetSteps
  <2>2. UartDivisor \in Nat /\ UartDivisor >= 1
    BY DEF Divisors
  <2>3. countdown' = Offset(n + 1) + DIVISOR - divider_count' /\ bit_index' + 1 = n + 1
    BY <1>1, <1>3, <1>5, <2>1, <2>2
  <2>4. QED BY <1>5, <2>2, <2>3 DEF Await
<1>6. QED BY <1>3, <1>4, <1>5

\* The level of the line in the next state, for a line that is not busy then.
LEMMA RestingLevel == ASSUME busy' = FALSE PROVE Uart!tx' = 1
BY DEF Uart!tx

\* A silent link rests or starts a frame, whose falling edge the decoder sees.
LEMMA FromSilent ==
  ASSUME Divisors, LinkInv, Silent, Uart!Tick
  PROVE  LinkInv'
<1>1. ~Uart!Shift /\ ~Uart!Decodes(Uart!tx') /\ inFlight = <<>> /\ error = FALSE
  BY DEF Silent, Quiet, Uart!Shift, Uart!Decodes, LinkInv
<1>2. Uart!Undelivered(inFlight) = <<>>
  BY <1>1 DEF Uart!Undelivered
<1>3. TransmitterInv'
  BY TransmitterStep DEF Uart!Tick, LinkInv
<1>4. ASSUME NEW b \in Byte, Uart!Accept(b), Uart!observe(Uart!tx'),
             inFlight' = Append(Uart!Undelivered(inFlight), b)
      PROVE  LinkInv'
  <2>1. /\ b \in 0..255 /\ Offset(0) \in Nat /\ Offset(0) >= 1 /\ Offset(0) = UartDivisor \div 2
    BY OffsetInBit, OffsetSteps DEF Divisors, Offset
  <2>2. /\ frame' = Uart!FrameOf(b) /\ bit_index' = 0 /\ divider_count' = 0 /\ busy' = TRUE
    BY <1>4 DEF Uart!Accept
  <2>3. Uart!tx' = 0
    BY <2>1, <2>2, FrameBits DEF Uart!tx
  <2>4. /\ phase' = "Start" /\ countdown' = Offset(0) /\ bit' = 0 /\ value' = 0 /\ error' = FALSE
    <3>1. Uart!SeesStart(Uart!tx')
      BY <1>4 DEF Uart!observe, Uart!Waits, Uart!Samples, Silent, Quiet
    <3>2. QED BY <1>1, <2>1, <2>3, <3>1 DEF Uart!SeesStart, Silent, Quiet
  <2>5. inFlight' = <<b>>
    BY <1>2, <1>4
  <2>6. Await(0)'
    BY <2>1, <2>2, <2>4 DEF Await
  <2>7. Carrying(b)'
    BY <2>2, <2>4, <2>5, <2>6 DEF Carrying
  <2>8. QED BY <1>3, <2>4, <2>7 DEF LinkInv
<1>5. ASSUME Uart!Rest, Uart!observe(Uart!tx'), inFlight' = Uart!Undelivered(inFlight)
      PROVE  LinkInv'
  <2>1. busy' = FALSE /\ Uart!tx' = 1
    BY <1>5, RestingLevel DEF Uart!Rest, Uart!txVars, Silent, LinkInv, TransmitterInv
  <2>2. phase' = "Idle" /\ bit' = 0 /\ value' = 0 /\ error' = FALSE /\ previous' = 1
    BY <1>1, <1>5, <2>1 DEF Uart!observe, Uart!SeesStart, Uart!Waits, Uart!Samples, Silent, Quiet
  <2>3. Silent'
    BY <1>2, <1>5, <2>1, <2>2 DEF Silent, Quiet
  <2>4. QED BY <1>3, <2>2, <2>3 DEF LinkInv
<1>6. QED BY <1>1, <1>4, <1>5 DEF Uart!Tick

\* After the last sample the stop bit runs out.
LEMMA FromEnding ==
  ASSUME Divisors, LinkInv, Ending, Uart!Tick
  PROVE  LinkInv'
<1>1. /\ Uart!Shift /\ Uart!observe(Uart!tx') /\ inFlight' = Uart!Undelivered(inFlight)
  BY DEF Ending, Uart!Tick, Uart!Accept, Uart!Rest
<1>2. ~Uart!Decodes(Uart!tx') /\ inFlight' = <<>> /\ error = FALSE /\ TransmitterInv'
  BY <1>1, TransmitterStep DEF Ending, Quiet, Uart!Decodes, LinkInv, Uart!Undelivered
<1>3. /\ frame' = frame
      /\ busy' = FALSE \/ (busy' = TRUE /\ bit_index' = 9)
  BY <1>1 DEF Uart!Shift, Ending, LinkInv, TransmitterInv
<1>4. Uart!tx' = 1
  BY <1>3 DEF Uart!tx, Ending
<1>5. phase' = "Idle" /\ bit' = 0 /\ value' = 0 /\ error' = FALSE /\ previous' = 1
  BY <1>1, <1>2, <1>4 DEF Uart!observe, Uart!SeesStart, Uart!Waits, Uart!Samples, Ending, Quiet
<1>6. Silent' \/ Ending'
  BY <1>2, <1>3, <1>5 DEF Silent, Ending, Quiet
<1>7. QED BY <1>2, <1>5, <1>6 DEF LinkInv

\* While a byte is carried the samples are taken one by one; the last returns
\* the byte.
LEMMA FromCarrying ==
  ASSUME Divisors, LinkInv, NEW b \in Byte, Carrying(b), Uart!Tick
  PROVE  LinkInv'
<1>1. Uart!Shift /\ Uart!observe(Uart!tx') /\ inFlight' = Uart!Undelivered(inFlight)
  BY DEF Carrying, Uart!Tick, Uart!Accept, Uart!Rest
<1>2. /\ TransmitterInv' /\ frame' = Uart!FrameOf(b) /\ error = FALSE /\ b \in 0..255
      /\ inFlight = <<b>> /\ frame = Uart!FrameOf(b) /\ phase # "Idle" /\ TransmitterInv
  BY <1>1, TransmitterStep DEF Carrying, LinkInv, Uart!Shift, Divisors
<1>3. CASE countdown # 1
  <2>1. /\ countdown' = countdown - 1 /\ phase' = phase /\ bit' = bit /\ value' = value
        /\ error' = FALSE
    BY <1>1, <1>2, <1>3 DEF Uart!observe, Uart!SeesStart, Uart!Waits, Uart!Samples
  <2>2. inFlight' = <<b>>
    BY <1>1, <1>2, <1>3 DEF Uart!Undelivered, Uart!Decodes
  <2>3. CASE phase = "Start"
    <3>1. busy' = TRUE /\ Await(0)'
      BY <1>1, <1>2, <1>3, <2>1, <2>3, Approach DEF Carrying
    <3>2. Carrying(b)'
      BY <1>2, <2>1, <2>2, <2>3, <3>1 DEF Carrying
    <3>3. QED BY <1>2, <2>1, <3>2 DEF LinkInv
  <2>4. CASE phase = "Data"
    <3>1. bit \in 0..7 /\ bit + 1 \in 0..9 /\ Await(bit + 1)
      BY <2>4 DEF Carrying
    <3> DEFINE n == bit + 1
    <3>2. n \in 0..9 /\ Await(n) /\ n' = n
      BY <3>1, <2>1
    <3> HIDE DEF n
    <3>3. busy' = TRUE /\ Await(n)'
      BY <1>1, <1>2, <1>3, <2>1, <3>2, Approach
    <3>4. Carrying(b)'
      BY <1>2, <2>1, <2>2, <2>4, <3>1, <3>2, <3>3 DEF Carrying, n
    <3>5. QED BY <1>2, <2>1, <3>4 DEF LinkInv
  <2>5. CASE phase = "Stop"
    <3>1. busy' = TRUE /\ Await(9)'
      BY <1>1, <1>2, <1>3, <2>1, <2>5, Approach DEF Carrying
    <3>2. Carrying(b)'
      BY <1>2, <2>1, <2>2, <2>5, <3>1 DEF Carrying
    <3>3. QED BY <1>2, <2>1, <3>2 DEF LinkInv
  <2>6. QED BY <2>3, <2>4, <2>5 DEF Carrying
<1>4. CASE countdown = 1
  <2>1. CASE phase = "Start"
    <3>1. busy' = TRUE /\ Uart!tx' = 0 /\ (countdown' = UartDivisor => Await(1)')
      <4>1. Await(0) /\ 0 \in 0..9 /\ 0 + 1 = 1
        BY <2>1 DEF Carrying
      <4>2. busy' = TRUE /\ Uart!tx' = frame[0] /\ (countdown' = UartDivisor => Await(0 + 1)')
        BY <1>1, <1>2, <1>4, <4>1, Arrive
      <4>3. QED BY <1>2, <4>1, <4>2, FrameBits
    <3>2. /\ phase' = "Data" /\ countdown' = UartDivisor /\ bit' = 0 /\ value' = 0
          /\ error' = FALSE
      <4>1. bit = 0 /\ value = 0
        BY <2>1 DEF Carrying
      <4>2. Uart!Samples(Uart!tx')
        BY <1>1, <1>4, <2>1 DEF Uart!observe, Uart!SeesStart, Uart!Waits
      <4>3. error' = (error \/ Uart!tx' = 1)
        BY <2>1, <4>2 DEF Uart!Samples
      <4>4. /\ phase' = "Data" /\ countdown' = UartDivisor /\ bit' = bit /\ value' = value
        BY <2>1, <4>2 DEF Uart!Samples
      <4>5. error' = FALSE
        <5>1. error = FALSE /\ ~(Uart!tx' = 1)
          BY <1>2, <3>1
        <5>2. QED BY <5>1, <4>3, Zenon
      <4>6. QED BY <4>1, <4>4, <4>5
    <3>3. inFlight' = <<b>>
      BY <1>1, <1>2, <2>1 DEF Uart!Undelivered, Uart!Decodes
    <3>4. Carrying(b)'
      BY <1>2, <3>1, <3>2, <3>3, NoBits DEF Carrying
    <3>5. QED BY <1>2, <3>2, <3>4 DEF LinkInv
  <2>2. CASE phase = "Data"
    <3>1. PICK k \in 0..7 : bit = k /\ Await(k + 1) /\ value = Prefix(b, k)
      BY <2>2 DEF Carrying
    <3>2. PICK n \in 1..8 : n = k + 1
      BY <3>1
    <3>3. busy' = TRUE /\ Uart!tx' = frame[n] /\ (countdown' = UartDivisor => Await(n + 1)')
      <4>1. n \in 0..9 /\ n # 9 /\ Await(n)
        BY <3>1, <3>2
      <4>2. QED BY <1>1, <1>2, <1>4, <4>1, Arrive
    <3>4. Uart!tx' = Uart!BitOf(b, k)
      BY <1>2, <3>1, <3>2, <3>3, FrameBits
    <3>5. /\ value' = value + Uart!tx' * Uart!Place[bit + 1] /\ bit' = bit + 1 /\ error' = FALSE
          /\ phase' = (IF bit = 7 THEN "Stop" ELSE "Data") /\ countdown' = UartDivisor
      BY <1>1, <1>2, <1>4, <2>2 DEF Uart!observe, Uart!SeesStart, Uart!Waits, Uart!Samples
    <3>6. value' = Prefix(b, n) /\ bit' = n /\ Await(n + 1)'
      BY <1>2, <3>1, <3>2, <3>3, <3>4, <3>5, OneMoreBit
    <3>7. inFlight' = <<b>>
      BY <1>1, <1>2, <2>2 DEF Uart!Undelivered, Uart!Decodes
    <3>8. Carrying(b)'
      <4>1. CASE k = 7
        <5>1. phase' = "Stop" /\ bit' = 8 /\ value' = b /\ n + 1 = 9
          BY <3>1, <3>2, <3>5, <3>6, <4>1 DEF Prefix
        <5>2. QED BY <1>2, <3>3, <3>6, <3>7, <5>1 DEF Carrying
      <4>2. CASE k # 7
        <5>1. phase' = "Data" /\ bit' \in 0..7 /\ bit' + 1 = n + 1 /\ value' = Prefix(b, bit')
          BY <3>1, <3>2, <3>5, <3>6, <4>2
        <5>2. QED BY <1>2, <3>3, <3>6, <3>7, <5>1 DEF Carrying
      <4>3. QED BY <4>1, <4>2
    <3>9. QED BY <1>2, <3>5, <3>8 DEF LinkInv
  <2>3. CASE phase = "Stop"
    <3>1. busy' = TRUE /\ bit_index' = 9 /\ Uart!tx' = 1
      <4>1. Await(9) /\ 9 \in 0..9
        BY <2>3 DEF Carrying
      <4>2. busy' = TRUE /\ bit_index' = 9 /\ Uart!tx' = frame[9]
        BY <1>1, <1>2, <1>4, <4>1, Arrive
      <4>3. QED BY <1>2, <4>2, FrameBits
    <3>2. phase' = "Idle" /\ bit' = 0 /\ value' = 0 /\ error' = FALSE /\ previous' = 1
      <4>1. Uart!Samples(Uart!tx') /\ previous' = Uart!tx'
        BY <1>1, <1>4, <2>3 DEF Uart!observe, Uart!SeesStart, Uart!Waits
      <4>2. error' = (error \/ Uart!tx' = 0)
        BY <2>3, <4>1 DEF Uart!Samples
      <4>3. phase' = "Idle" /\ bit' = 0 /\ value' = 0
        BY <2>3, <4>1 DEF Uart!Samples
      <4>4. error' = FALSE
        <5>1. error = FALSE /\ ~(Uart!tx' = 0)
          BY <1>2, <3>1
        <5>2. QED BY <5>1, <4>2, Zenon
      <4>5. QED BY <3>1, <4>1, <4>3, <4>4
    <3>3. inFlight' = <<>>
      BY <1>1, <1>2, <1>4, <2>3 DEF Uart!Undelivered, Uart!Decodes
    <3>4. Ending'
      BY <1>2, <3>1, <3>2, <3>3, FrameBits DEF Ending, Quiet
    <3>5. QED BY <1>2, <3>2, <3>4 DEF LinkInv
  <2>4. QED BY <2>1, <2>2, <2>3 DEF Carrying
<1>5. QED BY <1>3, <1>4

\* The invariant holds at power-on, and a reset restores it.
LEMMA LinkStart == Divisors /\ Uart!Init => LinkInv
<1> SUFFICES ASSUME Divisors, Uart!Init PROVE LinkInv
  OBVIOUS
<1>1. /\ 0 \in 0..9 /\ 0 \in 0..(DIVISOR - 1)
  BY DEF Divisors
<1>2. TransmitterInv
  BY <1>1 DEF Uart!Init, TransmitterInv
<1>3. Silent /\ error = FALSE
  BY DEF Uart!Init, Silent, Quiet
<1>4. QED BY <1>2, <1>3 DEF LinkInv

(* A reset leaves transmitter and decoder idle on a quiet line. *)
LEMMA LinkRestart == Divisors /\ Uart!Reset => LinkInv'
<1> SUFFICES ASSUME Divisors, Uart!Reset PROVE LinkInv'
  OBVIOUS
<1>1. /\ 0 \in 0..9 /\ 0 \in 0..(DIVISOR - 1)
  BY DEF Divisors
<1>2. TransmitterInv'
  BY <1>1 DEF Uart!Reset, TransmitterInv
<1>3. Silent' /\ error' = FALSE
  BY DEF Uart!Reset, Silent, Quiet
<1>4. QED BY <1>2, <1>3 DEF LinkInv

\* Every step keeps the invariant.
LEMMA LinkStep == Divisors /\ LinkInv /\ [Uart!Next]_uartVars => LinkInv'
<1> SUFFICES ASSUME Divisors, LinkInv, [Uart!Next]_uartVars PROVE LinkInv'
  OBVIOUS
<1>1. CASE Uart!Tick
  BY <1>1, FromSilent, FromEnding, FromCarrying DEF LinkInv
<1>2. CASE Uart!Reset
  BY <1>2, LinkRestart
<1>3. CASE UNCHANGED uartVars
  BY <1>3 DEF uartVars, LinkInv, TransmitterInv, Silent, Ending, Quiet,
              Carrying, Await
<1>4. QED BY <1>1, <1>2, <1>3 DEF Uart!Next

-----------------------------------------------------------------------------
(* The board's inputs.                                                     *)

\* The registers of the reset controller and the edges counted since the last
\* assertion: a stage is still set as long as too few edges have passed.
ControllerInv ==
  /\ power_count \in Nat /\ edges \in Nat /\ async_reset \in BOOLEAN
  /\ reset_sync \in [{0, 1} -> BOOLEAN]
  /\ reset_sync[0] <=> edges < 1
  /\ reset_sync[1] <=> edges < 2
  /\ async_reset => edges = 0

\* How many samples of the button the debouncer's registers stand for.
Window == STABLE_CYCLES + 2

\* The counter counts the latest samples that differ from the accepted level,
\* and the sample before those equals it.
ButtonInv ==
  /\ samples \in [1..Window -> BOOLEAN] /\ state \in BOOLEAN /\ rise \in BOOLEAN
  /\ stable_count \in 0..(STABLE_CYCLES - 1)
  /\ sync_meta = samples[1] /\ sync_value = samples[2]
  /\ \A i \in 3..(stable_count + 2) : samples[i] # state
  /\ samples[stable_count + 3] = state
  /\ rise => \A i \in 3..Window : samples[i]

\* The inductive invariant of the board's inputs.
InputsInv == ControllerInv /\ ButtonInv

-----------------------------------------------------------------------------
(* The reset controller.                                                   *)

\* Neither a clock edge nor a change of the reset inputs disturbs the reset
\* controller's invariant.
LEMMA ControllerStep ==
  ASSUME POWER_ON_CYCLES \in Nat, ControllerInv,
         Inputs!Controller!ClockEdge \/ Inputs!Controller!InputChanges
  PROVE  ControllerInv'
<1>1. CASE Inputs!Controller!ClockEdge
  <2>1. power_count' \in Nat /\ async_reset' = async_reset
    BY <1>1 DEF ControllerInv, Inputs!Controller!ClockEdge
  <2>2. CASE async_reset
    BY <1>1, <2>1, <2>2 DEF ControllerInv, Inputs!Controller!ClockEdge
  <2>3. CASE ~async_reset
    <3>1. /\ reset_sync' \in [{0, 1} -> BOOLEAN]
          /\ ~reset_sync'[0] /\ (reset_sync'[1] <=> reset_sync[0])
      BY <1>1, <2>3 DEF ControllerInv, Inputs!Controller!ClockEdge
    <3>2. edges' \in Nat /\ edges' >= 1 /\ (edges' < 2 <=> edges < 1)
      BY <1>1, <2>3
      DEF ControllerInv, Inputs!Controller!ClockEdge, Inputs!Controller!Count,
          Inputs!Controller!Limit
    <3>3. QED BY <2>1, <2>3, <3>1, <3>2 DEF ControllerInv
  <2>4. QED BY <2>2, <2>3
<1>2. CASE Inputs!Controller!InputChanges
  <2>1. power_count' = power_count /\ async_reset' = ~async_reset
    BY <1>2 DEF Inputs!Controller!InputChanges
  <2>2. CASE async_reset
    BY <1>2, <2>1, <2>2 DEF ControllerInv, Inputs!Controller!InputChanges
  <2>3. CASE ~async_reset
    BY <1>2, <2>1, <2>3 DEF ControllerInv, Inputs!Controller!InputChanges
  <2>4. QED BY <2>2, <2>3
<1>3. QED BY <1>1, <1>2

\* The controller's invariant says that reset is released on time.
LEMMA ControllerInTime == ControllerInv => Inputs!ReleasedInTime
BY DEF ControllerInv, Inputs!ReleasedInTime, Inputs!Controller!ReleasedInTime, Inputs!Controller!rst

-----------------------------------------------------------------------------
(* The debouncer.                                                          *)

\* A new sample shifts the remembered ones by one place.
LEMMA Shifted ==
  ASSUME STABLE_CYCLES \in Nat \ {0}, samples \in [1..Window -> BOOLEAN],
         NEW level \in BOOLEAN, Inputs!Button!Remember(level)
  PROVE  /\ samples' \in [1..Window -> BOOLEAN]
         /\ samples'[1] = level
         /\ \A i \in 1..(Window - 1) : samples'[i + 1] = samples[i]
<1>1. Window \in Nat /\ Window >= 2 /\ Inputs!Button!Window = Window
  BY DEF Window, Inputs!Button!Window
<1>2. samples \in Seq(BOOLEAN) /\ Len(samples) = Window
  BY <1>1
<1> DEFINE longer == <<level>> \o samples
<1>3. /\ longer \in Seq(BOOLEAN) /\ Len(longer) = Window + 1 /\ longer[1] = level
      /\ \A i \in 1..Window : longer[i + 1] = samples[i]
  BY <1>1, <1>2
<1>4. samples' = SubSeq(longer, 1, Window)
  BY <1>1 DEF Inputs!Button!Remember
<1> HIDE DEF longer
<1>5. /\ samples' \in Seq(BOOLEAN) /\ Len(samples') = Window
      /\ \A i \in 1..Window : samples'[i] = longer[i]
  BY <1>1, <1>3, <1>4
<1>6. samples' \in [1..Window -> BOOLEAN]
  BY <1>1, <1>5
<1>7. QED BY <1>1, <1>3, <1>5, <1>6

\* An edge outside reset keeps the debouncer's invariant, and makes an event
\* exactly when the accepted level rises.
LEMMA ButtonTick ==
  ASSUME STABLE_CYCLES \in Nat \ {0}, ButtonInv, Inputs!Button!Tick
  PROVE  ButtonInv' /\ rise' = (state' /\ ~state)
<1>1. PICK level \in BOOLEAN :
        Inputs!Button!Synchronise(level) /\ Inputs!Button!Debounce /\ Inputs!Button!Remember(level)
  BY DEF Inputs!Button!Tick
<1>2. /\ samples' \in [1..Window -> BOOLEAN] /\ samples'[1] = level
      /\ \A i \in 1..(Window - 1) : samples'[i + 1] = samples[i]
  BY <1>1, Shifted DEF ButtonInv
<1>3. /\ sync_meta' = level /\ sync_value' = samples[1] /\ sync_value = samples[2]
      /\ samples[2] \in BOOLEAN /\ state \in BOOLEAN /\ Window = STABLE_CYCLES + 2
      /\ stable_count \in 0..(STABLE_CYCLES - 1)
  BY <1>1 DEF ButtonInv, Inputs!Button!Synchronise, Window
<1>4. samples'[2] = samples[1] /\ samples'[3] = samples[2]
  <2>1. 1 \in 1..(Window - 1) /\ 2 \in 1..(Window - 1)
    BY <1>3
  <2>2. QED BY <1>2, <2>1
<1>5. CASE sync_value = state
  <2>1. stable_count' = 0 /\ rise' = FALSE /\ state' = state
    BY <1>1, <1>5 DEF Inputs!Button!Debounce
  <2>2. state' \in BOOLEAN /\ rise' \in BOOLEAN /\ stable_count' \in 0..(STABLE_CYCLES - 1)
    <3>1. stable_count' \in 0..(STABLE_CYCLES - 1)
      BY <2>1
    <3>2. state' \in BOOLEAN
      BY <1>3, <2>1
    <3>3. rise' \in BOOLEAN
      BY <2>1
    <3>4. QED BY <3>1, <3>2, <3>3
  <2>3. sync_meta' = samples'[1] /\ sync_value' = samples'[2]
    BY <1>2, <1>3, <1>4
  <2>4. samples'[stable_count' + 3] = state' /\ 3..(stable_count' + 2) = {}
    BY <1>3, <1>4, <1>5, <2>1
  <2>5. rise' = (state' /\ ~state)
    BY <1>3, <2>1
  <2>6. QED BY <1>2, <2>1, <2>2, <2>3, <2>4, <2>5 DEF ButtonInv
<1>6. CASE sync_value # state /\ stable_count # STABLE_CYCLES - 1
  <2>1. stable_count' = stable_count + 1 /\ rise' = FALSE /\ state' = state
    BY <1>1, <1>6 DEF Inputs!Button!Debounce
  <2>2. stable_count' \in 0..(STABLE_CYCLES - 1)
    BY <1>3, <1>6, <2>1
  <2>3. ASSUME NEW i \in 3..(stable_count' + 2)
        PROVE  samples'[i] # state
    <3>1. i - 1 \in 1..(Window - 1) /\ samples'[(i - 1) + 1] = samples[i - 1]
      BY <1>2, <1>3, <2>1, <2>2
    <3>2. i - 1 = 2 \/ i - 1 \in 3..(stable_count + 2)
      BY <1>3, <2>1
    <3>3. QED BY <1>3, <1>6, <3>1, <3>2 DEF ButtonInv
  <2>4. samples'[stable_count' + 3] = state
    <3>1. stable_count + 3 \in 1..(Window - 1)
      BY <1>3, <2>1, <2>2
    <3>2. samples'[(stable_count + 3) + 1] = samples[stable_count + 3]
      BY <1>2, <3>1
    <3>3. QED BY <1>3, <2>1, <3>2 DEF ButtonInv
  <2>5. QED BY <1>2, <1>3, <1>4, <2>1, <2>2, <2>3, <2>4 DEF ButtonInv
<1>7. CASE sync_value # state /\ stable_count = STABLE_CYCLES - 1
  <2>1. stable_count' = 0 /\ rise' = sync_value /\ state' = sync_value
    BY <1>1, <1>7 DEF Inputs!Button!Debounce
  <2>2. ASSUME NEW i \in 3..Window
        PROVE  samples'[i] = sync_value
    <3>1. i - 1 \in 1..(Window - 1) /\ samples'[(i - 1) + 1] = samples[i - 1]
      BY <1>2, <1>3
    <3>2. i - 1 = 2 \/ i - 1 \in 3..(stable_count + 2)
      BY <1>3, <1>7
    <3>3. samples[i - 1] \in BOOLEAN /\ samples[i - 1] # state
      BY <1>3, <1>7, <3>1, <3>2 DEF ButtonInv
    <3>4. QED BY <1>3, <1>7, <3>1, <3>3
  <2>3. QED BY <1>2, <1>3, <1>4, <1>7, <2>1, <2>2 DEF ButtonInv
<1>8. QED BY <1>5, <1>6, <1>7

\* An edge in reset restores the debouncer's invariant and makes no event.
LEMMA ButtonReset ==
  ASSUME STABLE_CYCLES \in Nat \ {0}, Inputs!Button!Reset
  PROVE  ButtonInv' /\ rise' = (state' /\ ~state)
<1>1. /\ sync_meta' = FALSE /\ sync_value' = FALSE /\ stable_count' = 0
      /\ state' = FALSE /\ rise' = FALSE
      /\ samples' = [i \in 1..Window |-> FALSE]
  BY DEF Inputs!Button!Reset, Inputs!Button!Window, Window
<1>2. 1 \in 1..Window /\ 2 \in 1..Window /\ 3 \in 1..Window /\ 0 \in 0..(STABLE_CYCLES - 1)
  BY DEF Window
<1>3. samples' \in [1..Window -> BOOLEAN] /\ state' \in BOOLEAN /\ rise' \in BOOLEAN
  BY <1>1
<1>4. /\ samples'[1] = FALSE /\ samples'[2] = FALSE /\ samples'[stable_count' + 3] = FALSE
      /\ 3..(stable_count' + 2) = {}
  BY <1>1, <1>2
<1>5. ButtonInv'
  BY <1>1, <1>2, <1>3, <1>4 DEF ButtonInv
<1>6. QED BY <1>1, <1>5

\* The debouncer's invariant says that bounces make no event and that a held
\* level is accepted.
LEMMA ButtonDebounced == STABLE_CYCLES \in Nat \ {0} /\ ButtonInv => Inputs!DebouncedExactly
<1> SUFFICES ASSUME STABLE_CYCLES \in Nat \ {0}, ButtonInv PROVE Inputs!DebouncedExactly
  OBVIOUS
<1>1. stable_count + 3 \in 1..Window /\ Inputs!Button!Window = Window
  BY DEF ButtonInv, Window, Inputs!Button!Window
<1>2. QED
  BY <1>1
  DEF ButtonInv, Inputs!DebouncedExactly, Inputs!Button!RiseIsStable, Inputs!Button!StableIsSeen

-----------------------------------------------------------------------------
(* Together.                                                               *)

\* The invariant holds at power-on.
LEMMA InputsStart ==
  ASSUME POWER_ON_CYCLES \in Nat, STABLE_CYCLES \in Nat \ {0}, Inputs!Init
  PROVE  InputsInv
<1>1. ControllerInv
  BY DEF Inputs!Init, Inputs!Controller!Init, ControllerInv
<1>2. /\ sync_meta = FALSE /\ sync_value = FALSE /\ stable_count = 0
      /\ state = FALSE /\ rise = FALSE /\ samples = [i \in 1..Window |-> FALSE]
  BY DEF Inputs!Init, Inputs!Button!Init, Inputs!Button!Window, Window
<1>3. 1 \in 1..Window /\ 2 \in 1..Window /\ 3 \in 1..Window /\ 0 \in 0..(STABLE_CYCLES - 1)
  BY DEF Window
<1>4. samples \in [1..Window -> BOOLEAN] /\ state \in BOOLEAN /\ rise \in BOOLEAN
  BY <1>2
<1>5. /\ samples[1] = FALSE /\ samples[2] = FALSE /\ samples[stable_count + 3] = FALSE
      /\ 3..(stable_count + 2) = {}
  BY <1>2, <1>3
<1>6. ButtonInv
  BY <1>2, <1>3, <1>4, <1>5 DEF ButtonInv
<1>7. QED BY <1>1, <1>6 DEF InputsInv

\* Every step keeps the invariant, and an event is a rise of the accepted level.
LEMMA InputsStep ==
  ASSUME POWER_ON_CYCLES \in Nat, STABLE_CYCLES \in Nat \ {0}, InputsInv, [Inputs!Next]_inputVars
  PROVE  InputsInv' /\ (UNCHANGED Inputs!buttonVars \/ rise' = (state' /\ ~state))
<1>1. CASE Inputs!ClockEdge
  BY <1>1, ControllerStep, ButtonTick, ButtonReset DEF Inputs!ClockEdge, InputsInv
<1>2. CASE Inputs!InputChanges
  <2>1. ButtonInv'
    BY <1>2 DEF Inputs!InputChanges, InputsInv, ButtonInv, Inputs!buttonVars
  <2>2. QED BY <1>2, <2>1, ControllerStep DEF Inputs!InputChanges, InputsInv
<1>3. CASE UNCHANGED inputVars
  BY <1>3 DEF inputVars, Inputs!buttonVars, InputsInv, ControllerInv, ButtonInv
<1>4. QED BY <1>1, <1>2, <1>3 DEF Inputs!Next

-----------------------------------------------------------------------------
(* The timer.                                                              *)

\* The pending bit is recomputed in every cycle, so it is stale for one cycle
\* after a write of mtimecmp; a handler runs that cycle with interrupts off.
TimerInv ==
  /\ mtime \in 0..(Top + 1) /\ mtimecmp \in 0..Top \cup {Timer!Never}
  /\ mstatus_mie \in BOOLEAN /\ mstatus_mpie \in BOOLEAN /\ mip_mtip \in BOOLEAN
  /\ acknowledged \in BOOLEAN
  /\ mip_mtip /\ mstatus_mie /\ acknowledged => mtime > mtimecmp
  /\ taken = "timer" /\ acknowledged => mtime > mtimecmp

\* Nothing is pending at reset.
LEMMA TimerStart == Timer!Init => TimerInv
<1> SUFFICES ASSUME Timer!Init PROVE TimerInv
  OBVIOUS
<1>1. mtime \in 0..(Top + 1) /\ mtimecmp \in 0..Top \cup {Timer!Never}
  BY TimerAssumption DEF Timer!Init
<1>2. QED BY <1>1, Zenon DEF Timer!Init, TimerInv

\* The clock moves mtime on, and the bit it registers was due.
LEMMA ClockStep ==
  ASSUME TimerInv, Timer!Timer
  PROVE  /\ mtime' \in 0..(Top + 1) /\ mtime' >= mtime /\ mip_mtip' \in BOOLEAN
         /\ mip_mtip' => mtime' > mtimecmp
<1>1. /\ mtime \in 0..(Top + 1) /\ mtimecmp \in 0..Top \cup {Top + 2} /\ Top \in Nat
  BY TimerAssumption DEF TimerInv, Timer!Never
<1>2. mtime' = IF mtime > Top THEN mtime ELSE mtime + 1
  BY DEF Timer!Timer
<1>3. mip_mtip' = (mtime >= mtimecmp)
  BY DEF Timer!Timer
<1>4. mtime' \in 0..(Top + 1) /\ mtime' >= mtime
  BY <1>1, <1>2
<1>5. mtime >= mtimecmp => mtime' > mtimecmp
  BY <1>1, <1>2
<1>6. mip_mtip' \in BOOLEAN /\ (mip_mtip' => mtime >= mtimecmp)
  <2>1. CASE mtime >= mtimecmp
    <3>1. mip_mtip' = TRUE
      BY <1>3, <2>1
    <3>2. QED BY <2>1, <3>1
  <2>2. CASE ~(mtime >= mtimecmp)
    <3>1. (mtime >= mtimecmp) = FALSE
      BY <1>1, <2>2
    <3>2. mip_mtip' = FALSE
      BY <1>3, <3>1, Zenon
    <3>3. QED BY <3>2
  <2>3. QED BY <2>1, <2>2
<1>7. QED BY <1>4, <1>5, <1>6

\* A step that leaves mtimecmp alone keeps what was due due.
LEMMA StillDue ==
  ASSUME TimerInv, Timer!Timer, mtimecmp' = mtimecmp, mtime > mtimecmp
  PROVE  mtime' > mtimecmp'
<1>1. mtime \in Int /\ mtimecmp \in Int /\ mtime' \in Int /\ mtime' >= mtime
  BY ClockStep, TimerAssumption DEF TimerInv, Timer!Never
<1>2. QED BY <1>1

\* Every step keeps the timer's invariant.
LEMMA TimerStep == TimerInv /\ [Timer!Next]_timerVars => TimerInv'
<1> SUFFICES ASSUME TimerInv, [Timer!Next]_timerVars PROVE TimerInv'
  OBVIOUS
<1>1. CASE Timer!Timer /\ Timer!CsrWrite
  <2>1. /\ mtime' \in 0..(Top + 1) /\ mip_mtip' \in BOOLEAN
        /\ taken' # "timer"
    BY <1>1, ClockStep DEF Timer!CsrWrite
  <2>2. CASE mtimecmp' = mtimecmp /\ acknowledged' = acknowledged
    <3>1. mip_mtip' => mtime' > mtimecmp'
      BY <1>1, <2>2, ClockStep
    <3>2. mstatus_mie' \in BOOLEAN /\ mstatus_mpie' \in BOOLEAN
      BY <1>1, Zenon DEF Timer!CsrWrite, Timer!statusVars, TimerInv
    <3>3. QED BY <2>1, <2>2, <3>1, <3>2, Zenon DEF TimerInv
  <2>3. CASE mtimecmp' \in 0..Top /\ acknowledged' = ~mstatus_mie /\ UNCHANGED Timer!statusVars
    BY <2>1, <2>3, Zenon DEF Timer!statusVars, TimerInv
  <2>4. QED BY <1>1, <2>2, <2>3, Zenon DEF Timer!CsrWrite, Timer!statusVars
<1>2. ASSUME Timer!Timer, UNCHANGED <<mtimecmp, acknowledged>>,
             mstatus_mie' \in BOOLEAN, mstatus_mpie' \in BOOLEAN,
             taken' # "timer" \/ (mip_mtip /\ mstatus_mie)
      PROVE  TimerInv'
  <2>1. /\ mtime' \in 0..(Top + 1) /\ mip_mtip' \in BOOLEAN
        /\ mip_mtip' => mtime' > mtimecmp'
    BY <1>2, ClockStep
  <2>2. mip_mtip /\ mstatus_mie /\ acknowledged => mtime' > mtimecmp'
    BY <1>2, StillDue DEF TimerInv
  <2>3. QED BY <1>2, <2>1, <2>2, Zenon DEF TimerInv
<1>3. CASE Timer!Timer /\ Timer!Hold
  BY <1>2, <1>3, Zenon DEF Timer!Hold, Timer!statusVars, TimerInv
<1>4. CASE Timer!Timer /\ Timer!Trap
  BY <1>2, <1>4, Zenon DEF Timer!Trap, Timer!EnterTrap, TimerInv
<1>5. CASE Timer!Timer /\ Timer!Mret
  <2>1. mstatus_mie' \in BOOLEAN /\ mstatus_mpie' \in BOOLEAN
    BY <1>5, Zenon DEF Timer!Mret, TimerInv
  <2>2. QED BY <1>2, <1>5, <2>1, Zenon DEF Timer!Mret
<1>6. ASSUME NEW irq \in BOOLEAN, Timer!Timer, Timer!Plain(irq) PROVE TimerInv'
  <2>1. CASE Timer!irq_pending(irq)
    <3>1. /\ mstatus_mie /\ taken' = Timer!irq_cause(irq) /\ mstatus_mie' = FALSE
          /\ mstatus_mpie' = mstatus_mie /\ UNCHANGED <<mtimecmp, acknowledged>>
      BY <1>6, <2>1 DEF Timer!Plain, Timer!EnterTrap, Timer!irq_pending
    <3>2. taken' = "timer" => "timer" \in Timer!pending(irq)
      BY <2>1, <3>1 DEF Timer!irq_cause, Timer!irq_pending, Timer!pending
    <3>3. taken' = "timer" => mip_mtip
      BY <3>2 DEF Timer!pending
    <3>4. QED BY <1>2, <1>6, <3>1, <3>3, Zenon DEF TimerInv
  <2>2. CASE ~Timer!irq_pending(irq)
    <3>1. Timer!Hold
      BY <1>6, <2>2 DEF Timer!Plain
    <3>2. QED BY <1>3, <1>6, <3>1
  <2>3. QED BY <2>1, <2>2
<1>7. CASE Timer!Reset
  <2>1. mtime' \in 0..(Top + 1) /\ mtimecmp' \in 0..Top \cup {Timer!Never}
    BY <1>7, TimerAssumption DEF Timer!Reset
  <2>2. QED BY <1>7, <2>1, Zenon DEF Timer!Reset, TimerInv
<1>8. CASE UNCHANGED timerVars
  BY <1>8 DEF timerVars, TimerInv
<1>9. QED BY <1>1, <1>3, <1>4, <1>5, <1>6, <1>7, <1>8 DEF Timer!Next, Timer!Tick

-----------------------------------------------------------------------------
(* The firmware.                                                           *)

Sending == {"poll", "store", "wait"}
Configuring == {"start", "clear", "led", "enable", "meie", "mie"}

\* Where the processor stands: main is interrupted only where it has enabled
\* interrupts and never in a waiting store, and the handler runs with them off.
ControlInv ==
  /\ irq_count \in Nat /\ presses \in Nat /\ pending \in BOOLEAN /\ fwMie \in BOOLEAN
  /\ fwPc \notin Sending => fwAt = 1
  /\ Demo!Handling =>
       /\ fwPc \in Sending \cup {"acknowledge", "read", "show", "count", "mret"}
       /\ ~fwMie /\ fwAt \in 1..MessageLength
       /\ fwFrame[1] \in {"poll", "store", "loop"} /\ fwFrame[2] \in 1..BannerLength
       /\ fwFrame[1] = "loop" => fwFrame[2] = 1
  /\ ~Demo!Handling =>
       /\ fwPc \in Sending \cup Configuring \cup {"loop"}
       /\ fwAt \in 1..BannerLength /\ (fwMie => fwPc \notin Configuring)

\* Presses that are waiting to be taken, and that the handler has yet to count.
Waiting == IF pending THEN 1 ELSE 0
Uncounted == IF fwPc \in {"read", "show", "count"} THEN 1 ELSE 0
Shown == irq_count + (IF fwPc = "count" THEN 1 ELSE 0)

\* Each press is in at most one of three places, and the LEDs show those that
\* the handler has passed on.
CountInv ==
  /\ pending => presses >= 1
  /\ fwPc # "start" => irq_count + Waiting + Uncounted <= presses
  /\ fwPc \in {"clear", "led"} => irq_count = 0
  /\ fwPc = "acknowledge" => pending
  /\ fwPc \notin {"start", "clear", "led"} => led = Demo!LedAfter(Shown)
  /\ fwPc = "show" => fwValue = led

\* How much of the banner is out, and how the line ends.
MainPc == IF Demo!Handling THEN fwFrame[1] ELSE fwPc
MainAt == IF Demo!Handling THEN fwFrame[2] ELSE fwAt
Sent == IF MainPc = "loop" THEN BannerLength ELSE MainAt - 1
Character == [by : {"main", "irq"}, at : Nat \ {0}]
Ordered(text) ==
  \A i \in 1..Len(text) : text[i].by = "main" => Demo!FollowsOn(text, i, text[i].at - 1)
Uncut(text) ==
  \A i \in 1..Len(text) : text[i].by = "irq" =>
    /\ text[i].at > 1 => i > 1 /\ text[i - 1] = [by |-> "irq", at |-> text[i].at - 1]
    /\ text[i].at < MessageLength /\ i < Len(text) =>
         text[i + 1] = [by |-> "irq", at |-> text[i].at + 1]
Unfinished(text) ==
  text # << >> /\ text[Len(text)].by = "irq" /\ text[Len(text)].at < MessageLength

TextInv ==
  /\ line \in Seq(Character)
  /\ Ordered(line) /\ Uncut(line)
  /\ Demo!FollowsOn(line, Len(line) + 1, Sent)
  /\ Demo!Handling /\ fwAt > 1 =>
       line # << >> /\ line[Len(line)] = [by |-> "irq", at |-> fwAt - 1]
  /\ Unfinished(line) => Demo!Handling /\ fwAt = line[Len(line)].at + 1

DemoInv == ControlInv /\ CountInv /\ TextInv

\* Four rotations of one lit LED.
LEMMA LedRotates ==
  ASSUME NEW n \in Nat
  PROVE  /\ Demo!LedAfter(n) % 16 = Demo!LedAfter(n)
         /\ Demo!rotate(Demo!LedAfter(n)) = Demo!LedAfter(n + 1)
<1>1. \/ n % 4 = 0 /\ (n + 1) % 4 = 1
      \/ n % 4 = 1 /\ (n + 1) % 4 = 2
      \/ n % 4 = 2 /\ (n + 1) % 4 = 3
      \/ n % 4 = 3 /\ (n + 1) % 4 = 0
  OBVIOUS
<1>2. QED BY <1>1 DEF Demo!LedAfter, Demo!rotate

\* An appended character does not change what precedes the ones before it.
LEMMA FollowsOnKept ==
  ASSUME NEW text \in Seq(Character), NEW c \in Character,
         NEW i \in 1 .. Len(text) + 1, NEW n
  PROVE  Demo!FollowsOn(Append(text, c), i, n) <=> Demo!FollowsOn(text, i, n)
<1>1. \A k \in 1 .. i - 1 : Append(text, c)[k] = text[k]
  OBVIOUS
<1>2. \A j \in 1 .. i - 1 : \A k \in j + 1 .. i - 1 : k \in 1 .. i - 1
  OBVIOUS
<1>3. QED BY <1>1, <1>2 DEF Demo!FollowsOn

\* After main's character number n it is the last one, and stays it behind a
\* character of the handler.
LEMMA FollowsOnAppended ==
  ASSUME NEW text \in Seq(Character), NEW c \in Character
  PROVE  /\ c.by = "main" => Demo!FollowsOn(Append(text, c), Len(text) + 2, c.at)
         /\ \A n : c.by = "irq" /\ Demo!FollowsOn(text, Len(text) + 1, n) =>
                     Demo!FollowsOn(Append(text, c), Len(text) + 2, n)
<1> DEFINE longer == Append(text, c)
<1>1. /\ longer[Len(text) + 1] = c /\ Len(text) \in Nat
      /\ \A k \in 1..Len(text) : longer[k] = text[k]
  OBVIOUS
<1>2. c = [by |-> c.by, at |-> c.at]
  BY DEF Character
<1> HIDE DEF longer
<1>3. ASSUME c.by = "main"
      PROVE  Demo!FollowsOn(longer, Len(text) + 2, c.at)
  <2>1. Len(text) + 1 \in 1 .. Len(text) + 2 - 1
    BY <1>1
  <2>2. longer[Len(text) + 1] = [by |-> "main", at |-> c.at]
    BY <1>1, <1>2, <1>3
  <2>3. \A k \in Len(text) + 1 + 1 .. Len(text) + 2 - 1 : longer[k].by # "main"
    BY <1>1
  <2>4. QED BY <2>1, <2>2, <2>3 DEF Demo!FollowsOn
<1>4. ASSUME NEW n, c.by = "irq", Demo!FollowsOn(text, Len(text) + 1, n)
      PROVE  Demo!FollowsOn(longer, Len(text) + 2, n)
  <2>1. CASE n = 0 /\ \A k \in 1 .. Len(text) + 1 - 1 : text[k].by # "main"
    <3>1. \A k \in 1 .. Len(text) + 2 - 1 : longer[k].by # "main"
      BY <1>1, <1>4, <2>1
    <3>2. QED BY <2>1, <3>1 DEF Demo!FollowsOn
  <2>2. ASSUME NEW j \in 1 .. Len(text) + 1 - 1, text[j] = [by |-> "main", at |-> n],
               \A k \in j + 1 .. Len(text) + 1 - 1 : text[k].by # "main"
        PROVE  Demo!FollowsOn(longer, Len(text) + 2, n)
    <3>1. j \in 1 .. Len(text) + 2 - 1 /\ longer[j] = [by |-> "main", at |-> n]
      BY <1>1, <2>2
    <3>2. \A k \in j + 1 .. Len(text) + 2 - 1 : longer[k].by # "main"
      BY <1>1, <1>4, <2>2
    <3>3. QED BY <3>1, <3>2 DEF Demo!FollowsOn
  <2>3. QED BY <1>4, <2>1, <2>2 DEF Demo!FollowsOn
<1>5. QED BY <1>3, <1>4 DEF longer

\* The invariant holds at power-on and in reset, whatever data memory holds.
LEMMA DemoStart == Demo!Init => DemoInv
<1> SUFFICES ASSUME Demo!Init PROVE DemoInv
  OBVIOUS
<1> USE DEF Demo!Init, Demo!Handling, Demo!None
<1>1. ControlInv
  <2>1. 1 \in 1..BannerLength /\ 0 \in Nat
    BY TextAssumption
  <2>2. QED BY <2>1, Zenon DEF ControlInv, Sending, Configuring
<1>2. CountInv
  BY DEF CountInv, Waiting, Uncounted
<1>3. TextInv
  BY DEF TextInv, Ordered, Uncut, Unfinished, Sent, MainPc, MainAt, Demo!FollowsOn
<1>4. QED BY <1>1, <1>2, <1>3 DEF DemoInv

(* A reset starts the firmware over, with no text begun. *)
LEMMA DemoRestart == ControlInv /\ Demo!Reset => DemoInv'
<1> SUFFICES ASSUME ControlInv, Demo!Reset PROVE DemoInv'
  OBVIOUS
<1> USE DEF Demo!Reset, Demo!Handling, Demo!None
<1>1. ControlInv'
  <2>1. 1 \in 1..BannerLength /\ 0 \in Nat
    BY TextAssumption
  <2>2. QED BY <2>1, Zenon DEF ControlInv, Sending, Configuring
<1>2. CountInv'
  BY DEF CountInv, Waiting, Uncounted
<1>3. TextInv'
  BY DEF TextInv, Ordered, Uncut, Unfinished, Sent, MainPc, MainAt, Demo!FollowsOn
<1>4. QED BY <1>1, <1>2, <1>3 DEF DemoInv

\* The control state stays consistent.
LEMMA ControlStep ==
  ASSUME ControlInv, Demo!Running
  PROVE  ControlInv'
<1> USE TextAssumption
    DEF ControlInv, Sending, Configuring, Demo!Handling, Demo!None, Demo!deviceVars,
        Demo!historyVars, Demo!cpuVars
<1>1. CASE Demo!start
  BY <1>1 DEF Demo!start
<1>2. CASE Demo!configure
  <2>1. /\ fwPc' \in {"led", "enable", "meie", "mie", "poll"} /\ fwFrame' = fwFrame /\ fwAt' = fwAt
        /\ irq_count' = irq_count /\ presses' = presses /\ pending' \in BOOLEAN
        /\ ~Demo!Handling
    BY <1>2 DEF Demo!configure
  <2>2. fwMie' \in BOOLEAN /\ (fwMie' => fwPc' \notin Configuring)
    <3>1. fwMie = FALSE
      BY <1>2 DEF Demo!configure
    <3>2. fwMie' = fwMie \/ (fwMie' = TRUE /\ fwPc' = "poll")
      BY <1>2, Zenon DEF Demo!configure
    <3>3. QED BY <3>1, <3>2
  <2>3. fwAt \in 1..BannerLength /\ (fwPc' \notin Sending => fwAt = 1)
    BY <1>2, <2>1 DEF Demo!configure
  <2>4. QED BY <2>1, <2>2, <2>3
<1>3. CASE Demo!main_loop
  BY <1>3 DEF Demo!main_loop, Demo!vars
<1>4. CASE Demo!poll
  BY <1>4 DEF Demo!poll
<1>5. CASE Demo!transmit
  BY <1>5 DEF Demo!transmit, Demo!Advance, Demo!TextLength
<1>6. CASE Demo!trap_handler_c
  <2>1. /\ Demo!Handling /\ fwPc' \in {"read", "show", "count", "poll"} /\ fwFrame' = fwFrame
        /\ fwAt' = fwAt /\ fwMie' = fwMie /\ presses' = presses /\ fwAt = 1
    BY <1>6 DEF Demo!trap_handler_c
  <2>2. irq_count' \in Nat
    BY <1>6 DEF Demo!trap_handler_c
  <2>3. pending' = FALSE \/ pending' = pending
    BY <1>6 DEF Demo!trap_handler_c
  <2>4. QED BY <2>1, <2>2, <2>3
<1>7. CASE Demo!mret
  BY <1>7 DEF Demo!mret
<1>8. CASE Demo!trap_entry
  <2>1. /\ fwFrame' = <<fwPc, fwAt, fwValue>> /\ fwPc' = "acknowledge" /\ fwAt' = 1
        /\ fwMie' = FALSE /\ UNCHANGED <<irq_count, presses, pending>>
        /\ ~Demo!Handling /\ fwMie /\ fwPc # "wait"
    BY <1>8 DEF Demo!trap_entry, Demo!irq_pending
  <2>2. fwPc \in {"poll", "store", "loop"} /\ fwAt \in 1..BannerLength
    BY <2>1
  <2>3. Demo!Handling' /\ fwFrame'[1] = fwPc /\ fwFrame'[2] = fwAt
    BY <2>1
  <2>4. fwPc = "loop" => fwAt = 1
    BY <2>1
  <2>5. 1 \in 1..MessageLength
    OBVIOUS
  <2>6. QED BY <2>1, <2>2, <2>3, <2>4, <2>5
<1>9. CASE Demo!FrameEnds
  BY <1>9 DEF Demo!FrameEnds
<1>10. CASE Demo!Press
  BY <1>10 DEF Demo!Press
<1>11. QED
  BY <1>1, <1>2, <1>3, <1>4, <1>5, <1>6, <1>7, <1>8, <1>9, <1>10 DEF Demo!Running, Demo!Cpu

\* The presses stay accounted for.
LEMMA CountStep ==
  ASSUME ControlInv, CountInv, Demo!Running
  PROVE  CountInv'
<1> USE DEF ControlInv, CountInv, Waiting, Uncounted, Sending, Configuring, Demo!Handling,
        Demo!None, Demo!deviceVars, Demo!historyVars, Demo!cpuVars
<1>0. irq_count \in Nat /\ presses \in Nat
  OBVIOUS
<1>1. CASE Demo!start
  BY <1>1 DEF Demo!start
<1>2. CASE Demo!configure
  <2>1. Demo!LedAfter(0) = 1
    BY DEF Demo!LedAfter
  <2>2. QED BY <1>2, <2>1 DEF Demo!configure, Shown
<1>3. CASE Demo!main_loop
  BY <1>3 DEF Demo!main_loop, Demo!vars, Shown
<1>4. CASE Demo!poll
  BY <1>4 DEF Demo!poll, Shown
<1>5. CASE Demo!transmit
  BY <1>5 DEF Demo!transmit, Demo!Advance, Shown
<1>6. CASE Demo!trap_handler_c
  <2>1. CASE fwPc = "acknowledge"
    BY <1>6, <2>1 DEF Demo!trap_handler_c, Shown
  <2>2. CASE fwPc = "read"
    <3>1. led % 16 = led
      BY <2>2, <1>0, LedRotates DEF Shown
    <3>2. QED BY <1>6, <2>2, <3>1 DEF Demo!trap_handler_c, Shown
  <2>3. CASE fwPc = "show"
    <3>1. Demo!rotate(fwValue) = Demo!LedAfter(irq_count + 1)
      BY <2>3, <1>0, LedRotates DEF Shown
    <3>2. QED BY <1>6, <2>3, <3>1 DEF Demo!trap_handler_c, Shown
  <2>4. CASE fwPc = "count"
    BY <1>6, <2>4 DEF Demo!trap_handler_c, Shown
  <2>5. QED BY <1>6, <2>1, <2>2, <2>3, <2>4 DEF Demo!trap_handler_c
<1>7. CASE Demo!mret
  BY <1>7 DEF Demo!mret, Shown
<1>8. CASE Demo!trap_entry
  BY <1>8 DEF Demo!trap_entry, Demo!irq_pending, Shown
<1>9. CASE Demo!FrameEnds
  BY <1>9 DEF Demo!FrameEnds, Shown
<1>10. CASE Demo!Press
  BY <1>10 DEF Demo!Press, Shown
<1>11. QED
  BY <1>1, <1>2, <1>3, <1>4, <1>5, <1>6, <1>7, <1>8, <1>9, <1>10 DEF Demo!Running, Demo!Cpu

\* A character that goes where its sender says leaves the line in order.
LEMMA TextAppended ==
  ASSUME NEW text \in Seq(Character), NEW c \in Character, Ordered(text), Uncut(text),
         c.by = "main" => Demo!FollowsOn(text, Len(text) + 1, c.at - 1),
         c.by = "irq" /\ c.at > 1 =>
           text # << >> /\ text[Len(text)] = [by |-> "irq", at |-> c.at - 1],
         Unfinished(text) => c = [by |-> "irq", at |-> text[Len(text)].at + 1]
  PROVE  Ordered(Append(text, c)) /\ Uncut(Append(text, c))
<1> DEFINE longer == Append(text, c)  last == Len(text) + 1
<1>1. /\ Len(text) \in Nat /\ Len(longer) = last /\ last = Len(text) + 1 /\ longer[last] = c
      /\ longer \in Seq(Character)
      /\ \A i \in 1..Len(text) : longer[i] = text[i] /\ text[i] \in Character
      /\ \A i \in 1..last : i = last \/ i \in 1..Len(text)
  OBVIOUS
<1>2. Ordered(longer)
  <2> SUFFICES ASSUME NEW i \in 1..Len(longer), longer[i].by = "main"
               PROVE  Demo!FollowsOn(longer, i, longer[i].at - 1)
    BY DEF Ordered
  <2>1. i \in 1 .. Len(text) + 1 /\ last \in 1 .. Len(text) + 1
    BY <1>1
  <2>2. CASE i = last
    <3>1. Demo!FollowsOn(text, last, c.at - 1)
      BY <1>1, <2>2
    <3>2. QED BY <1>1, <2>1, <2>2, <3>1, FollowsOnKept
  <2>3. CASE i # last
    <3>1. i \in 1..Len(text) /\ longer[i] = text[i]
      BY <1>1, <2>1, <2>3
    <3>2. Demo!FollowsOn(text, i, text[i].at - 1)
      BY <3>1 DEF Ordered
    <3>3. QED BY <2>1, <3>1, <3>2, FollowsOnKept
  <2>4. QED BY <2>2, <2>3
<1> HIDE DEF longer, last
<1>3. Uncut(longer)
  <2> SUFFICES ASSUME NEW i \in 1..Len(longer), longer[i].by = "irq"
               PROVE  /\ longer[i].at > 1 =>
                           i > 1 /\ longer[i - 1] = [by |-> "irq", at |-> longer[i].at - 1]
                      /\ longer[i].at < MessageLength /\ i < Len(longer) =>
                           longer[i + 1] = [by |-> "irq", at |-> longer[i].at + 1]
    BY DEF Uncut
  <2>1. CASE i = last
    <3>1. c.by = "irq" /\ longer[i] = c /\ ~(i < Len(longer))
      BY <1>1, <2>1
    <3>2. ASSUME c.at > 1
          PROVE  i > 1 /\ longer[i - 1] = [by |-> "irq", at |-> c.at - 1]
      <4>1. Len(text) \in 1..Len(text) /\ text[Len(text)] = [by |-> "irq", at |-> c.at - 1]
        BY <1>1, <3>1, <3>2
      <4>2. i - 1 = Len(text)
        BY <1>1, <2>1
      <4>3. QED BY <1>1, <4>1, <4>2
    <3>3. QED BY <3>1, <3>2
  <2>2. CASE i # last
    <3>1. i \in 1..Len(text) /\ longer[i] = text[i] /\ text[i] \in Character
      BY <1>1, <2>2
    <3>2. ASSUME text[i].at > 1
          PROVE  i > 1 /\ longer[i - 1] = [by |-> "irq", at |-> text[i].at - 1]
      <4>1. i > 1 /\ text[i - 1] = [by |-> "irq", at |-> text[i].at - 1]
        BY <3>1, <3>2 DEF Uncut
      <4>2. i - 1 \in 1..Len(text)
        BY <3>1, <4>1
      <4>3. QED BY <1>1, <4>1, <4>2
    <3>3. ASSUME text[i].at < MessageLength
          PROVE  longer[i + 1] = [by |-> "irq", at |-> text[i].at + 1]
      <4>1. CASE i = Len(text)
        BY <1>1, <3>1, <3>3, <4>1 DEF Unfinished
      <4>2. CASE i # Len(text)
        <5>1. i < Len(text) /\ i + 1 \in 1..Len(text)
          BY <1>1, <3>1, <4>2
        <5>2. text[i + 1] = [by |-> "irq", at |-> text[i].at + 1]
          BY <3>1, <3>3, <5>1 DEF Uncut
        <5>3. QED BY <1>1, <5>1, <5>2
      <4>3. QED BY <4>1, <4>2
    <3>4. QED BY <3>1, <3>2, <3>3
  <2>3. QED BY <2>1, <2>2
<1>4. QED BY <1>2, <1>3 DEF longer

\* A step that sends nothing keeps the text, unless it ends a message or begins
\* one inside another.
LEMMA TextUntouched ==
  ASSUME TextInv, line' = line, Sent' = Sent,
         Demo!Handling' /\ fwAt' > 1 => Demo!Handling /\ fwAt' = fwAt,
         Demo!Handling /\ fwAt > 1 => Demo!Handling' /\ fwAt' = fwAt,
         Demo!Handling => fwAt \in 1..MessageLength
  PROVE  TextInv'
<1>1. Unfinished(line) => Demo!Handling /\ fwAt > 1
  <2>1. Unfinished(line) => line[Len(line)] \in Character
    BY DEF TextInv, Unfinished
  <2>2. QED BY <2>1, TextAssumption DEF TextInv, Character
<1>2. /\ line' \in Seq(Character) /\ Ordered(line') /\ Uncut(line')
      /\ Demo!FollowsOn(line', Len(line') + 1, Sent')
  BY DEF TextInv
<1>3. Demo!Handling' /\ fwAt' > 1 =>
        line' # << >> /\ line'[Len(line')] = [by |-> "irq", at |-> fwAt' - 1]
  BY DEF TextInv
<1>4. Unfinished(line') => Demo!Handling' /\ fwAt' = line'[Len(line')].at + 1
  BY <1>1 DEF TextInv
<1>5. QED BY <1>2, <1>3, <1>4 DEF TextInv, Ordered, Uncut, Demo!FollowsOn, Unfinished

\* A store that the transmitter takes sends the next character of its text.
LEMMA TextSent ==
  ASSUME ControlInv, TextInv, Demo!transmit, ~fwBusy
  PROVE  TextInv'
<1> DEFINE c == [by |-> IF Demo!Handling THEN "irq" ELSE "main", at |-> fwAt]
<1>1. /\ line' = Append(line, c) /\ Demo!Advance /\ fwFrame' = fwFrame
      /\ fwPc \in {"store", "wait"} /\ (Demo!Handling' <=> Demo!Handling)
  BY DEF Demo!transmit, Demo!Handling, Demo!None
<1>2. fwAt \in Nat /\ fwAt >= 1 /\ BannerLength \in Nat /\ MessageLength \in Nat
  BY TextAssumption DEF ControlInv
<1>3. /\ c \in Character /\ c.at = fwAt
      /\ (c.by = "irq" <=> Demo!Handling) /\ (c.by = "main" <=> ~Demo!Handling)
  BY <1>2 DEF Character
<1>4. ~Demo!Handling => Sent = fwAt - 1
  BY <1>1 DEF Sent, MainPc, MainAt
<1> HIDE DEF c
<1>5. Ordered(line') /\ Uncut(line')
  <2>1. Unfinished(line) => c = [by |-> "irq", at |-> line[Len(line)].at + 1]
    BY <1>3 DEF TextInv, c
  <2>2. c.by = "main" => Demo!FollowsOn(line, Len(line) + 1, c.at - 1)
    BY <1>3, <1>4 DEF TextInv
  <2>3. c.by = "irq" /\ c.at > 1 =>
          line # << >> /\ line[Len(line)] = [by |-> "irq", at |-> c.at - 1]
    BY <1>3 DEF TextInv
  <2>4. QED BY <1>1, <1>3, <2>1, <2>2, <2>3, TextAppended DEF TextInv
<1>6. /\ line' \in Seq(Character) /\ Len(line') = Len(line) + 1 /\ line' # << >>
      /\ line'[Len(line')] = c /\ Len(line) \in Nat
  BY <1>1, <1>3 DEF TextInv
<1>7. /\ fwAt = Demo!TextLength => fwAt' = 1 /\ fwPc' = IF Demo!Handling THEN "mret" ELSE "loop"
      /\ fwAt # Demo!TextLength => fwAt' = fwAt + 1 /\ fwPc' = "poll"
  BY <1>1 DEF Demo!Advance
<1>8. Demo!FollowsOn(line', Len(line') + 1, Sent')
  <2>1. Len(line') + 1 = Len(line) + 2
    BY <1>6
  <2>2. CASE Demo!Handling
    <3>1. Sent' = Sent
      BY <1>1, <2>2 DEF Sent, MainPc, MainAt
    <3>2. QED BY <1>1, <1>3, <2>1, <2>2, <3>1, FollowsOnAppended DEF TextInv
  <2>3. CASE ~Demo!Handling
    <3>1. Sent' = fwAt
      BY <1>1, <1>2, <1>7, <2>3 DEF Sent, MainPc, MainAt, Demo!TextLength
    <3>2. QED BY <1>1, <1>3, <2>1, <2>3, <3>1, FollowsOnAppended DEF TextInv
  <2>4. QED BY <2>2, <2>3
<1>9. Demo!Handling' /\ fwAt' > 1 => line'[Len(line')] = [by |-> "irq", at |-> fwAt' - 1]
  BY <1>1, <1>2, <1>6, <1>7 DEF c
<1>10. Unfinished(line') => Demo!Handling' /\ fwAt' = line'[Len(line')].at + 1
  BY <1>1, <1>2, <1>3, <1>6, <1>7 DEF Unfinished, Demo!TextLength
<1>11. QED BY <1>5, <1>6, <1>8, <1>9, <1>10 DEF TextInv, Ordered, Uncut, Demo!FollowsOn, Unfinished

\* The text stays in order.
LEMMA TextStep ==
  ASSUME ControlInv, TextInv, Demo!Running
  PROVE  TextInv'
<1>0. Demo!Handling => fwAt \in 1..MessageLength
  BY DEF ControlInv
<1> USE DEF ControlInv, Sending, Configuring, Demo!Handling, Demo!None, Demo!deviceVars,
        Demo!historyVars, Demo!cpuVars, Sent, MainPc, MainAt
<1>1. CASE Demo!start
  BY <1>0, <1>1, TextUntouched DEF Demo!start
<1>2. CASE Demo!configure
  BY <1>0, <1>2, TextUntouched DEF Demo!configure
<1>3. CASE Demo!main_loop
  BY <1>0, <1>3, TextUntouched DEF Demo!main_loop, Demo!vars
<1>4. CASE Demo!poll
  BY <1>0, <1>4, TextUntouched DEF Demo!poll
<1>5. CASE Demo!transmit
  <2>1. CASE fwBusy
    BY <1>0, <1>5, <2>1, TextUntouched DEF Demo!transmit
  <2>2. QED BY <1>5, <2>1, TextSent
<1>6. CASE Demo!trap_handler_c
  BY <1>0, <1>6, TextUntouched DEF Demo!trap_handler_c
<1>7. CASE Demo!mret
  BY <1>0, <1>7, TextUntouched DEF Demo!mret
<1>8. CASE Demo!trap_entry
  BY <1>0, <1>8, TextUntouched DEF Demo!trap_entry, Demo!irq_pending
<1>9. CASE Demo!FrameEnds
  BY <1>0, <1>9, TextUntouched DEF Demo!FrameEnds
<1>10. CASE Demo!Press
  BY <1>0, <1>10, TextUntouched DEF Demo!Press
<1>11. QED
  BY <1>1, <1>2, <1>3, <1>4, <1>5, <1>6, <1>7, <1>8, <1>9, <1>10 DEF Demo!Running, Demo!Cpu

\* Every step keeps the firmware's invariant.
LEMMA DemoStep == DemoInv /\ [Demo!Next]_demoVars => DemoInv'
<1> SUFFICES ASSUME DemoInv, [Demo!Next]_demoVars PROVE DemoInv'
  OBVIOUS
<1>1. CASE Demo!Running
  BY <1>1, ControlStep, CountStep, TextStep DEF DemoInv
<1>2. CASE Demo!Reset
  BY <1>2, DemoRestart DEF DemoInv
<1>3. CASE UNCHANGED demoVars
  <2>1. ControlInv'
    BY <1>3 DEF demoVars, DemoInv, ControlInv, Demo!Handling
  <2>2. CountInv'
    BY <1>3 DEF demoVars, DemoInv, CountInv, Waiting, Uncounted, Shown, Demo!LedAfter
  <2>3. Sent' = Sent
    BY <1>3 DEF demoVars, Sent, MainPc, MainAt, Demo!Handling
  <2>4. TextInv'
    BY <1>3, <2>3, TextUntouched DEF demoVars, DemoInv, ControlInv, Demo!Handling
  <2>5. QED BY <2>1, <2>2, <2>4 DEF DemoInv
<1>4. QED BY <1>1, <1>2, <1>3 DEF Demo!Next

-----------------------------------------------------------------------------
(* How a press gets to the LEDs.                                           *)

\* Once main has configured the interrupt only the handler and a waiting store
\* keep it out.
SwitchInv ==
  /\ fwPc \in {"meie", "mie"} \/ fwPc \notin Configuring => enable
  /\ fwPc = "mie" \/ fwPc \notin Configuring => fwMeie
  /\ ~Demo!Handling /\ fwPc \notin Configuring => fwMie

\* A press the LEDs do not show is pending, or the handler is about to show it.
OwedInv == owed => fwPc \notin {"start", "clear"} /\ (pending \/ fwPc \in {"read", "show"})

\* Steps of the firmware until the LEDs change, those of main's text excepted:
\* what is left of the handler, the interrupt, and the three accesses to the LEDs.
StepsToReturn ==
  IF fwPc = "mret" THEN 1
  ELSE IF fwPc = "wait" THEN 3 * (MessageLength - fwAt) + 2
  ELSE IF fwPc = "store" THEN 3 * (MessageLength - fwAt) + 3
  ELSE IF fwPc = "poll" THEN 3 * (MessageLength - fwAt) + 4
  ELSE 3 * MessageLength + 2
StepsToShow ==
  IF fwPc = "show" THEN 1
  ELSE IF fwPc = "read" THEN 2
  ELSE IF fwPc = "acknowledge" THEN 3
  ELSE IF Demo!Handling THEN 4 + StepsToReturn
  ELSE IF fwPc = "led" THEN 8
  ELSE IF fwPc = "enable" THEN 7
  ELSE IF fwPc = "meie" THEN 6
  ELSE IF fwPc = "mie" THEN 5
  ELSE 4

PressInv == ControlInv /\ SwitchInv /\ OwedInv

LEMMA PressStart == Demo!Init => PressInv
<1> SUFFICES ASSUME Demo!Init PROVE PressInv
  OBVIOUS
<1>1. ControlInv
  BY DemoStart DEF DemoInv
<1>2. SwitchInv /\ OwedInv
  BY DEF Demo!Init, SwitchInv, OwedInv, Configuring, Demo!Handling, Demo!None
<1>3. QED BY <1>1, <1>2 DEF PressInv

LEMMA PressRestart == ControlInv /\ Demo!Reset => PressInv'
<1> SUFFICES ASSUME ControlInv, Demo!Reset PROVE PressInv'
  OBVIOUS
<1>1. ControlInv'
  BY DemoRestart DEF DemoInv
<1>2. SwitchInv' /\ OwedInv'
  BY DEF Demo!Reset, SwitchInv, OwedInv, Configuring, Demo!Handling, Demo!None
<1>3. QED BY <1>1, <1>2 DEF PressInv

LEMMA PressKept == ASSUME PressInv, Demo!Running PROVE SwitchInv' /\ OwedInv'
<1> USE DEF PressInv, ControlInv, SwitchInv, OwedInv, Sending, Configuring, Demo!Handling,
            Demo!None, Demo!cpuVars, Demo!deviceVars, Demo!historyVars
<1>1. CASE Demo!start
  BY <1>1 DEF Demo!start
<1>2. CASE Demo!configure
  BY <1>2 DEF Demo!configure
<1>3. CASE Demo!main_loop
  BY <1>3 DEF Demo!main_loop, Demo!vars
<1>4. CASE Demo!poll
  BY <1>4 DEF Demo!poll
<1>5. CASE Demo!transmit
  BY <1>5 DEF Demo!transmit, Demo!Advance, Demo!TextLength
<1>6. CASE Demo!trap_handler_c
  BY <1>6 DEF Demo!trap_handler_c
<1>7. CASE Demo!mret
  BY <1>7 DEF Demo!mret
<1>8. CASE Demo!trap_entry
  BY <1>8 DEF Demo!trap_entry, Demo!irq_pending
<1>9. CASE Demo!FrameEnds
  BY <1>9 DEF Demo!FrameEnds
<1>10. CASE Demo!Press
  BY <1>10 DEF Demo!Press
<1>11. QED
  BY <1>1, <1>2, <1>3, <1>4, <1>5, <1>6, <1>7, <1>8, <1>9, <1>10 DEF Demo!Running, Demo!Cpu

\* A press that is owed stays so until the LEDs change, and no step of the
\* firmware takes it further from there.
Closer ==
  owed /\ fwPc # "show" =>
    /\ owed'
    /\ StepsToShow' <= StepsToShow
    /\ fwPc' # fwPc /\ (Demo!Handling \/ Demo!Handling' \/ fwPc \in Configuring) =>
         StepsToShow' < StepsToShow

LEMMA StepsAreBounded ==
  ASSUME ControlInv
  PROVE  StepsToShow \in 1..(3 * MessageLength + 8)
<1>1. Demo!Handling => fwAt \in 1..MessageLength /\ MessageLength \in Nat \ {0}
  BY TextAssumption DEF ControlInv
<1>2. Demo!Handling => StepsToReturn \in 1..(3 * MessageLength + 2)
  BY <1>1 DEF StepsToReturn
<1>3. QED BY <1>2, TextAssumption DEF StepsToShow

LEMMA PressGetsOn == ASSUME PressInv, Demo!Running PROVE Closer
<1> USE TextAssumption
    DEF PressInv, ControlInv, SwitchInv, OwedInv, Sending, Configuring, Demo!Handling,
        Demo!None, Demo!cpuVars, Demo!deviceVars, Demo!historyVars
<1>0. StepsToShow \in Nat
  BY StepsAreBounded
<1>1. CASE Demo!start
  BY <1>0, <1>1 DEF Demo!start, Closer, StepsToShow, StepsToReturn
<1>2. CASE Demo!configure
  BY <1>0, <1>2 DEF Demo!configure, Closer, StepsToShow, StepsToReturn
<1>3. CASE Demo!main_loop
  BY <1>0, <1>3 DEF Demo!main_loop, Demo!vars, Closer, StepsToShow, StepsToReturn
<1>4. CASE Demo!poll
  BY <1>0, <1>4 DEF Demo!poll, Closer, StepsToShow, StepsToReturn
<1>5. CASE Demo!transmit
  <2>1. owed' = owed /\ fwFrame' = fwFrame /\ fwPc \in {"store", "wait"}
    BY <1>5 DEF Demo!transmit
  <2>2. CASE fwBusy
    <3>1. fwPc' = "wait" /\ fwAt' = fwAt
      BY <1>5, <2>2 DEF Demo!transmit
    <3>2. QED BY <2>1, <3>1 DEF Closer, StepsToShow, StepsToReturn
  <2>3. CASE ~fwBusy /\ Demo!Handling
    <3>1. \/ fwPc' = "mret" /\ fwAt = MessageLength
          \/ fwPc' = "poll" /\ fwAt' = fwAt + 1 /\ fwAt # MessageLength
      BY <1>5, <2>3 DEF Demo!transmit, Demo!Advance, Demo!TextLength
    <3>2. QED BY <2>1, <2>3, <3>1 DEF Closer, StepsToShow, StepsToReturn
  <2>4. CASE ~fwBusy /\ ~Demo!Handling
    <3>1. fwPc' \in {"poll", "loop"}
      BY <1>5, <2>4 DEF Demo!transmit, Demo!Advance, Demo!TextLength
    <3>2. StepsToShow = 4 /\ StepsToShow' = 4
      BY <2>1, <2>4, <3>1 DEF StepsToShow
    <3>3. QED BY <2>1, <2>4, <3>2 DEF Closer
  <2>5. QED BY <2>2, <2>3, <2>4
<1>6. CASE Demo!trap_handler_c
  <2>1. /\ fwFrame' = fwFrame /\ fwAt' = fwAt /\ Demo!Handling
        /\ fwPc # "show" => owed' = owed
        /\ \/ fwPc = "acknowledge" /\ fwPc' = "read"
           \/ fwPc = "read" /\ fwPc' = "show"
           \/ fwPc = "show"
           \/ fwPc = "count" /\ fwPc' = "poll" /\ fwAt = 1
    BY <1>6 DEF Demo!trap_handler_c
  <2>2. CASE fwPc = "count"
    <3>1. StepsToShow = 4 + (3 * MessageLength + 2) /\ StepsToShow' = 4 + (3 * (MessageLength - 1) + 4)
      BY <2>1, <2>2 DEF StepsToShow, StepsToReturn
    <3>2. QED BY <2>1, <2>2, <3>1 DEF Closer
  <2>3. CASE fwPc # "count"
    BY <2>1, <2>3 DEF Closer, StepsToShow
  <2>4. QED BY <2>2, <2>3
<1>7. CASE Demo!mret
  BY <1>0, <1>7 DEF Demo!mret, Closer, StepsToShow, StepsToReturn
<1>8. CASE Demo!trap_entry
  BY <1>0, <1>8 DEF Demo!trap_entry, Demo!irq_pending, Closer, StepsToShow, StepsToReturn
<1>9. CASE Demo!FrameEnds
  BY <1>0, <1>9 DEF Demo!FrameEnds, Closer, StepsToShow, StepsToReturn
<1>10. CASE Demo!Press
  <2>1. /\ owed => owed'
        /\ fwPc' = fwPc /\ fwFrame' = fwFrame /\ fwAt' = fwAt
    BY <1>10 DEF Demo!Press
  <2>2. StepsToShow' = StepsToShow
    BY <2>1 DEF StepsToShow, StepsToReturn
  <2>3. QED BY <1>0, <2>1, <2>2 DEF Closer
<1>11. QED
  BY <1>1, <1>2, <1>3, <1>4, <1>5, <1>6, <1>7, <1>8, <1>9, <1>10 DEF Demo!Running, Demo!Cpu

LEMMA PressStep == PressInv /\ [Demo!Next]_demoVars => PressInv'
<1> SUFFICES ASSUME PressInv, [Demo!Next]_demoVars PROVE PressInv'
  OBVIOUS
<1>1. CASE Demo!Running
  BY <1>1, ControlStep, PressKept DEF PressInv
<1>2. CASE Demo!Reset
  BY <1>2, PressRestart DEF PressInv
<1>3. CASE UNCHANGED demoVars
  BY <1>3 DEF demoVars, PressInv, ControlInv, SwitchInv, OwedInv, Demo!Handling
<1>4. QED BY <1>1, <1>2, <1>3 DEF Demo!Next

-----------------------------------------------------------------------------
(* The theorems.                                                           *)

\* uart_tx and UartDecoder: what the decoder returns is the oldest accepted
\* byte not yet returned, and no framing error is seen, for every divisor,
\* every spacing of the bytes and a reset at any moment.
THEOREM BytesArrive == UnitsSpec => []DecodesWhatWasSent
<1>1. UnitsInit => LinkInv
  BY DivisorsAssumption, LinkStart DEF UnitsInit
<1>2. LinkInv /\ [UnitsNext]_unitsVars => LinkInv'
  BY DivisorsAssumption, LinkStep, UnitSteps
<1>3. LinkInv => DecodesWhatWasSent
  BY DEF LinkInv, Silent, Ending, Quiet, Carrying, DecodesWhatWasSent, Uart!DecodesWhatWasSent
<1>4. QED BY <1>1, <1>2, <1>3, PTL DEF UnitsSpec

\* uart_tx is busy for ten bit times per byte, whatever the divisor: it
\* implements the countdown by which the SoC model stands for it.
THEOREM TransmitterIsALine == UnitsSpec => ImplementsUartLine
<1>1. UnitsInit => LinkInv /\ Uart!Line!Init
  BY DivisorsAssumption, LinkStart
  DEF UnitsInit, Uart!Init, Uart!Line!Init, Uart!Line!Idle, Uart!Remaining, Uart!LastByte
<1>2. ASSUME LinkInv, [Uart!Next]_uartVars
      PROVE  [Uart!Line!Next]_<<Uart!Remaining, Uart!LastByte>>
  <2>1. /\ DIVISOR \in Nat /\ DIVISOR >= 2 /\ TransmitterInv
    BY <1>2, DivisorsAssumption DEF Divisors, LinkInv
  <2>2. ASSUME NEW b \in Byte, Uart!Accept(b) PROVE Uart!Line!Start(b)
    <3>1. b \in 0..255
      BY DivisorsAssumption DEF Divisors
    <3>2. Uart!Remaining = 0 /\ Uart!Remaining' = 10 * DIVISOR
      BY <2>1, <2>2 DEF Uart!Accept, Uart!Remaining
    <3>3. Uart!LastByte' = b
      BY <2>2, <3>1, ByteOfFrame DEF Uart!Accept, Uart!LastByte
    <3>4. QED BY <3>2, <3>3 DEF Uart!Line!Start, Uart!Line!Idle
  <2>3. CASE Uart!Rest
    BY <2>3
    DEF Uart!Rest, Uart!txVars, Uart!Remaining, Uart!LastByte, Uart!Line!Next,
        Uart!Line!Quiet, Uart!Line!Idle
  <2>4. CASE Uart!Shift
    <3>1. Uart!LastByte' = Uart!LastByte
      BY <2>4 DEF Uart!Shift, Uart!LastByte
    <3>2. Uart!Remaining # 0 /\ Uart!Remaining' = Uart!Remaining - 1
      <4>1. CASE divider_count # DIVISOR - 1
        <5>1. divider_count' = divider_count + 1 /\ bit_index' = bit_index /\ busy' = busy /\ busy
          BY <2>4, <4>1 DEF Uart!Shift
        <5>2. divider_count' \in 0..(DIVISOR - 1) /\ divider_count' = divider_count + 1
          BY <2>1, <4>1, <5>1 DEF TransmitterInv
        <5>3. DIVISOR * (10 - bit_index) \in Int
          BY <2>1 DEF TransmitterInv
        <5>4. DIVISOR * (10 - bit_index) >= DIVISOR
          BY <2>1, BitsLeft DEF TransmitterInv
        <5>5. QED BY <2>1, <5>1, <5>2, <5>3, <5>4 DEF Uart!Remaining, TransmitterInv
      <4>2. CASE divider_count = DIVISOR - 1
        <5>1. /\ divider_count' = 0 /\ busy
              /\ IF bit_index = 9 THEN busy' = FALSE
                                  ELSE busy' = TRUE /\ bit_index' = bit_index + 1
          BY <2>4, <4>2 DEF Uart!Shift
        <5>2. Uart!Remaining = DIVISOR * (10 - bit_index) - (DIVISOR - 1)
          BY <4>2, <5>1 DEF Uart!Remaining
        <5>3. Uart!Remaining' = DIVISOR * (9 - bit_index)
          <6>1. CASE bit_index = 9
            BY <2>1, <5>1, <6>1 DEF Uart!Remaining
          <6>2. CASE bit_index # 9
            BY <2>1, <5>1, <6>2, BitsLeft DEF Uart!Remaining, TransmitterInv
          <6>3. QED BY <6>1, <6>2
        <5>4. QED BY <2>1, <5>2, <5>3, BitsLeft DEF TransmitterInv
      <4>3. QED BY <4>1, <4>2
    <3>3. QED BY <3>1, <3>2 DEF Uart!Line!Next, Uart!Line!Count, Uart!Line!Idle
  <2>5. CASE Uart!Reset
    BY <2>5 DEF Uart!Reset, Uart!Remaining, Uart!LastByte, Uart!Line!Next, Uart!Line!Abort
  <2>6. CASE UNCHANGED uartVars
    BY <2>6 DEF uartVars, Uart!Remaining, Uart!LastByte
  <2>7. QED BY <1>2, <2>2, <2>3, <2>4, <2>5, <2>6 DEF Uart!Next, Uart!Tick, Uart!Line!Next
<1>3. LinkInv /\ [UnitsNext]_unitsVars =>
        LinkInv' /\ [Uart!Line!Next]_<<Uart!Remaining, Uart!LastByte>>
  BY <1>2, DivisorsAssumption, LinkStep, UnitSteps
<1>4. QED
  BY <1>1, <1>3, PTL DEF UnitsSpec, ImplementsUartLine, Uart!ImplementsUartLine, Uart!Line!Spec

\* reset_controller asserts reset at once and releases it on time, for every
\* power-on count and whenever the inputs change; button_debounce makes an event
\* only of a press held for STABLE_CYCLES samples and accepts every level held
\* that long, for every STABLE_CYCLES and wherever a reset falls.
THEOREM InputsStayClean == UnitsSpec => []InputsAreClean
<1>1. UnitsInit => InputsInv
  BY InputsAssumption, InputsStart DEF UnitsInit
<1>2. InputsInv /\ [UnitsNext]_unitsVars => InputsInv'
  BY InputsAssumption, InputsStep, UnitSteps
<1>3. InputsInv => InputsAreClean
  BY InputsAssumption, ControllerInTime, ButtonDebounced DEF InputsInv, InputsAreClean
<1>4. QED BY <1>1, <1>2, <1>3, PTL DEF UnitsSpec

\* button_debounce makes exactly one event per accepted press, and a reset makes
\* none.
THEOREM PressesAreSingle == UnitsSpec => OneEventPerPress
<1>1. UnitsInit => InputsInv
  BY InputsAssumption, InputsStart DEF UnitsInit
<1>2. InputsInv /\ [UnitsNext]_unitsVars =>
        InputsInv' /\ [rise' = (state' /\ ~state)]_(Inputs!Button!vars)
  BY InputsAssumption, InputsStep, UnitSteps DEF Inputs!Button!vars, Inputs!buttonVars
<1>3. QED
  BY <1>1, <1>2, PTL
  DEF UnitsSpec, OneEventPerPress, Inputs!OneEventPerPress, Inputs!Button!OneEventPerPress

\* csr.sv and backend.sv: a handler that moves mtimecmp past mtime and returns
\* is not entered again before that time, for any program, any word length and
\* however closely the MRET follows the write.
THEOREM TimerStaysQuiet == UnitsSpec => []AcknowledgedStaysQuiet
<1>1. UnitsInit => TimerInv
  BY TimerStart DEF UnitsInit
<1>2. TimerInv /\ [UnitsNext]_unitsVars => TimerInv'
  BY TimerStep, UnitSteps
<1>3. TimerInv => AcknowledgedStaysQuiet
  BY DEF TimerInv, AcknowledgedStaysQuiet, Timer!AcknowledgedStaysQuiet
<1>4. QED BY <1>1, <1>2, <1>3, PTL DEF UnitsSpec

\* demo.c and start.S: the banner and every message are sent whole and in order,
\* for texts of any length, any number of presses and an interrupt between any
\* two accesses.
THEOREM TextsAreWhole == UnitsSpec => []TextIsWhole
<1>1. UnitsInit => DemoInv
  BY DemoStart DEF UnitsInit
<1>2. DemoInv /\ [UnitsNext]_unitsVars => DemoInv'
  BY DemoStep, UnitSteps
<1>3. DemoInv => TextIsWhole
  <2> SUFFICES ASSUME DemoInv PROVE Demo!TextIsWhole
    BY DEF TextIsWhole
  <2>1. CASE fwPc = "loop"
    <3>1. ~Demo!Handling /\ Sent = BannerLength /\ BannerLength # 0 /\ Len(line) \in Nat
      BY <2>1, TextAssumption DEF DemoInv, ControlInv, TextInv, Sent, MainPc, Sending
    <3>2. PICK j \in 1 .. Len(line) + 1 - 1 : line[j] = [by |-> "main", at |-> BannerLength]
      BY <3>1 DEF DemoInv, TextInv, Demo!FollowsOn
    <3>3. j \in 1..Len(line)
      BY <3>1
    <3>4. QED BY <3>2, <3>3 DEF DemoInv, TextInv, Ordered, Uncut, Demo!TextIsWhole
  <2>2. CASE fwPc # "loop"
    BY <2>2 DEF DemoInv, TextInv, Ordered, Uncut, Demo!TextIsWhole
  <2>3. QED BY <2>1, <2>2
<1>4. QED BY <1>1, <1>2, <1>3, PTL DEF UnitsSpec

\* trap_handler_c: one LED change per interrupt and no interrupt without a press
\* of its own, wherever presses and resets fall.
THEOREM LedsCount == UnitsSpec => []LedsCountPresses
<1>1. UnitsInit => DemoInv
  BY DemoStart DEF UnitsInit
<1>2. DemoInv /\ [UnitsNext]_unitsVars => DemoInv'
  BY DemoStep, UnitSteps
<1>3. DemoInv => LedsCountPresses
  <2> SUFFICES ASSUME DemoInv, fwPc \notin {"start", "clear", "led"}
               PROVE  /\ led = Demo!LedAfter(Shown)
                      /\ irq_count + Waiting
                         + (IF Demo!Handling /\ fwPc \in {"read", "show", "count"} THEN 1 ELSE 0)
                         <= presses
    BY DEF LedsCountPresses, Demo!LedsCountPresses, Shown, Waiting
  <2>1. fwPc \in {"read", "show", "count"} => Demo!Handling
    BY DEF DemoInv, ControlInv, Sending, Configuring
  <2>2. QED BY <2>1 DEF DemoInv, CountInv, Uncounted
<1>4. QED BY <1>1, <1>2, <1>3, PTL DEF UnitsSpec

\* demo.c and start.S: once main has configured the interrupt, only the handler
\* and a store that waits for the line keep a press from being taken, and no
\* press is lost.  Until it is shown every step of the handler, of the rest of
\* the configuration and of the interrupt brings it nearer, no step takes it
\* further away, and it is never further than one message of the handler.
THEOREM PressesComeCloser ==
  UnitsSpec =>
    /\ [](owed /\ ~Demo!Handling /\ fwPc \notin Configuring => Demo!irq_pending \/ fwPc = "wait")
    /\ [](StepsToShow \in 1..(3 * MessageLength + 8))
    /\ [][Demo!Running => Closer]_demoVars
<1>1. UnitsInit => PressInv
  BY PressStart DEF UnitsInit
<1>2. PressInv /\ [UnitsNext]_unitsVars => PressInv'
  BY PressStep, UnitSteps
<1>3. PressInv /\ [UnitsNext]_unitsVars => [Demo!Running => Closer]_demoVars
  BY PressGetsOn
<1>4. PressInv => StepsToShow \in 1..(3 * MessageLength + 8)
  BY StepsAreBounded DEF PressInv
<1>5. PressInv =>
        (owed /\ ~Demo!Handling /\ fwPc \notin Configuring => Demo!irq_pending \/ fwPc = "wait")
  BY DEF PressInv, ControlInv, SwitchInv, OwedInv, Sending, Configuring, Demo!irq_pending
<1>6. QED BY <1>1, <1>2, <1>3, <1>4, <1>5, PTL DEF UnitsSpec
=============================================================================
