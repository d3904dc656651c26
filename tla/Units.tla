------------------------------- MODULE Units -------------------------------
(***************************************************************************)
(* Five units that share nothing: the instruction cache, the serial link,  *)
(* the board's inputs, the timer with the interrupt registers, and the     *)
(* demo firmware.  A behaviour runs the unit chosen at its start; the      *)
(* others stay in their initial states.                                    *)
(***************************************************************************)
EXTENDS ICache

CONSTANTS
  DIVISOR, UartDivisor, Byte,              \* UartLink
  POWER_ON_CYCLES, STABLE_CYCLES,          \* BoardInputs
  Top,                                     \* TimerInterrupt
  BannerLength, MessageLength, MaxPresses  \* Firmware

\* The quotient of clock and baud rate is rounded by the transmitter and
\* truncated by the decoder; where the two differ it is not small.
Divisors ==
  /\ DIVISOR \in Nat /\ UartDivisor \in Nat /\ Byte \subseteq 0..255
  /\ \/ UartDivisor = DIVISOR /\ DIVISOR >= 2
     \/ UartDivisor = DIVISOR - 1 /\ UartDivisor >= 18

ASSUME DivisorsAssumption == Divisors
ASSUME InputsAssumption == POWER_ON_CYCLES \in Nat /\ STABLE_CYCLES \in Nat \ {0}
ASSUME TimerAssumption == Top \in Nat
ASSUME TextAssumption ==
  BannerLength \in Nat \ {0} /\ MessageLength \in Nat \ {0} /\ MaxPresses \in Nat

VARIABLES
  unit,
  frame, bit_index, divider_count, busy,
  phase, previous, countdown, bit, value, error, inFlight,
  power_count, reset_sync, async_reset, edges,
  sync_meta, sync_value, stable_count, state, rise, samples,
  mtime, mtimecmp, mip_mtip, mip_msip, mie, mstatus_mie, mstatus_mpie,
  taken, acknowledged,
  fwPc, fwAt, fwValue, fwFrame, fwMie, fwMeie, irq_count,
  fwBusy, led, pending, enable, line, presses, owed

Uart == INSTANCE UartLink
Inputs == INSTANCE BoardInputs
Timer == INSTANCE TimerInterrupt
Demo == INSTANCE Firmware
  WITH pc <- fwPc, at <- fwAt, value <- fwValue, frame <- fwFrame,
       mie <- fwMie, meie <- fwMeie, busy <- fwBusy

uartVars == <<frame, bit_index, divider_count, busy,
              phase, previous, countdown, bit, value, error, inFlight>>
inputVars == <<power_count, reset_sync, async_reset, edges,
               sync_meta, sync_value, stable_count, state, rise, samples>>

timerVars ==
  <<mtime, mtimecmp, mip_mtip, mip_msip, mie, mstatus_mie, mstatus_mpie,
    taken, acknowledged>>
demoVars ==
  <<fwPc, fwAt, fwValue, fwFrame, fwMie, fwMeie, irq_count,
    fwBusy, led, pending, enable, line, presses, owed>>

UnitsInit ==
  /\ unit \in {"icache", "uart", "inputs", "timer", "firmware"}
  /\ Init /\ Uart!Init /\ Inputs!Init /\ Timer!Init /\ Demo!Init

ICacheRuns ==
  unit = "icache" /\ Next /\ UNCHANGED <<unit, uartVars, inputVars, timerVars, demoVars>>
UartRuns ==
  unit = "uart" /\ Uart!Next /\ UNCHANGED <<unit, vars, inputVars, timerVars, demoVars>>
InputsRun ==
  unit = "inputs" /\ Inputs!Next /\ UNCHANGED <<unit, vars, uartVars, timerVars, demoVars>>
TimerRuns ==
  unit = "timer" /\ Timer!Next /\ UNCHANGED <<unit, vars, uartVars, inputVars, demoVars>>
FirmwareRuns ==
  unit = "firmware" /\ Demo!Next /\ UNCHANGED <<unit, vars, uartVars, inputVars, timerVars>>

UnitsNext == ICacheRuns \/ UartRuns \/ InputsRun \/ TimerRuns \/ FirmwareRuns
unitsVars == <<unit, vars, uartVars, inputVars, timerVars, demoVars>>

\* The fairness of ICache and of Firmware, for the unit that runs.
UnitsFairness ==
  /\ <>[][Clock]_vars
  /\ WF_vars(unit = "icache" /\ Clock) /\ SF_vars(unit = "icache" /\ Answers)
  /\ WF_demoVars(unit = "firmware" /\ Demo!Cpu)
  /\ WF_demoVars(unit = "firmware" /\ Demo!trap_entry)
  /\ WF_demoVars(unit = "firmware" /\ Demo!FrameEnds)

UnitsSpec == UnitsInit /\ [][UnitsNext]_unitsVars /\ UnitsFairness

-----------------------------------------------------------------------------
(* The properties of the units, under the names they have there.           *)

\* Every fetch is answered (ICache).
EveryFetchCompletes == unit = "icache" => FetchCompletes

\* The serial link delivers every byte, once, in order (UartLink).
DecodesWhatWasSent == Uart!DecodesWhatWasSent

\* The transmitter is the countdown SocBus takes it for (UartLink).
ImplementsUartLine == Uart!ImplementsUartLine

\* Reset is asserted at once and released on time (ResetController); a bounce
\* makes no event and a held level is not missed (ButtonDebounce).
InputsAreClean == Inputs!ReleasedInTime /\ Inputs!DebouncedExactly

\* One event per press (ButtonDebounce).
OneEventPerPress == Inputs!OneEventPerPress

\* A timer that was acknowledged does not interrupt before it is due again
\* (TimerInterrupt).
AcknowledgedStaysQuiet == Timer!AcknowledgedStaysQuiet

\* Banner and messages are transmitted whole and in order (Firmware).
TextIsWhole == Demo!TextIsWhole

\* One LED change per interrupt, one press per interrupt (Firmware).
LedsCountPresses == Demo!LedsCountPresses

\* Every press after start-up is shown (Firmware).
PressIsShown == Demo!PressIsShown
=============================================================================
