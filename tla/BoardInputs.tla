---------------------------- MODULE BoardInputs ----------------------------
(***************************************************************************)
(* The two asynchronous inputs of the board: the reset button with the     *)
(* clock's lock signal, through reset_controller, and the interrupt        *)
(* button, through button_debounce in the reset domain it makes.           *)
(***************************************************************************)
EXTENDS Naturals

CONSTANTS POWER_ON_CYCLES, STABLE_CYCLES

VARIABLES
  power_count, reset_sync, async_reset, edges,
  sync_meta, sync_value, stable_count, state, rise, samples

Controller == INSTANCE ResetController
Button == INSTANCE ButtonDebounce
controllerVars == <<power_count, reset_sync, async_reset, edges>>
buttonVars == <<sync_meta, sync_value, stable_count, state, rise, samples>>
vars == <<controllerVars, buttonVars>>

Init == Controller!Init /\ Button!Init

\* Every register of the debouncer samples the reset that held before the edge.
ClockEdge ==
  /\ Controller!ClockEdge
  /\ IF Controller!rst THEN Button!Reset ELSE Button!Tick

InputChanges == Controller!InputChanges /\ UNCHANGED buttonVars

Next == ClockEdge \/ InputChanges
Spec == Init /\ [][Next]_vars

-----------------------------------------------------------------------------
(* Properties: those of the two parts, together.                           *)

\* Reset is asserted at once and released on time (ResetController).
ReleasedInTime == Controller!ReleasedInTime

\* A bounce never makes an event, and a press or a release that is held long
\* enough is never missed (ButtonDebounce), wherever the reset falls.
DebouncedExactly == Button!RiseIsStable /\ Button!StableIsSeen

\* One event per press, and none that a reset makes: what SocBus assumes of
\* the button, whenever the reset button is pushed.
OneEventPerPress == Button!OneEventPerPress
=============================================================================
