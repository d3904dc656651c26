--------------------------- MODULE ResetController ---------------------------
(***************************************************************************)
(* reset_controller: reset is asserted at once by the asynchronous input   *)
(* and released by the clock, two edges after the input is, and never      *)
(* before the power-on counter has run out.  The input changes between     *)
(* clock edges.                                                            *)
(***************************************************************************)
EXTENDS Naturals

CONSTANT POWER_ON_CYCLES

VARIABLES
  power_count, reset_sync, async_reset,
  edges    \* history: clock edges since power-on or since the input was
           \* last high, counted up to POWER_ON_CYCLES + 2

vars == <<power_count, reset_sync, async_reset, edges>>

Limit == POWER_ON_CYCLES + 2
rst == reset_sync[1] \/ power_count < POWER_ON_CYCLES

Count == IF edges < Limit THEN edges + 1 ELSE edges

\* Fault: the synchroniser has one stage.
ClockOneStage ==
  /\ power_count' = IF power_count < POWER_ON_CYCLES THEN power_count + 1 ELSE power_count
  /\ reset_sync' = [i \in {0, 1} |-> async_reset]
  /\ edges' = IF async_reset THEN 0 ELSE Count
  /\ UNCHANGED async_reset

\* posedge clk
ClockEdge ==
  /\ power_count' = IF power_count < POWER_ON_CYCLES THEN power_count + 1 ELSE power_count
  /\ reset_sync' = IF async_reset THEN [i \in {0, 1} |-> TRUE]
                                  ELSE [i \in {0, 1} |-> i = 1 /\ reset_sync[0]]
  /\ edges' = IF async_reset THEN 0 ELSE Count
  /\ UNCHANGED async_reset

\* The input rises (posedge async_reset) or falls between clock edges.
InputChanges ==
  /\ async_reset' = ~async_reset
  /\ reset_sync' = IF async_reset' THEN [i \in {0, 1} |-> TRUE] ELSE reset_sync
  /\ edges' = IF async_reset' THEN 0 ELSE edges
  /\ UNCHANGED power_count

Init ==
  /\ power_count = 0 /\ reset_sync = [i \in {0, 1} |-> TRUE]
  /\ async_reset \in BOOLEAN /\ edges = 0

Next == ClockEdge \/ InputChanges
Spec == Init /\ [][Next]_vars

-----------------------------------------------------------------------------
(* Properties.                                                             *)

\* Reset is asserted as soon as the input is, with the clock running or not;
\* it lasts two edges past the input and through power-on, and no longer, so
\* every register of the SoC leaves reset on the same edge.
ReleasedInTime == rst <=> edges < 2 \/ power_count < POWER_ON_CYCLES
=============================================================================
