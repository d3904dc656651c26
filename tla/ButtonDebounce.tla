--------------------------- MODULE ButtonDebounce ---------------------------
(***************************************************************************)
(* button_debounce: a two-flop synchroniser and a counter that takes over  *)
(* a new level only after STABLE_CYCLES identical samples.  The input is   *)
(* asynchronous, so each clock edge captures any level.                    *)
(***************************************************************************)
EXTENDS Naturals, Sequences

CONSTANT STABLE_CYCLES

VARIABLES
  sync_meta, sync_value, stable_count, state, rise,
  samples   \* history: the last STABLE_CYCLES + 2 captured levels, newest first

vars == <<sync_meta, sync_value, stable_count, state, rise, samples>>

Window == STABLE_CYCLES + 2
Remember(level) == samples' = SubSeq(<<level>> \o samples, 1, Window)

Synchronise(level) == sync_meta' = level /\ sync_value' = sync_meta

\* Fault: a bounce pauses the count instead of restarting it.
DebounceNoRestart ==
  \/ sync_value = state /\ rise' = FALSE /\ UNCHANGED <<state, stable_count>>
  \/ /\ sync_value # state /\ stable_count = STABLE_CYCLES - 1
     /\ state' = sync_value /\ rise' = sync_value /\ stable_count' = 0
  \/ /\ sync_value # state /\ stable_count # STABLE_CYCLES - 1
     /\ stable_count' = stable_count + 1 /\ rise' = FALSE /\ UNCHANGED state

\* Fault: every accepted level raises the pulse, releases too.
DebouncePulsesBoth ==
  \/ sync_value = state /\ stable_count' = 0 /\ rise' = FALSE /\ UNCHANGED state
  \/ /\ sync_value # state /\ stable_count = STABLE_CYCLES - 1
     /\ state' = sync_value /\ rise' = TRUE /\ stable_count' = 0
  \/ /\ sync_value # state /\ stable_count # STABLE_CYCLES - 1
     /\ stable_count' = stable_count + 1 /\ rise' = FALSE /\ UNCHANGED state

\* Fault: one sample too many before a level is accepted.
DebounceLate ==
  \/ sync_value = state /\ stable_count' = 0 /\ rise' = FALSE /\ UNCHANGED state
  \/ /\ sync_value # state /\ stable_count = STABLE_CYCLES
     /\ state' = sync_value /\ rise' = sync_value /\ stable_count' = 0
  \/ /\ sync_value # state /\ stable_count # STABLE_CYCLES
     /\ stable_count' = stable_count + 1 /\ rise' = FALSE /\ UNCHANGED state

Debounce ==
  \/ sync_value = state /\ stable_count' = 0 /\ rise' = FALSE /\ UNCHANGED state
  \/ /\ sync_value # state /\ stable_count = STABLE_CYCLES - 1
     /\ state' = sync_value /\ rise' = sync_value /\ stable_count' = 0
  \/ /\ sync_value # state /\ stable_count # STABLE_CYCLES - 1
     /\ stable_count' = stable_count + 1 /\ rise' = FALSE /\ UNCHANGED state

Init ==
  /\ sync_meta = FALSE /\ sync_value = FALSE /\ stable_count = 0
  /\ state = FALSE /\ rise = FALSE
  /\ samples = [i \in 1..Window |-> FALSE]

Tick == \E level \in BOOLEAN : Synchronise(level) /\ Debounce /\ Remember(level)

Reset ==
  /\ sync_meta' = FALSE /\ sync_value' = FALSE /\ stable_count' = 0
  /\ state' = FALSE /\ rise' = FALSE
  /\ samples' = [i \in 1..Window |-> FALSE]

Next == Tick \/ Reset
Spec == Init /\ [][Next]_vars

-----------------------------------------------------------------------------
(* Properties.                                                             *)

\* A bounce never makes an event: a rise is reported only when the
\* STABLE_CYCLES samples before the two synchroniser stages were all high.
RiseIsStable == rise => \A i \in 3..Window : samples[i]

\* A press held for STABLE_CYCLES cycles, and the two the synchroniser takes,
\* is never missed; nor is a release.
StableIsSeen ==
  \A level \in BOOLEAN :
    (\A i \in 1..Window : samples[i] = level) => state = level

\* One event per press: the pulse comes with the level's rising edge and
\* with nothing else, so holding or releasing the button does not retrigger.
\* It is what SocBus assumes of the button.
OneEventPerPress == [][rise' = (state' /\ ~state)]_vars
=============================================================================
