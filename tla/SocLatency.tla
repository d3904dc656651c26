----------------------------- MODULE SocLatency -----------------------------
(***************************************************************************)
(* SocBus with a history variable that measures how long each client has   *)
(* been kept waiting, to state how long the bus may stall the pipeline.    *)
(***************************************************************************)
EXTENDS SocBus

\* A frame is ten bit times of at least one cycle.
ASSUME FrameAssumption == FrameCycles >= 10

VARIABLE waited   \* waited[c]: clock edges client c's request has seen unready

\* Waits are measured up to one cycle past the longest one allowed.
Longest == FrameCycles + 5

Measure ==
  waited' = [c \in Clients |->
    IF src[c] = NoRequest \/ Ready(c) THEN 0
    ELSE IF waited[c] < Longest THEN waited[c] + 1 ELSE Longest]

TimedInit == SocInit /\ waited = [c \in Clients |-> 0]
TimedTick == SocTick /\ Measure
TimedReset == SocReset /\ waited' = [c \in Clients |-> 0]
TimedSpec == TimedInit /\ [][TimedTick \/ TimedReset]_<<socVars, waited>>

\* How long either side can be made to wait, exactly: back-to-back stores to
\* TXDATA keep the data side waiting one frame, and a fetch that arrives with
\* such a store waits four cycles more (grant, decode, respond, release).
\* Everything else is shorter once a frame is at least ten cycles long.  So no
\* client is starved while the clock runs, whatever the other one requests.
BoundedLatency ==
  /\ waited["DATA"] <= FrameCycles
  /\ waited["INSTR"] <= FrameCycles + 4

\* a_stall_bounded of rv32i_core: the pipeline never stalls for more than 256
\* cycles.  A data request that is not ready stalls the pipeline.
StallBounded == waited["DATA"] <= 256
=============================================================================
