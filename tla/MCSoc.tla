------------------------------- MODULE MCSoc -------------------------------
(***************************************************************************)
(* A small SoC for TLC: one byte lane besides lane 0, one data word, two   *)
(* instruction words (one of the region's two is beyond the memory's       *)
(* depth) and the real register offsets.  Each behaviour has one of three  *)
(* workloads, chosen at the start; waiting times are measured under the    *)
(* one that is about them.                                                 *)
(***************************************************************************)
EXTENDS SocLatency

CONSTANT Workloads
VARIABLE workload   \* one of Workloads: "memory", "gpio" or "polling"

MCByte == {0, 1}
MCWord == [Lanes -> MCByte]
MCZero == [l \in Lanes |-> 0]
MCOnes == [l \in Lanes |-> 1]
MCImage == [i \in {0} |-> MCOnes]

MCRead(a) == [adr |-> a, strb |-> {}, dat |-> MCZero]
MCWrite(a, s, w) == [adr |-> a, strb |-> s, dat |-> w]

\* A fetch of a real word and a misaligned one beyond the depth.
MCFetch == {MCRead(0), MCRead(5)}
MCFetchReal == {MCRead(0)}

\* Memory traffic: reads, partial and full writes, a write to the instruction
\* memory and a read of a hole.
MCMemoryRequests ==
  {MCRead(0), MCRead(66), MCRead(80), MCWrite(0, {0}, MCOnes),
   MCWrite(64, {0}, MCOnes), MCWrite(65, {1}, MCOnes), MCWrite(64, {0, 1}, MCZero)}

\* UART traffic: stores of two bytes, the status poll, and the error cases.
MCUartRequests ==
  {MCWrite(8, {0}, MCOnes), MCWrite(8, {0}, MCZero), MCWrite(8, {1}, MCOnes),
   MCRead(8), MCRead(12), MCWrite(12, {0}, MCOnes), MCRead(16)}

\* GPIO traffic: the interrupt registers set, cleared and read.
MCGpioRequests ==
  {MCRead(a) : a \in {36, 40, 44}}
  \cup {MCWrite(32, {0}, MCOnes), MCWrite(36, {0}, MCOnes),
        MCWrite(40, {0}, MCOnes), MCWrite(40, {0}, MCZero), MCWrite(40, {1}, MCOnes),
        MCWrite(44, {0}, MCOnes), MCWrite(44, {0}, MCZero)}

MCRequests == MCMemoryRequests \cup MCUartRequests \cup MCGpioRequests

\* Stores to TXDATA and nothing else, as a program that does not poll issues;
\* every fetch hits the instruction cache.
MCStores == {MCWrite(8, {0}, MCOnes)}
MCNoFetch == {}

DataTraffic ==
  [memory  |-> MCMemoryRequests \cup MCStores,
   gpio    |-> MCGpioRequests,
   polling |-> MCUartRequests]
FetchTraffic == [memory |-> MCFetch, gpio |-> MCNoFetch, polling |-> MCFetchReal]

Offered ==
  /\ src'["DATA"] \in DataTraffic[workload] \cup {NoRequest}
  /\ src'["INSTR"] \in FetchTraffic[workload] \cup {NoRequest}
  /\ button_state' => workload = "gpio"

MCInit == TimedInit /\ workload \in Workloads
MCTick ==
  (IF workload = "polling" THEN TimedTick ELSE SocTick /\ UNCHANGED waited) /\ Offered
MCNext == (MCTick \/ TimedReset) /\ UNCHANGED workload
MCSpec == MCInit /\ [][MCNext]_<<socVars, waited, workload>>
=============================================================================
