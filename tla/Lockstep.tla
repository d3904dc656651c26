------------------------------ MODULE Lockstep ------------------------------
(***************************************************************************)
(* tools/lockstep.py: one ELF is run on Spike and on the RTL simulator, and *)
(* the two retirement streams are compared.  The runner is one process; the *)
(* two children, their files, the clock and the rest of the machine move    *)
(* between any two of its steps.                                            *)
(*                                                                         *)
(* A line of Spike's log is one of                                         *)
(*   "other"  no commit record        "boot"   a record before RESET_PC     *)
(*   "reset"  the record at RESET_PC  "a","b"  records of the program       *)
(*   "loop"   the terminal self-loop  "bad"    a register out of range      *)
(* and a line of the simulator's trace is a record or "junk".  Spike's file *)
(* grows by half lines, so that a read may end inside a line.               *)
(***************************************************************************)
EXTENDS Integers, Sequences, SequencesExt

CONSTANTS SpikeLogs,    \* the logs Spike may be about to write
          Traces        \* the traces the simulator may be about to write

VARIABLES pc,           \* the step run_children is at
          verdict,      \* "none", "pass" or "fail"
          spikeLog, written,   \* Spike's whole log, and its half lines so far
          trace,        \* the simulator's whole trace
          spike, sim,   \* the children: "unborn", "running", or how they ended
          parser,       \* the SpikeTrace object
          seen,         \* spike_status and sim_status of this iteration
          rtl,          \* the parsed trace, or << >> for None
          byUs,         \* spike_terminated_by_us
          expired,      \* time.monotonic() >= deadline
          failure,      \* a LockstepError is on its way out
          spikeFailed   \* history: Spike ended on its own, not with status 0

inputs == <<spikeLog, trace>>
spikeState == <<spike, written, spikeFailed>>
loop == <<parser, seen, rtl, byUs>>
runner == <<pc, verdict, failure, loop>>
vars == <<runner, inputs, spikeState, sim, expired>>

Signals == {"TERM", "KILL"}
Exits == {"0", "1"}
Running(child) == child = "running"
Ended(child) == child \in Exits \union Signals
Poll(child) == IF Ended(child) THEN child ELSE "None"

(***************************************************************************)
(* Parsing.                                                                *)
(***************************************************************************)
(* RTL_RECORD and the checks on the terminal self-loop. *)
parse_rtl_trace(t) ==
  /\ t # << >>
  /\ \A i \in DOMAIN t : t[i] # "junk"
  /\ Last(t) = "loop"
  /\ \A i \in DOMAIN t : i < Len(t) => t[i] # "loop"

(* One complete line: what the for loop of SpikeTrace.update does with it. *)
ReadLine(p, line) ==
  IF p.complete \/ p.raised \/ line = "other" \/ (~p.started /\ line # "reset") THEN p
  ELSE IF line = "bad" THEN [p EXCEPT !.raised = TRUE]
  ELSE [p EXCEPT !.started = TRUE, !.records = Append(@, line),
                 !.complete = (line = "loop")]

\* Fault: a line cut by a read is dropped.
UpdateDropsPartial(p) ==
  IF p.complete THEN p
  ELSE LET lines == SubSeq(spikeLog, (p.offset + 1) \div 2 + 1, written \div 2)
       IN  [FoldLeft(ReadLine, p, lines) EXCEPT !.offset = written]

(* SpikeTrace.update: text is the half line kept from the last time and the *)
(* chunk; what follows the last end of line is kept for the next time.  A   *)
(* line whose first half was lost is no commit record.                     *)
update(p) ==
  IF p.complete THEN p
  ELSE LET first == IF p.partial THEN p.offset - 1 ELSE p.offset
           lines == SubSeq(spikeLog, (first + 1) \div 2 + 1, written \div 2)
       IN  [FoldLeft(ReadLine, p, lines) EXCEPT !.offset = written,
                                                !.partial = written % 2 = 1]

NewParser == [offset |-> 0, partial |-> FALSE, started |-> FALSE,
              complete |-> FALSE, raised |-> FALSE, records |-> << >>]

(* The traces are equal and end in the terminal self-loop. *)
compare_traces(r, s) == r = s /\ r # << >> /\ Last(r) = "loop"

(***************************************************************************)
(* The children and the clock.                                             *)
(***************************************************************************)
SpikeWrites ==
  /\ Running(spike)
  /\ written < 2 * Len(spikeLog)
  /\ written' = written + 1
  /\ UNCHANGED <<runner, inputs, spike, spikeFailed, sim, expired>>

(* Spike exits when it has written everything; a signal may come any time. *)
SpikeEnds ==
  /\ Running(spike)
  /\ \E status \in Exits \union Signals :
       /\ status \in Exits => written = 2 * Len(spikeLog)
       /\ spike' = status
       /\ spikeFailed' = (status # "0")
  /\ UNCHANGED <<runner, inputs, written, sim, expired>>

SimEnds ==
  /\ Running(sim)
  /\ sim' \in Exits
  /\ UNCHANGED <<runner, inputs, spikeState, expired>>

DeadlinePasses ==
  /\ ~expired
  /\ expired' = TRUE
  /\ UNCHANGED <<runner, inputs, spikeState, sim>>

(***************************************************************************)
(* The runner.                                                             *)
(***************************************************************************)
(* terminate_and_reap: a child found running gets SIGTERM, after a second   *)
(* SIGKILL; it may still end by itself before the signal reaches it.        *)
terminate_and_reap(child, childNext) ==
  IF Running(child) THEN childNext \in Exits \union Signals ELSE childNext = child

StartSpike ==
  /\ pc = "start spike"
  /\ \/ pc' = "start sim" /\ spike' = "running" /\ UNCHANGED failure
     \/ pc' = "raise" /\ failure' = TRUE /\ UNCHANGED spike
  /\ UNCHANGED <<verdict, loop, inputs, written, spikeFailed, sim, expired>>

\* Fault: a simulator that cannot start leaves Spike behind.
StartSimLeaks ==
  /\ pc = "start sim"
  /\ \/ pc' = "update" /\ sim' = "running" /\ UNCHANGED <<failure, spike>>
     \/ pc' = "raise" /\ failure' = TRUE /\ UNCHANGED <<spike, sim>>
  /\ UNCHANGED <<verdict, loop, inputs, written, spikeFailed, expired>>

StartSim ==
  /\ pc = "start sim"
  /\ \/ pc' = "update" /\ sim' = "running" /\ UNCHANGED <<failure, spike>>
     \/ /\ pc' = "raise" /\ failure' = TRUE
        /\ terminate_and_reap(spike, spike')
        /\ UNCHANGED sim
  /\ UNCHANGED <<verdict, loop, inputs, written, spikeFailed, expired>>

ReadLog ==
  /\ pc = "update"
  /\ parser' = update(parser)
  /\ failure' = parser'.raised
  /\ pc' = IF parser'.raised THEN "reap sim" ELSE "poll spike"
  /\ UNCHANGED <<verdict, seen, rtl, byUs, inputs, spikeState, sim, expired>>

PollSpike ==
  /\ pc = "poll spike"
  /\ seen' = [seen EXCEPT !.spike = Poll(spike)]
  /\ pc' = "poll sim"
  /\ UNCHANGED <<verdict, failure, parser, rtl, byUs, inputs, spikeState, sim, expired>>

PollSim ==
  /\ pc = "poll sim"
  /\ seen' = [seen EXCEPT !.sim = Poll(sim)]
  /\ pc' = IF parser.complete /\ seen.spike = "None" THEN "settle" ELSE "judge"
  /\ UNCHANGED <<verdict, failure, parser, rtl, byUs, inputs, spikeState, sim, expired>>

(* The sentinel is in the log and Spike still runs: wait a moment, then     *)
(* stop it.  A Spike that ended in the meantime keeps its own status.       *)
Settle ==
  /\ pc = "settle"
  /\ terminate_and_reap(spike, spike')
  /\ byUs' = Running(spike)
  /\ seen' = [seen EXCEPT !.spike = spike']
  /\ pc' = "judge"
  /\ UNCHANGED <<verdict, failure, parser, rtl, inputs, written, spikeFailed, sim, expired>>

intentional_spike_status == byUs /\ seen.spike \in Signals

(* The checks of one iteration, in their order. *)
Judge ==
  /\ pc = "judge"
  /\ LET spikeBad == seen.spike \notin {"None", "0"} /\ ~intentional_spike_status
         simBad   == seen.sim \notin {"None", "0"}
         parsed   == seen.sim = "0" /\ parse_rtl_trace(trace)
     IN  /\ failure' = (spikeBad \/ simBad \/ (seen.sim = "0" /\ ~parsed))
         /\ rtl' = IF ~spikeBad /\ parsed THEN trace ELSE rtl
         /\ pc' = IF failure' \/ (rtl' # << >> /\ parser.complete)
                  THEN "reap sim" ELSE "deadline"
  /\ UNCHANGED <<verdict, parser, seen, byUs, inputs, spikeState, sim, expired>>

\* Fault: the deadline covers the wait for the simulator only.
DeadlineOnlyForSim ==
  /\ pc = "deadline"
  /\ failure' = (expired /\ seen.sim = "None")
  /\ pc' = IF expired /\ seen.sim = "None" THEN "reap sim" ELSE "update"
  /\ UNCHANGED <<verdict, loop, inputs, spikeState, sim, expired>>

(* Not decided: give up once the deadline has passed, or sleep and go on. *)
CheckDeadline ==
  /\ pc = "deadline"
  /\ failure' = expired
  /\ pc' = IF expired THEN "reap sim" ELSE "update"
  /\ UNCHANGED <<verdict, loop, inputs, spikeState, sim, expired>>

(* The finally clause: both children, whatever happened. *)
ReapSim ==
  /\ pc = "reap sim"
  /\ terminate_and_reap(sim, sim')
  /\ pc' = "reap spike"
  /\ UNCHANGED <<verdict, failure, loop, inputs, spikeState, expired>>

ReapSpike ==
  /\ pc = "reap spike"
  /\ terminate_and_reap(spike, spike')
  /\ pc' = IF failure THEN "raise" ELSE "compare"
  /\ UNCHANGED <<verdict, failure, loop, inputs, written, spikeFailed, sim, expired>>

(* main: the exit status of the program. *)
Finish ==
  /\ pc \in {"raise", "compare"}
  /\ verdict' = IF pc = "compare" /\ compare_traces(rtl, parser.records)
                THEN "pass" ELSE "fail"
  /\ pc' = "done"
  /\ UNCHANGED <<failure, loop, inputs, spikeState, sim, expired>>

Init ==
  /\ pc = "start spike" /\ verdict = "none"
  /\ spikeLog \in SpikeLogs /\ written = 0 /\ trace \in Traces
  /\ spike = "unborn" /\ sim = "unborn"
  /\ parser = NewParser
  /\ seen = [spike |-> "None", sim |-> "None"]
  /\ rtl = << >> /\ byUs = FALSE
  /\ expired = FALSE /\ failure = FALSE /\ spikeFailed = FALSE

Runner == \/ StartSpike \/ StartSim \/ ReadLog \/ PollSpike \/ PollSim \/ Settle
          \/ Judge \/ CheckDeadline \/ ReapSim \/ ReapSpike \/ Finish
Children == SpikeWrites \/ SpikeEnds \/ SimEnds

Next == Runner \/ Children \/ DeadlinePasses

(* The operating system schedules the runner and time goes on.  Nothing is  *)
(* assumed of the children: either may hang for ever.                      *)
Fairness == WF_vars(Runner) /\ WF_vars(DeadlinePasses)

Spec == Init /\ [][Next]_vars /\ Fairness

(***************************************************************************)
(* Properties.                                                             *)
(***************************************************************************)
(* What Spike retires, read in one go from the finished log: from RESET_PC  *)
(* to the first terminal self-loop.                                        *)
Retired == FoldLeft(ReadLine, NewParser, spikeLog)

(* The two streams are complete and equal. *)
Agree == /\ Retired.complete
         /\ parse_rtl_trace(trace)
         /\ Retired.records = trace

(* PASS is printed only for a simulator that succeeded and two complete,    *)
(* equal streams, however the log was cut into reads; FAIL only when they   *)
(* differ, a child failed, could not start, or ran out of time.            *)
VerdictIsTrue ==
  /\ verdict = "pass" => Agree /\ sim = "0" /\ ~spikeFailed
  /\ verdict = "fail" => \/ ~Agree \/ expired \/ spikeFailed
                         \/ "unborn" \in {spike, sim}
                         \/ sim # "0" \/ (byUs /\ spike = "1")

(* lockstep.py never leaves a Spike or a simulator behind: a child that was *)
(* started has been waited for on every path to an exit status.            *)
NoChildOutlives == verdict # "none" => ~Running(spike) /\ ~Running(sim)

(* The runner and the clock wait for nobody: until there is a verdict the   *)
(* runner has a step it can take, whatever the children do.                *)
NobodyWaits ==
  /\ verdict = "none" => ENABLED <<Runner>>_vars
  /\ ~expired => ENABLED <<DeadlinePasses>>_vars

(* Every run ends with a verdict, even when both children hang: the         *)
(* deadline covers each state the loop can wait in.                        *)
LockstepDecides == <>(verdict # "none")
=============================================================================
