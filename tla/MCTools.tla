------------------------------ MODULE MCTools ------------------------------
(***************************************************************************)
(* The tools of Tools at small sizes, in one run.  A behaviour is of the    *)
(* tool chosen at its start; the others stay in an initial state.           *)
(***************************************************************************)
EXTENDS Tools

VARIABLE tool

\* One bit of data: sums, products, equality and a link that tells two
\* neighbours apart.
MCAlu(a, b) == (a + b) % 2
MCImm(a, k) == (a * k) % 2
MCTaken(a, b) == a = b
MCLink(a) == a % 2

\* What Spike may write: a boot record and noise before the program, records
\* after the loop, a bad register before the reset address, one after it, and
\* a program that never gets to its loop.
MCLogs ==
  {<<"other", "boot", "reset", "a", "loop">>, <<"reset", "loop", "b">>,
   <<"bad", "reset", "b", "loop">>, <<"boot", "reset", "bad", "loop">>,
   <<"reset", "a", "other">>}

\* What the simulator may write: an equal, a shorter and a different trace,
\* and traces with junk, without a loop, going on after it, and empty.
MCTraces ==
  {<<"reset", "a", "loop">>, <<"reset", "loop">>, <<"reset", "b", "loop">>,
   <<"reset", "junk", "loop">>, <<"reset", "a">>, <<"reset", "loop", "b">>, << >>}

\* Sections that touch, overlap, contain each other, fill a memory, are empty
\* at its end, cross it or lie outside; without content, not loaded, cut off.
Section(address, size) ==
  [alloc |-> TRUE, bits |-> TRUE, inside |-> TRUE, address |-> address, size |-> size]
MCHeaders ==
  {Section(a, n) : a \in 0..4, n \in 0..2}
    \union {[Section(a, 2) EXCEPT !.bits = FALSE] : a \in {1, 4}}
    \union {[Section(9, 1) EXCEPT !.alloc = FALSE], [Section(0, 1) EXCEPT !.inside = FALSE]}

MCConfigurations == <<"baseline", "cached">>

MCInit ==
  /\ Init /\ Runner!Init /\ Images!Init /\ Synth!Init
  /\ tool \in {"rand_gen", "lockstep", "soc_image", "synth"}
  /\ tool # "rand_gen" => mode = "default"
  /\ tool # "lockstep" => spikeLog = <<"reset", "loop", "b">> /\ trace = << >>
  /\ tool # "soc_image" => elf = << >>

RandGenRuns ==
  tool = "rand_gen" /\ Next /\ UNCHANGED <<tool, runnerVars, imageVars, synthVars>>
LockstepRuns ==
  tool = "lockstep" /\ Runner!Next /\ UNCHANGED <<tool, vars, imageVars, synthVars>>
ImageRuns ==
  tool = "soc_image" /\ Images!Next /\ UNCHANGED <<tool, vars, runnerVars, synthVars>>
SynthRuns ==
  tool = "synth" /\ Synth!Next /\ UNCHANGED <<tool, vars, runnerVars, imageVars>>

\* The fairness of the two specifications, for the tool that runs.
MCSpec ==
  /\ MCInit
  /\ [][RandGenRuns \/ LockstepRuns \/ ImageRuns \/ SynthRuns]_
          <<tool, vars, runnerVars, imageVars, synthVars>>
  /\ WF_vars(tool = "rand_gen" /\ Next)
  /\ WF_runnerVars(tool = "lockstep" /\ Runner!Runner)
  /\ WF_runnerVars(tool = "lockstep" /\ Runner!DeadlinePasses)

-----------------------------------------------------------------------------
\* Every random program gets to its terminal self-loop (RandomProgram), and
\* every run of lockstep.py ends with a verdict, for nothing its runner does
\* waits for a child (Lockstep).
ToolsTerminate ==
  /\ tool = "rand_gen" => ReachesTheLoop
  /\ tool = "lockstep" => Runner!LockstepDecides /\ []Runner!NobodyWaits
=============================================================================
