------------------------------- MODULE Tools -------------------------------
(***************************************************************************)
(* Four tools that share nothing: the random programs (RandomProgram), the  *)
(* runner that compares two machines on them (Lockstep), the conversion of  *)
(* an ELF file to memory images (SocImage) and the synthesis reports        *)
(* (SynthReports).                                                         *)
(***************************************************************************)
EXTENDS RandomProgram

CONSTANTS
  SpikeLogs, Traces,                                       \* Lockstep
  Headers, MaxSections, IMEM_LIMIT, DMEM_BASE, DMEM_LIMIT, \* SocImage
  None, Configurations, MaxCommits, MaxRuns, MaxFaults     \* SynthReports

VARIABLES
  pc, verdict, spikeLog, written, trace, spike, sim, parser, seen, simTrace,
  byUs, expired, failure, spikeFailed,
  elf, step, at, sections, ranges, image,
  head, reports, runs, synth, summary, rows, faults

Runner == INSTANCE Lockstep WITH rtl <- simTrace
Images == INSTANCE SocImage
Synth == INSTANCE SynthReports

runnerVars ==
  <<pc, verdict, spikeLog, written, trace, spike, sim, parser, seen, simTrace,
    byUs, expired, failure, spikeFailed>>
imageVars == <<elf, step, at, sections, ranges, image>>
synthVars == <<head, reports, runs, synth, summary, rows, faults>>

ASSUME HeadersAssumption == Headers \subseteq Images!HeaderFields
ASSUME MapAssumption ==
  /\ {IMEM_LIMIT, DMEM_BASE, DMEM_LIMIT, MaxSections} \subseteq Nat
  /\ IMEM_LIMIT <= DMEM_BASE /\ DMEM_BASE <= DMEM_LIMIT

ASSUME LogsAssumption ==
  \A log \in SpikeLogs : log \in Seq({log[i] : i \in DOMAIN log})

\* A report, and the manifest that records it.
Reports == [run : Nat, source : Nat, rtl : Nat]
Manifests == [source : Nat, sha : Reports]

ASSUME ReportsAssumption ==
  /\ Configurations \in Seq({Configurations[i] : i \in DOMAIN Configurations})
  /\ None \notin Reports \cup Manifests

-----------------------------------------------------------------------------
(* The properties of the tools, under the names they have there.           *)

\* The printed verdict is the truth about the two streams (Lockstep).
VerdictIsTrue == Runner!VerdictIsTrue

\* No child is left behind (Lockstep).
NoChildOutlives == Runner!NoChildOutlives

\* The images are the program, and nothing else is refused (SocImage).
ImagesAreExact == Images!ImagesAreExact

\* A summary is of one run of the synthesis (SynthReports).
SummaryIsOfOneRun == Synth!SummaryIsOfOneRun
=============================================================================
