---------------------------- MODULE SynthReports ----------------------------
(***************************************************************************)
(* synthesis/run_synth.py routes every configuration of the core from one   *)
(* staged copy of the RTL and publishes the reports as one directory;       *)
(* synthesis/summarize_reports.py turns the directory into the rows that    *)
(* results.py collect-synthesis stores.  The two are separate processes,    *)
(* commits fall between their steps, Vivado fails and processes die.        *)
(*                                                                         *)
(* A report is the run it comes from with the commit that run recorded and  *)
(* the one whose RTL it staged; its SHA-256 stands for it.                 *)
(***************************************************************************)
EXTENDS Integers, Sequences, SequencesExt

CONSTANTS None,
          Configurations,                   \* in the order they are routed
          MaxCommits, MaxRuns, MaxFaults    \* bounds of the exploration

VARIABLES head,       \* HEAD, the number of commits
          reports,    \* the report directory: manifest and report of each configuration
          runs,       \* the runs so far
          synth,      \* the run of run_synth.py
          summary,    \* the run of summarize_reports.py
          rows,       \* the rows it has written last, or None
          faults
vars == <<head, reports, runs, synth, summary, rows, faults>>

Names == Range(Configurations)
Idle == [step |-> "idle"]
Absent == [manifest |-> None, report |-> None]
Nothing == [c \in Names |-> Absent]

Commit ==
  /\ head < MaxCommits
  /\ head' = head + 1
  /\ UNCHANGED <<reports, runs, synth, summary, rows, faults>>

(***************************************************************************)
(* run_synth.py.                                                           *)
(***************************************************************************)
source_identity ==
  /\ synth = Idle /\ runs < MaxRuns
  /\ runs' = runs + 1
  /\ synth' = [step |-> "stage", source |-> head]
  /\ UNCHANGED <<head, reports, summary, rows, faults>>

create_stage ==
  /\ synth.step = "stage"
  /\ synth' = [step |-> "route", left |-> Configurations, output |-> Nothing,
               report |-> [run |-> runs, source |-> synth.source, rtl |-> head]]
  /\ UNCHANGED <<head, reports, runs, summary, rows, faults>>

Routed == [manifest |-> [source |-> synth.report.source, sha |-> synth.report],
           report |-> synth.report]

\* Fault: every configuration is published as soon as it is routed.
PublishesAtOnce ==
  /\ synth.step = "route" /\ synth.left # << >>
  /\ reports' = [reports EXCEPT ![Head(synth.left)] = Routed]
  /\ synth' = [synth EXCEPT !.left = Tail(@), !.output[Head(synth.left)] = Routed]
  /\ UNCHANGED <<head, runs, summary, rows, faults>>

(* The next configuration, its reports and its manifest.                    *)
run_configuration ==
  /\ synth.step = "route" /\ synth.left # << >>
  /\ synth' = [synth EXCEPT !.left = Tail(@), !.output[Head(synth.left)] = Routed]
  /\ UNCHANGED <<head, reports, runs, summary, rows, faults>>

(* A report directory that changes under a running summary is noted in it   *)
(* (history).                                                              *)
Overlaps == summary' = IF summary = Idle THEN Idle ELSE [summary EXCEPT !.overlapped = TRUE]

(* replace_report_directory: rmtree, one file at a time and in any order,   *)
(* and the rename.                                                         *)
RemoveReports ==
  /\ synth.step = "route" /\ synth.left = << >>
  /\ \E c \in Names :
       \/ reports[c].manifest # None /\ reports' = [reports EXCEPT ![c].manifest = None]
       \/ reports[c].report # None /\ reports' = [reports EXCEPT ![c].report = None]
  /\ Overlaps
  /\ UNCHANGED <<head, runs, synth, rows, faults>>

replace_report_directory ==
  /\ synth.step = "route" /\ synth.left = << >>
  /\ reports = Nothing
  /\ reports' = synth.output
  /\ synth' = Idle
  /\ Overlaps
  /\ UNCHANGED <<head, runs, rows, faults>>

(* Vivado fails or times out, or the process dies; what it had is gone.     *)
SynthesisFails ==
  /\ synth # Idle /\ faults < MaxFaults
  /\ faults' = faults + 1
  /\ synth' = Idle
  /\ UNCHANGED <<head, reports, runs, summary, rows>>

(***************************************************************************)
(* summarize_reports.py, collect_rows.  Without an exception at the first   *)
(* record that does not fit, it ends with its rows.                        *)
(***************************************************************************)
SummaryFails == summary' = Idle /\ UNCHANGED rows

collect_rows ==
  /\ summary = Idle
  /\ \A c \in Names : reports[c] # Absent
  /\ summary' = [step |-> "manifests", left |-> Configurations, overlapped |-> FALSE,
                 manifests |-> [c \in Names |-> None]]
  /\ UNCHANGED <<head, reports, runs, synth, rows, faults>>

Verified(r) == None \notin {r.manifest, r.report} /\ r.manifest.sha = r.report

load_manifest ==
  /\ summary.step = "manifests" /\ summary.left # << >>
  /\ LET c == Head(summary.left) IN
     \/ /\ Verified(reports[c])
        /\ summary' = [summary EXCEPT !.left = Tail(@), !.manifests[c] = reports[c].manifest]
        /\ UNCHANGED rows
     \/ ~Verified(reports[c]) /\ SummaryFails
  /\ UNCHANGED <<head, reports, runs, synth, faults>>

(* The manifests must agree on where they come from. *)
CheckProvenance ==
  /\ summary.step = "manifests" /\ summary.left = << >>
  /\ \/ /\ \A c, d \in Names : summary.manifests[c].source = summary.manifests[d].source
        /\ summary' = [step |-> "reports", left |-> Configurations,
                       overlapped |-> summary.overlapped, manifests |-> summary.manifests,
                       numbers |-> [c \in Names |-> None]]
        /\ UNCHANGED rows
     \/ /\ \E c, d \in Names : summary.manifests[c].source # summary.manifests[d].source
        /\ SummaryFails
  /\ UNCHANGED <<head, reports, runs, synth, faults>>

(* parse_utilization and parse_wns read the reports again. *)
ReadReport ==
  /\ summary.step = "reports" /\ summary.left # << >>
  /\ LET c == Head(summary.left) IN
     \/ /\ reports[c].report # None
        /\ summary' = [summary EXCEPT !.left = Tail(@), !.numbers[c] = reports[c].report]
        /\ UNCHANGED rows
     \/ reports[c].report = None /\ SummaryFails
  /\ UNCHANGED <<head, reports, runs, synth, faults>>

(* Every row has the provenance of the first manifest. *)
csv_summary ==
  /\ summary.step = "reports" /\ summary.left = << >>
  /\ rows' = [overlapped |-> summary.overlapped,
              source |-> summary.manifests[Configurations[1]].source,
              sha |-> [c \in Names |-> summary.manifests[c].sha],
              numbers |-> summary.numbers]
  /\ summary' = Idle
  /\ UNCHANGED <<head, reports, runs, synth, faults>>

Init ==
  /\ head = 1 /\ runs = 0 /\ faults = 0
  /\ reports = Nothing
  /\ synth = Idle /\ summary = Idle /\ rows = None

Synthesis == \/ source_identity \/ create_stage \/ run_configuration \/ RemoveReports
             \/ replace_report_directory \/ SynthesisFails
Summary == collect_rows \/ load_manifest \/ CheckProvenance \/ ReadReport \/ csv_summary

Next == Commit \/ Synthesis \/ Summary

Spec == Init /\ [][Next]_vars

(***************************************************************************)
(* Properties.                                                             *)
(***************************************************************************)
(* The rows name the commit every hashed report was recorded for.  Unless   *)
(* the directory changed while it was read, their numbers are those of the  *)
(* hashed reports, from one run and one RTL, whatever failed or died        *)
(* before: what is left of an interrupted replacement is never taken for a  *)
(* set of reports, and two runs are never mixed.                           *)
SummaryIsOfOneRun ==
  rows # None =>
    /\ \A c \in Names : rows.sha[c].source = rows.source
    /\ ~rows.overlapped =>
         /\ rows.numbers = rows.sha
         /\ \A c, d \in Names : /\ rows.sha[c].run = rows.sha[d].run
                                /\ rows.sha[c].rtl = rows.sha[d].rtl
=============================================================================
