------------------------------ MODULE Evidence ------------------------------
(***************************************************************************)
(* The measured results this repository publishes: tools/verification.py    *)
(* writes a receipt, tools/results.py collects a result set and publishes   *)
(* it under results/, tools/render_portfolio.py renders the documents from  *)
(* it, and tools/evidence_check.py (a step of every verification run)       *)
(* accepts or refuses the whole.  The developer edits and commits between   *)
(* any two steps of these tools, and a tool may be killed at any of them.   *)
(*                                                                         *)
(* Contents are version numbers: of the RTL, the testbench, the harness     *)
(* tests and the pinned tool versions.  A SHA-256 stands for the contents   *)
(* it was taken of.                                                        *)
(***************************************************************************)
EXTENDS Integers, Sequences, FiniteSets, SequencesExt

CONSTANTS Editable,    \* the parts of the tree the developer changes
          None,        \* no value: an absent file, a finished tool
          Docs,        \* the generated documents, in the order they are written
          MaxCommits, MaxEdits, MaxFaults      \* bounds of the exploration

Parts == {"rtl", "tb", "harness", "pins"}
Versions(p) == IF p = "rtl" THEN 0..2 ELSE 0..1
(* sv_property_counts: a change of the RTL may leave the counts as they are. *)
sv_property_counts(rtl) == rtl \div 2

(* The records of a result set, one set of records for each kind of file.   *)
Tree == [Parts -> Nat]
Receipt == [tooling : Nat, rtl : Nat, harness : Nat, covers : Nat,
            ran : SUBSET [tree : Tree, head : Nat]]
ToolVersions == [tooling : Nat, rtl : Nat, pins : Nat]
Rows == [tooling : Nat, rtl : Nat]
Manifest == [tooling : Nat, rtl : Nat, covers : Nat,
             sha : [verification : Receipt, tools : ToolVersions, synthesis : Rows]]
ResultSet == [verification : Receipt, tools : ToolVersions, synthesis : Rows,
              manifest : Manifest]

ASSUME NoneAssumption ==
  None \notin Receipt \union ToolVersions \union Rows \union ResultSet
             \union {"verify", "collect", "render"}
ASSUME PartsAssumption == Editable \subseteq Parts
ASSUME DocsAssumption == Docs \in Seq(STRING) \ {<<>>}

VARIABLES history,     \* the commits' contents, the last one is HEAD
          work,        \* the contents of the working tree
          run,         \* the run directory: receipt, tool versions, synthesis rows
          results,     \* results/: a result set or None
          backup,      \* what publish_directory moved aside, or None
          docs,        \* what the generated blocks of each document say
          saved,       \* results and documents as committed at HEAD
          job,         \* the tool that is running and what it holds
          failed,      \* history: a command of the last verification run failed
          collected,   \* history: the sets collect_open has published
          edits, faults
vars == <<history, work, run, results, backup, docs, saved, job, failed, collected,
          edits, faults>>

HEAD == Len(history)
Clean == work = Last(history) /\ results = saved.results /\ docs = saved.docs
NoJob == [tool |-> None]

(* git log -1 -- rtl *)
RtlCommit ==
  CHOOSE c \in 1..HEAD :
    /\ c = 1 \/ history[c].rtl # history[c - 1].rtl
    /\ \A k \in c + 1 .. HEAD : history[k].rtl = history[k - 1].rtl

\* Fault: only the commits are compared, not the working tree.
StateAtHead(c) ==
  IF \A p \in {"rtl", "tb"} : history[HEAD][p] = history[c][p]
  THEN "current" ELSE "historical"

(* Current: rtl/ and sim/cpu_tb.cpp are unmodified and equal to the commit. *)
evidence_state(c) ==
  IF \A p \in {"rtl", "tb"} : work[p] = history[c][p] /\ work[p] = history[HEAD][p]
  THEN "current" ELSE "historical"

(***************************************************************************)
(* Validation of a result set.                                             *)
(***************************************************************************)
\* Fault: historical sets are held to the counts of today.
CountsOfWorkTree(s) == [harness |-> work.harness, covers |-> sv_property_counts(work.rtl)]

(* The counts a set must show: of the recorded commits once it is           *)
(* historical, of the working tree while it is current.                    *)
result_source_counts(s) ==
  IF evidence_state(s.manifest.rtl) = "historical"
  THEN [harness |-> history[s.manifest.tooling].harness,
        covers |-> sv_property_counts(history[s.manifest.rtl].rtl)]
  ELSE [harness |-> work.harness, covers |-> sv_property_counts(work.rtl)]

(* collect_open writes the number of cover points the manifest expects as a *)
(* literal; it is the count of the first RTL.                              *)
cover_points == 0

\* Fault: the recorded hashes are not compared.
NoHashes(s, counts) == s.manifest.covers = counts.covers

validate_manifest(s, counts) ==
  /\ s.manifest.sha = [verification |-> s.verification, tools |-> s.tools,
                       synthesis |-> s.synthesis]
  /\ s.manifest.covers = counts.covers
validate_verification(v, counts) == v.harness = counts.harness /\ v.covers = counts.covers
validate_tools(t) == t.pins = work.pins

(* One tooling and one RTL commit; the synthesis rows may lag behind.       *)
validate_provenance(s) ==
  /\ \A r \in {s.verification, s.tools} :
       r.tooling = s.manifest.tooling /\ r.rtl = s.manifest.rtl
  /\ s.synthesis.rtl <= s.manifest.rtl

validate_result_set(s) ==
  /\ s # None
  /\ validate_manifest(s, result_source_counts(s))
  /\ validate_verification(s.verification, result_source_counts(s))
  /\ validate_tools(s.tools)
  /\ validate_provenance(s)

(***************************************************************************)
(* Rendering and the evidence check.                                       *)
(***************************************************************************)
render_documents(s) ==
  [d \in Range(Docs) |-> [set |-> s.manifest,
                          state |-> evidence_state(s.manifest.rtl),
                          synthesis |-> evidence_state(s.synthesis.rtl)]]

check_documents == validate_result_set(results) /\ docs = render_documents(results)

(* Without result records the documents may only claim a current state, and *)
(* docs/coverage.md, whose total no tool rewrites, must fit the RTL.        *)
check_repository_evidence ==
  IF results = None
  THEN /\ sv_property_counts(work.rtl) = cover_points
       /\ \A d \in Range(Docs) : docs[d].state = "current" /\ docs[d].synthesis = "current"
  ELSE check_documents

(***************************************************************************)
(* The developer.                                                          *)
(***************************************************************************)
Edit ==
  /\ edits < MaxEdits
  /\ \E p \in Editable : \E v \in Versions(p) \ {work[p]} : work' = [work EXCEPT ![p] = v]
  /\ edits' = edits + 1
  /\ UNCHANGED <<history, run, results, backup, docs, saved, job, failed, collected, faults>>

(* A commit of the sources, or of everything once the check accepts the set. *)
Commit ==
  /\ HEAD < MaxCommits
  /\ \/ work # Last(history) /\ saved' = saved
     \/ /\ ~Clean /\ results # None /\ check_repository_evidence
        /\ saved' = [results |-> results, docs |-> docs]
  /\ history' = Append(history, work)
  /\ UNCHANGED <<work, run, results, backup, docs, job, failed, collected, edits, faults>>

(* git checkout -- results: the set committed at HEAD comes back. *)
RestoreResults ==
  /\ job = NoJob
  /\ ~validate_result_set(results)
  /\ results' = saved.results
  /\ backup' = None
  /\ UNCHANGED <<history, work, run, docs, saved, job, failed, collected, edits, faults>>

(* results.py tool-versions and results.py collect-synthesis; the latter    *)
(* can be pointed at results/ itself.                                      *)
write_tool_versions ==
  /\ job = NoJob
  /\ run' = [run EXCEPT !.tools = [tooling |-> HEAD, rtl |-> RtlCommit, pins |-> work.pins]]
  /\ UNCHANGED <<history, work, results, backup, docs, saved, job, failed, collected,
                 edits, faults>>

collect_synthesis ==
  /\ job = NoJob
  /\ LET rows == [tooling |-> HEAD, rtl |-> RtlCommit]
     IN  \/ run' = [run EXCEPT !.synthesis = rows] /\ UNCHANGED <<results, faults>>
         \/ /\ results # None /\ results.synthesis # rows /\ faults < MaxFaults
            /\ results' = [results EXCEPT !.synthesis = rows]
            /\ faults' = faults + 1
            /\ UNCHANGED run
  /\ UNCHANGED <<history, work, backup, docs, saved, job, failed, collected, edits>>

(***************************************************************************)
(* tools/verification.py run --profile full --receipt.                     *)
(***************************************************************************)
\* Fault: a new run leaves the old receipt in place.
KeepsOldReceipt ==
  /\ job = NoJob
  /\ job' = [tool |-> "verify", step |-> "fast", ran |-> {}]
  /\ failed' = FALSE
  /\ UNCHANGED <<history, work, run, results, backup, docs, saved, collected, edits, faults>>

StartVerification ==
  /\ job = NoJob
  /\ run' = [run EXCEPT !.receipt = None]
  /\ job' = [tool |-> "verify", step |-> "fast", ran |-> {}]
  /\ failed' = FALSE
  /\ UNCHANGED <<history, work, results, backup, docs, saved, collected, edits, faults>>

(* One command; the first one, make check, includes the evidence check.     *)
(* The run stops at the first that fails, times out or cannot be started.   *)
run_commands ==
  /\ job.tool = "verify" /\ job.step \in {"fast", "rest"}
  /\ \/ /\ job.step = "fast" => check_repository_evidence
        /\ job' = [job EXCEPT !.step = IF @ = "fast" THEN "rest" ELSE "receipt",
                              !.ran = @ \union {[tree |-> work, head |-> HEAD]}]
        /\ UNCHANGED failed
     \/ job' = NoJob /\ failed' = TRUE
  /\ UNCHANGED <<history, work, run, results, backup, docs, saved, collected, edits, faults>>

(* The receipt names HEAD as it is now and counts what the tree holds now.  *)
(* ran is history: the trees the commands ran on.                          *)
write_verification_receipt ==
  /\ job.tool = "verify" /\ job.step = "receipt"
  /\ run' = [run EXCEPT !.receipt =
               [tooling |-> HEAD, rtl |-> RtlCommit, harness |-> work.harness,
                covers |-> sv_property_counts(work.rtl), ran |-> job.ran]]
  /\ job' = NoJob
  /\ UNCHANGED <<history, work, results, backup, docs, saved, failed, collected, edits, faults>>

(***************************************************************************)
(* results.py collect-open.                                                *)
(***************************************************************************)
Staged ==
  [verification |-> run.receipt, tools |-> run.tools, synthesis |-> run.synthesis,
   manifest |-> [tooling |-> HEAD, rtl |-> run.receipt.rtl, covers |-> cover_points,
                 sha |-> [verification |-> run.receipt, tools |-> run.tools,
                          synthesis |-> run.synthesis]]]

(* Everything up to the publication happens in a staging directory.  The    *)
(* format document is taken from results/, which therefore must be there.   *)
collect_open ==
  /\ job = NoJob
  /\ Clean
  /\ results # None
  /\ None \notin {run.receipt, run.tools, run.synthesis}
  /\ run.receipt.tooling = HEAD /\ run.tools.tooling = HEAD
  /\ run.tools.rtl = run.receipt.rtl
  /\ validate_result_set(Staged)
  /\ job' = [tool |-> "collect", step |-> "aside", stage |-> Staged]
  /\ UNCHANGED <<history, work, run, results, backup, docs, saved, failed, collected,
                 edits, faults>>

\* Fault: the old set is removed before the new one is moved in.
DeleteFirst ==
  /\ job.tool = "collect" /\ job.step = "aside"
  /\ results' = None
  /\ job' = [job EXCEPT !.step = "replace"]
  /\ UNCHANGED <<history, work, run, backup, docs, saved, failed, collected, edits, faults>>

(* publish_directory, one file-system operation at a time. *)
MoveAside ==
  /\ job.tool = "collect" /\ job.step = "aside"
  /\ backup' = results
  /\ results' = None
  /\ job' = [job EXCEPT !.step = "replace"]
  /\ UNCHANGED <<history, work, run, docs, saved, failed, collected, edits, faults>>

(* staged.replace(output), or its exception and the rollback. *)
Replace ==
  /\ job.tool = "collect" /\ job.step = "replace"
  /\ \/ /\ results' = job.stage
        /\ collected' = collected \union {job.stage}
        /\ job' = [job EXCEPT !.step = "drop"]
        /\ UNCHANGED <<backup, faults>>
     \/ /\ faults < MaxFaults /\ faults' = faults + 1
        /\ results' = backup /\ backup' = None
        /\ job' = NoJob
        /\ UNCHANGED collected
  /\ UNCHANGED <<history, work, run, docs, saved, failed, edits>>

DropBackup ==
  /\ job.tool = "collect" /\ job.step = "drop"
  /\ backup' = None
  /\ job' = NoJob
  /\ UNCHANGED <<history, work, run, results, docs, saved, failed, collected, edits, faults>>

(***************************************************************************)
(* render_portfolio.py --write: every document is rendered and staged, then *)
(* one after the other is replaced.                                        *)
(***************************************************************************)
write_documents ==
  /\ job = NoJob
  /\ validate_result_set(results)
  /\ docs # render_documents(results)
  /\ job' = [tool |-> "render", left |-> Docs, rendered |-> render_documents(results)]
  /\ UNCHANGED <<history, work, run, results, backup, docs, saved, failed, collected,
                 edits, faults>>

ReplaceDocument ==
  /\ job.tool = "render"
  /\ docs' = [docs EXCEPT ![Head(job.left)] = job.rendered[Head(job.left)]]
  /\ job' = IF Len(job.left) = 1 THEN NoJob ELSE [job EXCEPT !.left = Tail(@)]
  /\ UNCHANGED <<history, work, run, results, backup, saved, failed, collected, edits, faults>>

(* The tool is killed; what it holds in memory and its staging are gone.    *)
Killed ==
  /\ job # NoJob
  /\ faults < MaxFaults
  /\ faults' = faults + 1
  /\ job' = NoJob
  /\ UNCHANGED <<history, work, run, results, backup, docs, saved, failed, collected, edits>>

(***************************************************************************)
(* The repository starts with a set measured at its first commit, and       *)
(* documents rendered from it.                                             *)
(***************************************************************************)
FirstTree == [p \in Parts |-> 0]
FirstRecords ==
  [verification |-> [tooling |-> 1, rtl |-> 1, harness |-> 0, covers |-> 0,
                     ran |-> {[tree |-> FirstTree, head |-> 1]}],
   tools |-> [tooling |-> 1, rtl |-> 1, pins |-> 0],
   synthesis |-> [tooling |-> 1, rtl |-> 1]]
FirstSet ==
  [verification |-> FirstRecords.verification, tools |-> FirstRecords.tools,
   synthesis |-> FirstRecords.synthesis,
   manifest |-> [tooling |-> 1, rtl |-> 1, covers |-> cover_points, sha |-> FirstRecords]]

Init ==
  /\ history = <<FirstTree>> /\ work = FirstTree
  /\ run = [receipt |-> None, tools |-> None, synthesis |-> None]
  /\ results = FirstSet /\ backup = None
  /\ docs = [d \in Range(Docs) |-> [set |-> FirstSet.manifest, state |-> "current",
                                    synthesis |-> "current"]]
  /\ saved = [results |-> results, docs |-> docs]
  /\ job = NoJob /\ failed = FALSE /\ collected = {FirstSet}
  /\ edits = 0 /\ faults = 0

Verification == StartVerification \/ run_commands \/ write_verification_receipt
Collection == collect_open \/ MoveAside \/ Replace \/ DropBackup
Rendering == write_documents \/ ReplaceDocument
Developer == Edit \/ Commit \/ RestoreResults \/ write_tool_versions \/ collect_synthesis

Next == Developer \/ Verification \/ Collection \/ Rendering \/ Killed

(* A tool that was started goes on, and the developer comes back to the     *)
(* rendering and to restoring a broken set whenever that is possible.       *)
Fairness ==
  /\ WF_vars(run_commands \/ write_verification_receipt)
  /\ WF_vars(MoveAside \/ Replace \/ DropBackup)
  /\ WF_vars(ReplaceDocument)
  /\ SF_vars(write_documents) /\ SF_vars(RestoreResults)

Spec == Init /\ [][Next]_vars /\ Fairness

(***************************************************************************)
(* Properties.                                                             *)
(***************************************************************************)
(* The commands of the run behind set s all ran on the clean tree of the    *)
(* commit it names.                                                        *)
Undisturbed(s) ==
  \A r \in s.verification.ran : r = [tree |-> history[s.manifest.tooling],
                                     head |-> s.manifest.tooling]

(* A receipt is the proof of the last run (verification.py run): while one  *)
(* is in the run directory, no command of a run has failed since it was     *)
(* written.                                                                *)
ReceiptIsOfThisRun == run.receipt # None => ~failed /\ job.tool # "verify"

(* results.py publishes by moving whole directories: at every moment, and   *)
(* after a failure or a kill at any step, a whole set is in place, or the   *)
(* one that was is whole beside it.                                        *)
SetNeverLost == {results, backup} # {None}

(* What evidence_check accepts is a set that collect_open published as a    *)
(* whole: no file of it was replaced since.                                *)
AcceptedSetIsWhole ==
  check_repository_evidence /\ results # None => results \in collected

(* When evidence_check accepts a document that calls the evidence current,  *)
(* the RTL in the working tree is the RTL the recorded commands ran on,     *)
(* whatever was edited, committed, reverted, half rendered or republished   *)
(* in between.                                                             *)
CurrentMeansMeasured ==
  /\ check_repository_evidence
  /\ results # None
  /\ Undisturbed(results)
  => \A d \in Range(Docs) :
       docs[d].state = "current" =>
         \A r \in results.verification.ran : r.tree.rtl = work.rtl

(* The evidence check is the first step of the run that would produce new   *)
(* evidence.  What it refuses, rendering or restoring the committed set     *)
(* mends, after edits, commits, kills and failures; with two exceptions,    *)
(* which no new measurement can end: a moved pin, and other harness tests   *)
(* while the RTL and the testbench are those of the set.                   *)
LockedOut ==
  /\ results # None
  /\ \/ results.tools.pins # work.pins
     \/ /\ evidence_state(results.manifest.rtl) = "current"
        /\ results.verification.harness # work.harness
EvidenceRecovers == []<>(check_repository_evidence \/ LockedOut)

(* results/FORMAT.md: the RTL commit identifies the last commit affecting   *)
(* RTL or the testbench (of those up to the tooling commit).               *)
RtlCommitIdentifiesSources ==
  results # None =>
    \A p \in {"rtl", "tb"} : \A k \in results.manifest.rtl .. results.manifest.tooling :
      history[k][p] = history[results.manifest.rtl][p]
=============================================================================
