-------------------------- MODULE Evidence_proofs --------------------------
(***************************************************************************)
(* Results are never lost, never mixed and never called current without a   *)
(* measurement: for any number of commits, edits, failures and kills, any   *)
(* set of documents and whichever parts of the tree are edited.            *)
(*                                                                         *)
(* The four properties are four layers of one invariant, each of which the  *)
(* next relies on: the state of the tool that runs (JobInv), the set that   *)
(* lies somewhere at every moment (KeptInv), the set each published set     *)
(* goes back to when its synthesis rows are put back (WholeInv), and the    *)
(* commits a set names, read in a history that only grows (TraceInv).       *)
(***************************************************************************)
EXTENDS Evidence, SequenceTheorems, TLAPS

Said == [set : Manifest, state : {"current", "historical"},
         synthesis : {"current", "historical"}]
Documents == [Range(Docs) -> Said]

Verifying == [tool : {"verify"}, step : {"fast", "rest", "receipt"},
              ran : SUBSET [tree : Tree, head : Nat]]
Collecting == [tool : {"collect"}, step : {"aside", "replace", "drop"}, stage : ResultSet]
Rendered == [tool : {"render"}, left : Seq(STRING) \ {<<>>}, rendered : Documents]

Job == {NoJob} \union Verifying \union Collecting \union Rendered

TypeInv ==
  /\ history \in Seq(Tree) /\ HEAD \in Nat \ {0}
  /\ work \in Tree
  /\ run \in [receipt : Receipt \union {None}, tools : ToolVersions \union {None},
              synthesis : Rows \union {None}]
  /\ results \in ResultSet \union {None}
  /\ backup \in ResultSet \union {None}
  /\ docs \in Documents
  /\ saved \in [results : ResultSet, docs : Documents]
  /\ job \in Job
  /\ failed \in BOOLEAN
  /\ collected \subseteq ResultSet
  /\ edits \in Nat /\ faults \in Nat

(* While commands run there is no receipt, and none of them has failed.     *)
JobInv ==
  /\ ReceiptIsOfThisRun
  /\ job.tool = "verify" => ~failed

(* Where the old and the new set are at each step of the publication.       *)
KeptInv ==
  /\ SetNeverLost
  /\ job.tool = "collect" =>
       /\ job.step = "aside" => results # None
       /\ job.step = "replace" => backup # None
       /\ job.step = "drop" => results # None

(* Rows can be replaced in a published set, and replaced again; nothing     *)
(* else can.                                                               *)
Repaired(s) == [s EXCEPT !.synthesis = s.manifest.sha.synthesis]
Descends(s) == s # None => Repaired(s) \in collected

WholeInv ==
  /\ Descends(results) /\ Descends(backup) /\ Descends(saved.results)
  /\ job.tool = "collect" => job.stage.manifest.sha.synthesis = job.stage.synthesis

(* A record names commits of the history, between which the RTL is one.     *)
Traced(r) ==
  /\ r.tooling \in 1..HEAD /\ r.rtl \in 1..HEAD
  /\ history[r.tooling].rtl = history[r.rtl].rtl

(* What git log -1 looks for, and finds.                                   *)
LastChange(c) ==
  /\ c = 1 \/ history[c].rtl # history[c - 1].rtl
  /\ \A k \in c + 1 .. HEAD : history[k].rtl = history[k - 1].rtl

TraceInv ==
  /\ \E c \in 1..HEAD : LastChange(c)
  /\ \A c \in 1..HEAD : LastChange(c) => history[c].rtl = history[HEAD].rtl
  /\ run.receipt # None => Traced(run.receipt)
  /\ job.tool = "collect" => Traced(job.stage.manifest)
  /\ \A s \in collected : Traced(s.manifest)

IInv == TypeInv /\ JobInv /\ KeptInv /\ WholeInv /\ TraceInv
-----------------------------------------------------------------------------
(***************************************************************************)
(* The operators, on the values they are given.                            *)
(***************************************************************************)
(* The tools that may run are told apart by what job holds.                 *)
LEMMA Jobs ==
  ASSUME NEW j \in Job
  PROVE  /\ j = NoJob <=> j.tool \notin {"verify", "collect", "render"}
         /\ j.tool = "verify" <=> j \in Verifying
         /\ j.tool = "collect" <=> j \in Collecting
         /\ j.tool = "render" <=> j \in Rendered
<1>1. None \notin {"verify", "collect", "render"}
  BY NoneAssumption
<1>2. QED BY <1>1 DEF Job, NoJob, Verifying, Collecting, Rendered

(* No tool runs: none of the conditions on one that does can hold.          *)
LEMMA NobodyRuns == NoJob.tool \notin {"verify", "collect", "render"}
BY NoneAssumption DEF NoJob

(* A tree is a version of each part.                                        *)
LEMMA Counts == \A v \in Nat : sv_property_counts(v) \in Nat
BY DEF sv_property_counts

(* git log finds a commit of the history, with the RTL of HEAD.             *)
LEMMA RtlCommitFound ==
  ASSUME TypeInv, TraceInv
  PROVE  RtlCommit \in 1..HEAD /\ history[RtlCommit].rtl = history[HEAD].rtl
<1>1. RtlCommit = CHOOSE c \in 1..HEAD : LastChange(c)
  BY DEF RtlCommit, LastChange
<1>2. PICK c \in 1..HEAD : LastChange(c)
  BY DEF TraceInv
<1>3. RtlCommit \in 1..HEAD /\ LastChange(RtlCommit)
  BY <1>1, <1>2
<1>4. QED BY <1>3 DEF TraceInv

(* Rendering fills every document.                                          *)
LEMMA RenderedType ==
  ASSUME NEW s \in ResultSet
  PROVE  render_documents(s) \in Documents
<1>1. \A c : evidence_state(c) \in {"current", "historical"}
  BY DEF evidence_state
<1>2. s.manifest \in Manifest
  BY DEF ResultSet
<1>3. QED BY <1>1, <1>2 DEF render_documents, Documents, Said

(* A staged set is a result set.                                            *)
LEMMA StagedType ==
  ASSUME TypeInv, None \notin {run.receipt, run.tools, run.synthesis}
  PROVE  Staged \in ResultSet
<1>1. /\ run.receipt \in Receipt /\ run.tools \in ToolVersions /\ run.synthesis \in Rows
      /\ HEAD \in Nat
  BY DEF TypeInv
<1>2. run.receipt.rtl \in Nat
  BY <1>1 DEF Receipt
<1>3. QED BY <1>1, <1>2 DEF Staged, ResultSet, Manifest, cover_points

-----------------------------------------------------------------------------
(* The first commit and its set.                                           *)
LEMMA FirstSetType == FirstSet \in ResultSet /\ FirstTree \in Tree
<1>1. FirstTree \in Tree
  BY DEF FirstTree, Tree
<1>2. FirstRecords.verification \in Receipt
  BY <1>1 DEF FirstRecords, Receipt
<1>3. FirstRecords.tools \in ToolVersions /\ FirstRecords.synthesis \in Rows
  BY DEF FirstRecords, ToolVersions, Rows
<1>4. FirstSet.manifest \in Manifest
  BY <1>2, <1>3 DEF FirstSet, FirstRecords, Manifest, cover_points
<1>5. QED BY <1>1, <1>2, <1>3, <1>4 DEF FirstSet, ResultSet

LEMMA InitInv == Init => IInv
<1> SUFFICES ASSUME Init PROVE IInv
  OBVIOUS
<1>1. HEAD = 1 /\ history[1] = FirstTree /\ history[HEAD] = FirstTree
  BY DEF Init, HEAD
<1>2. FirstSet \in ResultSet /\ FirstSet # None
  BY FirstSetType, NoneAssumption
<1>3. TypeInv
  <2>1. history \in Seq(Tree)
    BY FirstSetType DEF Init
  <2>2. docs \in Documents
    BY <1>2 DEF Init, Documents, Said, ResultSet
  <2>3. saved \in [results : ResultSet, docs : Documents]
    BY <1>2, <2>2 DEF Init
  <2>4. run \in [receipt : Receipt \union {None}, tools : ToolVersions \union {None},
                 synthesis : Rows \union {None}]
    BY DEF Init
  <2>5. HEAD \in Nat \ {0} /\ edits \in Nat /\ faults \in Nat
    BY <1>1 DEF Init
  <2>6. collected \subseteq ResultSet /\ results \in ResultSet
    BY <1>2 DEF Init
  <2>7. QED BY <2>1, <2>2, <2>3, <2>4, <2>5, <2>6, FirstSetType DEF Init, TypeInv, Job
<1>4. job.tool # "verify" /\ job.tool # "collect"
  BY NobodyRuns DEF Init
<1>5. JobInv
  BY <1>4 DEF Init, JobInv, ReceiptIsOfThisRun
<1>6. KeptInv
  BY <1>2, <1>4 DEF Init, KeptInv, SetNeverLost
<1>7. WholeInv
  <2>1. Repaired(FirstSet) = FirstSet
    BY <1>2 DEF Repaired, FirstSet
  <2>2. Descends(FirstSet)
    BY <2>1 DEF Descends, Init
  <2>3. QED BY <1>4, <2>2 DEF WholeInv, Init, Descends
<1>8. TraceInv
  <2>1. Traced(FirstSet.manifest)
    BY <1>1 DEF Traced, FirstSet
  <2>2. LastChange(1)
    BY <1>1 DEF LastChange
  <2>3. QED BY <1>1, <1>4, <2>1, <2>2 DEF TraceInv, Init
<1>9. QED BY <1>3, <1>5, <1>6, <1>7, <1>8 DEF IInv
-----------------------------------------------------------------------------
(***************************************************************************)
(* Types.                                                                  *)
(***************************************************************************)
(* What a tool notes of the commits it runs on.                             *)
LEMMA NotedCommits ==
  ASSUME IInv
  PROVE  HEAD \in Nat /\ RtlCommit \in Nat /\ work \in Tree
<1>1. TypeInv /\ TraceInv /\ HEAD \in Nat
  BY DEF IInv, TypeInv
<1>2. RtlCommit \in 1..HEAD
  BY <1>1, RtlCommitFound
<1>3. QED BY <1>1, <1>2 DEF TypeInv

(* collect-synthesis pointed at a published set changes its rows alone.     *)
LEMMA SynthesisReplaced ==
  ASSUME IInv, collect_synthesis
  PROVE  \/ results' = results
         \/ \E rows \in Rows : results # None /\ results \in ResultSet /\ results' \in ResultSet
                             /\ results' = [results EXCEPT !.synthesis = rows]
<1> DEFINE rows == [tooling |-> HEAD, rtl |-> RtlCommit]
<1>1. rows \in Rows
  BY NotedCommits DEF Rows
<1>2. CASE results # None /\ results' = [results EXCEPT !.synthesis = rows]
  <2>1. results \in ResultSet
    BY <1>2 DEF IInv, TypeInv
  <2>2. results' \in ResultSet
    BY <1>1, <1>2, <2>1 DEF ResultSet
  <2>3. QED BY <1>1, <1>2, <2>1, <2>2
<1>3. QED BY <1>1, <1>2 DEF collect_synthesis

(* What the developer does.                                                *)
LEMMA DeveloperType == IInv /\ Developer => TypeInv'
<1> SUFFICES ASSUME IInv, TypeInv, Developer PROVE TypeInv'
  BY DEF IInv
<1>1. CASE Edit
  <2>1. PICK p \in Editable : \E v \in Versions(p) : work' = [work EXCEPT ![p] = v]
    BY <1>1 DEF Edit
  <2>2. Versions(p) \subseteq Nat
    BY DEF Versions
  <2>3. work' \in Tree
    BY <2>1, <2>2, PartsAssumption DEF TypeInv, Tree
  <2>4. QED BY <1>1, <2>3 DEF Edit, TypeInv, HEAD, Job
<1>2. CASE Commit
  <2>1. history' \in Seq(Tree) /\ Len(history') = Len(history) + 1
    BY <1>2 DEF Commit, TypeInv
  <2>2. saved' \in [results : ResultSet, docs : Documents]
    BY <1>2 DEF Commit, TypeInv
  <2>3. HEAD' \in Nat \ {0}
    BY <2>1 DEF TypeInv, HEAD
  <2>4. QED BY <1>2, <2>1, <2>2, <2>3 DEF Commit, TypeInv
<1>3. CASE RestoreResults
  BY <1>3 DEF RestoreResults, TypeInv, HEAD, Job
<1>4. CASE write_tool_versions
  <2>1. RtlCommit \in Nat /\ work.pins \in Nat
    BY NotedCommits DEF Tree, Parts
  <2>2. [tooling |-> HEAD, rtl |-> RtlCommit, pins |-> work.pins] \in ToolVersions
    BY <2>1 DEF ToolVersions, TypeInv
  <2>3. QED BY <1>4, <2>2 DEF write_tool_versions, TypeInv, HEAD, Job
<1>5. CASE collect_synthesis
  <2> DEFINE rows == [tooling |-> HEAD, rtl |-> RtlCommit]
  <2>1. rows \in Rows
    BY NotedCommits DEF Rows
  <2>2. CASE run' = [run EXCEPT !.synthesis = rows] /\ UNCHANGED <<results, faults>>
    BY <1>5, <2>1, <2>2 DEF collect_synthesis, TypeInv, HEAD, Job
  <2>3. CASE results # None /\ results' = [results EXCEPT !.synthesis = rows]
             /\ faults' = faults + 1 /\ UNCHANGED run
    <3>1. results' \in ResultSet \union {None}
      BY <1>5, SynthesisReplaced DEF TypeInv
    <3>2. QED BY <1>5, <2>3, <3>1 DEF collect_synthesis, TypeInv, HEAD, Job
  <2>4. QED BY <1>5, <2>2, <2>3 DEF collect_synthesis
<1>6. QED BY <1>1, <1>2, <1>3, <1>4, <1>5 DEF Developer
(* The verification run.                                                   *)
LEMMA VerificationType == IInv /\ Verification => TypeInv'
<1> SUFFICES ASSUME IInv, TypeInv, Verification PROVE TypeInv'
  BY DEF IInv
<1>1. CASE StartVerification
  <2>1. job' \in Verifying
    BY <1>1 DEF StartVerification, Verifying
  <2>2. failed' \in BOOLEAN
    BY <1>1 DEF StartVerification
  <2>3. QED BY <1>1, <2>1, <2>2 DEF StartVerification, TypeInv, HEAD, Job
<1>2. CASE run_commands
  <2>1. job \in Verifying
    BY <1>2, Jobs DEF run_commands, TypeInv
  <2>2. [tree |-> work, head |-> HEAD] \in [tree : Tree, head : Nat]
    BY NotedCommits
  <2>3. job' \in {NoJob} \union Verifying
    <3>1. CASE job' = [job EXCEPT !.step = IF @ = "fast" THEN "rest" ELSE "receipt",
                                  !.ran = @ \union {[tree |-> work, head |-> HEAD]}]
      <4>1. job.ran \union {[tree |-> work, head |-> HEAD]} \in
              SUBSET [tree : Tree, head : Nat]
        BY <2>1, <2>2 DEF Verifying
      <4>2. job' \in Verifying
        BY <2>1, <3>1, <4>1 DEF Verifying
      <4>3. QED BY <4>2
    <3>2. QED BY <1>2, <3>1 DEF run_commands
  <2>4. failed' \in BOOLEAN
    BY <1>2 DEF run_commands, TypeInv
  <2>5. QED BY <1>2, <2>3, <2>4 DEF run_commands, TypeInv, HEAD, Job
<1>3. CASE write_verification_receipt
  <2>1. job \in Verifying
    BY <1>3, Jobs DEF TypeInv, write_verification_receipt
  <2>2. work.harness \in Nat /\ sv_property_counts(work.rtl) \in Nat
    BY NotedCommits, Counts DEF Tree, Parts
  <2>3. [tooling |-> HEAD, rtl |-> RtlCommit, harness |-> work.harness,
         covers |-> sv_property_counts(work.rtl), ran |-> job.ran] \in Receipt
    BY <2>1, <2>2, NotedCommits DEF Receipt, Verifying
  <2>4. QED BY <1>3, <2>3 DEF write_verification_receipt, TypeInv, HEAD, Job
<1>4. QED BY <1>1, <1>2, <1>3 DEF Verification

(* The collection.                                                         *)
LEMMA CollectionType == IInv /\ Collection => TypeInv'
<1> SUFFICES ASSUME IInv, TypeInv, Collection PROVE TypeInv'
  BY DEF IInv
<1>1. CASE collect_open
  <2>1. Staged \in ResultSet
    BY <1>1, StagedType DEF collect_open
  <2>2. job' \in Collecting
    BY <1>1, <2>1 DEF collect_open, Collecting
  <2>3. QED BY <1>1, <2>2 DEF collect_open, TypeInv, HEAD, Job
<1>2. CASE MoveAside
  <2>1. job \in Collecting
    BY <1>2, Jobs DEF MoveAside, TypeInv
  <2>2. job' \in Collecting
    BY <1>2, <2>1 DEF MoveAside, Collecting
  <2>3. QED BY <1>2, <2>2 DEF MoveAside, TypeInv, HEAD, Job
<1>3. CASE Replace
  <2>1. job \in Collecting /\ job.stage \in ResultSet
    BY <1>3, Jobs DEF Replace, TypeInv, Collecting
  <2>2. job' \in {NoJob} \union Collecting
    BY <1>3, <2>1 DEF Replace, Collecting
  <2>3. results' \in ResultSet \union {None} /\ collected' \subseteq ResultSet
    BY <1>3, <2>1 DEF Replace, TypeInv
  <2>4. backup' \in ResultSet \union {None} /\ faults' \in Nat
    BY <1>3 DEF Replace, TypeInv
  <2>5. QED BY <1>3, <2>2, <2>3, <2>4 DEF Replace, TypeInv, HEAD, Job
<1>4. CASE DropBackup
  BY <1>4 DEF DropBackup, TypeInv, HEAD, Job
<1>5. QED BY <1>1, <1>2, <1>3, <1>4 DEF Collection

(* The rendering, and a kill.                                              *)
LEMMA RenderingType == IInv /\ (Rendering \/ Killed) => TypeInv'
<1> SUFFICES ASSUME IInv, TypeInv, Rendering \/ Killed PROVE TypeInv'
  BY DEF IInv
<1>1. CASE write_documents
  <2>1. render_documents(results) \in Documents
    BY <1>1, RenderedType DEF write_documents, validate_result_set, TypeInv
  <2>2. job' \in Rendered
    BY <1>1, <2>1, DocsAssumption DEF write_documents, Rendered
  <2>3. QED BY <1>1, <2>2 DEF write_documents, TypeInv, HEAD, Job
<1>2. CASE ReplaceDocument
  <2>1. job \in Rendered
    BY <1>2, Jobs DEF TypeInv, ReplaceDocument
  <2>2. docs' \in Documents
    BY <1>2, <2>1 DEF ReplaceDocument, Rendered, Documents, TypeInv
  <2>3. ASSUME NEW left \in Seq(STRING), left # <<>>, Len(left) # 1
        PROVE  Tail(left) \in Seq(STRING) \ {<<>>}
    <3>1. Tail(left) \in Seq(STRING) /\ Len(Tail(left)) = Len(left) - 1
      BY <2>3, HeadTailProperties
    <3>2. Len(Tail(left)) # 0
      BY <2>3, <3>1, EmptySeq
    <3>3. QED BY <3>1, <3>2, EmptySeq
  <2>4. job' \in {NoJob} \union Rendered
    BY <1>2, <2>1, <2>3 DEF ReplaceDocument, Rendered
  <2>5. QED BY <1>2, <2>2, <2>4 DEF ReplaceDocument, TypeInv, HEAD, Job
<1>3. CASE Killed
  BY <1>3 DEF Killed, TypeInv, HEAD, Job
<1>4. QED BY <1>1, <1>2, <1>3 DEF Rendering
(* Every step keeps the types.                                             *)
LEMMA TypeStep == IInv /\ [Next]_vars => TypeInv'
<1>1. IInv /\ UNCHANGED vars => TypeInv'
  BY DEF IInv, TypeInv, vars, HEAD
<1>2. QED
  BY <1>1, DeveloperType, VerificationType, CollectionType, RenderingType DEF Next

-----------------------------------------------------------------------------
(***************************************************************************)
(* What each step leaves in job.                                           *)
(***************************************************************************)
(* The steps of a tool are those of the tool that runs.                     *)
LEMMA WhoRuns ==
  ASSUME TypeInv
  PROVE  /\ run_commands \/ write_verification_receipt => job \in Verifying
         /\ MoveAside \/ Replace \/ DropBackup => job \in Collecting
         /\ ReplaceDocument => job \in Rendered
BY Jobs DEF TypeInv, run_commands, write_verification_receipt, MoveAside, Replace,
            DropBackup, ReplaceDocument

(* Verification hands its job on to its next step, or to nobody.            *)
LEMMA VerificationJob ==
  ASSUME TypeInv, Verification
  PROVE  job'.tool # "collect"
<1>1. CASE StartVerification
  BY <1>1 DEF StartVerification
<1>2. CASE run_commands
  BY <1>2, WhoRuns, NobodyRuns DEF run_commands, Verifying
<1>3. CASE write_verification_receipt
  BY <1>3, NobodyRuns DEF write_verification_receipt
<1>4. QED BY <1>1, <1>2, <1>3 DEF Verification

(* The collection goes from step to step with the set it staged.            *)
LEMMA CollectionJob ==
  ASSUME TypeInv, Collection
  PROVE  /\ job'.tool # "verify"
         /\ collect_open => job'.step = "aside" /\ job'.stage = Staged
         /\ MoveAside => job'.step = "replace" /\ job'.stage = job.stage
         /\ Replace /\ job'.tool = "collect" => job'.step = "drop" /\ job'.stage = job.stage
         /\ DropBackup => job'.tool # "collect"
<1>1. CASE collect_open
  BY <1>1, NobodyRuns DEF collect_open, MoveAside, Replace, DropBackup
<1>2. CASE MoveAside
  BY <1>2, WhoRuns, NobodyRuns DEF collect_open, MoveAside, Replace, DropBackup, Collecting
<1>3. CASE Replace
  BY <1>3, WhoRuns, NobodyRuns DEF collect_open, MoveAside, Replace, DropBackup, Collecting
<1>4. CASE DropBackup
  BY <1>4, WhoRuns, NobodyRuns DEF collect_open, MoveAside, Replace, DropBackup, Collecting
<1>5. QED BY <1>1, <1>2, <1>3, <1>4 DEF Collection

(* Rendering and a kill leave neither of the two running.                   *)
LEMMA RenderingJob ==
  ASSUME TypeInv, Rendering \/ Killed
  PROVE  job'.tool \notin {"verify", "collect"}
<1>1. CASE write_documents
  BY <1>1 DEF write_documents
<1>2. CASE ReplaceDocument
  BY <1>2, WhoRuns, NobodyRuns DEF ReplaceDocument, Rendered
<1>3. CASE Killed
  BY <1>3, NobodyRuns DEF Killed
<1>4. QED BY <1>1, <1>2, <1>3 DEF Rendering

-----------------------------------------------------------------------------
(***************************************************************************)
(* The receipt and the sets.                                               *)
(***************************************************************************)
(* A receipt is written by the run that found no failure, and the next one  *)
(* begins by removing it.                                                  *)
LEMMA JobStep == IInv /\ [Next]_vars => JobInv'
<1> SUFFICES ASSUME IInv, TypeInv, JobInv, [Next]_vars PROVE JobInv'
  BY DEF IInv
<1> USE DEF JobInv, ReceiptIsOfThisRun
<1>1. CASE Developer
  BY <1>1 DEF Developer, Edit, Commit, RestoreResults, write_tool_versions,
              collect_synthesis, TypeInv
<1>2. CASE StartVerification
  BY <1>2 DEF StartVerification, TypeInv
<1>3. CASE run_commands
  <2>1. run'.receipt = None
    BY <1>3 DEF run_commands
  <2>2. job'.tool = "verify" => failed' = failed
    BY <1>3, NobodyRuns DEF run_commands
  <2>3. QED BY <1>3, <2>1, <2>2 DEF run_commands
<1>4. CASE write_verification_receipt
  <2>1. job'.tool # "verify"
    BY <1>4, NobodyRuns DEF write_verification_receipt
  <2>2. failed' = failed
    BY <1>4 DEF write_verification_receipt
  <2>3. QED BY <1>4, <2>1, <2>2 DEF write_verification_receipt
<1>5. CASE Collection
  <2>1. run' = run /\ failed' = failed
    BY <1>5 DEF Collection, collect_open, MoveAside, Replace, DropBackup
  <2>2. QED BY <1>5, <2>1, CollectionJob
<1>6. CASE Rendering \/ Killed
  <2>1. run' = run /\ failed' = failed
    BY <1>6 DEF Rendering, write_documents, ReplaceDocument, Killed
  <2>2. QED BY <1>6, <2>1, RenderingJob
<1>7. CASE UNCHANGED vars
  BY <1>7 DEF vars
<1>8. QED
  BY <1>1, <1>2, <1>3, <1>4, <1>5, <1>6, <1>7 DEF Next, Verification

(* The old set is moved aside whole, and dropped once the new one is whole. *)
LEMMA KeptStep == IInv /\ [Next]_vars => KeptInv'
<1> SUFFICES ASSUME IInv, TypeInv, KeptInv, WholeInv, [Next]_vars PROVE KeptInv'
  BY DEF IInv
<1> USE DEF KeptInv, SetNeverLost
<1>1. None \notin ResultSet
  BY NoneAssumption
<1>2. CASE Developer
  <2>1. UNCHANGED <<results, backup, job>> => KeptInv'
    OBVIOUS
  <2>2. CASE RestoreResults
    BY <1>1, <2>2, NobodyRuns DEF RestoreResults, TypeInv
  <2>3. CASE collect_synthesis
    <3>1. results' # None <=> results # None
      BY <1>1, <2>3, SynthesisReplaced DEF collect_synthesis
    <3>2. backup' = backup /\ job = NoJob /\ job' = job
      BY <2>3 DEF collect_synthesis
    <3>3. QED BY <3>1, <3>2, NobodyRuns
  <2>4. QED
    BY <1>2, <2>1, <2>2, <2>3 DEF Developer, Edit, Commit, write_tool_versions
<1>3. CASE Verification
  <2>1. UNCHANGED <<results, backup>>
    BY <1>3 DEF Verification, StartVerification, run_commands, write_verification_receipt
  <2>2. QED BY <1>3, <2>1, VerificationJob
<1>4. CASE collect_open
  BY <1>4, CollectionJob DEF collect_open, Collection
<1>5. CASE MoveAside
  BY <1>5, CollectionJob DEF MoveAside, Collection
<1>6. CASE Replace
  BY <1>1, <1>6, WhoRuns, CollectionJob, NobodyRuns DEF Replace, Collection, Collecting
<1>7. CASE DropBackup
  BY <1>7, CollectionJob DEF DropBackup, Collection
<1>8. CASE Rendering \/ Killed
  <2>1. UNCHANGED <<results, backup>>
    BY <1>8 DEF Rendering, write_documents, ReplaceDocument, Killed
  <2>2. QED BY <1>8, <2>1, RenderingJob
<1>9. CASE UNCHANGED vars
  BY <1>9 DEF vars
<1>10. QED
  BY <1>2, <1>3, <1>4, <1>5, <1>6, <1>7, <1>8, <1>9 DEF Next, Collection
(* A set whose rows are put back, however often they were replaced, is the  *)
(* set that was published.                                                 *)
LEMMA RowsReplaced ==
  ASSUME NEW s \in ResultSet, NEW rows \in Rows
  PROVE  Repaired([s EXCEPT !.synthesis = rows]) = Repaired(s)
BY DEF Repaired, ResultSet

(* The set that collect_open staged is the one its hashes were taken of.    *)
LEMMA StagedWhole == Staged.manifest.sha.synthesis = Staged.synthesis
BY DEF Staged

LEMMA WholeStep == IInv /\ [Next]_vars => WholeInv'
<1> SUFFICES ASSUME IInv, TypeInv, WholeInv, [Next]_vars PROVE WholeInv'
  BY DEF IInv
<1>1. None \notin ResultSet
  BY NoneAssumption
<1>2. ASSUME UNCHANGED <<results, backup, saved, collected>>,
             job'.tool = "collect" =>
               job'.stage.manifest.sha.synthesis = job'.stage.synthesis
      PROVE  WholeInv'
  BY <1>2 DEF WholeInv, Descends
<1>3. CASE Developer
  <2>1. CASE Edit \/ write_tool_versions
    BY <2>1 DEF Edit, write_tool_versions, WholeInv, Descends
  <2>2. CASE Commit
    BY <2>2 DEF Commit, WholeInv, Descends
  <2>3. CASE RestoreResults
    BY <2>3, NobodyRuns DEF RestoreResults, WholeInv, Descends
  <2>4. CASE collect_synthesis
    <3>1. UNCHANGED <<backup, saved, collected, job>>
      BY <2>4 DEF collect_synthesis
    <3>2. Descends(results)'
      BY <2>4, <3>1, SynthesisReplaced, RowsReplaced DEF WholeInv, Descends
    <3>3. QED BY <3>1, <3>2 DEF WholeInv, Descends
  <2>5. QED BY <1>3, <2>1, <2>2, <2>3, <2>4 DEF Developer
<1>4. CASE Verification
  <2>1. UNCHANGED <<results, backup, saved, collected>>
    BY <1>4 DEF Verification, StartVerification, run_commands, write_verification_receipt
  <2>2. QED BY <1>2, <1>4, <2>1, VerificationJob
<1>5. CASE collect_open
  <2>1. UNCHANGED <<results, backup, saved, collected>>
    BY <1>5 DEF collect_open
  <2>2. QED BY <1>2, <1>5, <2>1, StagedWhole, CollectionJob DEF Collection
<1>6. CASE MoveAside
  BY <1>6, CollectionJob DEF MoveAside, Collection, WholeInv, Descends
<1>7. CASE Replace
  <2>1. job \in Collecting /\ job.stage \in ResultSet
    BY <1>7, WhoRuns DEF Collecting
  <2>2. job.stage.manifest.sha.synthesis = job.stage.synthesis
    BY <1>7 DEF Replace, WholeInv
  <2>3. Repaired(job.stage) = job.stage
    BY <2>1, <2>2 DEF Repaired, ResultSet
  <2>4. collected \subseteq collected'
    BY <1>7 DEF Replace
  <2>5. Descends(results)' /\ Descends(backup)' /\ Descends(saved.results)'
    BY <1>7, <2>3, <2>4 DEF Replace, WholeInv, Descends
  <2>6. QED BY <1>7, <2>2, <2>5, CollectionJob DEF Collection, WholeInv
<1>8. CASE DropBackup
  BY <1>8, CollectionJob DEF DropBackup, Collection, WholeInv, Descends
<1>9. CASE Rendering \/ Killed
  <2>1. UNCHANGED <<results, backup, saved, collected>>
    BY <1>9 DEF Rendering, write_documents, ReplaceDocument, Killed
  <2>2. QED BY <1>2, <1>9, <2>1, RenderingJob
<1>10. CASE UNCHANGED vars
  BY <1>10 DEF vars, WholeInv, Descends
<1>11. QED
  BY <1>3, <1>4, <1>5, <1>6, <1>7, <1>8, <1>9, <1>10 DEF Next, Collection
-----------------------------------------------------------------------------
(***************************************************************************)
(* The history.                                                            *)
(***************************************************************************)
(* A commit adds the working tree and leaves the commits before it alone.   *)
LEMMA HistoryGrows ==
  ASSUME TypeInv, Commit
  PROVE  /\ HEAD' = HEAD + 1 /\ HEAD \in Nat \ {0}
         /\ \A k \in 1..HEAD : history'[k] = history[k]
         /\ history'[HEAD + 1] = work
BY DEF TypeInv, Commit, HEAD

(* So whatever names two commits with one RTL goes on doing so.             *)
LEMMA TracedStays ==
  ASSUME TypeInv, Commit, NEW r, Traced(r)
  PROVE  /\ r.tooling \in 1..HEAD' /\ r.rtl \in 1..HEAD'
         /\ history'[r.tooling].rtl = history'[r.rtl].rtl
BY HistoryGrows DEF Traced

(* The last change of the RTL is the new commit, or what it was before.     *)
LEMMA LastChangeMoves ==
  ASSUME TypeInv, TraceInv, Commit
  PROVE  /\ \E c \in 1..HEAD' : LastChange(c)'
         /\ \A c \in 1..HEAD' : LastChange(c)' => history'[c].rtl = history'[HEAD'].rtl
<1> USE HistoryGrows
<1>1. \A c \in 1..HEAD' : LastChange(c)' => history'[c].rtl = history'[HEAD'].rtl
  <2> SUFFICES ASSUME NEW c \in 1..HEAD', LastChange(c)', c # HEAD'
               PROVE  history'[c].rtl = history'[HEAD'].rtl
    OBVIOUS
  <2>1. c \in 1..HEAD /\ HEAD' \in c + 1 .. HEAD'
    OBVIOUS
  <2>2. LastChange(c)
    BY <2>1 DEF LastChange
  <2>3. history'[HEAD'].rtl = history'[HEAD' - 1].rtl
    BY <2>1 DEF LastChange
  <2>4. history[c].rtl = history[HEAD].rtl
    BY <2>1, <2>2 DEF TraceInv
  <2>5. QED BY <2>1, <2>3, <2>4
<1>2. \E c \in 1..HEAD' : LastChange(c)'
  <2>1. CASE work.rtl # history[HEAD].rtl
    BY <2>1 DEF LastChange
  <2>2. CASE work.rtl = history[HEAD].rtl
    <3>1. PICK c \in 1..HEAD : LastChange(c)
      BY DEF TraceInv
    <3>2. LastChange(c)'
      BY <2>2, <3>1 DEF LastChange
    <3>3. QED BY <3>2
  <2>3. QED BY <2>1, <2>2
<1>3. QED BY <1>1, <1>2

LEMMA TraceStep == IInv /\ [Next]_vars => TraceInv'
<1> SUFFICES ASSUME IInv, TypeInv, TraceInv, [Next]_vars PROVE TraceInv'
  BY DEF IInv
<1>1. ASSUME UNCHANGED <<history, collected>>,
             run'.receipt # None => Traced(run'.receipt),
             job'.tool = "collect" => Traced(job'.stage.manifest)
      PROVE  TraceInv'
  BY <1>1 DEF TraceInv, Traced, LastChange, HEAD
<1>2. CASE Commit
  <2>1. UNCHANGED <<run, job, collected>>
    BY <1>2 DEF Commit
  <2>2. \A r : Traced(r) => Traced(r)'
    BY <1>2, TracedStays DEF Traced
  <2>3. QED BY <1>2, <2>1, <2>2, LastChangeMoves DEF TraceInv
<1>3. CASE Developer /\ ~Commit
  <2>1. UNCHANGED <<history, collected, job>>
    BY <1>3 DEF Developer, Edit, RestoreResults, write_tool_versions, collect_synthesis
  <2>2. run'.receipt = run.receipt
    BY <1>3 DEF Developer, Edit, RestoreResults, write_tool_versions, collect_synthesis,
                TypeInv
  <2>3. QED BY <1>1, <2>1, <2>2 DEF TraceInv
<1>4. CASE Verification
  <2>1. UNCHANGED <<history, collected>>
    BY <1>4 DEF Verification, StartVerification, run_commands, write_verification_receipt
  <2>2. run'.receipt # None => Traced(run'.receipt)
    <3>1. CASE StartVerification
      BY <3>1 DEF StartVerification, TypeInv
    <3>2. CASE run_commands
      BY <3>2 DEF run_commands, TraceInv
    <3>3. CASE write_verification_receipt
      <4>1. run'.receipt.tooling = HEAD /\ run'.receipt.rtl = RtlCommit
        BY <3>3 DEF write_verification_receipt, TypeInv
      <4>2. HEAD \in 1..HEAD
        BY DEF TypeInv
      <4>3. QED BY <4>1, <4>2, RtlCommitFound DEF Traced
    <3>4. QED BY <1>4, <3>1, <3>2, <3>3 DEF Verification
  <2>3. QED BY <1>1, <1>4, <2>1, <2>2, VerificationJob
<1>5. CASE collect_open
  <2>1. UNCHANGED <<history, collected, run>>
    BY <1>5 DEF collect_open
  <2>2. Traced(run.receipt) /\ run.receipt.tooling = HEAD
    BY <1>5 DEF collect_open, TraceInv
  <2>3. Staged.manifest.tooling = HEAD /\ Staged.manifest.rtl = run.receipt.rtl
    BY DEF Staged
  <2>4. Traced(Staged.manifest)
    BY <2>2, <2>3 DEF Traced
  <2>5. QED BY <1>1, <1>5, <2>1, <2>4, CollectionJob DEF Collection, TraceInv
<1>6. CASE MoveAside \/ DropBackup
  BY <1>1, <1>6, CollectionJob DEF MoveAside, DropBackup, Collection, TraceInv
<1>7. CASE Replace
  <2>1. Traced(job.stage.manifest)
    BY <1>7 DEF Replace, TraceInv
  <2>2. UNCHANGED <<history, run>> /\ collected' \subseteq collected \union {job.stage}
    BY <1>7 DEF Replace
  <2>3. \A r : Traced(r) => Traced(r)'
    BY <2>2 DEF Traced, HEAD
  <2>4. job'.tool = "collect" => job'.stage = job.stage
    BY <1>7, CollectionJob DEF Collection
  <2>5. /\ \E c \in 1..HEAD' : LastChange(c)'
        /\ \A c \in 1..HEAD' : LastChange(c)' => history'[c].rtl = history'[HEAD'].rtl
    BY <2>2 DEF TraceInv, LastChange, HEAD
  <2>6. QED BY <2>1, <2>2, <2>3, <2>4, <2>5 DEF TraceInv
<1>8. CASE Rendering \/ Killed
  <2>1. UNCHANGED <<history, collected, run>>
    BY <1>8 DEF Rendering, write_documents, ReplaceDocument, Killed
  <2>2. QED BY <1>1, <1>8, <2>1, RenderingJob DEF TraceInv
<1>9. CASE UNCHANGED vars
  BY <1>1, <1>9 DEF vars, TraceInv
<1>10. QED
  BY <1>2, <1>3, <1>4, <1>5, <1>6, <1>7, <1>8, <1>9 DEF Next, Collection

-----------------------------------------------------------------------------
(***************************************************************************)
(* The theorems.                                                           *)
(***************************************************************************)
LEMMA Invariant == Spec => []IInv
<1>1. IInv /\ [Next]_vars => IInv'
  BY TypeStep, JobStep, KeptStep, WholeStep, TraceStep DEF IInv
<1>2. QED BY InitInv, <1>1, PTL DEF Spec

(* verification.py: a receipt found in the run directory is of the last run *)
(* that was started, and that run finished without a failure.              *)
THEOREM ReceiptsAreFresh == Spec => []ReceiptIsOfThisRun
<1>1. IInv => ReceiptIsOfThisRun
  BY DEF IInv, JobInv
<1>2. QED BY Invariant, <1>1, PTL

(* publish_directory in results.py: at no point of a publication, whatever  *)
(* fails or is killed, is there neither the old set nor the new one.       *)
THEOREM ResultsAreKept == Spec => []SetNeverLost
<1>1. IInv => SetNeverLost
  BY DEF IInv, KeptInv
<1>2. QED BY Invariant, <1>1, PTL

(* evidence_check.py accepts no set of which a file was replaced since      *)
(* collect-open published it.                                              *)
THEOREM SetsAreWhole == Spec => []AcceptedSetIsWhole
<1>1. ASSUME IInv, check_repository_evidence, results # None PROVE results \in collected
  <2>1. results \in ResultSet /\ Repaired(results) \in collected
    BY <1>1 DEF IInv, TypeInv, WholeInv, Descends
  <2>2. validate_manifest(results, result_source_counts(results))
    BY <1>1 DEF check_repository_evidence, check_documents, validate_result_set
  <2>3. results.manifest.sha = [verification |-> results.verification,
                                tools |-> results.tools, synthesis |-> results.synthesis]
    BY <2>2 DEF validate_manifest
  <2>4. results.manifest.sha.synthesis = results.synthesis
    BY <2>3
  <2>5. Repaired(results) = results
    BY <2>1, <2>4 DEF Repaired, ResultSet
  <2>6. QED BY <2>1, <2>5
<1>2. IInv => AcceptedSetIsWhole
  BY <1>1 DEF AcceptedSetIsWhole
<1>3. QED BY Invariant, <1>2, PTL

(* A document that evidence_check.py accepts and that calls the evidence    *)
(* current shows what the commands measured on the RTL of the working tree. *)
THEOREM CurrentIsMeasured == Spec => []CurrentMeansMeasured
<1>1. ASSUME IInv, check_repository_evidence, results # None, Undisturbed(results),
             NEW d \in Range(Docs), docs[d].state = "current",
             NEW r \in results.verification.ran
      PROVE  r.tree.rtl = work.rtl
  <2>1. results \in ResultSet /\ Repaired(results) \in collected
    BY <1>1 DEF IInv, TypeInv, WholeInv, Descends
  <2>2. Repaired(results).manifest = results.manifest
    BY <2>1 DEF Repaired, ResultSet
  <2>3. Traced(results.manifest)
    BY <1>1, <2>1, <2>2 DEF IInv, TraceInv
  <2>4. docs = render_documents(results)
    BY <1>1 DEF check_repository_evidence, check_documents
  <2>5. evidence_state(results.manifest.rtl) = "current"
    BY <1>1, <2>4 DEF render_documents
  <2>6. work.rtl = history[results.manifest.rtl].rtl
    BY <2>5 DEF evidence_state
  <2>7. r.tree = history[results.manifest.tooling]
    BY <1>1 DEF Undisturbed
  <2>8. QED BY <2>3, <2>6, <2>7 DEF Traced
<1>2. IInv => CurrentMeansMeasured
  BY <1>1 DEF CurrentMeansMeasured
<1>3. QED BY Invariant, <1>2, PTL
=============================================================================
