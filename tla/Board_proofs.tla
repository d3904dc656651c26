---------------------------- MODULE Board_proofs ----------------------------
(***************************************************************************)
(* What the tools of Board promise, for any bounds and any set of commits. *)
(*                                                                         *)
(* References: PreparedIsPinned is not inductive, it says nothing of a     *)
(* build directory that no run has reported on.  What carries it from run  *)
(* to run is that a stamp naming a commit never stands beside the binary   *)
(* of another one.                                                         *)
(*                                                                         *)
(* BoardFlow: the manifests of images, runs and records are compared by    *)
(* equality only.  What makes equal hashes mean anything is that a version *)
(* of the firmware that is in neither the tree nor the linked ELF cannot   *)
(* get onto the disk again unless its sources are restored (Past).  What a *)
(* run hashed is what it staged or a past version, and a record is of the  *)
(* linked ELF: if the outermost of these agree, all do, or the version was *)
(* restored.  And the RTL a run copies is that of the commit it has named  *)
(* unless an edit has overtaken it.                                        *)
(***************************************************************************)
EXTENDS Board, Sequences, TLAPS

-----------------------------------------------------------------------------
(* The reference simulator.                                                *)

Steps == {"idle", "fetch", "checkout", "reset", "look", "remove", "make", "write", "done"}

(* What a killed run leaves behind is safe to find. *)
StampTellsTheTruth == stamp \in Commits => binary \in {None, stamp}

(* What each step of a run may rely on. *)
RunInv ==
  /\ step # "idle" => want \in Commits /\ ready = None
  /\ step \in {"reset", "look", "remove", "make", "write"} => head = want
  /\ step \in {"look", "remove", "make", "write"} => tree = want
  /\ step \in {"make", "write"} => stamp = None
  /\ step \in {"write", "done"} => binary = want
  /\ step = "done" => stamp = want

ReferencesInv ==
  /\ pin \in Commits /\ step \in Steps
  /\ StampTellsTheTruth /\ RunInv /\ PreparedIsPinned

-----------------------------------------------------------------------------
LEMMA ReferencesInit == Init => ReferencesInv
BY Distinct DEF Init, ReferencesInv, Steps, StampTellsTheTruth, RunInv, PreparedIsPinned

(* Moving the pin, an edit and an unlock touch nothing a run relies on. *)
LEMMA EnvironmentInv == ReferencesInv /\ (ChangePin \/ EditCheckout \/ Unlock) => ReferencesInv'
<1> USE DEF ReferencesInv, Steps, StampTellsTheTruth, RunInv, PreparedIsPinned, checkout, build
<1>1. ReferencesInv /\ ChangePin => ReferencesInv'
  BY DEF ChangePin
<1>2. ReferencesInv /\ EditCheckout => ReferencesInv'
  BY DEF EditCheckout
<1>3. ReferencesInv /\ Unlock => ReferencesInv'
  BY DEF Unlock
<1>4. QED BY <1>1, <1>2, <1>3

LEMMA CheckoutInv == ReferencesInv /\ (LoadVersions \/ Fetch \/ Checkout \/ Reset) => ReferencesInv'
<1> USE DEF ReferencesInv, Steps, StampTellsTheTruth, RunInv, PreparedIsPinned, checkout, build, Fails
<1>1. ReferencesInv /\ LoadVersions => ReferencesInv'
  BY DEF LoadVersions
<1>2. ReferencesInv /\ Fetch => ReferencesInv'
  BY DEF Fetch
<1>3. ReferencesInv /\ Checkout => ReferencesInv'
  BY DEF Checkout
<1>4. ReferencesInv /\ Reset => ReferencesInv'
  BY DEF Reset
<1>5. QED BY <1>1, <1>2, <1>3, <1>4

LEMMA BuildInv ==
  ReferencesInv /\ (LookAtStamp \/ RemoveBuild \/ Make \/ WriteStamp \/ Done) => ReferencesInv'
<1> USE DEF ReferencesInv, Steps, StampTellsTheTruth, RunInv, PreparedIsPinned, checkout, build, Fails
<1>1. ReferencesInv /\ LookAtStamp => ReferencesInv'
  BY Distinct DEF LookAtStamp
<1>2. ReferencesInv /\ RemoveBuild => ReferencesInv'
  BY Distinct DEF RemoveBuild
<1>3. ReferencesInv /\ Make => ReferencesInv'
  BY Distinct DEF Make
<1>4. ReferencesInv /\ WriteStamp => ReferencesInv'
  BY Distinct DEF WriteStamp
<1>5. ReferencesInv /\ Done => ReferencesInv'
  BY DEF Done
<1>6. QED BY <1>1, <1>2, <1>3, <1>4, <1>5

(* Half a stamp names no commit, and there is no stamp while make runs. *)
LEMMA KilledInv == ReferencesInv /\ Killed => ReferencesInv'
<1> SUFFICES ASSUME ReferencesInv, Killed PROVE ReferencesInv'
  OBVIOUS
<1>1. step' = "idle" /\ ready' = ready /\ ready = None /\ pin' = pin
  BY DEF Killed, ReferencesInv, RunInv
<1>2. StampTellsTheTruth'
  <2>1. CASE step = "make"
    BY <2>1, Distinct DEF Killed, ReferencesInv, RunInv, StampTellsTheTruth
  <2>2. CASE step = "write"
    BY <2>2, Distinct DEF Killed, ReferencesInv, RunInv, StampTellsTheTruth
  <2>3. CASE step \notin {"make", "write"}
    BY <2>3 DEF Killed, ReferencesInv, StampTellsTheTruth
  <2>4. QED BY <2>1, <2>2, <2>3
<1>3. QED BY <1>1, <1>2 DEF ReferencesInv, Steps, RunInv, PreparedIsPinned

LEMMA StutterInv == ReferencesInv /\ UNCHANGED vars => ReferencesInv'
BY DEF ReferencesInv, StampTellsTheTruth, RunInv, PreparedIsPinned, vars, checkout, build

(* For any set of commits: whatever was killed, edited or re-pinned before, *)
(* a Spike reported ready is the build of exactly the commit pinned when    *)
(* the run began (tools/prepare_references.py).                            *)
THEOREM SpikeIsThePinnedOne == Spec => []PreparedIsPinned
<1>1. ReferencesInv => PreparedIsPinned
  BY DEF ReferencesInv
<1>2. ReferencesInv /\ [Next]_vars => ReferencesInv'
  BY EnvironmentInv, CheckoutInv, BuildInv, KilledInv, StutterInv DEF Next
<1>3. QED BY ReferencesInit, <1>1, <1>2, PTL DEF Spec

(* The stamp never names a commit other than the one the binary beside it   *)
(* was built from, at no point of any run.                                 *)
THEOREM StampIsNeverAhead == Spec => []StampTellsTheTruth
<1>1. ReferencesInv => StampTellsTheTruth
  BY DEF ReferencesInv
<1>2. ReferencesInv /\ [Next]_vars => ReferencesInv'
  BY EnvironmentInv, CheckoutInv, BuildInv, KilledInv, StutterInv DEF Next
<1>3. QED BY ReferencesInit, <1>1, <1>2, PTL DEF Spec

-----------------------------------------------------------------------------
(* The record of the board: the invariant.                                 *)

Images == {"imem", "dmem"}
Contents == [Flow!Parts -> Nat]
Version == Nat \cup {None}

\* A manifest of the image directory that names one ELF.
Whole(m) == m.elf \in Nat /\ m.imem = m.elf /\ m.dmem = m.elf

\* The commits a manifest names: two of the history, with the same RTL.
Named(h, source, rtl) ==
  source \in 1..Len(h) /\ rtl \in 1..Len(h) /\ h[rtl].rtl = h[source].rtl

\* Versions of the firmware that are nowhere to build from, or were restored.
Past ==
  returned \cup {a \in 0 .. versions["firmware"] : a # work["firmware"] /\ a # image.elf}

\* What is known of a manifest of a run, with the past versions and history h.
Bound(past, h, m, overtaken) ==
  /\ m.firmware \in Hashes /\ m.outputs \in Files
  /\ \A x \in Images : m.firmware[x] = m.outputs[x] \/ m.firmware[x] \in past
  /\ Named(h, m.source, m.rtl)
  /\ ~overtaken => h[m.source].rtl = m.outputs.rtl

Good(past, h, s) ==
  /\ s \in ResultSet /\ s.manifest.outputs = s.files
  /\ Bound(past, h, s.manifest, s.overtaken)

TreeInv ==
  /\ work \in Contents /\ versions \in Contents
  /\ work["firmware"] <= versions["firmware"]
  /\ history \in Seq(Contents) /\ Len(history) >= 1

\* The ELF is of sources that were there, and an image of the linked ELF or of a
\* past version; while soc_image.py runs, what it has written is of the ELF it read.
ImageInv ==
  /\ image \in [elf : Version, imem : Version, dmem : Version,
                manifest : [elf : Version, imem : Version, dmem : Version] \cup {None}]
  /\ image.elf # None => image.elf <= versions["firmware"]
  /\ \A x \in Images : image[x] # None => image[x] = image.elf \/ image[x] \in Past
  /\ firmware = Flow!Idle \/ firmware \in [step : {"imem", "dmem", "manifest"}, elf : Nat]
  /\ firmware # Flow!Idle => image.elf = firmware.elf
  /\ firmware.step \in {"dmem", "manifest"} => image.imem = firmware.elf
  /\ firmware.step = "manifest" => image.dmem = firmware.elf
  /\ image.manifest # None => Whole(image.manifest)

\* The fields of a run, by its step.
Hashing == [step : {"hash"}, kind : Flow!Kinds, hashes : [imem : Nat]]
Identifying == [step : {"identify"}, kind : Flow!Kinds, hashes : Hashes]
Staging ==
  [step : {"stage"}, kind : Flow!Kinds, overtaken : BOOLEAN, hashes : Hashes,
   source : Nat, rtl : Nat]
Copying ==
  [step : {"images"}, kind : Flow!Kinds, overtaken : BOOLEAN, hashes : Hashes,
   source : Nat, rtl : Nat, files : [rtl : Nat, xdc : Nat]]
CopyingDmem ==
  [step : {"dmem"}, kind : Flow!Kinds, overtaken : BOOLEAN, hashes : Hashes,
   source : Nat, rtl : Nat, files : [rtl : Nat, xdc : Nat, imem : Nat]]
Routing ==
  [step : {"route"}, kind : Flow!Kinds, overtaken : BOOLEAN, hashes : Hashes,
   source : Nat, rtl : Nat, files : Files]
Leaving == [step : {"aside"}, kind : Flow!Kinds, set : ResultSet]
Replacing ==
  [step : {"replace"}, kind : Flow!Kinds, set : ResultSet, old : ResultSet \cup {None}]
Dropping == [step : {"drop"}, kind : Flow!Kinds, old : ResultSet \cup {None}]
Jobs ==
  {Flow!Idle} \cup Hashing \cup Identifying \cup Staging \cup Copying \cup CopyingDmem
  \cup Routing \cup Leaving \cup Replacing \cup Dropping

\* What each step of a run may rely on; which images it has hashed and not yet
\* copied, and which it has copied.
Hashed(s) ==
  CASE s = "hash" -> {"imem"}
    [] s \in {"identify", "stage", "images"} -> Images
    [] s = "dmem" -> {"dmem"}
    [] OTHER -> {}
Copied(s) == CASE s = "dmem" -> {"imem"} [] s = "route" -> Images [] OTHER -> {}

JobInv ==
  /\ job \in Jobs
  /\ \A x \in Hashed(job.step) :
       image[x] \in Nat /\ (job.hashes[x] = image[x] \/ job.hashes[x] \in Past)
  /\ \A x \in Copied(job.step) : job.hashes[x] = job.files[x] \/ job.hashes[x] \in Past
  /\ job.step \in {"stage", "images", "dmem", "route"} => Named(history, job.source, job.rtl)
  /\ job.step = "stage" /\ ~job.overtaken => work["rtl"] = history[job.source].rtl
  /\ job.step \in {"images", "dmem", "route"} /\ ~job.overtaken =>
       job.files.rtl = history[job.source].rtl
  /\ job.step \in {"aside", "replace"} => Good(Past, history, job.set)
  /\ job.step \in {"replace", "drop"} /\ job.old # None => Good(Past, history, job.old)

\* What is published or moved aside; where the set is while a run replaces it.
OutputInv ==
  /\ published \in [Flow!Kinds -> ResultSet \cup {None}]
  /\ backup \in [Flow!Kinds -> SUBSET ResultSet]
  /\ \A k \in Flow!Kinds : published[k] # None => Good(Past, history, published[k])
  /\ job.step = "replace" => published[job.kind] = None
  /\ job.step = "drop" => published[job.kind] # None

ResultInv ==
  /\ collecting # None =>
       Bound(Past, history, collecting.board, collecting.overtaken)
       /\ Whole(collecting.firmware)
  /\ record # None =>
       /\ record.rtl \in 1..Len(history) /\ record.tooling \in 1..Len(history)
       /\ SocRecordIsGenuine

FlowInv == TreeInv /\ ImageInv /\ JobInv /\ OutputInv /\ ResultInv

-----------------------------------------------------------------------------
(* Past versions stay past, and the history only gets longer.              *)

Grown(past, h) ==
  /\ Past \subseteq past
  /\ \A i \in 1..Len(history) : i \in 1..Len(h) /\ h[i] = history[i]

LEMMA ImageType ==
  ASSUME ImageInv
  PROVE  /\ image.elf \in Version /\ \A x \in Images : image[x] \in Version
         /\ \A x \in Images : image[x] # None <=> image[x] \in Nat
         /\ image.elf # None <=> image.elf \in Nat
BY FlowAssumption DEF ImageInv, Version, Images

LEMMA NamedKept ==
  ASSUME NEW past, NEW h, NEW s, NEW r, Grown(past, h), Named(history, s, r)
  PROVE  Named(h, s, r) /\ h[s] = history[s]
BY DEF Grown, Named

LEMMA BoundKept ==
  ASSUME NEW past, NEW h, NEW m, NEW o, Grown(past, h), Bound(Past, history, m, o)
  PROVE  Bound(past, h, m, o)
<1>1. Named(h, m.source, m.rtl) /\ h[m.source] = history[m.source]
  BY NamedKept DEF Bound
<1>2. QED BY <1>1 DEF Bound, Grown

LEMMA GoodKept ==
  ASSUME NEW past, NEW h, NEW s, Grown(past, h), Good(Past, history, s)
  PROVE  Good(past, h, s)
BY BoundKept DEF Good

\* A step that leaves the past versions and the history alone.
LEMMA SameGrown == Grown(Past, history)
BY DEF Grown

LEMMA SamePast ==
  ASSUME UNCHANGED <<work, versions, returned>>, image'.elf = image.elf
  PROVE  Past' = Past
BY DEF Past

\* Commits, edits and builds beside it leave a published set, a collection and a
\* record as good as they were.
LEMMA OthersKept ==
  ASSUME FlowInv, Grown(Past', history'), returned \subseteq returned',
         UNCHANGED <<published, backup, collecting, record>>,
         job' = job \/ job'.step \notin {"replace", "drop"}
  PROVE  OutputInv' /\ ResultInv'
<1>1. OutputInv /\ ResultInv
  BY DEF FlowInv
<1>2. OutputInv'
  <2>1. \A k \in Flow!Kinds : published[k] # None => Good(Past', history', published[k])
    BY <1>1, GoodKept DEF OutputInv
  <2>2. QED BY <1>1, <2>1 DEF OutputInv
<1>3. ResultInv'
  <2>1. collecting # None => Bound(Past', history', collecting.board, collecting.overtaken)
    BY <1>1, BoundKept DEF ResultInv
  <2>2. \A i \in 1..Len(history) : i \in 1..Len(history') /\ history'[i] = history[i]
    BY DEF Grown
  <2>3. record # None => SocRecordIsGenuine'
    BY <1>1, <2>2 DEF ResultInv, SocRecordIsGenuine, Flow!SocRecordIsGenuine
  <2>4. QED BY <1>1, <2>1, <2>2, <2>3 DEF ResultInv
<1>4. QED BY <1>2, <1>3

\* And a run, if the images it has yet to copy are those it hashed, or it hashed
\* past versions, as before.
LEMMA JobKept ==
  ASSUME FlowInv, Grown(Past', history'), job' = job,
         job.step = "stage" => work'["rtl"] = work["rtl"],
         \A x \in Images : image[x] \in Nat =>
           image'[x] \in Nat /\ (image[x] = image'[x] \/ image[x] \in Past')
  PROVE  JobInv'
<1>1. JobInv
  BY DEF FlowInv
<1>2. Past \subseteq Past'
  BY DEF Grown
<1>3. \A s, c : Named(history, s, c) => Named(history', s, c) /\ history'[s] = history[s]
  BY NamedKept
<1>4. \A s : Good(Past, history, s) => Good(Past', history', s)
  BY GoodKept
<1>5. \A x \in Hashed(job.step) :
        image'[x] \in Nat /\ (job.hashes[x] = image'[x] \/ job.hashes[x] \in Past')
  <2>1. Hashed(job.step) \subseteq Images
    BY DEF Hashed, Images
  <2>2. QED BY <1>1, <1>2, <2>1 DEF JobInv
<1>6. \A x \in Copied(job.step) : job.hashes[x] = job.files[x] \/ job.hashes[x] \in Past'
  BY <1>1, <1>2 DEF JobInv
<1>7. job.step \in {"stage", "images", "dmem", "route"} =>
        Named(history', job.source, job.rtl) /\ history'[job.source] = history[job.source]
  BY <1>1, <1>3 DEF JobInv
<1>8. /\ job.step \in {"aside", "replace"} => Good(Past', history', job.set)
      /\ job.step \in {"replace", "drop"} /\ job.old # None => Good(Past', history', job.old)
  BY <1>1, <1>4 DEF JobInv
<1>9. QED BY <1>1, <1>5, <1>6, <1>7, <1>8 DEF JobInv

-----------------------------------------------------------------------------
(* The developer.                                                          *)

LEMMA EditTree ==
  ASSUME FlowInv, Flow!Edit
  PROVE  TreeInv' /\ ImageInv' /\ Grown(Past', history') /\ returned \subseteq returned'
<1>1. TreeInv /\ ImageInv
  BY DEF FlowInv
<1>2. PICK p \in Flow!Parts : \E v \in (0 .. versions[p] + 1) \ {work[p]} :
        /\ work' = [work EXCEPT ![p] = v]
        /\ IF v > versions[p]
           THEN versions' = [versions EXCEPT ![p] = v] /\ UNCHANGED returned
           ELSE /\ returned' = returned \cup (IF p = "firmware" THEN {v} ELSE {})
                /\ UNCHANGED versions
  BY DEF Flow!Edit
<1>3. PICK v \in (0 .. versions[p] + 1) \ {work[p]} :
        /\ work' = [work EXCEPT ![p] = v]
        /\ IF v > versions[p]
           THEN versions' = [versions EXCEPT ![p] = v] /\ UNCHANGED returned
           ELSE /\ returned' = returned \cup (IF p = "firmware" THEN {v} ELSE {})
                /\ UNCHANGED versions
  BY <1>2
<1>4. history' = history /\ image' = image /\ firmware' = firmware
  BY DEF Flow!Edit, Flow!images
<1>5. work \in Contents /\ versions \in Contents /\ versions[p] \in Nat /\ v \in Nat
  BY <1>1, <1>3 DEF TreeInv, Contents
<1>6. versions' \in Contents /\ work' \in Contents /\ returned \subseteq returned'
  BY <1>3, <1>5 DEF Contents
<1>7. CASE p # "firmware"
  <2>1. /\ work'["firmware"] = work["firmware"] /\ versions'["firmware"] = versions["firmware"]
        /\ returned' = returned
    BY <1>3, <1>5, <1>7 DEF Contents, Flow!Parts
  <2>2. Past' = Past
    BY <1>4, <2>1 DEF Past
  <2>3. TreeInv' /\ ImageInv'
    BY <1>1, <1>4, <1>6, <2>1, <2>2 DEF TreeInv, ImageInv
  <2>4. QED BY <1>4, <1>6, <2>2, <2>3, SameGrown
<1>8. CASE p = "firmware"
  <2>1. /\ work'["firmware"] = v /\ versions'["firmware"] \in Nat
        /\ versions["firmware"] <= versions'["firmware"] /\ v <= versions'["firmware"]
        /\ versions["firmware"] \in Nat
    BY <1>3, <1>5, <1>8 DEF Contents, Flow!Parts
  <2>2. v <= versions["firmware"] => v \in returned'
    BY <1>3, <1>5, <1>8, <2>1
  <2>3. Past \subseteq Past'
    <3>1. SUFFICES ASSUME NEW a \in Past PROVE a \in Past'
      OBVIOUS
    <3>2. CASE a \in returned
      BY <1>6, <3>2 DEF Past
    <3>3. CASE a \in 0 .. versions["firmware"] /\ a # work["firmware"] /\ a # image.elf
      <4>1. CASE a = v
        BY <2>2, <3>3, <4>1 DEF Past
      <4>2. CASE a # v
        BY <1>4, <2>1, <3>3, <4>2 DEF Past
      <4>3. QED BY <4>1, <4>2
    <3>4. QED BY <3>2, <3>3 DEF Past
  <2>4. TreeInv'
    BY <1>1, <1>4, <1>6, <2>1 DEF TreeInv
  <2>5. image.elf # None => image.elf <= versions'["firmware"]
    BY <1>1, <2>1, ImageType DEF ImageInv
  <2>6. ImageInv'
    BY <1>1, <1>4, <2>3, <2>5 DEF ImageInv
  <2>7. QED BY <1>4, <1>6, <2>3, <2>4, <2>6 DEF Grown
<1>9. QED BY <1>7, <1>8

LEMMA JobOf ==
  ASSUME job \in Jobs
  PROVE  /\ job.step \in {"idle", "hash", "identify", "stage", "images", "dmem", "route",
                         "aside", "replace", "drop"}
         /\ job.step = "idle" => job = Flow!Idle
         /\ job.step = "hash" => job \in Hashing
         /\ job.step = "identify" => job \in Identifying
         /\ job.step = "stage" => job \in Staging
         /\ job.step = "images" => job \in Copying
         /\ job.step = "dmem" => job \in CopyingDmem
         /\ job.step = "route" => job \in Routing
         /\ job.step = "aside" => job \in Leaving
         /\ job.step = "replace" => job \in Replacing
         /\ job.step = "drop" => job \in Dropping
BY DEF Jobs, Flow!Idle, Hashing, Identifying, Staging, Copying, CopyingDmem, Routing, Leaving,
       Replacing, Dropping

\* The RTL a run that has yet to copy it will copy is that of its commit, unless
\* the run is overtaken.
LEMMA EditJob ==
  ASSUME FlowInv, NEW p \in Flow!Parts,
         job' = IF p # "firmware" /\ job.step \in {"stage", "images", "dmem", "route"}
                THEN [job EXCEPT !.overtaken = TRUE] ELSE job
  PROVE  /\ job' \in Jobs /\ job'.step = job.step
         /\ job' = job \/ (job'.overtaken /\ job.step \in {"stage", "images", "dmem", "route"})
         /\ job.step \in {"stage", "images", "dmem", "route"} =>
              /\ job'.hashes = job.hashes /\ job'.source = job.source /\ job'.rtl = job.rtl
              /\ job.step # "stage" => job'.files = job.files
              /\ job'.overtaken \in BOOLEAN
         /\ job.step \in {"stage", "images", "dmem", "route"} /\ ~job'.overtaken =>
              ~job.overtaken /\ p = "firmware"
<1>1. job \in Jobs
  BY DEF FlowInv, JobInv
<1>2. CASE ~(p # "firmware" /\ job.step \in {"stage", "images", "dmem", "route"})
  <2>1. job' = job
    BY <1>2
  <2>2. job.step \in {"stage", "images", "dmem", "route"} => job.overtaken \in BOOLEAN
    BY <1>1, JobOf DEF Staging, Copying, CopyingDmem, Routing
  <2>3. QED BY <1>1, <1>2, <2>1, <2>2
<1>3. CASE p # "firmware" /\ job.step \in {"stage", "images", "dmem", "route"}
  <2>1. job' = [job EXCEPT !.overtaken = TRUE]
    BY <1>3
  <2>2. CASE job.step = "stage"
    <3>1. job \in Staging
      BY <1>1, <2>2, JobOf
    <3>2. job' \in Staging /\ job'.overtaken = TRUE
      BY <2>1, <3>1 DEF Staging
    <3>3. job'.step = "stage" /\ job'.hashes = job.hashes /\ job'.source = job.source
          /\ job'.rtl = job.rtl
      BY <2>1, <2>2, <3>1 DEF Staging
    <3>4. QED BY <2>2, <3>2, <3>3 DEF Jobs
  <2>3. CASE job.step = "images"
    <3>1. job \in Copying
      BY <1>1, <2>3, JobOf
    <3>2. job' \in Copying /\ job'.overtaken = TRUE
      BY <2>1, <3>1 DEF Copying
    <3>3. job'.step = "images" /\ job'.hashes = job.hashes /\ job'.source = job.source
          /\ job'.rtl = job.rtl /\ job'.files = job.files
      BY <2>1, <2>3, <3>1 DEF Copying
    <3>4. QED BY <2>3, <3>2, <3>3 DEF Jobs
  <2>4. CASE job.step = "dmem"
    <3>1. job \in CopyingDmem
      BY <1>1, <2>4, JobOf
    <3>2. job' \in CopyingDmem /\ job'.overtaken = TRUE
      BY <2>1, <3>1 DEF CopyingDmem
    <3>3. job'.step = "dmem" /\ job'.hashes = job.hashes /\ job'.source = job.source
          /\ job'.rtl = job.rtl /\ job'.files = job.files
      BY <2>1, <2>4, <3>1 DEF CopyingDmem
    <3>4. QED BY <2>4, <3>2, <3>3 DEF Jobs
  <2>5. CASE job.step = "route"
    <3>1. job \in Routing
      BY <1>1, <2>5, JobOf
    <3>2. job' \in Routing /\ job'.overtaken = TRUE
      BY <2>1, <3>1 DEF Routing
    <3>3. job'.step = "route" /\ job'.hashes = job.hashes /\ job'.source = job.source
          /\ job'.rtl = job.rtl /\ job'.files = job.files
      BY <2>1, <2>5, <3>1 DEF Routing
    <3>4. QED BY <2>5, <3>2, <3>3 DEF Jobs
  <2>6. QED BY <1>3, <2>2, <2>3, <2>4, <2>5
<1>4. QED BY <1>2, <1>3

LEMMA EditStep == FlowInv /\ Flow!Edit => FlowInv'
<1> SUFFICES ASSUME FlowInv, Flow!Edit PROVE FlowInv'
  OBVIOUS
<1>1. PICK p \in Flow!Parts :
        /\ \E v : work' = [work EXCEPT ![p] = v]
        /\ job' = IF p # "firmware" /\ job.step \in {"stage", "images", "dmem", "route"}
                  THEN [job EXCEPT !.overtaken = TRUE] ELSE job
  BY DEF Flow!Edit
<1>2. UNCHANGED <<history, image, firmware, published, backup, collecting, record>>
  BY DEF Flow!Edit, Flow!images, Flow!outputs, Flow!results
<1>3. TreeInv' /\ ImageInv' /\ Grown(Past', history') /\ returned \subseteq returned'
  BY EditTree
<1>4. JobInv /\ work \in Contents
  BY DEF FlowInv, TreeInv
<1>5. JobInv'
  <2>1. CASE job' = job /\ (job.step = "stage" => p = "firmware")
    <3>1. p = "firmware" => work'["rtl"] = work["rtl"]
      BY <1>1, <1>4 DEF Contents, Flow!Parts
    <3>2. QED BY <1>2, <1>3, <2>1, <3>1, JobKept
  <2>2. CASE job'.overtaken /\ job.step \in {"stage", "images", "dmem", "route"}
    <3>1. /\ job' \in Jobs /\ job'.step = job.step /\ job'.hashes = job.hashes
          /\ job'.source = job.source /\ job'.rtl = job.rtl
          /\ job.step # "stage" => job'.files = job.files
      BY <1>1, <2>2, EditJob
    <3>2. \A x \in Hashed(job.step) :
            image[x] \in Nat /\ (job.hashes[x] = image[x] \/ job.hashes[x] \in Past')
      BY <1>3, <1>4 DEF JobInv, Grown
    <3>3. \A x \in Copied(job.step) :
            job.hashes[x] = job.files[x] \/ job.hashes[x] \in Past'
      BY <1>3, <1>4 DEF JobInv, Grown
    <3>4. job.step = "stage" => Copied(job.step) = {}
      BY DEF Copied
    <3>5. Named(history, job.source, job.rtl)
      BY <1>4, <2>2 DEF JobInv
    <3>6. QED BY <1>2, <2>2, <3>1, <3>2, <3>3, <3>4, <3>5 DEF JobInv
  <2>3. QED BY <1>1, <2>1, <2>2, EditJob
<1>6. job' = job \/ job'.step \notin {"replace", "drop"}
  BY <1>1, EditJob
<1>7. OutputInv' /\ ResultInv'
  BY <1>2, <1>3, <1>6, OthersKept
<1>8. QED BY <1>3, <1>5, <1>7 DEF FlowInv

LEMMA CommitStep == FlowInv /\ Flow!Commit => FlowInv'
<1> SUFFICES ASSUME FlowInv, Flow!Commit PROVE FlowInv'
  OBVIOUS
<1>1. /\ history' = Append(history, work)
      /\ UNCHANGED <<work, versions, returned, image, firmware, published, backup, job,
                     collecting, record>>
  BY DEF Flow!Commit, Flow!images, Flow!outputs, Flow!results
<1>2. TreeInv /\ ImageInv
  BY DEF FlowInv
<1>3. TreeInv' /\ \A i \in 1..Len(history) : i \in 1..Len(history') /\ history'[i] = history[i]
  BY <1>1, <1>2 DEF TreeInv
<1>4. Past' = Past
  BY <1>1, SamePast
<1>5. Grown(Past', history') /\ ImageInv'
  BY <1>1, <1>2, <1>3, <1>4 DEF Grown, ImageInv
<1>6. JobInv'
  BY <1>1, <1>5, JobKept
<1>7. OutputInv' /\ ResultInv'
  BY <1>1, <1>5, OthersKept
<1>8. QED BY <1>3, <1>5, <1>6, <1>7 DEF FlowInv

-----------------------------------------------------------------------------
(* make soc-firmware.                                                      *)

\* New images disturb nobody.
LEMMA ImagesMove ==
  ASSUME FlowInv, ImageInv', Past \subseteq Past',
         \A x \in Images : image[x] \in Nat =>
           image'[x] \in Nat /\ (image[x] = image'[x] \/ image[x] \in Past'),
         UNCHANGED <<history, work, versions, returned, published, backup, job, collecting, record>>
  PROVE  FlowInv'
<1>1. Grown(Past', history')
  BY DEF Grown
<1>2. JobInv' /\ OutputInv' /\ ResultInv'
  BY <1>1, JobKept, OthersKept
<1>3. TreeInv'
  BY DEF FlowInv, TreeInv
<1>4. QED BY <1>2, <1>3 DEF FlowInv

\* The fields of the image directory, and what soc_image.py has in memory.
LEMMA ImageFields ==
  ASSUME ImageInv
  PROVE  /\ image = [elf |-> image.elf, imem |-> image.imem, dmem |-> image.dmem,
                     manifest |-> image.manifest]
         /\ image.elf \in Version /\ image.imem \in Version /\ image.dmem \in Version
         /\ firmware # Flow!Idle => firmware.elf \in Nat /\ image.elf = firmware.elf
         /\ firmware.step \in {"imem", "dmem", "manifest"} =>
              firmware \in [step : {"imem", "dmem", "manifest"}, elf : Nat]
BY DEF ImageInv, Flow!Idle

LEMMA FirmwareStep == FlowInv /\ Flow!Firmware => FlowInv'
<1> SUFFICES ASSUME FlowInv, Flow!Firmware PROVE FlowInv'
  OBVIOUS
<1>1. /\ TreeInv /\ ImageInv /\ work["firmware"] \in Nat /\ versions["firmware"] \in Nat
      /\ work["firmware"] <= versions["firmware"]
  BY DEF FlowInv, TreeInv, Contents, Flow!Parts
<1>2. UNCHANGED <<history, work, versions, returned, published, backup, job, collecting, record>>
  BY DEF Flow!Firmware, Flow!LinkFirmware, Flow!WriteImem, Flow!WriteDmem, Flow!WriteManifest,
     Flow!FirmwareDies, Flow!tree, Flow!outputs, Flow!results
<1>3. image.elf # None => image.elf \in Nat
  BY <1>1, ImageType
<1>4. CASE Flow!LinkFirmware
  <2>1. /\ image' = [image EXCEPT !.elf = work["firmware"]]
        /\ firmware' = [step |-> "imem", elf |-> work["firmware"]]
    BY <1>4 DEF Flow!LinkFirmware
  <2>2. image'.elf = work["firmware"] /\ image'.imem = image.imem /\ image'.dmem = image.dmem
        /\ image'.manifest = image.manifest
    BY <1>1, <2>1, ImageFields
  <2>3. \A x \in Images : image'[x] = image[x]
    BY <2>2 DEF Images
  <2>4. Past \subseteq Past'
    BY <1>2, <2>2 DEF Past
  <2>5. \A x \in Images : image[x] # None => image[x] = work["firmware"] \/ image[x] \in Past'
    <3>1. SUFFICES ASSUME NEW x \in Images, image[x] # None, image[x] # work["firmware"]
                   PROVE  image[x] \in Past'
      OBVIOUS
    <3>2. CASE image[x] = image.elf
      <4>1. image[x] \in 0 .. versions["firmware"]
        BY <1>1, <1>3, <3>1, <3>2 DEF ImageInv
      <4>2. QED BY <1>2, <2>2, <3>1, <4>1 DEF Past
    <3>3. CASE image[x] \in Past
      BY <2>4, <3>3
    <3>4. QED BY <1>1, <3>1, <3>2, <3>3 DEF ImageInv
  <2>6. ImageInv'
    <3>1. image' \in [elf : Version, imem : Version, dmem : Version,
                      manifest : [elf : Version, imem : Version, dmem : Version] \cup {None}]
      BY <1>1, <2>1 DEF ImageInv, Version
    <3>2. QED BY <1>1, <1>2, <2>1, <2>2, <2>3, <2>5, <3>1 DEF ImageInv, Flow!Idle
  <2>7. QED BY <1>2, <2>3, <2>4, <2>6, ImagesMove
<1>5. ASSUME NEW f \in Images, firmware.step = f, image' = [image EXCEPT ![f] = firmware.elf],
             firmware' = [firmware EXCEPT !.step = IF f = "imem" THEN "dmem" ELSE "manifest"]
      PROVE  FlowInv'
  <2>1. /\ firmware \in [step : {"imem", "dmem", "manifest"}, elf : Nat]
        /\ image.elf = firmware.elf /\ firmware.elf \in Nat
    BY <1>1, <1>5, ImageFields DEF Images, Flow!Idle
  <2>2. firmware.elf # None
    BY <2>1, FlowAssumption
  <2>3. image'[f] = firmware.elf /\ image'.elf = image.elf /\ image'.manifest = image.manifest
        /\ \A x \in Images \ {f} : image'[x] = image[x]
    BY <1>1, <1>5, ImageFields DEF Images
  <2>4. Past' = Past
    BY <1>2, <2>3, SamePast
  <2>5. /\ firmware'.step = (IF f = "imem" THEN "dmem" ELSE "manifest")
        /\ firmware'.elf = firmware.elf
        /\ firmware' \in [step : {"imem", "dmem", "manifest"}, elf : Nat]
    BY <1>5, <2>1
  <2>6. ImageInv'
    <3>1. image' \in [elf : Version, imem : Version, dmem : Version,
                      manifest : [elf : Version, imem : Version, dmem : Version] \cup {None}]
      BY <1>1, <1>5, <2>1 DEF ImageInv, Version, Images
    <3>2. \A x \in Images : image'[x] # None => image'[x] = image'.elf \/ image'[x] \in Past'
      BY <1>1, <2>1, <2>3, <2>4 DEF ImageInv
    <3>3. f = "dmem" => image.imem = firmware.elf
      BY <1>1, <1>5 DEF ImageInv
    <3>4. QED BY <1>1, <1>2, <2>1, <2>3, <2>5, <3>1, <3>2, <3>3 DEF ImageInv, Images
  <2>7. \A x \in Images : image[x] \in Nat =>
          image'[x] \in Nat /\ (image[x] = image'[x] \/ image[x] \in Past')
    <3>1. \A x \in Images : image[x] \in Nat => image[x] = image.elf \/ image[x] \in Past
      BY <1>1, FlowAssumption DEF ImageInv
    <3>2. QED BY <2>1, <2>3, <2>4, <3>1
  <2>8. QED BY <1>2, <2>4, <2>6, <2>7, ImagesMove
<1>6. CASE Flow!WriteImem
  BY <1>5, <1>6 DEF Flow!WriteImem, Images
<1>7. CASE Flow!WriteDmem
  BY <1>5, <1>7 DEF Flow!WriteDmem, Images
<1>8. CASE Flow!WriteManifest
  <2>1. /\ image' = [image EXCEPT !.manifest = Flow!FilesOnDisk] /\ firmware' = Flow!Idle
        /\ firmware.step = "manifest"
    BY <1>8 DEF Flow!WriteManifest
  <2>2. /\ image.imem = firmware.elf /\ image.dmem = firmware.elf /\ image.elf = firmware.elf
        /\ firmware.elf \in Nat
    BY <1>1, <2>1, ImageFields DEF ImageInv, Flow!Idle
  <2>3. image'.elf = image.elf /\ image'.imem = image.imem /\ image'.dmem = image.dmem
        /\ image'.manifest = Flow!FilesOnDisk
    BY <1>1, <2>1, ImageFields
  <2>4. Whole(Flow!FilesOnDisk)
        /\ Flow!FilesOnDisk \in [elf : Version, imem : Version, dmem : Version]
    BY <2>2 DEF Whole, Flow!FilesOnDisk, Version
  <2>5. \A x \in Images : image'[x] = image[x]
    BY <2>3 DEF Images
  <2>6. Past' = Past
    BY <1>2, <2>3, SamePast
  <2>7. ImageInv'
    <3>1. image' \in [elf : Version, imem : Version, dmem : Version,
                      manifest : [elf : Version, imem : Version, dmem : Version] \cup {None}]
      BY <1>1, <2>1, <2>4 DEF ImageInv
    <3>2. QED BY <1>1, <1>2, <2>1, <2>3, <2>4, <2>5, <2>6, <3>1 DEF ImageInv, Flow!Idle
  <2>8. QED BY <1>2, <2>5, <2>6, <2>7, ImagesMove
<1>9. CASE Flow!FirmwareDies
  <2>1. image' = image /\ firmware' = Flow!Idle
    BY <1>9 DEF Flow!FirmwareDies
  <2>2. Past' = Past
    BY <1>2, <2>1, SamePast
  <2>3. ImageInv'
    BY <1>1, <1>2, <2>1, <2>2 DEF ImageInv, Flow!Idle
  <2>4. QED BY <1>1, <1>2, <2>1, <2>2, <2>3, ImagesMove
<1>10. QED BY <1>4, <1>6, <1>7, <1>8, <1>9 DEF Flow!Firmware

-----------------------------------------------------------------------------
(* run_board.py.                                                           *)

\* A step of a run that keeps its own invariants disturbs nobody else.
LEMMA RunMoves ==
  ASSUME FlowInv, JobInv', OutputInv',
         UNCHANGED <<history, work, versions, returned, image, firmware, collecting, record>>
  PROVE  FlowInv'
<1>1. Past' = Past
  BY SamePast
<1>2. QED BY <1>1 DEF FlowInv, TreeInv, ImageInv, ResultInv, SocRecordIsGenuine,
                     Flow!SocRecordIsGenuine

LEMMA RunWorks ==
  ASSUME FlowInv, JobInv',
         UNCHANGED <<history, work, versions, returned, image, firmware, published, backup,
                     collecting, record>>,
         job'.step \notin {"replace", "drop"}
  PROVE  FlowInv'
<1>1. Past' = Past
  BY SamePast
<1>2. OutputInv'
  BY <1>1 DEF FlowInv, OutputInv
<1>3. QED BY <1>2, RunMoves

LEMMA HashStep == FlowInv /\ (Flow!HashImem \/ Flow!HashDmem) => FlowInv'
<1> SUFFICES ASSUME FlowInv, Flow!HashImem \/ Flow!HashDmem PROVE FlowInv'
  OBVIOUS
<1>1. JobInv /\ ImageInv
  BY DEF FlowInv
<1>2. UNCHANGED <<history, work, versions, returned, image, firmware, published, backup,
                 collecting, record>>
  BY DEF Flow!HashImem, Flow!HashDmem, Flow!tree, Flow!images, Flow!outputs, Flow!results
<1>3. Past' = Past
  BY <1>2, SamePast
<1>4. CASE Flow!HashImem
  <2>1. PICK kind \in Requested :
          job' = [step |-> "hash", kind |-> kind, hashes |-> [imem |-> image.imem]]
    BY <1>4 DEF Flow!HashImem
  <2>2. image["imem"] \in Nat
    BY <1>1, <1>4, ImageType DEF Flow!HashImem, Images
  <2>3. job' \in Hashing /\ job'.step = "hash" /\ job'.hashes["imem"] = image["imem"]
    BY <2>1, <2>2, FlowAssumption DEF Hashing
  <2>4. JobInv'
    BY <1>2, <2>2, <2>3 DEF JobInv, Jobs, Hashed, Copied
  <2>5. QED BY <1>2, <2>3, <2>4, RunWorks
<1>5. CASE Flow!HashDmem
  <2>1. /\ job.step = "hash"
        /\ job' = [step |-> "identify", kind |-> job.kind,
                   hashes |-> [imem |-> job.hashes.imem, dmem |-> image.dmem]]
    BY <1>5 DEF Flow!HashDmem
  <2>2. image["dmem"] \in Nat /\ job \in Hashing
    BY <1>1, <1>5, <2>1, ImageType, JobOf DEF Flow!HashDmem, Images, JobInv
  <2>3. job.hashes["imem"] = image["imem"] \/ job.hashes["imem"] \in Past
    BY <1>1, <2>1 DEF JobInv, Hashed
  <2>4. image["imem"] \in Nat
    BY <1>1, <2>1 DEF JobInv, Hashed
  <2>5. job' \in Identifying /\ job'.step = "identify"
        /\ job'.hashes["imem"] = job.hashes["imem"] /\ job'.hashes["dmem"] = image["dmem"]
    BY <2>1, <2>2 DEF Hashing, Identifying, Hashes
  <2>6. \A x \in Images :
          image[x] \in Nat /\ (job'.hashes[x] = image[x] \/ job'.hashes[x] \in Past)
    BY <2>2, <2>3, <2>4, <2>5 DEF Images
  <2>7. JobInv'
    BY <1>2, <1>3, <2>5, <2>6 DEF JobInv, Jobs, Hashed, Copied
  <2>8. QED BY <1>2, <2>5, <2>7, RunWorks
<1>6. QED BY <1>4, <1>5

LEMMA IdentifyStep == FlowInv /\ Flow!source_identity => FlowInv'
<1> SUFFICES ASSUME FlowInv, Flow!source_identity PROVE FlowInv'
  OBVIOUS
<1>1. TreeInv /\ JobInv /\ job.step = "identify" /\ work = history[Len(history)]
  BY DEF FlowInv, Flow!source_identity, Flow!Clean, Flow!HEAD
<1>2. PICK rtl \in 1..Len(history) :
        /\ history[rtl].rtl = history[Len(history)].rtl
        /\ job' = [step |-> "stage", kind |-> job.kind, overtaken |-> FALSE,
                   hashes |-> job.hashes, source |-> Len(history), rtl |-> rtl]
  BY DEF Flow!source_identity, Flow!HEAD
<1>3. UNCHANGED <<history, work, versions, returned, image, firmware, published, backup,
                 collecting, record>>
  BY DEF Flow!source_identity, Flow!tree, Flow!images, Flow!outputs, Flow!results
<1>4. job \in Identifying
  BY <1>1, JobOf DEF JobInv
<1>5. Len(history) \in Nat /\ rtl \in Nat /\ Len(history) \in 1..Len(history)
  BY <1>1 DEF TreeInv
<1>6. job' \in Staging
  BY <1>2, <1>4, <1>5 DEF Identifying, Staging
<1>7. /\ job'.step = "stage" /\ job'.hashes = job.hashes /\ job'.source = Len(history)
      /\ job'.rtl = rtl
  BY <1>2
<1>8. Past' = Past
  BY <1>3, SamePast
<1>9. JobInv'
  <2>1. \A x \in Images : image[x] \in Nat /\ (job.hashes[x] = image[x] \/ job.hashes[x] \in Past)
    BY <1>1 DEF JobInv, Hashed
  <2>2. Named(history, Len(history), rtl) /\ work["rtl"] = history[Len(history)].rtl
    BY <1>1, <1>2, <1>5 DEF Named
  <2>3. QED BY <1>3, <1>6, <1>7, <1>8, <2>1, <2>2 DEF JobInv, Jobs, Hashed, Copied
<1>10. QED BY <1>3, <1>7, <1>9, RunWorks

LEMMA StageSourcesStep == FlowInv /\ Flow!StageSources => FlowInv'
<1> SUFFICES ASSUME FlowInv, Flow!StageSources PROVE FlowInv'
  OBVIOUS
<1>1. JobInv /\ TreeInv /\ job.step = "stage"
  BY DEF FlowInv, Flow!StageSources
<1>2. job' = [step |-> "images", kind |-> job.kind, overtaken |-> job.overtaken,
              hashes |-> job.hashes, source |-> job.source, rtl |-> job.rtl,
              files |-> [rtl |-> work.rtl, xdc |-> work.xdc]]
  BY DEF Flow!StageSources
<1>3. UNCHANGED <<history, work, versions, returned, image, firmware, published, backup,
                 collecting, record>>
  BY DEF Flow!StageSources, Flow!tree, Flow!images, Flow!outputs, Flow!results
<1>4. job \in Staging
  BY <1>1, JobOf DEF JobInv
<1>5. work.rtl \in Nat /\ work.xdc \in Nat
  BY <1>1 DEF TreeInv, Contents, Flow!Parts
<1>6. job' \in Copying
  BY <1>2, <1>4, <1>5 DEF Staging, Copying
<1>7. /\ job'.step = "images" /\ job'.hashes = job.hashes /\ job'.source = job.source
      /\ job'.rtl = job.rtl /\ job'.overtaken = job.overtaken /\ job'.files.rtl = work.rtl
  BY <1>2
<1>8. Past' = Past
  BY <1>3, SamePast
<1>9. JobInv'
  <2>1. \A x \in Images : image[x] \in Nat /\ (job.hashes[x] = image[x] \/ job.hashes[x] \in Past)
    BY <1>1 DEF JobInv, Hashed
  <2>2. QED BY <1>1, <1>3, <1>6, <1>7, <1>8, <2>1 DEF JobInv, Jobs, Hashed, Copied
<1>10. QED BY <1>3, <1>7, <1>9, RunWorks

LEMMA StageImemStep == FlowInv /\ Flow!StageImem => FlowInv'
<1> SUFFICES ASSUME FlowInv, Flow!StageImem PROVE FlowInv'
  OBVIOUS
<1>1. JobInv /\ job.step = "images"
  BY DEF FlowInv, Flow!StageImem
<1>2. job' = [job EXCEPT !.step = "dmem",
                         !.files = [rtl |-> @.rtl, xdc |-> @.xdc, imem |-> image.imem]]
  BY DEF Flow!StageImem
<1>3. UNCHANGED <<history, work, versions, returned, image, firmware, published, backup,
                 collecting, record>>
  BY DEF Flow!StageImem, Flow!tree, Flow!images, Flow!outputs, Flow!results
<1>4. job \in Copying /\ Past' = Past
  BY <1>1, <1>3, JobOf, SamePast DEF JobInv
<1>5. \A x \in Images : image[x] \in Nat /\ (job.hashes[x] = image[x] \/ job.hashes[x] \in Past)
  BY <1>1 DEF JobInv, Hashed
<1>6. /\ job'.step = "dmem" /\ job'.hashes = job.hashes /\ job'.source = job.source
      /\ job'.rtl = job.rtl /\ job'.overtaken = job.overtaken
      /\ job'.files = [rtl |-> job.files.rtl, xdc |-> job.files.xdc, imem |-> image.imem]
  BY <1>2, <1>4 DEF Copying
<1>7. job'.files.rtl = job.files.rtl /\ job'.files["imem"] = image["imem"]
  BY <1>6
<1>8. job' \in CopyingDmem
  <2>1. job' = [step |-> "dmem", kind |-> job.kind, overtaken |-> job.overtaken,
                hashes |-> job.hashes, source |-> job.source, rtl |-> job.rtl,
                files |-> [rtl |-> job.files.rtl, xdc |-> job.files.xdc, imem |-> image.imem]]
    BY <1>2, <1>4 DEF Copying
  <2>2. image.imem \in Nat
    BY <1>5 DEF Images
  <2>3. QED BY <1>4, <2>1, <2>2 DEF Copying, CopyingDmem
<1>9. JobInv'
  <2>1. \A x \in {"dmem"} : image[x] \in Nat /\ (job.hashes[x] = image[x] \/ job.hashes[x] \in Past)
    BY <1>5 DEF Images
  <2>2. \A x \in {"imem"} : job'.hashes[x] = job'.files[x] \/ job'.hashes[x] \in Past
    BY <1>5, <1>6, <1>7 DEF Images
  <2>3. QED BY <1>1, <1>3, <1>4, <1>6, <1>7, <1>8, <2>1, <2>2 DEF JobInv, Jobs, Hashed, Copied
<1>10. QED BY <1>3, <1>6, <1>9, RunWorks

LEMMA StageDmemStep == FlowInv /\ Flow!StageDmem => FlowInv'
<1> SUFFICES ASSUME FlowInv, Flow!StageDmem PROVE FlowInv'
  OBVIOUS
<1>1. JobInv /\ job.step = "dmem"
  BY DEF FlowInv, Flow!StageDmem
<1>2. job' = [job EXCEPT !.step = "route",
                         !.files = [rtl |-> @.rtl, xdc |-> @.xdc,
                                    imem |-> @.imem, dmem |-> image.dmem]]
  BY DEF Flow!StageDmem
<1>3. UNCHANGED <<history, work, versions, returned, image, firmware, published, backup,
                 collecting, record>>
  BY DEF Flow!StageDmem, Flow!tree, Flow!images, Flow!outputs, Flow!results
<1>4. job \in CopyingDmem /\ Past' = Past
  BY <1>1, <1>3, JobOf, SamePast DEF JobInv
<1>5. /\ image["dmem"] \in Nat
      /\ job.hashes["dmem"] = image["dmem"] \/ job.hashes["dmem"] \in Past
      /\ job.hashes["imem"] = job.files["imem"] \/ job.hashes["imem"] \in Past
  BY <1>1 DEF JobInv, Hashed, Copied
<1>6. /\ job'.step = "route" /\ job'.hashes = job.hashes /\ job'.source = job.source
      /\ job'.rtl = job.rtl /\ job'.overtaken = job.overtaken
      /\ job'.files = [rtl |-> job.files.rtl, xdc |-> job.files.xdc,
                       imem |-> job.files.imem, dmem |-> image.dmem]
  BY <1>2, <1>4 DEF CopyingDmem
<1>7. /\ job'.files.rtl = job.files.rtl /\ job'.files["imem"] = job.files["imem"]
      /\ job'.files["dmem"] = image["dmem"]
  BY <1>6
<1>8. job' \in Routing
  <2>1. job' = [step |-> "route", kind |-> job.kind, overtaken |-> job.overtaken,
                hashes |-> job.hashes, source |-> job.source, rtl |-> job.rtl,
                files |-> [rtl |-> job.files.rtl, xdc |-> job.files.xdc,
                           imem |-> job.files.imem, dmem |-> image.dmem]]
    BY <1>2, <1>4 DEF CopyingDmem
  <2>2. QED BY <1>4, <1>5, <2>1 DEF CopyingDmem, Routing, Files
<1>9. JobInv'
  <2>1. \A x \in Images : job'.hashes[x] = job'.files[x] \/ job'.hashes[x] \in Past
    BY <1>5, <1>6, <1>7 DEF Images
  <2>2. QED BY <1>1, <1>3, <1>4, <1>6, <1>7, <1>8, <2>1 DEF JobInv, Jobs, Hashed, Copied
<1>10. QED BY <1>3, <1>6, <1>9, RunWorks

\* What a run is going to publish.
LEMMA Prepared ==
  ASSUME FlowInv, job.step = "route", NEW m,
         m.source = job.source, m.rtl = job.rtl, m.firmware = job.hashes, m.outputs = job.files,
         \/ m \in [source : Nat, rtl : Nat, firmware : Hashes, xdc : Nat, outputs : Files]
         \/ m \in [source : Nat, rtl : Nat, firmware : Hashes, outputs : Files],
         job' = [step |-> "aside", kind |-> job.kind,
                 set |-> [files |-> job.files, overtaken |-> job.overtaken, manifest |-> m]],
         UNCHANGED <<history, work, versions, returned, image, firmware, published, backup,
                     collecting, record>>
  PROVE  FlowInv'
<1>1. JobInv /\ job \in Routing /\ Past' = Past
  BY JobOf, SamePast DEF FlowInv, JobInv
<1>2. job'.step = "aside" /\ job'.set.files = job.files /\ job'.set.manifest = m
      /\ job'.set.overtaken = job.overtaken
  OBVIOUS
<1>3. job'.set \in ResultSet
  BY <1>1 DEF ResultSet, Routing
<1>4. job' \in Leaving
  BY <1>1, <1>3 DEF Leaving, Routing
<1>5. Good(Past, history, job'.set)
  BY <1>1, <1>2, <1>3 DEF Good, Bound, JobInv, Routing, Copied
<1>6. JobInv'
  BY <1>1, <1>2, <1>4, <1>5 DEF JobInv, Jobs, Hashed, Copied
<1>7. QED BY <1>2, <1>6, RunWorks

LEMMA RouteStep == FlowInv /\ (Flow!run_build \/ Flow!run_timing_sim) => FlowInv'
<1> SUFFICES ASSUME FlowInv, Flow!run_build \/ Flow!run_timing_sim PROVE FlowInv'
  OBVIOUS
<1>1. job.step = "route" /\ job \in Routing /\ work.xdc \in Nat
  BY JobOf DEF FlowInv, JobInv, TreeInv, Contents, Flow!Parts, Flow!run_build, Flow!run_timing_sim
<1>2. UNCHANGED <<history, work, versions, returned, image, firmware, published, backup,
                 collecting, record>>
  BY DEF Flow!run_build, Flow!run_timing_sim, Flow!tree, Flow!images, Flow!outputs, Flow!results
<1>3. CASE Flow!run_build
  <2> DEFINE m == [source |-> job.source, rtl |-> job.rtl, firmware |-> job.hashes,
                   xdc |-> work.xdc, outputs |-> job.files]
  <2>1. m \in [source : Nat, rtl : Nat, firmware : Hashes, xdc : Nat, outputs : Files]
    BY <1>1 DEF Routing
  <2>2. QED BY <1>1, <1>2, <1>3, <2>1, Prepared DEF Flow!run_build
<1>4. CASE Flow!run_timing_sim
  <2> DEFINE m == [source |-> job.source, rtl |-> job.rtl, firmware |-> job.hashes,
                   outputs |-> job.files]
  <2>1. m \in [source : Nat, rtl : Nat, firmware : Hashes, outputs : Files]
    BY <1>1 DEF Routing
  <2>2. QED BY <1>1, <1>2, <1>4, <2>1, Prepared DEF Flow!run_timing_sim
<1>5. QED BY <1>3, <1>4

LEMMA AsideStep == FlowInv /\ Flow!MoveAside => FlowInv'
<1> SUFFICES ASSUME FlowInv, Flow!MoveAside PROVE FlowInv'
  OBVIOUS
<1>1. JobInv /\ OutputInv /\ job.step = "aside" /\ job \in Leaving
  BY JobOf DEF FlowInv, JobInv, Flow!MoveAside
<1>2. /\ backup' = [backup EXCEPT ![job.kind] = @ \cup ({published[job.kind]} \ {None})]
      /\ published' = [published EXCEPT ![job.kind] = None]
      /\ job' = [step |-> "replace", kind |-> job.kind, set |-> job.set,
                 old |-> published[job.kind]]
      /\ UNCHANGED <<history, work, versions, returned, image, firmware, collecting, record>>
  BY DEF Flow!MoveAside, Flow!tree, Flow!images, Flow!results
<1>3. job.kind \in Flow!Kinds /\ job.set \in ResultSet
  BY <1>1 DEF Leaving
<1>4. published[job.kind] \in ResultSet \cup {None} /\ Past' = Past
  BY <1>1, <1>2, <1>3, SamePast DEF OutputInv
<1>5. job' \in Replacing /\ job'.step = "replace" /\ job'.set = job.set
      /\ job'.old = published[job.kind] /\ job'.kind = job.kind
  BY <1>2, <1>3, <1>4 DEF Replacing
<1>6. JobInv'
  BY <1>1, <1>2, <1>3, <1>4, <1>5 DEF JobInv, Jobs, OutputInv, Hashed, Copied
<1>7. OutputInv'
  BY <1>1, <1>2, <1>3, <1>4, <1>5 DEF OutputInv
<1>8. QED BY <1>2, <1>6, <1>7, RunMoves

LEMMA ReplaceStep == FlowInv /\ Flow!Replace => FlowInv'
<1> SUFFICES ASSUME FlowInv, Flow!Replace PROVE FlowInv'
  OBVIOUS
<1>1. JobInv /\ OutputInv /\ job.step = "replace" /\ job \in Replacing
  BY JobOf DEF FlowInv, JobInv, Flow!Replace
<1>2. UNCHANGED <<history, work, versions, returned, image, firmware, collecting, record>>
  BY DEF Flow!Replace, Flow!tree, Flow!images, Flow!results
<1>3. job.kind \in Flow!Kinds /\ job.set \in ResultSet /\ job.old \in ResultSet \cup {None}
      /\ job.set # None
  BY <1>1, FlowAssumption DEF Replacing
<1>4. /\ Good(Past, history, job.set) /\ (job.old # None => Good(Past, history, job.old))
      /\ Past' = Past
  BY <1>1, <1>2, SamePast DEF JobInv
<1>5. CASE /\ published' = [published EXCEPT ![job.kind] = job.set]
           /\ job' = [step |-> "drop", kind |-> job.kind, old |-> job.old]
           /\ UNCHANGED <<backup, faults>>
  <2>1. job' \in Dropping /\ job'.step = "drop" /\ job'.old = job.old /\ job'.kind = job.kind
    BY <1>3, <1>5 DEF Dropping
  <2>2. JobInv'
    BY <1>2, <1>4, <2>1 DEF JobInv, Jobs, Hashed, Copied
  <2>3. OutputInv'
    BY <1>1, <1>2, <1>3, <1>4, <1>5, <2>1 DEF OutputInv
  <2>4. QED BY <1>2, <2>2, <2>3, RunMoves
<1>6. CASE /\ published' = [published EXCEPT ![job.kind] = job.old]
           /\ backup' = [backup EXCEPT ![job.kind] = @ \ {job.old}]
           /\ job' = Flow!Idle
  <2>1. JobInv'
    BY <1>6 DEF JobInv, Jobs, Flow!Idle, Hashed, Copied
  <2>2. OutputInv'
    BY <1>1, <1>2, <1>3, <1>4, <1>6 DEF OutputInv, Flow!Idle
  <2>3. QED BY <1>2, <2>1, <2>2, RunMoves
<1>7. QED BY <1>5, <1>6 DEF Flow!Replace

LEMMA EndStep == FlowInv /\ (Flow!DropBackup \/ Flow!BoardRunEnds) => FlowInv'
<1> SUFFICES ASSUME FlowInv, Flow!DropBackup \/ Flow!BoardRunEnds PROVE FlowInv'
  OBVIOUS
<1>1. JobInv /\ OutputInv
  BY DEF FlowInv
<1>2. /\ job' = Flow!Idle /\ published' = published
      /\ UNCHANGED <<history, work, versions, returned, image, firmware, collecting, record>>
      /\ backup' = backup \/ backup' = [backup EXCEPT ![job.kind] = @ \ {job.old}]
  BY DEF Flow!DropBackup, Flow!BoardRunEnds, Flow!tree, Flow!images, Flow!outputs, Flow!results
<1>3. JobInv'
  BY <1>2 DEF JobInv, Jobs, Flow!Idle, Hashed, Copied
<1>4. backup' \in [Flow!Kinds -> SUBSET ResultSet] /\ Past' = Past
  BY <1>1, <1>2, SamePast DEF OutputInv
<1>5. OutputInv'
  BY <1>1, <1>2, <1>4 DEF OutputInv, Flow!Idle
<1>6. QED BY <1>2, <1>3, <1>5, RunMoves

-----------------------------------------------------------------------------
(* collect-soc.                                                            *)

LEMMA LoadStep == FlowInv /\ Flow!LoadRecords => FlowInv'
<1> SUFFICES ASSUME FlowInv, Flow!LoadRecords PROVE FlowInv'
  OBVIOUS
<1>1. ImageInv /\ OutputInv /\ ResultInv
  BY DEF FlowInv
<1>2. PICK full \in Flow!Receipts, soc \in Flow!Receipts :
        collecting' = [board |-> published["build"].manifest,
                       overtaken |-> published["build"].overtaken,
                       firmware |-> image.manifest, full |-> full, soc |-> soc]
  BY DEF Flow!LoadRecords
<1>3. /\ published["build"] # None /\ image.manifest # None
      /\ UNCHANGED <<history, work, versions, returned, image, firmware, published, backup, job,
                     record>>
  BY DEF Flow!LoadRecords, Flow!tree, Flow!images, Flow!outputs
<1>4. Good(Past, history, published["build"]) /\ Whole(image.manifest) /\ Past' = Past
  BY <1>1, <1>3, SamePast DEF OutputInv, ImageInv, Flow!Kinds
<1>5. ResultInv'
  BY <1>1, <1>2, <1>3, <1>4 DEF ResultInv, Good, SocRecordIsGenuine, Flow!SocRecordIsGenuine
<1>6. QED BY <1>3, <1>4, <1>5 DEF FlowInv, TreeInv, ImageInv, JobInv, OutputInv

LEMMA CollectStep == FlowInv /\ Flow!collect_soc => FlowInv'
<1> SUFFICES ASSUME FlowInv, Flow!collect_soc PROVE FlowInv'
  OBVIOUS
<1> DEFINE c == collecting
<1>1. ImageInv /\ OutputInv /\ ResultInv
  BY DEF FlowInv
<1>2. c # None /\ collecting' = None
      /\ UNCHANGED <<history, work, versions, returned, image, firmware, published, backup, job>>
  BY DEF Flow!collect_soc, Flow!tree, Flow!images, Flow!outputs
<1>3. Bound(Past, history, c.board, c.overtaken) /\ Whole(c.firmware) /\ Past' = Past
  BY <1>1, <1>2, SamePast DEF ResultInv
<1>4. CASE record' = record
  <2>1. ResultInv'
    BY <1>1, <1>2, <1>4 DEF ResultInv, SocRecordIsGenuine, Flow!SocRecordIsGenuine
  <2>2. QED BY <1>2, <1>3, <2>1 DEF FlowInv, TreeInv, ImageInv, JobInv, OutputInv
<1>5. CASE /\ Flow!require_artifact_hash(c) /\ Flow!FirmwareMatches(c)
           /\ record' = [tooling |-> c.board.source, rtl |-> c.board.rtl,
                         firmware |-> c.firmware, bitstream |-> published["build"].files,
                         overtaken |-> c.overtaken]
  <2>1. published["build"].files = c.board.outputs /\ Flow!FilesOnDisk = c.firmware
    BY <1>5 DEF Flow!require_artifact_hash
  <2>2. \A x \in Images : image[x] = c.firmware.elf /\ c.board.firmware[x] = c.firmware.elf
    <3>1. image.imem = c.firmware.imem /\ image.dmem = c.firmware.dmem
      BY <2>1 DEF Flow!FilesOnDisk
    <3>2. c.board.firmware.imem = c.firmware.imem /\ c.board.firmware.dmem = c.firmware.dmem
      BY <1>5 DEF Flow!FirmwareMatches
    <3>3. QED BY <1>3, <3>1, <3>2 DEF Whole, Images
  <2>3. c.firmware.elf \notin returned => \A x \in Images : c.board.outputs[x] = c.firmware.elf
    <3>1. image.elf = c.firmware.elf
      BY <2>1 DEF Flow!FilesOnDisk
    <3>2. c.firmware.elf \notin returned => c.firmware.elf \notin Past
      BY <3>1 DEF Past
    <3>3. QED BY <1>3, <2>2, <3>2 DEF Bound
  <2>4. Named(history, c.board.source, c.board.rtl)
        /\ (~c.overtaken => history[c.board.source].rtl = c.board.outputs.rtl)
    BY <1>3 DEF Bound
  <2>5. /\ record'.bitstream = c.board.outputs /\ record'.firmware.elf = c.firmware.elf
        /\ record'.rtl = c.board.rtl /\ record'.tooling = c.board.source
        /\ record'.overtaken = c.overtaken
    BY <1>5, <2>1
  <2>6. record'.firmware.elf \notin returned =>
          {record'.bitstream.imem, record'.bitstream.dmem} = {record'.firmware.elf}
    BY <2>3, <2>5 DEF Images
  <2>7. ResultInv'
    BY <1>2, <2>4, <2>5, <2>6 DEF ResultInv, Named, SocRecordIsGenuine, Flow!SocRecordIsGenuine
  <2>8. QED BY <1>2, <1>3, <2>7 DEF FlowInv, TreeInv, ImageInv, JobInv, OutputInv
<1>6. QED BY <1>4, <1>5 DEF Flow!collect_soc, Flow!results

-----------------------------------------------------------------------------
(* The invariant, and what it says.                                        *)

LEMMA FlowInit == Flow!Init => FlowInv
<1> SUFFICES ASSUME Flow!Init PROVE FlowInv
  OBVIOUS
<1>1. TreeInv
  <2>1. work \in Contents /\ history = <<work>>
    BY DEF Flow!Init, Contents
  <2>2. versions \in Contents /\ work["firmware"] <= versions["firmware"]
    BY DEF Flow!Init, Contents, Flow!Parts
  <2>3. QED BY <2>1, <2>2 DEF TreeInv
<1>2. ImageInv
  BY DEF Flow!Init, ImageInv, Version, Images, Flow!Idle
<1>3. JobInv /\ OutputInv /\ ResultInv
  BY DEF Flow!Init, JobInv, Jobs, Hashed, Copied, OutputInv, ResultInv, Flow!Idle,
     SocRecordIsGenuine, Flow!SocRecordIsGenuine
<1>4. QED BY <1>1, <1>2, <1>3 DEF FlowInv

LEMMA FlowStep == FlowInv /\ [Flow!Next]_(Flow!vars) => FlowInv'
<1>1. ASSUME FlowInv, UNCHANGED Flow!vars PROVE FlowInv'
  <2>1. UNCHANGED <<history, work, versions, returned, image, firmware, published, backup, job,
                   collecting, record>>
    BY <1>1 DEF Flow!vars, Flow!tree, Flow!images, Flow!outputs, Flow!results
  <2>2. Past' = Past
    BY <2>1, SamePast
  <2>3. JobInv' /\ OutputInv'
    BY <1>1, <2>1, <2>2 DEF FlowInv, JobInv, OutputInv
  <2>4. QED BY <1>1, <2>1, <2>3, RunMoves
<1>2. FlowInv /\ Flow!Board => FlowInv'
  BY HashStep, IdentifyStep, StageSourcesStep, StageImemStep, StageDmemStep, RouteStep, AsideStep,
     ReplaceStep, EndStep DEF Flow!Board
<1>3. QED BY <1>1, <1>2, EditStep, CommitStep, FirmwareStep, LoadStep, CollectStep
          DEF Flow!Next, Flow!Developer, Flow!Collection

LEMMA FlowInvariant == Flow!Spec => []FlowInv
BY FlowInit, FlowStep, PTL DEF Flow!Spec

\* However edits, commits, builds, deaths and collections interleave, soc.json
\* names the ELF in the bitstream it names, unless the sources of that ELF were
\* left and restored, and its RTL, unless the build was overtaken (collect-soc).
THEOREM RecordIsGenuine == Flow!Spec => []SocRecordIsGenuine
<1>1. FlowInv => SocRecordIsGenuine
  BY DEF FlowInv, ResultInv, SocRecordIsGenuine, Flow!SocRecordIsGenuine
<1>2. QED BY <1>1, FlowInvariant, PTL

\* Until the next set is in place the previous one is kept (replace_directory).
LEMMA HeldStep ==
  ASSUME FlowInv, [Flow!Next]_(Flow!vars), NEW k \in Flow!Kinds, Flow!Held(k)
  PROVE  Flow!Held(k)'
<1>1. OutputInv /\ JobInv
  BY DEF FlowInv
<1>2. CASE published' = published /\ backup' = backup
  BY <1>2 DEF Flow!Held
<1>3. CASE Flow!MoveAside
  <2>1. job.kind \in Flow!Kinds
    BY <1>1, <1>3, JobOf DEF JobInv, Flow!MoveAside, Leaving
  <2>2. QED BY <1>1, <1>3, <2>1 DEF Flow!MoveAside, Flow!Held, OutputInv
<1>4. CASE Flow!Replace
  <2>1. job \in Replacing /\ published[job.kind] = None
    BY <1>1, <1>4, JobOf DEF JobInv, Flow!Replace, OutputInv
  <2>2. job.kind \in Flow!Kinds /\ job.set # None
    BY <2>1, FlowAssumption DEF Replacing
  <2>3. CASE published' = [published EXCEPT ![job.kind] = job.set] /\ backup' = backup
    BY <1>1, <2>2, <2>3 DEF Flow!Held, OutputInv
  <2>4. CASE /\ published' = [published EXCEPT ![job.kind] = job.old]
             /\ backup' = [backup EXCEPT ![job.kind] = @ \ {job.old}]
    <3>1. CASE k # job.kind
      BY <1>1, <2>4, <3>1 DEF Flow!Held, OutputInv
    <3>2. CASE k = job.kind
      <4>1. backup[k] # {} /\ None \notin backup[k]
        BY <1>1, <2>1, <3>2, FlowAssumption DEF Flow!Held, OutputInv
      <4>2. published'[k] = job.old /\ backup'[k] = backup[k] \ {job.old}
        BY <1>1, <2>4, <3>2 DEF OutputInv
      <4>3. QED BY <4>1, <4>2 DEF Flow!Held
    <3>3. QED BY <3>1, <3>2
  <2>5. QED BY <1>4, <2>3, <2>4 DEF Flow!Replace
<1>5. CASE Flow!DropBackup
  <2>1. job \in Dropping /\ published[job.kind] # None /\ published' = published
    BY <1>1, <1>5, JobOf DEF JobInv, Flow!DropBackup, OutputInv
  <2>2. backup' = [backup EXCEPT ![job.kind] = @ \ {job.old}]
    BY <1>5 DEF Flow!DropBackup
  <2>3. QED BY <1>1, <2>1, <2>2 DEF Flow!Held, OutputInv, Dropping
<1>6. \/ published' = published /\ backup' = backup
      \/ Flow!MoveAside \/ Flow!Replace \/ Flow!DropBackup
  BY DEF Flow!Next, Flow!Developer, Flow!Edit, Flow!Commit, Flow!Firmware, Flow!LinkFirmware,
     Flow!WriteImem, Flow!WriteDmem, Flow!WriteManifest, Flow!FirmwareDies, Flow!Board,
     Flow!HashImem, Flow!HashDmem, Flow!source_identity, Flow!StageSources, Flow!StageImem,
     Flow!StageDmem, Flow!run_build,
     Flow!run_timing_sim, Flow!BoardRunEnds, Flow!Collection, Flow!LoadRecords, Flow!collect_soc,
     Flow!outputs, Flow!vars
<1>7. QED BY <1>2, <1>3, <1>4, <1>5, <1>6

\* No step, failure or death loses a published directory before its successor is
\* in place (replace_directory).
THEOREM DirectoriesAreKept == Flow!Spec => PublishedIsKept
<1>1. FlowInv /\ [Flow!Next]_(Flow!vars) =>
        [\A k \in Flow!Kinds : Flow!Held(k) => Flow!Held(k)']_(Flow!vars)
  BY HeldStep
<1>2. QED BY <1>1, FlowInvariant, PTL DEF Flow!Spec, PublishedIsKept, Flow!PublishedIsKept
=============================================================================
