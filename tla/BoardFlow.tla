----------------------------- MODULE BoardFlow -----------------------------
(***************************************************************************)
(* From the sources to results/soc.json: make soc-firmware links the demo   *)
(* and tools/soc_image.py turns it into memory images and their manifest,   *)
(* synthesis/soc/run_board.py stages the sources and the images, runs       *)
(* Vivado and publishes a directory with its manifest (build, and in the    *)
(* same way timing-sim), and tools/results.py collect-soc joins manifests   *)
(* and verification receipts to one record.  Edits, commits and the three   *)
(* tools interleave, and each tool may fail or die at any step.            *)
(*                                                                         *)
(* Contents are version numbers; an edit makes a new one or restores one    *)
(* that was there before, and a build of restored sources gives the bytes   *)
(* it gave then.  A SHA-256 stands for the contents it was taken of.       *)
(***************************************************************************)
EXTENDS Integers, Sequences

CONSTANTS None,
          Requested,                         \* the kinds of run that are asked for
          MaxCommits, MaxEdits, MaxFaults    \* bounds of the exploration

VARIABLES history, work,    \* the commits' contents, and the working tree's
          versions,         \* of each part, the last version that was made
          returned,         \* the versions of the firmware that were restored (history)
          image,            \* build/soc: ELF, two images and their manifest
          firmware,         \* the step soc_image.py is at, and the ELF it read
          published,        \* what each kind of run has published, or None
          backup,           \* the sets replace_directory has moved aside
          job,              \* the run of run_board.py
          collecting,       \* what collect-soc has loaded, or None
          record,           \* results/soc.json
          edits, faults

tree == <<history, work, versions, returned, edits>>
images == <<image, firmware>>
outputs == <<published, backup>>
results == <<collecting, record>>
vars == <<tree, images, outputs, job, results, faults>>

Kinds == {"build", "timing-sim"}
Parts == {"rtl", "xdc", "firmware"}
HEAD == Len(history)
Clean == work = history[HEAD]
Idle == [step |-> "idle"]

(* git log -1 -- rtl *)
RtlCommit(head) ==
  CHOOSE c \in 1..head :
    /\ c = 1 \/ history[c].rtl # history[c - 1].rtl
    /\ \A k \in c + 1 .. head : history[k].rtl = history[k - 1].rtl

Fault == faults < MaxFaults /\ faults' = faults + 1

(***************************************************************************)
(* The developer.  An edit of what a running build has yet to copy or hash  *)
(* is noted in the job (history).                                          *)
(***************************************************************************)
Edit ==
  /\ edits < MaxEdits
  /\ edits' = edits + 1
  /\ \E p \in Parts : \E v \in (0 .. versions[p] + 1) \ {work[p]} :
       /\ work' = [work EXCEPT ![p] = v]
       /\ IF v > versions[p]
          THEN versions' = [versions EXCEPT ![p] = v] /\ UNCHANGED returned
          ELSE /\ returned' = returned \cup (IF p = "firmware" THEN {v} ELSE {})
               /\ UNCHANGED versions
       /\ job' = IF p # "firmware" /\ job.step \in {"stage", "images", "dmem", "route"}
                 THEN [job EXCEPT !.overtaken = TRUE] ELSE job
  /\ UNCHANGED <<history, images, outputs, results, faults>>

Commit ==
  /\ HEAD < MaxCommits /\ ~Clean
  /\ history' = Append(history, work)
  /\ UNCHANGED <<work, versions, returned, edits, images, outputs, job, results, faults>>

(***************************************************************************)
(* make soc-firmware: the recipe runs when a target is older than the       *)
(* firmware sources.                                                       *)
(***************************************************************************)
UpToDate ==
  /\ image.manifest # None
  /\ {image.elf, image.imem, image.dmem, image.manifest.elf} = {work.firmware}

(* The link, and soc_image.py's parse_elf and build_images, in memory; no   *)
(* other make runs beside it.                                              *)
LinkFirmware ==
  /\ firmware = Idle /\ ~UpToDate
  /\ image' = [image EXCEPT !.elf = work.firmware]
  /\ firmware' = [step |-> "imem", elf |-> work.firmware]
  /\ UNCHANGED <<tree, outputs, job, results, faults>>

(* write_hex puts the whole file in place at once. *)
WriteImem ==
  /\ firmware.step = "imem"
  /\ image' = [image EXCEPT !.imem = firmware.elf]
  /\ firmware' = [firmware EXCEPT !.step = "dmem"]
  /\ UNCHANGED <<tree, outputs, job, results, faults>>

WriteDmem ==
  /\ firmware.step = "dmem"
  /\ image' = [image EXCEPT !.dmem = firmware.elf]
  /\ firmware' = [firmware EXCEPT !.step = "manifest"]
  /\ UNCHANGED <<tree, outputs, job, results, faults>>

(* The manifest hashes the files as they are on disk. *)
FilesOnDisk == [elf |-> image.elf, imem |-> image.imem, dmem |-> image.dmem]
WriteManifest ==
  /\ firmware.step = "manifest"
  /\ image' = [image EXCEPT !.manifest = FilesOnDisk]
  /\ firmware' = Idle
  /\ UNCHANGED <<tree, outputs, job, results, faults>>

FirmwareDies ==
  /\ firmware # Idle /\ Fault
  /\ firmware' = Idle
  /\ UNCHANGED <<tree, image, outputs, job, results>>

(***************************************************************************)
(* run_board.py build and timing-sim.                                      *)
(***************************************************************************)
(* validate_firmware_image: the hash of one image, then that of the other.  *)
HashImem ==
  /\ job = Idle
  /\ image.imem # None
  /\ \E kind \in Requested :
       job' = [step |-> "hash", kind |-> kind, hashes |-> [imem |-> image.imem]]
  /\ UNCHANGED <<tree, images, outputs, results, faults>>

HashDmem ==
  /\ job.step = "hash"
  /\ image.dmem # None
  /\ job' = [step |-> "identify", kind |-> job.kind,
             hashes |-> [imem |-> job.hashes.imem, dmem |-> image.dmem]]
  /\ UNCHANGED <<tree, images, outputs, results, faults>>

(* source_identity: the checkout is clean, and the RTL commit, given or     *)
(* found, has the RTL of HEAD.                                             *)
source_identity ==
  /\ job.step = "identify"
  /\ Clean
  /\ \E rtl \in {c \in 1..HEAD : history[c].rtl = history[HEAD].rtl} :
       job' = [step |-> "stage", kind |-> job.kind, overtaken |-> FALSE,
               hashes |-> job.hashes, source |-> HEAD, rtl |-> rtl]
  /\ UNCHANGED <<tree, images, outputs, results, faults>>

(* create_board_stage copies the sources, then one image, then the other. *)
StageSources ==
  /\ job.step = "stage"
  /\ job' = [step |-> "images", kind |-> job.kind, overtaken |-> job.overtaken,
             hashes |-> job.hashes, source |-> job.source, rtl |-> job.rtl,
             files |-> [rtl |-> work.rtl, xdc |-> work.xdc]]
  /\ UNCHANGED <<tree, images, outputs, results, faults>>

StageImem ==
  /\ job.step = "images"
  /\ job' = [job EXCEPT !.step = "dmem",
                        !.files = [rtl |-> @.rtl, xdc |-> @.xdc, imem |-> image.imem]]
  /\ UNCHANGED <<tree, images, outputs, results, faults>>

StageDmem ==
  /\ job.step = "dmem"
  /\ job' = [job EXCEPT !.step = "route",
                        !.files = [rtl |-> @.rtl, xdc |-> @.xdc,
                                   imem |-> @.imem, dmem |-> image.dmem]]
  /\ UNCHANGED <<tree, images, outputs, results, faults>>

(* run_vivado and validate_artifacts: the files are those of the staged     *)
(* sources, or the run fails.  The manifest hashes the constraints of the   *)
(* checkout, not of the stage.                                             *)
run_build ==
  /\ job.step = "route" /\ job.kind = "build"
  /\ job' = [step |-> "aside", kind |-> job.kind,
             set |-> [files |-> job.files, overtaken |-> job.overtaken,
                      manifest |-> [source |-> job.source, rtl |-> job.rtl,
                                    firmware |-> job.hashes, xdc |-> work.xdc,
                                    outputs |-> job.files]]]
  /\ UNCHANGED <<tree, images, outputs, results, faults>>

(* What is published is the transcript of the simulation of the staged      *)
(* sources; its manifest does not name the constraints.                    *)
run_timing_sim ==
  /\ job.step = "route" /\ job.kind = "timing-sim"
  /\ job' = [step |-> "aside", kind |-> job.kind,
             set |-> [files |-> job.files, overtaken |-> job.overtaken,
                      manifest |-> [source |-> job.source, rtl |-> job.rtl,
                                    firmware |-> job.hashes, outputs |-> job.files]]]
  /\ UNCHANGED <<tree, images, outputs, results, faults>>

(* replace_directory, one file-system operation at a time. *)
\* Fault: the old set is removed before the new one is moved in.
DeletesFirst ==
  /\ job.step = "aside"
  /\ published' = [published EXCEPT ![job.kind] = None]
  /\ job' = [step |-> "replace", kind |-> job.kind, set |-> job.set, old |-> None]
  /\ UNCHANGED <<tree, images, backup, results, faults>>

MoveAside ==
  /\ job.step = "aside"
  /\ backup' = [backup EXCEPT ![job.kind] = @ \cup ({published[job.kind]} \ {None})]
  /\ published' = [published EXCEPT ![job.kind] = None]
  /\ job' = [step |-> "replace", kind |-> job.kind, set |-> job.set, old |-> published[job.kind]]
  /\ UNCHANGED <<tree, images, results, faults>>

(* os.replace(staged, destination), or the rollback after its exception.    *)
Replace ==
  /\ job.step = "replace"
  /\ \/ /\ published' = [published EXCEPT ![job.kind] = job.set]
        /\ job' = [step |-> "drop", kind |-> job.kind, old |-> job.old]
        /\ UNCHANGED <<backup, faults>>
     \/ /\ Fault
        /\ published' = [published EXCEPT ![job.kind] = job.old]
        /\ backup' = [backup EXCEPT ![job.kind] = @ \ {job.old}]
        /\ job' = Idle
  /\ UNCHANGED <<tree, images, results>>

DropBackup ==
  /\ job.step = "drop"
  /\ backup' = [backup EXCEPT ![job.kind] = @ \ {job.old}]
  /\ job' = Idle
  /\ UNCHANGED <<tree, images, published, results, faults>>

(* The run fails or dies; its stage and what it prepared are gone. *)
BoardRunEnds ==
  /\ job # Idle
  /\ job.step \in {"aside", "replace", "drop"} => Fault
  /\ job.step \notin {"aside", "replace", "drop"} => UNCHANGED faults
  /\ job' = Idle
  /\ UNCHANGED <<tree, images, outputs, results>>

(***************************************************************************)
(* results.py collect-soc.                                                 *)
(***************************************************************************)
(* verification.py run --receipt leaves the receipts of the profiles full   *)
(* and soc, each of a commit that was HEAD when it ran.                     *)
Receipts == {[tooling |-> c, rtl |-> RtlCommit(c)] : c \in 1..HEAD}

LoadRecords ==
  /\ collecting = None /\ record = None       \* bound: one record is collected
  /\ None \notin {published["build"], image.manifest}
  /\ \E full, soc \in Receipts :
       collecting' = [board |-> published["build"].manifest,
                      overtaken |-> published["build"].overtaken,
                      firmware |-> image.manifest, full |-> full, soc |-> soc]
  /\ UNCHANGED <<tree, images, outputs, job, record, faults>>

(* The files behind the two manifests have the recorded hashes, and the     *)
(* board was built with these images.                                      *)
require_artifact_hash(c) ==
  /\ published["build"] # None
  /\ published["build"].files = c.board.outputs
  /\ c.board.xdc = work.xdc
  /\ FilesOnDisk = c.firmware
\* Fault: the data image is not compared.
OnlyTheInstructionImage(c) == c.board.firmware.imem = c.firmware.imem

FirmwareMatches(c) ==
  c.board.firmware = [imem |-> c.firmware.imem, dmem |-> c.firmware.dmem]

(* validate_collection_receipts, and the shared identities. *)
validate_collection_receipts(c) ==
  /\ {c.full.tooling, c.soc.tooling} = {c.board.source}
  /\ {c.full.rtl, c.soc.rtl} = {c.board.rtl}

(* The record itself: the RTL commit is an ancestor of the tooling commit   *)
(* and the RTL did not change between the two.                             *)
validate_soc_fields(c) ==
  /\ c.board.rtl <= c.board.source
  /\ history[c.board.rtl].rtl = history[c.board.source].rtl

collect_soc ==
  /\ collecting # None
  /\ collecting' = None
  /\ IF /\ require_artifact_hash(collecting)
        /\ FirmwareMatches(collecting)
        /\ validate_collection_receipts(collecting)
        /\ validate_soc_fields(collecting)
     THEN record' = [tooling |-> collecting.board.source, rtl |-> collecting.board.rtl,
                     firmware |-> collecting.firmware,
                     bitstream |-> published["build"].files,
                     overtaken |-> collecting.overtaken]
     ELSE UNCHANGED record
  /\ UNCHANGED <<tree, images, outputs, job, faults>>

Init ==
  /\ work = [p \in Parts |-> 0] /\ history = <<work>>
  /\ versions = [p \in Parts |-> 0] /\ returned = {}
  /\ image = [elf |-> None, imem |-> None, dmem |-> None, manifest |-> None]
  /\ firmware = Idle
  /\ published = [k \in Kinds |-> None] /\ backup = [k \in Kinds |-> {}]
  /\ job = Idle
  /\ collecting = None /\ record = None
  /\ edits = 0 /\ faults = 0

Developer == Edit \/ Commit
Firmware == LinkFirmware \/ WriteImem \/ WriteDmem \/ WriteManifest \/ FirmwareDies
Board == \/ HashImem \/ HashDmem \/ source_identity
         \/ StageSources \/ StageImem \/ StageDmem
         \/ run_build \/ run_timing_sim \/ MoveAside \/ Replace \/ DropBackup \/ BoardRunEnds
Collection == LoadRecords \/ collect_soc

Next == Developer \/ Firmware \/ Board \/ Collection

Spec == Init /\ [][Next]_vars

(***************************************************************************)
(* Properties.                                                             *)
(***************************************************************************)
(* soc.json names the ELF whose images are in the bitstream it names, and,  *)
(* unless the sources were edited under the running build, the RTL of the   *)
(* commits it names.  Images rebuilt between the hash and the copy, images  *)
(* of two ELFs left by a dead soc_image.py, and a directory published while *)
(* the record is collected do not get through.  Equal hashes say nothing of *)
(* what was there between them, so one case does: other firmware built      *)
(* between the hash and the copy, then the old sources restored and built   *)
(* again.  ELFs whose sources were restored are excepted.                  *)
SocRecordIsGenuine ==
  record # None =>
    /\ record.firmware.elf \notin returned =>
         {record.bitstream.imem, record.bitstream.dmem} = {record.firmware.elf}
    /\ ~record.overtaken =>
         {history[record.rtl].rtl, history[record.tooling].rtl} = {record.bitstream.rtl}

(* No step, failure or death of replace_directory loses what was published: *)
(* until the next set is in place the previous one is kept, there or moved  *)
(* aside.                                                                  *)
Held(k) == published[k] # None \/ backup[k] # {}
PublishedIsKept ==
  [][\A k \in Kinds : Held(k) => Held(k)']_vars
=============================================================================
