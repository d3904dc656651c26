----------------------------- MODULE References -----------------------------
(***************************************************************************)
(* tools/prepare_references.py brings the Spike checkout in the reference   *)
(* cache to the pinned commit and builds it.  The cache outlives the runs:  *)
(* a run may be killed at any point, the pin may move and somebody may edit *)
(* the checkout between two runs.  The architecture tests are prepared the same way, up  *)
(* to the build.                                                           *)
(*                                                                         *)
(* Contents of the working tree and of the binary are the commit they come  *)
(* from, or "mixed" for a tree that is no commit's.                        *)
(***************************************************************************)
CONSTANTS Commits,      \* the commits SPIKE_SHA may name
          None

VARIABLES pin,          \* SPIKE_SHA in tools/reference_versions.env
          want,         \* the commit the run has read
          head, tree,   \* HEAD of the checkout and its working tree
          locked,       \* a killed git left its index.lock
          binary,       \* build/spike: None, "partial" or what it was built from
          stamp,        \* build/.source-sha: None, "torn" or a commit
          step,         \* where main is; "idle" when no run is in progress
          ready         \* the commit the last run has exited with status 0 for

checkout == <<head, tree, locked>>
build == <<binary, stamp>>
vars == <<pin, want, checkout, build, step, ready>>

ASSUME Distinct == None \notin Commits /\ {"mixed", "partial", "torn"} \intersect Commits = {}

Fails == step' = "idle" /\ UNCHANGED ready

(***************************************************************************)
(* The environment of the runs.                                            *)
(***************************************************************************)
ChangePin ==
  /\ pin' \in Commits
  /\ UNCHANGED <<want, checkout, build, step, ready>>

EditCheckout ==
  /\ step = "idle" /\ head # None
  /\ tree' = "mixed"
  /\ UNCHANGED <<pin, want, head, locked, build, step, ready>>

(***************************************************************************)
(* prepare_checkout.                                                       *)
(***************************************************************************)
LoadVersions ==
  /\ step = "idle"
  /\ want' = pin
  /\ step' = "fetch"
  /\ ready' = None
  /\ UNCHANGED <<pin, checkout, build>>

Fetch ==
  /\ step = "fetch"
  /\ \/ step' = "checkout" /\ UNCHANGED ready
     \/ Fails
  /\ UNCHANGED <<pin, want, checkout, build>>

(* git checkout refuses to overwrite a local change, or keeps it. *)
Checkout ==
  /\ step = "checkout"
  /\ \/ /\ ~locked
        /\ tree = head \/ head # None
        /\ head' = want
        /\ tree' = IF tree = head THEN want ELSE "mixed"
        /\ step' = "reset" /\ UNCHANGED ready
     \/ /\ locked \/ (tree # head /\ head # want)
        /\ Fails
        /\ UNCHANGED <<head, tree>>
  /\ UNCHANGED <<pin, want, locked, build>>

(* git reset --hard and git clean, and the checks behind them. *)
Reset ==
  /\ step = "reset"
  /\ tree' = head
  /\ step' = "look"
  /\ UNCHANGED <<pin, want, head, locked, build, ready>>

(***************************************************************************)
(* prepare_spike.  An executable without a stamp that names the commit is   *)
(* thrown away with everything around it.                                  *)
(***************************************************************************)
LooksAtBinaryOnly ==
  /\ step = "look"
  /\ step' = IF binary # None THEN "done" ELSE "remove"
  /\ UNCHANGED <<pin, want, checkout, build, ready>>

LookAtStamp ==
  /\ step = "look"
  /\ step' = IF binary # None /\ stamp = want THEN "done" ELSE "remove"
  /\ UNCHANGED <<pin, want, checkout, build, ready>>

(* shutil.rmtree(build), one file at a time and in any order. *)
RemoveBuild ==
  /\ step = "remove"
  /\ \/ binary # None /\ binary' = None /\ UNCHANGED <<stamp, step>>
     \/ stamp # None /\ stamp' = None /\ UNCHANGED <<binary, step>>
     \/ binary = None /\ stamp = None /\ step' = "make" /\ UNCHANGED build
  /\ UNCHANGED <<pin, want, checkout, ready>>

(* configure and make; a failed make may leave an unfinished executable.    *)
Make ==
  /\ step = "make"
  /\ \/ binary' = tree /\ step' = "write" /\ UNCHANGED ready
     \/ binary' \in {None, "partial"} /\ Fails
  /\ UNCHANGED <<pin, want, checkout, stamp>>

WriteStamp ==
  /\ step = "write"
  /\ stamp' = want
  /\ step' = "done"
  /\ UNCHANGED <<pin, want, checkout, binary, ready>>

Done ==
  /\ step = "done"
  /\ step' = "idle"
  /\ ready' = want
  /\ UNCHANGED <<pin, want, checkout, build>>

(* A run dies; git, make or the write of the stamp may be half way through. *)
Killed ==
  /\ step \notin {"idle", "done"}
  /\ step' = "idle"
  /\ IF step \in {"checkout", "reset"}
     THEN locked' = TRUE /\ tree' \in {tree, "mixed"} /\ head' = head
     ELSE UNCHANGED checkout
  /\ binary' \in IF step = "make" THEN {binary, "partial"} ELSE {binary}
  /\ stamp' \in IF step = "write" THEN {stamp, "torn"} ELSE {stamp}
  /\ UNCHANGED <<pin, want, ready>>

(* Somebody removes the lock a killed git has left. *)
Unlock ==
  /\ step = "idle" /\ locked
  /\ locked' = FALSE
  /\ UNCHANGED <<pin, want, head, tree, build, step, ready>>

Init ==
  /\ pin \in Commits /\ want = None
  /\ head = None /\ tree = None /\ locked = FALSE
  /\ binary = None /\ stamp = None
  /\ step = "idle" /\ ready = None

Next == \/ ChangePin \/ EditCheckout \/ LoadVersions \/ Fetch \/ Checkout \/ Reset
        \/ LookAtStamp \/ RemoveBuild \/ Make \/ WriteStamp \/ Done \/ Killed \/ Unlock

Spec == Init /\ [][Next]_vars

(***************************************************************************)
(* Properties.                                                             *)
(***************************************************************************)
(* Whatever was killed, edited or re-pinned before, a Spike that            *)
(* prepare_references.py reports ready, built now or found in the cache, is *)
(* the build of exactly the commit that was pinned when the run began.      *)
PreparedIsPinned == ready # None => binary = ready /\ stamp = ready
=============================================================================
