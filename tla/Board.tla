------------------------------- MODULE Board -------------------------------
(***************************************************************************)
(* The two tools that prepare what others rely on: the reference simulator *)
(* (References), and the way from the sources to the record of the board   *)
(* (BoardFlow).  They share nothing; a behaviour is of one of them, the    *)
(* other one stays in its initial state.                                   *)
(***************************************************************************)
EXTENDS References, Integers

CONSTANTS Requested, MaxCommits, MaxEdits, MaxFaults   \* BoardFlow

VARIABLES
  history, work, versions, returned, image, firmware, published, backup, job, collecting, record,
  edits, faults

Flow == INSTANCE BoardFlow
flowVars ==
  <<history, work, versions, returned, image, firmware, published, backup, job, collecting, record,
    edits, faults>>

\* What run_board.py publishes: files, their history, and a manifest, which
\* names the constraints for a build only.
Hashes == [imem : Nat, dmem : Nat]
Files == [rtl : Nat, xdc : Nat, imem : Nat, dmem : Nat]
ResultSet ==
  [files : Files, overtaken : BOOLEAN,
   manifest : [source : Nat, rtl : Nat, firmware : Hashes, xdc : Nat, outputs : Files]
              \cup [source : Nat, rtl : Nat, firmware : Hashes, outputs : Files]]

ASSUME FlowAssumption ==
  Requested \subseteq Flow!Kinds /\ None \notin Nat /\ None \notin ResultSet

-----------------------------------------------------------------------------
(* The properties of BoardFlow, under the names they have there.           *)

\* soc.json joins records of one build (BoardFlow).
SocRecordIsGenuine == Flow!SocRecordIsGenuine

\* A published directory is never lost (BoardFlow).
PublishedIsKept == Flow!PublishedIsKept
=============================================================================
