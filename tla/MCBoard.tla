------------------------------ MODULE MCBoard ------------------------------
(***************************************************************************)
(* The tools of Board in one run.  Two commits; a build with an edit and a *)
(* failure at the worst moment (Flow, by the constants), a build whose     *)
(* sources and images change twice under it, and the post-route            *)
(* simulation, from which nothing is collected.                            *)
(***************************************************************************)
EXTENDS Board

VARIABLE tool   \* the tool, and for BoardFlow the instance, of the behaviour

Edited == INSTANCE BoardFlow
  WITH Requested <- {"build"}, MaxCommits <- 2, MaxEdits <- 2, MaxFaults <- 0
Simulation == INSTANCE BoardFlow
  WITH Requested <- {"timing-sim"}, MaxCommits <- 2, MaxEdits <- 1, MaxFaults <- 1

MCInit ==
  /\ Init /\ Flow!Init
  /\ \/ tool = "prepare_references"
     \/ /\ tool \in {"faulty build", "edited build", "timing-sim"}
        /\ pin = CHOOSE c \in Commits : TRUE

ReferencesRun == tool = "prepare_references" /\ Next /\ UNCHANGED <<tool, flowVars>>
FaultyRuns == tool = "faulty build" /\ Flow!Next /\ UNCHANGED <<tool, vars>>
EditedRuns == tool = "edited build" /\ Edited!Next /\ UNCHANGED <<tool, vars>>
SimulationRuns == tool = "timing-sim" /\ Simulation!Next /\ UNCHANGED <<tool, vars>>

MCSpec ==
  MCInit /\ [][ReferencesRun \/ FaultyRuns \/ EditedRuns \/ SimulationRuns]_<<tool, vars, flowVars>>
=============================================================================
