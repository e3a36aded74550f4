------------------------------ MODULE MCVision ------------------------------
(* Vision with two cameras.  Two scenarios share the variables: with one     *)
(* detector, as many sources and frames as an update of both cameras takes   *)
(* for the tracker to be handed frames of a source it was not told of; and   *)
(* with detectors to reload, fewer of them.  The constants in the .cfg are   *)
(* those of the two together.                                                *)
EXTENDS Vision

VARIABLE scenario   \* never changes

Restarting == INSTANCE Vision WITH Models <- {1}, Disabled <- {}
Reloading  == INSTANCE Vision WITH MaxSeq <- 1, MaxGen <- 3

\* The cameras are alike, so one of them is the primary and came first.
ScenarioInit ==
    /\ \/ scenario = "restarting" /\ Restarting!Init
       \/ scenario = "reloading" /\ Reloading!Init
    /\ settings.cam = "a" /\ sources["a"] = 1

ScenarioNext ==
    /\ UNCHANGED scenario
    /\ \/ scenario = "restarting" /\ Restarting!Next
       \/ scenario = "reloading" /\ Reloading!Next

\* StopSource is bounded by the scenario's MaxGen, the others by none.
Stopping(c) ==
    \/ scenario = "restarting" /\ Restarting!StopSource(c)
    \/ scenario = "reloading" /\ Reloading!StopSource(c)

Scenarios ==
    /\ ScenarioInit /\ [][ScenarioNext]_<<vars, scenario>>
    /\ WF_vars(Tick) /\ WF_vars(Time)
    /\ \A c \in Cams : WF_vars(Stopping(c)) /\ WF_vars(StartSource(c))
=============================================================================
