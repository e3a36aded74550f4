------------------------------ MODULE MCMotion ------------------------------
(* Motion with two axes: what homes, and where moves and jogs go.  Two       *)
(* scenarios share the variables: jogging between homings with no input      *)
(* wired, and moves between homings with emergency stops from both tasks.    *)
(* Ops and Input, given in the .cfg, are those of the two together.          *)
EXTENDS Motion

VARIABLE scenario   \* never changes

Both    == {{0, 1}}
OneAxis == {{0}}

Pair(pan, tilt) == [a \in Axes |-> IF a = 0 THEN pan ELSE tilt]

SomeGoals == {Pair(1, 0), Pair(0, 1)}
SomeJogs  == {Pair(1, -1)}

Jogging == INSTANCE Motion WITH Ops <- {"jog", "home", "stop"}, Input <- FALSE
Moving  == INSTANCE Motion WITH Ops <- {"move", "home", "stop", "estop", "lost", "disarm"},
                                Input <- TRUE

ScenarioInit == Init /\ scenario \in {"jogging", "moving"}

ScenarioNext ==
    \/ scenario = "jogging" /\ Jogging!Next /\ UNCHANGED scenario
    \/ scenario = "moving" /\ Moving!Next /\ UNCHANGED scenario

Scenarios == ScenarioInit /\ [][ScenarioNext]_<<vars, scenario>>

\* The refuted run: homing and plain stops alone, as its .cfg gives them.
Homing == Init /\ scenario = "homing" /\ [][Next /\ UNCHANGED scenario]_<<vars, scenario>>

\* The properties say nothing behind a step that was overtaken, which stays
\* so: the runs look at that step and no further.
NotOvertaken == ~overtaken
=============================================================================
