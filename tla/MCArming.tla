------------------------------ MODULE MCArming ------------------------------
(* Arming in two scenarios, of which a behaviour takes one: operators with    *)
(* every action on one link that stays, and links that break and replace      *)
(* each other under armings and emergency stops.  Ops and PushConfig, given   *)
(* in the .cfg, are those of the first.                                       *)
EXTENDS Arming

VARIABLE scenario   \* never changes

Relinking == INSTANCE Arming WITH Ops <- {"arm", "estop"}, PushConfig <- FALSE

ScenarioInit == Init /\ scenario \in {"operators", "links"}

ScenarioNext ==
    /\ UNCHANGED scenario
    /\ \/ scenario = "operators" /\ Next /\ ctlConn' \in ctlConn..1
       \/ scenario = "links" /\ Relinking!Next

Scenarios == ScenarioInit /\ [][ScenarioNext]_<<scenario, vars>>
=============================================================================
