------------------------------ MODULE MCEndings ------------------------------
(* What must come to an end, on small instances: the water, when only the    *)
(* websocket task closes the valve, with the constants of this module; the   *)
(* trainer's runs; the calls an operator makes of a turret; the motions of   *)
(* the simulator in the server.  The parts share no state, and a behaviour   *)
(* takes the steps of one of them.                                           *)
EXTENDS Valve, Sequences

VARIABLES
  part,                                                           \* never changes
  run, installs, child, code, process, cancelRequested, failure,
  events, polling, buttons, shown, completed, late,               \* Trainer
  serverArmed, conn, cached, call, ready, reader, post, ctl, ctlConn, down, up,
  executed, armedBy, armedOn, lastEstop, excused,                 \* Arming
  state, pos, rate, target, homed, simArmed, valve, simEstop,
  jogFor, homingFor, valveFor, homingAxes, lost                   \* Simulator

ofTrainer == <<run, installs, child, code, process, cancelRequested, failure,
               events, polling, buttons, shown, completed, late>>
ofArming == <<serverArmed, conn, cached, call, ready, reader, post, ctl, ctlConn, down, up,
              executed, armedBy, armedOn, lastEstop, excused>>
ofSimulator == <<state, pos, rate, target, homed, simArmed, valve, simEstop,
                 jogFor, homingFor, valveFor, homingAxes, lost>>

Training == INSTANCE Trainer WITH MaxRuns <- 2, MaxInstalls <- 1, pc <- run

Operating == INSTANCE Arming WITH
    Ops <- {"arm", "disarm", "estop", "stop"}, MaxActions <- 1, MaxLinks <- 1, MaxUp <- 1,
    SprayEnabled <- TRUE, PushConfig <- TRUE, armed <- serverArmed

\* With allow_unhomed_motion: every behaviour without it is one with it.
InServer == INSTANCE Simulator WITH
    Axes <- {"pan"}, Top <- 3, MaxSpeed <- 2, Accel <- 1, HomingTime <- 2, JogTime <- 2,
    Bursts <- {1, 3}, Late <- 2, AllowUnhomed <- TRUE,
    armed <- simArmed, estop <- simEstop

PartsInit ==
    /\ part \in {"valve", "trainer", "arming", "simulator"}
    /\ Init /\ (part # "valve" => maxOpen = 2)
    /\ Training!Init /\ Operating!Init /\ InServer!Init

PartsNext ==
    /\ UNCHANGED part
    /\ \/ part = "valve" /\ Next /\ UNCHANGED <<ofTrainer, ofArming, ofSimulator>>
       \/ part = "trainer" /\ Training!Next /\ UNCHANGED <<vars, ofArming, ofSimulator>>
       \/ part = "arming" /\ Operating!Next /\ UNCHANGED <<vars, ofTrainer, ofSimulator>>
       \/ part = "simulator" /\ InServer!Next /\ UNCHANGED <<vars, ofTrainer, ofArming>>

\* Each part is as fair as its own module says; where a part begins, none of
\* its fair steps is enabled, so that a part that is not taken hinders none.
PartsFairness ==
    TasksRun /\ Training!Threads /\ Operating!LoopRuns /\ InServer!Runs

PartsSpec == PartsInit /\ [][PartsNext]_<<part, vars, ofTrainer, ofArming, ofSimulator>> /\ PartsFairness

----------------------------------------------------------------------------
(* What each part promises: the properties its module states, together.      *)

\* While only the websocket task closes the valve, a close is scheduled at
\* every instant the pin is high, and the water stops (AloneInv is the
\* inductive invariant of ValveProofs that says so).
BurstsAreTimed == [](AlwaysScheduled /\ AloneInv) /\ WaterStops

\* Two training workers never run at once, and a training shown as complete
\* stays shown.
RunsStayApart == [](part = "trainer" => Training!TypeOK /\ Training!OneWorker) /\ Training!CompleteStays

\* Cancelling ends a run, and however a run ends, the controls come back.
RunsEnd == Training!CancelEnds /\ Training!ControlsReturn

\* The simulator in the server implements TurretContract, leaves the soft
\* limits no further than it brakes, and moves only in a state that says so.
SimulatorKeepsContract == InServer!Settled

\* Its motions end once no command comes.
MotionEnds == InServer!MotionEnds

\* Every call of an operator comes back (Arming).
CallsReturn == Operating!CallsReturn
=============================================================================
