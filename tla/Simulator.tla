----------------------------- MODULE Simulator -----------------------------
(***************************************************************************)
(* The in-process controller of the simulated mode                         *)
(* (server/app/turret/simulator.py).  A command changes the state in one   *)
(* step before its first await; the status loop advances the model of the  *)
(* turret in another task.  Time is a number of ticks, positions and rates *)
(* are whole degrees, and a late loop (Late) lets more time pass than the  *)
(* 0.2 s the motion is advanced by.                                        *)
(***************************************************************************)
EXTENDS Integers

CONSTANTS
  Axes,          \* {"pan", "tilt"}
  Top,           \* the soft limits are 0 and Top on every axis
  MaxSpeed,      \* motion.max_speed_deg_s
  Accel,         \* motion.accel_deg_s2
  HomingTime,    \* HOMING_DURATION_S
  JogTime,       \* ttl_ms of a jog
  Bursts,        \* durations of sprays
  Late,          \* ticks a delayed status loop may miss
  AllowUnhomed   \* hardware.allow_unhomed_motion

VARIABLES
  state,      \* "IDLE" | "MOVING" | "JOGGING" | "HOMING" | "ESTOP"
  pos, rate,  \* pan_deg and tilt_deg, and their rates
  target,     \* target_pan_deg and target_tilt_deg, or none
  homed, armed, valve, estop,
  jogFor, homingFor, valveFor,  \* ticks to _jog_expires_at, ...; 0 is unset
  homingAxes, \* _homing_axes
  lost        \* history: a reboot or a move came while homing was under way

motion == <<pos, rate, target>>
latches == <<homed, armed, valve, estop>>
vars == <<state, motion, latches, jogFor, homingFor, valveFor, homingAxes, lost>>

None == <<>>
Places == 0..Top
Rates == -MaxSpeed..MaxSpeed
Still == [a \in Axes |-> 0]

Init ==
  /\ state = "IDLE" /\ pos = Still /\ rate = Still /\ target = None
  /\ homed = FALSE /\ armed = FALSE /\ valve = FALSE /\ estop = FALSE
  /\ jogFor = 0 /\ homingFor = 0 /\ valveFor = 0
  /\ homingAxes = Axes /\ lost = FALSE

---------------------------------------------------------------------------
(* Commands *)

\* _motion_allowed
MotionAllowed == ~estop /\ (homed \/ AllowUnhomed)

\* move_absolute and move_relative: any clamped target.
Move ==
  /\ MotionAllowed
  /\ \E t \in [Axes -> Places] : target' = t
  /\ jogFor' = 0 /\ state' = "MOVING" /\ lost' = (homingFor > 0)
  /\ UNCHANGED <<pos, rate, latches, homingFor, valveFor, homingAxes>>

\* Bound: a jog comes inside the limits, so that positions stay finite.
Jog ==
  /\ MotionAllowed /\ pos \in [Axes -> Places]
  /\ target' = None
  /\ \E r \in [Axes -> Rates] :
       /\ rate' = r
       /\ state' = IF r = Still THEN "IDLE" ELSE "JOGGING"
  /\ jogFor' = JogTime /\ lost' = (homingFor > 0)
  /\ UNCHANGED <<pos, latches, homingFor, valveFor, homingAxes>>

\* Homing one axis also takes the turret for homed.
Home(axes) ==
  /\ ~estop
  /\ armed' = FALSE /\ valve' = FALSE /\ valveFor' = 0
  /\ homed' = FALSE
  /\ homingAxes' = axes /\ homingFor' = HomingTime
  /\ target' = None /\ state' = "HOMING" /\ lost' = FALSE
  /\ UNCHANGED <<pos, rate, estop, jogFor>>

\* What every stop does to the timers and the motion.
Halt ==
  /\ target' = None /\ rate' = Still /\ jogFor' = 0 /\ homingFor' = 0
  /\ valve' = FALSE /\ valveFor' = 0

EmergencyStop ==
  /\ Halt
  /\ estop' = TRUE /\ homed' = FALSE /\ armed' = FALSE /\ state' = "ESTOP" /\ lost' = FALSE
  /\ UNCHANGED <<pos, homingAxes>>

\* A plain stop also clears the emergency stop; the latch stays armed.
Stop ==
  /\ Halt
  /\ estop' = FALSE /\ state' = "IDLE" /\ lost' = FALSE
  /\ UNCHANGED <<pos, homed, armed, homingAxes>>

Spray ==
  /\ armed
  /\ valve' = TRUE
  /\ \E d \in Bursts : valveFor' = d
  /\ UNCHANGED <<state, motion, homed, armed, estop, jogFor, homingFor, homingAxes, lost>>

SprayStop ==
  /\ valve' = FALSE /\ valveFor' = 0
  /\ UNCHANGED <<state, motion, homed, armed, estop, jogFor, homingFor, homingAxes, lost>>

\* The valve after an arm command.
SlipStaysOpen(arm) == UNCHANGED <<valve, valveFor>>
ValveAfter(arm) ==
  IF arm THEN UNCHANGED <<valve, valveFor>> ELSE valve' = FALSE /\ valveFor' = 0

ArmOutput ==
  \E arm \in BOOLEAN :
    /\ ~(arm /\ estop)
    /\ armed' = arm
    /\ ValveAfter(arm)
    /\ UNCHANGED <<state, motion, homed, estop, jogFor, homingFor, homingAxes, lost>>

\* _reset_state: the deadlines stay as they are.
Reboot ==
  /\ rate' = Still /\ target' = None
  /\ homed' = FALSE /\ armed' = FALSE /\ valve' = FALSE /\ estop' = FALSE
  /\ state' = "IDLE" /\ lost' = (homingFor > 0)
  /\ UNCHANGED <<pos, jogFor, homingFor, valveFor, homingAxes>>

---------------------------------------------------------------------------
(* _advance *)

Within(p) == IF p < 0 THEN 0 ELSE IF p > Top THEN Top ELSE p
Sign(n) == IF n < 0 THEN -1 ELSE 1
Abs(n) == n * Sign(n)
Between(lo, n, hi) == IF n < lo THEN lo ELSE IF n > hi THEN hi ELSE n

\* The fastest rate from which the axis still stops within the distance.
Approach(distance) ==
  CHOOSE v \in 0..MaxSpeed :
    /\ v * v <= 2 * Accel * distance
    /\ \A w \in 0..MaxSpeed : w * w <= 2 * Accel * distance => w <= v

\* _advance_axis: the new position and rate, and whether the axis is there.
AdvanceAxis(p, v, t) ==
  LET away == t - p
      faster == v + Between(-Accel, Sign(away) * Approach(Abs(away)) - v, Accel)
  IN IF away = 0 \/ (faster * away > 0 /\ Abs(faster) >= Abs(away))
     THEN [pos |-> t, rate |-> 0, done |-> TRUE]
     ELSE [pos |-> p + faster, rate |-> faster, done |-> FALSE]

Left(timer, d) == IF timer > d THEN timer - d ELSE 0

\* Homing is under way: nothing else advances, the valve included.
Homing(d) ==
  /\ homingFor > 0
  /\ homingFor' = Left(homingFor, d)
  /\ IF homingFor > d THEN UNCHANGED <<state, motion, homed>>
     ELSE /\ pos' = [a \in Axes |-> IF a \in homingAxes THEN 0 ELSE pos[a]]
          /\ rate' = Still /\ homed' = TRUE /\ state' = "IDLE"
          /\ UNCHANGED target
  /\ jogFor' = IF jogFor > 0 THEN Left(jogFor - 1, d) + 1 ELSE 0
  /\ valveFor' = IF valveFor > 0 THEN Left(valveFor - 1, d) + 1 ELSE 0
  /\ UNCHANGED <<armed, valve, estop, homingAxes, lost>>

SlipStateStays == jogFor' = 0 /\ rate' = Still /\ UNCHANGED <<pos, target, state>>
JogExpires == jogFor' = 0 /\ rate' = Still /\ state' = "IDLE" /\ UNCHANGED <<pos, target>>

\* The motion of one tick, by jog or towards the target.
Drive(d) ==
  IF jogFor > d THEN
    /\ pos' = [a \in Axes |-> Within(pos[a] + rate[a])]
    /\ jogFor' = jogFor - d
    /\ UNCHANGED <<rate, target, state>>
  ELSE IF jogFor > 0 THEN
    JogExpires
  ELSE IF target # None THEN
    LET next == [a \in Axes |-> AdvanceAxis(pos[a], rate[a], target[a])]
        there == \A a \in Axes : next[a].done
    IN /\ pos' = [a \in Axes |-> next[a].pos]
       /\ rate' = [a \in Axes |-> next[a].rate]
       /\ target' = IF there THEN None ELSE target
       /\ state' = IF there THEN "IDLE" ELSE state
       /\ UNCHANGED jogFor
  ELSE UNCHANGED <<motion, state, jogFor>>

Running(d) ==
  /\ homingFor = 0
  /\ Drive(d)
  /\ valveFor' = Left(valveFor, d)
  /\ valve' = (valve /\ ~(valveFor > 0 /\ valveFor <= d))
  /\ UNCHANGED <<homed, armed, estop, homingFor, homingAxes, lost>>

Tick == \E d \in 1..Late : Homing(d) \/ Running(d)

Next ==
  \/ Move \/ Jog \/ Stop \/ EmergencyStop \/ Spray \/ SprayStop \/ ArmOutput \/ Reboot
  \/ \E axes \in SUBSET Axes : axes # {} /\ Home(axes)
  \/ Tick

Spec == Init /\ [][Next]_vars

\* The status loop keeps running.
Runs == WF_vars(Tick)
FairSpec == Spec /\ Runs

---------------------------------------------------------------------------
(* Properties *)

TypeOK ==
  /\ pos \in [Axes -> Int] /\ rate \in [Axes -> Rates]
  /\ target = None \/ target \in [Axes -> Places]
  /\ jogFor \in 0..JogTime /\ homingFor \in 0..HomingTime

\* How far a position is outside the soft limits.
Beyond(p) == IF p < 0 THEN -p ELSE IF p > Top THEN p - Top ELSE 0

\* Only a move clamps its target, and none clamps the way: one that takes over
\* a jog at full rate runs out of the soft limits, and out of them no further
\* than it needs to brake (_advance_axis).
BrakesInTime == \A a \in Axes : 2 * Accel * Beyond(pos[a]) <= MaxSpeed * MaxSpeed

\* The simulated controller keeps the contract of its status: water and the
\* emergency stop exclude each other, water needs the latch, a stop leaves
\* nothing homed (send_text and the handlers it calls, _advance).
Contract == INSTANCE TurretContract
KeepsContract == Contract!Spec

\* The turret moves only in a state that says so, in every order of commands
\* and timers that leaves no deadline behind (a reboot amid homing does, and a
\* move amid homing where unhomed motion is allowed).
MoveReported ==
  [][ (pos' # pos /\ ~lost) => state \in {"MOVING", "JOGGING", "HOMING"} ]_vars

\* All of it but that motions end.
Settled == [](TypeOK /\ BrakesInTime) /\ MoveReported /\ KeepsContract

\* Once no command comes any more, a motion ends: a move arrives, whatever
\* rate it started with, a jog expires and homing completes.
MotionEnds ==
  <>[][Tick]_vars => (state \in {"MOVING", "JOGGING", "HOMING"} ~> state \in {"IDLE", "ESTOP"})

=============================================================================
