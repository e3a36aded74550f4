--------------------------- MODULE ControllerSim ---------------------------
(***************************************************************************)
(* The stand-alone controller simulator (server/tools/controller_sim.py):  *)
(* a process that speaks the wire protocol over a WebSocket.  One task     *)
(* reads messages and handles them one after the other, homing included,   *)
(* which sleeps; another ticks the physics while the session lasts.        *)
(*                                                                         *)
(* One axis, whole degrees, one tick of the physics as the unit of time.   *)
(***************************************************************************)
EXTENDS Integers, Sequences

CONSTANTS
  Limits,     \* the pairs <<min, max>> set_config may bring, the first one too
  Goals,      \* positions a server asks for
  MaxSpeed, Accel,
  Homing,     \* ticks homing takes
  JogTime,    \* ttl_ms of a jog
  Durations,  \* of sprays
  MaxSpray,   \* max_spray_ms
  MaxWaiting  \* bound: messages that wait while homing sleeps

VARIABLES
  link,       \* "up", "dying" (lost, the handler asleep), "down"
  waiting,    \* messages behind the one that is being handled
  homing,     \* ticks left of the homing sleep, 0: no handler asleep
  lim, pos, vel, goal, rate,   \* Axis; rate is rate_command or none
  homed, armed, valve, estop,
  state, error,
  jogFor, valveFor,   \* ticks to the deadlines, 0 when unset
  openFor     \* history: ticks the valve is open since the last spray

axis == <<lim, pos, vel, goal, rate>>
latches == <<homed, armed, valve, estop>>
session == <<link, waiting, homing>>
vars == <<session, axis, latches, state, error, jogFor, valveFor, openFor>>

NoRate == 1000
Start == CHOOSE l \in Limits : l[1] <= 0 /\ 0 <= l[2]

Init ==
  /\ link = "down" /\ waiting = <<>> /\ homing = 0
  /\ lim = Start /\ pos = 0 /\ vel = 0 /\ goal = 0 /\ rate = NoRate
  /\ homed = FALSE /\ armed = FALSE /\ valve = FALSE /\ estop = FALSE
  /\ state = "BOOT" /\ error = FALSE
  /\ jogFor = 0 /\ valveFor = 0 /\ openFor = 0

Between(lo, n, hi) == IF n < lo THEN lo ELSE IF n > hi THEN hi ELSE n
Sign(n) == IF n < 0 THEN -1 ELSE 1
Abs(n) == n * Sign(n)

CloseValve == valve' = FALSE /\ valveFor' = 0 /\ openFor' = 0
SameValve == UNCHANGED <<valve, valveFor, openFor>>

---------------------------------------------------------------------------
(* Axis.step and SimulatedController.tick *)

\* The fastest rate from which the axis stops in the distance.
Approach(distance) ==
  CHOOSE v \in 0..MaxSpeed :
    /\ v * v <= 2 * Accel * distance
    /\ \A w \in 0..MaxSpeed : w * w <= 2 * Accel * distance => w <= v

Goalward == Sign(goal - pos) * Approach(Abs(goal - pos))
Desired(r) == IF r # NoRate THEN Between(-MaxSpeed, r, MaxSpeed) ELSE Goalward

\* The rate and the goal after a look at the jog's deadline.
JogOver == jogFor = 1
RateNow == IF JogOver THEN NoRate ELSE rate

\* vel' and pos': an end of the range stops the axis.
Step ==
  LET v == vel + Between(-Accel, Desired(RateNow) - vel, Accel)
      p == pos + v
  IN /\ pos' = Between(lim[1], p, lim[2])
     /\ vel' = IF lim[1] < p /\ p < lim[2] THEN v ELSE 0

Moving == vel # 0 \/ goal # pos

\* A duration the valve is opened for.
Capped(d) == IF d < 1 THEN 1 ELSE IF d > MaxSpray THEN MaxSpray ELSE d

Tick ==
  /\ link = "up"
  /\ homing' = IF homing > 1 THEN homing - 1 ELSE homing
  /\ UNCHANGED <<link, waiting, lim, homed, armed, estop, error>>
  /\ IF estop THEN
       /\ vel' = 0 /\ rate' = NoRate /\ state' = "ESTOP"
       /\ CloseValve
       /\ UNCHANGED <<pos, goal, jogFor>>
     ELSE
       /\ Step
       /\ rate' = RateNow
       /\ goal' = IF JogOver THEN pos ELSE goal
       /\ jogFor' = IF jogFor > 0 THEN jogFor - 1 ELSE 0
       /\ IF valve /\ valveFor = 1 THEN CloseValve
          ELSE /\ valveFor' = IF valve THEN valveFor - 1 ELSE 0
               /\ openFor' = IF valve THEN openFor + 1 ELSE 0
               /\ UNCHANGED valve
       /\ state' = CASE homing > 0 -> "HOMING"
                     [] homing = 0 /\ rate' # NoRate -> "JOGGING"
                     [] homing = 0 /\ rate' = NoRate /\ Moving' -> "MOVING"
                     [] homing = 0 /\ rate' = NoRate /\ ~Moving' -> IF error THEN "FAULT" ELSE "IDLE"

---------------------------------------------------------------------------
(* Commands, as _handle does them; every one but a stop is refused while an
   emergency stop is latched *)

Stop(emergency) ==
  /\ rate' = NoRate /\ goal' = pos /\ armed' = FALSE
  /\ CloseValve
  /\ vel' = IF emergency THEN 0 ELSE vel
  /\ estop' = emergency
  /\ homed' = (homed /\ ~emergency)
  /\ error' = (error /\ (emergency \/ ~estop))
  /\ UNCHANGED <<lim, pos, state, jogFor, homing, link>>

Move ==
  /\ ~estop /\ homed
  /\ \E g \in Goals : goal' = Between(lim[1], g, lim[2])
  /\ rate' = NoRate
  /\ SameValve
  /\ UNCHANGED <<lim, pos, vel, latches, state, error, jogFor, homing, link>>

\* A relative move is neither clamped nor refused when nothing is homed.
MoveRelative ==
  /\ ~estop
  /\ \E g \in Goals : goal' = g
  /\ rate' = NoRate
  /\ SameValve
  /\ UNCHANGED <<lim, pos, vel, latches, state, error, jogFor, homing, link>>

Jog ==
  /\ ~estop
  /\ \E r \in {-MaxSpeed - 1, 0, MaxSpeed} : rate' = r
  /\ jogFor' = JogTime
  /\ SameValve
  /\ UNCHANGED <<lim, pos, vel, goal, latches, state, error, homing, link>>

\* The handler goes to sleep; nothing behind it is read.
HomeBegins ==
  /\ ~estop
  /\ homing' = Homing
  /\ SameValve
  /\ UNCHANGED <<axis, latches, state, error, jogFor, link>>

\* arm_output; disarming closes the valve.
SlipDisarmOnly(arm) == SameValve
ValveAfter(arm) == IF arm THEN SameValve ELSE CloseValve

ArmOutput ==
  \E arm \in BOOLEAN :
    /\ ~estop
    /\ armed' = arm
    /\ ValveAfter(arm)
    /\ UNCHANGED <<axis, homed, estop, state, error, jogFor, homing, link>>

Spray ==
  /\ ~estop /\ armed
  /\ valve' = TRUE
  /\ \E d \in Durations : valveFor' = Capped(d)
  /\ openFor' = 0
  /\ UNCHANGED <<axis, homed, armed, estop, state, error, jogFor, homing, link>>

SprayStop ==
  /\ ~estop
  /\ CloseValve
  /\ UNCHANGED <<axis, homed, armed, estop, state, error, jogFor, homing, link>>

SetConfig ==
  /\ ~estop
  /\ \E l \in Limits : lim' = l
  /\ SameValve
  /\ UNCHANGED <<pos, vel, goal, rate, latches, state, error, jogFor, homing, link>>

\* The simulator closes the session itself, cleanly.
Reboot ==
  /\ ~estop
  /\ homed' = FALSE /\ armed' = FALSE
  /\ CloseValve
  /\ link' = "down"
  /\ UNCHANGED <<axis, estop, state, error, jogFor, homing>>

\* What is read at once when no handler sleeps, and may wait when one does.
Urgent(kind) == Stop(kind = "estop")

Handle ==
  /\ link = "up" /\ homing = 0 /\ waiting = <<>>
  /\ \/ \E kind \in {"estop", "stop"} : Urgent(kind)
     \/ Move \/ MoveRelative \/ Jog \/ HomeBegins \/ ArmOutput \/ Spray \/ SprayStop \/ SetConfig \/ Reboot
  /\ UNCHANGED waiting

\* A stop arrives while homing sleeps, and is read when it is over.
Wait ==
  /\ link = "up" /\ homing > 0 /\ Len(waiting) < MaxWaiting
  /\ \E kind \in {"estop", "stop"} : waiting' = Append(waiting, kind)
  /\ UNCHANGED <<link, homing, axis, latches, state, error, jogFor, valveFor, openFor>>

HandleWaiting ==
  /\ link = "up" /\ homing = 0 /\ waiting # <<>>
  /\ Urgent(Head(waiting))
  /\ waiting' = Tail(waiting)

\* The sleep ends.  When the link was lost meanwhile the next send raises,
\* after the axis has been homed.
HomeEnds ==
  \E found \in BOOLEAN :
    /\ homing = 1
    /\ homing' = 0
    /\ IF found THEN
         /\ pos' = 0 /\ goal' = 0 /\ vel' = 0 /\ homed' = TRUE /\ error' = FALSE
         /\ UNCHANGED <<lim, rate>>
       ELSE error' = TRUE /\ UNCHANGED <<axis, homed>>
    /\ UNCHANGED <<link, waiting, armed, valve, estop, state, jogFor, valveFor, openFor>>

---------------------------------------------------------------------------
(* run: the session *)

Connect ==
  /\ link = "down"
  /\ link' = "up"
  /\ waiting' = <<>>
  /\ UNCHANGED <<homing, axis, latches, state, error, jogFor, valveFor, openFor>>

\* OSError in run: this branch takes the jog's rate as well.
ConnectFails ==
  /\ link = "down"
  /\ CloseValve /\ armed' = FALSE /\ rate' = NoRate
  /\ UNCHANGED <<session, lim, pos, vel, goal, homed, estop, state, error, jogFor>>

\* The physics ends with its next send; a sleeping handler finds out later.
LinkBreaks ==
  /\ link = "up"
  /\ link' = "dying"
  /\ UNCHANGED <<waiting, homing, axis, latches, state, error, jogFor, valveFor, openFor>>

Asleep ==
  /\ link = "dying" /\ homing > 1
  /\ homing' = homing - 1
  /\ UNCHANGED <<link, waiting, axis, latches, state, error, jogFor, valveFor, openFor>>

\* ConnectionClosed in run: the valve and the latch, not the jog's rate.
MakeSafe == CloseValve /\ armed' = FALSE

LinkLost ==
  /\ link = "dying" /\ homing = 0
  /\ link' = "down" /\ waiting' = <<>>
  /\ MakeSafe
  /\ UNCHANGED <<homing, axis, homed, estop, state, error, jogFor>>

\* The server closes normally: the loop over the messages just ends, and the
\* next session begins with the state of the last.
LinkCloses ==
  /\ link = "up" /\ homing = 0
  /\ link' = "down" /\ waiting' = <<>>
  /\ UNCHANGED <<homing, axis, latches, state, error, jogFor, valveFor, openFor>>

Next ==
  \/ Tick \/ Handle \/ Wait \/ HandleWaiting \/ HomeEnds
  \/ Connect \/ ConnectFails \/ LinkBreaks \/ Asleep \/ LinkLost \/ LinkCloses

Spec == Init /\ [][Next]_vars

---------------------------------------------------------------------------
(* Properties *)

TypeOK ==
  /\ link \in {"up", "dying", "down"} /\ Len(waiting) <= MaxWaiting
  /\ homing \in 0..Homing /\ jogFor \in 0..JogTime
  /\ vel \in -MaxSpeed..MaxSpeed /\ (valve <=> valveFor > 0)

\* The simulator keeps the contract of its status frames over links that
\* break, close and come back (_handle, run).
Contract == INSTANCE TurretContract
KeepsContract == Contract!Spec

\* A burst has a hard maximum length, whatever jog, homing, stop or session
\* comes between (open_valve, tick; the file's docstring).  A spray while the
\* valve is open begins a burst of its own.
BurstsEnd == openFor < MaxSpray

\* The simulator implements TurretContract over sessions that break, close and
\* come back, bounds every burst and keeps its speed (_handle, run, tick).
ToolKeepsContract == KeepsContract /\ [](TypeOK /\ BurstsEnd)

\* What the comment in run says, the link is gone, so nothing may keep
\* running: without a session the valve is closed.  A session that was closed
\* normally leaves it as it was.
GoneIsDry == link = "down" => ~valve

=============================================================================
