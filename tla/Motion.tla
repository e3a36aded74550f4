------------------------------- MODULE Motion -------------------------------
(***************************************************************************)
(* Motion of the turret controller: firmware/src/motion.c and the tasks    *)
(* that call it.  The control task plans and runs the homing sequence at   *)
(* 1 kHz; the home task (ws_client.c) starts it and waits for its event    *)
(* bits; the WebSocket task moves, jogs and stops; the safety task stops   *)
(* for the e-stop input.  The callers' critical sections exclude each      *)
(* other and are one step each.  The control task takes no lock: it reads  *)
(* s_homing_phase in one step and acts on what it read in another.         *)
(*                                                                         *)
(* Positions are whole units of travel; the minimum endstop is at 0, where *)
(* the mechanics end too.  Speeds are signs: the ramps are left out.       *)
(***************************************************************************)
EXTENDS Integers, FiniteSets

CONSTANTS
    Travel,    \* the mechanical range is 0..Travel
    SoftMax,   \* the soft limits are 0 and SoftMax
    Masks,     \* the axes a home command may ask for
    Goals,     \* the targets of a move, clamped to the soft limits
    Jogs,      \* the rates of a jog
    Ops,       \* commands: of "move", "jog", "home", "stop", "estop", "disarm"
    Input,     \* whether the e-stop input is wired
    MaxStall,  \* control periods the WebSocket task may be preempted for
               \* between a check and what depends on it
    MaxSlip    \* bound: steps an axis may have lost

Axes == {0, 1}

ASSUME RangeAssumption == /\ SoftMax \in Nat \ {0} /\ Travel \in Nat /\ SoftMax < Travel
                          /\ MaxStall \in Nat /\ MaxSlip \in Nat
ASSUME MasksAssumption == Masks \subseteq (SUBSET Axes) \ {{}}
ASSUME CommandsAssumption == /\ Goals \subseteq [Axes -> 0..SoftMax]
                             /\ Jogs \subseteq [Axes -> {-1, 0, 1}]
ASSUME InputAssumption == Input \in BOOLEAN

VARIABLES
    phys,     \* where each axis really is
    slip,     \* axis position = phys + slip: steps lost or never referenced
    target, rate, vel,  \* of each axis; rate is None for NAN
    homed, limits, estop,
    jog,      \* s_jog_expires_us: "none", "running", "expired"
    phase, axis, axes,  \* s_homing_phase, s_homing_axis, s_homing_axes
    bits,     \* s_events
    seen,     \* the phase the control task acts on; "none" between periods
    home,     \* the home task: "queue", "start", "enter", "wait", "stop"
    queue,    \* s_home_queue, of length 1: the masks in it
    ws,       \* the WebSocket task: "idle", "move", "jog", "clear", "bits",
              \* "disarmed"
    late,     \* control periods since its check
    safety,   \* the safety task: "idle", "bits"
    overtaken \* history: the control task acted on a phase that was no
              \* longer there, or homing was started on top of a stop that
              \* came after its checks

axis_vars == <<target, rate, vel>>
place     == <<phys, slip>>
flags     == <<homed, limits, estop>>
homing    == <<phase, axis, axes, bits>>
tasks     == <<seen, home, queue, ws, late, safety>>
vars      == <<axis_vars, place, flags, jog, homing, tasks, overtaken>>

None == 9
Rates == {-1, 0, 1}
Phases == {"IDLE", "SEEK", "BACKOFF", "RESEEK", "SETTLE", "NEXT"}

Position(a) == phys[a] + slip[a]
Here == [a \in Axes |-> Position(a)]
Still == [a \in Axes |-> None]

TypeOK ==
    /\ phys \in [Axes -> 0..Travel]
    /\ slip \in [Axes -> -MaxSlip..MaxSlip]
    /\ target \in [Axes -> -MaxSlip..Travel + MaxSlip]
    /\ rate \in [Axes -> Rates \cup {None}] /\ vel \in [Axes -> Rates]
    /\ homed \in BOOLEAN /\ limits \in BOOLEAN /\ estop \in BOOLEAN
    /\ jog \in {"none", "running", "expired"}
    /\ phase \in Phases /\ axis \in Axes /\ axes \in SUBSET Axes
    /\ bits \subseteq {"ok", "fail"}
    /\ seen \in Phases \cup {"none", "finish"}
    /\ home \in {"queue", "start", "enter", "wait", "stop"}
    /\ queue \in SUBSET Masks /\ Cardinality(queue) <= 1
    /\ ws \in {"idle", "move", "jog", "clear", "bits", "disarmed"} /\ late \in 0..MaxStall
    /\ safety \in {"idle", "bits"}
    /\ overtaken \in BOOLEAN

\* Boot: nobody knows where the axes are.
Init ==
    /\ phys \in [Axes -> 0..Travel] /\ slip \in [Axes -> -MaxSlip..MaxSlip]
    /\ target = Here /\ rate = Still /\ vel = [a \in Axes |-> 0]
    /\ homed = FALSE /\ limits = FALSE /\ estop = FALSE /\ jog = "none"
    /\ phase = "IDLE" /\ axis = 0 /\ axes = {} /\ bits = {}
    /\ seen = "none" /\ home = "queue" /\ queue = {} /\ ws = "idle" /\ late = 0
    /\ safety = "idle" /\ overtaken = FALSE

----------------------------------------------------------------------------
(* The control task.                                                       *)

\* A jog past its time to live.
SlipJogRateKept == jog' = "none" /\ UNCHANGED <<rate, target>>
ExpireJog == jog' = "none" /\ rate' = Still /\ target' = Here

\* The top of a period: an expired jog ends, the phase is read.
Begin ==
    /\ seen = "none"
    /\ ws \in {"move", "jog"} => late < MaxStall
    /\ late' = IF ws \in {"move", "jog"} THEN late + 1 ELSE 0
    /\ IF jog = "expired" THEN ExpireJog ELSE UNCHANGED <<jog, rate, target>>
    /\ seen' = phase
    /\ UNCHANGED <<vel, place, flags, homing, home, queue, ws, safety, overtaken>>

Sign(n) == IF n > 0 THEN 1 ELSE IF n < 0 THEN -1 ELSE 0

\* step_allowed: the soft limits, when they are on.
StepAllowed(v, p, on) == ~(on /\ (IF v < 0 THEN p <= 0 ELSE p >= SoftMax))

\* Only the minimum endstops are fitted.
Pressed(a) == phys[a] = 0
Blocked(a, speed) == speed < 0 /\ Pressed(a)

\* axis_update and the step ISR until the next period, from the rates r, the
\* targets t and the slips s the homing step left.  A step into the far
\* mechanical end is lost.

Update(r, t, s, on) ==
    \E stepping \in SUBSET Axes :
       LET p == [a \in Axes |-> phys[a] + s[a]]
           want == [a \in Axes |-> IF r[a] # None THEN r[a] ELSE Sign(t[a] - p[a])]
           v == [a \in Axes |-> IF estop \/ Blocked(a, want[a]) THEN 0 ELSE want[a]]
           moves == {a \in stepping : v[a] # 0 /\ StepAllowed(v[a], p[a], on)}
           lost == {a \in moves : v[a] > 0 /\ phys[a] = Travel}
       IN  /\ \A a \in lost : s[a] < MaxSlip
           /\ phys' = [a \in Axes |-> IF a \in moves \ lost THEN phys[a] + v[a] ELSE phys[a]]
           /\ slip' = [a \in Axes |-> IF a \in lost THEN s[a] + 1 ELSE s[a]]
           /\ vel' = v
           /\ rate' = r /\ target' = t

AtRest(a) == vel[a] = 0 /\ target[a] = Position(a)

\* homing_enter, on what the control task read at the top of the period.
Enter(p) ==
    /\ phase' = p
    /\ overtaken' = (overtaken \/ phase # seen)

Untouched == UNCHANGED <<flags, jog, home, queue, ws, late, safety>>

\* The end of a period without a change of phase.
Plan(r, t) ==
    /\ Update(r, t, slip, limits)
    /\ overtaken' = (overtaken \/ (seen # phase /\ r # rate))
    /\ seen' = "none"
    /\ UNCHANGED <<homing, flags>>
    /\ UNCHANGED <<jog, home, queue, ws, late, safety>>

\* The touch of the endstop gives the position its reference.
Reference == [slip EXCEPT ![axis] = 0 - phys[axis]]

Moves(p, t) ==
    /\ Enter(p)
    /\ Update([rate EXCEPT ![axis] = None], [target EXCEPT ![axis] = t], Reference, limits)
    /\ seen' = "none" /\ UNCHANGED <<axis, axes, bits>> /\ Untouched

\* homing_fail: at the timeout of a phase.
Fail ==
    /\ phase' = "IDLE" /\ homed' = FALSE /\ bits' = bits \cup {"fail"}
    /\ overtaken' = (overtaken \/ (phase # seen /\ phase # "IDLE"))
    /\ Update(Still, Here, slip, limits)
    /\ seen' = "none"
    /\ UNCHANGED <<limits, estop, axis, axes, jog, home, queue, ws, late, safety>>

Idle == seen = "IDLE" /\ Plan(rate, target)

Seek ==
    /\ seen = "SEEK"
    /\ \/ Pressed(axis) /\ Moves("BACKOFF", 1)
       \/ ~Pressed(axis) /\ Plan([rate EXCEPT ![axis] = -1], target)
       \/ ~Pressed(axis) /\ Fail

BackOff ==
    /\ seen = "BACKOFF"
    /\ \/ /\ AtRest(axis)
          /\ Enter("RESEEK") /\ Update(rate, target, slip, limits)
          /\ seen' = "none" /\ UNCHANGED <<axis, axes, bits>> /\ Untouched
       \/ ~AtRest(axis) /\ (Plan(rate, target) \/ Fail)

Reseek ==
    /\ seen = "RESEEK"
    /\ \/ Pressed(axis) /\ Moves("SETTLE", 0)
       \/ ~Pressed(axis) /\ Plan([rate EXCEPT ![axis] = -1], target)
       \/ ~Pressed(axis) /\ Fail

Settle ==
    /\ seen = "SETTLE"
    /\ \/ /\ AtRest(axis)
          /\ Enter("NEXT") /\ Update([rate EXCEPT ![axis] = None], target, slip, limits)
          /\ seen' = "none" /\ UNCHANGED <<axis, axes, bits>> /\ Untouched
       \/ ~AtRest(axis) /\ Plan([rate EXCEPT ![axis] = None], target)

\* The axes are homed one after the other.
SlipNoNextAxis == FALSE
AxisLeft == axis = 0 /\ 1 \in axes

NextAxis ==
    /\ seen = "NEXT" /\ AxisLeft
    /\ axis' = 1
    /\ Enter("SEEK") /\ Update(rate, target, slip, limits)
    /\ seen' = "none" /\ UNCHANGED <<axes, bits>> /\ Untouched

AllHomed ==
    /\ seen = "NEXT" /\ ~AxisLeft
    /\ homed' = TRUE /\ limits' = TRUE
    /\ overtaken' = (overtaken \/ phase # seen)
    /\ seen' = "finish"
    /\ UNCHANGED <<axis_vars, place, estop, jog, homing, home, queue, ws, late, safety>>

Finish ==
    /\ seen = "finish"
    /\ phase' = "IDLE" /\ bits' = bits \cup {"ok"}
    /\ overtaken' = (overtaken \/ phase # "NEXT")
    /\ Update(rate, target, slip, limits)
    /\ seen' = "none"
    /\ UNCHANGED <<axis, axes>> /\ Untouched

Control == Begin \/ Idle \/ Seek \/ BackOff \/ Reseek \/ Settle \/ NextAxis \/ AllHomed \/ Finish

----------------------------------------------------------------------------
(* motion_stop, and who calls it.                                          *)

\* The critical section.  A hard stop loses steps on an axis that moves.
PlainStop ==
    /\ jog' = "none" /\ rate' = Still /\ target' = Here
    /\ UNCHANGED <<vel, place, flags, homing>>

SlipPhaseKept ==
    /\ jog' = "none" /\ rate' = Still
    /\ vel' = [a \in Axes |-> 0]
    /\ slip' \in {s \in [Axes -> -MaxSlip..MaxSlip] : \A a \in Axes : vel[a] = 0 => s[a] = slip[a]}
    /\ target' = [a \in Axes |-> phys[a] + slip'[a]]
    /\ estop' = TRUE /\ homed' = FALSE /\ limits' = FALSE
    /\ UNCHANGED <<phys, homing, bits>>

HardStop ==
    /\ jog' = "none" /\ rate' = Still
    /\ vel' = [a \in Axes |-> 0]
    /\ slip' \in {s \in [Axes -> -MaxSlip..MaxSlip] : \A a \in Axes : vel[a] = 0 => s[a] = slip[a]}
    /\ target' = [a \in Axes |-> phys[a] + slip'[a]]
    /\ estop' = TRUE /\ homed' = FALSE /\ limits' = FALSE /\ phase' = "IDLE"
    /\ UNCHANGED <<phys, axis, axes, bits>>

\* stop{emergency:false}, the loss of the link, and the link failsafe.
StopCommand ==
    /\ "stop" \in Ops /\ ws = "idle"
    /\ PlainStop
    /\ ws' = "clear"
    /\ UNCHANGED <<seen, home, queue, late, safety, overtaken>>

LinkLost ==
    /\ "lost" \in Ops /\ ws = "idle"
    /\ PlainStop
    /\ UNCHANGED <<seen, home, queue, ws, late, safety, overtaken>>

\* ... where a latched emergency stop is cleared after the plain stop.
ClearEstop ==
    /\ ws = "clear" /\ ws' = "idle"
    /\ estop' = FALSE
    /\ UNCHANGED <<axis_vars, place, homed, limits, jog, homing, seen, home, queue, late,
                   safety, overtaken>>

EstopCommand ==
    /\ "estop" \in Ops /\ ws = "idle"
    /\ HardStop
    /\ ws' = "bits"
    /\ UNCHANGED <<seen, home, queue, late, safety, overtaken>>

EstopInput ==
    /\ Input /\ safety = "idle"
    /\ HardStop
    /\ safety' = "bits"
    /\ UNCHANGED <<seen, home, queue, ws, late, overtaken>>

\* The event bit is set behind the critical section.
WsBits ==
    /\ ws = "bits" /\ ws' = "idle" /\ bits' = bits \cup {"fail"}
    /\ UNCHANGED <<axis_vars, place, flags, jog, phase, axis, axes, seen, home, queue, late,
                   safety, overtaken>>

SafetyBits ==
    /\ safety = "bits" /\ safety' = "idle" /\ bits' = bits \cup {"fail"}
    /\ UNCHANGED <<axis_vars, place, flags, jog, phase, axis, axes, seen, home, queue, ws, late,
                   overtaken>>

----------------------------------------------------------------------------
(* The other commands of the WebSocket task.                               *)

\* arm_output{armed:false} does not reach motion.c: it disarms the valve
\* and sends its ack.
DisarmCommand ==
    /\ \/ "disarm" \in Ops /\ ws = "idle" /\ ws' = "disarmed"
       \/ ws = "disarmed" /\ ws' = "idle"
    /\ UNCHANGED <<axis_vars, place, flags, jog, homing, seen, home, queue, late, safety,
                   overtaken>>

\* check_can_move, and the checks of motion_jog.
Check(op) ==
    /\ op \in Ops /\ ws = "idle"
    /\ ~estop /\ phase = "IDLE"
    /\ op = "move" => homed
    /\ ws' = op /\ late' = 0
    /\ UNCHANGED <<axis_vars, place, flags, jog, homing, seen, home, queue, safety, overtaken>>

\* motion_move_absolute, the target clamped to the soft limits.
SetTarget ==
    /\ ws = "move" /\ ws' = "idle" /\ late' = 0
    /\ target' \in Goals
    /\ rate' = Still /\ jog' = "none"
    /\ UNCHANGED <<vel, place, flags, homing, seen, home, queue, safety, overtaken>>

SetRate ==
    /\ ws = "jog" /\ ws' = "idle" /\ late' = 0
    /\ rate' \in Jogs
    /\ jog' = "running"
    /\ UNCHANGED <<target, vel, place, flags, homing, seen, home, queue, safety, overtaken>>

\* The jog is no longer refreshed.
JogTtl ==
    /\ jog = "running" /\ jog' = "expired"
    /\ UNCHANGED <<axis_vars, place, flags, homing, tasks, overtaken>>

\* home: queued for the home task, refused with BUSY when the queue is full.
HomeCommand ==
    /\ "home" \in Ops /\ ws = "idle" /\ queue = {}
    /\ \E m \in Masks : queue' = {m}
    /\ UNCHANGED <<axis_vars, place, flags, jog, homing, seen, home, ws, late, safety, overtaken>>

----------------------------------------------------------------------------
(* The home task.                                                          *)

\* motion_home_start up to its checks; refused, the request is acknowledged.
Receive ==
    /\ home = "queue" /\ queue # {} /\ queue' = {}
    /\ IF estop \/ phase # "IDLE"
       THEN UNCHANGED <<home, axes>>
       ELSE home' = "start" /\ axes' \in queue
    /\ UNCHANGED <<axis_vars, place, flags, jog, phase, axis, bits, seen, ws, late, safety, overtaken>>

HomeStart ==
    /\ home = "start" /\ home' = "enter"
    /\ bits' = {}
    /\ axis' = IF 0 \in axes THEN 0 ELSE 1
    /\ homed' = FALSE /\ limits' = FALSE
    /\ jog' = "none" /\ rate' = Still /\ target' = Here
    /\ UNCHANGED <<vel, place, estop, phase, axes, seen, queue, ws, late, safety, overtaken>>

HomeEnter ==
    /\ home = "enter" /\ home' = "wait"
    /\ phase' = "SEEK"
    /\ overtaken' = (overtaken \/ estop \/ phase # "IDLE")
    /\ UNCHANGED <<axis_vars, place, flags, jog, axis, axes, bits, seen, queue, ws, late, safety>>

\* motion_home_wait: the bits are consumed, and the request acknowledged.
HomeDone ==
    /\ home = "wait" /\ bits # {} /\ bits' = {}
    /\ home' = "queue"
    /\ UNCHANGED <<axis_vars, place, flags, jog, phase, axis, axes, seen, queue, ws, late, safety,
                   overtaken>>

HomeTimeout ==
    /\ home = "wait" /\ home' = "stop"
    /\ phase' = "IDLE"
    /\ UNCHANGED <<axis_vars, place, flags, jog, axis, axes, bits, seen, queue, ws, late, safety,
                   overtaken>>

HomeStop ==
    /\ home = "stop" /\ home' = "queue"
    /\ PlainStop
    /\ UNCHANGED <<seen, queue, ws, late, safety, overtaken>>

HomeTask == Receive \/ HomeStart \/ HomeEnter \/ HomeDone \/ HomeTimeout \/ HomeStop

WsTask == StopCommand \/ LinkLost \/ ClearEstop \/ EstopCommand \/ WsBits \/ DisarmCommand
              \/ Check("move") \/ Check("jog") \/ SetTarget \/ SetRate \/ HomeCommand

Next == Control \/ HomeTask \/ WsTask \/ JogTtl \/ EstopInput \/ SafetyBits

Spec == Init /\ [][Next]_vars

----------------------------------------------------------------------------
(* Properties.                                                             *)

\* A homed turret knows where it is and stays inside its soft limits, by
\* whatever moves, jogs, stops and homings it got there.
HomedIsReferenced ==
    homed /\ ~overtaken => \A a \in Axes : slip[a] = 0 /\ phys[a] \in 0..SoftMax

\* What is homed is referenced, and the variables have their types.
Referenced == TypeOK /\ HomedIsReferenced

\* No rate command runs for ever: a jog's time to live is running, or the
\* homing sequence or the end of its wait will take it back.
RatesEnd ==
    ~overtaken /\ (\E a \in Axes : rate[a] \notin {None, 0}) =>
        jog # "none" \/ phase # "IDLE" \/ home = "stop"

\* When an emergency stop is cleared nothing is commanded: what a task wrote
\* while it was latched was taken back, and homing does not go on.
ClearIsAtRest ==
    [][ estop /\ ~estop' /\ ~overtaken =>
          rate' = Still /\ target' = Here' /\ phase' = "IDLE" ]_vars

\* The protocol says motion must stop on a stop: behind motion_stop(false)
\* nothing is being homed.
StopEndsHoming == ws = "clear" => phase = "IDLE"

\* motion.h says of an emergency stop: immediate, clears homing.
EstopUnhomes == estop => ~homed

\* The firmware's README says that after an emergency stop absolute moves are
\* refused until the turret is re-homed, its position being no longer
\* trustworthy: a turret that takes them can trust both its axes.
MovesAreTrusted == homed => \A a \in Axes : slip[a] = 0

\* The protocol says motion must stop on arm_output{armed:false}.
DisarmStopsMotion == ws = "disarmed" => phase = "IDLE" /\ rate = Still /\ target = Here
=============================================================================
