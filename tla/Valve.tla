------------------------------- MODULE Valve -------------------------------
(***************************************************************************)
(* The water valve of the turret controller: firmware/src/valve.c and the  *)
(* tasks that call it.  The driver has no lock: its two flags, the GPIO    *)
(* pin and the one-shot close timer are touched by the WebSocket client    *)
(* task (every command, and the loss of the connection), by the status     *)
(* task (the link failsafe), by the safety task (the e-stop input) and by  *)
(* the esp_timer task (the end of a burst).  Each task is therefore taken  *)
(* one access to that shared state at a time.                              *)
(***************************************************************************)
EXTENDS Integers, FiniteSets

CONSTANTS
    Tasks,      \* the firmware tasks that run; "ws" is always one of them
    Durations,  \* the burst lengths a spray command may ask for, in ticks
    MaxOpens,   \* the values max_spray_ms takes, in ticks
    MaxStall    \* how long a task may be preempted at a point where the pin is
                \* unguarded

ASSUME TasksAssumption == "ws" \in Tasks /\ Tasks \subseteq {"ws", "status", "safety"}
ASSUME TimesAssumption == /\ Durations \subseteq Nat \ {0}
                          /\ MaxOpens \subseteq Nat \ {0}
                          /\ MaxOpens # {}
                          /\ MaxStall \in Nat
\* The server asks for 20 ms at least (spray_guard.py); a task is not
\* preempted for that long between two accesses.
ASSUME StallAssumption == \A d \in Durations \cup MaxOpens : MaxStall < d

VARIABLES
    pin,      \* the level of PIN_VALVE: "open" lets water through
    open,     \* s_open, what the status frame reports
    armed,    \* s_armed
    maxOpen,  \* s_max_open_ms
    timer,    \* s_close_timer: ticks left, 0 when it is not running
    cb,       \* close_timer_cb in the esp_timer task: the access it makes next
    estop,    \* s_estop of motion.c, the emergency stop latch
    button,   \* the external e-stop input
    latched,  \* estop_latched, local to safety_task
    pc,       \* the access each task makes next
    job,      \* the handler each task runs
    again,    \* whether its handler calls valve_close once more
    dur,      \* the local duration of valve_open
    stall,    \* ticks each task has been preempted at an unguarded point
    age,      \* history: ticks since the close timer was last started
    limit,    \* history: s_max_open_ms when it was last started
    raced     \* history: a close has stopped the timer of the current opening
              \* before that opening drove the pin

shared == <<pin, open, armed, maxOpen, timer, estop>>
local  == <<pc, job, again, dur, stall>>
input  == <<button, latched>>
ghost  == <<age, limit, raced>>
vars   == <<shared, cb, local, input, ghost>>

Jobs   == {"spray", "spray_stop", "arm", "disarm", "stop", "estop", "lost", "reboot", "none"}
Labels == {"idle", "open_stop", "open_start", "open_pin", "open_flag",
           "close_stop", "close_pin", "close_flag",
           "arm", "disarm", "clear", "latch", "restart"}

\* The points where a task has stopped the timer, has started it and is about
\* to let water through, or has done so and is about to say so.
Unguarded == {"open_start", "open_pin", "open_flag", "close_pin"}

TypeOK ==
    /\ pin \in {"open", "closed"}
    /\ open \in BOOLEAN /\ armed \in BOOLEAN /\ estop \in BOOLEAN
    /\ button \in BOOLEAN /\ latched \in BOOLEAN /\ raced \in BOOLEAN
    /\ maxOpen \in Nat \ {0}
    /\ timer \in Nat /\ age \in Nat /\ limit \in Nat /\ dur \in Nat
    /\ cb \in {"idle", "pin", "flag"}
    /\ pc \in [Tasks -> Labels]
    /\ job \in [Tasks -> Jobs]
    /\ again \in [Tasks -> BOOLEAN]
    /\ stall \in [Tasks -> 0..MaxStall]

\* valve_init: the pin is driven closed before it becomes an output.
Init ==
    /\ pin = "closed" /\ open = FALSE /\ armed = FALSE
    /\ maxOpen \in MaxOpens
    /\ timer = 0 /\ cb = "idle"
    /\ estop = FALSE /\ button = FALSE /\ latched = FALSE
    /\ pc = [t \in Tasks |-> "idle"]
    /\ job = [t \in Tasks |-> "none"]
    /\ again = [t \in Tasks |-> FALSE]
    /\ dur = 0
    /\ stall = [t \in Tasks |-> 0]
    /\ age = 0 /\ limit = maxOpen /\ raced = FALSE

\* A handler starts, goes on to its next access, or is over.
Start(t, j, l) ==
    /\ pc[t] = "idle"
    /\ job' = [job EXCEPT ![t] = j]
    /\ pc' = [pc EXCEPT ![t] = l]
    /\ UNCHANGED stall

Goto(t, l) ==
    /\ pc' = [pc EXCEPT ![t] = l]
    /\ stall' = [stall EXCEPT ![t] = 0]
    /\ job' = IF l = "idle" THEN [job EXCEPT ![t] = "none"] ELSE job

Lower(a, b) == IF a < b THEN a ELSE b

----------------------------------------------------------------------------
(* The handlers that close the valve.  A stop, an emergency stop and the   *)
(* loss of the link call valve_close and then valve_set_armed(false),      *)
(* which closes once more before it clears s_armed.                        *)

ClosesTwice(j) == j \in {"stop", "estop", "lost"}

Begin(t, j) ==
    /\ Start(t, j, "close_stop")
    /\ again' = [again EXCEPT ![t] = ClosesTwice(j)]
    /\ UNCHANGED <<shared, cb, dur, ghost>>

\* handle_command: spray_stop, arm_output{armed:false}, stop, reboot; and
\* the DISCONNECTED event of the same task.
WsClose ==
    /\ \E j \in {"spray_stop", "disarm", "stop", "estop", "lost", "reboot"} : Begin("ws", j)
    /\ UNCHANGED input

\* The link failsafe of status_task.  Whether the link has been silent for
\* link_timeout_ms is left to the environment here.
StatusFailsafe ==
    /\ "status" \in Tasks
    /\ Begin("status", "lost")
    /\ UNCHANGED input

\* safety_task: one period is longer than the debounce, so one reading of
\* the input is enough; estop_latched makes it act once per press.
SafetyPress ==
    /\ "safety" \in Tasks
    /\ button /\ ~latched
    /\ Begin("safety", "estop")
    /\ latched' = TRUE
    /\ UNCHANGED button

SafetyRelease ==
    /\ "safety" \in Tasks
    /\ pc["safety"] = "idle"
    /\ ~button /\ latched
    /\ latched' = FALSE
    /\ UNCHANGED <<shared, cb, local, button, ghost>>

\* valve_close, first access: esp_timer_stop.
CloseStop(t) ==
    /\ pc[t] = "close_stop"
    /\ timer' = 0
    /\ raced' = (raced \/ pc["ws"] = "open_pin")
    /\ Goto(t, "close_pin")
    /\ UNCHANGED <<pin, open, armed, maxOpen, estop, cb, again, dur, input, age, limit>>

ClosePin(t) ==
    /\ pc[t] = "close_pin"
    /\ pin' = "closed"
    /\ Goto(t, "close_flag")
    /\ UNCHANGED <<open, armed, maxOpen, timer, estop, cb, again, dur, input, ghost>>

AfterClose(j) ==
    CASE j = "spray_stop" -> "idle"
      [] j = "reboot"     -> "restart"
      [] OTHER            -> "disarm"

CloseFlag(t) ==
    /\ pc[t] = "close_flag"
    /\ open' = FALSE
    /\ again' = [again EXCEPT ![t] = FALSE]
    /\ Goto(t, IF again[t] THEN "close_stop" ELSE AfterClose(job[t]))
    /\ UNCHANGED <<pin, armed, maxOpen, timer, estop, cb, dur, input, ghost>>

AfterDisarm(j) ==
    CASE j = "estop" -> "latch"
      [] j = "stop"  -> "clear"
      [] OTHER       -> "idle"

Disarm(t) ==
    /\ pc[t] = "disarm"
    /\ armed' = FALSE
    /\ Goto(t, AfterDisarm(job[t]))
    /\ UNCHANGED <<pin, open, maxOpen, timer, estop, cb, again, dur, input, ghost>>

\* motion_stop(true): the emergency stop latches only after the disarm.
Latch(t) ==
    /\ pc[t] = "latch"
    /\ estop' = TRUE
    /\ Goto(t, "idle")
    /\ UNCHANGED <<pin, open, armed, maxOpen, timer, cb, again, dur, input, ghost>>

\* stop{emergency:false}: motion_clear_estop, whatever the input says.
Clear(t) ==
    /\ pc[t] = "clear"
    /\ estop' = FALSE
    /\ Goto(t, "idle")
    /\ UNCHANGED <<pin, open, armed, maxOpen, timer, cb, again, dur, input, ghost>>

CloseStep(t) ==
    CloseStop(t) \/ ClosePin(t) \/ CloseFlag(t) \/ Disarm(t) \/ Latch(t) \/ Clear(t)

----------------------------------------------------------------------------
(* The handlers of the WebSocket task that arm the output and open it.     *)

\* arm_output{armed:true}: refused while the e-stop is latched ...
ArmCheck ==
    /\ ~estop
    /\ Start("ws", "arm", "arm")
    /\ UNCHANGED <<shared, cb, again, dur, input, ghost>>

\* ... and set in a second access.
ArmSet ==
    /\ pc["ws"] = "arm"
    /\ armed' = TRUE
    /\ Goto("ws", "idle")
    /\ UNCHANGED <<pin, open, maxOpen, timer, estop, cb, again, dur, input, ghost>>

\* The clamp of valve_open.
SlipUnclamped(d) == d
Clamped(d) == Lower(d, maxOpen)

\* spray: valve_open reads s_armed and clamps the duration.
SprayCheck ==
    /\ armed
    /\ \E d \in Durations : dur' = Clamped(d)
    /\ Start("ws", "spray", "open_stop")
    /\ UNCHANGED <<shared, cb, again, input, ghost>>

OpenStop ==
    /\ pc["ws"] = "open_stop"
    /\ timer' = 0
    /\ Goto("ws", "open_start")
    /\ UNCHANGED <<pin, open, armed, maxOpen, estop, cb, again, dur, input, ghost>>

SlipTimerNotStarted ==
    /\ pc["ws"] = "open_start"
    /\ age' = 0 /\ limit' = maxOpen /\ raced' = FALSE
    /\ Goto("ws", "open_pin")
    /\ UNCHANGED <<pin, open, armed, maxOpen, timer, estop, cb, again, dur, input>>

\* esp_timer_start_once fails for a running timer only; the access before
\* stopped this one and no other task starts it, so the error return of
\* valve_open is never taken.
OpenStart ==
    /\ pc["ws"] = "open_start"
    /\ timer' = dur
    /\ age' = 0 /\ limit' = maxOpen /\ raced' = FALSE
    /\ Goto("ws", "open_pin")
    /\ UNCHANGED <<pin, open, armed, maxOpen, estop, cb, again, dur, input>>

OpenPin ==
    /\ pc["ws"] = "open_pin"
    /\ pin' = "open"
    /\ Goto("ws", "open_flag")
    /\ UNCHANGED <<open, armed, maxOpen, timer, estop, cb, again, dur, input, ghost>>

OpenFlag ==
    /\ pc["ws"] = "open_flag"
    /\ open' = TRUE
    /\ Goto("ws", "idle")
    /\ UNCHANGED <<pin, armed, maxOpen, timer, estop, cb, again, dur, input, ghost>>

\* A maximum of 0 is ignored.
AcceptsMaximum(m) == m > 0

\* set_config: valve_set_max_open_ms; a running burst keeps its timer.
SetMaxOpen ==
    /\ pc["ws"] = "idle"
    /\ \E m \in (MaxOpens \cup {0}) \ {maxOpen} : AcceptsMaximum(m) /\ maxOpen' = m
    /\ UNCHANGED <<pin, open, armed, timer, estop, cb, local, input, ghost>>

WsStep == ArmCheck \/ ArmSet \/ SprayCheck \/ OpenStop \/ OpenStart
              \/ OpenPin \/ OpenFlag \/ SetMaxOpen

----------------------------------------------------------------------------
(* The esp_timer task, the clock, the input and restarts.                  *)

SlipPinLeftOpen ==
    /\ cb = "pin"
    /\ cb' = "flag"
    /\ UNCHANGED <<pin, open, armed, maxOpen, timer, estop, local, input, ghost>>

TimerPin ==
    /\ cb = "pin"
    /\ pin' = "closed"
    /\ cb' = "flag"
    /\ UNCHANGED <<open, armed, maxOpen, timer, estop, local, input, ghost>>

TimerFlag ==
    /\ cb = "flag"
    /\ open' = FALSE
    /\ cb' = "idle"
    /\ UNCHANGED <<pin, armed, maxOpen, timer, estop, local, input, ghost>>

\* The longest a pin may stay open under its own timer, and one tick more:
\* the history counter stops there.
AgeBound == limit + MaxStall + 1

\* A tick.  The esp_timer task outranks every application task, so its
\* callback ends within the tick; a task is preempted at an unguarded point
\* for at most MaxStall ticks.
Tick ==
    /\ cb = "idle"
    /\ \A t \in Tasks : pc[t] \in Unguarded => stall[t] < MaxStall
    /\ timer > 0 \/ pin = "open" \/ \E t \in Tasks : pc[t] \in Unguarded
    /\ stall' = [t \in Tasks |-> IF pc[t] \in Unguarded THEN stall[t] + 1 ELSE stall[t]]
    /\ timer' = IF timer > 0 THEN timer - 1 ELSE 0
    /\ cb' = IF timer = 1 THEN "pin" ELSE "idle"
    /\ age' = Lower(age + 1, AgeBound)
    /\ UNCHANGED <<pin, open, armed, maxOpen, estop, pc, job, again, dur, input, limit, raced>>

Press ==
    /\ "safety" \in Tasks
    /\ button' = ~button
    /\ UNCHANGED <<shared, cb, local, latched, ghost>>

\* A restart: esp_restart at the end of a reboot command, the task watchdog,
\* a crash or a power cut.  Every flag returns to its initial value and the
\* pin to its inactive level; valve_init runs before anything else.
Restart ==
    /\ pin' = "closed" /\ open' = FALSE /\ armed' = FALSE /\ estop' = FALSE
    /\ maxOpen' \in MaxOpens /\ limit' = maxOpen'
    /\ timer' = 0 /\ cb' = "idle" /\ latched' = FALSE
    /\ pc' = [t \in Tasks |-> "idle"]
    /\ job' = [t \in Tasks |-> "none"]
    /\ again' = [t \in Tasks |-> FALSE]
    /\ stall' = [t \in Tasks |-> 0]
    /\ dur' = 0 /\ age' = 0 /\ raced' = FALSE
    /\ UNCHANGED button

Timer == TimerPin \/ TimerFlag
Begins == WsClose \/ StatusFailsafe \/ SafetyPress \/ SafetyRelease

Next ==
    \/ Begins
    \/ \E t \in Tasks : CloseStep(t)
    \/ WsStep
    \/ Timer
    \/ Tick
    \/ Press
    \/ Restart

Spec == Init /\ [][Next]_vars

\* The scheduler runs the timer task and lets time pass.
TasksRun == /\ WF_vars(Timer) /\ WF_vars(Tick)
            /\ \A t \in Tasks : WF_vars(CloseStep(t) /\ pc[t] = "close_pin")
            /\ WF_vars(OpenStart) /\ WF_vars(OpenPin)
FairSpec == Spec /\ TasksRun

----------------------------------------------------------------------------
(* Properties.                                                             *)

\* The close of an open valve is already on its way: the timer runs, its
\* callback is about to drive the pin, a task is inside valve_close, or a
\* second spray is between the stop and the restart of the timer.
Scheduled == \/ timer > 0
             \/ cb = "pin"
             \/ \E t \in Tasks : pc[t] = "close_pin"
             \/ pc["ws"] = "open_start"

\* "Opening it always arms a one-shot hardware timer first, so the close is
\* already scheduled before the water starts" (valve.h).  It holds unless a
\* closing task stopped the timer of an opening already past its start.
CloseScheduled == pin = "open" => Scheduled \/ raced

\* The same without the exception: what valve.h says.
AlwaysScheduled == pin = "open" => Scheduled

\* No burst outlives max_spray_ms as it was when the burst was accepted,
\* but for the time a closing task may be preempted after it stopped the
\* timer and before it drives the pin.
BurstBounded == pin = "open" /\ ~raced => age <= limit + MaxStall

\* "It can only open while the output is armed, and disarming closes it"
\* (valve.h): no water while disarmed.
DisarmedIsShut == ~armed => pin = "closed"

\* arm_output is refused while the emergency stop is latched, and the
\* emergency stop disarms: the two are never both on.
EstopDisarms == estop => ~armed

\* Valve and motion stay stopped while the e-stop input is asserted: once
\* safety_task has acted on a pressed input, the latch is on.
InputHoldsStop == button /\ latched /\ pc["safety"] = "idle" => estop

\* The status frame: when nothing runs, s_open tells what the pin does.
ReportsPin == (cb = "idle" /\ \A t \in Tasks : pc[t] = "idle") => (open <=> pin = "open")

\* Water stops: an open valve is closed, unless a later spray takes its
\* timer over or a closing task had taken it away.
WaterStops == pin = "open" ~> (pin = "closed" \/ raced \/ job["ws"] = "spray")
----------------------------------------------------------------------------
(* The inductive strengthening behind CloseScheduled and BurstBounded.     *)

\* An opening on its way has the clamped duration in hand, and from the
\* start of its timer on the rest of it.
OpeningTimed ==
    /\ maxOpen \in MaxOpens
    /\ pc["ws"] \in {"open_stop", "open_start"} => MaxStall < dur /\ dur <= maxOpen
    /\ pc["ws"] = "open_pin" /\ ~raced =>
          /\ timer + stall["ws"] = dur
          /\ MaxStall < dur
          /\ age + timer <= limit

\* Water that no race left behind is bounded by what is going to close it.
WaterCovered ==
    pin = "open" /\ ~raced =>
        \/ timer > 0 /\ age + timer <= limit
        \/ cb = "pin" /\ age <= limit
        \/ \E t \in Tasks : pc[t] = "close_pin" /\ age <= limit + stall[t]
        \/ pc["ws"] = "open_start" /\ age <= limit + stall["ws"]

IInv == TypeOK /\ OpeningTimed /\ WaterCovered

\* What the WebSocket task keeps true of the flags when it runs alone.
AloneInv ==
    /\ ~raced
    /\ pc["ws"] \in {"open_stop", "open_start", "open_pin", "open_flag"} => armed
    /\ pc["ws"] \in {"close_flag", "disarm"} => pin = "closed"
    /\ pc["ws"] = "latch" => ~armed
    /\ pc["ws"] = "arm" => ~estop
    /\ DisarmedIsShut
    /\ EstopDisarms
=============================================================================
