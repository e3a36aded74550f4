------------------------------ MODULE Targeting ------------------------------
(***************************************************************************)
(* The automatic targeting state machine: server/app/targeting/            *)
(* state_machine.py, one action per state and outcome of step(), with the  *)
(* spray guard it consults.  Runtime._targeting_tick calls step() with a   *)
(* snapshot of the world; the snapshot is the input of each action.        *)
(*                                                                         *)
(* Time is a number of ticks.  Timestamps are kept as the time since them, *)
(* saturated above every threshold they are compared with.  Angles are     *)
(* positions on one axis; a candidate is its position.                     *)
(***************************************************************************)
EXTENDS SprayBudget, Integers, Sequences, FiniteSets

CONSTANTS
    Tracks,          \* track ids
    Pos,             \* aim points, as positions on an axis
    NoSpray,         \* the positions inside a no-spray zone
    Delays,          \* ticks between two calls of step
    Spray,           \* SpraySettings
    DetectStability, AimTimeout, VerifyDuration, LostGrace, ResultWindow,
    MaxRetries, Cooldown,
    ContinuousTracking,
    Deadband,        \* retarget_deadband_deg
    AimTolerance     \* aim_tolerance_deg

None == -1

ASSUME TimesAssumption ==
    /\ {DetectStability, AimTimeout, VerifyDuration} \subseteq Nat
    /\ {LostGrace, ResultWindow, Cooldown, MaxRetries} \subseteq Nat
ASSUME InputAssumption ==
    /\ Pos \subseteq Nat /\ NoSpray \subseteq Pos
    /\ Tracks \subseteq Nat
    /\ Delays \subseteq Nat \ {0} /\ Delays # {}
    /\ Deadband \in Nat /\ AimTolerance \in Nat
    /\ ContinuousTracking \in BOOLEAN
    /\ IsConfig(Spray)

VARIABLES
    state,     \* AutoState
    target,    \* target_track_id
    aim,       \* aim_pan_deg, aim_tilt_deg
    lastCmd,   \* _last_commanded
    retries,
    age,       \* now - _state_since; also now - _target_since in DETECTED
    lostFor,   \* now - _target_lost_since, or None
    history,   \* the spray guard's
    did,       \* the actions the last step returned
    seenFor,   \* history: for how long every step has found the target
               \* eligible, or None
    missedFor, \* history: for how long no step has, or None
    shots,     \* history: sprays since the target was taken up
    streak,    \* history: <<track, n>>, the last n sprays went to that track
               \* and no cooldown was entered since
    rest,      \* history: time since COOLDOWN was entered, or None once a
               \* spray, a fault or a disarm ended it
    pace       \* history: time since the last spray, or None

machine == <<state, target, aim, lastCmd, retries, age, lostFor>>
ghost   == <<seenFor, missedFor, shots, streak, rest, pace>>
vars    == <<machine, history, did, ghost>>

States == {"DISARMED", "IDLE", "DETECTED", "TRACKING", "AIMING", "VERIFY_TARGET",
           "SPRAY", "VERIFY_RESULT", "COOLDOWN", "ERROR"}

Lesser(m, n) == IF m < n THEN m ELSE n
Larger(m, n) == IF m > n THEN m ELSE n

\* No comparison of the code or of a property tells longer times apart.
AgeCap == 1 + Larger(Larger(Larger(DetectStability, AimTimeout), VerifyDuration),
                     Larger(Larger(LostGrace, ResultWindow), Cooldown))
RestCap == Cooldown + DetectStability + VerifyDuration
PaceCap == Lesser(ResultWindow, DetectStability) + VerifyDuration

UpTo(n, cap) == Lesser(n, cap)
Later(t, d, cap) == IF t = None THEN None ELSE UpTo(t + d, cap)

Distance(p, q) == IF p > q THEN p - q ELSE q - p

TypeOK ==
    /\ state \in States
    /\ target \in Tracks \cup {None}
    /\ aim \in Pos \cup {None} /\ lastCmd \in Pos \cup {None}
    /\ retries \in 0..MaxRetries
    /\ age \in 0..AgeCap /\ lostFor \in -1..AgeCap
    /\ did \subseteq {"move", "stop", "spray"}
    /\ seenFor \in -1..AgeCap /\ missedFor \in -1..AgeCap
    /\ shots \in 0..MaxRetries + 1
    /\ streak \in (Tracks \cup {None}) \X (0..MaxRetries + 2)
    /\ rest \in -1..RestCap /\ pace \in -1..PaceCap

Init ==
    /\ state = "DISARMED" /\ target = None /\ aim = None /\ lastCmd = None
    /\ retries = 0 /\ age = 0 /\ lostFor = None
    /\ history = <<>> /\ did = {}
    /\ seenFor = None /\ missedFor = None /\ shots = 0 /\ streak = <<None, 0>>
    /\ rest = None /\ pace = None

----------------------------------------------------------------------------
(* What steps have in common.                                              *)

SlipClockKept(s, d) == state' = s /\ age' = UpTo(age + d, AgeCap)
SlipClockRestarted(s, d) == state' = s /\ age' = 0

\* _enter: the state's clock restarts only when the state changes.
Enter(s, d) ==
    /\ state' = s
    /\ age' = IF s = state THEN UpTo(age + d, AgeCap) ELSE 0

Elapsed(d) == age + d

SlipRetriesKept ==
    /\ target' = None /\ aim' = None /\ lastCmd' = None /\ lostFor' = None
    /\ shots' = 0 /\ UNCHANGED retries

ClearTarget ==
    /\ target' = None /\ aim' = None /\ lastCmd' = None /\ lostFor' = None
    /\ retries' = 0 /\ shots' = 0

\* The step leaves the target alone; _target_lost_since ages.
KeepTarget(d) ==
    /\ lostFor' = Later(lostFor, d, AgeCap)
    /\ UNCHANGED <<target, aim, lastCmd, retries, shots>>

\* Whether the step found the target among the eligible candidates.
Saw(d) ==
    /\ seenFor' = IF seenFor = None THEN 0 ELSE UpTo(seenFor + d, AgeCap)
    /\ missedFor' = None

Missed(d) ==
    /\ missedFor' = IF missedFor = None THEN 0 ELSE UpTo(missedFor + d, AgeCap)
    /\ seenFor' = None

NoTarget == seenFor' = None /\ missedFor' = None

\* No water: the entries of the guard age.
Dry(d) ==
    /\ history' = Aged(history, Spray, d)
    /\ pace' = Later(pace, d, PaceCap)

GoOn(s, d) ==
    /\ Enter(s, d)
    /\ rest' = Later(rest, d, RestCap)
    /\ UNCHANGED streak

Stay(d) == GoOn(state, d)

CoolDown(d) == Enter("COOLDOWN", d) /\ rest' = 0 /\ streak' = <<None, 0>>

----------------------------------------------------------------------------
(* The guards of step(), in their order.                                   *)

\* Not armed, or automatic mode off.
StepOff(d, moving) ==
    /\ IF state = "DISARMED"
       THEN did' = {} /\ KeepTarget(d)
       ELSE did' = (IF moving THEN {"stop"} ELSE {}) /\ ClearTarget
    /\ Enter("DISARMED", d)
    /\ Dry(d) /\ NoTarget
    /\ rest' = None /\ UNCHANGED streak

\* A fault, a lost controller or a turret that is not homed.
StepError(d) ==
    /\ IF state = "ERROR" THEN KeepTarget(d) ELSE ClearTarget
    /\ Enter("ERROR", d)
    /\ did' = {}
    /\ Dry(d) /\ NoTarget
    /\ rest' = None /\ UNCHANGED streak

StepReady(d) ==
    /\ state \in {"DISARMED", "ERROR"}
    /\ ClearTarget
    /\ GoOn("IDLE", d) /\ Dry(d) /\ NoTarget
    /\ did' = {}

----------------------------------------------------------------------------
(* The handlers.                                                           *)

\* best: the selected candidate's track, or None.
OnIdle(d) ==
    /\ state = "IDLE"
    /\ \E best \in Tracks \cup {None} :
         /\ GoOn(IF best = None THEN "IDLE" ELSE "DETECTED", d)
         /\ target' = best
         /\ IF best = None THEN NoTarget ELSE Saw(d)
    /\ aim' = None /\ lastCmd' = None /\ lostFor' = None /\ retries' = 0 /\ shots' = 0
    /\ did' = {} /\ Dry(d)

\* The same candidate must stay selected for a moment.
OnDetected(d) ==
    /\ state = "DETECTED"
    /\ \/ ClearTarget /\ GoOn("IDLE", d) /\ NoTarget
       \/ /\ KeepTarget(d)
          /\ GoOn(IF Elapsed(d) >= DetectStability THEN "TRACKING" ELSE "DETECTED", d)
          /\ Saw(d)
    /\ did' = {} /\ Dry(d)

\* _handle_missing, from any of the states that look the candidate up.
OnMissing(d) ==
    /\ state \in {"TRACKING", "AIMING", "VERIFY_TARGET", "SPRAY"}
    /\ LET lost == IF lostFor = None THEN 0 ELSE UpTo(lostFor + d, AgeCap) IN
         \/ /\ lost < LostGrace
            /\ Stay(d) /\ lostFor' = lost
            /\ UNCHANGED <<target, aim, lastCmd, retries, shots>>
         \/ /\ lost >= LostGrace
            /\ GoOn("IDLE", d) /\ ClearTarget
    /\ did' = {} /\ Dry(d) /\ Missed(d)

SlipDeadbandDrifts(p) ==
    LET near == aim # None /\ Distance(p, aim) < Deadband
    IN  /\ aim' = p
        /\ lastCmd' = IF near THEN lastCmd ELSE p
        /\ did' = IF near THEN {} ELSE {"move"}

\* _move_action: aim at the candidate, and command a move unless the last
\* commanded point is still within the deadband.
MoveAction(p) ==
    LET near == lastCmd # None /\ Distance(p, lastCmd) < Deadband
    IN  /\ aim' = p
        /\ lastCmd' = IF near THEN lastCmd ELSE p
        /\ did' = IF near THEN {} ELSE {"move"}

OnTracking(d) ==
    /\ state = "TRACKING"
    /\ \E p \in Pos : MoveAction(p)
    /\ lostFor' = None
    /\ GoOn("AIMING", d) /\ Dry(d) /\ Saw(d)
    /\ UNCHANGED <<target, retries, shots>>

\* The turret points at pan and moves or not; both are the controller's.
OnAiming(d, pan, moving) ==
    /\ state = "AIMING"
    /\ IF ContinuousTracking
       THEN \E p \in Pos : MoveAction(p)
       ELSE did' = {} /\ UNCHANGED <<aim, lastCmd>>
    /\ lostFor' = None
    /\ LET settled == Distance(pan, aim') <= AimTolerance /\ ~moving IN
         \/ settled /\ GoOn("VERIFY_TARGET", d)
         \/ ~settled /\ Elapsed(d) <= AimTimeout /\ Stay(d)
         \/ ~settled /\ Elapsed(d) > AimTimeout /\ CoolDown(d)
    /\ Dry(d) /\ Saw(d)
    /\ UNCHANGED <<target, retries, shots>>

OnVerifyTarget(d) ==
    /\ state = "VERIFY_TARGET"
    /\ \E p \in Pos :
         \/ Distance(p, aim) > Deadband /\ GoOn("TRACKING", d)
         \/ Distance(p, aim) <= Deadband /\ p \in NoSpray /\ CoolDown(d)
         \/ /\ Distance(p, aim) <= Deadband /\ p \notin NoSpray
            /\ GoOn(IF Elapsed(d) >= VerifyDuration THEN "SPRAY" ELSE "VERIFY_TARGET", d)
    /\ lostFor' = None
    /\ did' = {} /\ Dry(d) /\ Saw(d)
    /\ UNCHANGED <<target, aim, lastCmd, retries, shots>>

\* The zone verdict again, then the budget.
OnSpray(d) ==
    /\ state = "SPRAY"
    /\ LET h == Prune(Aged(history, Spray, d), Spray) IN
       \E p \in Pos :
         \/ /\ p \in NoSpray
            /\ did' = {} /\ CoolDown(d) /\ Dry(d)
            /\ KeepTarget(d)
         \/ /\ p \notin NoSpray /\ ~Allowed(h, Spray)
            /\ did' = {} /\ CoolDown(d)
            /\ history' = h /\ pace' = Later(pace, d, PaceCap)
            /\ KeepTarget(d)
         \/ /\ p \notin NoSpray /\ Allowed(h, Spray)
            /\ did' = {"spray"}
            /\ history' = Recorded(h, Spray, Grant(h, Spray, Spray.default))
            /\ Enter("VERIFY_RESULT", d)
            /\ lostFor' = Later(lostFor, d, AgeCap)
            /\ UNCHANGED <<target, aim, lastCmd, retries>>
            /\ rest' = None /\ pace' = 0 /\ shots' = shots + 1
            /\ streak' = <<target, IF streak[1] = target
                                   THEN UpTo(streak[2] + 1, MaxRetries + 2) ELSE 1>>
    /\ Saw(d)

MayRetry == retries < MaxRetries

OnVerifyResult(d) ==
    /\ state = "VERIFY_RESULT"
    /\ \/ /\ Missed(d)
          /\ \/ Elapsed(d) < Lesser(ResultWindow, LostGrace) /\ Stay(d) /\ KeepTarget(d)
             \/ Elapsed(d) >= Lesser(ResultWindow, LostGrace) /\ GoOn("IDLE", d) /\ ClearTarget
       \/ /\ Saw(d)
          /\ \/ Elapsed(d) < ResultWindow /\ Stay(d) /\ KeepTarget(d)
             \/ /\ Elapsed(d) >= ResultWindow /\ MayRetry
                /\ GoOn("TRACKING", d)
                /\ retries' = retries + 1 /\ lastCmd' = None
                /\ lostFor' = Later(lostFor, d, AgeCap)
                /\ UNCHANGED <<target, aim, shots>>
             \/ /\ Elapsed(d) >= ResultWindow /\ ~MayRetry
                /\ CoolDown(d) /\ KeepTarget(d)
    /\ did' = {} /\ Dry(d)

OnCooldown(d) ==
    /\ state = "COOLDOWN"
    /\ IF Elapsed(d) >= Cooldown
       THEN ClearTarget /\ GoOn("IDLE", d)
       ELSE KeepTarget(d) /\ Stay(d)
    /\ did' = {} /\ Dry(d) /\ NoTarget

Handler(d) ==
    \/ StepReady(d)
    \/ OnIdle(d) \/ OnDetected(d) \/ OnMissing(d) \/ OnTracking(d)
    \/ \E pan \in Pos, moving \in BOOLEAN : OnAiming(d, pan, moving)
    \/ OnVerifyTarget(d) \/ OnSpray(d) \/ OnVerifyResult(d) \/ OnCooldown(d)

Next ==
    \E d \in Delays :
        \/ \E moving \in BOOLEAN : StepOff(d, moving)
        \/ StepError(d)
        \/ Handler(d)

Spec == Init /\ [][Next]_vars

\* _targeting_loop calls step() for ever.
FairSpec == Spec /\ WF_vars(Next)

----------------------------------------------------------------------------
(* Properties.                                                             *)

\* One engagement sprays at most once and MaxRetries times again: the retry
\* counter and the sprays keep step through every way round the cycle of
\* TRACKING to VERIFY_RESULT, re-aiming included.
ShotsCounted ==
    /\ state \in {"DISARMED", "ERROR", "IDLE", "DETECTED"} => shots = 0 /\ retries = 0
    /\ state \in {"TRACKING", "AIMING", "VERIFY_TARGET", "SPRAY"} => shots = retries
    /\ state = "VERIFY_RESULT" => shots = retries + 1
    /\ state = "COOLDOWN" => shots \in {retries, retries + 1}

\* The move the turret was told to make is within the deadband of the aim
\* point, from AIMING through the spray and its result: the deadband drops
\* moves, never the pursuit, and a retry commands a move again.
CommandCoversAim ==
    state \in {"AIMING", "VERIFY_TARGET", "SPRAY", "VERIFY_RESULT"} =>
        /\ {aim, lastCmd} \subseteq Pos
        /\ aim = lastCmd \/ Distance(aim, lastCmd) < Deadband

\* Once COOLDOWN is entered and neither a fault nor a disarm cuts it short,
\* no spray is due before the cooldown, the detection dwell and the
\* verification have all been waited for.
CooldownRests == state = "SPRAY" => rest \in {None, RestCap}

\* Whatever the guard is set to, even with no minimum interval, two
\* automatic sprays are apart by the verification and the shorter of the
\* result window and the detection dwell, also across losses and disarms.
PaceHolds == state = "SPRAY" => pace \in {None, PaceCap}

\* A cooldown is waited for in full (CooldownRests), and shots keep their pace
\* whatever states come between (PaceHolds); the variables have their types.
Paced == TypeOK /\ CooldownRests /\ PaceHolds

\* Every transient state is left, by its own timeout or by a guard:
\* a target that flickers, stays or never settles cannot hold the machine.
Transient == {"DETECTED", "TRACKING", "AIMING", "VERIFY_TARGET", "SPRAY",
              "VERIFY_RESULT", "COOLDOWN"}
NoStateIsForever == \A s \in Transient : []<>(state # s)

\* settings_schema.py says of verify_duration_s that the target must still
\* be present and valid for this long before spraying.
SpraysVerified == [][ "spray" \in did' => seenFor' >= VerifyDuration ]_vars

\* settings_schema.py says lost_grace_s is how long a target may be missing
\* before it counts as lost.
LostIsMissing ==
    [][ (state \in {"TRACKING", "AIMING", "VERIFY_TARGET", "SPRAY"} /\ state' = "IDLE")
        => missedFor' >= LostGrace ]_vars

\* The protocol's failsafe summary says the server enforces a retry limit
\* and a cooldown: the same track is not sprayed more often than that.
RetryLimit == streak[2] <= MaxRetries + 1

\* zones.py says of a no-spray zone: never open the valve.
SpraysAllowedPoint == [][ "spray" \in did' => aim' \notin NoSpray ]_vars
=============================================================================
