-------------------------- MODULE TargetingProofs --------------------------
(***************************************************************************)
(* What holds of the targeting machine for every setting: its types, the   *)
(* bound on the sprays of an engagement, that the turret's last command    *)
(* covers the aim point, and the pauses before a spray.                    *)
(***************************************************************************)
EXTENDS Targeting, TLAPS

IInv == TypeOK /\ ShotsCounted /\ CommandCoversAim

----------------------------------------------------------------------------
(* The clocks.                                                             *)

LEMMA CapsAreNat == /\ AgeCap \in Nat \ {0}
                    /\ RestCap \in Nat
                    /\ PaceCap \in Nat
  BY TimesAssumption DEF AgeCap, RestCap, PaceCap, Larger, Lesser

LEMMA UpToType ==
  ASSUME NEW n \in Nat, NEW cap \in Nat
  PROVE  UpTo(n, cap) \in 0..cap
  BY DEF UpTo, Lesser

LEMMA LaterType ==
  ASSUME NEW cap \in Nat, NEW t \in -1..cap, NEW d \in Nat
  PROVE  Later(t, d, cap) \in -1..cap
  <1>1. CASE t = None
    BY <1>1 DEF Later, None
  <1>2. CASE t # None
    <2>1. t + d \in Nat
      BY <1>2 DEF None
    <2>2. UpTo(t + d, cap) \in 0..cap
      BY <2>1, UpToType
    <2> QED BY <1>2, <2>2 DEF Later
  <1> QED BY <1>1, <1>2

LEMMA EnterType ==
  ASSUME TypeOK, NEW d \in Nat, NEW s \in States, Enter(s, d)
  PROVE  state' = s /\ state' \in States /\ age' \in 0..AgeCap
  <1>1. age + d \in Nat /\ AgeCap \in Nat /\ age \in 0..AgeCap
    BY CapsAreNat DEF TypeOK
  <1>2. UpTo(age + d, AgeCap) \in 0..AgeCap
    BY <1>1, UpToType
  <1> QED BY <1>1, <1>2 DEF Enter

LEMMA SightType ==
  ASSUME TypeOK, NEW d \in Nat, Saw(d) \/ Missed(d) \/ NoTarget
  PROVE  seenFor' \in -1..AgeCap /\ missedFor' \in -1..AgeCap
  <1>1. AgeCap \in Nat /\ seenFor \in -1..AgeCap /\ missedFor \in -1..AgeCap
    BY CapsAreNat DEF TypeOK
  <1>2. seenFor # None => UpTo(seenFor + d, AgeCap) \in 0..AgeCap
    <2> SUFFICES ASSUME seenFor # None PROVE UpTo(seenFor + d, AgeCap) \in 0..AgeCap
      OBVIOUS
    <2>1. seenFor + d \in Nat
      BY <1>1 DEF None
    <2> QED BY <1>1, <2>1, UpToType
  <1>3. missedFor # None => UpTo(missedFor + d, AgeCap) \in 0..AgeCap
    <2> SUFFICES ASSUME missedFor # None PROVE UpTo(missedFor + d, AgeCap) \in 0..AgeCap
      OBVIOUS
    <2>1. missedFor + d \in Nat
      BY <1>1 DEF None
    <2> QED BY <1>1, <2>1, UpToType
  <1> QED BY <1>1, <1>2, <1>3 DEF Saw, Missed, NoTarget, None

LEMMA DryType ==
  ASSUME TypeOK, NEW d \in Nat, pace' = Later(pace, d, PaceCap)
  PROVE  pace' \in -1..PaceCap
  BY LaterType, CapsAreNat DEF TypeOK

LEMMA GoOnType ==
  ASSUME TypeOK, NEW d \in Nat, NEW s \in States, GoOn(s, d)
  PROVE  /\ state' = s /\ state' \in States /\ age' \in 0..AgeCap
         /\ rest' \in -1..RestCap
         /\ streak' \in (Tracks \cup {None}) \X (0..MaxRetries + 2)
  <1>1. rest' \in -1..RestCap
    BY LaterType, CapsAreNat DEF GoOn, TypeOK
  <1> QED BY <1>1, EnterType DEF GoOn, TypeOK

LEMMA CoolDownType ==
  ASSUME TypeOK, NEW d \in Nat, CoolDown(d)
  PROVE  /\ state' = "COOLDOWN" /\ state' \in States /\ age' \in 0..AgeCap
         /\ rest' \in -1..RestCap
         /\ streak' \in (Tracks \cup {None}) \X (0..MaxRetries + 2)
  <1>1. state' = "COOLDOWN" /\ state' \in States /\ age' \in 0..AgeCap
    BY EnterType DEF CoolDown, States
  <1> QED BY <1>1, CapsAreNat, TimesAssumption DEF CoolDown

LEMMA LostType ==
  ASSUME TypeOK, NEW d \in Nat
  PROVE  Later(lostFor, d, AgeCap) \in -1..AgeCap
  BY LaterType, CapsAreNat DEF TypeOK

----------------------------------------------------------------------------
(* One lemma per action: it keeps the inductive invariant.                 *)

LEMMA OffInv ==
  ASSUME IInv, NEW d \in Nat, NEW moving \in BOOLEAN, StepOff(d, moving)
  PROVE  IInv'
  <1> USE DEF IInv
  <1>1. state' = "DISARMED" /\ age' \in 0..AgeCap
    BY EnterType DEF StepOff, States
  <1>2. seenFor' \in -1..AgeCap /\ missedFor' \in -1..AgeCap
    BY SightType DEF StepOff
  <1>3. pace' \in -1..PaceCap
    BY DryType DEF StepOff, Dry
  <1>4. rest' \in -1..RestCap
    BY CapsAreNat DEF StepOff, None
  <1>5. TypeOK'
    BY <1>1, <1>2, <1>3, <1>4, LostType, CapsAreNat, TimesAssumption
       DEF StepOff, KeepTarget, ClearTarget, TypeOK, States, None
  <1>6. ShotsCounted' /\ CommandCoversAim'
    BY <1>1 DEF StepOff, KeepTarget, ClearTarget, ShotsCounted, CommandCoversAim
  <1> QED BY <1>5, <1>6

LEMMA ErrorInv ==
  ASSUME IInv, NEW d \in Nat, StepError(d)
  PROVE  IInv'
  <1> USE DEF IInv
  <1>1. state' = "ERROR" /\ age' \in 0..AgeCap
    BY EnterType DEF StepError, States
  <1>2. seenFor' \in -1..AgeCap /\ missedFor' \in -1..AgeCap
    BY SightType DEF StepError
  <1>3. pace' \in -1..PaceCap
    BY DryType DEF StepError, Dry
  <1>4. rest' \in -1..RestCap
    BY CapsAreNat DEF StepError, None
  <1>5. TypeOK'
    BY <1>1, <1>2, <1>3, <1>4, LostType, CapsAreNat, TimesAssumption
       DEF StepError, KeepTarget, ClearTarget, TypeOK, States, None
  <1>6. ShotsCounted' /\ CommandCoversAim'
    BY <1>1 DEF StepError, KeepTarget, ClearTarget, ShotsCounted, CommandCoversAim
  <1> QED BY <1>5, <1>6

LEMMA ReadyInv ==
  ASSUME IInv, NEW d \in Nat, StepReady(d)
  PROVE  IInv'
  <1> USE DEF IInv
  <1>1. /\ state' = "IDLE" /\ age' \in 0..AgeCap /\ rest' \in -1..RestCap
        /\ streak' \in (Tracks \cup {None}) \X (0..MaxRetries + 2)
    BY GoOnType DEF StepReady, States
  <1>2. seenFor' \in -1..AgeCap /\ missedFor' \in -1..AgeCap
    BY SightType DEF StepReady
  <1>3. pace' \in -1..PaceCap
    BY DryType DEF StepReady, Dry
  <1>4. TypeOK'
    BY <1>1, <1>2, <1>3, CapsAreNat, TimesAssumption
       DEF StepReady, ClearTarget, TypeOK, States, None
  <1>5. ShotsCounted' /\ CommandCoversAim'
    BY <1>1 DEF StepReady, ClearTarget, ShotsCounted, CommandCoversAim
  <1> QED BY <1>4, <1>5

LEMMA IdleInv ==
  ASSUME IInv, NEW d \in Nat, OnIdle(d)
  PROVE  IInv'
  <1> USE DEF IInv
  <1>1. PICK best \in Tracks \cup {None} :
          /\ GoOn(IF best = None THEN "IDLE" ELSE "DETECTED", d)
          /\ target' = best
          /\ IF best = None THEN NoTarget ELSE Saw(d)
    BY DEF OnIdle
  <1>2. /\ state' \in {"IDLE", "DETECTED"} /\ age' \in 0..AgeCap /\ rest' \in -1..RestCap
        /\ streak' \in (Tracks \cup {None}) \X (0..MaxRetries + 2)
    BY <1>1, GoOnType DEF States
  <1>3. seenFor' \in -1..AgeCap /\ missedFor' \in -1..AgeCap
    BY <1>1, SightType
  <1>4. pace' \in -1..PaceCap
    BY DryType DEF OnIdle, Dry
  <1>5. TypeOK'
    BY <1>1, <1>2, <1>3, <1>4, CapsAreNat, TimesAssumption DEF OnIdle, TypeOK, States, None
  <1>6. ShotsCounted' /\ CommandCoversAim'
    BY <1>2 DEF OnIdle, ShotsCounted, CommandCoversAim
  <1> QED BY <1>5, <1>6

LEMMA DetectedInv ==
  ASSUME IInv, NEW d \in Nat, OnDetected(d)
  PROVE  IInv'
  <1> USE DEF IInv
  <1>1. pace' \in -1..PaceCap
    BY DryType DEF OnDetected, Dry
  <1>2. seenFor' \in -1..AgeCap /\ missedFor' \in -1..AgeCap
    BY SightType DEF OnDetected
  <1>3. CASE ClearTarget /\ GoOn("IDLE", d)
    <2>1. /\ state' = "IDLE" /\ age' \in 0..AgeCap /\ rest' \in -1..RestCap
          /\ streak' \in (Tracks \cup {None}) \X (0..MaxRetries + 2)
      BY <1>3, GoOnType DEF States
    <2>2. TypeOK'
      BY <1>1, <1>2, <1>3, <2>1, CapsAreNat, TimesAssumption
         DEF OnDetected, ClearTarget, TypeOK, States, None
    <2>3. ShotsCounted' /\ CommandCoversAim'
      BY <1>3, <2>1 DEF ClearTarget, ShotsCounted, CommandCoversAim
    <2> QED BY <2>2, <2>3
  <1>4. CASE /\ KeepTarget(d)
             /\ GoOn(IF Elapsed(d) >= DetectStability THEN "TRACKING" ELSE "DETECTED", d)
    <2>1. /\ state' \in {"TRACKING", "DETECTED"} /\ age' \in 0..AgeCap /\ rest' \in -1..RestCap
          /\ streak' \in (Tracks \cup {None}) \X (0..MaxRetries + 2)
      BY <1>4, GoOnType DEF States
    <2>2. TypeOK'
      BY <1>1, <1>2, <1>4, <2>1, LostType DEF OnDetected, KeepTarget, TypeOK, States
    <2>3. ShotsCounted' /\ CommandCoversAim'
      BY <1>4, <2>1 DEF OnDetected, KeepTarget, ShotsCounted, CommandCoversAim
    <2> QED BY <2>2, <2>3
  <1> QED BY <1>3, <1>4 DEF OnDetected

LEMMA MissingInv ==
  ASSUME IInv, NEW d \in Nat, OnMissing(d)
  PROVE  IInv'
  <1> USE DEF IInv
  <1>1. pace' \in -1..PaceCap
    BY DryType DEF OnMissing, Dry
  <1>2. seenFor' \in -1..AgeCap /\ missedFor' \in -1..AgeCap
    BY SightType DEF OnMissing
  <1> DEFINE lost == IF lostFor = None THEN 0 ELSE UpTo(lostFor + d, AgeCap)
  <1>3. lost \in 0..AgeCap
    <2>1. CASE lostFor = None
      BY <2>1, CapsAreNat
    <2>2. CASE lostFor # None
      <3>1. lostFor + d \in Nat
        BY <2>2, CapsAreNat DEF TypeOK, None
      <3> QED BY <2>2, <3>1, UpToType, CapsAreNat
    <2> QED BY <2>1, <2>2
  <1>4. CASE Stay(d) /\ lostFor' = lost /\ UNCHANGED <<target, aim, lastCmd, retries, shots>>
    <2>1. /\ state' = state /\ age' \in 0..AgeCap /\ rest' \in -1..RestCap
          /\ streak' \in (Tracks \cup {None}) \X (0..MaxRetries + 2)
      BY <1>4, GoOnType DEF Stay, TypeOK
    <2>2. TypeOK'
      BY <1>1, <1>2, <1>3, <1>4, <2>1, CapsAreNat DEF OnMissing, TypeOK
    <2>3. ShotsCounted' /\ CommandCoversAim'
      BY <1>4, <2>1 DEF ShotsCounted, CommandCoversAim
    <2> QED BY <2>2, <2>3
  <1>5. CASE GoOn("IDLE", d) /\ ClearTarget
    <2>1. /\ state' = "IDLE" /\ age' \in 0..AgeCap /\ rest' \in -1..RestCap
          /\ streak' \in (Tracks \cup {None}) \X (0..MaxRetries + 2)
      BY <1>5, GoOnType DEF States
    <2>2. TypeOK'
      BY <1>1, <1>2, <1>5, <2>1, CapsAreNat, TimesAssumption
         DEF OnMissing, ClearTarget, TypeOK, States, None
    <2>3. ShotsCounted' /\ CommandCoversAim'
      BY <1>5, <2>1 DEF ClearTarget, ShotsCounted, CommandCoversAim
    <2> QED BY <2>2, <2>3
  <1> QED BY <1>4, <1>5 DEF OnMissing

LEMMA MoveCovers ==
  ASSUME NEW p \in Pos, lastCmd \in Pos \cup {None}, MoveAction(p)
  PROVE  /\ aim' \in Pos /\ lastCmd' \in Pos /\ did' \subseteq {"move", "stop", "spray"}
         /\ aim' = lastCmd' \/ Distance(aim', lastCmd') < Deadband
  BY DEF MoveAction, None

LEMMA TrackingInv ==
  ASSUME IInv, NEW d \in Nat, OnTracking(d)
  PROVE  IInv'
  <1> USE DEF IInv
  <1>1. /\ state' = "AIMING" /\ age' \in 0..AgeCap /\ rest' \in -1..RestCap
        /\ streak' \in (Tracks \cup {None}) \X (0..MaxRetries + 2)
    BY GoOnType DEF OnTracking, States
  <1>2. seenFor' \in -1..AgeCap /\ missedFor' \in -1..AgeCap
    BY SightType DEF OnTracking
  <1>3. pace' \in -1..PaceCap
    BY DryType DEF OnTracking, Dry
  <1>4. /\ aim' \in Pos /\ lastCmd' \in Pos /\ did' \subseteq {"move", "stop", "spray"}
        /\ aim' = lastCmd' \/ Distance(aim', lastCmd') < Deadband
    BY MoveCovers DEF OnTracking, TypeOK
  <1>5. TypeOK'
    BY <1>1, <1>2, <1>3, <1>4, CapsAreNat DEF OnTracking, TypeOK, States, None
  <1>6. ShotsCounted' /\ CommandCoversAim'
    BY <1>1, <1>4 DEF OnTracking, ShotsCounted, CommandCoversAim
  <1> QED BY <1>5, <1>6

LEMMA AimingInv ==
  ASSUME IInv, NEW d \in Nat, NEW pan \in Pos, NEW moving \in BOOLEAN, OnAiming(d, pan, moving)
  PROVE  IInv'
  <1> USE DEF IInv
  <1>1. seenFor' \in -1..AgeCap /\ missedFor' \in -1..AgeCap
    BY SightType DEF OnAiming
  <1>2. pace' \in -1..PaceCap
    BY DryType DEF OnAiming, Dry
  <1>3. /\ aim' \in Pos /\ lastCmd' \in Pos /\ did' \subseteq {"move", "stop", "spray"}
        /\ aim' = lastCmd' \/ Distance(aim', lastCmd') < Deadband
    <2>1. CASE ContinuousTracking
      BY <2>1, MoveCovers DEF OnAiming, TypeOK
    <2>2. CASE ~ContinuousTracking
      BY <2>2 DEF OnAiming, CommandCoversAim, Distance
    <2> QED BY <2>1, <2>2
  <1>4. /\ state' \in {"VERIFY_TARGET", "AIMING", "COOLDOWN"}
        /\ age' \in 0..AgeCap /\ rest' \in -1..RestCap
        /\ streak' \in (Tracks \cup {None}) \X (0..MaxRetries + 2)
    <2>1. CASE GoOn("VERIFY_TARGET", d)
      BY <2>1, GoOnType DEF States
    <2>2. CASE Stay(d)
      BY <2>2, GoOnType DEF OnAiming, Stay, States
    <2>3. CASE CoolDown(d)
      BY <2>3, CoolDownType
    <2> QED BY <2>1, <2>2, <2>3 DEF OnAiming
  <1>5. TypeOK'
    BY <1>1, <1>2, <1>3, <1>4, CapsAreNat DEF OnAiming, TypeOK, States, None
  <1>6. ShotsCounted' /\ CommandCoversAim'
    BY <1>3, <1>4 DEF OnAiming, ShotsCounted, CommandCoversAim
  <1> QED BY <1>5, <1>6

LEMMA VerifyTargetInv ==
  ASSUME IInv, NEW d \in Nat, OnVerifyTarget(d)
  PROVE  IInv'
  <1> USE DEF IInv
  <1>1. seenFor' \in -1..AgeCap /\ missedFor' \in -1..AgeCap
    BY SightType DEF OnVerifyTarget
  <1>2. pace' \in -1..PaceCap
    BY DryType DEF OnVerifyTarget, Dry
  <1>3. /\ state' \in {"TRACKING", "COOLDOWN", "SPRAY", "VERIFY_TARGET"}
        /\ age' \in 0..AgeCap /\ rest' \in -1..RestCap
        /\ streak' \in (Tracks \cup {None}) \X (0..MaxRetries + 2)
    <2>1. CASE GoOn("TRACKING", d)
      BY <2>1, GoOnType DEF States
    <2>2. CASE CoolDown(d)
      BY <2>2, CoolDownType
    <2>3. CASE GoOn(IF Elapsed(d) >= VerifyDuration THEN "SPRAY" ELSE "VERIFY_TARGET", d)
      BY <2>3, GoOnType DEF States
    <2> QED BY <2>1, <2>2, <2>3 DEF OnVerifyTarget
  <1>4. TypeOK'
    BY <1>1, <1>2, <1>3, CapsAreNat DEF OnVerifyTarget, TypeOK, States, None
  <1>5. ShotsCounted' /\ CommandCoversAim'
    BY <1>3 DEF OnVerifyTarget, ShotsCounted, CommandCoversAim
  <1> QED BY <1>4, <1>5

LEMMA SprayInv ==
  ASSUME IInv, NEW d \in Nat, OnSpray(d)
  PROVE  IInv'
  <1> USE DEF IInv
  <1>1. seenFor' \in -1..AgeCap /\ missedFor' \in -1..AgeCap
    BY SightType DEF OnSpray
  <1>2. CASE /\ CoolDown(d) /\ KeepTarget(d) /\ did' = {}
             /\ pace' = Later(pace, d, PaceCap)
    <2>1. /\ state' = "COOLDOWN" /\ age' \in 0..AgeCap /\ rest' \in -1..RestCap
          /\ streak' \in (Tracks \cup {None}) \X (0..MaxRetries + 2)
      BY <1>2, CoolDownType
    <2>2. pace' \in -1..PaceCap
      BY <1>2, DryType
    <2>3. TypeOK'
      BY <1>1, <1>2, <2>1, <2>2, LostType DEF OnSpray, KeepTarget, TypeOK, States
    <2>4. ShotsCounted' /\ CommandCoversAim'
      BY <1>2, <2>1 DEF OnSpray, KeepTarget, ShotsCounted, CommandCoversAim, TypeOK
    <2> QED BY <2>3, <2>4
  <1>3. CASE /\ did' = {"spray"}
             /\ Enter("VERIFY_RESULT", d)
             /\ lostFor' = Later(lostFor, d, AgeCap)
             /\ UNCHANGED <<target, aim, lastCmd, retries>>
             /\ rest' = None /\ pace' = 0 /\ shots' = shots + 1
             /\ streak' = <<target, IF streak[1] = target
                                    THEN UpTo(streak[2] + 1, MaxRetries + 2) ELSE 1>>
    <2>1. state' = "VERIFY_RESULT" /\ age' \in 0..AgeCap
      BY <1>3, EnterType DEF States
    <2>2. streak' \in (Tracks \cup {None}) \X (0..MaxRetries + 2)
      <3>1. streak[2] + 1 \in Nat /\ MaxRetries + 2 \in Nat /\ 1 \in 0..MaxRetries + 2
        BY TimesAssumption DEF TypeOK
      <3>2. UpTo(streak[2] + 1, MaxRetries + 2) \in 0..MaxRetries + 2
        BY <3>1, UpToType
      <3> QED BY <1>3, <3>1, <3>2 DEF TypeOK
    <2>3. shots' \in 0..MaxRetries + 1
      BY <1>3, TimesAssumption DEF OnSpray, ShotsCounted, TypeOK
    <2>4. TypeOK'
      BY <1>1, <1>3, <2>1, <2>2, <2>3, LostType, CapsAreNat DEF TypeOK, States, None
    <2>5. ShotsCounted' /\ CommandCoversAim'
      BY <1>3, <2>1 DEF OnSpray, ShotsCounted, CommandCoversAim, Distance
    <2> QED BY <2>4, <2>5
  <1> QED BY <1>2, <1>3 DEF OnSpray, Dry

LEMMA VerifyResultInv ==
  ASSUME IInv, NEW d \in Nat, OnVerifyResult(d)
  PROVE  IInv'
  <1> USE DEF IInv
  <1>1. seenFor' \in -1..AgeCap /\ missedFor' \in -1..AgeCap
    BY SightType DEF OnVerifyResult
  <1>2. pace' \in -1..PaceCap
    BY DryType DEF OnVerifyResult, Dry
  <1>3. CASE Stay(d) /\ KeepTarget(d)
    <2>1. /\ state' = "VERIFY_RESULT" /\ age' \in 0..AgeCap /\ rest' \in -1..RestCap
          /\ streak' \in (Tracks \cup {None}) \X (0..MaxRetries + 2)
      BY <1>3, GoOnType DEF OnVerifyResult, Stay, States
    <2>2. TypeOK'
      BY <1>1, <1>2, <1>3, <2>1, LostType DEF OnVerifyResult, KeepTarget, TypeOK, States
    <2>3. ShotsCounted' /\ CommandCoversAim'
      BY <1>3, <2>1 DEF OnVerifyResult, KeepTarget, ShotsCounted, CommandCoversAim, Distance
    <2> QED BY <2>2, <2>3
  <1>4. CASE GoOn("IDLE", d) /\ ClearTarget
    <2>1. /\ state' = "IDLE" /\ age' \in 0..AgeCap /\ rest' \in -1..RestCap
          /\ streak' \in (Tracks \cup {None}) \X (0..MaxRetries + 2)
      BY <1>4, GoOnType DEF States
    <2>2. TypeOK'
      BY <1>1, <1>2, <1>4, <2>1, CapsAreNat, TimesAssumption
         DEF OnVerifyResult, ClearTarget, TypeOK, States, None
    <2>3. ShotsCounted' /\ CommandCoversAim'
      BY <1>4, <2>1 DEF ClearTarget, ShotsCounted, CommandCoversAim
    <2> QED BY <2>2, <2>3
  <1>5. CASE /\ retries < MaxRetries
             /\ GoOn("TRACKING", d)
             /\ retries' = retries + 1 /\ lastCmd' = None
             /\ lostFor' = Later(lostFor, d, AgeCap)
             /\ UNCHANGED <<target, aim, shots>>
    <2>1. /\ state' = "TRACKING" /\ age' \in 0..AgeCap /\ rest' \in -1..RestCap
          /\ streak' \in (Tracks \cup {None}) \X (0..MaxRetries + 2)
      BY <1>5, GoOnType DEF States
    <2>2. retries' \in 0..MaxRetries
      BY <1>5, TimesAssumption DEF TypeOK
    <2>3. TypeOK'
      BY <1>1, <1>2, <1>5, <2>1, <2>2, LostType DEF OnVerifyResult, TypeOK, States, None
    <2>4. ShotsCounted' /\ CommandCoversAim'
      BY <1>5, <2>1 DEF OnVerifyResult, ShotsCounted, CommandCoversAim
    <2> QED BY <2>3, <2>4
  <1>6. CASE CoolDown(d) /\ KeepTarget(d)
    <2>1. /\ state' = "COOLDOWN" /\ age' \in 0..AgeCap /\ rest' \in -1..RestCap
          /\ streak' \in (Tracks \cup {None}) \X (0..MaxRetries + 2)
      BY <1>6, CoolDownType
    <2>2. TypeOK'
      BY <1>1, <1>2, <1>6, <2>1, LostType DEF OnVerifyResult, KeepTarget, TypeOK, States
    <2>3. ShotsCounted' /\ CommandCoversAim'
      BY <1>6, <2>1 DEF OnVerifyResult, KeepTarget, ShotsCounted, CommandCoversAim
    <2> QED BY <2>2, <2>3
  <1> QED BY <1>3, <1>4, <1>5, <1>6 DEF OnVerifyResult, MayRetry

LEMMA CooldownInv ==
  ASSUME IInv, NEW d \in Nat, OnCooldown(d)
  PROVE  IInv'
  <1> USE DEF IInv
  <1>1. seenFor' \in -1..AgeCap /\ missedFor' \in -1..AgeCap
    BY SightType DEF OnCooldown
  <1>2. pace' \in -1..PaceCap
    BY DryType DEF OnCooldown, Dry
  <1>3. CASE ClearTarget /\ GoOn("IDLE", d)
    <2>1. /\ state' = "IDLE" /\ age' \in 0..AgeCap /\ rest' \in -1..RestCap
          /\ streak' \in (Tracks \cup {None}) \X (0..MaxRetries + 2)
      BY <1>3, GoOnType DEF States
    <2>2. TypeOK'
      BY <1>1, <1>2, <1>3, <2>1, CapsAreNat, TimesAssumption
         DEF OnCooldown, ClearTarget, TypeOK, States, None
    <2>3. ShotsCounted' /\ CommandCoversAim'
      BY <1>3, <2>1 DEF ClearTarget, ShotsCounted, CommandCoversAim
    <2> QED BY <2>2, <2>3
  <1>4. CASE KeepTarget(d) /\ Stay(d)
    <2>1. /\ state' = "COOLDOWN" /\ age' \in 0..AgeCap /\ rest' \in -1..RestCap
          /\ streak' \in (Tracks \cup {None}) \X (0..MaxRetries + 2)
      BY <1>4, GoOnType DEF OnCooldown, Stay, States
    <2>2. TypeOK'
      BY <1>1, <1>2, <1>4, <2>1, LostType DEF OnCooldown, KeepTarget, TypeOK, States
    <2>3. ShotsCounted' /\ CommandCoversAim'
      BY <1>4, <2>1 DEF OnCooldown, KeepTarget, ShotsCounted, CommandCoversAim
    <2> QED BY <2>2, <2>3
  <1> QED BY <1>3, <1>4 DEF OnCooldown

----------------------------------------------------------------------------
(* The invariant of the specification.                                     *)

LEMMA InitInv == Init => IInv
  <1> SUFFICES ASSUME Init PROVE IInv
    OBVIOUS
  <1>1. TypeOK
    BY CapsAreNat, TimesAssumption DEF Init, TypeOK, States, None
  <1>2. ShotsCounted /\ CommandCoversAim
    BY DEF Init, ShotsCounted, CommandCoversAim
  <1> QED BY <1>1, <1>2 DEF IInv

LEMMA NextInv == IInv /\ [Next]_vars => IInv'
  <1> SUFFICES ASSUME IInv, [Next]_vars PROVE IInv'
    OBVIOUS
  <1>1. CASE UNCHANGED vars
    BY <1>1 DEF vars, machine, ghost, IInv, TypeOK, ShotsCounted, CommandCoversAim, Distance
  <1>2. CASE Next
    <2>1. PICK d \in Delays : \/ \E moving \in BOOLEAN : StepOff(d, moving)
                              \/ StepError(d)
                              \/ Handler(d)
      BY <1>2 DEF Next
    <2>2. d \in Nat
      BY InputAssumption
    <2>3. CASE \E moving \in BOOLEAN : StepOff(d, moving)
      BY <2>2, <2>3, OffInv
    <2>4. CASE StepError(d)
      BY <2>2, <2>4, ErrorInv
    <2>5. CASE Handler(d)
      <3>1. CASE StepReady(d)
        BY <2>2, <3>1, ReadyInv
      <3>2. CASE OnIdle(d)
        BY <2>2, <3>2, IdleInv
      <3>3. CASE OnDetected(d)
        BY <2>2, <3>3, DetectedInv
      <3>4. CASE OnMissing(d)
        BY <2>2, <3>4, MissingInv
      <3>5. CASE OnTracking(d)
        BY <2>2, <3>5, TrackingInv
      <3>6. CASE \E pan \in Pos, moving \in BOOLEAN : OnAiming(d, pan, moving)
        BY <2>2, <3>6, AimingInv
      <3>7. CASE OnVerifyTarget(d)
        BY <2>2, <3>7, VerifyTargetInv
      <3>8. CASE OnSpray(d)
        BY <2>2, <3>8, SprayInv
      <3>9. CASE OnVerifyResult(d)
        BY <2>2, <3>9, VerifyResultInv
      <3>10. CASE OnCooldown(d)
        BY <2>2, <3>10, CooldownInv
      <3> QED BY <2>5, <3>1, <3>2, <3>3, <3>4, <3>5, <3>6, <3>7, <3>8, <3>9, <3>10
              DEF Handler
    <2> QED BY <2>1, <2>3, <2>4, <2>5
  <1> QED BY <1>1, <1>2

LEMMA Inductive == Spec => []IInv
  <1> QED BY InitInv, NextInv, PTL DEF Spec

\* The variables of the state machine keep their types; the clocks stay
\* under their caps.
THEOREM TypeCorrect == Spec => []TypeOK
  <1>1. IInv => TypeOK
    BY DEF IInv
  <1> QED BY <1>1, Inductive, PTL

\* The retry counter and the sprays of an engagement keep step, whatever the
\* camera, the turret and the guard do between two calls of step().
THEOREM ShotsAreCounted == Spec => []ShotsCounted
  <1>1. IInv => ShotsCounted
    BY DEF IInv
  <1> QED BY <1>1, Inductive, PTL

\* From AIMING to VERIFY_RESULT the last commanded move is the aim point or
\* within the deadband of it.
THEOREM TurretIsSentToAim == Spec => []CommandCoversAim
  <1>1. IInv => CommandCoversAim
    BY DEF IInv
  <1> QED BY <1>1, Inductive, PTL

----------------------------------------------------------------------------
(* The pauses.  Each state has waited, since COOLDOWN was entered and since *)
(* the last spray, for what the states before it had to wait for, and in a  *)
(* state that waits itself for as long as the state has lasted.             *)

\* No spray counts on a cooldown that a spray, a fault or a disarm cut short;
\* otherwise the rest since COOLDOWN is at least what the path here took.
RestInv ==
    /\ state \in {"DISARMED", "ERROR", "VERIFY_RESULT"} => rest = None
    /\ rest # None =>
         /\ state = "COOLDOWN" => rest >= Lesser(age, Cooldown)
         /\ state = "IDLE" => rest >= Cooldown
         /\ state = "DETECTED" => rest >= Cooldown + Lesser(age, DetectStability)
         /\ state \in {"TRACKING", "AIMING"} => rest >= Cooldown + DetectStability
         /\ state = "VERIFY_TARGET" =>
              rest >= Cooldown + DetectStability + Lesser(age, VerifyDuration)
         /\ state = "SPRAY" => rest >= RestCap

\* Back from a spray either the result window or, by way of IDLE, the dwell of
\* DETECTED was waited for.
Pause == Lesser(ResultWindow, DetectStability)
PaceInv ==
    pace # None =>
        /\ state \in {"VERIFY_RESULT", "DETECTED"} => pace >= Lesser(age, Pause)
        /\ state \in {"TRACKING", "AIMING"} => pace >= Pause
        /\ state = "VERIFY_TARGET" => pace >= Pause + Lesser(age, VerifyDuration)
        /\ state = "SPRAY" => pace >= PaceCap

\* A due time that was reached stays reached as a clock and the age it is
\* compared with go on together: the clock's cap is not below the due time and
\* the age's cap is above the wait.
LEMMA WaitGoesOn ==
  ASSUME NEW clock \in Int, NEW a \in Nat, NEW d \in Nat, NEW cap \in Nat, NEW ageCap \in Nat,
         NEW before \in Nat, NEW wait \in Nat,
         before + wait <= cap, wait <= ageCap, clock >= before + Lesser(a, wait)
  PROVE  /\ UpTo(clock + d, cap) >= before + Lesser(UpTo(a + d, ageCap), wait)
         /\ a + d >= wait => UpTo(clock + d, cap) >= before + wait
         /\ \A n \in Nat : n <= cap /\ clock >= n => UpTo(clock + d, cap) >= n
  BY DEF UpTo, Lesser

LEMMA PauseBounds ==
  /\ Pause \in Nat /\ Pause <= ResultWindow /\ Pause <= DetectStability
  /\ RestCap \in Nat /\ PaceCap \in Nat
  /\ RestCap = Cooldown + DetectStability + VerifyDuration
  /\ PaceCap = Pause + VerifyDuration
  /\ {Pause, Cooldown, DetectStability, VerifyDuration, ResultWindow} \subseteq 0..AgeCap
  BY TimesAssumption, CapsAreNat DEF Pause, Lesser, RestCap, PaceCap, AgeCap, Larger

LEMMA TimesType ==
  ASSUME TypeOK
  PROVE  /\ age \in Nat /\ (rest # None => rest \in Nat) /\ (pace # None => pace \in Nat)
         /\ AgeCap \in Nat
  BY CapsAreNat DEF TypeOK, None

\* What the path here rested for, one step later.
LEMMA RestReaches ==
  ASSUME TypeOK, RestInv, NEW d \in Nat, rest # None, rest' = Later(rest, d, RestCap)
  PROVE  /\ rest' \in Nat
         /\ state = "COOLDOWN" =>
              /\ rest' >= Lesser(UpTo(age + d, AgeCap), Cooldown)
              /\ Elapsed(d) >= Cooldown => rest' >= Cooldown
         /\ state \in {"IDLE", "DETECTED"} => rest' >= Cooldown
         /\ state = "DETECTED" =>
              /\ rest' >= Cooldown + Lesser(UpTo(age + d, AgeCap), DetectStability)
              /\ Elapsed(d) >= DetectStability => rest' >= Cooldown + DetectStability
         /\ state \in {"TRACKING", "AIMING", "VERIFY_TARGET", "SPRAY"} =>
              rest' >= Cooldown + DetectStability
         /\ state = "VERIFY_TARGET" =>
              /\ rest' >= Cooldown + DetectStability + Lesser(UpTo(age + d, AgeCap), VerifyDuration)
              /\ Elapsed(d) >= VerifyDuration => rest' >= RestCap
         /\ state = "SPRAY" => rest' >= RestCap
  <1>1. rest \in Nat /\ age \in Nat /\ AgeCap \in Nat /\ rest' = UpTo(rest + d, RestCap)
    BY TimesType DEF Later
  <1> DEFINE seen == Cooldown + DetectStability
  <1>2. seen \in Nat /\ RestCap = seen + VerifyDuration /\ RestCap \in Nat
    BY PauseBounds, TimesAssumption
  <1>3. \A n \in Nat : n <= RestCap /\ rest >= n => rest' >= n
    BY <1>1, <1>2 DEF UpTo, Lesser
  <1>4. /\ Cooldown \in Nat /\ DetectStability \in Nat /\ VerifyDuration \in Nat
        /\ Cooldown <= AgeCap /\ DetectStability <= AgeCap /\ VerifyDuration <= AgeCap
    BY PauseBounds, TimesAssumption
  <1>5. CASE state = "COOLDOWN"
    <2>1. rest >= 0 + Lesser(age, Cooldown)
      BY <1>1, <1>4, <1>5 DEF RestInv, Lesser
    <2>2. /\ rest' >= 0 + Lesser(UpTo(age + d, AgeCap), Cooldown)
          /\ age + d >= Cooldown => rest' >= 0 + Cooldown
      BY <1>1, <1>2, <1>4, <2>1, WaitGoesOn
    <2> QED
      BY <1>1, <1>2, <1>4, <1>5, <2>2 DEF Elapsed, UpTo, Lesser
  <1>6. CASE state = "IDLE"
    BY <1>1, <1>2, <1>3, <1>4, <1>6 DEF RestInv, UpTo, Lesser
  <1>7. CASE state = "DETECTED"
    <2>1. rest >= Cooldown + Lesser(age, DetectStability)
      BY <1>7 DEF RestInv
    <2>2. /\ rest' >= Cooldown + Lesser(UpTo(age + d, AgeCap), DetectStability)
          /\ age + d >= DetectStability => rest' >= Cooldown + DetectStability
      BY <1>1, <1>2, <1>4, <2>1, WaitGoesOn
    <2> QED
      BY <1>1, <1>2, <1>4, <1>7, <2>2 DEF Elapsed, UpTo, Lesser
  <1>8. CASE state \in {"TRACKING", "AIMING"}
    BY <1>1, <1>2, <1>3, <1>4, <1>8 DEF RestInv, UpTo, Lesser
  <1>9. CASE state = "VERIFY_TARGET"
    <2>1. rest >= seen + Lesser(age, VerifyDuration)
      BY <1>4, <1>9 DEF RestInv
    <2> HIDE DEF seen
    <2>2. /\ rest' >= seen + Lesser(UpTo(age + d, AgeCap), VerifyDuration)
          /\ age + d >= VerifyDuration => rest' >= seen + VerifyDuration
      BY <1>1, <1>2, <1>4, <2>1, WaitGoesOn
    <2> USE DEF seen
    <2> QED
      BY <1>1, <1>2, <1>4, <1>9, <2>2 DEF Elapsed, UpTo, Lesser
  <1>10. CASE state = "SPRAY"
    BY <1>1, <1>2, <1>3, <1>4, <1>10 DEF RestInv, UpTo, Lesser
  <1>11. CASE state \in {"DISARMED", "ERROR", "VERIFY_RESULT"}
    BY <1>1, <1>2, <1>11 DEF UpTo, Lesser
  <1> QED
    BY <1>5, <1>6, <1>7, <1>8, <1>9, <1>10, <1>11 DEF TypeOK, States

\* The same for the time since the last spray.
LEMMA PaceReaches ==
  ASSUME TypeOK, PaceInv, NEW d \in Nat, pace # None, pace' = Later(pace, d, PaceCap)
  PROVE  /\ pace' \in Nat
         /\ state \in {"VERIFY_RESULT", "DETECTED"} =>
              /\ pace' >= Lesser(UpTo(age + d, AgeCap), Pause)
              /\ Elapsed(d) >= Pause => pace' >= Pause
         /\ state \in {"TRACKING", "AIMING", "VERIFY_TARGET", "SPRAY"} => pace' >= Pause
         /\ state = "VERIFY_TARGET" =>
              /\ pace' >= Pause + Lesser(UpTo(age + d, AgeCap), VerifyDuration)
              /\ Elapsed(d) >= VerifyDuration => pace' >= PaceCap
         /\ state = "SPRAY" => pace' >= PaceCap
  <1>1. pace \in Nat /\ age \in Nat /\ AgeCap \in Nat /\ pace' = UpTo(pace + d, PaceCap)
    BY TimesType DEF Later
  <1>2. /\ Pause \in Nat /\ VerifyDuration \in Nat /\ PaceCap \in Nat
        /\ PaceCap = Pause + VerifyDuration
        /\ Pause <= AgeCap /\ VerifyDuration <= AgeCap
    BY PauseBounds, TimesAssumption
  <1>3. \A n \in Nat : n <= PaceCap /\ pace >= n => pace' >= n
    BY <1>1, <1>2 DEF UpTo, Lesser
  <1>4. CASE state \in {"VERIFY_RESULT", "DETECTED"}
    <2>1. pace >= 0 + Lesser(age, Pause)
      BY <1>1, <1>2, <1>4 DEF PaceInv, Lesser
    <2>2. /\ pace' >= 0 + Lesser(UpTo(age + d, AgeCap), Pause)
          /\ age + d >= Pause => pace' >= 0 + Pause
      BY <1>1, <1>2, <2>1, WaitGoesOn
    <2> QED
      BY <1>1, <1>2, <1>4, <2>2 DEF Elapsed, UpTo, Lesser
  <1>5. CASE state \in {"TRACKING", "AIMING"}
    BY <1>1, <1>2, <1>3, <1>5 DEF PaceInv, UpTo, Lesser
  <1>6. CASE state = "VERIFY_TARGET"
    <2>1. pace >= Pause + Lesser(age, VerifyDuration)
      BY <1>6 DEF PaceInv
    <2>2. /\ pace' >= Pause + Lesser(UpTo(age + d, AgeCap), VerifyDuration)
          /\ age + d >= VerifyDuration => pace' >= Pause + VerifyDuration
      BY <1>1, <1>2, <2>1, WaitGoesOn
    <2> QED
      BY <1>1, <1>2, <1>6, <2>2 DEF Elapsed, UpTo, Lesser
  <1>7. CASE state = "SPRAY"
    BY <1>1, <1>2, <1>3, <1>7 DEF PaceInv, UpTo, Lesser
  <1>8. CASE state \in {"DISARMED", "ERROR", "IDLE", "COOLDOWN"}
    BY <1>1, <1>2, <1>8 DEF UpTo, Lesser
  <1> QED
    BY <1>4, <1>5, <1>6, <1>7, <1>8 DEF TypeOK, States

\* A step that stays in its state keeps both.
LEMMA StayPauses ==
  ASSUME TypeOK, RestInv, PaceInv, NEW d \in Nat, Stay(d), Dry(d)
  PROVE  RestInv' /\ PaceInv'
  <1>1. /\ state' = state /\ age' = UpTo(age + d, AgeCap)
        /\ rest' = Later(rest, d, RestCap) /\ pace' = Later(pace, d, PaceCap)
    BY DEF Stay, GoOn, Enter, Dry
  <1>2. (rest = None => rest' = None) /\ (pace = None => pace' = None)
    BY <1>1 DEF Later
  <1>3. RestInv'
    BY <1>1, <1>2, RestReaches, TimesType DEF RestInv
  <1>4. PaceInv'
    BY <1>1, <1>2, PaceReaches, TimesType DEF PaceInv
  <1> QED
    BY <1>3, <1>4

\* A step to another state, where the clock of the state starts again: what
\* the new state must have waited for by now.
LEMMA HopPauses ==
  ASSUME TypeOK, RestInv, PaceInv, NEW d \in Nat, NEW s \in States, s # state, GoOn(s, d), Dry(d),
         s \notin {"DISARMED", "ERROR", "VERIFY_RESULT"},
         rest # None =>
           /\ s \in {"IDLE", "DETECTED"} => rest' >= Cooldown
           /\ s \in {"TRACKING", "AIMING", "VERIFY_TARGET"} => rest' >= Cooldown + DetectStability
           /\ s = "SPRAY" => rest' >= RestCap,
         pace # None =>
           /\ s \in {"TRACKING", "AIMING", "VERIFY_TARGET"} => pace' >= Pause
           /\ s = "SPRAY" => pace' >= PaceCap
  PROVE  RestInv' /\ PaceInv'
  <1>1. /\ state' = s /\ age' = 0
        /\ rest' = Later(rest, d, RestCap) /\ pace' = Later(pace, d, PaceCap)
    BY DEF GoOn, Enter, Dry
  <1>2. (rest = None => rest' = None) /\ (pace = None => pace' = None)
    BY <1>1 DEF Later
  <1>3. (rest # None => rest' \in Nat) /\ (pace # None => pace' \in Nat)
    BY <1>1, RestReaches, PaceReaches
  <1>4. \A n \in Nat : Lesser(0, n) = 0
    BY DEF Lesser
  <1>5. /\ Cooldown \in Nat /\ DetectStability \in Nat /\ VerifyDuration \in Nat /\ Pause \in Nat
    BY PauseBounds, TimesAssumption
  <1>6. RestInv'
    BY <1>1, <1>2, <1>3, <1>4, <1>5 DEF RestInv, States
  <1>7. PaceInv'
    BY <1>1, <1>2, <1>3, <1>4, <1>5 DEF PaceInv, States
  <1> QED
    BY <1>6, <1>7

LEMMA CoolDownPauses ==
  ASSUME TypeOK, NEW d \in Nat, CoolDown(d), state # "COOLDOWN"
  PROVE  RestInv' /\ PaceInv'
  <1>1. state' = "COOLDOWN" /\ age' = 0 /\ rest' = 0
    BY DEF CoolDown, Enter
  <1> QED
    BY <1>1, TimesAssumption DEF RestInv, PaceInv, Lesser

----------------------------------------------------------------------------
(* The pauses, one action after the other.                                 *)

PausesInv == TypeOK /\ RestInv /\ PaceInv

LEMMA OffPauses ==
  ASSUME PausesInv, NEW d \in Nat, NEW moving \in BOOLEAN, StepOff(d, moving)
  PROVE  RestInv' /\ PaceInv'
  BY DEF StepOff, Enter, RestInv, PaceInv

LEMMA ErrorPauses ==
  ASSUME PausesInv, NEW d \in Nat, StepError(d)
  PROVE  RestInv' /\ PaceInv'
  BY DEF StepError, Enter, RestInv, PaceInv

LEMMA ReadyPauses ==
  ASSUME PausesInv, NEW d \in Nat, StepReady(d)
  PROVE  RestInv' /\ PaceInv'
  BY DEF StepReady, GoOn, Enter, Later, PausesInv, RestInv, PaceInv

LEMMA IdlePauses ==
  ASSUME PausesInv, NEW d \in Nat, OnIdle(d)
  PROVE  RestInv' /\ PaceInv'
  <1>1. CASE Stay(d)
    BY <1>1, StayPauses DEF OnIdle, PausesInv
  <1>2. CASE GoOn("DETECTED", d)
    <2>1. rest' = Later(rest, d, RestCap)
      BY <1>2 DEF GoOn
    <2>2. rest # None => rest' >= Cooldown
      BY <2>1, RestReaches DEF OnIdle, PausesInv
    <2> QED
      BY <1>2, <2>2, HopPauses DEF OnIdle, PausesInv, States
  <1> QED
    BY <1>1, <1>2 DEF OnIdle, Stay

LEMMA DetectedPauses ==
  ASSUME PausesInv, NEW d \in Nat, OnDetected(d)
  PROVE  RestInv' /\ PaceInv'
  <1>1. /\ rest' = Later(rest, d, RestCap) /\ pace' = Later(pace, d, PaceCap)
        /\ state = "DETECTED" /\ Dry(d)
    BY DEF OnDetected, GoOn, Dry
  <1>2. CASE GoOn("IDLE", d)
    <2>1. rest # None => rest' >= Cooldown
      BY <1>1, RestReaches DEF PausesInv
    <2> QED
      BY <1>1, <1>2, <2>1, HopPauses DEF PausesInv, States
  <1>3. CASE Stay(d)
    BY <1>1, <1>3, StayPauses DEF PausesInv
  <1>4. CASE Elapsed(d) >= DetectStability /\ GoOn("TRACKING", d)
    <2>1. rest # None => rest' >= Cooldown + DetectStability
      BY <1>1, <1>4, RestReaches DEF PausesInv
    <2>2. Elapsed(d) >= Pause
      BY <1>4, PauseBounds, TimesType, TimesAssumption DEF Elapsed, PausesInv
    <2>3. pace # None => pace' >= Pause
      BY <1>1, <2>2, PaceReaches DEF PausesInv
    <2> QED
      BY <1>1, <1>4, <2>1, <2>3, HopPauses DEF PausesInv, States
  <1> QED
    BY <1>1, <1>2, <1>3, <1>4 DEF OnDetected, Stay

LEMMA MissingPauses ==
  ASSUME PausesInv, NEW d \in Nat, OnMissing(d)
  PROVE  RestInv' /\ PaceInv'
  <1>1. CASE Stay(d)
    BY <1>1, StayPauses DEF OnMissing, PausesInv
  <1>2. CASE GoOn("IDLE", d)
    <2>1. rest' = Later(rest, d, RestCap) /\ Dry(d)
      BY <1>2 DEF GoOn, OnMissing
    <2>2. rest # None => rest' >= Cooldown + DetectStability /\ rest' \in Nat
      BY <2>1, RestReaches DEF OnMissing, PausesInv
    <2>3. rest # None => rest' >= Cooldown
      BY <2>2, TimesAssumption
    <2> QED
      BY <1>2, <2>1, <2>3, HopPauses DEF OnMissing, PausesInv, States
  <1> QED
    BY <1>1, <1>2 DEF OnMissing

\* From a state that has both pauses behind it to one that asks for no more.
LEMMA PursuitPauses ==
  ASSUME PausesInv, NEW d \in Nat, state \in {"TRACKING", "AIMING", "VERIFY_TARGET"},
         NEW s \in {"TRACKING", "AIMING", "VERIFY_TARGET"}, s # state, GoOn(s, d), Dry(d)
  PROVE  RestInv' /\ PaceInv'
  <1>1. rest' = Later(rest, d, RestCap) /\ pace' = Later(pace, d, PaceCap)
    BY DEF GoOn, Dry
  <1>2. /\ rest # None => rest' >= Cooldown + DetectStability
        /\ pace # None => pace' >= Pause
    BY <1>1, RestReaches, PaceReaches DEF PausesInv
  <1> QED
    BY <1>2, HopPauses DEF PausesInv, States

LEMMA TrackingPauses ==
  ASSUME PausesInv, NEW d \in Nat, OnTracking(d)
  PROVE  RestInv' /\ PaceInv'
  BY PursuitPauses DEF OnTracking

LEMMA AimingPauses ==
  ASSUME PausesInv, NEW d \in Nat, NEW pan \in Pos, NEW moving \in BOOLEAN, OnAiming(d, pan, moving)
  PROVE  RestInv' /\ PaceInv'
  <1>1. CASE GoOn("VERIFY_TARGET", d)
    BY <1>1, PursuitPauses DEF OnAiming
  <1>2. CASE Stay(d)
    BY <1>2, StayPauses DEF OnAiming, PausesInv
  <1>3. CASE CoolDown(d)
    BY <1>3, CoolDownPauses DEF OnAiming, PausesInv
  <1> QED
    BY <1>1, <1>2, <1>3 DEF OnAiming

LEMMA VerifyTargetPauses ==
  ASSUME PausesInv, NEW d \in Nat, OnVerifyTarget(d)
  PROVE  RestInv' /\ PaceInv'
  <1>1. CASE GoOn("TRACKING", d)
    BY <1>1, PursuitPauses DEF OnVerifyTarget
  <1>2. CASE CoolDown(d)
    BY <1>2, CoolDownPauses DEF OnVerifyTarget, PausesInv
  <1>3. CASE Elapsed(d) >= VerifyDuration /\ GoOn("SPRAY", d)
    <2>1. rest' = Later(rest, d, RestCap) /\ pace' = Later(pace, d, PaceCap) /\ Dry(d)
      BY <1>3 DEF GoOn, Dry, OnVerifyTarget
    <2>2. (rest # None => rest' >= RestCap) /\ (pace # None => pace' >= PaceCap)
      BY <1>3, <2>1, RestReaches, PaceReaches DEF OnVerifyTarget, PausesInv
    <2> QED
      BY <1>3, <2>1, <2>2, HopPauses DEF OnVerifyTarget, PausesInv, States
  <1>4. CASE Stay(d)
    BY <1>4, StayPauses DEF OnVerifyTarget, PausesInv
  <1> QED
    BY <1>1, <1>2, <1>3, <1>4 DEF OnVerifyTarget, Stay

LEMMA SprayPauses ==
  ASSUME PausesInv, NEW d \in Nat, OnSpray(d)
  PROVE  RestInv' /\ PaceInv'
  <1>1. CASE CoolDown(d)
    BY <1>1, CoolDownPauses DEF OnSpray, PausesInv
  <1>2. CASE Enter("VERIFY_RESULT", d) /\ rest' = None /\ pace' = 0
    <2>1. state' = "VERIFY_RESULT" /\ age' = 0
      BY <1>2 DEF Enter, OnSpray
    <2> QED
      BY <1>2, <2>1, PauseBounds DEF RestInv, PaceInv, Lesser, None
  <1> QED
    BY <1>1, <1>2 DEF OnSpray

LEMMA VerifyResultPauses ==
  ASSUME PausesInv, NEW d \in Nat, OnVerifyResult(d)
  PROVE  RestInv' /\ PaceInv'
  <1>1. state = "VERIFY_RESULT" /\ rest = None /\ Dry(d)
    BY DEF OnVerifyResult, PausesInv, RestInv
  <1>2. CASE Stay(d)
    BY <1>1, <1>2, StayPauses DEF PausesInv
  <1>3. CASE GoOn("IDLE", d)
    BY <1>1, <1>3, HopPauses DEF PausesInv, States
  <1>4. CASE Elapsed(d) >= ResultWindow /\ GoOn("TRACKING", d)
    <2>1. Elapsed(d) >= Pause
      BY <1>4, PauseBounds, TimesType, TimesAssumption DEF Elapsed, PausesInv
    <2>2. pace # None => pace' >= Pause
      BY <1>1, <2>1, PaceReaches DEF PausesInv, Dry
    <2> QED
      BY <1>1, <1>4, <2>2, HopPauses DEF PausesInv, States
  <1>5. CASE CoolDown(d)
    BY <1>1, <1>5, CoolDownPauses DEF PausesInv
  <1> QED
    BY <1>2, <1>3, <1>4, <1>5 DEF OnVerifyResult

LEMMA CooldownPauses ==
  ASSUME PausesInv, NEW d \in Nat, OnCooldown(d)
  PROVE  RestInv' /\ PaceInv'
  <1>1. CASE Elapsed(d) >= Cooldown /\ GoOn("IDLE", d)
    <2>1. rest' = Later(rest, d, RestCap)
      BY <1>1 DEF GoOn
    <2>2. rest # None => rest' >= Cooldown
      BY <1>1, <2>1, RestReaches DEF OnCooldown, PausesInv
    <2> QED
      BY <1>1, <2>2, HopPauses DEF OnCooldown, PausesInv, States
  <1>2. CASE Stay(d)
    BY <1>2, StayPauses DEF OnCooldown, PausesInv
  <1> QED
    BY <1>1, <1>2 DEF OnCooldown

LEMMA NextPauses == PausesInv /\ [Next]_vars => RestInv' /\ PaceInv'
  <1> SUFFICES ASSUME PausesInv, [Next]_vars PROVE RestInv' /\ PaceInv'
    OBVIOUS
  <1>1. CASE UNCHANGED vars
    BY <1>1 DEF vars, machine, ghost, PausesInv, RestInv, PaceInv
  <1>2. CASE Next
    <2>1. PICK d \in Delays : \/ \E moving \in BOOLEAN : StepOff(d, moving)
                              \/ StepError(d)
                              \/ Handler(d)
      BY <1>2 DEF Next
    <2>2. d \in Nat
      BY InputAssumption
    <2>3. CASE \E moving \in BOOLEAN : StepOff(d, moving)
      BY <2>2, <2>3, OffPauses
    <2>4. CASE StepError(d)
      BY <2>2, <2>4, ErrorPauses
    <2>5. CASE Handler(d)
      <3>1. CASE StepReady(d)
        BY <2>2, <3>1, ReadyPauses
      <3>2. CASE OnIdle(d)
        BY <2>2, <3>2, IdlePauses
      <3>3. CASE OnDetected(d)
        BY <2>2, <3>3, DetectedPauses
      <3>4. CASE OnMissing(d)
        BY <2>2, <3>4, MissingPauses
      <3>5. CASE OnTracking(d)
        BY <2>2, <3>5, TrackingPauses
      <3>6. CASE \E pan \in Pos, moving \in BOOLEAN : OnAiming(d, pan, moving)
        BY <2>2, <3>6, AimingPauses
      <3>7. CASE OnVerifyTarget(d)
        BY <2>2, <3>7, VerifyTargetPauses
      <3>8. CASE OnSpray(d)
        BY <2>2, <3>8, SprayPauses
      <3>9. CASE OnVerifyResult(d)
        BY <2>2, <3>9, VerifyResultPauses
      <3>10. CASE OnCooldown(d)
        BY <2>2, <3>10, CooldownPauses
      <3> QED
        BY <2>5, <3>1, <3>2, <3>3, <3>4, <3>5, <3>6, <3>7, <3>8, <3>9, <3>10 DEF Handler
    <2> QED
      BY <2>1, <2>3, <2>4, <2>5
  <1> QED
    BY <1>1, <1>2

\* No spray is due before the cooldown, the dwell and the verification after a
\* COOLDOWN that ran its course have been waited for, and two sprays are apart by
\* the verification and the shorter of the result window and the dwell, for
\* every setting of the times and every pacing of the calls.
THEOREM PausesAreKept == Spec => []Paced
  <1>1. Init => RestInv /\ PaceInv
    BY DEF Init, RestInv, PaceInv
  <1>2. TypeOK /\ RestInv /\ PaceInv /\ [Next]_vars => RestInv' /\ PaceInv'
    BY NextPauses DEF PausesInv
  <1>3. TypeOK /\ RestInv /\ PaceInv => Paced
    <2> SUFFICES ASSUME TypeOK, RestInv, PaceInv PROVE CooldownRests /\ PaceHolds
      BY DEF Paced
    <2>1. CooldownRests
      BY PauseBounds DEF CooldownRests, RestInv, TypeOK, None
    <2>2. PaceHolds
      BY PauseBounds DEF PaceHolds, PaceInv, TypeOK, None
    <2> QED
      BY <2>1, <2>2
  <1> QED
    BY <1>1, <1>2, <1>3, TypeCorrect, PTL DEF Spec

=============================================================================
