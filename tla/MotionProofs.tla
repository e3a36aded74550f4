---------------------------- MODULE MotionProofs ----------------------------
(***************************************************************************)
(* What holds of the turret's motion for every range, every set of         *)
(* commands and every bound, as long as no step was overtaken.  A control  *)
(* step is first brought into the form of what it writes (ControlWrites),  *)
(* and of what it can still write when it is not overtaken (InTime); the   *)
(* invariants then have one step per action.                               *)
(***************************************************************************)
EXTENDS Motion, FiniteSetTheorems, TLAPS

USE DEF Axes

----------------------------------------------------------------------------
(* What a control period does to the axes.                                 *)

\* The types of what moves, and below, FlagsOK, those of the rest.
PlaceOK ==
    /\ phys \in [Axes -> 0..Travel]
    /\ slip \in [Axes -> -MaxSlip..MaxSlip]
    /\ target \in [Axes -> -MaxSlip..Travel + MaxSlip]
    /\ rate \in [Axes -> Rates \cup {None}] /\ vel \in [Axes -> Rates]

\* What is known behind Update(r, t, s, on): a latched emergency stop lets no
\* axis move, and a referenced axis stays so, held by the soft limits or by a
\* target inside them.
Updated(r, t, s, on) ==
    /\ rate' = r /\ target' = t
    /\ phys' \in [Axes -> 0..Travel]
    /\ slip' \in [Axes -> -MaxSlip..MaxSlip]
    /\ vel' \in [Axes -> Rates]
    /\ estop => phys' = phys /\ slip' = s
    /\ \A a \in Axes :
         s[a] = 0 /\ phys[a] \in 0..SoftMax /\ (on \/ (r[a] = None /\ t[a] \in 0..SoftMax))
           => slip'[a] = 0 /\ phys'[a] \in 0..SoftMax

Places(s) == [a \in Axes |-> phys[a] + s[a]]
Wants(r, t, s) == [a \in Axes |-> IF r[a] # None THEN r[a] ELSE Sign(t[a] - Places(s)[a])]
Speeds(r, t, s) ==
    [a \in Axes |-> IF estop \/ Blocked(a, Wants(r, t, s)[a]) THEN 0 ELSE Wants(r, t, s)[a]]

\* axis_update and the step ISR keep the types, and what Updated says.
LEMMA UpdateKeeps ==
  ASSUME PlaceOK, NEW r \in [Axes -> Rates \cup {None}], NEW t \in [Axes -> -MaxSlip..Travel + MaxSlip],
         NEW s \in [Axes -> -MaxSlip..MaxSlip], NEW on \in BOOLEAN, Update(r, t, s, on)
  PROVE  Updated(r, t, s, on)
<1> USE RangeAssumption
<1> DEFINE p == Places(s)
           v == Speeds(r, t, s)
<1>1. PICK stepping \in SUBSET Axes :
        LET moves == {a \in stepping : v[a] # 0 /\ StepAllowed(v[a], p[a], on)}
            lost == {a \in moves : v[a] > 0 /\ phys[a] = Travel}
        IN  /\ \A a \in lost : s[a] < MaxSlip
            /\ phys' = [a \in Axes |-> IF a \in moves \ lost THEN phys[a] + v[a] ELSE phys[a]]
            /\ slip' = [a \in Axes |-> IF a \in lost THEN s[a] + 1 ELSE s[a]]
            /\ vel' = v
            /\ rate' = r /\ target' = t
  BY DEF Update, Speeds, Wants, Places
<1> DEFINE moves == {a \in stepping : v[a] # 0 /\ StepAllowed(v[a], p[a], on)}
           lost == {a \in moves : v[a] > 0 /\ phys[a] = Travel}
<1>2. \A a \in Axes : v[a] \in Rates
  <2>1. \A a \in Axes : Wants(r, t, s)[a] \in Rates
    BY DEF PlaceOK, Wants, Places, Sign, Rates, None
  <2> QED
    BY <2>1 DEF Speeds, Rates
<1>3. \A a \in Axes : v[a] < 0 => phys[a] # 0
  BY DEF Speeds, Blocked, Pressed
<1>4. \A a \in Axes : estop => v[a] = 0
  BY DEF Speeds
<1>5. \A a \in Axes : r[a] = None => v[a] = 0 \/ v[a] = Sign(t[a] - p[a])
  BY DEF Speeds, Wants
<1>6. \A a \in Axes : p[a] = phys[a] + s[a]
  BY DEF Places
<1> HIDE DEF v, p
<1>7. \A a \in Axes : /\ phys'[a] = IF a \in moves \ lost THEN phys[a] + v[a] ELSE phys[a]
                      /\ slip'[a] = IF a \in lost THEN s[a] + 1 ELSE s[a]
  BY <1>1
<1>8. \A a \in moves : v[a] # 0 /\ StepAllowed(v[a], p[a], on)
  OBVIOUS
<1>9. phys' \in [Axes -> 0..Travel]
  <2>1. \A a \in Axes : phys'[a] \in 0..Travel
    <3> TAKE a \in Axes
    <3>1. CASE a \in moves \ lost
      BY <3>1, <1>2, <1>3, <1>7 DEF PlaceOK, Rates
    <3>2. CASE a \notin moves \ lost
      BY <3>2, <1>7 DEF PlaceOK
    <3> QED
      BY <3>1, <3>2
  <2> QED
    BY <2>1, <1>1
<1>10. slip' \in [Axes -> -MaxSlip..MaxSlip]
  <2>1. \A a \in lost : s[a] < MaxSlip
    BY <1>1
  <2>2. \A a \in Axes : slip'[a] \in -MaxSlip..MaxSlip
    BY <2>1, <1>7
  <2> QED
    BY <2>2, <1>1
<1>11. vel' \in [Axes -> Rates]
  <2>1. vel' = v /\ v = [a \in Axes |-> v[a]]
    BY <1>1 DEF v, Speeds
  <2> QED
    BY <2>1, <1>2
<1>12. estop => phys' = phys /\ slip' = s
  <2> HAVE estop
  <2>1. \A a \in Axes : phys'[a] = phys[a] /\ slip'[a] = s[a]
    BY <1>4, <1>7
  <2> QED
    BY <2>1, <1>9, <1>10 DEF PlaceOK
<1>13. \A a \in Axes :
         s[a] = 0 /\ phys[a] \in 0..SoftMax /\ (on \/ (r[a] = None /\ t[a] \in 0..SoftMax))
           => slip'[a] = 0 /\ phys'[a] \in 0..SoftMax
  <2> SUFFICES ASSUME NEW a \in Axes, s[a] = 0, phys[a] \in 0..SoftMax,
                      on \/ (r[a] = None /\ t[a] \in 0..SoftMax)
               PROVE  slip'[a] = 0 /\ phys'[a] \in 0..SoftMax
    OBVIOUS
  <2>1. p[a] = phys[a] /\ a \notin lost
    BY <1>6 DEF PlaceOK
  <2>2. CASE a \notin moves
    BY <2>1, <2>2, <1>7
  <2>3. CASE a \in moves
    <3>1. v[a] \in Rates /\ v[a] # 0 /\ phys'[a] = phys[a] + v[a] /\ slip'[a] = 0
      BY <2>1, <2>3, <1>2, <1>7, <1>8
    <3>2. CASE on
      BY <3>1, <3>2, <2>1, <2>3, <1>8 DEF StepAllowed, Rates
    <3>3. CASE r[a] = None /\ t[a] \in 0..SoftMax
      BY <3>1, <3>3, <2>1, <1>5 DEF Sign, Rates
    <3> QED
      BY <3>2, <3>3
  <2> QED
    BY <2>2, <2>3
<1> QED
  BY <1>1, <1>9, <1>10, <1>11, <1>12, <1>13 DEF Updated

\* The rates, targets and slips the control task and the stops hand on have
\* their types.
LEMMA HandedOn ==
  ASSUME PlaceOK, axis \in Axes
  PROVE  /\ Still \in [Axes -> Rates \cup {None}] /\ Here \in [Axes -> -MaxSlip..Travel + MaxSlip]
         /\ \A n \in {-1, None} : [rate EXCEPT ![axis] = n] \in [Axes -> Rates \cup {None}]
         /\ \A n \in {0, 1} : [target EXCEPT ![axis] = n] \in [Axes -> -MaxSlip..Travel + MaxSlip]
         /\ Pressed(axis) => Reference \in [Axes -> -MaxSlip..MaxSlip]
<1> USE RangeAssumption DEF PlaceOK
<1>1. Still \in [Axes -> Rates \cup {None}]
  BY DEF Still
<1>2. Here \in [Axes -> -MaxSlip..Travel + MaxSlip]
  BY DEF Here, Position
<1>3. \A n \in {-1, None} : [rate EXCEPT ![axis] = n] \in [Axes -> Rates \cup {None}]
  BY DEF Rates
<1>4. \A n \in {0, 1} : [target EXCEPT ![axis] = n] \in [Axes -> -MaxSlip..Travel + MaxSlip]
  OBVIOUS
<1>5. Pressed(axis) => Reference \in [Axes -> -MaxSlip..MaxSlip]
  BY DEF Pressed, Reference
<1> QED
  BY <1>1, <1>2, <1>3, <1>4, <1>5

FlagsOK ==
    /\ homed \in BOOLEAN /\ limits \in BOOLEAN /\ estop \in BOOLEAN
    /\ jog \in {"none", "running", "expired"}
    /\ phase \in Phases /\ axis \in Axes /\ axes \in SUBSET Axes
    /\ bits \subseteq {"ok", "fail"}
    /\ seen \in Phases \cup {"none", "finish"}
    /\ home \in {"queue", "start", "enter", "wait", "stop"}
    /\ queue \in SUBSET Masks /\ Cardinality(queue) <= 1
    /\ ws \in {"idle", "move", "jog", "clear", "bits", "disarmed"} /\ late \in 0..MaxStall
    /\ safety \in {"idle", "bits"}
    /\ overtaken \in BOOLEAN

\* The type invariant in its two parts.
LEMMA TypeParts == TypeOK <=> PlaceOK /\ FlagsOK
  BY DEF TypeOK, PlaceOK, FlagsOK

----------------------------------------------------------------------------
(* The control task's steps that move the axes, by what they write.        *)

\* Behind Plan(r, target): the phase is as it was, and a task acting on a
\* phase that is gone left the rates alone.
Planned(r) ==
    /\ Updated(r, target, slip, limits)
    /\ overtaken' = (overtaken \/ (seen # phase /\ r # rate)) /\ seen' = "none"
    /\ UNCHANGED <<homed, limits, estop, phase, axis, axes, bits, jog, home, queue, ws, late, safety>>

\* Behind homing_enter(p).
Entered(p, r, t, s) ==
    /\ Updated(r, t, s, limits)
    /\ phase' = p /\ overtaken' = (overtaken \/ phase # seen) /\ seen' = "none"
    /\ UNCHANGED <<homed, limits, estop, axes, bits, jog, home, queue, ws, late, safety>>

Failed ==
    /\ Updated(Still, Here, slip, limits)
    /\ phase' = "IDLE" /\ homed' = FALSE /\ bits' = bits \cup {"fail"} /\ seen' = "none"
    /\ overtaken' = (overtaken \/ (phase # seen /\ phase # "IDLE"))
    /\ UNCHANGED <<limits, estop, axis, axes, jog, home, queue, ws, late, safety>>

Finished ==
    /\ Updated(rate, target, slip, limits)
    /\ phase' = "IDLE" /\ bits' = bits \cup {"ok"} /\ seen' = "none"
    /\ overtaken' = (overtaken \/ phase # "NEXT")
    /\ UNCHANGED <<homed, limits, estop, axis, axes, jog, home, queue, ws, late, safety>>

Sought == [rate EXCEPT ![axis] = -1]
Freed == [rate EXCEPT ![axis] = None]

\* What each of them writes.
ControlWrites ==
    \/ Begin
    \/ seen = "IDLE" /\ Planned(rate)
    \/ /\ seen = "SEEK"
       /\ \/ /\ Pressed(axis) /\ UNCHANGED axis
             /\ Entered("BACKOFF", Freed, [target EXCEPT ![axis] = 1], Reference)
          \/ Planned(Sought) \/ Failed
    \/ /\ seen = "BACKOFF"
       /\ \/ Entered("RESEEK", rate, target, slip) /\ UNCHANGED axis
          \/ Planned(rate) \/ Failed
    \/ /\ seen = "RESEEK"
       /\ \/ /\ Pressed(axis) /\ UNCHANGED axis
             /\ Entered("SETTLE", Freed, [target EXCEPT ![axis] = 0], Reference)
          \/ Planned(Sought) \/ Failed
    \/ /\ seen = "SETTLE"
       /\ \/ Entered("NEXT", Freed, target, slip) /\ UNCHANGED axis
          \/ Planned(Freed)
    \/ seen = "NEXT" /\ AxisLeft /\ axis' = 1 /\ Entered("SEEK", rate, target, slip)
    \/ AllHomed
    \/ seen = "finish" /\ Finished

\* A step of the control task writes what ControlWrites says.
LEMMA ControlIs == ASSUME TypeOK, Control PROVE ControlWrites
<1> USE DEF flags, axis_vars, homing
<1>1. PlaceOK /\ FlagsOK
  BY TypeParts
<1>2. axis \in Axes /\ limits \in BOOLEAN
  BY <1>1 DEF FlagsOK
<1>3. ASSUME NEW r \in [Axes -> Rates \cup {None}], Plan(r, target)
      PROVE  Planned(r)
  <2>1. Updated(r, target, slip, limits)
    BY <1>1, <1>2, <1>3, UpdateKeeps DEF Plan, PlaceOK
  <2> QED
    BY <1>3, <2>1 DEF Plan, Planned
<1>4. ASSUME Fail PROVE Failed
  <2>1. Updated(Still, Here, slip, limits)
    BY <1>1, <1>2, <1>4, HandedOn, UpdateKeeps DEF Fail, PlaceOK
  <2> QED
    BY <1>4, <2>1 DEF Fail, Failed
<1>5. ASSUME NEW p, NEW n \in {0, 1}, Pressed(axis), Moves(p, n)
      PROVE  Entered(p, Freed, [target EXCEPT ![axis] = n], Reference) /\ UNCHANGED axis
  <2>1. Freed \in [Axes -> Rates \cup {None}]
    BY <1>1, <1>2, HandedOn DEF Freed
  <2>2. /\ Reference \in [Axes -> -MaxSlip..MaxSlip]
        /\ [target EXCEPT ![axis] = n] \in [Axes -> -MaxSlip..Travel + MaxSlip]
    BY <1>1, <1>2, <1>5, HandedOn
  <2>3. Update(Freed, [target EXCEPT ![axis] = n], Reference, limits)
    BY <1>5 DEF Moves, Freed
  <2>4. Updated(Freed, [target EXCEPT ![axis] = n], Reference, limits)
    BY <1>1, <1>2, <2>1, <2>2, <2>3, UpdateKeeps
  <2> QED
    BY <1>5, <2>4 DEF Moves, Entered, Enter, Untouched
<1>6. ASSUME Update(rate, target, slip, limits) PROVE Updated(rate, target, slip, limits)
  BY <1>1, <1>2, <1>6, UpdateKeeps DEF PlaceOK
<1>7. Sought \in [Axes -> Rates \cup {None}] /\ Freed \in [Axes -> Rates \cup {None}]
  BY <1>1, <1>2, HandedOn DEF Sought, Freed
<1>8. ASSUME Update(Freed, target, slip, limits) PROVE Updated(Freed, target, slip, limits)
  BY <1>1, <1>2, <1>7, <1>8, UpdateKeeps DEF PlaceOK
<1>9. CASE Begin
  BY <1>9 DEF ControlWrites
<1>10. CASE Idle
  BY <1>10, <1>1, <1>3 DEF Idle, ControlWrites, PlaceOK
<1>11. CASE Seek
  <2>1. CASE Pressed(axis) /\ Moves("BACKOFF", 1)
    BY <1>11, <2>1, <1>5 DEF Seek, ControlWrites
  <2>2. CASE Plan(Sought, target)
    BY <1>11, <2>2, <1>3, <1>7 DEF Seek, ControlWrites
  <2>3. CASE Fail
    BY <1>11, <2>3, <1>4 DEF Seek, ControlWrites
  <2> QED
    BY <1>11, <2>1, <2>2, <2>3 DEF Seek, Sought
<1>12. CASE BackOff
  <2>1. CASE /\ Enter("RESEEK") /\ Update(rate, target, slip, limits)
             /\ seen' = "none" /\ UNCHANGED <<axis, axes, bits>> /\ Untouched
    <3>1. Entered("RESEEK", rate, target, slip) /\ UNCHANGED axis
      BY <2>1, <1>6 DEF Entered, Enter, Untouched
    <3> QED
      BY <1>12, <3>1 DEF BackOff, ControlWrites
  <2>2. CASE Plan(rate, target)
    BY <1>12, <2>2, <1>1, <1>3 DEF BackOff, ControlWrites, PlaceOK
  <2>3. CASE Fail
    BY <1>12, <2>3, <1>4 DEF BackOff, ControlWrites
  <2> QED
    BY <1>12, <2>1, <2>2, <2>3 DEF BackOff
<1>13. CASE Reseek
  <2>1. CASE Pressed(axis) /\ Moves("SETTLE", 0)
    BY <1>13, <2>1, <1>5 DEF Reseek, ControlWrites
  <2>2. CASE Plan(Sought, target)
    BY <1>13, <2>2, <1>3, <1>7 DEF Reseek, ControlWrites
  <2>3. CASE Fail
    BY <1>13, <2>3, <1>4 DEF Reseek, ControlWrites
  <2> QED
    BY <1>13, <2>1, <2>2, <2>3 DEF Reseek, Sought
<1>14. CASE Settle
  <2>1. CASE /\ Enter("NEXT") /\ Update(Freed, target, slip, limits)
             /\ seen' = "none" /\ UNCHANGED <<axis, axes, bits>> /\ Untouched
    <3>1. Entered("NEXT", Freed, target, slip) /\ UNCHANGED axis
      BY <2>1, <1>8 DEF Entered, Enter, Untouched
    <3> QED
      BY <1>14, <3>1 DEF Settle, ControlWrites
  <2>2. CASE Plan(Freed, target)
    BY <1>14, <2>2, <1>3, <1>7 DEF Settle, ControlWrites
  <2> QED
    BY <1>14, <2>1, <2>2 DEF Settle, Freed
<1>15. CASE NextAxis
  <2>1. Entered("SEEK", rate, target, slip)
    BY <1>15, <1>6 DEF NextAxis, Entered, Enter, Untouched
  <2> QED
    BY <1>15, <2>1 DEF NextAxis, ControlWrites
<1>16. CASE AllHomed
  BY <1>16 DEF ControlWrites
<1>17. CASE Finish
  <2>1. Finished
    BY <1>17, <1>6 DEF Finish, Finished, Untouched
  <2> QED
    BY <1>17, <2>1 DEF Finish, ControlWrites
<1> QED
  BY <1>9, <1>10, <1>11, <1>12, <1>13, <1>14, <1>15, <1>16, <1>17 DEF Control

----------------------------------------------------------------------------
(* Types.                                                                  *)

\* The types hold at boot.
LEMMA InitTypes == Init => TypeOK
<1> SUFFICES ASSUME Init PROVE TypeOK
  OBVIOUS
<1> USE RangeAssumption DEF Init
<1>1. PlaceOK
  BY DEF PlaceOK, Here, Position, Still, Rates
<1>2. Cardinality(queue) = 0
  BY FS_EmptySet
<1>3. FlagsOK
  <2>1. queue \in SUBSET Masks /\ Cardinality(queue) <= 1
    BY <1>2
  <2>2. bits \subseteq {"ok", "fail"} /\ axes \in SUBSET Axes /\ axis \in Axes /\ late \in 0..MaxStall
    OBVIOUS
  <2> QED
    BY <2>1, <2>2 DEF FlagsOK, Phases
<1> QED
  BY <1>1, <1>3, TypeParts

\* A stop keeps the types and moves no axis.
LEMMA StopTypes ==
  ASSUME TypeOK, PlainStop \/ HardStop
  PROVE  PlaceOK' /\ UNCHANGED <<phys, axis, axes, bits>> /\ jog' = "none"
         /\ phase' \in {phase, "IDLE"} /\ limits' \in {limits, FALSE} /\ estop' \in BOOLEAN /\ homed' \in BOOLEAN
<1> USE RangeAssumption DEF place, flags, homing
<1>1. PlaceOK /\ FlagsOK
  BY TypeParts
<1>2. Still \in [Axes -> Rates \cup {None}] /\ Here \in [Axes -> -MaxSlip..Travel + MaxSlip]
  BY <1>1, HandedOn DEF FlagsOK
<1>3. CASE PlainStop
  BY <1>1, <1>2, <1>3 DEF PlainStop, PlaceOK, FlagsOK
<1>4. CASE HardStop
  <2>1. slip' \in [Axes -> -MaxSlip..MaxSlip] /\ phys' = phys
    BY <1>4 DEF HardStop
  <2>2. target' \in [Axes -> -MaxSlip..Travel + MaxSlip]
    BY <1>1, <1>4, <2>1 DEF HardStop, PlaceOK
  <2>3. PlaceOK'
    BY <1>1, <1>2, <1>4, <2>1, <2>2 DEF HardStop, PlaceOK, Rates
  <2> QED
    BY <1>1, <1>4, <2>3 DEF HardStop, FlagsOK
<1> QED
  BY <1>3, <1>4

\* The control task keeps the types.
LEMMA ControlTypes == ASSUME TypeOK, Control PROVE TypeOK'
<1> USE DEF flags, axis_vars, homing, place, Phases
<1>1. PlaceOK /\ FlagsOK
  BY TypeParts
<1>2. Still \in [Axes -> Rates \cup {None}] /\ Here \in [Axes -> -MaxSlip..Travel + MaxSlip]
  BY <1>1, HandedOn DEF FlagsOK
<1>3. ASSUME NEW r \in [Axes -> Rates \cup {None}], NEW t \in [Axes -> -MaxSlip..Travel + MaxSlip],
             NEW s, Updated(r, t, s, limits)
      PROVE  PlaceOK'
  BY <1>3 DEF Updated, PlaceOK
<1>4. Sought \in [Axes -> Rates \cup {None}] /\ Freed \in [Axes -> Rates \cup {None}]
  BY <1>1, HandedOn DEF FlagsOK, Sought, Freed
<1>5. \A n \in {0, 1} : [target EXCEPT ![axis] = n] \in [Axes -> -MaxSlip..Travel + MaxSlip]
  BY <1>1, HandedOn DEF FlagsOK
<1>6. rate \in [Axes -> Rates \cup {None}] /\ target \in [Axes -> -MaxSlip..Travel + MaxSlip]
  BY <1>1 DEF PlaceOK
<1>7. ASSUME NEW r \in {rate, Sought, Freed}, Planned(r) PROVE PlaceOK' /\ FlagsOK'
  <2>1. PlaceOK'
    BY <1>3, <1>4, <1>6, <1>7 DEF Planned
  <2> QED
    BY <1>1, <1>7, <2>1 DEF Planned, FlagsOK
<1>8. ASSUME NEW p \in Phases, NEW r \in {rate, Sought, Freed}, NEW s,
             NEW t \in [Axes -> -MaxSlip..Travel + MaxSlip],
             Entered(p, r, t, s), axis' \in Axes
      PROVE  PlaceOK' /\ FlagsOK'
  <2>1. PlaceOK'
    BY <1>3, <1>4, <1>6, <1>8 DEF Entered
  <2> QED
    BY <1>1, <1>8, <2>1 DEF Entered, FlagsOK
<1>9. ASSUME Failed PROVE PlaceOK' /\ FlagsOK'
  <2>1. PlaceOK'
    BY <1>2, <1>3, <1>9 DEF Failed
  <2> QED
    BY <1>1, <1>9, <2>1 DEF Failed, FlagsOK
<1>10. ASSUME Finished PROVE PlaceOK' /\ FlagsOK'
  <2>1. PlaceOK'
    BY <1>3, <1>6, <1>10 DEF Finished
  <2> QED
    BY <1>1, <1>10, <2>1 DEF Finished, FlagsOK
<1>11. CASE Begin
  <2>1. jog' \in {"none", "running", "expired"} /\ PlaceOK'
    BY <1>1, <1>2, <1>11 DEF Begin, ExpireJog, FlagsOK, PlaceOK
  <2>2. late' \in 0..MaxStall
    BY <1>1, <1>11, RangeAssumption DEF Begin, FlagsOK
  <2>3. FlagsOK'
    BY <1>1, <1>11, <2>1, <2>2 DEF Begin, FlagsOK
  <2> QED
    BY <2>1, <2>3, TypeParts DEF TypeOK, PlaceOK, FlagsOK
<1>12. CASE AllHomed
  BY <1>1, <1>12 DEF AllHomed, TypeOK, PlaceOK, FlagsOK
<1>13. axis \in Axes
  BY <1>1 DEF FlagsOK
<1>14. PlaceOK' /\ FlagsOK' => TypeOK'
  BY DEF TypeOK, PlaceOK, FlagsOK
<1> QED
  BY <1>5, <1>6, <1>7, <1>8, <1>9, <1>10, <1>11, <1>12, <1>13, <1>14, ControlIs DEF ControlWrites

\* Every step keeps the types.
LEMMA TypesKept == TypeOK /\ [Next]_vars => TypeOK'
<1> SUFFICES ASSUME TypeOK, [Next]_vars PROVE TypeOK'
  OBVIOUS
<1> USE DEF flags, axis_vars, homing, place
<1>1. PlaceOK /\ FlagsOK
  BY TypeParts
<1>2. PlaceOK' /\ FlagsOK' => TypeOK'
  BY DEF TypeOK, PlaceOK, FlagsOK
<1>3. Still \in [Axes -> Rates \cup {None}] /\ Here \in [Axes -> -MaxSlip..Travel + MaxSlip]
  BY <1>1, HandedOn DEF FlagsOK
<1>4. UNCHANGED <<phys, slip, target, rate, vel>> => PlaceOK'
  BY <1>1 DEF PlaceOK
<1>5. CASE Control
  BY <1>5, ControlTypes
<1>6. CASE StopCommand \/ LinkLost \/ EstopCommand \/ EstopInput \/ HomeStop
  <2>1. PlaceOK' /\ UNCHANGED <<phys, axis, axes, bits>> /\ jog' = "none"
        /\ phase' \in {phase, "IDLE"} /\ limits' \in {limits, FALSE} /\ estop' \in BOOLEAN /\ homed' \in BOOLEAN
    BY <1>6, StopTypes DEF StopCommand, LinkLost, EstopCommand, EstopInput, HomeStop
  <2>2. /\ ws' \in {ws, "clear", "bits"} /\ home' \in {home, "queue"} /\ safety' \in {safety, "bits"}
        /\ UNCHANGED <<seen, queue, late, overtaken>>
    BY <1>6 DEF StopCommand, LinkLost, EstopCommand, EstopInput, HomeStop
  <2>3. /\ ws' \in {"idle", "move", "jog", "clear", "bits", "disarmed"} /\ safety' \in {"idle", "bits"}
        /\ home' \in {"queue", "start", "enter", "wait", "stop"} /\ phase' \in Phases
        /\ limits' \in BOOLEAN
    BY <1>1, <2>1, <2>2 DEF FlagsOK, Phases
  <2>4. FlagsOK'
    BY <1>1, <2>1, <2>2, <2>3 DEF FlagsOK
  <2> QED
    BY <1>2, <2>1, <2>4
<1>7. CASE ClearEstop \/ WsBits \/ SafetyBits \/ DisarmCommand \/ JogTtl
  <2>1. UNCHANGED <<phys, slip, target, rate, vel>>
    BY <1>7 DEF ClearEstop, WsBits, SafetyBits, DisarmCommand, JogTtl
  <2>2. FlagsOK'
    <3>1. CASE ClearEstop
      BY <1>1, <3>1 DEF ClearEstop, FlagsOK
    <3>2. CASE WsBits
      BY <1>1, <3>2 DEF WsBits, FlagsOK
    <3>3. CASE SafetyBits
      BY <1>1, <3>3 DEF SafetyBits, FlagsOK
    <3>4. CASE DisarmCommand
      BY <1>1, <3>4 DEF DisarmCommand, FlagsOK
    <3>5. CASE JogTtl
      BY <1>1, <3>5 DEF JogTtl, tasks, FlagsOK
    <3> QED
      BY <1>7, <3>1, <3>2, <3>3, <3>4, <3>5
  <2> QED
    BY <1>2, <1>4, <2>1, <2>2
<1>8. CASE \E op \in {"move", "jog"} : Check(op)
  BY <1>1, <1>2, <1>4, <1>8, RangeAssumption DEF Check, FlagsOK
<1>9. CASE SetTarget
  <2>1. target' \in [Axes -> -MaxSlip..Travel + MaxSlip]
    <3>1. target' \in [Axes -> 0..SoftMax]
      BY <1>9, CommandsAssumption DEF SetTarget
    <3> QED
      BY <3>1, RangeAssumption
  <2>2. PlaceOK'
    BY <1>1, <1>3, <1>9, <2>1 DEF SetTarget, PlaceOK
  <2>3. FlagsOK'
    BY <1>1, <1>9, RangeAssumption DEF SetTarget, FlagsOK
  <2> QED
    BY <1>2, <2>2, <2>3
<1>10. CASE SetRate
  <2>1. rate' \in [Axes -> Rates \cup {None}]
    BY <1>10, CommandsAssumption DEF SetRate, Rates
  <2>2. PlaceOK'
    BY <1>1, <1>10, <2>1 DEF SetRate, PlaceOK
  <2>3. FlagsOK'
    BY <1>1, <1>10, RangeAssumption DEF SetRate, FlagsOK
  <2> QED
    BY <1>2, <2>2, <2>3
<1>11. CASE HomeCommand
  <2>1. PICK m \in Masks : queue' = {m}
    BY <1>11 DEF HomeCommand
  <2>2. Cardinality({m}) = 1
    BY FS_Singleton
  <2>3. FlagsOK'
    BY <1>1, <1>11, <2>1, <2>2 DEF HomeCommand, FlagsOK
  <2> QED
    BY <1>2, <1>4, <1>11, <2>3 DEF HomeCommand
<1>12. CASE Receive
  <2>1. Cardinality({}) = 0
    BY FS_EmptySet
  <2>2. axes' \in SUBSET Axes
    BY <1>1, <1>12, MasksAssumption DEF Receive, FlagsOK
  <2>3. FlagsOK'
    BY <1>1, <1>12, <2>1, <2>2 DEF Receive, FlagsOK
  <2> QED
    BY <1>2, <1>4, <1>12, <2>3 DEF Receive
<1>13. CASE HomeStart
  <2>1. PlaceOK'
    BY <1>1, <1>3, <1>13 DEF HomeStart, PlaceOK
  <2>2. FlagsOK'
    BY <1>1, <1>13 DEF HomeStart, FlagsOK
  <2> QED
    BY <1>2, <2>1, <2>2
<1>14. CASE HomeEnter \/ HomeDone \/ HomeTimeout
  <2>1. FlagsOK'
    <3>1. CASE HomeEnter
      BY <1>1, <3>1 DEF HomeEnter, FlagsOK, Phases
    <3>2. CASE HomeDone
      BY <1>1, <3>2 DEF HomeDone, FlagsOK
    <3>3. CASE HomeTimeout
      BY <1>1, <3>3 DEF HomeTimeout, FlagsOK, Phases
    <3> QED
      BY <1>14, <3>1, <3>2, <3>3
  <2> QED
    BY <1>2, <1>4, <1>14, <2>1 DEF HomeEnter, HomeDone, HomeTimeout
<1>15. CASE UNCHANGED vars
  BY <1>1, <1>2, <1>4, <1>15 DEF vars, tasks, FlagsOK
<1> QED
  BY <1>5, <1>6, <1>7, <1>8, <1>9, <1>10, <1>11, <1>12, <1>13, <1>14, <1>15
     DEF Next, HomeTask, WsTask

\* Every variable has its type: no position, slip or target leaves the
\* mechanics, whatever stops and loses steps (motion.c).
THEOREM TypeCorrect == Spec => []TypeOK
  BY InitTypes, TypesKept, PTL DEF Spec

----------------------------------------------------------------------------
(* The order of the homing sequence, whoever interrupts it.                *)

\* The axes every home command asks for.
Always == {a \in Axes : \A m \in Masks : a \in m}

\* Who starts a homing finds none under way, an emergency stop leaves none,
\* and behind SEEK the control task knows of the phase it is in: only SEEK
\* is entered by another task.
Sequence ==
    /\ home \in {"start", "enter"} \/ estop => phase = "IDLE"
    /\ home \in {"start", "enter"} \/ phase # "IDLE" => Always \subseteq axes
    /\ home = "enter" /\ axis = 1 => 0 \notin Always
    /\ phase \in {"BACKOFF", "RESEEK", "SETTLE"} => seen \in {"none", phase}
    /\ phase = "NEXT" => seen \in {"none", "NEXT", "finish"}

\* A step that is not overtaken acts on a phase that is still there, or
\* leaves the rates alone.
InTime ==
    \/ Begin
    \/ Planned(rate) /\ seen # "none" /\ (seen = "SETTLE" => Freed = rate)
    \/ /\ seen = "SEEK" /\ phase = "SEEK"
       /\ \/ /\ Pressed(axis) /\ UNCHANGED axis
             /\ Entered("BACKOFF", Freed, [target EXCEPT ![axis] = 1], Reference)
          \/ Planned(Sought)
    \/ seen = "BACKOFF" /\ phase = "BACKOFF" /\ Entered("RESEEK", rate, target, slip) /\ UNCHANGED axis
    \/ /\ seen = "RESEEK" /\ phase = "RESEEK"
       /\ \/ /\ Pressed(axis) /\ UNCHANGED axis
             /\ Entered("SETTLE", Freed, [target EXCEPT ![axis] = 0], Reference)
          \/ Planned(Sought)
    \/ /\ seen = "SETTLE" /\ phase = "SETTLE"
       /\ \/ Entered("NEXT", Freed, target, slip) /\ UNCHANGED axis
          \/ Planned(Freed)
    \/ Failed
    \/ seen = "NEXT" /\ phase = "NEXT" /\ AxisLeft /\ axis' = 1 /\ Entered("SEEK", rate, target, slip)
    \/ seen = "NEXT" /\ phase = "NEXT" /\ AllHomed
    \/ phase = "NEXT" /\ Finished

\* A control step that is not overtaken is in time.
LEMMA InTimeIs == ASSUME TypeOK, Control, ~overtaken' PROVE InTime
<1>1. ControlWrites
  BY ControlIs
<1>2. ASSUME NEW r, Planned(r) PROVE seen = phase \/ r = rate
  BY <1>2 DEF Planned
<1>3. ASSUME NEW p, NEW r, NEW t, NEW s, Entered(p, r, t, s) PROVE phase = seen
  BY <1>3 DEF Entered
<1>4. AllHomed => phase = seen /\ seen = "NEXT"
  BY DEF AllHomed
<1>5. Finished => phase = "NEXT"
  BY DEF Finished
<1> HIDE DEF Axes
<1> QED
  BY <1>1, <1>2, <1>3, <1>4, <1>5 DEF ControlWrites, InTime

\* What was overtaken stays so.
LEMMA OvertakenStays == ASSUME TypeOK, [Next]_vars, overtaken PROVE overtaken'
<1>1. CASE Control
  BY <1>1, ControlIs DEF ControlWrites, Begin, Planned, Entered, Failed, Finished, AllHomed
<1>2. CASE HomeTask
  BY <1>2 DEF HomeTask, Receive, HomeStart, HomeEnter, HomeDone, HomeTimeout, HomeStop
<1>3. CASE WsTask
  BY <1>3 DEF WsTask, StopCommand, LinkLost, ClearEstop, EstopCommand, WsBits, DisarmCommand, Check,
              SetTarget, SetRate, HomeCommand
<1>4. CASE JogTtl \/ EstopInput \/ SafetyBits \/ UNCHANGED vars
  BY <1>4 DEF JogTtl, EstopInput, SafetyBits, vars, tasks
<1> QED
  BY <1>1, <1>2, <1>3, <1>4 DEF Next

\* Every step that is not overtaken keeps the order of the sequence.
LEMMA SequenceKept ==
  ASSUME TypeOK, Sequence, [Next]_vars, ~overtaken'
  PROVE  Sequence'
<1> USE DEF flags, axis_vars, homing, place
<1>1. FlagsOK
  BY TypeParts
<1>2. phase \in Phases /\ axis \in Axes /\ axes \in SUBSET Axes /\ seen \in Phases \cup {"none", "finish"}
  BY <1>1 DEF FlagsOK
<1>3. CASE Control
  <2> SUFFICES ASSUME InTime PROVE Sequence'
    BY <1>3, InTimeIs
  <2>1. CASE Begin
    BY <2>1 DEF Begin, Sequence
  <2>2. ASSUME NEW r, Planned(r) PROVE Sequence'
    BY <2>2 DEF Planned, Sequence
  <2>3. ASSUME NEW p \in Phases \ {"IDLE"}, NEW r, NEW t, NEW s, Entered(p, r, t, s), UNCHANGED axis,
               phase # "IDLE"
        PROVE  Sequence'
    BY <2>3 DEF Entered, Sequence
  <2>4. CASE Failed \/ Finished
    BY <2>4 DEF Failed, Finished, Sequence
  <2>5. CASE phase = "NEXT" /\ axis' = 1 /\ Entered("SEEK", rate, target, slip)
    BY <2>5 DEF Entered, Sequence
  <2>6. CASE phase = "NEXT" /\ AllHomed
    BY <2>6 DEF AllHomed, Sequence
  <2> QED
    BY <2>1, <2>2, <2>3, <2>4, <2>5, <2>6 DEF InTime, Phases
<1>4. CASE StopCommand \/ LinkLost \/ HomeStop
  BY <1>4 DEF StopCommand, LinkLost, HomeStop, PlainStop, Sequence
<1>5. CASE EstopCommand \/ EstopInput
  BY <1>5 DEF EstopCommand, EstopInput, HardStop, Sequence
<1>6. CASE ClearEstop \/ WsBits \/ SafetyBits \/ DisarmCommand \/ JogTtl \/ UNCHANGED vars
  BY <1>6 DEF ClearEstop, WsBits, SafetyBits, DisarmCommand, JogTtl, tasks, vars, Sequence
<1>7. CASE (\E op \in {"move", "jog"} : Check(op)) \/ SetTarget \/ SetRate \/ HomeCommand
  BY <1>7 DEF Check, SetTarget, SetRate, HomeCommand, Sequence
<1>8. CASE Receive
  <2>1. CASE estop \/ phase # "IDLE"
    BY <1>8, <2>1 DEF Receive, Sequence
  <2>2. CASE ~(estop \/ phase # "IDLE")
    <3>1. axes' \in Masks
      BY <1>1, <1>8, <2>2 DEF Receive, FlagsOK
    <3>2. Always \subseteq axes'
      BY <3>1 DEF Always
    <3> QED
      BY <1>8, <2>2, <3>2 DEF Receive, Sequence
  <2> QED
    BY <2>1, <2>2
<1>9. CASE HomeStart
  BY <1>9 DEF HomeStart, Sequence
<1>10. CASE HomeEnter
  BY <1>10 DEF HomeEnter, Sequence
<1>11. CASE HomeDone \/ HomeTimeout
  BY <1>11 DEF HomeDone, HomeTimeout, Sequence
<1> QED
  BY <1>3, <1>4, <1>5, <1>6, <1>7, <1>8, <1>9, <1>10, <1>11 DEF Next, HomeTask, WsTask

----------------------------------------------------------------------------
(* What is commanded comes to an end.                                      *)

Moving(a) == rate[a] \notin {None, 0}

\* A rate in force is a jog's, or that of the axis the homing sequence works
\* on, which holds none any more where the sequence can end by itself.
RatesHeld ==
    /\ phase = "IDLE" => \A a \in Axes : Moving(a) => jog # "none" \/ home = "stop"
    /\ phase # "IDLE" => \A a \in Axes \ {axis} : Moving(a) => jog # "none"
    /\ phase = "NEXT" => (Moving(axis) => jog # "none")

\* Between a plain stop and its clearing of an emergency stop, in which the
\* stop input may come and the control task works on, nothing is commanded.
Clearing == estop /\ ws = "clear" => rate = Still /\ target = Here

\* The rates in force are taken over with the jog that set them.
LEMMA RatesKept ==
  ASSUME TypeOK, Sequence, RatesHeld, [Next]_vars, ~overtaken'
  PROVE  RatesHeld'
<1> USE DEF flags, axis_vars, homing, place
<1>1. /\ phase \in Phases /\ axis \in Axes /\ rate \in [Axes -> Rates \cup {None}]
  BY DEF TypeOK
<1>2. CASE rate' = Still
  <2>1. axis' \in Axes
    BY TypesKept DEF TypeOK
  <2>2. \A a \in Axes : rate'[a] = None
    BY <1>2 DEF Still
  <2> QED
    BY <2>1, <2>2 DEF RatesHeld, Moving
<1>3. ASSUME rate' = rate, UNCHANGED <<jog, phase, axis>>, home = "stop" => home' = "stop"
      PROVE  RatesHeld'
  BY <1>3 DEF RatesHeld, Moving
<1>4. CASE Control
  <2> SUFFICES ASSUME InTime PROVE RatesHeld'
    BY <1>4, InTimeIs
  <2>1. \A a \in Axes \ {axis} : Sought[a] = rate[a] /\ Freed[a] = rate[a]
    BY <1>1 DEF Sought, Freed
  <2>2. Freed[axis] = None
    BY <1>1 DEF Freed
  <2>3. CASE Begin
    <3>1. CASE jog = "expired"
      BY <1>2, <2>3, <3>1 DEF Begin, ExpireJog
    <3>2. CASE jog # "expired"
      BY <1>3, <2>3, <3>2 DEF Begin
    <3> QED
      BY <3>1, <3>2
  <2>4. CASE Planned(rate)
    BY <1>3, <2>4 DEF Planned, Updated
  <2>5. ASSUME NEW r \in {Sought, Freed}, Planned(r), phase \in {"SEEK", "RESEEK", "SETTLE"}
        PROVE  RatesHeld'
    <3>1. rate' = r /\ UNCHANGED <<jog, phase, axis>>
      BY <2>5 DEF Planned, Updated
    <3> QED
      BY <2>1, <2>5, <3>1 DEF RatesHeld, Moving
  <2>6. ASSUME NEW p \in {"BACKOFF", "RESEEK", "SETTLE"}, NEW r \in {rate, Freed}, NEW t, NEW s,
               Entered(p, r, t, s), UNCHANGED axis, phase \in Phases \ {"IDLE"}
        PROVE  RatesHeld'
    <3>1. rate' = r /\ UNCHANGED <<jog, axis>> /\ phase' = p
      BY <2>6 DEF Entered, Updated
    <3> QED
      BY <2>1, <2>6, <3>1 DEF RatesHeld, Moving
  <2>7. CASE phase = "SETTLE" /\ Entered("NEXT", Freed, target, slip) /\ UNCHANGED axis
    <3>1. rate' = Freed /\ UNCHANGED <<jog, axis>> /\ phase' = "NEXT"
      BY <2>7 DEF Entered, Updated
    <3> QED
      BY <2>1, <2>2, <2>7, <3>1 DEF RatesHeld, Moving
  <2>8. CASE Failed
    BY <1>2, <2>8 DEF Failed, Updated
  <2>9. CASE phase = "NEXT" /\ AxisLeft /\ axis' = 1 /\ Entered("SEEK", rate, target, slip)
    <3>1. rate' = rate /\ UNCHANGED jog /\ phase' = "SEEK" /\ axis = 0
      BY <2>9 DEF Entered, Updated, AxisLeft
    <3> QED
      BY <2>9, <3>1 DEF RatesHeld, Moving
  <2>10. CASE AllHomed
    BY <1>3, <2>10 DEF AllHomed
  <2>11. CASE phase = "NEXT" /\ Finished
    <3>1. rate' = rate /\ UNCHANGED <<jog, axis>> /\ phase' = "IDLE"
      BY <2>11 DEF Finished, Updated
    <3> QED
      BY <1>1, <2>11, <3>1 DEF RatesHeld, Moving
  <2> QED
    BY <2>3, <2>4, <2>5, <2>6, <2>7, <2>8, <2>9, <2>10, <2>11 DEF InTime, Phases
<1>5. CASE StopCommand \/ LinkLost \/ HomeStop \/ EstopCommand \/ EstopInput \/ SetTarget \/ HomeStart
  <2>1. rate' = Still
    BY <1>5 DEF StopCommand, LinkLost, HomeStop, EstopCommand, EstopInput, PlainStop, HardStop, SetTarget,
                HomeStart
  <2> QED
    BY <1>2, <2>1
<1>6. CASE ClearEstop \/ WsBits \/ SafetyBits \/ DisarmCommand \/ UNCHANGED vars
  BY <1>3, <1>6 DEF ClearEstop, WsBits, SafetyBits, DisarmCommand, tasks, vars
<1>7. CASE (\E op \in {"move", "jog"} : Check(op)) \/ HomeCommand \/ Receive \/ HomeDone
  BY <1>3, <1>7 DEF Check, HomeCommand, Receive, HomeDone
<1>8. CASE SetRate \/ JogTtl
  <2>1. jog' # "none"
    BY <1>8 DEF SetRate, JogTtl
  <2> QED
    BY <2>1 DEF RatesHeld
<1>9. CASE HomeEnter
  <2>1. rate' = rate /\ UNCHANGED <<jog, axis>> /\ phase' = "SEEK" /\ phase = "IDLE" /\ home # "stop"
    BY <1>9 DEF HomeEnter, Sequence
  <2> QED
    BY <2>1 DEF RatesHeld, Moving
<1>10. CASE HomeTimeout
  <2>1. phase' = "IDLE" /\ home' = "stop"
    BY <1>10 DEF HomeTimeout
  <2> QED
    BY <2>1 DEF RatesHeld
<1> QED
  BY <1>4, <1>5, <1>6, <1>7, <1>8, <1>9, <1>10 DEF Next, HomeTask, WsTask

\* What is at rest before the clearing stays at rest.
LEMMA ClearingKept ==
  ASSUME TypeOK, Sequence, Clearing, [Next]_vars, ~overtaken'
  PROVE  Clearing'
<1> USE DEF flags, axis_vars, homing, place
<1>1. CASE ~estop'
  BY <1>1 DEF Clearing
<1>2. CASE ws' # "clear"
  BY <1>2 DEF Clearing
<1>3. ASSUME estop, UNCHANGED <<rate, target, phys, slip, ws>> PROVE Clearing'
  BY <1>3 DEF Clearing, Here, Position
<1>4. ASSUME rate' = Still, target' = Here, UNCHANGED <<phys, slip>> PROVE Clearing'
  BY <1>4 DEF Clearing, Here, Position
<1>5. CASE Control
  <2> SUFFICES ASSUME InTime, estop', ws' = "clear" PROVE Clearing'
    BY <1>5, InTimeIs DEF Clearing
  <2>1. CASE Begin
    <3>1. CASE jog = "expired"
      BY <1>4, <2>1, <3>1 DEF Begin, ExpireJog
    <3>2. CASE jog # "expired"
      BY <1>3, <2>1, <3>2 DEF Begin
    <3> QED
      BY <3>1, <3>2
  <2>2. CASE Planned(rate)
    BY <1>3, <2>2 DEF Planned, Updated
  <2>3. CASE Failed
    BY <1>4, <2>3 DEF Failed, Updated
  <2>4. ASSUME phase # "IDLE", UNCHANGED estop PROVE FALSE
    BY <2>4 DEF Sequence
  <2> QED
    BY <2>1, <2>2, <2>3, <2>4 DEF InTime, Planned, Entered, AllHomed, Finished
<1>6. CASE StopCommand \/ LinkLost \/ HomeStop
  <2>1. rate' = Still /\ target' = Here /\ UNCHANGED <<phys, slip>>
    BY <1>6 DEF StopCommand, LinkLost, HomeStop, PlainStop
  <2> QED
    BY <1>4, <2>1
<1>7. CASE EstopCommand
  BY <1>2, <1>7 DEF EstopCommand
<1>8. CASE EstopInput
  <2>1. rate' = Still /\ target' = [a \in Axes |-> phys[a] + slip'[a]] /\ phys' = phys
    BY <1>8 DEF EstopInput, HardStop
  <2> QED
    BY <2>1 DEF Clearing, Here, Position
<1>9. CASE SetTarget \/ SetRate
  BY <1>2, <1>9 DEF SetTarget, SetRate
<1>10. CASE HomeStart
  BY <1>4, <1>10 DEF HomeStart
<1>11. CASE ClearEstop
  BY <1>1, <1>11 DEF ClearEstop
<1>12. CASE WsBits \/ (\E op \in {"move", "jog"} : Check(op)) \/ DisarmCommand
  BY <1>2, <1>12 DEF WsBits, Check, DisarmCommand
<1>13. CASE SafetyBits \/ JogTtl \/ UNCHANGED vars \/ HomeCommand \/ Receive \/ HomeDone \/ HomeEnter \/ HomeTimeout
  <2>1. UNCHANGED <<rate, target, phys, slip, ws, estop>>
    BY <1>13 DEF SafetyBits, JogTtl, tasks, vars, HomeCommand, Receive, HomeDone, HomeEnter, HomeTimeout
  <2> QED
    BY <1>1, <1>3, <2>1
<1> QED
  BY <1>5, <1>6, <1>7, <1>8, <1>9, <1>10, <1>11, <1>12, <1>13 DEF Next, HomeTask, WsTask

Ordered == TypeOK /\ (~overtaken => Sequence /\ RatesHeld /\ Clearing)

\* Nothing is commanded at boot.
LEMMA InitOrdered == Init => Ordered
<1> SUFFICES ASSUME Init PROVE Ordered
  OBVIOUS
<1>1. TypeOK
  BY InitTypes
<1>2. Sequence /\ RatesHeld /\ Clearing
  BY DEF Init, Sequence, RatesHeld, Moving, Still, Clearing
<1> QED
  BY <1>1, <1>2 DEF Ordered

\* The three together are inductive, overtaken or not.
LEMMA OrderedKept == Ordered /\ [Next]_vars => Ordered'
  BY TypesKept, OvertakenStays, SequenceKept, RatesKept, ClearingKept DEF Ordered

\* They hold at all times, whatever the preemption.
LEMMA OrderedAlways == Spec => []Ordered
  BY InitOrdered, OrderedKept, PTL DEF Spec

\* RatesEnd, for every range, every set of commands and any preemption: no
\* rate command runs for ever (motion_jog, homing_step, motion_stop).
THEOREM RatesComeToAnEnd == Spec => []RatesEnd
<1>1. Ordered => RatesEnd
  BY DEF Ordered, RatesHeld, RatesEnd, Moving
<1> QED
  BY <1>1, OrderedAlways, PTL

\* ClearIsAtRest: when an emergency stop is cleared nothing is commanded
\* (motion_stop, motion_clear_estop).
THEOREM ClearedAtRest == Spec => ClearIsAtRest
<1>1. Ordered /\ [Next]_vars =>
        (estop /\ ~estop' /\ ~overtaken => rate' = Still /\ target' = Here' /\ phase' = "IDLE")
  <2> SUFFICES ASSUME Ordered, [Next]_vars, estop, ~estop', ~overtaken
               PROVE  rate' = Still /\ target' = Here' /\ phase' = "IDLE"
    OBVIOUS
  <2>1. TypeOK /\ Sequence /\ Clearing
    BY DEF Ordered
  <2>2. ClearEstop
    <3> USE DEF flags, homing
    <3>1. CASE Control
      BY <2>1, <3>1, ControlIs DEF ControlWrites, Begin, Planned, Entered, Failed, Finished, AllHomed
    <3>2. CASE HomeTask
      BY <3>2 DEF HomeTask, Receive, HomeStart, HomeEnter, HomeDone, HomeTimeout, HomeStop, PlainStop
    <3>3. CASE WsTask
      BY <3>3 DEF WsTask, StopCommand, LinkLost, EstopCommand, WsBits, DisarmCommand, Check,
                  SetTarget, SetRate, HomeCommand, PlainStop, HardStop
    <3>4. CASE JogTtl \/ EstopInput \/ SafetyBits \/ UNCHANGED vars
      BY <3>4 DEF JogTtl, EstopInput, HardStop, SafetyBits, vars, tasks
    <3> QED
      BY <3>1, <3>2, <3>3, <3>4 DEF Next
  <2>3. ws = "clear" /\ UNCHANGED <<rate, target, phys, slip, phase>>
    BY <2>2 DEF ClearEstop, axis_vars, place, homing
  <2> QED
    BY <2>1, <2>3 DEF Sequence, Clearing, Here, Position
<1> QED
  BY <1>1, OrderedAlways, PTL DEF Spec, ClearIsAtRest

----------------------------------------------------------------------------
(* What is homed is referenced.                                            *)

Ref(a) == slip[a] = 0 /\ phys[a] \in 0..SoftMax

\* A referenced axis that the next period will not drive out of its range.
Kept(a) == Ref(a) /\ (limits \/ (rate[a] = None /\ target[a] \in 0..SoftMax))

\* The sequence references the axis it works on by its second touch and may
\* move it until NEXT, no further than a target; what it has left behind
\* rests without soft limits until the last axis is done.
Placed ==
    /\ homed => limits
    /\ homed => \A a \in Always : Ref(a)
    /\ phase # "IDLE" /\ axis = 1 /\ 0 \in Always => Kept(0)
    /\ phase = "SETTLE" => Ref(axis) /\ target[axis] \in 0..SoftMax
    /\ phase = "NEXT" => Kept(axis)

\* A jog that was checked before the homing began is set before the first
\* axis is referenced: each phase takes the control task a period, and one
\* of them may have begun before the check (the task was in the SEEK of an
\* earlier homing).
Stalled ==
    ws = "jog" =>
      /\ phase # "NEXT"
      /\ phase # "IDLE" /\ axis = 1 => 0 \notin Always
      /\ phase = "BACKOFF" /\ seen = "BACKOFF" => late >= 1
      /\ phase = "RESEEK" => late >= 1
      /\ phase = "RESEEK" /\ seen = "RESEEK" => late >= 2
      /\ phase = "SETTLE" => late >= 2 /\ seen # "SETTLE"

\* The periods go by: two are not enough to reach NEXT with a jog still to be set.
LEMMA StalledKept ==
  ASSUME MaxStall <= 2, TypeOK, Sequence, Stalled, [Next]_vars, ~overtaken'
  PROVE  Stalled'
<1> USE DEF flags, axis_vars, homing, place
<1>1. late \in Nat /\ phase \in Phases
  BY RangeAssumption DEF TypeOK
<1>2. CASE ws' # "jog"
  BY <1>2 DEF Stalled
<1>3. CASE phase' = "IDLE"
  BY <1>3 DEF Stalled
<1>4. ASSUME UNCHANGED <<ws, phase, axis, late>>, seen' \in {seen, "none"} PROVE Stalled'
  BY <1>4 DEF Stalled
<1>5. CASE Control
  <2> SUFFICES ASSUME InTime, ws' = "jog" PROVE Stalled'
    BY <1>5, InTimeIs DEF Stalled
  <2>1. CASE Begin
    <3>1. /\ late < MaxStall /\ late' = late + 1 /\ seen' = phase
          /\ UNCHANGED <<phase, axis, ws>>
      BY <2>1 DEF Begin
    <3> QED
      BY <1>1, <3>1, RangeAssumption DEF Stalled
  <2>2. ASSUME NEW r, Planned(r) PROVE Stalled'
    BY <1>4, <2>2 DEF Planned
  <2>3. CASE seen = "SEEK" /\ phase = "SEEK" /\ UNCHANGED axis
             /\ Entered("BACKOFF", Freed, [target EXCEPT ![axis] = 1], Reference)
    BY <2>3 DEF Entered, Stalled
  <2>4. CASE seen = "BACKOFF" /\ phase = "BACKOFF" /\ Entered("RESEEK", rate, target, slip) /\ UNCHANGED axis
    BY <2>4 DEF Entered, Stalled
  <2>5. CASE seen = "RESEEK" /\ phase = "RESEEK" /\ UNCHANGED axis
             /\ Entered("SETTLE", Freed, [target EXCEPT ![axis] = 0], Reference)
    BY <2>5 DEF Entered, Stalled
  <2>6. ws = "jog" => ~(seen = "SETTLE" /\ phase = "SETTLE") /\ phase # "NEXT"
    BY DEF Stalled
  <2>7. InTime /\ ~Begin => ws = "jog"
    BY DEF InTime, Planned, Entered, Failed, Finished, AllHomed
  <2>8. CASE Failed
    BY <1>3, <2>8 DEF Failed
  <2> QED
    BY <2>1, <2>2, <2>3, <2>4, <2>5, <2>6, <2>7, <2>8 DEF InTime
<1>6. CASE StopCommand \/ LinkLost \/ EstopCommand \/ ClearEstop \/ WsBits \/ DisarmCommand \/ SetTarget \/ SetRate
  BY <1>2, <1>6 DEF StopCommand, LinkLost, EstopCommand, ClearEstop, WsBits, DisarmCommand, SetTarget, SetRate
<1>7. CASE EstopInput \/ HomeTimeout
  BY <1>3, <1>7 DEF EstopInput, HardStop, HomeTimeout
<1>8. CASE \E op \in {"move", "jog"} : Check(op)
  BY <1>3, <1>8 DEF Check
<1>9. CASE HomeCommand \/ SafetyBits \/ JogTtl \/ Receive \/ HomeDone \/ HomeStop \/ UNCHANGED vars
  BY <1>4, <1>9 DEF HomeCommand, SafetyBits, JogTtl, Receive, HomeDone, HomeStop, PlainStop, tasks, vars
<1>10. CASE HomeStart
  BY <1>3, <1>10 DEF HomeStart, Sequence
<1>11. CASE HomeEnter
  BY <1>11 DEF HomeEnter, Sequence, Stalled
<1> QED
  BY <1>5, <1>6, <1>7, <1>8, <1>9, <1>10, <1>11 DEF Next, HomeTask, WsTask

\* Every step that is not overtaken keeps referenced axes referenced.
LEMMA PlacedKept ==
  ASSUME TypeOK, Sequence, Placed, Stalled, [Next]_vars, ~overtaken'
  PROVE  Placed'
<1> USE DEF flags, axis_vars, homing, place
<1>1. /\ phase \in Phases /\ axis \in Axes /\ homed \in BOOLEAN /\ limits \in BOOLEAN
      /\ rate \in [Axes -> Rates \cup {None}] /\ phys \in [Axes -> 0..Travel]
      /\ target \in [Axes -> -MaxSlip..Travel + MaxSlip] /\ slip \in [Axes -> -MaxSlip..MaxSlip]
  BY DEF TypeOK
<1>2. Always \subseteq Axes
  BY DEF Always
<1>3. ASSUME UNCHANGED <<phys, slip, target, rate, homed, limits, phase, axis>> PROVE Placed'
  BY <1>3 DEF Placed, Ref, Kept
<1>4. ASSUME phase' = "IDLE", ~homed' PROVE Placed'
  BY <1>4 DEF Placed
\* The rates and targets change, to such that drive no referenced axis out.
<1>5. ASSUME UNCHANGED <<phys, slip, homed, limits, phase, axis>>,
             \A a \in Axes : Ref(a) => rate'[a] = None /\ target'[a] \in 0..SoftMax
      PROVE  Placed'
  BY <1>1, <1>2, <1>5 DEF Placed, Ref, Kept
<1>6. \A a \in Axes : Ref(a) => Still[a] = None /\ Here[a] \in 0..SoftMax
  BY <1>1 DEF Ref, Still, Here, Position
<1>7. CASE Control
  <2> SUFFICES ASSUME InTime PROVE Placed'
    BY <1>7, InTimeIs
  <2>1. ASSUME NEW r, NEW t, NEW s, Updated(r, t, s, limits),
               NEW a \in Axes, s[a] = 0, phys[a] \in 0..SoftMax, limits \/ (r[a] = None /\ t[a] \in 0..SoftMax)
        PROVE  Ref(a)' /\ rate' = r /\ target' = t
    BY <2>1 DEF Updated, Ref
  <2>2. \A a \in Axes \ {axis} : Sought[a] = rate[a] /\ Freed[a] = rate[a]
    BY <1>1 DEF Sought, Freed
  <2>3. Freed[axis] = None
    BY <1>1 DEF Freed
  \* A homed turret, by its limits.
  <2>4. ASSUME NEW r, NEW t, NEW s, Updated(r, t, s, limits), UNCHANGED <<homed, limits>>,
               \A a \in Axes : Ref(a) => s[a] = 0
        PROVE  homed' => limits' /\ \A a \in Always : Ref(a)'
    BY <1>2, <2>1, <2>4 DEF Placed, Ref
  \* What is kept stays kept.
  <2>5. ASSUME NEW r, NEW t, NEW s, Updated(r, t, s, limits), UNCHANGED limits, NEW a \in Axes, Kept(a),
               r[a] = rate[a] /\ t[a] = target[a] /\ s[a] = slip[a]
        PROVE  Kept(a)'
    BY <2>1, <2>5 DEF Kept, Ref
  \* The axis left behind, while the other one is at work.
  <2>6. ASSUME NEW r, NEW t, NEW s, Updated(r, t, s, limits), UNCHANGED <<limits, axis>>,
               \A a \in Axes \ {axis} : r[a] = rate[a] /\ t[a] = target[a] /\ s[a] = slip[a],
               phase # "IDLE"
        PROVE  axis' = 1 /\ 0 \in Always => Kept(0)'
    BY <1>1, <2>5, <2>6 DEF Placed
  <2>7. CASE Begin
    <3>1. CASE jog = "expired"
      BY <1>5, <1>6, <2>7, <3>1 DEF Begin, ExpireJog
    <3>2. CASE jog # "expired"
      BY <1>3, <2>7, <3>2 DEF Begin
    <3> QED
      BY <3>1, <3>2
  <2>8. CASE Planned(rate) /\ seen # "none" /\ (seen = "SETTLE" => Freed = rate)
    <3>1. Updated(rate, target, slip, limits) /\ UNCHANGED <<homed, limits, phase, axis>>
      BY <2>8 DEF Planned
    <3>2. homed' => limits' /\ \A a \in Always : Ref(a)'
      BY <2>4, <3>1 DEF Ref
    <3>3. phase' # "IDLE" /\ axis' = 1 /\ 0 \in Always => Kept(0)'
      BY <2>6, <3>1
    <3>4. phase' = "SETTLE" => Ref(axis)' /\ target'[axis'] \in 0..SoftMax
      <4> HAVE phase' = "SETTLE"
      <4>1. rate[axis] = None /\ Ref(axis) /\ target[axis] \in 0..SoftMax
        BY <2>3, <2>8, <3>1 DEF Sequence, Placed
      <4> QED
        BY <1>1, <2>1, <3>1, <4>1 DEF Ref
    <3>5. phase' = "NEXT" => Kept(axis)'
      BY <1>1, <2>5, <3>1 DEF Placed, Kept, Ref
    <3> QED
      BY <3>2, <3>3, <3>4, <3>5 DEF Placed
  <2>9. ASSUME phase \in {"SEEK", "RESEEK"}, Planned(Sought) PROVE Placed'
    <3>1. Updated(Sought, target, slip, limits) /\ UNCHANGED <<homed, limits, phase, axis>>
      BY <2>9 DEF Planned
    <3>2. homed' => limits' /\ \A a \in Always : Ref(a)'
      BY <2>4, <3>1 DEF Ref
    <3>3. axis' = 1 /\ 0 \in Always => Kept(0)'
      BY <2>2, <2>6, <2>9, <3>1
    <3> QED
      BY <2>9, <3>1, <3>2, <3>3 DEF Placed
  \* A touch of the endstop.
  <2>10. ASSUME NEW p \in {"BACKOFF", "SETTLE"}, NEW n \in {0, 1}, p = "SETTLE" => n = 0,
                phase # "IDLE", Pressed(axis), UNCHANGED axis,
                Entered(p, Freed, [target EXCEPT ![axis] = n], Reference)
         PROVE  Placed'
    <3> DEFINE t == [target EXCEPT ![axis] = n]
    <3>1. Updated(Freed, t, Reference, limits) /\ UNCHANGED <<homed, limits>> /\ phase' = p
      BY <2>10 DEF Entered
    <3>2. /\ Reference[axis] = 0 /\ phys[axis] = 0 /\ t[axis] = n
          /\ \A a \in Axes \ {axis} : Reference[a] = slip[a] /\ t[a] = target[a]
      BY <1>1, <2>10 DEF Reference, Pressed
    <3> HIDE DEF t
    <3>3. homed' => limits' /\ \A a \in Always : Ref(a)'
      BY <2>4, <3>1, <3>2 DEF Ref
    <3>4. axis' = 1 /\ 0 \in Always => Kept(0)'
      BY <2>2, <2>6, <2>10, <3>1, <3>2
    <3>5. p = "SETTLE" => Ref(axis)' /\ target'[axis'] \in 0..SoftMax
      <4> HAVE p = "SETTLE"
      <4>1. t[axis] \in 0..SoftMax /\ phys[axis] \in 0..SoftMax
        BY <2>10, <3>2, RangeAssumption
      <4>2. slip'[axis] = 0 /\ phys'[axis] \in 0..SoftMax /\ target' = t
        BY <1>1, <2>1, <2>3, <3>1, <3>2, <4>1 DEF Ref
      <4> QED
        BY <2>10, <4>1, <4>2 DEF Ref
    <3> QED
      BY <3>1, <3>3, <3>4, <3>5 DEF Placed
  <2>11. CASE phase = "BACKOFF" /\ Entered("RESEEK", rate, target, slip) /\ UNCHANGED axis
    <3>1. Updated(rate, target, slip, limits) /\ UNCHANGED <<homed, limits>> /\ phase' = "RESEEK"
      BY <2>11 DEF Entered
    <3>2. homed' => limits' /\ \A a \in Always : Ref(a)'
      BY <2>4, <3>1 DEF Ref
    <3>3. axis' = 1 /\ 0 \in Always => Kept(0)'
      BY <2>6, <2>11, <3>1
    <3> QED
      BY <3>1, <3>2, <3>3 DEF Placed
  <2>12. ASSUME phase = "SETTLE", UNCHANGED axis, phase' \in {"SETTLE", "NEXT"}, UNCHANGED <<homed, limits>>,
                Updated(Freed, target, slip, limits)
         PROVE  Placed'
    <3>1. homed' => limits' /\ \A a \in Always : Ref(a)'
      BY <2>4, <2>12 DEF Ref
    <3>2. axis' = 1 /\ 0 \in Always => Kept(0)'
      BY <2>2, <2>6, <2>12
    <3>3. Ref(axis) /\ target[axis] \in 0..SoftMax
      BY <2>12 DEF Placed
    <3>4. slip'[axis] = 0 /\ phys'[axis] \in 0..SoftMax /\ target' = target /\ rate' = Freed
      BY <1>1, <2>1, <2>3, <2>12, <3>3 DEF Ref
    <3>5. Ref(axis)' /\ Kept(axis)' /\ target'[axis'] \in 0..SoftMax
      BY <2>3, <2>12, <3>3, <3>4 DEF Ref, Kept
    <3> QED
      BY <2>12, <3>1, <3>2, <3>5 DEF Placed
  <2>13. CASE phase = "SETTLE" /\ ((Entered("NEXT", Freed, target, slip) /\ UNCHANGED axis) \/ Planned(Freed))
    BY <2>12, <2>13 DEF Entered, Planned
  <2>14. CASE Failed
    BY <1>4, <2>14 DEF Failed
  <2>15. CASE phase = "NEXT" /\ AxisLeft /\ axis' = 1 /\ Entered("SEEK", rate, target, slip)
    <3>1. Updated(rate, target, slip, limits) /\ UNCHANGED <<homed, limits>> /\ phase' = "SEEK" /\ axis = 0
      BY <2>15 DEF Entered, AxisLeft
    <3>2. homed' => limits' /\ \A a \in Always : Ref(a)'
      BY <2>4, <3>1 DEF Ref
    <3>3. Kept(0)'
      BY <2>5, <2>15, <3>1 DEF Placed
    <3> QED
      BY <3>1, <3>2, <3>3 DEF Placed
  <2>16. CASE phase = "NEXT" /\ AllHomed
    <3>1. /\ limits' /\ UNCHANGED <<phys, slip, target, rate, phase, axis>>
          /\ ~AxisLeft
      BY <2>16 DEF AllHomed
    <3>2. Ref(axis) /\ (axis = 1 /\ 0 \in Always => Ref(0))
      BY <2>16 DEF Placed, Kept
    <3>3. \A a \in Always : Ref(a)
      BY <1>1, <1>2, <2>16, <3>1, <3>2 DEF AxisLeft, Sequence
    <3> QED
      BY <2>16, <3>1, <3>2, <3>3 DEF Placed, Kept, Ref
  <2>17. CASE Finished
    <3>1. Updated(rate, target, slip, limits) /\ UNCHANGED <<homed, limits>> /\ phase' = "IDLE"
      BY <2>17 DEF Finished
    <3>2. homed' => limits' /\ \A a \in Always : Ref(a)'
      BY <2>4, <3>1 DEF Ref
    <3> QED
      BY <3>1, <3>2 DEF Placed
  <2> HIDE DEF Axes
  <2> QED
    BY <2>7, <2>8, <2>9, <2>10, <2>11, <2>13, <2>14, <2>15, <2>16, <2>17 DEF InTime
<1>8. CASE StopCommand \/ LinkLost \/ HomeStop
  BY <1>5, <1>6, <1>8 DEF StopCommand, LinkLost, HomeStop, PlainStop
<1>9. CASE EstopCommand \/ EstopInput
  BY <1>4, <1>9 DEF EstopCommand, EstopInput, HardStop
<1>10. CASE SetTarget
  <2>1. target' \in [Axes -> 0..SoftMax] /\ rate' = Still
    BY <1>10, CommandsAssumption DEF SetTarget
  <2> QED
    BY <1>5, <1>6, <1>10, <2>1 DEF SetTarget
<1>11. CASE SetRate
  <2>1. phase # "NEXT" /\ (phase # "IDLE" /\ axis = 1 => 0 \notin Always)
    BY <1>11 DEF SetRate, Stalled
  <2> QED
    BY <1>11, <2>1 DEF SetRate, Placed, Ref
<1>12. CASE HomeStart
  BY <1>4, <1>12 DEF HomeStart, Sequence
<1>13. CASE HomeEnter
  BY <1>13 DEF HomeEnter, Sequence, Placed, Ref
<1>14. CASE HomeTimeout
  BY <1>14 DEF HomeTimeout, Placed, Ref
<1>15. CASE ClearEstop \/ WsBits \/ SafetyBits \/ DisarmCommand \/ JogTtl \/ HomeCommand \/ UNCHANGED vars
  BY <1>3, <1>15 DEF ClearEstop, WsBits, SafetyBits, DisarmCommand, JogTtl, HomeCommand, tasks, vars
<1>16. CASE (\E op \in {"move", "jog"} : Check(op)) \/ Receive \/ HomeDone
  BY <1>3, <1>16 DEF Check, Receive, HomeDone
<1> QED
  BY <1>7, <1>8, <1>9, <1>10, <1>11, <1>12, <1>13, <1>14, <1>15, <1>16 DEF Next, HomeTask, WsTask

\* The inductive invariant of HomedIsReferenced.
IInv == Ordered /\ (~overtaken => Placed /\ Stalled)

\* Nothing is homed at boot.
LEMMA InitPlaced == Init => IInv
  BY InitOrdered DEF Init, Placed, Stalled, IInv

\* The invariant is inductive under the bound on the preemption.
LEMMA PlacedStays == ASSUME MaxStall <= 2 PROVE IInv /\ [Next]_vars => IInv'
  BY OrderedKept, OvertakenStays, PlacedKept, StalledKept DEF IInv, Ordered

\* It holds at all times.
LEMMA PlacedAlways == ASSUME MaxStall <= 2 PROVE Spec => []IInv
  BY InitPlaced, PlacedStays, PTL DEF Spec

\* A homed turret knows where every axis is that no home command leaves out,
\* and keeps it inside the soft limits, by whatever moves, jogs, stops and
\* homings it got there (motion_home_start, homing_step, step_allowed).
THEOREM AlwaysReferenced ==
  ASSUME MaxStall <= 2
  PROVE  Spec => [](homed /\ ~overtaken => \A a \in Always : slip[a] = 0 /\ phys[a] \in 0..SoftMax)
<1>1. IInv => (homed /\ ~overtaken => \A a \in Always : slip[a] = 0 /\ phys[a] \in 0..SoftMax)
  BY DEF IInv, Placed, Ref
<1> QED
  BY <1>1, PlacedAlways, PTL

\* Referenced: when homing is of both axes, a homed turret knows where it is.
THEOREM BothReferenced ==
  ASSUME Masks \subseteq {Axes}, MaxStall <= 2
  PROVE  Spec => []Referenced
<1>1. Always = Axes
  BY DEF Always
<1>2. IInv => Referenced
  BY <1>1 DEF IInv, Ordered, Placed, Ref, Referenced, HomedIsReferenced
<1> QED
  BY <1>2, PlacedAlways, PTL
=============================================================================
