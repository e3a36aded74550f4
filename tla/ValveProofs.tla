---------------------------- MODULE ValveProofs ----------------------------
(***************************************************************************)
(* What holds of the valve driver for every set of tasks, every burst      *)
(* length and every clamp: type correctness, the close that is always      *)
(* scheduled unless a closing task took the timer of the opening away, and *)
(* the bound on a burst.  With the WebSocket task alone nothing can take   *)
(* it away, and a disarmed valve is shut.                                  *)
(***************************************************************************)
EXTENDS Valve, TLAPS

USE TasksAssumption, TimesAssumption, StallAssumption

LEMMA LowerNat ==
    ASSUME NEW a \in Nat, NEW b \in Nat
    PROVE  Lower(a, b) \in Nat /\ Lower(a, b) <= a /\ Lower(a, b) <= b
BY DEF Lower

LEMMA GotoType ==
    ASSUME NEW t \in Tasks, NEW l \in Labels, TypeOK, Goto(t, l)
    PROVE  /\ pc' \in [Tasks -> Labels]
           /\ job' \in [Tasks -> Jobs]
           /\ stall' \in [Tasks -> 0..MaxStall]
BY DEF Goto, TypeOK, Jobs, Labels

LEMMA StartType ==
    ASSUME NEW t \in Tasks, NEW j \in Jobs, NEW l \in Labels, TypeOK, Start(t, j, l)
    PROVE  /\ pc' \in [Tasks -> Labels]
           /\ job' \in [Tasks -> Jobs]
           /\ stall' \in [Tasks -> 0..MaxStall]
BY DEF Start, TypeOK, Jobs, Labels

(***************************************************************************)
(* Type correctness.                                                       *)
(***************************************************************************)

LEMMA BeginType ==
    ASSUME NEW t \in Tasks, NEW j \in Jobs, TypeOK, Begin(t, j),
           button' \in BOOLEAN, latched' \in BOOLEAN
    PROVE  TypeOK'
<1>1. pc' \in [Tasks -> Labels] /\ job' \in [Tasks -> Jobs] /\ stall' \in [Tasks -> 0..MaxStall]
  BY StartType DEF Begin, Labels
<1>2. again' \in [Tasks -> BOOLEAN]
  BY DEF Begin, ClosesTwice, TypeOK
<1>3. QED
  BY <1>1, <1>2 DEF Begin, TypeOK, shared, ghost

LEMMA CloseStepType ==
    ASSUME NEW t \in Tasks, TypeOK, CloseStep(t)
    PROVE  TypeOK'
<1>1. CASE CloseStop(t)
  BY <1>1, GotoType DEF CloseStop, TypeOK, Labels, input
<1>2. CASE ClosePin(t)
  BY <1>2, GotoType DEF ClosePin, TypeOK, Labels, input, ghost
<1>3. CASE CloseFlag(t)
  <2>1. (IF again[t] THEN "close_stop" ELSE AfterClose(job[t])) \in Labels
    BY DEF Labels, AfterClose
  <2>2. QED
    BY <1>3, <2>1, GotoType DEF CloseFlag, TypeOK, input, ghost
<1>4. CASE Disarm(t)
  <2>1. AfterDisarm(job[t]) \in Labels
    BY DEF Labels, AfterDisarm
  <2>2. QED
    BY <1>4, <2>1, GotoType DEF Disarm, TypeOK, input, ghost
<1>5. CASE Latch(t)
  BY <1>5, GotoType DEF Latch, TypeOK, Labels, input, ghost
<1>6. CASE Clear(t)
  BY <1>6, GotoType DEF Clear, TypeOK, Labels, input, ghost
<1>7. QED
  BY <1>1, <1>2, <1>3, <1>4, <1>5, <1>6 DEF CloseStep

LEMMA WsStepType ==
    ASSUME TypeOK, WsStep
    PROVE  TypeOK'
<1>1. CASE ArmCheck
  BY <1>1, StartType DEF ArmCheck, TypeOK, Labels, Jobs, shared, input, ghost
<1>2. CASE ArmSet
  BY <1>2, GotoType DEF ArmSet, TypeOK, Labels, input, ghost
<1>3. CASE SprayCheck
  <2>1. dur' \in Nat
    BY <1>3, LowerNat DEF SprayCheck, Clamped, TypeOK
  <2>2. QED
    BY <1>3, <2>1, StartType DEF SprayCheck, Clamped, TypeOK, Labels, Jobs, shared, input, ghost
<1>4. CASE OpenStop
  BY <1>4, GotoType DEF OpenStop, TypeOK, Labels, input, ghost
<1>5. CASE OpenStart
  BY <1>5, GotoType DEF OpenStart, TypeOK, Labels, input
<1>6. CASE OpenPin
  BY <1>6, GotoType DEF OpenPin, TypeOK, Labels, input, ghost
<1>7. CASE OpenFlag
  BY <1>7, GotoType DEF OpenFlag, TypeOK, Labels, input, ghost
<1>8. CASE SetMaxOpen
  BY <1>8 DEF SetMaxOpen, AcceptsMaximum, TypeOK, local, input, ghost
<1>9. QED
  BY <1>1, <1>2, <1>3, <1>4, <1>5, <1>6, <1>7, <1>8 DEF WsStep

LEMMA TickType ==
    ASSUME TypeOK, Tick
    PROVE  TypeOK'
<1>1. stall' \in [Tasks -> 0..MaxStall]
  BY DEF Tick, TypeOK
<1>2. age' \in Nat
  BY LowerNat DEF Tick, TypeOK, AgeBound
<1>3. QED
  BY <1>1, <1>2 DEF Tick, TypeOK, input

LEMMA RestartType ==
    ASSUME TypeOK, Restart
    PROVE  TypeOK'
<1>1. maxOpen' \in Nat \ {0} /\ limit' \in Nat
  BY DEF Restart
<1>2. /\ pc' \in [Tasks -> Labels] /\ job' \in [Tasks -> Jobs]
      /\ again' \in [Tasks -> BOOLEAN]
  BY DEF Restart, Labels, Jobs
<1>3. stall' \in [Tasks -> 0..MaxStall]
  BY DEF Restart
<1>4. QED
  BY <1>1, <1>2, <1>3 DEF Restart, TypeOK

\* Every variable keeps its type, for every value of the constants.
THEOREM TypeCorrect == Spec => []TypeOK
<1>1. Init => TypeOK
  <2> SUFFICES ASSUME Init PROVE TypeOK
    OBVIOUS
  <2>1. maxOpen \in Nat \ {0} /\ limit \in Nat
    BY DEF Init
  <2>2. pc \in [Tasks -> Labels] /\ job \in [Tasks -> Jobs] /\ again \in [Tasks -> BOOLEAN]
    BY DEF Init, Labels, Jobs
  <2>3. stall \in [Tasks -> 0..MaxStall]
    BY DEF Init
  <2>4. QED
    BY <2>1, <2>2, <2>3 DEF Init, TypeOK
<1>2. TypeOK /\ [Next]_vars => TypeOK'
  <2> SUFFICES ASSUME TypeOK, [Next]_vars PROVE TypeOK'
    OBVIOUS
  <2>1. CASE Begins
    <3>1. CASE WsClose
      BY <3>1, BeginType DEF WsClose, Jobs, TypeOK, input
    <3>2. CASE StatusFailsafe
      BY <3>2, BeginType DEF StatusFailsafe, Jobs, TypeOK, input
    <3>3. CASE SafetyPress
      BY <3>3, BeginType DEF SafetyPress, Jobs, TypeOK
    <3>4. CASE SafetyRelease
      BY <3>4 DEF SafetyRelease, TypeOK, shared, local, ghost
    <3>5. QED
      BY <2>1, <3>1, <3>2, <3>3, <3>4 DEF Begins
  <2>2. CASE Timer
    BY <2>2 DEF Timer, TimerPin, TimerFlag, TypeOK, local, input, ghost
  <2>3. CASE Press
    BY <2>3 DEF Press, TypeOK, shared, local, ghost
  <2>4. CASE UNCHANGED vars
    BY <2>4 DEF vars, TypeOK, shared, local, input, ghost
  <2>5. QED
    BY <2>1, <2>2, <2>3, <2>4, CloseStepType, WsStepType, TickType, RestartType DEF Next
<1>3. QED
  BY <1>1, <1>2, PTL DEF Spec

(***************************************************************************)
(* The close that is always scheduled, and the bound on a burst.           *)
(***************************************************************************)

LEMMA CloseStepInv ==
    ASSUME IInv, NEW t \in Tasks, CloseStep(t), TypeOK'
    PROVE  OpeningTimed' /\ WaterCovered'
<1> USE DEF IInv, TypeOK, Goto
<1>1. CASE CloseStop(t)
  <2>1. OpeningTimed'
    BY <1>1 DEF CloseStop, OpeningTimed
  <2>2. WaterCovered'
    <3> SUFFICES ASSUME pin' = "open", ~raced' PROVE WaterCovered'
      BY DEF WaterCovered
    <3>1. pin = "open" /\ ~raced /\ pc["ws"] # "open_pin"
      BY <1>1 DEF CloseStop
    <3>2. pc'[t] = "close_pin" /\ stall'[t] = 0 /\ age' = age /\ limit' = limit
      BY <1>1 DEF CloseStop
    <3>3. CASE age <= limit
      <4>1. pc'[t] = "close_pin" /\ age' <= limit' + stall'[t]
        BY <3>2, <3>3
      <4>2. QED
        BY <4>1 DEF WaterCovered
    <3>4. ASSUME NEW u \in Tasks, pc[u] = "close_pin", age <= limit + stall[u]
          PROVE  WaterCovered'
      <4>1. u # t
        BY <1>1, <3>4 DEF CloseStop
      <4>2. pc'[u] = "close_pin" /\ stall'[u] = stall[u]
        BY <1>1, <3>4, <4>1 DEF CloseStop
      <4>3. QED
        BY <3>2, <3>4, <4>2 DEF WaterCovered
    <3>5. CASE pc["ws"] = "open_start" /\ age <= limit + stall["ws"]
      <4>1. t # "ws"
        BY <1>1, <3>5 DEF CloseStop
      <4>2. pc'["ws"] = "open_start" /\ stall'["ws"] = stall["ws"]
        BY <1>1, <3>5, <4>1 DEF CloseStop
      <4>3. QED
        BY <3>2, <3>5, <4>2 DEF WaterCovered
    <3>6. \/ age <= limit
          \/ \E u \in Tasks : pc[u] = "close_pin" /\ age <= limit + stall[u]
          \/ pc["ws"] = "open_start" /\ age <= limit + stall["ws"]
      BY <3>1 DEF WaterCovered
    <3>7. QED
      BY <3>3, <3>4, <3>5, <3>6
  <2>3. QED
    BY <2>1, <2>2
<1>2. CASE ClosePin(t)
  BY <1>2 DEF ClosePin, OpeningTimed, WaterCovered, ghost
<1>3. ASSUME NEW l \in Labels \ {"open_stop", "open_start", "open_pin", "close_pin"},
             Goto(t, l), pc[t] \notin {"open_stop", "open_start", "open_pin", "close_pin"},
             UNCHANGED <<pin, maxOpen, timer, cb, dur, ghost>>
      PROVE  OpeningTimed' /\ WaterCovered'
  <2>1. \A u \in Tasks : pc[u] \in {"open_stop", "open_start", "open_pin", "close_pin"}
                            => pc'[u] = pc[u] /\ stall'[u] = stall[u]
    BY <1>3
  <2>2. pc'["ws"] \in {"open_stop", "open_start", "open_pin"} => pc'["ws"] = pc["ws"] /\ stall'["ws"] = stall["ws"]
    BY <1>3
  <2>3. OpeningTimed'
    BY <1>3, <2>2 DEF OpeningTimed, ghost
  <2>4. WaterCovered'
    BY <1>3, <2>1 DEF WaterCovered, ghost
  <2>5. QED
    BY <2>3, <2>4
<1>4. CASE CloseFlag(t)
  BY <1>3, <1>4 DEF CloseFlag, AfterClose, Labels
<1>5. CASE Disarm(t)
  BY <1>3, <1>5 DEF Disarm, AfterDisarm, Labels
<1>6. CASE Latch(t)
  BY <1>3, <1>6 DEF Latch, Labels
<1>7. CASE Clear(t)
  BY <1>3, <1>7 DEF Clear, Labels
<1>8. QED
  BY <1>1, <1>2, <1>4, <1>5, <1>6, <1>7 DEF CloseStep

LEMMA WsStepInv ==
    ASSUME IInv, WsStep, TypeOK'
    PROVE  OpeningTimed' /\ WaterCovered'
<1> USE DEF IInv, TypeOK, Goto, Start
<1>0. ASSUME NEW l \in Labels, pc' = [pc EXCEPT !["ws"] = l],
             stall' = [stall EXCEPT !["ws"] = 0] \/ stall' = stall,
             pc["ws"] \notin {"open_start", "close_pin"},
             UNCHANGED <<pin, timer, cb, ghost>>
      PROVE  WaterCovered'
  <2>1. \A u \in Tasks : pc[u] = "close_pin" => pc'[u] = pc[u] /\ stall'[u] = stall[u]
    BY <1>0
  <2>2. QED
    BY <1>0, <2>1 DEF WaterCovered, ghost
<1>1. CASE ArmCheck
  BY <1>0, <1>1 DEF ArmCheck, OpeningTimed, Labels, shared, ghost
<1>2. CASE ArmSet
  BY <1>0, <1>2 DEF ArmSet, OpeningTimed, Labels, ghost
<1>3. CASE SprayCheck
  <2>1. MaxStall < dur' /\ dur' <= maxOpen
    BY <1>3 DEF SprayCheck, Clamped, Lower, OpeningTimed
  <2>2. OpeningTimed'
    BY <1>3, <2>1 DEF SprayCheck, OpeningTimed, shared, ghost
  <2>3. QED
    BY <1>0, <1>3, <2>2 DEF SprayCheck, Labels, shared
<1>4. CASE OpenStop
  <2>1. OpeningTimed'
    BY <1>4 DEF OpenStop, OpeningTimed
  <2>2. WaterCovered'
    <3> SUFFICES ASSUME pin' = "open", ~raced' PROVE WaterCovered'
      BY DEF WaterCovered
    <3>1. pc'["ws"] = "open_start" /\ stall'["ws"] = 0 /\ age' = age /\ limit' = limit
          /\ pin = "open" /\ ~raced
      BY <1>4 DEF OpenStop, ghost
    <3>2. ASSUME NEW u \in Tasks, pc[u] = "close_pin", age <= limit + stall[u]
          PROVE  WaterCovered'
      <4>1. pc'[u] = "close_pin" /\ age' <= limit' + stall'[u]
        BY <1>4, <3>1, <3>2 DEF OpenStop
      <4>2. QED
        BY <4>1 DEF WaterCovered
    <3>3. CASE age <= limit
      <4>1. pc'["ws"] = "open_start" /\ age' <= limit' + stall'["ws"]
        BY <3>1, <3>3
      <4>2. QED
        BY <4>1 DEF WaterCovered
    <3>4. age <= limit \/ \E u \in Tasks : pc[u] = "close_pin" /\ age <= limit + stall[u]
      BY <1>4, <3>1 DEF WaterCovered, OpenStop
    <3>5. QED
      BY <3>2, <3>3, <3>4
  <2>3. QED
    BY <2>1, <2>2
<1>5. CASE OpenStart
  BY <1>5 DEF OpenStart, OpeningTimed, WaterCovered
<1>6. CASE OpenPin
  <2>1. OpeningTimed'
    BY <1>6 DEF OpenPin, OpeningTimed, ghost
  <2>2. ~raced => timer > 0 /\ age + timer <= limit
    BY <1>6 DEF OpenPin, OpeningTimed
  <2>3. WaterCovered'
    BY <1>6, <2>2 DEF OpenPin, WaterCovered, ghost
  <2>4. QED
    BY <2>1, <2>3
<1>7. CASE OpenFlag
  BY <1>0, <1>7 DEF OpenFlag, OpeningTimed, Labels, ghost
<1>8. CASE SetMaxOpen
  BY <1>8 DEF SetMaxOpen, AcceptsMaximum, OpeningTimed, WaterCovered, local, ghost
<1>9. QED
  BY <1>1, <1>2, <1>3, <1>4, <1>5, <1>6, <1>7, <1>8 DEF WsStep

LEMMA TickInv ==
    ASSUME IInv, Tick
    PROVE  OpeningTimed' /\ WaterCovered'
<1> USE DEF IInv, TypeOK
<1>1. age' <= age + 1 /\ age' \in Nat
  BY LowerNat DEF Tick, AgeBound
<1>2. \A t \in Tasks : pc[t] \in Unguarded => stall[t] < MaxStall /\ stall'[t] = stall[t] + 1
  BY DEF Tick
<1>3. OpeningTimed'
  <2>1. pc["ws"] = "open_pin" /\ ~raced => timer' + stall'["ws"] = dur /\ age' + timer' <= limit
    BY <1>1, <1>2 DEF Tick, OpeningTimed, Unguarded
  <2>2. QED
    BY <2>1 DEF Tick, OpeningTimed
<1>4. WaterCovered'
  <2> SUFFICES ASSUME pin' = "open", ~raced' PROVE WaterCovered'
    BY DEF WaterCovered
  <2>1. pin = "open" /\ ~raced /\ limit' = limit /\ pc' = pc /\ cb = "idle"
    BY DEF Tick
  <2>2. CASE timer > 0 /\ age + timer <= limit
    <3>1. CASE timer = 1
      <4>1. cb' = "pin" /\ age' <= limit'
        BY <1>1, <2>1, <2>2, <3>1 DEF Tick
      <4>2. QED
        BY <4>1 DEF WaterCovered
    <3>2. CASE timer # 1
      <4>1. timer' > 0 /\ age' + timer' <= limit'
        BY <1>1, <2>1, <2>2, <3>2 DEF Tick
      <4>2. QED
        BY <4>1 DEF WaterCovered
    <3>3. QED
      BY <3>1, <3>2
  <2>3. ASSUME NEW t \in Tasks, pc[t] = "close_pin", age <= limit + stall[t]
        PROVE  WaterCovered'
    <3>1. pc'[t] = "close_pin" /\ age' <= limit' + stall'[t]
      BY <1>1, <1>2, <2>1, <2>3 DEF Unguarded
    <3>2. QED
      BY <3>1 DEF WaterCovered
  <2>4. CASE pc["ws"] = "open_start" /\ age <= limit + stall["ws"]
    <3>1. pc'["ws"] = "open_start" /\ age' <= limit' + stall'["ws"]
      BY <1>1, <1>2, <2>1, <2>4 DEF Unguarded
    <3>2. QED
      BY <3>1 DEF WaterCovered
  <2>5. QED
    BY <2>1, <2>2, <2>3, <2>4 DEF WaterCovered
<1>5. QED
  BY <1>3, <1>4

\* IInv holds in every reachable state: it is inductive.
THEOREM Inductive == Spec => []IInv
<1>1. Init => OpeningTimed /\ WaterCovered
  BY DEF Init, OpeningTimed, WaterCovered
<1>2. IInv /\ TypeOK' /\ [Next]_vars => OpeningTimed' /\ WaterCovered'
  <2> SUFFICES ASSUME IInv, TypeOK', [Next]_vars PROVE OpeningTimed' /\ WaterCovered'
    OBVIOUS
  <2>1. CASE Begins
    <3>1. ASSUME NEW t \in Tasks, NEW j \in Jobs, Begin(t, j) PROVE OpeningTimed' /\ WaterCovered'
      <4>1. \A u \in Tasks : pc[u] # "idle" => pc'[u] = pc[u] /\ stall'[u] = stall[u]
        BY <3>1 DEF Begin, Start, IInv, TypeOK
      <4>2. pc'[t] = "close_stop" /\ pc[t] = "idle"
        BY <3>1 DEF Begin, Start, IInv, TypeOK
      <4>3. OpeningTimed'
        BY <3>1, <4>1, <4>2 DEF Begin, Start, IInv, TypeOK, OpeningTimed, shared, ghost
      <4>4. WaterCovered'
        BY <3>1, <4>1, <4>2 DEF Begin, Start, IInv, WaterCovered, shared, ghost
      <4>5. QED
        BY <4>3, <4>4
    <3>2. CASE SafetyRelease
      BY <3>2 DEF SafetyRelease, IInv, OpeningTimed, WaterCovered, shared, local, ghost
    <3>3. QED
      BY <2>1, <3>1, <3>2 DEF Begins, WsClose, StatusFailsafe, SafetyPress, Jobs
  <2>2. CASE Timer
    BY <2>2 DEF Timer, TimerPin, TimerFlag, IInv, OpeningTimed, WaterCovered, local, ghost
  <2>3. CASE Press
    BY <2>3 DEF Press, IInv, OpeningTimed, WaterCovered, shared, local, ghost
  <2>4. CASE Restart
    BY <2>4 DEF Restart, OpeningTimed, WaterCovered
  <2>5. CASE UNCHANGED vars
    BY <2>5 DEF vars, IInv, OpeningTimed, WaterCovered, shared, local, ghost
  <2>6. QED
    BY <2>1, <2>2, <2>3, <2>4, <2>5, CloseStepInv, WsStepInv, TickInv DEF Next
<1>3. QED
  BY <1>1, <1>2, TypeCorrect, PTL DEF Spec, IInv

\* "The close is already scheduled before the water starts": an open pin is
\* unscheduled only after a closing task stopped the timer of an opening
\* that had not driven the pin yet.
THEOREM OpeningIsScheduled == Spec => []CloseScheduled
<1>1. IInv => CloseScheduled
  BY DEF IInv, WaterCovered, CloseScheduled, Scheduled
<1>2. QED
  BY <1>1, Inductive, PTL

\* No burst outlives the clamp it was accepted under.
THEOREM BurstIsBounded == Spec => []BurstBounded
<1>1. IInv => BurstBounded
  BY DEF IInv, TypeOK, WaterCovered, BurstBounded
<1>2. QED
  BY <1>1, Inductive, PTL

(***************************************************************************)
(* The WebSocket task alone.                                               *)
(***************************************************************************)

LEMMA AloneStep ==
    ASSUME Tasks = {"ws"}, TypeOK, AloneInv, [Next]_vars
    PROVE  AloneInv'
<1> USE DEF AloneInv, TypeOK, Goto, Start, DisarmedIsShut, EstopDisarms
<1>1. CASE Begins
  <2>1. WsClose
    BY <1>1 DEF Begins, StatusFailsafe, SafetyPress, SafetyRelease
  <2>2. QED
    BY <2>1 DEF WsClose, Begin, shared, ghost
<1>2. ASSUME NEW t \in Tasks, CloseStep(t) PROVE AloneInv'
  <2>0. t = "ws"
    OBVIOUS
  <2>1. CASE CloseStop(t)
    BY <2>0, <2>1 DEF CloseStop
  <2>2. CASE ClosePin(t)
    BY <2>0, <2>2 DEF ClosePin, ghost
  <2>3. CASE CloseFlag(t)
    BY <2>0, <2>3 DEF CloseFlag, AfterClose, ghost
  <2>4. CASE Disarm(t)
    BY <2>0, <2>4 DEF Disarm, AfterDisarm, ghost
  <2>5. CASE Latch(t)
    BY <2>0, <2>5 DEF Latch, ghost
  <2>6. CASE Clear(t)
    BY <2>0, <2>6 DEF Clear, ghost
  <2>7. QED
    BY <1>2, <2>1, <2>2, <2>3, <2>4, <2>5, <2>6 DEF CloseStep
<1>3. CASE WsStep
  BY <1>3 DEF WsStep, ArmCheck, ArmSet, SprayCheck, OpenStop, OpenStart, OpenPin,
              OpenFlag, SetMaxOpen, shared, local, ghost
<1>4. CASE Timer
  BY <1>4 DEF Timer, TimerPin, TimerFlag, local, ghost
<1>5. CASE Tick
  BY <1>5 DEF Tick
<1>6. CASE Press
  BY <1>6 DEF Press, shared, local, ghost
<1>7. CASE Restart
  BY <1>7 DEF Restart
<1>8. CASE UNCHANGED vars
  BY <1>8 DEF vars, shared, local, ghost
<1>9. QED
  BY <1>1, <1>2, <1>3, <1>4, <1>5, <1>6, <1>7, <1>8 DEF Next

\* Alone, the WebSocket task keeps every promise of valve.h: no opening is
\* raced, a disarmed valve is shut and the emergency stop disarms.
THEOREM AloneIsSafe ==
    ASSUME Tasks = {"ws"}
    PROVE  Spec => []AloneInv
<1>1. Init => AloneInv
  BY DEF Init, AloneInv, DisarmedIsShut, EstopDisarms
<1>2. TypeOK /\ AloneInv /\ [Next]_vars => AloneInv'
  BY AloneStep
<1>3. QED
  BY <1>1, <1>2, TypeCorrect, PTL DEF Spec

\* And the close of an open valve is always scheduled.
THEOREM AloneIsScheduled ==
    ASSUME Tasks = {"ws"}
    PROVE  Spec => []AlwaysScheduled
<1>1. AloneInv /\ CloseScheduled => AlwaysScheduled
  BY DEF AloneInv, CloseScheduled, AlwaysScheduled
<1>2. QED
  BY <1>1, AloneIsSafe, OpeningIsScheduled, PTL
=============================================================================
