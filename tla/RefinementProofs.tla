-------------------------- MODULE RefinementProofs --------------------------
(***************************************************************************)
(* The programs that implement an abstract specification.                  *)
(*                                                                         *)
(* The settings, for any requests, values and patches: the store           *)
(* implements AtomicStore, memory is the table, and the components end on  *)
(* what is stored.                                                         *)
(*                                                                         *)
(* Both simulated controllers implement TurretContract: the one in the     *)
(* server for every set of axes, limit, speed, duration and delay, the     *)
(* stand-alone one over sessions that break, close and come back, for all  *)
(* limits, speeds and durations, which also ends every burst in time.      *)
(***************************************************************************)
EXTENDS Settings, Integers, Sequences, WellFoundedInduction, NaturalsInduction, TLAPS

\* Who has to wait for the store's lock is in its queue, and who writes is at
\* its head, with the settings it merged still in memory.
LockInv ==
    /\ \A r \in Requests : pc[r] = "lock" => \E i \in 1..Len(lock) : lock[i] = r
    /\ \A r \in Requests : pc[r] = "write" => lock # <<>> /\ lock[1] = r /\ base[r] = settings

\* The last in the cameras' queue has been given what is stored.
CamLockInv ==
    /\ \A i \in 1..Len(camLock) : pc[camLock[i]] = "cameras"
    /\ \A i, j \in 1..Len(camLock) : camLock[i] = camLock[j] => i = j
    /\ camLock = <<>> => runs.cameras = settings.cameras
    /\ camLock # <<>> => given[camLock[Len(camLock)]].cameras = settings.cameras

Waits(r) == pc[r] \in {"cameras", "disarm"}

\* A listener that waits has still to hand on this section.
Owes(r, section) ==
    section \in Changed(r) /\ (pc[r] = "cameras" \/ (pc[r] = "disarm" /\ section = "controller"))

\* Unless one was overtaken a single listener waits, with what is stored, and
\* what it does not owe is handed on.
PassedInv == ~passed =>
    /\ \A q, r \in Requests : Waits(q) /\ Waits(r) => q = r
    /\ \A r \in Requests : Waits(r) => given[r] = settings
    /\ \A r \in Requests : pc[r] = "cameras" => "cameras" \in Changed(r)
    /\ (\A r \in Requests : pc[r] # "cameras") =>
          runs.cameras = settings.cameras /\ runs.vision = VisionOf(settings)
    /\ (\A r \in Requests : ~Owes(r, "spray")) => runs.spray = settings.spray
    /\ (\A r \in Requests : ~Owes(r, "controller")) => runs.turret = settings.controller

IInv == TypeOK /\ MemoryIsStored /\ LockInv /\ CamLockInv /\ PassedInv

----------------------------------------------------------------------------
(* Values.                                                                 *)

LEMMA StoredType ==
  ASSUME NEW table \in [Sections -> Values \cup {Bad}]
  PROVE  Stored(table) \in [Sections -> Values]
BY SettingsAssumption DEF Stored

LEMMA StartedType ==
  ASSUME NEW value \in [Sections -> Values]
  PROVE  Started(value) \in Running
BY DEF Started, Running, VisionOf, Vision, Sections

\* A patch gives some of the sections a value.
LEMMA PatchType ==
  ASSUME TypeOK, NEW r \in Requests
  PROVE  DOMAIN patch[r] \subseteq Sections /\ \A s \in DOMAIN patch[r] : patch[r][s] \in Values
<1>1. PICK S \in Patchable : patch[r] \in [S -> Values]
  BY DEF TypeOK, Patches
<1> QED
  BY <1>1, SettingsAssumption

\* What a request stores differs from what it found in what it changed only.
LEMMA MergedValue ==
  ASSUME TypeOK, NEW r \in Requests
  PROVE  /\ Merged(r) \in [Sections -> Values]
         /\ \A s \in Sections \ Changed(r) : Merged(r)[s] = base[r][s]
         /\ \A s \in Changed(r) : s \in DOMAIN patch[r] /\ Merged(r)[s] = patch[r][s]
<1>1. base[r] \in [Sections -> Values]
  BY DEF TypeOK
<1> QED
  BY <1>1, PatchType DEF Merged, Changed

\* The pipeline's settings are as they were if its sections are.
LEMMA SameVision ==
  ASSUME NEW a, NEW b, \A s \in Vision : a[s] = b[s]
  PROVE  VisionOf(a) = VisionOf(b)
BY DEF VisionOf

----------------------------------------------------------------------------
(* The table.                                                              *)

\* A commit makes of the table what the request made of the settings.
LEMMA Committed ==
  ASSUME TypeOK, MemoryIsStored, NEW r \in Requests, base[r] = settings, Commit(r)
  PROVE  db' \in [Sections -> Values \cup {Bad}] /\ Stored(db') = Merged(r)
<1>1. db' \in [Sections -> Values \cup {Bad}]
  BY MergedValue, PatchType DEF Commit, TypeOK
<1>2. ASSUME NEW s \in Sections PROVE Stored(db')[s] = Merged(r)[s]
  <2>1. CASE s \in Changed(r)
    BY <2>1, MergedValue, PatchType, SettingsAssumption DEF Commit, Stored
  <2>2. CASE s \notin Changed(r)
    BY <2>2, MergedValue DEF Commit, Stored, MemoryIsStored
  <2> QED
    BY <2>1, <2>2
<1> QED
  BY <1>1, <1>2, MergedValue DEF Stored, Merged

\* What one call of the listener hands on.
Handed(r, g, ch, now) ==
    /\ runs' \in Running
    /\ runs'.cameras = now.cameras
    /\ runs'.vision = IF ch \cap Vision # {} THEN VisionOf(g) ELSE now.vision
    /\ runs'.spray = IF "spray" \in ch THEN g.spray ELSE now.spray
    /\ \/ /\ pc' = [pc EXCEPT ![r] = "disarm"]
          /\ runs'.turret = now.turret
       \/ /\ pc' = [pc EXCEPT ![r] = "done"]
          /\ runs'.turret = IF "controller" \in ch THEN g.controller ELSE now.turret

LEMMA Listened ==
  ASSUME NEW r \in Requests, NEW g \in [Sections -> Values], NEW ch, NEW now \in Running,
         AfterCameras(r, g, ch, now)
  PROVE  Handed(r, g, ch, now)
<1> DEFINE seen == VisionPart(g, ch, now)
           next == SprayPart(g, ch, seen)
<1>1. VisionOf(g) \in [Vision -> Values] /\ g.spray \in Values /\ g.controller \in Values
  BY DEF VisionOf, Vision, Sections
<1>2. /\ seen \in Running /\ seen.cameras = now.cameras /\ seen.spray = now.spray
      /\ seen.turret = now.turret
      /\ seen.vision = IF ch \cap Vision # {} THEN VisionOf(g) ELSE now.vision
  BY <1>1 DEF VisionPart, Running
<1>3. /\ next \in Running /\ next.cameras = now.cameras /\ next.turret = now.turret
      /\ next.vision = seen.vision
      /\ next.spray = IF "spray" \in ch THEN g.spray ELSE now.spray
  <2> HIDE DEF seen
  <2> QED
    BY <1>1, <1>2 DEF SprayPart, Running
<1>4. CASE runs' = next /\ Goto(r, "disarm")
  <2> HIDE DEF next, seen
  <2> QED
    BY <1>2, <1>3, <1>4 DEF Handed, Goto
<1>5. CASE TurretPart(r, g, ch, next)
  <2> HIDE DEF next, seen
  <2>1. runs' = IF "controller" \in ch THEN [next EXCEPT !.turret = g.controller] ELSE next
    BY <1>5 DEF TurretPart
  <2>2. /\ runs' \in Running /\ runs'.cameras = next.cameras /\ runs'.vision = next.vision
        /\ runs'.spray = next.spray
        /\ runs'.turret = IF "controller" \in ch THEN g.controller ELSE next.turret
    BY <1>1, <1>3, <2>1 DEF Running
  <2> QED
    BY <1>2, <1>3, <1>5, <2>2 DEF Handed, TurretPart, Goto
<1> QED
  BY <1>4, <1>5 DEF AfterCameras

----------------------------------------------------------------------------
(* One step.                                                               *)

LEMMA InitInv ==
  ASSUME Init
  PROVE  IInv
<1>1. db \in [Sections -> Values \cup {Bad}]
  BY SettingsAssumption DEF Init
<1>2. settings \in [Sections -> Values] /\ runs = Started(settings) /\ runs \in Running
  BY <1>1, StoredType, StartedType DEF Init
<1>3. TypeOK
  <2>1. base \in [Requests -> [Sections -> Values]] /\ given = base
    BY <1>1, StoredType DEF Init
  <2>2. pc \in [Requests -> {"idle", "lock", "write", "cameras", "disarm", "done"}]
    BY DEF Init
  <2>3. lock \in Seq(Requests) /\ camLock \in Seq(Requests)
    BY DEF Init
  <2> QED
    BY <1>1, <1>2, <2>1, <2>2, <2>3 DEF Init, TypeOK
<1>4. runs.cameras = settings.cameras /\ runs.vision = VisionOf(settings)
      /\ runs.spray = settings.spray /\ runs.turret = settings.controller
  BY <1>2 DEF Started
<1>5. LockInv /\ CamLockInv
  BY <1>4 DEF Init, LockInv, CamLockInv
<1>6. PassedInv
  BY <1>4 DEF Init, PassedInv, Waits
<1> QED
  BY <1>3, <1>5, <1>6 DEF IInv, MemoryIsStored, Init

\* What a request changed stays what it was.
LEMMA ChangedStays ==
  ASSUME UNCHANGED patch, NEW r \in Requests, base'[r] = base[r]
  PROVE  Changed(r)' = Changed(r)
BY DEF Changed

\* A step before the listener leaves those who are in it alone.
LEMMA ListenersStay ==
  ASSUME IInv, NEW r \in Requests, pc[r] \notin {"cameras", "disarm"},
         NEW stage \in {"lock", "write", "done"}, Goto(r, stage),
         \A q \in Requests \ {r} : base'[q] = base[q],
         UNCHANGED <<settings, patch, given, camLock, runs, passed>>
  PROVE  CamLockInv' /\ PassedInv'
<1>1. pc' = [pc EXCEPT ![r] = stage]
  BY DEF Goto
<1>2. CamLockInv'
  BY <1>1 DEF IInv, TypeOK, CamLockInv
<1>3. \A q \in Requests : (pc'[q] \in {"cameras", "disarm"} \/ pc[q] \in {"cameras", "disarm"})
                            => q # r /\ pc'[q] = pc[q] /\ base'[q] = base[q]
  BY <1>1 DEF IInv, TypeOK
<1>4. \A q \in Requests : (Waits(q)' <=> Waits(q)) /\ (pc'[q] = "cameras" <=> pc[q] = "cameras")
  BY <1>3 DEF Waits
<1>5. \A q \in Requests : Waits(q) => Changed(q)' = Changed(q)
  BY <1>3, ChangedStays DEF Waits
<1>6. \A q \in Requests : /\ Owes(q, "spray")' <=> Owes(q, "spray")
                          /\ Owes(q, "controller")' <=> Owes(q, "controller")
  BY <1>3, <1>4, <1>5 DEF Owes, Waits
<1>7. PassedInv'
  BY <1>4, <1>5, <1>6 DEF PassedInv, IInv, VisionOf, Waits
<1> QED
  BY <1>2, <1>7

LEMMA CallInv ==
  ASSUME IInv, NEW r \in Requests, Call(r)
  PROVE  IInv'
<1>1. TypeOK'
  BY DEF Call, Goto, IInv, TypeOK
<1>2. MemoryIsStored'
  BY DEF Call, IInv, MemoryIsStored, Stored
<1>3. LockInv'
  <2>1. lock \in Seq(Requests) /\ lock' = Append(lock, r)
    BY DEF Call, IInv, TypeOK
  <2>2. pc' = [pc EXCEPT ![r] = "lock"] /\ base' = [base EXCEPT ![r] = settings]
    BY DEF Call, Goto
  <2>3. UNCHANGED settings
    BY DEF Call
  <2>4. ASSUME NEW q \in Requests, pc'[q] = "lock"
        PROVE  \E i \in 1..Len(lock') : lock'[i] = q
    <3>1. CASE q = r
      <4>1. Len(lock') \in 1..Len(lock') /\ lock'[Len(lock')] = r
        BY <2>1
      <4> QED
        BY <3>1, <4>1
    <3>2. CASE q # r
      <4>1. pc[q] = "lock"
        BY <2>2, <2>4, <3>2 DEF IInv, TypeOK
      <4>2. PICK i \in 1..Len(lock) : lock[i] = q
        BY <4>1 DEF IInv, LockInv
      <4>3. i \in 1..Len(lock') /\ lock'[i] = q
        BY <2>1, <4>2
      <4> QED
        BY <4>3
    <3> QED
      BY <3>1, <3>2
  <2>5. ASSUME NEW q \in Requests, pc'[q] = "write"
        PROVE  lock' # <<>> /\ lock'[1] = q /\ base'[q] = settings'
    <3>1. q # r /\ pc[q] = "write"
      BY <2>2, <2>5 DEF IInv, TypeOK
    <3>2. lock # <<>> /\ lock[1] = q /\ base[q] = settings
      BY <3>1 DEF IInv, LockInv
    <3> QED
      BY <2>1, <2>2, <2>3, <3>1, <3>2
  <2> QED
    BY <2>4, <2>5 DEF LockInv
<1>4. CamLockInv' /\ PassedInv'
  BY ListenersStay DEF Call
<1> QED
  BY <1>1, <1>2, <1>3, <1>4 DEF IInv

\* Who leaves the store's lock leaves it to the next one.
LEMMA LockLeft ==
  ASSUME IInv, NEW r \in Requests, lock # <<>>, lock[1] = r, lock' = Tail(lock),
         pc'[r] \notin {"lock", "write"}, \A q \in Requests \ {r} : pc'[q] = pc[q]
  PROVE  LockInv'
<1>1. lock \in Seq(Requests)
  BY DEF IInv, TypeOK
<1>2. ASSUME NEW q \in Requests, pc'[q] = "lock"
      PROVE  \E i \in 1..Len(lock') : lock'[i] = q
  <2>1. q # r /\ pc[q] = "lock"
    BY <1>2
  <2>2. PICK i \in 1..Len(lock) : lock[i] = q
    BY <2>1 DEF IInv, LockInv
  <2>3. i - 1 \in 1..Len(lock') /\ lock'[i - 1] = q
    BY <1>1, <2>1, <2>2
  <2> QED
    BY <2>3
<1>3. ASSUME NEW q \in Requests, pc'[q] = "write" PROVE FALSE
  BY <1>3 DEF IInv, LockInv
<1> QED
  BY <1>2, <1>3 DEF LockInv

\* Rejected, or nothing changes, or the write fails.
LEMMA DroppedInv ==
  ASSUME IInv, NEW r \in Requests, lock # <<>>, lock[1] = r, lock' = Tail(lock),
         pc[r] \in {"lock", "write"}, Goto(r, "done"),
         base' \in [Requests -> [Sections -> Values]], \A q \in Requests \ {r} : base'[q] = base[q],
         UNCHANGED <<db, settings, patch, given, camLock, runs, passed>>
  PROVE  IInv'
<1>1. TypeOK'
  <2>1. lock' \in Seq(Requests)
    BY DEF IInv, TypeOK
  <2>2. pc' \in [Requests -> {"idle", "lock", "write", "cameras", "disarm", "done"}]
    BY DEF Goto, IInv, TypeOK
  <2> QED
    BY <2>1, <2>2 DEF IInv, TypeOK
<1>2. MemoryIsStored'
  BY DEF IInv, MemoryIsStored, Stored
<1>3. LockInv'
  BY LockLeft DEF Goto, IInv, TypeOK
<1>4. CamLockInv' /\ PassedInv'
  BY ListenersStay
<1> QED
  BY <1>1, <1>2, <1>3, <1>4 DEF IInv

LEMMA MergeInv ==
  ASSUME IInv, NEW r \in Requests, Merge(r)
  PROVE  IInv'
<1>1. lock \in Seq(Requests) /\ lock # <<>> /\ lock[1] = r /\ pc[r] = "lock"
  BY DEF Merge, IInv, TypeOK, LockInv
<1>2. base' = [base EXCEPT ![r] = settings] /\ base' \in [Requests -> [Sections -> Values]]
  BY DEF Merge, MergedInto, IInv, TypeOK
<1>3. UNCHANGED <<db, settings, patch, given, camLock, runs, passed>>
  BY DEF Merge
<1>4. CASE Goto(r, "done") /\ lock' = Tail(lock)
  BY <1>1, <1>2, <1>3, <1>4, DroppedInv DEF IInv, TypeOK
<1>5. CASE Goto(r, "write") /\ UNCHANGED lock
  <2>1. TypeOK'
    BY <1>2, <1>3, <1>5 DEF Goto, IInv, TypeOK
  <2>2. MemoryIsStored'
    BY <1>3 DEF IInv, MemoryIsStored, Stored
  <2>3. LockInv'
    <3>1. \A q \in Requests : q # r => pc'[q] = pc[q] /\ pc[q] # "write"
      BY <1>1, <1>5 DEF Goto, IInv, TypeOK, LockInv
    <3>2. pc'[r] = "write" /\ base'[r] = settings'
      BY <1>2, <1>3, <1>5 DEF Goto, IInv, TypeOK
    <3> QED
      BY <1>1, <1>5, <3>1, <3>2 DEF IInv, LockInv
  <2>4. CamLockInv' /\ PassedInv'
    BY <1>1, <1>2, <1>3, <1>5, ListenersStay DEF IInv, TypeOK
  <2> QED
    BY <2>1, <2>2, <2>3, <2>4 DEF IInv
<1> QED
  BY <1>4, <1>5 DEF Merge

\* The request has been stored and its listener begins.
LEMMA WrittenInv ==
  ASSUME IInv, NEW r \in Requests, pc[r] = "write", lock' = Tail(lock), Commit(r),
         settings' = Merged(r), given' = [given EXCEPT ![r] = settings'],
         Listen(r, settings', Changed(r)), UNCHANGED <<patch, base>>
  PROVE  IInv'
<1>1. lock \in Seq(Requests) /\ lock # <<>> /\ lock[1] = r /\ base[r] = settings
  BY DEF IInv, TypeOK, LockInv
<1>2. /\ settings' \in [Sections -> Values]
      /\ \A s \in Sections \ Changed(r) : settings'[s] = settings[s]
  BY <1>1, MergedValue DEF IInv
<1>3. db' \in [Sections -> Values \cup {Bad}] /\ MemoryIsStored'
  BY <1>1, Committed DEF IInv, MemoryIsStored
<1>4. \A q \in Requests : Changed(q)' = Changed(q)
  BY ChangedStays
<1>5. CASE "cameras" \in Changed(r)
  <2>1. /\ camLock \in Seq(Requests) /\ camLock' = Append(camLock, r)
        /\ pc' = [pc EXCEPT ![r] = "cameras"]
        /\ UNCHANGED runs
    BY <1>5 DEF Listen, Goto, IInv, TypeOK
  <2>2. TypeOK'
    <3>1. lock' \in Seq(Requests) /\ camLock' \in Seq(Requests)
      BY <1>1, <2>1
    <3>2. pc' \in [Requests -> {"idle", "lock", "write", "cameras", "disarm", "done"}]
      BY <2>1 DEF IInv, TypeOK
    <3>3. given' \in [Requests -> [Sections -> Values]] /\ passed' \in BOOLEAN
      BY <1>2 DEF IInv, TypeOK, Listen
    <3> QED
      BY <1>2, <1>3, <2>1, <3>1, <3>2, <3>3 DEF IInv, TypeOK
  <2>3. LockInv'
    BY <1>1, <2>1, LockLeft DEF IInv, TypeOK
  <2>4. CamLockInv'
    <3>1. \A i \in 1..Len(camLock) : camLock[i] # r
      BY DEF IInv, CamLockInv
    <3>2. Len(camLock') = Len(camLock) + 1 /\ camLock'[Len(camLock')] = r /\ camLock' # <<>>
      BY <2>1
    <3>3. \A i \in 1..Len(camLock) : camLock'[i] = camLock[i]
      BY <2>1
    <3>4. given'[r] = settings' /\ pc'[r] = "cameras" /\ \A q \in Requests : q # r => pc'[q] = pc[q]
      BY <2>1 DEF IInv, TypeOK
    <3>5. \A i \in 1..Len(camLock') : i \in 1..Len(camLock) \/ i = Len(camLock')
      BY <2>1, <3>2
    <3>6. \A i \in 1..Len(camLock') : pc'[camLock'[i]] = "cameras"
      BY <2>1, <3>1, <3>2, <3>3, <3>4, <3>5 DEF IInv, CamLockInv
    <3>7. \A i, j \in 1..Len(camLock') : camLock'[i] = camLock'[j] => i = j
      BY <2>1, <3>1, <3>2, <3>3, <3>5 DEF IInv, CamLockInv
    <3> QED
      BY <3>2, <3>4, <3>6, <3>7 DEF CamLockInv
  <2>5. PassedInv'
    <3> SUFFICES ASSUME ~passed' PROVE PassedInv'
      BY DEF PassedInv
    <3>1. ~passed /\ \A q \in Requests : ~Waits(q)
      BY DEF Listen, Overtaken, Waits
    <3>2. \A q \in Requests : Waits(q)' => q = r
      BY <2>1, <3>1 DEF Waits, IInv, TypeOK
    <3>3. \A q \in Requests : ~Owes(q, "spray") /\ ~Owes(q, "controller") /\ pc[q] # "cameras"
      BY <3>1 DEF Owes, Waits
    <3>4. runs.spray = settings.spray /\ runs.turret = settings.controller
      BY <3>1, <3>3 DEF IInv, PassedInv
    <3>5. pc'[r] = "cameras" /\ given'[r] = settings' /\ "cameras" \in Changed(r)'
      BY <1>4, <1>5, <2>1 DEF IInv, TypeOK
    <3>6. "spray" \in Changed(r)' \/ settings'.spray = settings.spray
      BY <1>2, <1>4 DEF Sections
    <3>7. "controller" \in Changed(r)' \/ settings'.controller = settings.controller
      BY <1>2, <1>4 DEF Sections
    <3>8. /\ (\A q \in Requests : ~Owes(q, "spray")') => runs'.spray = settings'.spray
          /\ (\A q \in Requests : ~Owes(q, "controller")') => runs'.turret = settings'.controller
      BY <2>1, <3>4, <3>5, <3>6, <3>7 DEF Owes
    <3>9. \A q \in Requests : pc'[q] = "cameras" => q = r
      BY <3>2 DEF Waits
    <3> QED
      BY <3>2, <3>5, <3>8, <3>9 DEF PassedInv
  <2> QED
    BY <1>3, <2>2, <2>3, <2>4, <2>5 DEF IInv
<1>6. CASE "cameras" \notin Changed(r)
  <2>1. UNCHANGED camLock /\ Handed(r, settings', Changed(r), runs)
    <3>1. AfterCameras(r, settings', Changed(r), runs) /\ UNCHANGED camLock
      BY <1>6 DEF Listen
    <3>2. runs \in Running
      BY DEF IInv, TypeOK
    <3> QED
      BY <1>2, <3>1, <3>2, Listened
  <2>2. pc' = [pc EXCEPT ![r] = "disarm"] \/ pc' = [pc EXCEPT ![r] = "done"]
    BY <2>1 DEF Handed
  <2>3. TypeOK'
    <3>1. lock' \in Seq(Requests) /\ camLock' \in Seq(Requests)
      BY <1>1, <2>1 DEF IInv, TypeOK
    <3>2. pc' \in [Requests -> {"idle", "lock", "write", "cameras", "disarm", "done"}]
      BY <2>2 DEF IInv, TypeOK
    <3>3. given' \in [Requests -> [Sections -> Values]] /\ passed' \in BOOLEAN
      BY <1>2 DEF IInv, TypeOK, Listen
    <3>4. runs' \in Running
      BY <2>1 DEF Handed
    <3> QED
      BY <1>2, <1>3, <3>1, <3>2, <3>3, <3>4 DEF IInv, TypeOK
  <2>4. LockInv'
    BY <1>1, <2>2, LockLeft DEF IInv, TypeOK
  <2>5. CamLockInv'
    <3>1. settings'.cameras = settings.cameras /\ runs'.cameras = runs.cameras
      BY <1>2, <1>6, <2>1 DEF Sections, Handed
    <3>2. \A i \in 1..Len(camLock) : camLock[i] \in Requests /\ camLock[i] # r
      BY DEF IInv, TypeOK, CamLockInv
    <3>3. \A q \in Requests : q # r => pc'[q] = pc[q] /\ given'[q] = given[q]
      BY <2>2 DEF IInv, TypeOK
    <3>4. camLock # <<>> => Len(camLock) \in 1..Len(camLock)
      BY DEF IInv, TypeOK
    <3> QED
      BY <2>1, <3>1, <3>2, <3>3, <3>4 DEF IInv, CamLockInv
  <2>6. PassedInv'
    <3> SUFFICES ASSUME ~passed' PROVE PassedInv'
      BY DEF PassedInv
    <3>1. ~passed /\ \A q \in Requests : ~Waits(q)
      BY DEF Listen, Overtaken, Waits
    <3>2. \A q \in Requests : pc'[q] # "cameras" /\ (Waits(q)' => q = r)
      BY <2>2, <3>1 DEF Waits, IInv, TypeOK
    <3>3. \A q \in Requests : ~Owes(q, "spray") /\ ~Owes(q, "controller") /\ pc[q] # "cameras"
      BY <3>1 DEF Owes, Waits
    <3>4. /\ runs.spray = settings.spray /\ runs.turret = settings.controller
          /\ runs.cameras = settings.cameras /\ runs.vision = VisionOf(settings)
      BY <3>1, <3>3 DEF IInv, PassedInv
    <3>5. given'[r] = settings'
      BY DEF IInv, TypeOK
    <3>6. runs'.cameras = settings'.cameras
      BY <1>2, <1>6, <2>1, <3>4 DEF Sections, Handed
    <3>7. runs'.vision = VisionOf(settings')
      <4>1. CASE Changed(r) \cap Vision # {}
        BY <2>1, <4>1 DEF Handed
      <4>2. CASE Changed(r) \cap Vision = {}
        <5>1. \A s \in Vision : settings'[s] = settings[s]
          BY <1>2, <4>2 DEF Sections, Vision
        <5>2. VisionOf(settings') = VisionOf(settings)
          BY <5>1, SameVision
        <5> QED
          BY <2>1, <3>4, <4>2, <5>2 DEF Handed
      <4> QED
        BY <4>1, <4>2
    <3>8. runs'.spray = settings'.spray
      BY <1>2, <2>1, <3>4 DEF Sections, Handed
    <3>9. (\A q \in Requests : ~Owes(q, "controller")') => runs'.turret = settings'.controller
      <4>1. "controller" \in Changed(r) \/ settings'.controller = settings.controller
        BY <1>2 DEF Sections
      <4>2. CASE pc' = [pc EXCEPT ![r] = "disarm"] /\ runs'.turret = runs.turret
        <5>1. pc'[r] = "disarm"
          BY <4>2 DEF IInv, TypeOK
        <5> QED
          BY <1>4, <3>4, <4>1, <4>2, <5>1 DEF Owes
      <4>3. CASE runs'.turret = IF "controller" \in Changed(r) THEN settings'.controller ELSE runs.turret
        BY <3>4, <4>1, <4>3
      <4> QED
        BY <2>1, <4>2, <4>3 DEF Handed
    <3> QED
      BY <3>2, <3>5, <3>6, <3>7, <3>8, <3>9 DEF PassedInv
  <2> QED
    BY <1>3, <2>3, <2>4, <2>5, <2>6 DEF IInv
<1> QED
  BY <1>5, <1>6

LEMMA WriteInv ==
  ASSUME IInv, NEW r \in Requests, Write(r)
  PROVE  IInv'
<1>1. lock # <<>> /\ lock[1] = r
  BY DEF Write, IInv, LockInv
<1>2. CASE Goto(r, "done") /\ UNCHANGED <<db, settings, given, camLock, runs, passed>>
  BY <1>1, <1>2, DroppedInv DEF Write, IInv, TypeOK
<1>3. CASE /\ Commit(r) /\ settings' = Merged(r) /\ given' = [given EXCEPT ![r] = settings']
           /\ Listen(r, settings', Changed(r))
  BY <1>3, WrittenInv DEF Write
<1> QED
  BY <1>2, <1>3 DEF Write

\* The listener at the head of the cameras' queue goes on.
LEMMA CamerasAppliedInv ==
  ASSUME IInv, NEW r \in Requests, CamerasApplied(r)
  PROVE  IInv'
<1> DEFINE now == [runs EXCEPT !.cameras = given[r].cameras]
<1>1. /\ camLock \in Seq(Requests) /\ camLock # <<>> /\ camLock[1] = r
      /\ camLock' = Tail(camLock) /\ pc[r] = "cameras"
  BY DEF CamerasApplied, CamerasTurn, IInv, TypeOK
<1>2. UNCHANGED <<db, settings, patch, base, given, lock, passed>>
  BY DEF CamerasApplied
<1>3. /\ now \in Running /\ now.cameras = given[r].cameras /\ now.spray = runs.spray
      /\ now.turret = runs.turret
  <2>1. runs \in Running /\ given[r].cameras \in Values
    BY DEF IInv, TypeOK, Sections
  <2> QED
    BY <2>1 DEF Running
<1>4. Handed(r, given[r], Changed(r), now)
  <2>1. AfterCameras(r, given[r], Changed(r), now)
    BY DEF CamerasApplied
  <2>2. given[r] \in [Sections -> Values]
    BY DEF IInv, TypeOK
  <2> HIDE DEF now
  <2> QED
    BY <1>3, <2>1, <2>2, Listened
<1> HIDE DEF now
<1>5. pc' = [pc EXCEPT ![r] = "disarm"] \/ pc' = [pc EXCEPT ![r] = "done"]
  BY <1>4 DEF Handed
<1>6. \A q \in Requests : q # r => pc'[q] = pc[q]
  BY <1>5 DEF IInv, TypeOK
<1>7. TypeOK'
  <2>1. camLock' \in Seq(Requests) /\ runs' \in Running
    BY <1>1, <1>4 DEF Handed
  <2>2. pc' \in [Requests -> {"idle", "lock", "write", "cameras", "disarm", "done"}]
    BY <1>5 DEF IInv, TypeOK
  <2> QED
    BY <1>2, <2>1, <2>2 DEF IInv, TypeOK
<1>8. MemoryIsStored'
  BY <1>2 DEF IInv, MemoryIsStored, Stored
<1>9. LockInv'
  <2>1. \A q \in Requests : pc'[q] \in {"lock", "write"} => pc[q] = pc'[q]
    BY <1>5 DEF IInv, TypeOK
  <2> QED
    BY <1>2, <2>1 DEF IInv, LockInv
<1>10. CamLockInv'
  <2>1. Len(camLock') = Len(camLock) - 1 /\ \A i \in 1..Len(camLock') :
          i \in 1..Len(camLock) /\ i + 1 \in 1..Len(camLock) /\ camLock'[i] = camLock[i + 1]
    BY <1>1
  <2>2. \A i \in 1..Len(camLock') : camLock'[i] \in Requests \ {r}
    <3> TAKE i \in 1..Len(camLock')
    <3>1. camLock[i + 1] \in Requests
      BY <1>1, <2>1
    <3>2. camLock[i + 1] # camLock[1]
      BY <1>1, <2>1 DEF IInv, CamLockInv
    <3> QED
      BY <1>1, <2>1, <3>1, <3>2
  <2>3. \A i \in 1..Len(camLock') : pc'[camLock'[i]] = "cameras"
    <3> TAKE i \in 1..Len(camLock')
    <3>1. camLock'[i] \in Requests \ {r}
      BY <2>2
    <3>2. i + 1 \in 1..Len(camLock) /\ camLock'[i] = camLock[i + 1]
      BY <2>1
    <3>3. pc[camLock[i + 1]] = "cameras"
      BY <3>2 DEF IInv, CamLockInv
    <3> QED
      BY <1>6, <3>1, <3>2, <3>3
  <2>4. \A i, j \in 1..Len(camLock') : camLock'[i] = camLock'[j] => i = j
    <3> SUFFICES ASSUME NEW i \in 1..Len(camLock'), NEW j \in 1..Len(camLock'),
                        camLock'[i] = camLock'[j]
                 PROVE  i = j
      OBVIOUS
    <3>1. i + 1 = j + 1
      BY <2>1 DEF IInv, CamLockInv
    <3> QED
      BY <3>1
  <2>5. camLock' = <<>> => runs'.cameras = settings'.cameras
    <3> SUFFICES ASSUME camLock' = <<>> PROVE runs'.cameras = settings'.cameras
      OBVIOUS
    <3>1. Len(camLock) = 1
      BY <1>1, <2>1
    <3>2. given[r].cameras = settings.cameras
      BY <1>1, <3>1 DEF IInv, CamLockInv
    <3> QED
      BY <1>2, <1>3, <1>4, <3>2 DEF Handed
  <2>6. camLock' # <<>> => given'[camLock'[Len(camLock')]].cameras = settings'.cameras
    <3> SUFFICES ASSUME camLock' # <<>>
                 PROVE  given'[camLock'[Len(camLock')]].cameras = settings'.cameras
      OBVIOUS
    <3>1. Len(camLock') \in 1..Len(camLock')
      BY <1>1
    <3>2. camLock'[Len(camLock')] = camLock[Len(camLock)]
      BY <1>1, <2>1, <3>1
    <3> QED
      BY <1>1, <1>2, <3>2 DEF IInv, CamLockInv
  <2> QED
    BY <2>3, <2>4, <2>5, <2>6 DEF CamLockInv
<1>11. PassedInv'
  <2> SUFFICES ASSUME ~passed' PROVE PassedInv'
    BY DEF PassedInv
  <2>1. ~passed /\ Waits(r)
    BY <1>1, <1>2 DEF Waits
  <2>2. /\ \A q \in Requests : Waits(q) => q = r
        /\ given[r] = settings /\ "cameras" \in Changed(r)
    BY <1>1, <2>1 DEF IInv, PassedInv
  <2>3. \A q \in Requests : pc'[q] # "cameras" /\ (Waits(q)' => q = r)
    BY <1>5, <1>6, <2>2 DEF Waits, IInv, TypeOK
  <2>4. Changed(r)' = Changed(r)
    BY <1>2, ChangedStays
  <2>5. runs'.cameras = settings'.cameras
    BY <1>2, <1>3, <1>4, <2>2 DEF Handed
  <2>6. runs'.vision = VisionOf(settings')
    BY <1>2, <1>4, <2>2 DEF Handed, Vision
  <2>7. runs'.spray = settings'.spray
    <3>1. CASE "spray" \in Changed(r)
      BY <1>2, <1>4, <2>2, <3>1 DEF Handed
    <3>2. CASE "spray" \notin Changed(r)
      <4>1. \A q \in Requests : ~Owes(q, "spray")
        BY <2>2, <3>2 DEF Owes, Waits
      <4> QED
        BY <1>2, <1>3, <1>4, <2>1, <3>2, <4>1 DEF Handed, IInv, PassedInv
    <3> QED
      BY <3>1, <3>2
  <2>8. (\A q \in Requests : ~Owes(q, "controller")') => runs'.turret = settings'.controller
    <3>1. CASE "controller" \in Changed(r)
      <4>1. CASE pc' = [pc EXCEPT ![r] = "disarm"]
        <5>1. pc'[r] = "disarm"
          BY <4>1 DEF IInv, TypeOK
        <5> QED
          BY <2>4, <3>1, <5>1 DEF Owes
      <4>2. CASE runs'.turret = given[r].controller
        BY <1>2, <2>2, <4>2
      <4> QED
        BY <1>4, <3>1, <4>1, <4>2 DEF Handed
    <3>2. CASE "controller" \notin Changed(r)
      <4>1. \A q \in Requests : ~Owes(q, "controller")
        BY <2>2, <3>2 DEF Owes, Waits
      <4> QED
        BY <1>2, <1>3, <1>4, <2>1, <3>2, <4>1 DEF Handed, IInv, PassedInv
    <3> QED
      BY <3>1, <3>2
  <2> QED
    BY <1>2, <2>2, <2>3, <2>5, <2>6, <2>7, <2>8 DEF PassedInv
<1> QED
  BY <1>7, <1>8, <1>9, <1>10, <1>11 DEF IInv

LEMMA DisarmedInv ==
  ASSUME IInv, NEW r \in Requests, Disarmed(r)
  PROVE  IInv'
<1>1. /\ pc[r] = "disarm" /\ pc' = [pc EXCEPT ![r] = "done"]
      /\ UNCHANGED <<db, settings, patch, base, given, lock, camLock, passed>>
  BY DEF Disarmed, TurretPart, Goto
<1>2. /\ runs' \in Running /\ runs'.cameras = runs.cameras /\ runs'.vision = runs.vision
      /\ runs'.spray = runs.spray
      /\ runs'.turret = IF "controller" \in Changed(r) THEN given[r].controller ELSE runs.turret
  <2>1. runs' = IF "controller" \in Changed(r) THEN [runs EXCEPT !.turret = given[r].controller]
                                               ELSE runs
    BY DEF Disarmed, TurretPart
  <2>2. runs \in Running /\ given[r].controller \in Values
    BY DEF IInv, TypeOK, Sections
  <2> QED
    BY <2>1, <2>2 DEF Running
<1>3. TypeOK'
  BY <1>1, <1>2 DEF IInv, TypeOK
<1>4. MemoryIsStored'
  BY <1>1 DEF IInv, MemoryIsStored, Stored
<1>5. LockInv'
  <2>1. \A q \in Requests : pc'[q] \in {"lock", "write"} => pc[q] = pc'[q]
    BY <1>1 DEF IInv, TypeOK
  <2> QED
    BY <1>1, <2>1 DEF IInv, LockInv
<1>6. CamLockInv'
  <2>1. \A i \in 1..Len(camLock) : camLock[i] \in Requests /\ camLock[i] # r
    BY <1>1 DEF IInv, TypeOK, CamLockInv
  <2>2. \A q \in Requests : q # r => pc'[q] = pc[q]
    BY <1>1 DEF IInv, TypeOK
  <2> QED
    BY <1>1, <1>2, <2>1, <2>2 DEF IInv, CamLockInv
<1>7. PassedInv'
  <2> SUFFICES ASSUME ~passed' PROVE PassedInv'
    BY DEF PassedInv
  <2>1. ~passed /\ Waits(r)
    BY <1>1 DEF Waits
  <2>2. (\A q \in Requests : Waits(q) => q = r) /\ given[r] = settings
    BY <2>1 DEF IInv, PassedInv
  <2>3. \A q \in Requests : ~Waits(q)' /\ pc'[q] # "cameras" /\ pc[q] # "cameras" /\ ~Owes(q, "spray")
    BY <1>1, <2>2 DEF Waits, Owes, IInv, TypeOK
  <2>4. /\ runs.cameras = settings.cameras /\ runs.vision = VisionOf(settings)
        /\ runs.spray = settings.spray
    BY <2>1, <2>3 DEF IInv, PassedInv
  <2>5. runs'.turret = settings'.controller
    <3>1. CASE "controller" \in Changed(r)
      BY <1>1, <1>2, <2>2, <3>1
    <3>2. CASE "controller" \notin Changed(r)
      <4>1. \A q \in Requests : ~Owes(q, "controller")
        BY <2>2, <3>2 DEF Owes, Waits
      <4> QED
        BY <1>1, <1>2, <2>1, <3>2, <4>1 DEF IInv, PassedInv
    <3> QED
      BY <3>1, <3>2
  <2> QED
    BY <1>1, <1>2, <2>3, <2>4, <2>5 DEF PassedInv, VisionOf
<1> QED
  BY <1>3, <1>4, <1>5, <1>6, <1>7 DEF IInv

LEMMA RestartInv ==
  ASSUME IInv, Restart
  PROVE  IInv'
<1>1. db' \in [Sections -> Values \cup {Bad}]
  <2>1. ASSUME NEW r \in Requests, pc[r] = "write", Commit(r)
        PROVE  db' \in [Sections -> Values \cup {Bad}]
    BY <2>1, Committed DEF IInv, LockInv
  <2> QED
    BY <2>1 DEF Restart, IInv, TypeOK
<1>2. settings' = Stored(db') /\ settings' \in [Sections -> Values]
  BY <1>1, StoredType DEF Restart
<1>3. runs' = Started(settings') /\ runs' \in Running
  BY <1>2, StartedType DEF Restart
<1>4. pc' \in [Requests -> {"idle", "done"}] /\ lock' = <<>> /\ camLock' = <<>>
  BY DEF Restart, IInv, TypeOK
<1>5. TypeOK'
  <2>1. pc' \in [Requests -> {"idle", "lock", "write", "cameras", "disarm", "done"}]
    BY <1>4
  <2>2. lock' \in Seq(Requests) /\ camLock' \in Seq(Requests)
    BY <1>4
  <2> QED
    BY <1>1, <1>2, <1>3, <2>1, <2>2 DEF Restart, IInv, TypeOK
<1>6. MemoryIsStored'
  BY <1>2 DEF MemoryIsStored, Stored
<1>7. /\ runs'.cameras = settings'.cameras /\ runs'.vision = VisionOf(settings')
      /\ runs'.spray = settings'.spray /\ runs'.turret = settings'.controller
  BY <1>3 DEF Started
<1>8. LockInv' /\ CamLockInv'
  BY <1>4, <1>7 DEF LockInv, CamLockInv
<1>9. PassedInv'
  BY <1>4, <1>7 DEF PassedInv, Waits, VisionOf
<1> QED
  BY <1>5, <1>6, <1>8, <1>9 DEF IInv

LEMMA NextInv ==
  ASSUME IInv, [Next]_vars
  PROVE  IInv'
<1>1. ASSUME NEW r \in Requests, Step(r) PROVE IInv'
  BY <1>1, CallInv, MergeInv, WriteInv, CamerasAppliedInv, DisarmedInv DEF Step
<1>2. CASE Restart
  BY <1>2, RestartInv
<1>3. CASE UNCHANGED vars
  <2>1. \A q \in Requests : Changed(q)' = Changed(q)
    BY <1>3 DEF vars, Changed
  <2>2. TypeOK' /\ MemoryIsStored'
    BY <1>3 DEF vars, IInv, TypeOK, MemoryIsStored, Stored
  <2>3. LockInv' /\ CamLockInv'
    BY <1>3 DEF vars, IInv, LockInv, CamLockInv
  <2>4. PassedInv'
    BY <1>3, <2>1 DEF vars, IInv, PassedInv, Waits, Owes, VisionOf
  <2> QED
    BY <2>2, <2>3, <2>4 DEF IInv
<1> QED
  BY <1>1, <1>2, <1>3 DEF Next, Finished

----------------------------------------------------------------------------
(* Theorems.                                                               *)

\* The inductive invariant of update and its listener: the holder of the
\* store's lock writes what it merged into the settings in memory, and what a
\* waiting listener does not owe the components, they have.
THEOREM Invariant == Spec => []IInv
<1>1. Init => IInv
  BY InitInv
<1>2. IInv /\ [Next]_vars => IInv'
  BY NextInv
<1> QED
  BY <1>1, <1>2, PTL DEF Spec

\* Memory and table agree at every moment, through overlapping updates,
\* failing writes and restarts; with no update under way the cameras run what
\* is stored however the listeners overlapped, and every component does if no
\* listener was overtaken (SettingsStore.update, Runtime._on_settings_changed,
\* CameraManager.apply).
THEOREM ComponentsEndRight == Spec => []SettingsSettle
<1>1. ASSUME IInv, Settled PROVE runs.cameras = settings.cameras
  <2>1. camLock \in Seq(Requests) /\ \A i \in 1..Len(camLock) : pc[camLock[i]] = "cameras"
    BY <1>1 DEF IInv, TypeOK, CamLockInv
  <2>2. camLock = <<>>
    <3> SUFFICES ASSUME camLock # <<>> PROVE FALSE
      OBVIOUS
    <3>1. camLock[1] \in Requests /\ pc[camLock[1]] = "cameras"
      BY <2>1
    <3> QED
      BY <1>1, <3>1 DEF Settled
  <2> QED
    BY <1>1, <2>2 DEF IInv, CamLockInv
<1>2. ASSUME IInv, Settled, ~passed PROVE runs = Started(settings)
  <2>1. \A q \in Requests : pc[q] # "cameras" /\ ~Owes(q, "spray") /\ ~Owes(q, "controller")
    BY <1>2 DEF Settled, Owes
  <2>2. /\ runs.cameras = settings.cameras /\ runs.vision = VisionOf(settings)
        /\ runs.spray = settings.spray /\ runs.turret = settings.controller
    BY <1>2, <2>1 DEF IInv, PassedInv
  <2> QED
    BY <1>2, <2>2 DEF IInv, TypeOK, Running, Started
<1>3. IInv => SettingsSettle
  BY <1>1, <1>2 DEF SettingsSettle, CamerasSettle, SettledIsStored, IInv
<1> QED
  BY <1>3, Invariant, PTL

----------------------------------------------------------------------------
(* The refinement.                                                         *)

Open == {r \in Requests : pc[r] \in {"idle", "lock", "write"}}

\* The settings store implements AtomicStore: a request takes effect once and
\* as a whole, on the value it finds, or not at all, and a crash drops
\* requests and nothing stored.
THEOREM StoreImplements == Spec => AtomicUpdates
<1>1. Init => Atomic!Init
  BY DEF Init, Atomic!Init
<1>2. ASSUME IInv, [Next]_vars PROVE [Atomic!Next]_(Atomic!vars)
  <2>1. ASSUME NEW r \in Requests, pc[r] = "write", Commit(r)
        PROVE  Atomic!Patched(r)
    <3>1. Stored(db') = Merged(r) /\ base[r] = Stored(db)
      BY <1>2, <2>1, Committed DEF IInv, LockInv, MemoryIsStored
    <3>2. DOMAIN Stored(db) = Sections
      BY DEF Stored
    <3> QED
      BY <3>1, <3>2 DEF Atomic!Patched, Merged
  <2>2. ASSUME NEW r \in Requests, Call(r) PROVE UNCHANGED (Atomic!vars)
    <3>1. Open' = Open
      BY <1>2, <2>2 DEF Call, Goto, Open, IInv, TypeOK
    <3>2. UNCHANGED <<Stored(db), patch>>
      BY <2>2 DEF Call, Stored
    <3> QED
      BY <3>1, <3>2 DEF Atomic!vars, Open
  <2>3. ASSUME NEW r \in Requests, Merge(r) PROVE [Atomic!Next]_(Atomic!vars)
    <3>1. pc[r] = "lock" /\ UNCHANGED <<Stored(db), patch>>
      BY <2>3 DEF Merge, Stored
    <3>2. CASE Goto(r, "write")
      <4>1. Open' = Open
        BY <1>2, <3>1, <3>2 DEF Goto, Open, IInv, TypeOK
      <4> QED
        BY <3>1, <4>1 DEF Atomic!vars, Open
    <3>3. CASE Goto(r, "done")
      <4>1. r \in Open /\ Open' = Open \ {r}
        BY <1>2, <3>1, <3>3 DEF Goto, Open, IInv, TypeOK
      <4>2. Atomic!Refuse(r)
        BY <3>1, <4>1 DEF Atomic!Refuse, Open
      <4> QED
        BY <3>1, <4>2 DEF Atomic!Next
    <3> QED
      BY <2>3, <3>2, <3>3 DEF Merge
  <2>4. ASSUME NEW r \in Requests, Write(r) PROVE [Atomic!Next]_(Atomic!vars)
    <3>1. pc[r] = "write" /\ UNCHANGED patch
      BY <2>4 DEF Write
    <3>2. CASE Goto(r, "done") /\ UNCHANGED db
      <4>1. r \in Open /\ Open' = Open \ {r} /\ UNCHANGED Stored(db)
        BY <1>2, <3>1, <3>2 DEF Goto, Open, IInv, TypeOK, Stored
      <4>2. Atomic!Refuse(r)
        BY <4>1 DEF Atomic!Refuse, Open
      <4> QED
        BY <3>1, <4>2 DEF Atomic!Next
    <3>3. CASE Commit(r) /\ Listen(r, settings', Changed(r))
      <4>1. \E stage \in {"cameras", "disarm", "done"} : Goto(r, stage)
        BY <3>3 DEF Listen, AfterCameras, TurretPart
      <4>2. r \in Open /\ Open' = Open \ {r}
        BY <1>2, <3>1, <4>1 DEF Goto, Open, IInv, TypeOK
      <4>3. Atomic!Patched(r)
        BY <2>1, <3>1, <3>3
      <4>4. Atomic!Apply(r)
        BY <4>2, <4>3 DEF Atomic!Apply, Open
      <4> QED
        BY <3>1, <4>4 DEF Atomic!Next
    <3> QED
      BY <2>4, <3>2, <3>3 DEF Write
  <2>5. ASSUME NEW r \in Requests, CamerasApplied(r) \/ Disarmed(r) PROVE UNCHANGED (Atomic!vars)
    <3>1. pc[r] \in {"cameras", "disarm"} /\ UNCHANGED <<Stored(db), patch>>
      BY <2>5 DEF CamerasApplied, CamerasTurn, Disarmed, Stored
    <3>2. \E stage \in {"disarm", "done"} : Goto(r, stage)
      BY <2>5 DEF CamerasApplied, Disarmed, AfterCameras, TurretPart
    <3>3. Open' = Open
      BY <1>2, <3>1, <3>2 DEF Goto, Open, IInv, TypeOK
    <3> QED
      BY <3>1, <3>3 DEF Atomic!vars, Open
  <2>6. CASE Restart
    <3>1. Open' \subseteq Open /\ \A r \in Requests : pc[r] = "write" => r \in Open \ Open'
      BY <1>2, <2>6 DEF Restart, Open, IInv, TypeOK
    <3>2. UNCHANGED Stored(db) \/ \E r \in Open \ Open' : Atomic!Patched(r)
      <4>1. CASE UNCHANGED db
        BY <4>1 DEF Stored
      <4>2. CASE \E r \in Requests : pc[r] = "write" /\ Commit(r)
        BY <2>1, <3>1, <4>2
      <4> QED
        BY <2>6, <4>1, <4>2 DEF Restart
    <3>3. Atomic!Crash
      BY <3>1, <3>2 DEF Atomic!Crash, Open
    <3> QED
      BY <2>6, <3>3 DEF Atomic!Next, Restart
  <2>7. CASE UNCHANGED vars
    <3>1. UNCHANGED <<Stored(db), patch, Open>>
      BY <2>7 DEF vars, Stored, Open
    <3> QED
      BY <3>1 DEF Atomic!vars, Open
  <2> QED
    BY <1>2, <2>2, <2>3, <2>4, <2>5, <2>6, <2>7 DEF Next, Step, Finished
<1> QED
  BY <1>1, <1>2, Invariant, PTL DEF Spec, AtomicUpdates, Atomic!Spec

----------------------------------------------------------------------------
(* The simulated controllers.  Where the two keep state of one name they   *)
(* share the variable: no behaviour is one of both.                        *)

CONSTANTS
  Axes, Top, HomingTime, Bursts, Late, AllowUnhomed,             \* Simulator
  Limits, Goals, Homing, Durations, MaxSpray, MaxWaiting,        \* ControllerSim
  MaxSpeed, Accel, JogTime                                       \* both

VARIABLES
  target, homingFor, homingAxes, lost,                           \* Simulator
  link, waiting, homing, lim, vel, goal, error, openFor,         \* ControllerSim
  state, pos, rate, homed, armed, valve, estop, jogFor, valveFor \* both

Server == INSTANCE Simulator
Tool == INSTANCE ControllerSim

----------------------------------------------------------------------------
(* The simulated mode of the server.                                       *)


\* While an emergency stop is latched the output is disarmed and no homing is
\* under way: only this lets _spray ask for the latch alone, and _advance set
\* homed without a look at the emergency stop.
ServerRests ==
  /\ armed \in BOOLEAN /\ homed \in BOOLEAN /\ valve \in BOOLEAN
  /\ estop => ~armed /\ homingFor = 0

LEMMA ServerInit == Server!Init => ServerRests /\ Server!Contract!Init
  BY DEF Server!Init, ServerRests, Server!Contract!Init

\* A command or a tick keeps the invariant and is a step of the contract.
LEMMA ServerStep ==
  ServerRests /\ [Server!Next]_(Server!vars)
    => ServerRests' /\ [Server!Contract!Next]_(Server!Contract!contract)
<1> SUFFICES ASSUME ServerRests, [Server!Next]_(Server!vars)
             PROVE  ServerRests' /\ [Server!Contract!Next]_(Server!Contract!contract)
  OBVIOUS
<1> USE DEF ServerRests, Server!Contract!contract, Server!motion, Server!latches
<1>1. CASE Server!Move \/ Server!Jog
  BY <1>1 DEF Server!Move, Server!Jog
<1>2. CASE \E axes \in SUBSET Axes : axes # {} /\ Server!Home(axes)
  <2>1. PICK axes \in SUBSET Axes : Server!Home(axes)
    BY <1>2
  <2>2. ServerRests' /\ Server!Contract!Disarm
    BY <2>1 DEF Server!Home, Server!Contract!Disarm
  <2> QED
    BY <2>2 DEF Server!Contract!Next
<1>3. CASE Server!EmergencyStop
  <2>1. ServerRests' /\ Server!Contract!Stop
    BY <1>3 DEF Server!EmergencyStop, Server!Halt, Server!Contract!Stop
  <2> QED
    BY <2>1 DEF Server!Contract!Next
<1>4. CASE Server!Stop \/ Server!Reboot
  <2>1. ServerRests' /\ Server!Contract!Clear
    BY <1>4 DEF Server!Stop, Server!Reboot, Server!Halt, Server!Contract!Clear
  <2> QED
    BY <2>1 DEF Server!Contract!Next
<1>5. CASE Server!Spray
  <2>1. ServerRests' /\ Server!Contract!Spray
    BY <1>5 DEF Server!Spray, Server!Contract!Spray
  <2> QED
    BY <2>1 DEF Server!Contract!Next
<1>6. CASE Server!SprayStop
  <2>1. ServerRests' /\ Server!Contract!Close
    BY <1>6 DEF Server!SprayStop, Server!Contract!Close
  <2> QED
    BY <2>1 DEF Server!Contract!Next
<1>7. CASE Server!ArmOutput
  <2>1. PICK arm \in BOOLEAN :
          /\ ~(arm /\ estop) /\ armed' = arm /\ Server!ValveAfter(arm)
          /\ UNCHANGED <<homed, estop, homingFor>>
    BY <1>7 DEF Server!ArmOutput
  <2>2. CASE arm
    <3>1. ServerRests' /\ Server!Contract!Arm
      BY <2>1, <2>2 DEF Server!ValveAfter, Server!Contract!Arm
    <3> QED
      BY <3>1 DEF Server!Contract!Next
  <2>3. CASE ~arm
    <3>1. ServerRests' /\ Server!Contract!Disarm
      BY <2>1, <2>3 DEF Server!ValveAfter, Server!Contract!Disarm
    <3> QED
      BY <3>1 DEF Server!Contract!Next
  <2> QED
    BY <2>2, <2>3
<1>8. CASE Server!Tick
  <2>1. PICK d \in 1..Late : Server!Homing(d) \/ Server!Running(d)
    BY <1>8 DEF Server!Tick
  <2>2. CASE Server!Homing(d) /\ homingFor > d
    BY <2>2 DEF Server!Homing, Server!Left
  <2>3. CASE Server!Homing(d) /\ ~(homingFor > d)
    <3>1. ServerRests' /\ Server!Contract!Homed
      BY <2>3 DEF Server!Homing, Server!Left, Server!Contract!Homed
    <3> QED
      BY <3>1 DEF Server!Contract!Next
  <2>4. CASE Server!Running(d)
    <3>1. ServerRests' /\ UNCHANGED <<homed, armed, estop>> /\ valve' = (valve /\ ~(valveFor > 0 /\ valveFor <= d))
      BY <2>4 DEF Server!Running
    <3>2. CASE valveFor > 0 /\ valveFor <= d
      BY <3>1, <3>2 DEF Server!Contract!Next, Server!Contract!Close
    <3>3. CASE ~(valveFor > 0 /\ valveFor <= d)
      BY <3>1, <3>3
    <3> QED
      BY <3>2, <3>3
  <2> QED
    BY <2>1, <2>2, <2>3, <2>4
<1>9. CASE UNCHANGED Server!vars
  BY <1>9 DEF Server!vars
<1> QED
  BY <1>1, <1>2, <1>3, <1>4, <1>5, <1>6, <1>7, <1>8, <1>9 DEF Server!Next

\* The simulator's status frames keep the contract: water and the emergency
\* stop exclude each other, water needs the latch, a stop leaves nothing
\* homed, in every order of commands and ticks (send_text, _advance).
THEOREM SimulatorImplements == Server!Spec => Server!KeepsContract
<1>1. Server!Init => ServerRests /\ Server!Contract!Init
  BY ServerInit
<1>2. ServerRests /\ [Server!Next]_(Server!vars)
    => ServerRests' /\ [Server!Contract!Next]_(Server!Contract!contract)
  BY ServerStep
<1> QED
  BY <1>1, <1>2, PTL DEF Server!Spec, Server!KeepsContract, Server!Contract!Spec

----------------------------------------------------------------------------
(* The stand-alone simulator.                                              *)


\* While an emergency stop is latched the output is disarmed and no homing
\* sleeps.  _handle refuses what comes after a stop; a homing that sleeps
\* keeps the stop itself waiting, or else its end would set homed under it.
ToolRests ==
  /\ armed \in BOOLEAN /\ homed \in BOOLEAN /\ valve \in BOOLEAN /\ estop \in BOOLEAN
  /\ estop => ~armed /\ homing = 0

LEMMA ToolInit == Tool!Init => ToolRests /\ Tool!Contract!Init
  BY DEF Tool!Init, ToolRests, Tool!Contract!Init

\* A stop, read at once or after it waited.
LEMMA ToolStop ==
  ASSUME ToolRests, homing = 0, NEW emergency \in BOOLEAN, Tool!Stop(emergency)
  PROVE  ToolRests' /\ Tool!Contract!Next
<1> USE DEF ToolRests, Tool!Stop, Tool!CloseValve
<1>1. CASE emergency
  <2>1. ToolRests' /\ Tool!Contract!Stop
    BY <1>1 DEF Tool!Contract!Stop
  <2> QED
    BY <2>1 DEF Tool!Contract!Next
<1>2. CASE ~emergency
  <2>1. ToolRests' /\ Tool!Contract!Clear
    BY <1>2 DEF Tool!Contract!Clear
  <2> QED
    BY <2>1 DEF Tool!Contract!Next
<1> QED
  BY <1>1, <1>2

\* One command of _handle.
LEMMA ToolHandle ==
  ASSUME ToolRests, Tool!Handle
  PROVE  ToolRests' /\ [Tool!Contract!Next]_(Tool!Contract!contract)
<1> USE DEF ToolRests, Tool!Contract!contract, Tool!latches, Tool!axis
<1>1. homing = 0
  BY DEF Tool!Handle
<1>2. CASE \E kind \in {"estop", "stop"} : Tool!Urgent(kind)
  BY <1>1, <1>2, ToolStop DEF Tool!Urgent
<1>3. CASE Tool!Move \/ Tool!MoveRelative \/ Tool!Jog \/ Tool!SetConfig
  BY <1>3 DEF Tool!Move, Tool!MoveRelative, Tool!Jog, Tool!SetConfig, Tool!SameValve
<1>4. CASE Tool!HomeBegins
  BY <1>4 DEF Tool!HomeBegins, Tool!SameValve
<1>5. CASE Tool!ArmOutput
  <2>1. PICK arm \in BOOLEAN :
          ~estop /\ armed' = arm /\ Tool!ValveAfter(arm) /\ UNCHANGED <<homed, estop, homing>>
    BY <1>5 DEF Tool!ArmOutput
  <2>2. CASE arm
    <3>1. ToolRests' /\ Tool!Contract!Arm
      BY <2>1, <2>2 DEF Tool!ValveAfter, Tool!SameValve, Tool!Contract!Arm
    <3> QED
      BY <3>1 DEF Tool!Contract!Next
  <2>3. CASE ~arm
    <3>1. ToolRests' /\ Tool!Contract!Disarm
      BY <2>1, <2>3 DEF Tool!ValveAfter, Tool!CloseValve, Tool!Contract!Disarm
    <3> QED
      BY <3>1 DEF Tool!Contract!Next
  <2> QED
    BY <2>2, <2>3
<1>6. CASE Tool!Spray
  <2>1. ToolRests' /\ Tool!Contract!Spray
    BY <1>6 DEF Tool!Spray, Tool!Contract!Spray
  <2> QED
    BY <2>1 DEF Tool!Contract!Next
<1>7. CASE Tool!SprayStop
  <2>1. ToolRests' /\ Tool!Contract!Close
    BY <1>7 DEF Tool!SprayStop, Tool!CloseValve, Tool!Contract!Close
  <2> QED
    BY <2>1 DEF Tool!Contract!Next
<1>8. CASE Tool!Reboot
  <2>1. ToolRests' /\ Tool!Contract!Disarm
    BY <1>8 DEF Tool!Reboot, Tool!CloseValve, Tool!Contract!Disarm
  <2> QED
    BY <2>1 DEF Tool!Contract!Next
<1> QED
  BY <1>2, <1>3, <1>4, <1>5, <1>6, <1>7, <1>8 DEF Tool!Handle

\* Every step of the session keeps the invariant and is one of the contract.
LEMMA ToolStep ==
  ToolRests /\ [Tool!Next]_(Tool!vars)
    => ToolRests' /\ [Tool!Contract!Next]_(Tool!Contract!contract)
<1> SUFFICES ASSUME ToolRests, [Tool!Next]_(Tool!vars)
             PROVE  ToolRests' /\ [Tool!Contract!Next]_(Tool!Contract!contract)
  OBVIOUS
<1> USE DEF ToolRests, Tool!Contract!contract, Tool!latches, Tool!axis, Tool!session
<1>1. CASE Tool!Tick
  <2>1. ToolRests' /\ (UNCHANGED valve \/ valve' = FALSE) /\ UNCHANGED <<homed, armed, estop>>
    <3>1. UNCHANGED <<homed, armed, estop>> /\ homing' = IF homing > 1 THEN homing - 1 ELSE homing
      BY <1>1 DEF Tool!Tick
    <3>2. UNCHANGED valve \/ valve' = FALSE
      <4>1. CASE estop
        BY <1>1, <4>1 DEF Tool!Tick, Tool!CloseValve
      <4>2. CASE ~estop
        BY <1>1, <4>2 DEF Tool!Tick, Tool!CloseValve
      <4> QED
        BY <4>1, <4>2
    <3>3. homing = 0 => homing' = 0
      BY <3>1
    <3>4. valve' \in BOOLEAN
      BY <3>2
    <3>5. ToolRests'
      BY <3>1, <3>3, <3>4, Zenon
    <3> QED
      BY <3>1, <3>2, <3>5, Zenon
  <2>2. CASE UNCHANGED valve
    BY <2>1, <2>2
  <2>3. CASE valve' = FALSE
    BY <2>1, <2>3 DEF Tool!Contract!Next, Tool!Contract!Close
  <2> QED
    BY <2>1, <2>2, <2>3
<1>2. CASE Tool!Handle
  BY <1>2, ToolHandle
<1>3. CASE Tool!HandleWaiting
  BY <1>3, ToolStop DEF Tool!HandleWaiting, Tool!Urgent
<1>4. CASE Tool!HomeEnds
  <2>1. PICK found \in BOOLEAN :
          /\ homing = 1 /\ homing' = 0 /\ UNCHANGED <<armed, valve, estop>>
          /\ IF found THEN homed' = TRUE ELSE UNCHANGED homed
    BY <1>4 DEF Tool!HomeEnds
  <2>2. CASE found
    <3>1. ToolRests' /\ Tool!Contract!Homed
      BY <2>1, <2>2 DEF Tool!Contract!Homed
    <3> QED
      BY <3>1 DEF Tool!Contract!Next
  <2>3. CASE ~found
    BY <2>1, <2>3
  <2> QED
    BY <2>2, <2>3
<1>5. CASE Tool!LinkLost \/ Tool!ConnectFails
  <2>1. Tool!CloseValve /\ armed' = FALSE /\ UNCHANGED <<homed, estop, homing>>
    BY <1>5 DEF Tool!LinkLost, Tool!ConnectFails, Tool!MakeSafe
  <2>2. ToolRests' /\ Tool!Contract!Disarm
    BY <2>1 DEF Tool!CloseValve, Tool!Contract!Disarm
  <2> QED
    BY <2>2 DEF Tool!Contract!Next
<1>6. CASE Tool!Wait \/ Tool!Connect \/ Tool!LinkBreaks \/ Tool!LinkCloses
  BY <1>6 DEF Tool!Wait, Tool!Connect, Tool!LinkBreaks, Tool!LinkCloses
<1>7. CASE Tool!Asleep
  BY <1>7 DEF Tool!Asleep
<1>8. CASE UNCHANGED Tool!vars
  BY <1>8 DEF Tool!vars
<1> QED
  BY <1>1, <1>2, <1>3, <1>4, <1>5, <1>6, <1>7, <1>8 DEF Tool!Next

\* The simulator's status frames keep the contract over links that break,
\* close and come back (_handle, run).
THEOREM ToolImplements == Tool!Spec => Tool!KeepsContract
<1>1. Tool!Init => ToolRests /\ Tool!Contract!Init
  BY ToolInit
<1>2. ToolRests /\ [Tool!Next]_(Tool!vars)
    => ToolRests' /\ [Tool!Contract!Next]_(Tool!Contract!contract)
  BY ToolStep
<1> QED
  BY <1>1, <1>2, PTL DEF Tool!Spec, Tool!KeepsContract, Tool!Contract!Spec

\* While the valve is open, the ticks the physics has seen it open and those
\* left to its deadline are together no more than the longest burst.
BurstInv ==
  /\ valveFor \in Nat /\ openFor \in Nat /\ openFor < MaxSpray
  /\ valve => valveFor > 0 /\ openFor + valveFor <= MaxSpray

\* An opening begins anew, a tick moves one tick from what is left to what was
\* seen, and nothing else leaves the valve open with another deadline.
LEMMA BurstKept ==
  ASSUME Durations \subseteq Int, MaxSpray \in Nat \ {0}
  PROVE  BurstInv /\ [Tool!Next]_(Tool!vars) => BurstInv'
<1> SUFFICES ASSUME BurstInv, [Tool!Next]_(Tool!vars) PROVE BurstInv'
  OBVIOUS
<1> USE DEF BurstInv
<1>1. CASE Tool!CloseValve
  BY <1>1 DEF Tool!CloseValve
<1>2. CASE UNCHANGED <<valve, valveFor, openFor>>
  BY <1>2
<1>3. ASSUME NEW emergency, Tool!Stop(emergency) PROVE Tool!CloseValve
  BY <1>3 DEF Tool!Stop
<1>4. CASE Tool!Tick
  <2>1. CASE estop
    BY <1>1, <1>4, <2>1 DEF Tool!Tick
  <2>2. CASE ~estop /\ valve /\ valveFor = 1
    BY <1>1, <1>4, <2>2 DEF Tool!Tick
  <2>3. CASE ~estop /\ ~(valve /\ valveFor = 1)
    <3>1. /\ valveFor' = IF valve THEN valveFor - 1 ELSE 0
          /\ openFor' = IF valve THEN openFor + 1 ELSE 0
          /\ UNCHANGED valve
      BY <1>4, <2>3 DEF Tool!Tick
    <3> QED
      BY <2>3, <3>1
  <2> QED
    BY <2>1, <2>2, <2>3
<1>5. CASE Tool!Handle
  <2>1. CASE \E kind \in {"estop", "stop"} : Tool!Urgent(kind)
    BY <1>1, <1>3, <2>1 DEF Tool!Urgent
  <2>2. CASE Tool!Spray
    <3>1. PICK d \in Durations : valveFor' = Tool!Capped(d)
      BY <2>2 DEF Tool!Spray
    <3>2. valveFor' \in 1..MaxSpray
      BY <3>1 DEF Tool!Capped
    <3> QED
      BY <2>2, <3>2 DEF Tool!Spray
  <2>3. CASE Tool!ArmOutput
    BY <1>1, <1>2, <2>3 DEF Tool!ArmOutput, Tool!ValveAfter, Tool!SameValve
  <2>4. CASE Tool!SprayStop \/ Tool!Reboot
    BY <1>1, <2>4 DEF Tool!SprayStop, Tool!Reboot
  <2>5. CASE Tool!Move \/ Tool!MoveRelative \/ Tool!Jog \/ Tool!HomeBegins \/ Tool!SetConfig
    BY <1>2, <2>5 DEF Tool!Move, Tool!MoveRelative, Tool!Jog, Tool!HomeBegins, Tool!SetConfig,
                      Tool!SameValve, Tool!latches
  <2> QED
    BY <1>5, <2>1, <2>2, <2>3, <2>4, <2>5 DEF Tool!Handle
<1>6. CASE Tool!HandleWaiting
  BY <1>1, <1>3, <1>6 DEF Tool!HandleWaiting, Tool!Urgent
<1>7. CASE Tool!ConnectFails \/ Tool!LinkLost
  BY <1>1, <1>7 DEF Tool!ConnectFails, Tool!LinkLost, Tool!MakeSafe
<1>8. CASE \/ Tool!Wait \/ Tool!HomeEnds \/ Tool!Connect \/ Tool!LinkBreaks \/ Tool!Asleep
           \/ Tool!LinkCloses \/ UNCHANGED Tool!vars
  BY <1>2, <1>8 DEF Tool!Wait, Tool!HomeEnds, Tool!Connect, Tool!LinkBreaks, Tool!Asleep,
                    Tool!LinkCloses, Tool!vars, Tool!latches
<1> QED
  BY <1>4, <1>5, <1>6, <1>7, <1>8 DEF Tool!Next

\* The valve is open for less than the longest burst since the last spray,
\* whatever jog, homing, stop or session comes between (open_valve, tick).
THEOREM ToolBurstsEnd ==
  ASSUME Durations \subseteq Int, MaxSpray \in Nat \ {0}
  PROVE  Tool!Spec => []Tool!BurstsEnd
<1>1. Tool!Init => BurstInv
  BY DEF Tool!Init, BurstInv
<1>2. BurstInv => Tool!BurstsEnd
  BY DEF BurstInv, Tool!BurstsEnd
<1> QED
  BY <1>1, <1>2, BurstKept, PTL DEF Tool!Spec

\* What the tool's options and the server's configuration bring.
ToolAssumption ==
  /\ Goals \subseteq Int /\ Limits \subseteq Int \X Int /\ \E l \in Limits : l[1] <= 0 /\ 0 <= l[2]
  /\ MaxSpeed \in Nat /\ Accel \in Nat /\ JogTime \in Nat /\ Homing \in Nat /\ MaxWaiting \in Nat
  /\ Durations \subseteq Int /\ MaxSpray \in Nat \ {0}

SessionTypes ==
  link \in {"up", "dying", "down"} /\ waiting \in Seq({"estop", "stop"}) /\ Len(waiting) <= MaxWaiting

AxisTypes ==
  /\ homing \in 0..Homing /\ jogFor \in 0..JogTime
  /\ pos \in Int /\ goal \in Int /\ rate \in Int /\ vel \in -MaxSpeed..MaxSpeed
  /\ lim \in Int \X Int

ValveTypes == valve \in BOOLEAN /\ valveFor \in Nat /\ (valve <=> valveFor > 0)

LEMMA Greatest ==
  ASSUME NEW n \in Nat, NEW S, S \subseteq 0..n, S # {}
  PROVE  \E v \in S : \A w \in S : w <= v
<1> DEFINE R == {p \in Nat \X Nat : p[1] < p[2]}
           T == {m \in 0..n : n - m \in S}
<1>1. OpToRel(<, Nat) = R
  BY DEF OpToRel
<1>2. IsWellFoundedOn(R, Nat)
  BY <1>1, NatLessThanWellFounded
<1>3. T \subseteq Nat /\ T # {}
  <2>1. PICK w \in S : TRUE
    OBVIOUS
  <2>2. w \in 0..n /\ n - w \in 0..n /\ n - (n - w) = w
    OBVIOUS
  <2> QED
    BY <2>1, <2>2
<1> HIDE DEF R
<1>4. PICK m \in T : \A k \in T : <<k, m>> \notin R
  BY <1>2, <1>3, WFMin
<1>5. ASSUME NEW w \in S PROVE w <= n - m
  <2>1. w \in 0..n /\ n - w \in 0..n /\ n - (n - w) = w /\ m \in 0..n
    OBVIOUS
  <2>2. n - w \in T
    BY <2>1
  <2>3. <<n - w, m>> \notin R /\ n - w \in Nat /\ m \in Nat
    BY <1>4, <2>1, <2>2
  <2>4. ~(n - w < m)
    BY <2>3 DEF R
  <2> QED
    BY <2>1, <2>4
<1> QED
  BY <1>5

\* The fastest rate from which the axis stops in the distance is one.
LEMMA ApproachIsRate ==
  ASSUME MaxSpeed \in Nat, Accel \in Nat, NEW d \in Nat
  PROVE  Tool!Approach(d) \in 0..MaxSpeed
<1> DEFINE S == {v \in 0..MaxSpeed : v * v <= 2 * Accel * d}
<1>1. 0 \in S
  <2>1. PICK n \in Nat : n = Accel * d
    OBVIOUS
  <2>2. 2 * Accel * d = 2 * n
    BY <2>1
  <2> QED
    BY <2>2
<1> HIDE DEF S
<1>2. PICK v \in S : \A w \in S : w <= v
  <2>1. S \subseteq 0..MaxSpeed
    BY DEF S
  <2> QED
    BY <1>1, <2>1, Greatest
<1>3. /\ v \in 0..MaxSpeed /\ v * v <= 2 * Accel * d
      /\ \A w \in 0..MaxSpeed : w * w <= 2 * Accel * d => w <= v
  BY <1>2 DEF S
<1> QED
  BY <1>3, Zenon DEF Tool!Approach

\* The rate the axis is to have is within its speed.
LEMMA DesiredIsRate ==
  ASSUME ToolAssumption, goal \in Int, pos \in Int, NEW r \in Int
  PROVE  Tool!Desired(r) \in -MaxSpeed..MaxSpeed
<1> USE DEF ToolAssumption
<1>1. Tool!Abs(goal - pos) \in Nat
  BY DEF Tool!Abs, Tool!Sign
<1>2. PICK a \in 0..MaxSpeed : a = Tool!Approach(Tool!Abs(goal - pos))
  BY <1>1, ApproachIsRate
<1>3. Tool!Goalward \in -MaxSpeed..MaxSpeed
  BY <1>2 DEF Tool!Goalward, Tool!Sign
<1> QED
  BY <1>3 DEF Tool!Desired, Tool!Between

LEMMA SessionKept ==
  ASSUME ToolAssumption, SessionTypes, [Tool!Next]_(Tool!vars) PROVE SessionTypes'
<1> USE DEF ToolAssumption, Tool!session
<1>1. CASE UNCHANGED waiting /\ link' \in {"up", "dying", "down"}
  BY <1>1 DEF SessionTypes
<1>2. CASE waiting' = <<>> /\ link' \in {"up", "dying", "down"}
  <2>1. waiting' \in Seq({"estop", "stop"}) /\ Len(waiting') = 0
    BY <1>2
  <2> QED
    BY <1>2, <2>1 DEF SessionTypes
<1>3. CASE Tool!Handle
  <2>1. waiting' = waiting /\ link' \in {link, "down"}
    BY <1>3 DEF Tool!Handle, Tool!Urgent, Tool!Stop, Tool!Move, Tool!MoveRelative, Tool!Jog, Tool!HomeBegins,
                Tool!ArmOutput, Tool!Spray, Tool!SprayStop, Tool!SetConfig, Tool!Reboot
  <2> QED
    BY <1>1, <2>1 DEF SessionTypes
<1>4. CASE Tool!HandleWaiting
  <2>1. waiting # <<>> /\ waiting' = Tail(waiting) /\ link' = link
    BY <1>4 DEF Tool!HandleWaiting, Tool!Urgent, Tool!Stop
  <2>2. PICK s \in Seq({"estop", "stop"}) : s = waiting /\ s # <<>> /\ Len(s) <= MaxWaiting
    BY <2>1 DEF SessionTypes
  <2>3. Tail(s) \in Seq({"estop", "stop"}) /\ Len(Tail(s)) = Len(s) - 1 /\ Len(s) \in Nat
    BY <2>2
  <2>4. Len(Tail(s)) <= MaxWaiting
    BY <2>2, <2>3
  <2> QED
    BY <2>1, <2>2, <2>3, <2>4 DEF SessionTypes
<1>5. CASE Tool!Wait
  <2>1. PICK kind \in {"estop", "stop"} : waiting' = Append(waiting, kind)
    BY <1>5 DEF Tool!Wait
  <2>2. PICK s \in Seq({"estop", "stop"}) : s = waiting /\ Len(s) < MaxWaiting
    BY <1>5 DEF Tool!Wait, SessionTypes
  <2>3. Append(s, kind) \in Seq({"estop", "stop"}) /\ Len(Append(s, kind)) = Len(s) + 1 /\ Len(s) \in Nat
    BY <2>2
  <2>4. Len(Append(s, kind)) <= MaxWaiting /\ link' = link
    BY <1>5, <2>2, <2>3 DEF Tool!Wait
  <2> QED
    BY <2>1, <2>2, <2>3, <2>4 DEF SessionTypes
<1>6. CASE Tool!Connect \/ Tool!LinkCloses \/ Tool!LinkLost
  BY <1>2, <1>6 DEF Tool!Connect, Tool!LinkCloses, Tool!LinkLost
<1>7. CASE Tool!Tick \/ Tool!HomeEnds \/ Tool!ConnectFails \/ Tool!LinkBreaks \/ Tool!Asleep \/ UNCHANGED Tool!vars
  BY <1>1, <1>7 DEF Tool!Tick, Tool!HomeEnds, Tool!ConnectFails, Tool!LinkBreaks, Tool!Asleep, Tool!vars, SessionTypes
<1> QED
  BY <1>3, <1>4, <1>5, <1>6, <1>7 DEF Tool!Next

LEMMA AxisTick ==
  ASSUME ToolAssumption, AxisTypes, Tool!Tick PROVE AxisTypes'
<1> USE DEF ToolAssumption
<1>1. homing' \in 0..Homing /\ UNCHANGED lim
  BY DEF Tool!Tick, AxisTypes
<1>2. CASE estop
  <2>1. vel' = 0 /\ rate' = Tool!NoRate /\ UNCHANGED <<pos, goal, jogFor>>
    BY <1>2 DEF Tool!Tick
  <2>2. vel' \in -MaxSpeed..MaxSpeed /\ rate' \in Int
    BY <2>1 DEF Tool!NoRate
  <2> QED
    BY <1>1, <2>1, <2>2 DEF AxisTypes
<1>3. CASE ~estop
  <2>1. pos' \in Int /\ vel' \in -MaxSpeed..MaxSpeed
    <3>1. Tool!RateNow \in Int
      BY DEF Tool!RateNow, Tool!NoRate, AxisTypes
    <3>2. PICK d \in -MaxSpeed..MaxSpeed : d = Tool!Desired(Tool!RateNow)
      BY <3>1, DesiredIsRate DEF AxisTypes
    <3>3. PICK v \in -MaxSpeed..MaxSpeed : v = vel + Tool!Between(-Accel, d - vel, Accel)
      BY DEF Tool!Between, AxisTypes
    <3>4. PICK lo \in Int, hi \in Int : lo = lim[1] /\ hi = lim[2]
      BY DEF AxisTypes
    <3>5. /\ pos' = Tool!Between(lo, pos + v, hi)
          /\ vel' = IF lo < pos + v /\ pos + v < hi THEN v ELSE 0
      BY <1>3, <3>2, <3>3, <3>4 DEF Tool!Tick, Tool!Step
    <3> QED
      BY <3>5 DEF Tool!Between, AxisTypes
  <2>2. /\ rate' = Tool!RateNow /\ goal' = IF Tool!JogOver THEN pos ELSE goal
        /\ jogFor' = IF jogFor > 0 THEN jogFor - 1 ELSE 0
    BY <1>3 DEF Tool!Tick
  <2>3. rate' \in Int /\ goal' \in Int
    BY <2>2 DEF Tool!RateNow, Tool!NoRate, AxisTypes
  <2>4. jogFor' \in 0..JogTime
    BY <2>2 DEF AxisTypes
  <2> QED
    BY <1>1, <2>1, <2>3, <2>4 DEF AxisTypes
<1> QED
  BY <1>2, <1>3

LEMMA AxisKept ==
  ASSUME ToolAssumption, AxisTypes, [Tool!Next]_(Tool!vars) PROVE AxisTypes'
<1> USE DEF ToolAssumption, AxisTypes, Tool!axis, Tool!session
<1>1. ASSUME NEW emergency, Tool!Stop(emergency) PROVE AxisTypes'
  BY <1>1 DEF Tool!Stop, Tool!NoRate
<1>2. CASE Tool!Handle
  <2>1. CASE \E kind \in {"estop", "stop"} : Tool!Urgent(kind)
    BY <1>1, <2>1 DEF Tool!Urgent
  <2>2. CASE Tool!Move
    BY <2>2 DEF Tool!Move, Tool!Between, Tool!NoRate
  <2>3. CASE Tool!MoveRelative
    BY <2>3 DEF Tool!MoveRelative, Tool!NoRate
  <2>4. CASE Tool!SetConfig
    BY <2>4 DEF Tool!SetConfig
  <2>5. CASE Tool!Jog
    <3>1. PICK r \in {-MaxSpeed - 1, 0, MaxSpeed} : rate' = r
      BY <2>5 DEF Tool!Jog
    <3>2. r \in Int
      OBVIOUS
    <3> QED
      BY <2>5, <3>1, <3>2 DEF Tool!Jog
  <2>6. CASE Tool!HomeBegins \/ Tool!ArmOutput \/ Tool!Spray \/ Tool!SprayStop \/ Tool!Reboot
    BY <2>6 DEF Tool!HomeBegins, Tool!ArmOutput, Tool!Spray, Tool!SprayStop, Tool!Reboot
  <2> QED
    BY <1>2, <2>1, <2>2, <2>3, <2>4, <2>5, <2>6 DEF Tool!Handle
<1>3. CASE Tool!HandleWaiting
  BY <1>1, <1>3 DEF Tool!HandleWaiting, Tool!Urgent
<1>4. CASE Tool!HomeEnds
  <2>1. PICK found \in BOOLEAN :
          /\ homing' = 0 /\ UNCHANGED <<lim, rate, jogFor>>
          /\ (pos' = 0 /\ goal' = 0 /\ vel' = 0) \/ UNCHANGED <<pos, goal, vel>>
    BY <1>4 DEF Tool!HomeEnds
  <2> QED
    BY <2>1
<1>5. CASE Tool!ConnectFails
  BY <1>5 DEF Tool!ConnectFails, Tool!NoRate
<1>6. CASE Tool!Asleep
  BY <1>6 DEF Tool!Asleep
<1>7. CASE Tool!Wait \/ Tool!Connect \/ Tool!LinkBreaks \/ Tool!LinkLost \/ Tool!LinkCloses \/ UNCHANGED Tool!vars
  BY <1>7 DEF Tool!Wait, Tool!Connect, Tool!LinkBreaks, Tool!LinkLost, Tool!LinkCloses, Tool!vars
<1> QED
  BY <1>2, <1>3, <1>4, <1>5, <1>6, <1>7, AxisTick DEF Tool!Next

LEMMA ValveKept ==
  ASSUME ToolAssumption, ValveTypes, [Tool!Next]_(Tool!vars) PROVE ValveTypes'
<1> USE DEF ValveTypes
<1>1. CASE Tool!CloseValve
  <2>1. valve' = FALSE /\ valveFor' = 0
    BY <1>1 DEF Tool!CloseValve
  <2>2. valveFor' \in Nat /\ ~(valveFor' > 0)
    BY <2>1
  <2> QED
    BY <2>1, <2>2, Zenon
<1>2. CASE UNCHANGED <<valve, valveFor>>
  BY <1>2
<1>3. ASSUME NEW emergency, Tool!Stop(emergency) PROVE Tool!CloseValve
  BY <1>3 DEF Tool!Stop
<1>4. CASE Tool!Tick
  <2>1. CASE estop \/ (valve /\ valveFor = 1)
    BY <1>1, <1>4, <2>1 DEF Tool!Tick
  <2>2. CASE ~estop /\ ~(valve /\ valveFor = 1)
    <3>1. valveFor' = (IF valve THEN valveFor - 1 ELSE 0) /\ UNCHANGED valve
      BY <1>4, <2>2 DEF Tool!Tick
    <3> QED
      BY <2>2, <3>1
  <2> QED
    BY <2>1, <2>2
<1>5. CASE Tool!Handle
  <2>1. CASE \E kind \in {"estop", "stop"} : Tool!Urgent(kind)
    BY <1>1, <1>3, <2>1 DEF Tool!Urgent
  <2>2. CASE Tool!Spray
    <3>1. PICK d \in Durations : valveFor' = Tool!Capped(d)
      BY <2>2 DEF Tool!Spray
    <3>2. valveFor' \in 1..MaxSpray
      BY <3>1 DEF Tool!Capped, ToolAssumption
    <3>3. valve' = TRUE
      BY <2>2 DEF Tool!Spray
    <3> QED
      BY <3>2, <3>3 DEF ToolAssumption
  <2>3. CASE Tool!ArmOutput
    BY <1>1, <1>2, <2>3 DEF Tool!ArmOutput, Tool!ValveAfter, Tool!SameValve
  <2>4. CASE Tool!SprayStop \/ Tool!Reboot
    BY <1>1, <2>4 DEF Tool!SprayStop, Tool!Reboot
  <2>5. CASE Tool!Move \/ Tool!MoveRelative \/ Tool!Jog \/ Tool!HomeBegins \/ Tool!SetConfig
    BY <1>2, <2>5 DEF Tool!Move, Tool!MoveRelative, Tool!Jog, Tool!HomeBegins, Tool!SetConfig,
                      Tool!SameValve, Tool!latches
  <2> QED
    BY <1>5, <2>1, <2>2, <2>3, <2>4, <2>5 DEF Tool!Handle
<1>6. CASE Tool!HandleWaiting
  BY <1>1, <1>3, <1>6 DEF Tool!HandleWaiting, Tool!Urgent
<1>7. CASE Tool!ConnectFails \/ Tool!LinkLost
  BY <1>1, <1>7 DEF Tool!ConnectFails, Tool!LinkLost, Tool!MakeSafe
<1>8. CASE \/ Tool!Wait \/ Tool!HomeEnds \/ Tool!Connect \/ Tool!LinkBreaks \/ Tool!Asleep
           \/ Tool!LinkCloses \/ UNCHANGED Tool!vars
  BY <1>2, <1>8 DEF Tool!Wait, Tool!HomeEnds, Tool!Connect, Tool!LinkBreaks, Tool!Asleep,
                    Tool!LinkCloses, Tool!vars, Tool!latches
<1> QED
  BY <1>4, <1>5, <1>6, <1>7, <1>8 DEF Tool!Next

\* The stand-alone simulator implements the contract, its axis never exceeds
\* its speed, its valve is open exactly while a deadline runs and less than the
\* longest burst, whatever the sessions do (controller_sim.py).
THEOREM ToolIsBounded ==
  ASSUME ToolAssumption
  PROVE  Tool!Spec => Tool!ToolKeepsContract
<1>1. Durations \subseteq Int /\ MaxSpray \in Nat \ {0}
  BY DEF ToolAssumption
<1>2. Tool!Init => SessionTypes /\ AxisTypes /\ ValveTypes
  <2> SUFFICES ASSUME Tool!Init PROVE SessionTypes /\ AxisTypes /\ ValveTypes
    OBVIOUS
  <2>1. Tool!Start \in Limits
    BY DEF ToolAssumption, Tool!Start
  <2>2. lim \in Int \X Int
    BY <2>1 DEF ToolAssumption, Tool!Init
  <2>3. SessionTypes
    <3>1. waiting \in Seq({"estop", "stop"}) /\ Len(waiting) = 0 /\ link = "down"
      BY DEF Tool!Init
    <3> QED
      BY <3>1 DEF SessionTypes, ToolAssumption
  <2>4. AxisTypes
    BY <2>2 DEF AxisTypes, ToolAssumption, Tool!Init, Tool!NoRate
  <2>5. ValveTypes
    <3>1. valve = FALSE /\ valveFor = 0
      BY DEF Tool!Init
    <3>2. valveFor \in Nat /\ ~(valveFor > 0)
      BY <3>1
    <3> QED
      BY <3>1, <3>2, Zenon DEF ValveTypes
  <2> QED
    BY <2>3, <2>4, <2>5
<1>3. SessionTypes /\ AxisTypes /\ ValveTypes /\ [Tool!Next]_(Tool!vars)
        => SessionTypes' /\ AxisTypes' /\ ValveTypes'
  BY SessionKept, AxisKept, ValveKept
<1>4. SessionTypes /\ AxisTypes /\ ValveTypes => Tool!TypeOK
  BY DEF SessionTypes, AxisTypes, ValveTypes, Tool!TypeOK
<1> QED
  BY <1>1, <1>2, <1>3, <1>4, ToolImplements, ToolBurstsEnd, PTL DEF Tool!Spec, Tool!ToolKeepsContract

----------------------------------------------------------------------------
(* How far the simulator in the server runs out of its limits.             *)

ServerAssumption ==
  /\ Top \in Nat /\ MaxSpeed \in Nat /\ Accel \in Nat
  /\ JogTime \in Nat /\ HomingTime \in Nat /\ Late \in Nat

\* What an axis needs to come to rest, below the lower limit and beyond the upper:
\* twice the acceleration times the way out and the square of a rate outward.
RestsLow(p, v) ==
  2 * Accel * (IF p < 0 THEN -p ELSE 0) + (IF v < 0 THEN v * v ELSE 0) <= MaxSpeed * MaxSpeed
Rests(p, v) == RestsLow(p, v) /\ RestsLow(Top - p, -v)

LEMMA Rises == ASSUME NEW A \in Nat, NEW x \in Nat, NEW y \in Nat, x <= y PROVE 2 * A * x <= 2 * A * y
<1>1. PICK z \in Nat : y = x + z
  <2>1. y - x \in Nat /\ y = x + (y - x)
    OBVIOUS
  <2> QED
    BY <2>1
<1>2. A * z \in Nat /\ A * x \in Nat
  OBVIOUS
<1>3. 2 * A * y = 2 * A * x + 2 * (A * z)
  BY <1>1
<1> QED
  BY <1>2, <1>3

LEMMA SquareRises == ASSUME NEW x \in Int, NEW n \in Nat, x \in -n..n PROVE x * x <= n * n
<1>1. PICK a \in 0..n : x * x = a * a
  <2>1. CASE x >= 0
    BY <2>1
  <2>2. CASE x < 0
    <3>1. -x \in 0..n /\ x * x = (-x) * (-x)
      BY <2>2
    <3> QED
      BY <3>1
  <2> QED
    BY <2>1, <2>2
<1>2. PICK b \in Nat : n = a + b
  <2>1. n - a \in Nat /\ n = a + (n - a)
    OBVIOUS
  <2> QED
    BY <2>1
<1>3. a * b \in Nat /\ b * b \in Nat
  OBVIOUS
<1>4. n * n = a * a + 2 * (a * b) + b * b
  BY <1>2
<1> QED
  BY <1>1, <1>3, <1>4

\* A step that brakes takes no more way than its rate allows.
LEMMA Braking ==
  ASSUME NEW A \in Nat, NEW x \in Nat, NEW s \in Nat, A <= s
  PROVE  2 * A * (x + (s - A)) + (s - A) * (s - A) <= 2 * A * x + s * s
<1>1. A * A \in Nat
  OBVIOUS
<1>2. 2 * A * (x + (s - A)) + (s - A) * (s - A) = 2 * A * x + s * s - A * A
  OBVIOUS
<1>3. PICK m \in Int : m = 2 * A * x + s * s
  OBVIOUS
<1> QED
  BY <1>1, <1>2, <1>3

\* An axis that is to turn brakes, and one that goes where it is to go stays
\* short of it: it keeps what it needs to come to rest.
LEMMA LowKept ==
  ASSUME MaxSpeed \in Nat, Accel \in Nat, NEW p \in Int, NEW v \in -MaxSpeed..MaxSpeed,
         NEW t \in Nat, NEW f \in -MaxSpeed..MaxSpeed, RestsLow(p, v),
         p < t /\ f < 0 => f = v + Accel, t < p /\ f < 0 => t < p + f, p # t
  PROVE  RestsLow(p + f, f)
<1>1. CASE p + f >= 0
  <2>1. f * f <= MaxSpeed * MaxSpeed
    BY SquareRises
  <2>2. 2 * Accel * (IF p + f < 0 THEN -(p + f) ELSE 0) = 0
    BY <1>1
  <2>3. 0 <= MaxSpeed * MaxSpeed
    OBVIOUS
  <2> QED
    BY <2>1, <2>2, <2>3 DEF RestsLow
<1>2. CASE p + f < 0 /\ f >= 0
  <2>1. p < 0 /\ -(p + f) \in Nat /\ -p \in Nat /\ -(p + f) <= -p
    BY <1>2
  <2>2. 2 * Accel * (-(p + f)) <= 2 * Accel * (-p)
    BY <2>1, Rises
  <2>3. 0 <= (IF v < 0 THEN v * v ELSE 0) /\ (IF v < 0 THEN v * v ELSE 0) \in Int
    OBVIOUS
  <2>4. 2 * Accel * (-p) <= MaxSpeed * MaxSpeed
    BY <2>1, <2>3 DEF RestsLow
  <2> QED
    BY <1>2, <2>2, <2>4 DEF RestsLow
<1>3. CASE p + f < 0 /\ f < 0
  <2>1. f = v + Accel /\ v < 0
    BY <1>3
  <2>2. PICK x \in Nat : x = IF p < 0 THEN -p ELSE 0
    OBVIOUS
  <2>3. PICK s \in Nat : s = -v /\ Accel <= s /\ s - Accel = -f
    BY <1>3, <2>1
  <2>4. 2 * Accel * (x + (s - Accel)) + (s - Accel) * (s - Accel) <= 2 * Accel * x + s * s
    BY <2>3, Braking
  <2>5. s * s = v * v /\ (s - Accel) * (s - Accel) = f * f
    BY <2>3
  <2>6. 2 * Accel * x + v * v <= MaxSpeed * MaxSpeed
    BY <2>1, <2>2 DEF RestsLow
  <2>7. -(p + f) \in Nat /\ x + (s - Accel) \in Nat /\ -(p + f) <= x + (s - Accel)
    BY <1>3, <2>2, <2>3
  <2>8. 2 * Accel * (-(p + f)) <= 2 * Accel * (x + (s - Accel))
    BY <2>7, Rises
  <2>9. PICK k \in Int, m \in Int, n \in Int, q \in Int, o \in Int :
          /\ k = 2 * Accel * (-(p + f)) /\ m = 2 * Accel * (x + (s - Accel))
          /\ n = f * f /\ q = 2 * Accel * x + v * v /\ o = MaxSpeed * MaxSpeed
    OBVIOUS
  <2>10. k <= m /\ m + n <= q /\ q <= o
    BY <2>4, <2>5, <2>6, <2>8, <2>9
  <2>11. k + n <= o
    BY <2>10
  <2> QED
    BY <1>3, <2>9, <2>11 DEF RestsLow
<1> QED
  BY <1>1, <1>2, <1>3


\* A new rate lies between the rate and the one to be approached; a rate the
\* wrong way is lowered by all of the acceleration.
LEMMA FasterIs ==
  ASSUME ServerAssumption, NEW p \in Int, NEW v \in -MaxSpeed..MaxSpeed, NEW t \in Int, p # t,
         NEW f, f = v + Server!Between(-Accel, Server!Sign(t - p) * Server!Approach(Server!Abs(t - p)) - v, Accel)
  PROVE  /\ f \in -MaxSpeed..MaxSpeed
         /\ p < t /\ f < 0 => f = v + Accel
         /\ t < p /\ f > 0 => f = v - Accel
<1> USE DEF ServerAssumption
<1>1. Server!Abs(t - p) \in Nat
  BY DEF Server!Abs, Server!Sign
<1>2. PICK a \in 0..MaxSpeed : a = Server!Approach(Server!Abs(t - p))
  <2>1. \A d \in Nat : Server!Approach(d) = Tool!Approach(d)
    BY DEF Server!Approach, Tool!Approach
  <2>2. \A d \in Nat : Tool!Approach(d) \in 0..MaxSpeed
    BY ApproachIsRate
  <2> QED
    BY <1>1, <2>1, <2>2
<1>3. CASE p < t
  <2>1. f = v + Server!Between(-Accel, a - v, Accel)
    BY <1>2, <1>3 DEF Server!Sign
  <2> QED
    BY <1>3, <2>1 DEF Server!Between
<1>4. CASE t < p
  <2>1. f = v + Server!Between(-Accel, -a - v, Accel)
    BY <1>2, <1>4 DEF Server!Sign
  <2> QED
    BY <1>4, <2>1 DEF Server!Between
<1> QED
  BY <1>3, <1>4

\* One step of _advance_axis.
LEMMA AxisRests ==
  ASSUME ServerAssumption, NEW p \in Int, NEW v \in -MaxSpeed..MaxSpeed, NEW t \in 0..Top, Rests(p, v)
  PROVE  /\ Server!AdvanceAxis(p, v, t).pos \in Int
         /\ Server!AdvanceAxis(p, v, t).rate \in -MaxSpeed..MaxSpeed
         /\ Rests(Server!AdvanceAxis(p, v, t).pos, Server!AdvanceAxis(p, v, t).rate)
<1> USE DEF ServerAssumption
<1> DEFINE f == v + Server!Between(-Accel, Server!Sign(t - p) * Server!Approach(Server!Abs(t - p)) - v, Accel)
           there == t - p = 0 \/ (f * (t - p) > 0 /\ Server!Abs(f) >= Server!Abs(t - p))
           next == Server!AdvanceAxis(p, v, t)
<1>1. next = IF there THEN [pos |-> t, rate |-> 0, done |-> TRUE]
                      ELSE [pos |-> p + f, rate |-> f, done |-> FALSE]
  BY DEF Server!AdvanceAxis
<1>2. CASE there
  <2>1. next.pos = t /\ next.rate = 0
    BY <1>1, <1>2
  <2>2. 0 <= MaxSpeed * MaxSpeed
    OBVIOUS
  <2>3. Rests(t, 0)
    BY <2>2 DEF Rests, RestsLow
  <2>4. next.pos \in Int /\ next.rate \in -MaxSpeed..MaxSpeed /\ Rests(next.pos, next.rate)
    BY <2>1, <2>3
  <2> QED
    BY <2>4
<1>3. CASE ~there
  <2>1. p # t
    BY <1>3
  <2>2. /\ f \in -MaxSpeed..MaxSpeed
        /\ p < t /\ f < 0 => f = v + Accel
        /\ t < p /\ f > 0 => f = v - Accel
    BY <2>1, FasterIs
  <2>3. next.pos = p + f /\ next.rate = f
    BY <1>1, <1>3
  <2>4. ~(f * (t - p) > 0 /\ Server!Abs(f) >= Server!Abs(t - p))
    BY <1>3
  <2> HIDE DEF f, there, next
  <2>5. t < p /\ f < 0 => t < p + f
    <3>1. SUFFICES ASSUME t < p, f < 0 PROVE t < p + f
      OBVIOUS
    <3>2. f * (t - p) > 0
      <4>1. PICK m \in Nat \ {0}, n \in Nat \ {0} : f = -m /\ t - p = -n
        <5>1. -f \in Nat \ {0} /\ -(t - p) \in Nat \ {0}
          BY <2>2, <3>1
        <5> QED
          BY <5>1, <2>2
      <4>2. m * n > 0
        OBVIOUS
      <4> QED
        BY <4>1, <4>2
    <3>3. Server!Abs(f) = -f /\ Server!Abs(t - p) = p - t
      BY <2>2, <3>1 DEF Server!Abs, Server!Sign
    <3> QED
      BY <2>2, <2>4, <3>1, <3>2, <3>3
  <2>6. p < t /\ f > 0 => p + f < t
    <3>1. SUFFICES ASSUME p < t, f > 0 PROVE p + f < t
      OBVIOUS
    <3>2. f * (t - p) > 0
      <4>1. PICK m \in Nat \ {0}, n \in Nat \ {0} : f = m /\ t - p = n
        BY <2>2, <3>1
      <4>2. m * n > 0
        OBVIOUS
      <4> QED
        BY <4>1, <4>2
    <3>3. Server!Abs(f) = f /\ Server!Abs(t - p) = t - p
      BY <2>2, <3>1 DEF Server!Abs, Server!Sign
    <3> QED
      BY <2>2, <2>4, <3>1, <3>2, <3>3
  <2>7. RestsLow(p + f, f)
    BY <2>1, <2>2, <2>5, LowKept DEF Rests
  <2>8. RestsLow(Top - (p + f), -f)
    <3>1. /\ Top - p \in Int /\ -v \in -MaxSpeed..MaxSpeed /\ Top - t \in Nat /\ -f \in -MaxSpeed..MaxSpeed
          /\ Top - p < Top - t /\ -f < 0 => -f = -v + Accel
          /\ Top - t < Top - p /\ -f < 0 => Top - t < Top - p + -f
          /\ Top - p # Top - t
      BY <2>1, <2>2, <2>6
    <3>2. RestsLow(Top - p, -v) /\ MaxSpeed \in Nat /\ Accel \in Nat
      BY DEF Rests
    <3>3. RestsLow((Top - p) + -f, -f)
      BY <3>1, <3>2, LowKept
    <3>4. (Top - p) + -f = Top - (p + f)
      BY <2>2
    <3> QED
      BY <3>3, <3>4
  <2>9. next.pos \in Int /\ next.rate \in -MaxSpeed..MaxSpeed /\ Rests(next.pos, next.rate)
    BY <2>2, <2>3, <2>7, <2>8 DEF Rests
  <2> QED
    BY <2>9 DEF next
<1> QED
  BY <1>2, <1>3

\* Inside the limits any rate can be braked, and anywhere one that is still.
LEMMA RestsInside ==
  ASSUME ServerAssumption, NEW p \in 0..Top, NEW v \in -MaxSpeed..MaxSpeed
  PROVE  Rests(p, v)
<1> USE DEF ServerAssumption
<1>1. v * v <= MaxSpeed * MaxSpeed /\ (-v) * (-v) <= MaxSpeed * MaxSpeed
  <2>1. -v \in -MaxSpeed..MaxSpeed
    OBVIOUS
  <2> QED
    BY <2>1, SquareRises
<1>2. 0 <= MaxSpeed * MaxSpeed
  OBVIOUS
<1> QED
  BY <1>1, <1>2 DEF Rests, RestsLow

LEMMA RestsStill ==
  ASSUME ServerAssumption, NEW p \in Int, NEW v \in -MaxSpeed..MaxSpeed, Rests(p, v)
  PROVE  Rests(p, 0)
<1> USE DEF ServerAssumption
<1>1. v * v >= 0 /\ (-v) * (-v) >= 0
  OBVIOUS
<1>2. PICK k \in Int : k = 2 * Accel * (IF p < 0 THEN -p ELSE 0)
  OBVIOUS
<1>3. PICK m \in Int : m = 2 * Accel * (IF Top - p < 0 THEN -(Top - p) ELSE 0)
  OBVIOUS
<1>4. k <= MaxSpeed * MaxSpeed
  BY <1>1, <1>2 DEF Rests, RestsLow
<1>5. m <= MaxSpeed * MaxSpeed
  BY <1>1, <1>3 DEF Rests, RestsLow
<1> QED
  BY <1>2, <1>3, <1>4, <1>5 DEF Rests, RestsLow

LEMMA RestsBounds ==
  ASSUME ServerAssumption, NEW p \in Int, NEW v \in -MaxSpeed..MaxSpeed, Rests(p, v)
  PROVE  2 * Accel * Server!Beyond(p) <= MaxSpeed * MaxSpeed
<1> USE DEF ServerAssumption
<1>1. Rests(p, 0)
  BY RestsStill
<1>2. CASE p < 0
  <2>1. 2 * Accel * (-p) + 0 <= MaxSpeed * MaxSpeed
    BY <1>1, <1>2 DEF Rests, RestsLow
  <2> QED
    BY <1>2, <2>1 DEF Server!Beyond
<1>3. CASE p > Top
  <2>1. 2 * Accel * (-(Top - p)) + 0 <= MaxSpeed * MaxSpeed
    BY <1>1, <1>3 DEF Rests, RestsLow
  <2>2. -(Top - p) = p - Top
    OBVIOUS
  <2> QED
    BY <1>3, <2>1, <2>2 DEF Server!Beyond
<1>4. CASE 0 <= p /\ p <= Top
  <2>1. Server!Beyond(p) = 0 /\ 0 <= MaxSpeed * MaxSpeed
    BY <1>4 DEF Server!Beyond
  <2> QED
    BY <2>1
<1> QED
  BY <1>2, <1>3, <1>4


\* A jog stays inside the limits, and every axis can come to rest; a deadline
\* that is not left behind belongs to the state that says so.
JogsInside == jogFor > 0 => target = Server!None /\ \A a \in Axes : pos[a] \in 0..Top
AllRest == \A a \in Axes : Rests(pos[a], rate[a])
StatesSay ==
  /\ homingFor > 0 => state = "HOMING" /\ target = Server!None
  /\ jogFor > 0 /\ rate # Server!Still => state \in {"JOGGING", "HOMING"}
  /\ target # Server!None => state = "MOVING"
ServerInv == Server!TypeOK /\ JogsInside /\ AllRest /\ (~lost => StatesSay)

LEMMA ServerInvInit == ServerAssumption /\ Server!Init => ServerInv
<1> SUFFICES ASSUME ServerAssumption, Server!Init PROVE ServerInv
  OBVIOUS
<1>1. /\ pos = [a \in Axes |-> 0] /\ rate = [a \in Axes |-> 0] /\ target = Server!None
      /\ jogFor = 0 /\ homingFor = 0
  BY DEF Server!Init, Server!Still
<1>2. 0 \in -MaxSpeed..MaxSpeed /\ 0 \in 0..Top
  BY DEF ServerAssumption
<1>3. Server!TypeOK
  BY <1>1, <1>2 DEF Server!TypeOK, Server!Rates, ServerAssumption
<1>4. AllRest
  BY <1>1, <1>2, RestsInside DEF AllRest
<1> QED
  BY <1>1, <1>3, <1>4 DEF ServerInv, JogsInside, StatesSay

\* What only leaves positions as they are and the rates or stops them.
LEMMA RestsStay ==
  ASSUME ServerAssumption, Server!TypeOK, AllRest, pos' = pos, rate' = rate \/ rate' = Server!Still
  PROVE  AllRest' /\ rate' \in [Axes -> Server!Rates]
<1>1. CASE rate' = rate
  BY <1>1 DEF AllRest, Server!TypeOK
<1>2. CASE rate' = Server!Still
  <2>1. rate' = [a \in Axes |-> 0] /\ 0 \in -MaxSpeed..MaxSpeed
    BY <1>2 DEF Server!Still, ServerAssumption
  <2>2. ASSUME NEW a \in Axes PROVE Rests(pos'[a], rate'[a])
    <3>1. pos[a] \in Int /\ rate[a] \in -MaxSpeed..MaxSpeed /\ Rests(pos[a], rate[a])
      BY DEF AllRest, Server!TypeOK, Server!Rates
    <3>2. Rests(pos[a], 0)
      BY <3>1, RestsStill
    <3> QED
      BY <2>1, <3>2
  <2> QED
    BY <2>1, <2>2 DEF AllRest, Server!Rates
<1> QED
  BY <1>1, <1>2

\* The commands.
LEMMA ServerCommands ==
  ASSUME ServerAssumption, ServerInv,
         \/ Server!Move \/ Server!Stop \/ Server!EmergencyStop \/ Server!Spray
         \/ Server!SprayStop \/ Server!ArmOutput \/ Server!Reboot \/ UNCHANGED Server!vars
         \/ \E axes \in SUBSET Axes : axes # {} /\ Server!Home(axes)
  PROVE  ServerInv' /\ pos' = pos
<1> USE DEF ServerInv, Server!motion, Server!latches
<1>1. pos' = pos
  BY DEF Server!Move, Server!Stop, Server!EmergencyStop, Server!Spray, Server!SprayStop, Server!ArmOutput,
         Server!Reboot, Server!vars, Server!Home
<1>2. rate' = rate \/ rate' = Server!Still
  BY DEF Server!Move, Server!Stop, Server!EmergencyStop, Server!Spray, Server!SprayStop, Server!ArmOutput,
         Server!Reboot, Server!vars, Server!Home, Server!Halt
<1>3. AllRest' /\ rate' \in [Axes -> Server!Rates]
  BY <1>1, <1>2, RestsStay
<1>4. CASE Server!Move
  <2>1. PICK t \in [Axes -> Server!Places] : target' = t
    BY <1>4 DEF Server!Move
  <2>2. /\ jogFor' = 0 /\ state' = "MOVING" /\ lost' = (homingFor > 0) /\ homingFor' = homingFor
    BY <1>4 DEF Server!Move
  <2>3. Server!TypeOK'
    BY <1>1, <1>3, <2>1, <2>2 DEF Server!TypeOK, ServerAssumption
  <2>4. JogsInside' /\ (~lost' => StatesSay')
    <3>1. ~lost' => ~(homingFor > 0)
      BY <2>2, Zenon
    <3>2. ~(jogFor' > 0) /\ state' = "MOVING" /\ homingFor' = homingFor
      BY <2>2
    <3> QED
      BY <3>1, <3>2, Zenon DEF JogsInside, StatesSay
  <2> QED
    BY <1>1, <1>3, <2>3, <2>4
<1>5. CASE Server!Stop \/ Server!EmergencyStop
  <2>1. target' = Server!None /\ rate' = Server!Still /\ jogFor' = 0 /\ homingFor' = 0
    BY <1>5 DEF Server!Stop, Server!EmergencyStop, Server!Halt
  <2> QED
    BY <1>1, <1>3, <2>1 DEF Server!TypeOK, JogsInside, StatesSay, ServerAssumption
<1>6. CASE Server!Spray \/ Server!SprayStop \/ Server!ArmOutput \/ UNCHANGED Server!vars
  <2>1. UNCHANGED <<state, pos, rate, target, jogFor, homingFor, lost>>
    BY <1>6 DEF Server!Spray, Server!SprayStop, Server!ArmOutput, Server!vars
  <2> QED
    BY <1>3, <2>1 DEF Server!TypeOK, JogsInside, StatesSay
<1>7. CASE Server!Reboot
  <2>1. /\ target' = Server!None /\ rate' = Server!Still /\ lost' = (homingFor > 0)
        /\ UNCHANGED <<jogFor, homingFor>>
    BY <1>7 DEF Server!Reboot
  <2> QED
    BY <1>1, <1>3, <2>1 DEF Server!TypeOK, JogsInside, StatesSay
<1>8. CASE \E axes \in SUBSET Axes : axes # {} /\ Server!Home(axes)
  <2>1. target' = Server!None /\ state' = "HOMING" /\ homingFor' = HomingTime /\ jogFor' = jogFor
    BY <1>8 DEF Server!Home
  <2> QED
    BY <1>1, <1>3, <2>1 DEF Server!TypeOK, JogsInside, StatesSay, ServerAssumption
<1> QED
  BY <1>1, <1>4, <1>5, <1>6, <1>7, <1>8

LEMMA ServerJogs == ASSUME ServerAssumption, ServerInv, Server!Jog PROVE ServerInv' /\ pos' = pos
<1> USE DEF ServerInv, ServerAssumption
<1>1. PICK r \in [Axes -> Server!Rates] : rate' = r /\ state' = IF r = Server!Still THEN "IDLE" ELSE "JOGGING"
  BY DEF Server!Jog
<1>2. /\ pos \in [Axes -> Server!Places] /\ pos' = pos /\ target' = Server!None /\ jogFor' = JogTime
      /\ lost' = (homingFor > 0) /\ homingFor' = homingFor
  BY DEF Server!Jog
<1>3. Server!TypeOK'
  BY <1>1, <1>2 DEF Server!TypeOK, Server!Places
<1>4. JogsInside'
  BY <1>2 DEF JogsInside, Server!Places
<1>5. AllRest'
  <2>1. ASSUME NEW a \in Axes PROVE Rests(pos'[a], rate'[a])
    <3>1. pos'[a] \in 0..Top /\ rate'[a] \in -MaxSpeed..MaxSpeed
      BY <1>1, <1>2 DEF Server!Places, Server!Rates
    <3> QED
      BY <3>1, RestsInside
  <2> QED
    BY <2>1 DEF AllRest
<1>6. ~lost' => StatesSay'
  BY <1>1, <1>2 DEF StatesSay, Server!TypeOK
<1> QED
  BY <1>2, <1>3, <1>4, <1>5, <1>6

\* A tick while homing is under way.
LEMMA ServerHomes ==
  ASSUME ServerAssumption, ServerInv, NEW d \in 1..Late, Server!Homing(d)
  PROVE  ServerInv' /\ (pos' # pos /\ ~lost => state = "HOMING")
<1> USE DEF ServerInv, ServerAssumption
<1>1. /\ homingFor > 0 /\ homingFor' = Server!Left(homingFor, d) /\ lost' = lost
      /\ jogFor' = IF jogFor > 0 THEN Server!Left(jogFor - 1, d) + 1 ELSE 0
  BY DEF Server!Homing
<1>2. homingFor' \in 0..HomingTime /\ jogFor' \in 0..JogTime /\ (jogFor' > 0 => jogFor > 0)
  BY <1>1 DEF Server!TypeOK, Server!Left
<1>3. CASE homingFor > d
  <2>1. UNCHANGED <<state, pos, rate, target>>
    BY <1>3 DEF Server!Homing, Server!motion
  <2> QED
    BY <1>1, <1>2, <2>1 DEF Server!TypeOK, JogsInside, AllRest, StatesSay
<1>4. CASE ~(homingFor > d)
  <2>1. /\ pos' = [a \in Axes |-> IF a \in homingAxes THEN 0 ELSE pos[a]]
        /\ rate' = [a \in Axes |-> 0] /\ rate' = Server!Still /\ state' = "IDLE" /\ target' = target
    BY <1>4 DEF Server!Homing, Server!Still
  <2>2. homingFor' = 0
    BY <1>1, <1>4 DEF Server!Left
  <2>3. 0 \in 0..Top /\ 0 \in -MaxSpeed..MaxSpeed
    OBVIOUS
  <2>4. Server!TypeOK'
    BY <1>2, <2>1, <2>3 DEF Server!TypeOK, Server!Rates
  <2>5. JogsInside'
    BY <1>2, <2>1, <2>3 DEF JogsInside
  <2>6. ASSUME NEW a \in Axes PROVE Rests(pos'[a], rate'[a])
    <3>1. rate'[a] = 0 /\ pos'[a] = IF a \in homingAxes THEN 0 ELSE pos[a]
      BY <2>1
    <3>2. Rests(0, 0)
      BY <2>3, RestsInside
    <3>3. Rests(pos[a], 0)
      BY RestsStill DEF AllRest, Server!TypeOK, Server!Rates
    <3> QED
      BY <3>1, <3>2, <3>3
  <2>7. ~lost' => StatesSay'
    BY <1>1, <2>1, <2>2 DEF StatesSay
  <2> QED
    BY <1>1, <2>4, <2>5, <2>6, <2>7 DEF AllRest, StatesSay
<1> QED
  BY <1>3, <1>4

\* A tick that advances a jog, a move and the valve.
LEMMA ServerRuns ==
  ASSUME ServerAssumption, ServerInv, NEW d \in 1..Late, Server!Running(d)
  PROVE  ServerInv' /\ (pos' # pos /\ ~lost => state \in {"MOVING", "JOGGING", "HOMING"})
<1> USE DEF ServerInv, ServerAssumption
<1>1. homingFor = 0 /\ homingFor' = 0 /\ lost' = lost /\ Server!Drive(d)
  BY DEF Server!Running
<1>2. CASE jogFor > d
  <2>1. /\ pos' = [a \in Axes |-> Server!Within(pos[a] + rate[a])]
        /\ jogFor' = jogFor - d /\ UNCHANGED <<rate, target, state>>
    BY <1>1, <1>2 DEF Server!Drive
  <2>2. ASSUME NEW a \in Axes PROVE pos'[a] \in 0..Top /\ rate'[a] \in -MaxSpeed..MaxSpeed
    BY <2>1 DEF Server!TypeOK, Server!Rates, Server!Within
  <2>3. Server!TypeOK'
    <3>1. ASSUME NEW a \in Axes PROVE Server!Within(pos[a] + rate[a]) \in Int
      BY DEF Server!TypeOK, Server!Rates, Server!Within
    <3>2. jogFor' \in 0..JogTime
      BY <1>2, <2>1 DEF Server!TypeOK
    <3> QED
      BY <1>1, <2>1, <3>1, <3>2 DEF Server!TypeOK
  <2>4. jogFor > 0
    BY <1>2 DEF Server!TypeOK
  <2>5. AllRest'
    BY <2>2, RestsInside DEF AllRest
  <2>6. JogsInside'
    BY <2>1, <2>2, <2>4 DEF JogsInside
  <2>7. ~lost' => StatesSay'
    BY <1>1, <2>1, <2>4 DEF StatesSay
  <2>8. pos' # pos => rate # Server!Still
    <3>1. SUFFICES ASSUME rate = Server!Still PROVE pos' = pos
      OBVIOUS
    <3>2. ASSUME NEW a \in Axes PROVE Server!Within(pos[a] + rate[a]) = pos[a]
      BY <2>4, <3>1 DEF JogsInside, Server!Still, Server!Within
    <3> QED
      BY <2>1, <3>2 DEF Server!TypeOK
  <2> QED
    BY <1>1, <2>3, <2>4, <2>5, <2>6, <2>7, <2>8 DEF StatesSay
<1>3. CASE jogFor > 0 /\ ~(jogFor > d)
  <2>1. jogFor' = 0 /\ rate' = Server!Still /\ state' = "IDLE" /\ UNCHANGED <<pos, target>>
    BY <1>1, <1>3 DEF Server!Drive, Server!JogExpires
  <2>2. AllRest' /\ rate' \in [Axes -> Server!Rates]
    BY <2>1, RestsStay
  <2> QED
    BY <1>1, <1>3, <2>1, <2>2 DEF Server!TypeOK, JogsInside, StatesSay
<1>4. CASE jogFor = 0 /\ target # Server!None
  <2> DEFINE next == [a \in Axes |-> Server!AdvanceAxis(pos[a], rate[a], target[a])]
             there == \A a \in Axes : next[a].done
  <2>0. ~(jogFor > d) /\ ~(jogFor > 0)
    BY <1>4
  <2>1. /\ pos' = [a \in Axes |-> next[a].pos] /\ rate' = [a \in Axes |-> next[a].rate]
        /\ target' = (IF there THEN Server!None ELSE target)
        /\ state' = (IF there THEN "IDLE" ELSE state) /\ jogFor' = jogFor
    BY <1>1, <1>4, <2>0, Zenon DEF Server!Drive
  <2>2. ASSUME NEW a \in Axes
        PROVE  /\ next[a].pos \in Int /\ next[a].rate \in -MaxSpeed..MaxSpeed
               /\ Rests(next[a].pos, next[a].rate)
    <3>1. /\ pos[a] \in Int /\ rate[a] \in -MaxSpeed..MaxSpeed /\ target[a] \in 0..Top
          /\ Rests(pos[a], rate[a])
      BY <1>4 DEF Server!TypeOK, Server!Rates, Server!Places, AllRest
    <3>2. next[a] = Server!AdvanceAxis(pos[a], rate[a], target[a])
      OBVIOUS
    <3>3. /\ Server!AdvanceAxis(pos[a], rate[a], target[a]).pos \in Int
          /\ Server!AdvanceAxis(pos[a], rate[a], target[a]).rate \in -MaxSpeed..MaxSpeed
          /\ Rests(Server!AdvanceAxis(pos[a], rate[a], target[a]).pos,
                   Server!AdvanceAxis(pos[a], rate[a], target[a]).rate)
      BY <3>1, AxisRests
    <3> QED
      BY <3>2, <3>3
  <2> HIDE DEF next, there
  <2>3. pos' \in [Axes -> Int] /\ rate' \in [Axes -> Server!Rates]
    BY <2>1, <2>2 DEF Server!Rates
  <2>4. AllRest'
    BY <2>1, <2>2 DEF AllRest
  <2>5. target' = Server!None \/ (target' = target /\ state' = state)
    BY <2>1, Zenon
  <2>6. Server!TypeOK'
    BY <1>1, <1>4, <2>1, <2>3, <2>5 DEF Server!TypeOK
  <2>7. JogsInside' /\ (~lost' => StatesSay')
    BY <1>1, <1>4, <2>1, <2>5 DEF JogsInside, StatesSay
  <2> QED
    BY <1>4, <2>4, <2>6, <2>7 DEF StatesSay
<1>5. CASE jogFor = 0 /\ target = Server!None
  <2>1. UNCHANGED <<pos, rate, target, state, jogFor>>
    BY <1>1, <1>5 DEF Server!Drive, Server!motion
  <2> QED
    BY <1>1, <2>1 DEF Server!TypeOK, JogsInside, AllRest, StatesSay
<1>6. jogFor > d \/ (jogFor > 0 /\ ~(jogFor > d)) \/ jogFor = 0
  BY DEF Server!TypeOK
<1> QED
  BY <1>2, <1>3, <1>4, <1>5, <1>6

LEMMA ServerInvStep ==
  ServerAssumption /\ ServerInv /\ [Server!Next]_(Server!vars)
    => ServerInv' /\ (pos' # pos /\ ~lost => state \in {"MOVING", "JOGGING", "HOMING"})
<1> SUFFICES ASSUME ServerAssumption, ServerInv, [Server!Next]_(Server!vars)
             PROVE  ServerInv' /\ (pos' # pos /\ ~lost => state \in {"MOVING", "JOGGING", "HOMING"})
  OBVIOUS
<1>1. CASE Server!Tick
  <2>1. PICK d \in 1..Late : Server!Homing(d) \/ Server!Running(d)
    BY <1>1 DEF Server!Tick
  <2> QED
    BY <2>1, ServerHomes, ServerRuns
<1>2. CASE Server!Jog
  BY <1>2, ServerJogs
<1>3. CASE \/ Server!Move \/ Server!Stop \/ Server!EmergencyStop \/ Server!Spray
           \/ Server!SprayStop \/ Server!ArmOutput \/ Server!Reboot \/ UNCHANGED Server!vars
           \/ \E axes \in SUBSET Axes : axes # {} /\ Server!Home(axes)
  BY <1>3, ServerCommands
<1> QED
  BY <1>1, <1>2, <1>3 DEF Server!Next

\* The simulator in the server, for every bound, speed and time: it leaves its
\* limits no further than it brakes, moves only in a state that says so, and
\* keeps the contract (_advance, _advance_axis, send_text).
THEOREM SimulatorIsSettled == ASSUME ServerAssumption PROVE Server!Spec => Server!Settled
<1>1. Server!Init => ServerInv
  BY ServerInvInit
<1>2. ServerInv /\ [Server!Next]_(Server!vars)
    => ServerInv' /\ (pos' # pos /\ ~lost => state \in {"MOVING", "JOGGING", "HOMING"})
  BY ServerInvStep
<1>3. ServerInv => Server!TypeOK /\ Server!BrakesInTime
  <2> SUFFICES ASSUME ServerInv PROVE Server!BrakesInTime
    BY DEF ServerInv
  <2>1. ASSUME NEW a \in Axes PROVE 2 * Accel * Server!Beyond(pos[a]) <= MaxSpeed * MaxSpeed
    BY RestsBounds DEF ServerInv, AllRest, Server!TypeOK, Server!Rates
  <2> QED
    BY <2>1 DEF Server!BrakesInTime
<1>4. ServerInv /\ [Server!Next]_(Server!vars)
    => [pos' # pos /\ ~lost => state \in {"MOVING", "JOGGING", "HOMING"}]_(Server!vars)
  BY <1>2
<1>5. Server!Spec => [](Server!TypeOK /\ Server!BrakesInTime) /\ Server!MoveReported
  BY <1>1, <1>2, <1>3, <1>4, PTL DEF Server!Spec, Server!MoveReported
<1> QED
  BY <1>5, SimulatorImplements, PTL DEF Server!Settled
=============================================================================
