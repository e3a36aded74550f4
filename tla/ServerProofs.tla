---------------------------- MODULE ServerProofs ----------------------------
(***************************************************************************)
(* Parts of the server that keep two things in step through interleaved    *)
(* requests and failures, each with an inductive invariant of its own: the *)
(* update helper (WebUpdate: its type invariant and what its reports say,  *)
(* for every number of commits and whichever of them do not come up), the  *)
(* tables the turret is aimed with (AimPoint), the events the browsers are *)
(* told of (EventFeed), the runs of the trainer that comes with a dataset  *)
(* (Trainer), the captures under review and clean-up (Captures) and the    *)
(* images taken of the detections (Evidence).  The parts share no state.   *)
(***************************************************************************)
EXTENDS WebUpdate, Sequences, FiniteSets, FiniteSetTheorems, SequenceTheorems, WellFoundedInduction,
        NaturalsInduction, TLAPS

\* From the moment the helper has read the commit it is to update, until it
\* reports, the checkout or the note of fetch_code is still that commit.
\* What stands at the end of an installation stands until it is reported.
Before == install \in {"off", "begun", "noted"}

\* How the helper's installation ended, from its end to the report.
Ended(how) == ended = how /\ (install = "done" \/ helper = "result")

Restorable ==
    /\ helper \in {"taken", "checked"} => repo = current
    /\ helper = "install" /\ Before => repo = current
    /\ install = "back" => repo = current
    /\ install \in {"noted", "fetched", "restarted"} => rollback = current
    /\ install = "begun" => rollback = None

Concluded ==
    /\ Ended("ok") => running = repo
    /\ Ended("failed") \/ Ended("rolled") => repo = current

\* A server that is up is of a commit that comes up, so that a crash after
\* the verification brings the same one back.
UpIsSound == running # None => running \notin Broken

IInv == TypeOK /\ Restorable /\ Concluded /\ UpIsSound

----------------------------------------------------------------------------
\* The initial state satisfies the invariant.
LEMMA InitInv == Init => IInv
<1> SUFFICES ASSUME Init PROVE IInv OBVIOUS
<1>1. 0 \in Commits /\ 0 \notin Broken BY CommitsAssumption DEF Commits
<1>2. TypeOK BY <1>1 DEF Init, TypeOK
<1>3. Restorable /\ Concluded BY DEF Init, Restorable, Concluded, Ended, Before
<1>4. UpIsSound BY <1>1 DEF Init, UpIsSound
<1> QED BY <1>2, <1>3, <1>4 DEF IInv

\* The files and the server's own work touch no commit and no stage.
LEMMA Frame ==
    ASSUME IInv, UNCHANGED <<remote, repo, running, helper, current, install, rollback, ended>>,
           available' \in {"unknown", "yes", "no"}, check' \subseteq Commits,
           status' \in Running \cup {"idle", "succeeded", "failed"},
           aged' \in BOOLEAN, request' \in BOOLEAN,
           web' \in {"idle", "free", "written", "unlinked"}, abandoned' \in BOOLEAN
    PROVE  IInv'
<1>1. TypeOK' BY DEF IInv, TypeOK
<1>2. Restorable' /\ Concluded' /\ UpIsSound'
  BY DEF IInv, Restorable, Concluded, Ended, Before, UpIsSound
<1> QED BY <1>1, <1>2 DEF IInv

\* The steps of the server's process and of time change no commit and no
\* stage of an update.
LEMMA ServerInv ==
    ASSUME IInv, CheckBegins \/ CheckEnds \/ StartUpdate \/ Requesting \/ Age
    PROVE  IInv'
<1> USE DEF TypeOK, Running, version, files, code, updating, installs
<1>0. TypeOK BY DEF IInv
<1>1. CASE CheckBegins BY <1>0, <1>1, Frame DEF CheckBegins
<1>2. CASE CheckEnds
  <2>1. PICK c \in check : /\ available' \in {"unknown", IF c = remote THEN "no" ELSE "yes"}
                           /\ check' \in {check, check \ {c}}
    BY <1>2 DEF CheckEnds
  <2>2. available' \in {"unknown", "yes", "no"} /\ check' \subseteq Commits BY <1>0, <2>1
  <2> QED BY <1>0, <1>2, <2>2, Frame DEF CheckEnds
<1>3. CASE StartUpdate BY <1>0, <1>3, Frame DEF StartUpdate
<1>4. CASE Requesting
  <2>1. CASE WriteStarting BY <1>0, <2>1, Frame DEF WriteStarting
  <2>2. CASE UnlinkStale BY <1>0, <2>2, Frame DEF UnlinkStale
  <2>3. CASE MakeRequest BY <1>0, <2>3, Frame DEF MakeRequest
  <2>4. CASE RequestFails BY <1>0, <2>4, Frame DEF RequestFails
  <2> QED BY <1>4, <2>1, <2>2, <2>3, <2>4 DEF Requesting
<1>5. CASE Age BY <1>0, <1>5, Frame DEF Age
<1> QED BY <1>1, <1>2, <1>3, <1>4, <1>5

\* What comes up runs the checkout, or nothing runs.
LEMMA StartsSound ==
    ASSUME NEW gone \in BOOLEAN, TypeOK, ServerStarts(gone)
    PROVE  /\ running' \in Commits \cup {None} /\ available' \in {"unknown", "yes", "no"}
           /\ check' \subseteq Commits /\ web' = "idle" /\ abandoned' \in BOOLEAN
           /\ (running = repo /\ repo \notin Broken => running' = repo)
           /\ (running' # None => running' = repo /\ repo \notin Broken)
BY DEF ServerStarts, TypeOK

\* Each stage of the installation.
LEMMA InstallInv ==
    ASSUME IInv, InstallStep
    PROVE  IInv'
<1> USE DEF IInv, TypeOK, Restorable, Concluded, Ended, Before, UpIsSound, Running, At,
            version, files, code, updating, installs
<1>1. CASE Note BY <1>1 DEF Note, Noted
<1>2. CASE Fetch BY <1>2 DEF Fetch
<1>3. CASE RestartService
  <2>1. ServerStarts(FALSE) BY <1>3 DEF RestartService
  <2>2. TypeOK OBVIOUS
  <2>3. running' \in Commits \cup {None} /\ available' \in {"unknown", "yes", "no"}
        /\ check' \subseteq Commits /\ web' = "idle" /\ abandoned' \in BOOLEAN
        /\ (running' # None => running' = repo /\ repo \notin Broken)
    BY <2>1, <2>2, StartsSound
  <2> QED BY <1>3, <2>3 DEF RestartService
<1>4. CASE Verify BY <1>4 DEF Verify, Verified
<1>5. CASE OnError
  <2>1. CASE MayGoBack /\ repo' = rollback /\ install' = "back" /\ UNCHANGED ended
    BY <1>5, <2>1 DEF OnError, MayGoBack
  <2>2. CASE MayGoBack /\ ended' = "stopped" /\ install' = "done" /\ UNCHANGED repo
    BY <1>5, <2>2 DEF OnError, MayGoBack
  <2>3. CASE ~MayGoBack /\ ended' = "failed" /\ install' = "done" /\ UNCHANGED repo
    <3>1. install = "begun"
      BY <1>5, <2>3, CommitsAssumption DEF OnError, MayGoBack, Commits, None
    <3> QED BY <1>5, <2>3, <3>1 DEF OnError
  <2> QED BY <1>5, <2>1, <2>2, <2>3 DEF OnError
<1>6. CASE RestartOld
  <2>1. ServerStarts(FALSE) BY <1>6 DEF RestartOld
  <2>2. TypeOK OBVIOUS
  <2>3. running' \in Commits \cup {None} /\ available' \in {"unknown", "yes", "no"}
        /\ check' \subseteq Commits /\ web' = "idle" /\ abandoned' \in BOOLEAN
        /\ (running' # None => running' = repo /\ repo \notin Broken)
    BY <2>1, <2>2, StartsSound
  <2> QED BY <1>6, <2>3 DEF RestartOld
<1>7. CASE Die BY <1>7 DEF Die
<1> QED BY <1>1, <1>2, <1>3, <1>4, <1>5, <1>6, <1>7 DEF InstallStep

\* The path unit and the helper.
LEMMA HelperInv ==
    ASSUME IInv, Trigger \/ HelperStep \/ Progress
    PROVE  IInv'
<1> USE DEF IInv, TypeOK, Restorable, Concluded, Ended, Before, UpIsSound, Running, At,
            version, files, code, updating, installs
<1>1. CASE Trigger BY <1>1 DEF Trigger
<1>2. CASE Collect
  <2>1. install = "off" BY <1>2 DEF Collect
  <2>2. request' \in BOOLEAN /\ current' \in Commits /\ helper' = "taken" BY <1>2 DEF Collect
  <2>3. TypeOK' BY <1>2, <2>1, <2>2 DEF Collect
  <2>4. Restorable' /\ Concluded' /\ UpIsSound' BY <1>2, <2>1 DEF Collect
  <2> QED BY <2>3, <2>4
<1>3. CASE WriteChecking BY <1>3 DEF WriteChecking
<1>4. CASE Preflight BY <1>4 DEF Preflight
<1>5. CASE RunInstaller BY <1>5 DEF RunInstaller
<1>6. CASE InstallerEnds BY <1>6 DEF InstallerEnds
<1>7. CASE Report BY <1>7 DEF Report
<1>8. CASE Clear
  <2>1. abandoned' \in BOOLEAN BY <1>8 DEF Clear
  <2>2. TypeOK' BY <1>8, <2>1 DEF Clear
  <2>3. Restorable' /\ Concluded' /\ UpIsSound' BY <1>8 DEF Clear
  <2> QED BY <2>2, <2>3
<1>9. CASE HelperFails
  <2>1. /\ abandoned' \in BOOLEAN
        /\ helper' \in {"off", "written"} /\ status' \in {"failed", status}
    BY <1>9 DEF HelperFails
  <2> QED BY <1>9, <2>1 DEF HelperFails
<1>10. CASE Progress BY <1>10, Frame DEF Progress
<1>11. CASE InstallStep BY <1>11, InstallInv
<1> QED BY <1>1, <1>2, <1>3, <1>4, <1>5, <1>6, <1>7, <1>8, <1>9, <1>10, <1>11 DEF HelperStep

\* A push, a crash of the server and a reboot at any moment.
LEMMA WorldInv ==
    ASSUME IInv, Push \/ ServerCrash \/ Reboot
    PROVE  IInv'
<1> USE DEF IInv, TypeOK, Restorable, Concluded, Ended, Before, UpIsSound, Running,
            version, files, code, updating, installs
<1>0. TypeOK OBVIOUS
<1>1. CASE Push
  <2>1. remote' \in Commits BY <1>1, CommitsAssumption DEF Push, Commits
  <2> QED BY <1>1, <2>1 DEF Push
<1>2. CASE ServerCrash
  <2>1. ServerStarts(FALSE) BY <1>2 DEF ServerCrash
  <2>2. /\ running' \in Commits \cup {None} /\ available' \in {"unknown", "yes", "no"}
        /\ check' \subseteq Commits /\ web' = "idle" /\ abandoned' \in BOOLEAN
        /\ (running = repo /\ repo \notin Broken => running' = repo)
        /\ (running' # None => running' = repo /\ repo \notin Broken)
    BY <2>1, <1>0, StartsSound
  <2>3. running # None BY <1>2 DEF ServerCrash, WebUp
  <2>4. Concluded'
    BY <1>2, <2>2, <2>3 DEF ServerCrash
  <2> QED BY <1>2, <2>2, <2>4 DEF ServerCrash
<1>3. CASE Reboot
  <2>1. ServerStarts(helper \in {"taken", "checked", "install", "result"}) BY <1>3 DEF Reboot
  <2>2. /\ running' \in Commits \cup {None} /\ available' \in {"unknown", "yes", "no"}
        /\ check' \subseteq Commits /\ web' = "idle" /\ abandoned' \in BOOLEAN
        /\ (running' # None => running' = repo /\ repo \notin Broken)
    BY <2>1 DEF ServerStarts
  <2> QED BY <1>3, <2>2 DEF Reboot
<1> QED BY <1>1, <1>2, <1>3

\* The invariant holds in every reachable state.
THEOREM Inductive == Spec => []IInv
<1>1. IInv /\ [Next]_vars => IInv'
  <2> SUFFICES ASSUME IInv, [Next]_vars PROVE IInv' OBVIOUS
  <2>1. CASE Next BY <2>1, ServerInv, HelperInv, WorldInv DEF Next
  <2>2. CASE UNCHANGED vars
    BY <2>2 DEF vars, version, files, code, updating, installs, IInv, TypeOK, Restorable,
                Concluded, Ended, Before, UpIsSound, Running
  <2> QED BY <2>1, <2>2
<1> QED BY <1>1, InitInv, PTL DEF Spec

\* Every variable keeps its type, and nothing is installed but under a helper.
THEOREM TypeCorrect == Spec => []TypeOK
<1>1. IInv => TypeOK BY DEF IInv
<1> QED BY <1>1, Inductive, PTL

\* web-update.py reports "succeeded" only of a server that runs what is
\* checked out, whatever crashed between the verification and the report.
THEOREM ReportedSuccessRuns == Spec => SuccessRuns
<1>1. IInv /\ [Next]_vars
        => ((helper = "result" /\ helper' = "written" /\ status' = "succeeded") => running = repo)
  <2> SUFFICES ASSUME IInv, [Next]_vars,
                      helper = "result", helper' = "written", status' = "succeeded"
               PROVE  running = repo
    OBVIOUS
  <2>1. install = "off" BY DEF IInv, TypeOK
  <2>2. Report
    BY <2>1 DEF Next, vars, updating, CheckBegins, CheckEnds, StartUpdate, Requesting,
                WriteStarting, UnlinkStale, MakeRequest, RequestFails, Age, Trigger, HelperStep,
                Collect, WriteChecking, Preflight, RunInstaller, InstallerEnds, Clear,
                HelperFails, InstallStep, Note, Fetch, RestartService, Verify, OnError,
                RestartOld, Die, At, Progress, Push, ServerCrash, Reboot
  <2>3. ended = "ok" BY <2>2 DEF Report
  <2> QED BY <2>3 DEF IInv, Concluded, Ended
<1> QED BY <1>1, Inductive, PTL DEF Spec, SuccessRuns

\* A failure that on_error saw, or that came before the checkout, is reported
\* with the checkout that was there when the helper began.
THEOREM FailedIsRestored == Spec => FailureRestores
<1>1. IInv => ((helper = "result" /\ helper' = "written" /\ ended \in {"failed", "rolled"})
                  => repo = current)
  BY DEF IInv, Concluded, Ended
<1> QED BY <1>1, Inductive, PTL DEF FailureRestores

----------------------------------------------------------------------------
(* The tables an operator edits and the copies the turret is aimed with.   *)

CONSTANTS Requests, Cells, Zones, Measured, AtStart, RequireActive, Tracks, MaxWrites
VARIABLES db, cache, at, read, writes, alone

Aim == INSTANCE AimPoint WITH rows <- read

\* Measurements are taken at places of the image and of one of the surfaces.
TablesAssumption ==
    /\ Cells \subseteq Nat /\ MaxWrites \in Nat
    /\ Measured \subseteq [cell : Cells, surface : Aim!Surfaces]
    /\ AtStart \subseteq Measured

Places == [place : {"idle", "load", "publish"}, kind : Aim!Kinds \cup {"none"}]

AimTypes ==
    /\ db \in [Aim!Kinds -> SUBSET (Zones \cup Measured)]
    /\ cache \in [Aim!Kinds -> SUBSET (Zones \cup Measured)]
    /\ at \in [Requests -> Places]
    /\ read \in [Requests -> SUBSET (Zones \cup Measured)]
    /\ alone \in [Aim!Kinds -> BOOLEAN]
    /\ Aim!TypeOK

\* A table nobody is busy with is what its copy is, and whoever is alone busy
\* with it will publish what it is.
AloneInv ==
    \A k \in Aim!Kinds : alone[k] =>
      \/ Aim!Busy(k) = {} /\ cache[k] = db[k]
      \/ \E r \in Requests : Aim!Busy(k) = {r} /\ (at[r].place = "publish" => read[r] = db[k])

AimInv == AimTypes /\ AloneInv

LEMMA AimInit == TablesAssumption /\ Aim!Init => AimInv
<1> SUFFICES ASSUME TablesAssumption, Aim!Init PROVE AimInv
  OBVIOUS
<1> USE DEF Aim!Init, Aim!Kinds, Aim!Idle, TablesAssumption
<1>1. AimTypes
  BY DEF AimTypes, Places, Aim!TypeOK, Aim!Rows
<1>2. \A k \in Aim!Kinds : Aim!Busy(k) = {} /\ cache[k] = db[k]
  BY DEF Aim!Busy
<1> QED
  BY <1>1, <1>2 DEF AimInv, AloneInv

LEMMA WriteKeeps == ASSUME TablesAssumption, AimInv, NEW r \in Requests, Aim!Write(r) PROVE AimInv'
<1> USE DEF Aim!Kinds, Aim!Idle
<1>1. PICK kind \in Aim!Kinds :
        /\ \/ \E row \in Aim!Rows(kind) \ db[kind] : db' = [db EXCEPT ![kind] = @ \cup {row}]
           \/ \E row \in db[kind] : db' = [db EXCEPT ![kind] = @ \ {row}]
           \/ \E old \in db[kind], new \in Aim!Rows(kind) \ db[kind] :
                db' = [db EXCEPT ![kind] = (@ \ {old}) \cup {new}]
           \/ kind = "points" /\ db[kind] # {} /\ db' = [db EXCEPT ![kind] = {}]
        /\ at' = [at EXCEPT ![r] = [place |-> "load", kind |-> kind]]
        /\ alone' = [alone EXCEPT ![kind] = (@ \/ cache[kind] = db[kind]) /\ Aim!Busy(kind) = {}]
  BY DEF Aim!Write
<1>2. /\ at[r] = Aim!Idle /\ writes < MaxWrites /\ writes' = writes + 1
      /\ UNCHANGED <<cache, read>>
  BY DEF Aim!Write
<1>3. /\ db' \in [Aim!Kinds -> SUBSET (Zones \cup Measured)]
      /\ db'[kind] \subseteq Aim!Rows(kind)
      /\ \A k \in Aim!Kinds \ {kind} : db'[k] = db[k]
  BY <1>1 DEF AimInv, AimTypes, Aim!TypeOK, Aim!Rows
<1>4. AimTypes'
  <2>1. at' \in [Requests -> Places]
    BY <1>1 DEF AimInv, AimTypes, Places
  <2>2. writes' \in 0..MaxWrites
    BY <1>2 DEF AimInv, AimTypes, Aim!TypeOK, TablesAssumption
  <2>3. alone' \in [Aim!Kinds -> BOOLEAN]
    <3>1. PICK b \in BOOLEAN : alone' = [alone EXCEPT ![kind] = b]
      BY <1>1, Zenon
    <3> QED
      BY <3>1 DEF AimInv, AimTypes
  <2>4. \A q \in Requests :
          /\ at'[q] = Aim!Idle \/ (at'[q].place \in {"load", "publish"} /\ at'[q].kind \in Aim!Kinds)
          /\ at'[q].place = "publish" => read'[q] \subseteq Aim!Rows(at'[q].kind)
    BY <1>1, <1>2 DEF AimInv, AimTypes, Aim!TypeOK
  <2>5. \A k \in Aim!Kinds : db'[k] \subseteq Aim!Rows(k) /\ cache'[k] \subseteq Aim!Rows(k)
    BY <1>1, <1>2, <1>3 DEF AimInv, AimTypes, Aim!TypeOK
  <2> QED
    BY <1>2, <1>3, <2>1, <2>2, <2>3, <2>4, <2>5 DEF AimInv, AimTypes, Aim!TypeOK, Aim!Rows
<1>5. AloneInv'
  <2> SUFFICES ASSUME NEW k \in Aim!Kinds, alone'[k]
               PROVE \/ Aim!Busy(k)' = {} /\ cache'[k] = db'[k]
                     \/ \E q \in Requests : Aim!Busy(k)' = {q} /\ (at'[q].place = "publish" => read'[q] = db'[k])
    BY DEF AloneInv
  <2>1. CASE k = kind
    <3>1. Aim!Busy(k) = {}
      BY <1>1, <2>1 DEF AimInv, AimTypes
    <3>2. Aim!Busy(k)' = {r} /\ at'[r].place = "load"
      BY <1>1, <2>1, <3>1 DEF Aim!Busy, AimInv, AimTypes, Places
    <3> QED
      BY <3>2
  <2>2. CASE k # kind
    <3>1. Aim!Busy(k)' = Aim!Busy(k)
      BY <1>1, <1>2, <2>2 DEF Aim!Busy, AimInv, AimTypes, Places
    <3>2. alone[k] /\ db'[k] = db[k] /\ cache'[k] = cache[k] /\ read' = read
      BY <1>1, <1>2, <1>3, <2>2 DEF AimInv, AimTypes
    <3>3. \A q \in Requests : Aim!Busy(k) = {q} => at'[q] = at[q]
      BY <1>1, <1>2, <2>2 DEF Aim!Busy, AimInv, AimTypes
    <3> QED
      BY <3>1, <3>2, <3>3 DEF AimInv, AloneInv
  <2> QED
    BY <2>1, <2>2
<1> QED
  BY <1>4, <1>5 DEF AimInv

LEMMA LoadKeeps == ASSUME AimInv, NEW r \in Requests, Aim!Load(r) PROVE AimInv'
<1> USE DEF Aim!Kinds, Aim!Idle, Aim!Load, Aim!Read
<1>1. at[r].kind \in Aim!Kinds
  BY DEF AimInv, AimTypes, Aim!TypeOK
<1>2. /\ at'[r].place = "publish" /\ at'[r].kind = at[r].kind /\ read'[r] = db[at[r].kind]
      /\ \A q \in Requests \ {r} : at'[q] = at[q] /\ read'[q] = read[q]
  BY DEF AimInv, AimTypes, Places
<1>3. AimTypes'
  BY <1>1, <1>2 DEF AimInv, AimTypes, Places, Aim!TypeOK, Aim!Rows
<1>4. \A k \in Aim!Kinds : Aim!Busy(k)' = Aim!Busy(k)
  BY <1>2 DEF Aim!Busy
<1>5. AloneInv'
  BY <1>2, <1>4 DEF AimInv, AloneInv, Aim!Busy
<1> QED
  BY <1>3, <1>5 DEF AimInv

LEMMA PublishKeeps == ASSUME AimInv, NEW r \in Requests, Aim!Publish(r) PROVE AimInv'
<1> USE DEF Aim!Kinds, Aim!Idle, Aim!Publish, Aim!Copied
<1>1. at[r].kind \in Aim!Kinds
  BY DEF AimInv, AimTypes, Aim!TypeOK
<1>2. /\ at'[r] = Aim!Idle /\ read'[r] = {} /\ cache'[at[r].kind] = read[r]
      /\ \A q \in Requests \ {r} : at'[q] = at[q] /\ read'[q] = read[q]
      /\ \A k \in Aim!Kinds \ {at[r].kind} : cache'[k] = cache[k]
  BY <1>1 DEF AimInv, AimTypes, Places
<1>3. AimTypes'
  BY <1>1, <1>2 DEF AimInv, AimTypes, Places, Aim!TypeOK, Aim!Rows
<1>4. \A k \in Aim!Kinds : Aim!Busy(k)' = Aim!Busy(k) \ {r}
  BY <1>2 DEF Aim!Busy
<1>5. \A k \in Aim!Kinds \ {at[r].kind} : r \notin Aim!Busy(k)
  BY DEF Aim!Busy
<1>6. r \in Aim!Busy(at[r].kind)
  BY DEF Aim!Busy
<1>7. AloneInv'
  <2> SUFFICES ASSUME NEW k \in Aim!Kinds, alone'[k]
               PROVE \/ Aim!Busy(k)' = {} /\ cache'[k] = db'[k]
                     \/ \E q \in Requests : Aim!Busy(k)' = {q} /\ (at'[q].place = "publish" => read'[q] = db'[k])
    BY DEF AloneInv
  <2>1. CASE k = at[r].kind
    BY <1>2, <1>4, <1>6, <2>1 DEF AimInv, AloneInv
  <2>2. CASE k # at[r].kind
    BY <1>2, <1>4, <1>5, <2>2 DEF AimInv, AloneInv
  <2> QED
    BY <2>1, <2>2
<1> QED
  BY <1>3, <1>7 DEF AimInv

LEMMA RestartKeeps == ASSUME AimInv, Aim!Restart PROVE AimInv'
<1> USE DEF Aim!Kinds, Aim!Idle, Aim!Restart
<1>1. AimTypes'
  BY DEF AimInv, AimTypes, Places, Aim!TypeOK, Aim!Rows
<1>2. \A k \in Aim!Kinds : Aim!Busy(k)' = {} /\ cache'[k] = db'[k]
  BY DEF Aim!Busy, AimInv, AimTypes
<1> QED
  BY <1>1, <1>2 DEF AimInv, AloneInv

LEMMA AimAlways == ASSUME TablesAssumption PROVE Aim!Spec => []AimInv
<1>1. Aim!Init => AimInv
  BY AimInit
<1>2. AimInv /\ [Aim!Next]_(Aim!vars) => AimInv'
  <2> SUFFICES ASSUME AimInv, [Aim!Next]_(Aim!vars) PROVE AimInv'
    OBVIOUS
  <2>1. CASE UNCHANGED Aim!vars
    BY <2>1 DEF Aim!vars, AimInv, AimTypes, AloneInv, Aim!TypeOK, Aim!Busy, Aim!Idle, Aim!Rows
  <2> QED
    BY <2>1, WriteKeeps, LoadKeeps, PublishKeeps, RestartKeeps DEF Aim!Next
<1> QED
  BY <1>1, <1>2, PTL DEF Aim!Spec

\* Whoever is selected was eligible, and is aimed at with a solution.
LEMMA Selected ==
  ASSUME NEW S, NEW b \in Aim!Selections(S)
  PROVE  \E t \in S :
           /\ Aim!Eligible(t) /\ b.cell = t.cell
           /\ b.surface \in Aim!Solve(cache["points"], t.cell, Aim!SurfaceAt(cache["zones"], t.cell))
BY DEF Aim!Selections

LEMMA ZonesObeyed ==
  ASSUME AimInv PROVE Aim!SelectionObeysZones
<1> SUFFICES ASSUME Aim!Settled("zones"), alone["zones"],
                    NEW b \in Aim!Selections(Tracks) \cup UNION {Aim!Selections({t}) : t \in Tracks}
             PROVE  /\ Aim!At(db["zones"], b.cell, "no_target") = {}
                    /\ RequireActive => \A z \in db["zones"] :
                         z.type = "active" => \E w \in db["zones"] : w.type = "active" /\ b.cell \in w.cells
  BY DEF Aim!SelectionObeysZones
<1>1. cache["zones"] = db["zones"]
  BY DEF AimInv, AloneInv, Aim!Settled, Aim!Kinds
<1>2. PICK S : b \in Aim!Selections(S)
  OBVIOUS
<1>3. PICK t : Aim!Eligible(t) /\ b.cell = t.cell
  BY <1>2, Selected
<1> QED
  BY <1>1, <1>3 DEF Aim!Eligible, Aim!Targetable, Aim!At

\* The smallest of some numbers is one of them.
LEMMA Least ==
  ASSUME NEW S, S \subseteq Nat, S # {}
  PROVE  \E n \in S : \A m \in S : n <= m
<1> DEFINE R == {p \in Nat \X Nat : p[1] < p[2]}
<1>1. OpToRel(<, Nat) = R
  BY DEF OpToRel
<1>2. IsWellFoundedOn(R, Nat)
  BY <1>1, NatLessThanWellFounded
<1> HIDE DEF R
<1>3. PICK n \in S : \A m \in S : <<m, n>> \notin R
  BY <1>2, WFMin
<1>4. ASSUME NEW m \in S PROVE n <= m
  <2>1. <<m, n>> \notin R /\ m \in Nat /\ n \in Nat
    BY <1>3
  <2> QED
    BY <2>1 DEF R
<1> QED
  BY <1>4

LEMMA DistanceIsNumber ==
  ASSUME NEW cells, cells \subseteq Nat, cells # {}, NEW c \in Nat
  PROVE  Aim!Distance(cells, c) \in Nat
<1> DEFINE S == {IF d < c THEN c - d ELSE d - c : d \in cells}
<1>1. S \subseteq Nat /\ S # {}
  <2>1. \A d \in cells : (IF d < c THEN c - d ELSE d - c) \in Nat
    OBVIOUS
  <2> QED
    BY <2>1
<1> HIDE DEF S
<1>2. PICK n \in S : \A m \in S : n <= m
  BY <1>1, Least
<1>3. Aim!Min(S) \in S
  BY <1>2 DEF Aim!Min
<1>4. Aim!Distance(cells, c) = Aim!Min(S)
  BY DEF Aim!Distance, S
<1> QED
  BY <1>1, <1>3, <1>4

LEMMA AimSurface ==
  ASSUME TablesAssumption, AimInv PROVE Aim!SurfaceOfZone
<1> DEFINE points == cache["points"]
<1> SUFFICES ASSUME NEW u \in Tracks, NEW b \in Aim!Selections({u}),
                    NEW s, s = Aim!SurfaceAt(cache["zones"], b.cell),
                    NEW holds, holds = {m \in Aim!Surfaces : Aim!Holds(points, m, b.cell)}
             PROVE  IF Aim!Region(points, s) # {} THEN b.surface = s ELSE holds # {} => b.surface \in holds
  BY DEF Aim!SurfaceOfZone
<1>1. b.surface \in Aim!Solve(points, b.cell, s)
  BY Selected
<1> DEFINE models == {p.surface : p \in points}
           inside == {m \in models : Aim!Holds(points, m, b.cell)}
<1>2. models \subseteq Aim!Surfaces
  BY DEF AimInv, AimTypes, Aim!TypeOK, Aim!Rows, Aim!Kinds, TablesAssumption
<1>3. CASE s \in models
  <2>1. b.surface = s
    BY <1>1, <1>3 DEF Aim!Solve
  <2>2. Aim!Region(points, s) # {}
    BY <1>3 DEF Aim!Region
  <2> QED
    BY <2>1, <2>2
<1>4. CASE s \notin models
  <2>1. Aim!Region(points, s) = {}
    BY <1>4 DEF Aim!Region
  <2>2. holds = inside
    BY <1>2 DEF Aim!Region, Aim!Holds
  <2>3. inside # {} => b.surface \in inside
    BY <1>1, <1>4 DEF Aim!Solve
  <2> QED
    BY <2>1, <2>2, <2>3
<1> QED
  BY <1>3, <1>4

LEMMA AimSolves ==
  ASSUME TablesAssumption, AimInv PROVE Aim!AnyMeasurementSolves
<1> DEFINE points == cache["points"]
<1> SUFFICES ASSUME points # {}, NEW c \in Cells, NEW s
             PROVE  Aim!Solve(points, c, s) # {}
  BY DEF Aim!AnyMeasurementSolves
<1> DEFINE models == {p.surface : p \in points}
           inside == {m \in models : Aim!Holds(points, m, c)}
           pool == IF inside # {} THEN inside ELSE models
           D(m) == Aim!Distance(Aim!Region(points, m), c)
<1>1. models \subseteq Aim!Surfaces /\ points \subseteq Measured
  BY DEF AimInv, AimTypes, Aim!TypeOK, Aim!Rows, Aim!Kinds, TablesAssumption
<1>2. pool # {} /\ pool \subseteq models
  OBVIOUS
<1>3. ASSUME NEW m \in pool PROVE D(m) \in Nat
  <2>1. Aim!Region(points, m) # {} /\ Aim!Region(points, m) \subseteq Nat
    BY <1>1, <1>2 DEF Aim!Region, TablesAssumption
  <2> QED
    BY <2>1, DistanceIsNumber DEF TablesAssumption
<1>4. {D(m) : m \in pool} \subseteq Nat /\ {D(m) : m \in pool} # {}
  BY <1>2, <1>3
<1>5. PICK m \in pool : \A n \in pool : D(m) <= D(n)
  <2> HIDE DEF D, pool
  <2>1. PICK d \in {D(m) : m \in pool} : \A e \in {D(m) : m \in pool} : d <= e
    BY <1>4, Least
  <2> QED
    BY <2>1
<1> QED
  BY <1>5 DEF Aim!Solve

\* For any requests, zones, measurements and tracks, whoever writes when, and
\* across restarts: unless changes of a table overlapped, what the services
\* decide with is the table; then nothing is aimed at in a place the zones
\* forbid; and an aim is solved with the surface of the bird's zone, by any
\* measurement there is (ZoneService, CalibrationService, TargetSelector).
THEOREM AimObeysTables ==
  ASSUME TablesAssumption
  PROVE  Aim!Spec => []Aim!AimsFollowTables
<1>1. AimInv => Aim!TypeOK /\ Aim!CacheIsTable
  BY DEF AimInv, AimTypes, AloneInv, Aim!CacheIsTable, Aim!Settled
<1>2. AimInv => Aim!AimsFollowTables
  BY <1>1, ZonesObeyed, AimSurface, AimSolves DEF Aim!AimsFollowTables
<1> QED
  BY <1>2, AimAlways, PTL

----------------------------------------------------------------------------
(* The events and the browsers. *)

CONSTANTS Clients, QueueLimit, RecentSize, MaxRows, MaxEvents, MaxFrames
VARIABLES recorded, emitting, recent, events, frames, socket, listed, writer, queue, sending, hello, got

Feed == INSTANCE EventFeed WITH rows <- events

LimitsAssumption ==
    /\ QueueLimit \in Nat \ {0} /\ {RecentSize, MaxRows, MaxEvents, MaxFrames} \subseteq Nat

FeedTypes ==
    /\ recorded \in Nat /\ recent \in Seq(Nat) /\ Feed!ToSet(recent) \subseteq 1..recorded
    /\ events \in Seq(Nat \X BOOLEAN)
    /\ listed \subseteq Clients
    /\ socket \in [Clients -> {"in", "out"}]
    /\ writer \in [Clients -> {"none", "wait", "send", "dead"}]
    /\ queue \in [Clients -> Seq(Nat)] /\ sending \in [Clients -> Seq(Nat)]
    /\ \A c \in Clients : /\ Feed!ToSet(queue[c]) \subseteq 0..recorded
                          /\ Feed!ToSet(sending[c]) \subseteq 0..recorded
    /\ hello \in [Clients -> SUBSET Nat] /\ got \in [Clients -> SUBSET Nat]
    /\ Feed!TypeOK

\* Whoever has a task that writes to it is served.
WriterServes == \A c \in Clients : writer[c] \in {"wait", "send"} => c \in listed

FeedInv == FeedTypes /\ WriterServes /\ Feed!ServedHasWriter /\ Feed!NothingMissed

LEMMA Shifting ==
  ASSUME NEW n \in Nat, NEW m \in 0..n, NEW i \in 1..n, m < i
  PROVE  i - m \in 1..n - m /\ m + (i - m) = i
OBVIOUS

LEMMA Empty == <<>> \in Seq(Nat) /\ <<>> \in Seq(Nat \X BOOLEAN) /\ Len(<<>>) = 0
OBVIOUS

LEMMA Appended ==
  ASSUME NEW S, NEW s \in Seq(S), NEW e \in S
  PROVE  /\ Append(s, e) \in Seq(S) /\ Len(Append(s, e)) = Len(s) + 1
         /\ Feed!ToSet(Append(s, e)) = Feed!ToSet(s) \cup {e}
<1> DEFINE q == Append(s, e)
<1>1. q \in Seq(S) /\ Len(q) = Len(s) + 1
  OBVIOUS
<1>2. PICK n \in Nat : n = Len(s)
  OBVIOUS
<1>3. DOMAIN s = 1..n /\ DOMAIN q = 1..n + 1 /\ q[n + 1] = e /\ \A i \in 1..n : q[i] = s[i]
  BY <1>2
<1> HIDE DEF q
<1>4. ASSUME NEW i \in 1..n + 1 PROVE q[i] \in Feed!ToSet(s) \cup {e}
  BY <1>3 DEF Feed!ToSet
<1>5. \A i \in 1..n : i \in 1..n + 1
  OBVIOUS
<1>6. n + 1 \in 1..n + 1
  OBVIOUS
<1>7. Feed!ToSet(q) \subseteq Feed!ToSet(s) \cup {e}
  BY <1>3, <1>4 DEF Feed!ToSet
<1>8. ASSUME NEW i \in 1..n PROVE s[i] \in Feed!ToSet(q)
  BY <1>3, <1>5 DEF Feed!ToSet
<1>9. Feed!ToSet(s) \cup {e} \subseteq Feed!ToSet(q)
  <2>1. Feed!ToSet(s) \subseteq Feed!ToSet(q)
    BY <1>3, <1>8 DEF Feed!ToSet
  <2>2. e \in Feed!ToSet(q)
    BY <1>3, <1>6 DEF Feed!ToSet
  <2> QED
    BY <2>1, <2>2
<1> QED
  BY <1>1, <1>7, <1>9 DEF q

LEMMA Taken ==
  ASSUME NEW S, NEW s \in Seq(S), s # <<>>
  PROVE  /\ Head(s) \in S /\ Tail(s) \in Seq(S) /\ Len(Tail(s)) = Len(s) - 1
         /\ Feed!ToSet(s) = {Head(s)} \cup Feed!ToSet(Tail(s))
<1> DEFINE q == Tail(s)
           e == Head(s)
<1>1. e = s[1] /\ e \in S /\ q \in Seq(S) /\ Len(q) = Len(s) - 1
  OBVIOUS
<1>2. PICK n \in Nat : n = Len(q)
  OBVIOUS
<1>3. DOMAIN q = 1..n /\ DOMAIN s = 1..n + 1 /\ \A i \in 1..n : s[i + 1] = q[i]
  BY <1>1, <1>2
<1> HIDE DEF q, e
<1>4. ASSUME NEW i \in 1..n + 1 PROVE s[i] \in {e} \cup Feed!ToSet(q)
  <2>1. CASE i = 1
    BY <1>1, <2>1
  <2>2. CASE i # 1
    <3>1. i - 1 \in 1..n /\ i - 1 + 1 = i
      BY <2>2
    <3>2. s[i] = q[i - 1]
      BY <1>3, <3>1
    <3> QED
      BY <1>3, <3>1, <3>2 DEF Feed!ToSet
  <2> QED
    BY <2>1, <2>2
<1>5. Feed!ToSet(s) \subseteq {e} \cup Feed!ToSet(q)
  BY <1>3, <1>4 DEF Feed!ToSet
<1>6. 1 \in 1..n + 1 /\ \A i \in 1..n : i + 1 \in 1..n + 1
  OBVIOUS
<1>7. {e} \cup Feed!ToSet(q) \subseteq Feed!ToSet(s)
  <2>1. ASSUME NEW i \in 1..n PROVE q[i] \in Feed!ToSet(s)
    BY <1>3, <1>6 DEF Feed!ToSet
  <2>2. e \in Feed!ToSet(s)
    BY <1>1, <1>3, <1>6 DEF Feed!ToSet
  <2> QED
    BY <1>3, <2>1, <2>2 DEF Feed!ToSet
<1> QED
  BY <1>1, <1>5, <1>7 DEF q, e

LEMMA Singles ==
  ASSUME NEW e
  PROVE  Feed!ToSet(<<e>>) = {e} /\ Len(<<e>>) = 1 /\ Feed!ToSet(<<>>) = {}
BY DEF Feed!ToSet

\* The last n of a sequence, which are those from a place on.
LEMMA LastOnes ==
  ASSUME NEW S, NEW s \in Seq(S), NEW n \in Nat
  PROVE  /\ Feed!LastOf(s, n) \in Seq(S) /\ Len(Feed!LastOf(s, n)) <= n
         /\ Feed!ToSet(Feed!LastOf(s, n)) \subseteq Feed!ToSet(s)
         /\ \A i \in DOMAIN s : i > Len(s) - n => s[i] \in Feed!ToSet(Feed!LastOf(s, n))
<1>1. PICK m \in 0..Len(s) :
        /\ Feed!LastOf(s, n) = SubSeq(s, m + 1, Len(s))
        /\ (m = Len(s) - n \/ m = 0) /\ Len(s) - m <= n
  <2>1. CASE Len(s) < n
    <3>1. Feed!LastOf(s, n) = SubSeq(s, 0 + 1, Len(s))
      BY <2>1 DEF Feed!LastOf
    <3> QED
      BY <3>1, <2>1
  <2>2. CASE ~(Len(s) < n)
    <3>1. Feed!LastOf(s, n) = SubSeq(s, Len(s) - n + 1, Len(s))
      BY <2>2 DEF Feed!LastOf
    <3>2. Len(s) \in Nat
      OBVIOUS
    <3>3. Len(s) - n \in 0..Len(s) /\ Len(s) - (Len(s) - n) <= n
      BY <2>2, <3>2
    <3> QED
      BY <3>1, <3>3
  <2> QED
    BY <2>1, <2>2
<1> DEFINE t == SubSeq(s, m + 1, Len(s))
<1>2. t \in Seq(S) /\ Len(t) = Len(s) - m
  OBVIOUS
<1>3. \A i \in 1..Len(s) - m : t[i] = s[m + i]
  OBVIOUS
<1>4. ASSUME NEW i \in DOMAIN t PROVE t[i] \in Feed!ToSet(s)
  BY <1>2, <1>3 DEF Feed!ToSet
<1>5. ASSUME NEW i \in DOMAIN s, i > Len(s) - n PROVE s[i] \in Feed!ToSet(t)
  <2>1. PICK l \in Nat : l = Len(s) /\ i \in 1..l /\ m \in 0..l
    OBVIOUS
  <2>2. m < i
    <3>1. i > l - n /\ (m = l - n \/ m = 0)
      BY <1>1, <1>5, <2>1
    <3> QED
      BY <2>1, <3>1
  <2>3. i - m \in 1..l - m /\ m + (i - m) = i
    BY <2>1, <2>2, Shifting
  <2>4. t[i - m] = s[i] /\ i - m \in DOMAIN t
    BY <1>2, <1>3, <2>1, <2>3
  <2> QED
    BY <2>4 DEF Feed!ToSet
<1> QED
  BY <1>1, <1>2, <1>4, <1>5 DEF Feed!ToSet

LEMMA FeedInit == ASSUME LimitsAssumption, Feed!Init PROVE FeedInv
<1> USE DEF Feed!Init, LimitsAssumption
<1>1. /\ Feed!ToSet(<<>>) = {} /\ Len(<<>>) = 0
      /\ <<>> \in Seq(Nat) /\ <<>> \in Seq(Nat \X BOOLEAN)
  BY Singles, Empty
<1>2. \A c \in Clients : /\ socket[c] = "out" /\ writer[c] = "none" /\ queue[c] = <<>> /\ sending[c] = <<>>
                         /\ hello[c] = {} /\ got[c] = {}
  OBVIOUS
<1>3. FeedTypes
  <2>1. /\ queue \in [Clients -> Seq(Nat)] /\ sending \in [Clients -> Seq(Nat)]
        /\ events \in Seq(Nat \X BOOLEAN) /\ recent \in Seq(Nat)
    BY <1>1
  <2>2. \A c \in Clients : /\ Feed!ToSet(queue[c]) \subseteq 0..recorded
                           /\ Feed!ToSet(sending[c]) \subseteq 0..recorded
    BY <1>1, <1>2
  <2>3. Feed!TypeOK
    BY <1>1, <1>2 DEF Feed!TypeOK
  <2> QED
    BY <1>1, <2>1, <2>2, <2>3 DEF FeedTypes
<1>4. WriterServes /\ Feed!ServedHasWriter /\ Feed!NothingMissed
  BY <1>2 DEF WriterServes, Feed!ServedHasWriter, Feed!NothingMissed
<1> QED
  BY <1>3, <1>4 DEF FeedInv

\* What putting a message into queues leaves as it is, and what it does to a
\* queue.
LEMMA PutKeeps ==
  ASSUME LimitsAssumption, FeedInv, NEW cs, NEW m \in 0..recorded, Feed!Put(cs, m),
         recorded' = recorded, recent' = recent, socket' = socket, hello' = hello, got' = got,
         emitting' \subseteq emitting, events' \in Seq(Nat \X BOOLEAN),
         emitting' = emitting \/ (emitting' = emitting \ {m} /\ \A c \in listed : c \in cs)
  PROVE  FeedInv'
<1> DEFINE full == Feed!Full(cs \cap listed)
           open == (cs \cap listed) \ full
<1>1. /\ queue' = [c \in Clients |-> IF c \in open THEN Append(queue[c], m) ELSE queue[c]]
      /\ listed' = listed \ full
      /\ writer' = [c \in Clients |-> IF c \in full THEN "none" ELSE writer[c]]
      /\ sending' = [c \in Clients |-> IF c \in full THEN <<>> ELSE sending[c]]
  BY DEF Feed!Put
<1>2. /\ listed \subseteq Clients /\ open \subseteq Clients /\ full \subseteq listed
      /\ \A c \in open : Len(queue[c]) < QueueLimit
  BY DEF FeedInv, FeedTypes, Feed!Full, LimitsAssumption
<1>3. m \in Nat /\ \A c \in Clients : queue[c] \in Seq(Nat)
  BY DEF FeedInv, FeedTypes
<1> HIDE DEF full, open
<1>4. ASSUME NEW c \in Clients
      PROVE  /\ queue'[c] \in Seq(Nat)
             /\ Feed!ToSet(queue'[c]) = Feed!ToSet(queue[c]) \cup (IF c \in open THEN {m} ELSE {})
             /\ Len(queue'[c]) <= QueueLimit
  <2>1. Len(queue[c]) <= QueueLimit /\ Len(queue[c]) \in Nat
    BY <1>3 DEF FeedInv, FeedTypes, Feed!TypeOK
  <2>2. CASE c \in open
    <3>1. queue'[c] = Append(queue[c], m) /\ Len(queue[c]) < QueueLimit
      BY <1>1, <1>2, <2>2
    <3>2. /\ Append(queue[c], m) \in Seq(Nat) /\ Len(Append(queue[c], m)) = Len(queue[c]) + 1
          /\ Feed!ToSet(Append(queue[c], m)) = Feed!ToSet(queue[c]) \cup {m}
      <4>1. PICK s \in Seq(Nat) : s = queue[c]
        BY <1>3
      <4>2. /\ Append(s, m) \in Seq(Nat) /\ Len(Append(s, m)) = Len(s) + 1
            /\ Feed!ToSet(Append(s, m)) = Feed!ToSet(s) \cup {m}
        BY <1>3, Appended
      <4> QED
        BY <4>1, <4>2
    <3>3. Len(queue[c]) + 1 <= QueueLimit
      BY <2>1, <3>1 DEF LimitsAssumption
    <3> QED
      BY <2>2, <3>1, <3>2, <3>3
  <2>3. CASE c \notin open
    BY <1>1, <1>3, <2>1, <2>3
  <2> QED
    BY <2>2, <2>3
<1>5. ASSUME NEW c \in Clients
      PROVE  /\ sending'[c] \in Seq(Nat) /\ Feed!ToSet(sending'[c]) \subseteq 0..recorded
             /\ sending'[c] # <<>> <=> writer'[c] = "send"
             /\ writer'[c] \in {"none", "wait", "send", "dead"}
             /\ c \notin full => sending'[c] = sending[c] /\ writer'[c] = writer[c]
  <2>1. /\ sending[c] \in Seq(Nat) /\ Feed!ToSet(sending[c]) \subseteq 0..recorded
        /\ sending[c] # <<>> <=> writer[c] = "send"
        /\ writer[c] \in {"none", "wait", "send", "dead"}
    BY DEF FeedInv, FeedTypes, Feed!TypeOK
  <2>2. CASE c \in full
    <3>1. sending'[c] = <<>> /\ writer'[c] = "none"
      BY <1>1, <2>2
    <3>2. <<>> \in Seq(Nat) /\ Feed!ToSet(<<>>) \subseteq 0..recorded
      BY Singles, Empty
    <3> QED
      BY <2>2, <3>1, <3>2
  <2>3. CASE c \notin full
    BY <1>1, <2>1, <2>3
  <2> QED
    BY <2>2, <2>3
<1>6. FeedTypes'
  BY <1>1, <1>2, <1>4, <1>5 DEF FeedInv, FeedTypes, Feed!TypeOK
<1>7. Feed!ServedHasWriter' /\ WriterServes'
  <2>1. Feed!ServedHasWriter'
    BY <1>1, <1>2, <1>5 DEF FeedInv, Feed!ServedHasWriter
  <2>2. WriterServes'
    BY <1>1, <1>2, <1>5 DEF FeedInv, WriterServes
  <2> QED
    BY <2>1, <2>2
<1>8. Feed!NothingMissed'
  <2> SUFFICES ASSUME NEW c \in listed', NEW e \in 1..recorded, e \notin emitting', e \in Feed!ToSet(recent)
               PROVE  e \in hello[c] \cup got[c] \cup Feed!ToSet(queue'[c]) \cup Feed!ToSet(sending'[c])
    BY DEF Feed!NothingMissed
  <2>1. c \in listed /\ c \notin full /\ c \in Clients
    BY <1>1, <1>2
  <2>2. sending'[c] = sending[c] /\ Feed!ToSet(queue[c]) \subseteq Feed!ToSet(queue'[c])
    BY <1>4, <1>5, <2>1
  <2>3. CASE e \notin emitting
    BY <2>1, <2>2, <2>3 DEF FeedInv, Feed!NothingMissed
  <2>4. CASE e \in emitting
    <3>1. e = m /\ c \in cs
      BY <2>1, <2>4
    <3>2. c \in open
      BY <2>1, <3>1 DEF open
    <3> QED
      BY <1>4, <2>1, <3>1, <3>2
  <2> QED
    BY <2>3, <2>4
<1> QED
  BY <1>6, <1>7, <1>8 DEF FeedInv

LEMMA BroadcastKeeps ==
  ASSUME LimitsAssumption, FeedInv, Feed!Broadcast \/ \E c \in Clients : Feed!Ask(c) PROVE FeedInv'
<1>1. PICK cs : Feed!Put(cs, 0) /\ UNCHANGED <<Feed!feed, socket, hello, got>>
  BY DEF Feed!Broadcast, Feed!Ask, Feed!Frame
<1>2. 0 \in 0..recorded
  BY DEF FeedInv, FeedTypes
<1> QED
  BY <1>1, <1>2, PutKeeps DEF Feed!feed, FeedInv, FeedTypes

LEMMA PersistKeeps ==
  ASSUME LimitsAssumption, FeedInv, NEW e \in Feed!Events, NEW stored \in BOOLEAN, Feed!Persist(e, stored)
  PROVE  FeedInv'
<1>1. /\ e \in emitting /\ emitting' = emitting \ {e} /\ Feed!Put(Feed!Listeners(stored), e)
      /\ events' = IF stored THEN Append(events, <<e, FALSE>>) ELSE events
      /\ UNCHANGED <<recorded, recent, socket, hello, got>>
  BY DEF Feed!Persist
<1>2. e \in 0..recorded /\ <<e, FALSE>> \in Nat \X BOOLEAN
  <2>1. e \in 1..recorded /\ recorded \in Nat
    BY <1>1 DEF FeedInv, FeedTypes, Feed!TypeOK
  <2>2. e \in Nat /\ e \in 0..recorded
    BY <2>1
  <2> QED
    BY <2>2
<1>3. events' \in Seq(Nat \X BOOLEAN)
  <2>1. PICK t \in Seq(Nat \X BOOLEAN), p \in Nat \X BOOLEAN : t = events /\ p = <<e, FALSE>>
    BY <1>2 DEF FeedInv, FeedTypes
  <2>2. Append(t, p) \in Seq(Nat \X BOOLEAN)
    BY <2>1
  <2> QED
    BY <1>1, <2>1, <2>2
<1>4. \A c \in listed : c \in Feed!Listeners(stored)
  BY DEF FeedInv, FeedTypes, Feed!ServedHasWriter, Feed!Listeners
<1> QED
  BY <1>1, <1>2, <1>3, <1>4, PutKeeps

LEMMA EmitKeeps ==
  ASSUME LimitsAssumption, FeedInv, Feed!Emit PROVE FeedInv'
<1> DEFINE r == recorded + 1
<1>1. /\ recorded < MaxEvents /\ recorded' = r /\ emitting' = emitting \cup {r}
      /\ recent' = Feed!LastOf(Append(recent, r), RecentSize)
      /\ UNCHANGED <<events, socket, listed, writer, queue, sending, hello, got>>
  BY DEF Feed!Emit, Feed!hub
<1>2. recorded \in Nat /\ r \in Nat /\ recorded < r /\ r <= MaxEvents /\ recent \in Seq(Nat) /\ RecentSize \in Nat
  BY <1>1 DEF FeedInv, FeedTypes, LimitsAssumption
<1>3. Append(recent, r) \in Seq(Nat) /\ Feed!ToSet(Append(recent, r)) = Feed!ToSet(recent) \cup {r}
  BY <1>2, Appended
<1>4. /\ recent' \in Seq(Nat) /\ Len(recent') <= RecentSize
      /\ Feed!ToSet(recent') \subseteq Feed!ToSet(recent) \cup {r}
  BY <1>1, <1>2, <1>3, LastOnes
<1>5. 0..recorded \subseteq 0..r /\ 1..recorded \subseteq 1..r /\ r \in 1..r
  BY <1>2
<1> HIDE DEF r
<1>6. Feed!TypeOK'
  <2>1. r \in 0..MaxEvents
    BY <1>2 DEF LimitsAssumption
  <2> QED
    BY <1>1, <1>4, <1>5, <2>1 DEF FeedInv, FeedTypes, Feed!TypeOK
<1>7. FeedTypes'
  BY <1>1, <1>2, <1>4, <1>5, <1>6 DEF FeedInv, FeedTypes
<1>8. Feed!ServedHasWriter' /\ WriterServes'
  BY <1>1 DEF FeedInv, Feed!ServedHasWriter, WriterServes
<1>9. Feed!NothingMissed'
  <2> SUFFICES ASSUME NEW c \in listed, NEW e \in 1..r, e \notin emitting', e \in Feed!ToSet(recent')
               PROVE  e \in hello[c] \cup got[c] \cup Feed!ToSet(queue[c]) \cup Feed!ToSet(sending[c])
    BY <1>1 DEF Feed!NothingMissed
  <2>1. e \notin emitting /\ e # r /\ e \in Feed!ToSet(recent)
    BY <1>1, <1>4
  <2>2. e \in 1..recorded
    BY <2>1 DEF FeedInv, FeedTypes
  <2> QED
    BY <2>1, <2>2 DEF FeedInv, Feed!NothingMissed
<1> QED
  BY <1>7, <1>8, <1>9 DEF FeedInv

\* A step of one browser: what it leaves alone, and what it must establish of
\* this browser.
LEMMA BrowserKeeps ==
  ASSUME FeedInv, NEW c \in Clients,
         UNCHANGED <<recorded, emitting, recent, events>>,
         listed' \in {listed, listed \cup {c}, listed \ {c}},
         socket' \in [Clients -> {"in", "out"}],
         writer' \in [Clients -> {"none", "wait", "send", "dead"}],
         queue' \in [Clients -> Seq(Nat)], sending' \in [Clients -> Seq(Nat)],
         hello' \in [Clients -> SUBSET Nat], got' \in [Clients -> SUBSET Nat],
         \A d \in Clients \ {c} :
           /\ socket'[d] = socket[d] /\ writer'[d] = writer[d] /\ queue'[d] = queue[d]
           /\ sending'[d] = sending[d] /\ hello'[d] = hello[d] /\ got'[d] = got[d],
         Feed!ToSet(queue'[c]) \subseteq 0..recorded, Feed!ToSet(sending'[c]) \subseteq 0..recorded,
         Len(queue'[c]) <= QueueLimit, sending'[c] # <<>> <=> writer'[c] = "send",
         got'[c] \cup hello'[c] \subseteq 1..recorded,
         writer'[c] \in {"wait", "send"} => c \in listed',
         c \in listed' =>
           /\ writer'[c] \in {"wait", "send"} /\ socket'[c] = "in"
           /\ \A e \in 1..recorded : e \notin emitting /\ e \in Feed!ToSet(recent) =>
                e \in hello'[c] \cup got'[c] \cup Feed!ToSet(queue'[c]) \cup Feed!ToSet(sending'[c])
  PROVE  FeedInv'
<1>1. FeedTypes'
  <2>1. listed' \subseteq Clients
    BY DEF FeedInv, FeedTypes
  <2>2. ASSUME NEW d \in Clients
        PROVE  /\ Feed!ToSet(queue'[d]) \subseteq 0..recorded /\ Feed!ToSet(sending'[d]) \subseteq 0..recorded
               /\ Len(queue'[d]) <= QueueLimit /\ (sending'[d] # <<>> <=> writer'[d] = "send")
               /\ got'[d] \cup hello'[d] \subseteq 1..recorded
    <3>1. CASE d = c
      BY <3>1
    <3>2. CASE d # c
      BY <3>2 DEF FeedInv, FeedTypes, Feed!TypeOK
    <3> QED
      BY <3>1, <3>2
  <2>3. Feed!TypeOK'
    BY <2>2 DEF FeedInv, FeedTypes, Feed!TypeOK
  <2> QED
    BY <2>1, <2>2, <2>3 DEF FeedInv, FeedTypes
<1>2. Feed!ServedHasWriter' /\ WriterServes'
  <2>1. \A d \in listed' : d = c \/ d \in listed
    OBVIOUS
  <2>2. \A d \in listed : d = c \/ d \in listed'
    OBVIOUS
  <2>3. Feed!ServedHasWriter'
    BY <2>1 DEF FeedInv, FeedTypes, Feed!ServedHasWriter
  <2>4. WriterServes'
    BY <2>2 DEF FeedInv, FeedTypes, WriterServes
  <2> QED
    BY <2>3, <2>4
<1>3. Feed!NothingMissed'
  <2> SUFFICES ASSUME NEW d \in listed', NEW e \in 1..recorded, e \notin emitting, e \in Feed!ToSet(recent)
               PROVE  e \in hello'[d] \cup got'[d] \cup Feed!ToSet(queue'[d]) \cup Feed!ToSet(sending'[d])
    BY DEF Feed!NothingMissed
  <2>1. CASE d = c
    BY <2>1
  <2>2. CASE d # c
    <3>1. d \in listed /\ d \in Clients \ {c}
      BY <2>2 DEF FeedInv, FeedTypes
    <3> QED
      BY <3>1 DEF FeedInv, Feed!NothingMissed
  <2> QED
    BY <2>1, <2>2
<1> QED
  BY <1>1, <1>2, <1>3 DEF FeedInv

LEMMA ConnectKeeps ==
  ASSUME LimitsAssumption, FeedInv, NEW c \in Clients, Feed!Connect(c) PROVE FeedInv'
<1> USE DEF Feed!Connect, Feed!feed, Feed!Frame
<1>1. /\ <<0>> \in Seq(Nat) /\ Len(<<0>>) <= QueueLimit /\ Feed!ToSet(<<0>>) = {0}
  BY Singles DEF LimitsAssumption
<1>2. /\ socket' \in [Clients -> {"in", "out"}] /\ writer' \in [Clients -> {"none", "wait", "send", "dead"}]
      /\ queue' \in [Clients -> Seq(Nat)] /\ sending' = sending
      /\ hello' \in [Clients -> SUBSET Nat] /\ got' \in [Clients -> SUBSET Nat]
  BY <1>1 DEF FeedInv, FeedTypes
<1>3. /\ queue'[c] = <<0>> /\ hello'[c] = Feed!ToSet(recent) /\ got'[c] = {} /\ writer'[c] = "wait"
      /\ socket'[c] = "in"
  BY DEF FeedInv, FeedTypes
<1>4. sending[c] = <<>> /\ Feed!ToSet(sending[c]) \subseteq 0..recorded
  <2>1. c \notin listed
    BY DEF FeedInv, Feed!ServedHasWriter
  <2>2. writer[c] # "send"
    BY <2>1 DEF FeedInv, WriterServes
  <2> QED
    BY <2>2 DEF FeedInv, FeedTypes, Feed!TypeOK
<1>5. recorded \in Nat /\ Feed!ToSet(recent) \subseteq 1..recorded /\ 0 \in 0..recorded
  BY DEF FeedInv, FeedTypes
<1>6. writer[c] # "send" /\ listed' = listed \cup {c}
  BY <1>4 DEF FeedInv, FeedTypes, Feed!TypeOK
<1>7. \A d \in Clients \ {c} :
        /\ socket'[d] = socket[d] /\ writer'[d] = writer[d] /\ queue'[d] = queue[d]
        /\ sending'[d] = sending[d] /\ hello'[d] = hello[d] /\ got'[d] = got[d]
  BY DEF FeedInv, FeedTypes
<1>8. UNCHANGED <<recorded, emitting, recent, events>>
  OBVIOUS
<1>9. /\ Feed!ToSet(queue'[c]) \subseteq 0..recorded /\ Len(queue'[c]) <= QueueLimit
      /\ Feed!ToSet(sending'[c]) \subseteq 0..recorded /\ (sending'[c] # <<>> <=> writer'[c] = "send")
      /\ got'[c] \cup hello'[c] \subseteq 1..recorded
      /\ \A e \in Feed!ToSet(recent) : e \in hello'[c] \cup got'[c] \cup Feed!ToSet(queue'[c]) \cup Feed!ToSet(sending'[c])
  BY <1>1, <1>2, <1>3, <1>4, <1>5
<1>10. sending' \in [Clients -> Seq(Nat)]
  BY <1>2 DEF FeedInv, FeedTypes
<1> HIDE DEF Feed!Connect
<1> QED
  BY <1>2, <1>3, <1>6, <1>7, <1>8, <1>9, <1>10, BrowserKeeps

LEMMA DisconnectKeeps ==
  ASSUME LimitsAssumption, FeedInv, NEW c \in Clients, Feed!Disconnect(c) PROVE FeedInv'
<1> USE DEF Feed!Disconnect, Feed!feed
<1>1. <<>> \in Seq(Nat) /\ Len(<<>>) <= QueueLimit /\ Feed!ToSet(<<>>) = {}
  <2>1. QueueLimit \in Nat /\ 0 <= QueueLimit
    BY DEF LimitsAssumption
  <2> QED
    BY <2>1, Singles, Empty
<1>2. /\ socket' \in [Clients -> {"in", "out"}] /\ writer' \in [Clients -> {"none", "wait", "send", "dead"}]
      /\ queue' \in [Clients -> Seq(Nat)] /\ sending' \in [Clients -> Seq(Nat)]
      /\ hello' \in [Clients -> SUBSET Nat] /\ got' \in [Clients -> SUBSET Nat]
  <2>1. PICK none \in Seq(Nat), nobody \in SUBSET Nat : none = <<>> /\ nobody = {}
    BY <1>1
  <2>2. queue' = [queue EXCEPT ![c] = none] /\ sending' = [sending EXCEPT ![c] = none]
    BY <2>1
  <2>3. hello' = [hello EXCEPT ![c] = nobody] /\ got' = [got EXCEPT ![c] = nobody]
    BY <2>1
  <2>4. queue' \in [Clients -> Seq(Nat)] /\ sending' \in [Clients -> Seq(Nat)]
    BY <2>2 DEF FeedInv, FeedTypes
  <2>5. hello' \in [Clients -> SUBSET Nat] /\ got' \in [Clients -> SUBSET Nat]
    BY <2>3 DEF FeedInv, FeedTypes
  <2>6. socket' \in [Clients -> {"in", "out"}] /\ writer' \in [Clients -> {"none", "wait", "send", "dead"}]
    BY DEF FeedInv, FeedTypes
  <2> QED
    BY <2>4, <2>5, <2>6
<1>3. /\ queue'[c] = <<>> /\ sending'[c] = <<>> /\ hello'[c] = {} /\ got'[c] = {} /\ writer'[c] = "none"
      /\ c \notin listed'
  BY DEF FeedInv, FeedTypes
<1> QED
  BY <1>1, <1>2, <1>3, BrowserKeeps DEF FeedInv, FeedTypes

LEMMA TakeKeeps ==
  ASSUME LimitsAssumption, FeedInv, NEW c \in Clients, Feed!Take(c) PROVE FeedInv'
<1> USE DEF Feed!Take, Feed!feed
<1>1. PICK s \in Seq(Nat) : s = queue[c] /\ s # <<>>
  BY DEF FeedInv, FeedTypes
<1>2. /\ Head(s) \in Nat /\ Tail(s) \in Seq(Nat) /\ Len(Tail(s)) = Len(s) - 1
      /\ Feed!ToSet(s) = {Head(s)} \cup Feed!ToSet(Tail(s))
  BY <1>1, Taken
<1>3. /\ Feed!ToSet(<<Head(s)>>) = {Head(s)} /\ <<Head(s)>> \in Seq(Nat) /\ <<Head(s)>> # <<>>
  BY <1>2, Singles
<1>4. /\ writer' \in [Clients -> {"none", "wait", "send", "dead"}]
      /\ queue' \in [Clients -> Seq(Nat)] /\ sending' \in [Clients -> Seq(Nat)]
  BY <1>1, <1>2, <1>3 DEF FeedInv, FeedTypes
<1>5. writer'[c] = "send" /\ queue'[c] = Tail(s) /\ sending'[c] = <<Head(s)>>
  BY <1>1 DEF FeedInv, FeedTypes
<1>6. Len(Tail(s)) <= QueueLimit
  <2>1. Len(s) <= QueueLimit /\ Len(s) \in Nat
    BY <1>1 DEF FeedInv, FeedTypes, Feed!TypeOK
  <2> QED
    BY <1>2, <2>1 DEF LimitsAssumption
<1>7. Feed!ToSet(s) \subseteq 0..recorded /\ got[c] \cup hello[c] \subseteq 1..recorded /\ sending[c] = <<>>
  BY <1>1 DEF FeedInv, FeedTypes, Feed!TypeOK
<1>8. ASSUME c \in listed, NEW e \in 1..recorded, e \notin emitting /\ e \in Feed!ToSet(recent)
      PROVE  e \in hello[c] \cup got[c] \cup Feed!ToSet(Tail(s)) \cup {Head(s)}
  BY <1>1, <1>2, <1>7, <1>8, Singles DEF FeedInv, Feed!NothingMissed
<1>9. c \in listed /\ socket[c] = "in"
  BY DEF FeedInv, Feed!ServedHasWriter, WriterServes
<1> QED
  BY <1>2, <1>3, <1>4, <1>5, <1>6, <1>7, <1>8, <1>9, BrowserKeeps DEF FeedInv, FeedTypes

LEMMA SendKeeps ==
  ASSUME LimitsAssumption, FeedInv, NEW c \in Clients, Feed!Send(c) PROVE FeedInv'
<1> USE DEF Feed!Send, Feed!feed, Feed!Frame
<1>1. <<>> \in Seq(Nat) /\ Feed!ToSet(<<>>) = {}
  BY Singles, Empty
<1>2. /\ Feed!ToSet(sending[c]) \subseteq 0..recorded /\ got[c] \cup hello[c] \subseteq 1..recorded
      /\ recorded \in Nat /\ Feed!ToSet(queue[c]) \subseteq 0..recorded /\ Len(queue[c]) <= QueueLimit
  BY DEF FeedInv, FeedTypes, Feed!TypeOK
<1>3. Feed!ToSet(sending[c]) \ {0} \subseteq 1..recorded
  BY <1>2
<1>4. /\ got' = [got EXCEPT ![c] = @ \cup (Feed!ToSet(sending[c]) \ {0})]
      /\ writer' \in [Clients -> {"none", "wait", "send", "dead"}]
      /\ sending' \in [Clients -> Seq(Nat)] /\ got' \in [Clients -> SUBSET Nat]
  BY <1>1, <1>3 DEF FeedInv, FeedTypes
<1>5. writer'[c] = "wait" /\ sending'[c] = <<>> /\ got'[c] = got[c] \cup (Feed!ToSet(sending[c]) \ {0})
  BY <1>4 DEF FeedInv, FeedTypes
<1>6. ASSUME c \in listed, NEW e \in 1..recorded, e \notin emitting /\ e \in Feed!ToSet(recent)
      PROVE  e \in hello[c] \cup got'[c] \cup Feed!ToSet(queue[c])
  BY <1>5, <1>6 DEF FeedInv, Feed!NothingMissed
<1>7. c \in listed /\ socket[c] = "in"
  BY DEF FeedInv, Feed!ServedHasWriter, WriterServes
<1> QED
  BY <1>1, <1>2, <1>3, <1>4, <1>5, <1>6, <1>7, BrowserKeeps DEF FeedInv, FeedTypes

LEMMA SendFailsKeeps ==
  ASSUME LimitsAssumption, FeedInv, NEW c \in Clients, Feed!SendFails(c) PROVE FeedInv'
<1> USE DEF Feed!SendFails, Feed!feed, Feed!WithoutWriter
<1>1. <<>> \in Seq(Nat) /\ Feed!ToSet(<<>>) = {}
  BY Singles, Empty
<1>2. /\ Feed!ToSet(queue[c]) \subseteq 0..recorded /\ Len(queue[c]) <= QueueLimit
      /\ got[c] \cup hello[c] \subseteq 1..recorded
  BY DEF FeedInv, FeedTypes, Feed!TypeOK
<1>3. /\ writer' \in [Clients -> {"none", "wait", "send", "dead"}] /\ sending' \in [Clients -> Seq(Nat)]
  BY <1>1 DEF FeedInv, FeedTypes
<1>4. writer'[c] = "dead" /\ sending'[c] = <<>> /\ c \notin listed'
  BY DEF FeedInv, FeedTypes
<1> QED
  BY <1>1, <1>2, <1>3, <1>4, BrowserKeeps DEF FeedInv, FeedTypes

\* The rows that prune leaves are those from some place on.
LEMMA InsideIs ==
  ASSUME NEW S, NEW s \in Seq(S)
  PROVE  \E k \in 1..Len(s) + 1 : /\ Feed!Inside(s) = SubSeq(s, k, Len(s))
                                  /\ \A i \in 1..k - 1 : s[i][2]
<1> DEFINE P(k) == (\A i \in 1..k - 1 : s[i][2]) /\ (k <= Len(s) => ~s[k][2])
<1>1. \E k \in 1..Len(s) + 1 : P(k)
  <2>1. PICK l \in Nat : l = Len(s)
    OBVIOUS
  <2>2. CASE \A i \in 1..l : s[i][2]
    <3>1. l + 1 \in 1..l + 1 /\ l + 1 - 1 = l /\ ~(l + 1 <= l)
      BY <2>1
    <3>2. P(l + 1)
      BY <2>1, <2>2, <3>1
    <3> QED
      BY <2>1, <3>1, <3>2
  <2>3. CASE ~\A i \in 1..l : s[i][2]
    <3> DEFINE B == {i \in 1..l : ~s[i][2]}
    <3>1. B \subseteq Nat /\ B # {}
      BY <2>3
    <3> HIDE DEF B
    <3>2. PICK k \in B : \A i \in B : k <= i
      BY <3>1, Least
    <3>3. k \in 1..l /\ ~s[k][2]
      BY <3>2 DEF B
    <3>4. ASSUME NEW i \in 1..k - 1 PROVE s[i][2]
      <4>1. i \in 1..l /\ ~(k <= i)
        BY <2>1, <3>3
      <4> QED
        BY <3>2, <4>1 DEF B
    <3>5. k \in 1..l + 1
      BY <2>1, <3>3
    <3>6. P(k)
      BY <3>3, <3>4
    <3> QED
      BY <2>1, <3>5, <3>6
  <2> QED
    BY <2>2, <2>3
<1> DEFINE f == CHOOSE k \in 1..Len(s) + 1 : P(k)
<1>2. f \in 1..Len(s) + 1 /\ P(f)
  BY <1>1
<1>3. Feed!Inside(s) = SubSeq(s, f, Len(s))
  BY DEF Feed!Inside
<1> HIDE DEF f
<1> QED
  BY <1>2, <1>3

\* A step that touches the table of rows alone.
LEMMA RowsKeep ==
  ASSUME FeedInv, events' \in Seq(Nat \X BOOLEAN), UNCHANGED <<recorded, emitting, recent, Feed!hub>>
  PROVE  FeedInv'
BY DEF FeedInv, FeedTypes, WriterServes, Feed!TypeOK, Feed!ServedHasWriter, Feed!NothingMissed, Feed!hub

LEMMA AgeKeeps ==
  ASSUME FeedInv, Feed!Age PROVE FeedInv' /\ Len(events') = Len(events)
<1>1. PICK k \in DOMAIN events : events' = [events EXCEPT ![k] = <<@[1], TRUE>>]
  BY DEF Feed!Age
<1>2. PICK s \in Seq(Nat \X BOOLEAN) : s = events
  BY DEF FeedInv, FeedTypes
<1>3. PICK p \in Nat \X BOOLEAN : p = <<s[k][1], TRUE>>
  <2>1. s[k] \in Nat \X BOOLEAN
    BY <1>2
  <2> QED
    BY <2>1
<1>4. events' = [s EXCEPT ![k] = p]
  BY <1>1, <1>2, <1>3
<1>5. [s EXCEPT ![k] = p] \in Seq(Nat \X BOOLEAN) /\ Len([s EXCEPT ![k] = p]) = Len(s)
  BY <1>2
<1> QED
  BY <1>2, <1>4, <1>5, RowsKeep DEF Feed!Age

\* What prune leaves of the table: its last rows, none dropped inside its
\* retention unless MaxRows newer ones stay.
LEMMA PruneIs ==
  ASSUME LimitsAssumption, FeedInv, Feed!Prune
  PROVE  /\ events' \in Seq(Nat \X BOOLEAN)
         /\ \A k \in DOMAIN events : events[k] \notin Feed!ToSet(events') /\ ~events[k][2] =>
              /\ k + MaxRows <= Len(events)
              /\ \A j \in k + 1..Len(events) : j > Len(events) - MaxRows => events[j] \in Feed!ToSet(events')
<1>1. PICK s \in Seq(Nat \X BOOLEAN) : s = events
  BY DEF FeedInv, FeedTypes
<1>2. PICK l \in Nat, m \in Nat : l = Len(s) /\ m = MaxRows
  BY DEF LimitsAssumption
<1>3. PICK f \in 1..l + 1 : Feed!Inside(s) = SubSeq(s, f, l) /\ \A i \in 1..f - 1 : s[i][2]
  BY <1>2, InsideIs
<1> DEFINE t == SubSeq(s, f, l)
<1>4. t \in Seq(Nat \X BOOLEAN) /\ Len(t) = l + 1 - f /\ \A i \in 1..l + 1 - f : t[i] = s[f + i - 1]
  BY <1>2
<1> HIDE DEF t
<1>5. events' = Feed!LastOf(t, m)
  BY <1>1, <1>2, <1>3 DEF t, Feed!Prune, Feed!Newest
<1>6. /\ events' \in Seq(Nat \X BOOLEAN)
      /\ \A i \in DOMAIN t : i > Len(t) - m => t[i] \in Feed!ToSet(events')
  BY <1>2, <1>4, <1>5, LastOnes
<1>7. ASSUME NEW j \in 1..l, j >= f, j > l - m PROVE s[j] \in Feed!ToSet(events')
  <2>1. PICK i \in 1..l + 1 - f : i = j + 1 - f
    BY <1>7
  <2>2. f + i - 1 = j /\ i > l + 1 - f - m
    BY <1>7, <2>1
  <2>3. i \in DOMAIN t /\ Len(t) = l + 1 - f
    BY <1>4, <2>1
  <2>4. t[i] \in Feed!ToSet(events')
    BY <1>6, <2>2, <2>3
  <2>5. t[i] = s[j]
    BY <1>4, <2>1, <2>2
  <2> QED
    BY <2>4, <2>5
<1>8. ASSUME NEW k \in 1..l, s[k] \notin Feed!ToSet(events'), ~s[k][2]
      PROVE  /\ k + m <= l
             /\ \A j \in k + 1..l : j > l - m => s[j] \in Feed!ToSet(events')
  <2>1. k >= f
    BY <1>3, <1>8
  <2>2. ~(k > l - m)
    BY <1>7, <1>8, <2>1
  <2>3. ASSUME NEW j \in k + 1..l, j > l - m PROVE s[j] \in Feed!ToSet(events')
    <3>1. j \in 1..l /\ j >= f
      BY <2>1
    <3> QED
      BY <1>7, <2>3, <3>1
  <2>4. k + m <= l
    BY <1>2, <2>2
  <2> QED
    BY <2>3, <2>4
<1>9. DOMAIN events = 1..l
  BY <1>1, <1>2
<1> QED
  BY <1>1, <1>2, <1>6, <1>8, <1>9

LEMMA SameCardinality == ASSUME NEW S PROVE Feed!Cardinality(S) = Cardinality(S)
BY DEF Feed!Cardinality, Cardinality

LEMMA NewestAlways ==
  ASSUME LimitsAssumption, FeedInv, Feed!Next \/ UNCHANGED Feed!vars
  PROVE  \A k \in DOMAIN events :
           (events[k] \notin Feed!ToSet(events') /\ ~events[k][2] /\ Len(events') < Len(events))
           => Feed!Cardinality({j \in k + 1..Len(events) : events[j] \in Feed!ToSet(events')}) >= MaxRows
<1>1. Len(events) \in Nat
  BY DEF FeedInv, FeedTypes
<1>2. CASE Feed!Prune
  <2> SUFFICES ASSUME NEW k \in DOMAIN events, events[k] \notin Feed!ToSet(events'), ~events[k][2]
               PROVE  Cardinality({j \in k + 1..Len(events) : events[j] \in Feed!ToSet(events')}) >= MaxRows
    BY SameCardinality
  <2> DEFINE N == {j \in k + 1..Len(events) : events[j] \in Feed!ToSet(events')}
  <2>1. PICK l \in Nat, m \in Nat : l = Len(events) /\ m = MaxRows
    BY <1>1 DEF LimitsAssumption
  <2>2. k \in Nat /\ k + m <= l /\ \A j \in k + 1..l : j > l - m => events[j] \in Feed!ToSet(events')
    <3>1. k \in Nat
      BY DEF FeedInv, FeedTypes
    <3> QED
      BY <1>2, <2>1, <3>1, PruneIs
  <2>3. l - m + 1 \in Int /\ l - m + 1 <= l + 1 /\ \A j \in l - m + 1..l : j \in k + 1..l /\ j > l - m
    BY <2>2
  <2>4. l - m + 1..l \subseteq N
    BY <2>1, <2>2, <2>3
  <2>5. Cardinality(l - m + 1..l) = m
    <3>1. Cardinality(l - m + 1..l) = IF l - m + 1 > l THEN 0 ELSE l - (l - m + 1) + 1
      BY FS_Interval
    <3> QED
      BY <3>1
  <2>6. IsFiniteSet(k + 1..l) /\ N \subseteq k + 1..l
    <3>1. k + 1 \in Int /\ l \in Int
      BY <2>2
    <3>2. IsFiniteSet(k + 1..l)
      BY <3>1, FS_Interval
    <3>3. N \subseteq k + 1..l
      BY <2>1
    <3> QED
      BY <3>2, <3>3
  <2>7. IsFiniteSet(N)
    BY <2>6, FS_Subset
  <2> HIDE DEF N
  <2>8. Cardinality(N) >= m
    <3>1. Cardinality(l - m + 1..l) <= Cardinality(N) /\ Cardinality(N) \in Nat
      BY <2>4, <2>7, FS_Subset, FS_CardinalityType
    <3> QED
      BY <2>5, <3>1
  <2> QED
    BY <2>1, <2>8 DEF N
<1>3. CASE Feed!Age
  BY <1>1, <1>3, AgeKeeps
<1>4. CASE \E e \in Feed!Events, stored \in BOOLEAN : Feed!Persist(e, stored)
  <2>1. PICK e \in Feed!Events, stored \in BOOLEAN : Feed!Persist(e, stored)
    BY <1>4
  <2>2. events' = IF stored THEN Append(events, <<e, FALSE>>) ELSE events
    BY <2>1 DEF Feed!Persist
  <2>3. ~(Len(events') < Len(events))
    <3>1. PICK n \in Nat : n = Len(events)
      BY <1>1
    <3>2. Len(Append(events, <<e, FALSE>>)) = n + 1
      BY <3>1 DEF FeedInv, FeedTypes
    <3> QED
      BY <2>2, <3>1, <3>2
  <2> QED
    BY <2>3
<1>5. CASE UNCHANGED events
  BY <1>1, <1>5
<1>6. Feed!Prune \/ Feed!Age \/ UNCHANGED events \/ \E e \in Feed!Events, stored \in BOOLEAN : Feed!Persist(e, stored)
  BY DEF Feed!Next, Feed!vars, Feed!feed, Feed!Broadcast, Feed!Emit, Feed!Connect, Feed!Disconnect,
         Feed!Take, Feed!Send, Feed!SendFails, Feed!Ask
<1> QED
  BY <1>2, <1>3, <1>4, <1>5, <1>6

LEMMA FeedKeeps ==
  ASSUME LimitsAssumption, FeedInv, Feed!Next \/ UNCHANGED Feed!vars PROVE FeedInv'
<1>1. CASE UNCHANGED Feed!vars
  BY <1>1 DEF Feed!vars, Feed!feed, Feed!hub, FeedInv, FeedTypes, WriterServes, Feed!TypeOK,
              Feed!ServedHasWriter, Feed!NothingMissed
<1>2. CASE Feed!Prune
  BY <1>2, PruneIs, RowsKeep DEF Feed!Prune
<1>3. CASE \E e \in Feed!Events, stored \in BOOLEAN : Feed!Persist(e, stored)
  BY <1>3, PersistKeeps
<1>4. CASE \E c \in Clients : Feed!Connect(c) \/ Feed!Disconnect(c) \/ Feed!Take(c) \/ Feed!Send(c)
                              \/ Feed!SendFails(c)
  BY <1>4, ConnectKeeps, DisconnectKeeps, TakeKeeps, SendKeeps, SendFailsKeeps
<1>5. CASE Feed!Emit
  BY <1>5, EmitKeeps
<1>6. CASE Feed!Age
  BY <1>6, AgeKeeps
<1>7. CASE Feed!Broadcast \/ \E c \in Clients : Feed!Ask(c)
  BY <1>7, BroadcastKeeps
<1> QED
  BY <1>1, <1>2, <1>3, <1>4, <1>5, <1>6, <1>7 DEF Feed!Next

\* Whoever the hub serves has a task, and has, holds or awaits every event since
\* it came, and retention keeps the newest rows, whatever the numbers of
\* browsers, events and frames and the sizes of the queues, the recent list and
\* the table (event_log.py, telemetry.py, websocket_browser.py).
THEOREM EventsReachBrowsers ==
  ASSUME LimitsAssumption
  PROVE  Feed!Spec => Feed!FeedKept
<1>1. Feed!Init => FeedInv
  BY FeedInit
<1>2. FeedInv /\ [Feed!Next]_Feed!vars => FeedInv'
  BY FeedKeeps
<1>3. FeedInv => Feed!TypeOK /\ Feed!ServedHasWriter /\ Feed!NothingMissed
  BY DEF FeedInv, FeedTypes
<1>4. ASSUME FeedInv, [Feed!Next]_Feed!vars
      PROVE  [ \A k \in DOMAIN events :
        (events[k] \notin Feed!ToSet(events') /\ ~events[k][2] /\ Len(events') < Len(events))
        => Feed!Cardinality({j \in k + 1..Len(events) : events[j] \in Feed!ToSet(events')}) >= MaxRows ]_Feed!vars
  BY <1>4, NewestAlways
<1> QED
  BY <1>1, <1>2, <1>3, <1>4, PTL DEF Feed!Spec, Feed!FeedKept, Feed!NewestStay

-----------------------------------------------------------------------------
(* The runs of the trainer and what its window shows of them. *)

CONSTANTS MaxRuns, MaxInstalls
VARIABLES pc, pips, child, exits, process, cancelRequested, failure, told, polling, buttons, shown,
          completed, late

Train == INSTANCE Trainer WITH installs <- pips, code <- exits, events <- told

RunsAssumption == MaxRuns \in Nat /\ MaxInstalls \in Nat

Runs == 1..MaxRuns
Steps == {"spawn", "register", "read", "unregister"}
RunPlaces == {Train!Idle, Train!Done, <<"env", "none">>} \cup ({"pip", "probe", "train", "retry"} \X Steps)
Outcomes == {"complete", "cancelled", "error", "failure"}

PlaceTypes == pc \in [Runs -> RunPlaces] /\ pips \in [Runs -> 0..MaxInstalls]

ChildTypes ==
    /\ child \in [Runs -> {"none", "working", "reported", "dead"}]
    /\ exits \in [Runs -> BOOLEAN] /\ process \in 0..MaxRuns
    /\ \A r \in Runs : child[r] # "none" => pc[r][2] \in {"register", "read", "unregister"}

WindowTypes ==
    /\ {cancelRequested, polling} \subseteq BOOLEAN
    /\ failure \in {"none", "plain", "retryable"}
    /\ buttons \in {"start", "cancel"}
    /\ shown \in {"nothing", "complete", "cancelled", "error"}
    /\ completed \subseteq Runs /\ late \subseteq Runs
    /\ told \in Seq(Outcomes)

\* A run that may still say how it ended.
Unfinished(r) == pc[r] \notin {Train!Idle, Train!Done} /\ r \notin completed

\* One end is to come: from a run, from the queue, or it has come and Start is
\* enabled.
OneEnd ==
    /\ \A r, s \in Runs : Unfinished(r) /\ Unfinished(s) => r = s
    /\ \A r \in Runs : Unfinished(r) =>
         buttons = "cancel" /\ \A i \in 1..Len(told) : told[i] \notin Train!Finishing
    /\ \A i \in 1..Len(told) : told[i] \in Train!Finishing =>
         buttons = "cancel" /\ \A j \in 1..Len(told) : told[j] \in Train!Finishing => j = i
    /\ shown # "nothing" => buttons = "start"

\* A run reported complete has nothing to add.
NothingToAdd ==
    \A r \in completed :
      \/ pc[r] = Train!Done
      \/ /\ pc[r] \in Train!Training \X {"read", "unregister"} /\ child[r] \in {"reported", "dead"}
         /\ exits[r] /\ ~cancelRequested

RunInv == PlaceTypes /\ ChildTypes /\ WindowTypes /\ (late = {} => OneEnd /\ NothingToAdd)

\* What is in the queue when nothing is said, or nothing that ends a run.
LEMMA EndsKeep ==
  ASSUME OneEnd, \A r \in Runs : Unfinished(r)' => Unfinished(r),
         told' = told, buttons' = buttons, shown' = shown
  PROVE  OneEnd'
  BY DEF OneEnd

LEMMA EndsSaid ==
  ASSUME OneEnd, told \in Seq(Outcomes), NEW e \in Outcomes, told' = Append(told, e),
         \A r \in Runs : Unfinished(r)' => Unfinished(r),
         e \in Train!Finishing =>
           (\E r \in Runs : Unfinished(r)) /\ \A r \in Runs : ~Unfinished(r)',
         buttons' = buttons, shown' = shown
  PROVE  OneEnd'
<1>1. /\ Len(told') = Len(told) + 1 /\ Len(told) \in Nat /\ told'[Len(told) + 1] = e
      /\ \A i \in 1..Len(told) : told'[i] = told[i]
  BY AppendProperties, LenProperties
<1>2. PICK n \in Nat : n = Len(told) /\ Len(told') = n + 1
  BY <1>1
<1>3. \A i \in 1..n + 1 : i \in 1..n \/ i = n + 1
  OBVIOUS
<1>4. CASE e \in Train!Finishing
  <2>1. buttons = "cancel" /\ \A i \in 1..n : told[i] \notin Train!Finishing
    BY <1>2, <1>4 DEF OneEnd
  <2>2. \A i \in 1..n + 1 : told'[i] \in Train!Finishing => i = n + 1
    BY <1>1, <1>2, <1>3, <2>1
  <2> QED
    BY <1>2, <1>4, <2>1, <2>2 DEF OneEnd
<1>5. CASE e \notin Train!Finishing
  <2>1. \A i \in 1..n + 1 : told'[i] \in Train!Finishing => i \in 1..n /\ told[i] \in Train!Finishing
    BY <1>1, <1>2, <1>3, <1>5
  <2> QED
    BY <1>2, <2>1 DEF OneEnd
<1> QED
  BY <1>4, <1>5

\* A place of one of the processes is a stage and a step.
LEMMA PlaceIs ==
  ASSUME NEW x \in RunPlaces
  PROVE  /\ x[2] \in Steps => x = <<x[1], x[2]>> /\ x[1] \in {"pip", "probe", "train", "retry"}
         /\ x[2] \in Steps \cup {"none"}
         /\ x[2] \in Steps => x \notin {Train!Idle, Train!Done, <<"env", "none">>}
  BY DEF RunPlaces, Steps, Train!Idle, Train!Done

LEMMA RunMoves ==
  ASSUME PlaceTypes, NEW r \in Runs, NEW q \in RunPlaces, Train!Goto(r, q)
  PROVE  pc' \in [Runs -> RunPlaces] /\ pc'[r] = q /\ \A s \in Runs : s # r => pc'[s] = pc[s]
  BY DEF PlaceTypes, Train!Goto

LEMMA RunStarts == RunsAssumption /\ Train!Init => RunInv
<1> SUFFICES ASSUME RunsAssumption, Train!Init PROVE RunInv
  OBVIOUS
<1>1. /\ pc = [r \in Runs |-> Train!Idle] /\ pips = [r \in Runs |-> MaxInstalls]
      /\ child = [r \in Runs |-> "none"] /\ exits = [r \in Runs |-> TRUE]
      /\ process = 0 /\ cancelRequested = FALSE /\ failure = "none"
      /\ told = <<>> /\ polling = FALSE /\ buttons = "start" /\ shown = "nothing"
      /\ completed = {} /\ late = {}
  BY Zenon DEF Train!Init, Train!Runs, Runs
<1>2. PlaceTypes
  BY <1>1 DEF PlaceTypes, RunPlaces, RunsAssumption
<1>3. ChildTypes
  BY <1>1 DEF ChildTypes, RunsAssumption
<1>4. WindowTypes
  BY <1>1, EmptySeq DEF WindowTypes
<1>5. OneEnd /\ NothingToAdd
  BY <1>1, EmptySeq DEF OneEnd, NothingToAdd, Unfinished
<1> QED
  BY <1>2, <1>3, <1>4, <1>5 DEF RunInv

\* Only Start begins a run.
LEMMA StartKeeps ==
  ASSUME RunsAssumption, RunInv, Train!Start
  PROVE  RunInv'
<1>1. /\ buttons = "start" /\ cancelRequested' = FALSE /\ buttons' = "cancel" /\ shown' = "nothing"
      /\ UNCHANGED <<pips, child, exits, process, failure, told, polling, completed, late>>
  BY Zenon DEF Train!Start
<1>2. PICK r \in Runs : pc[r] = Train!Idle /\ pc' = [pc EXCEPT ![r] = <<"env", "none">>]
  BY Zenon DEF Train!Start, Train!Runs, Runs
<1>3. pc' \in [Runs -> RunPlaces] /\ pc'[r] = <<"env", "none">> /\ \A s \in Runs : s # r => pc'[s] = pc[s]
  BY <1>2, RunMoves DEF RunInv, RunPlaces, Train!Goto
<1>4. PlaceTypes' /\ WindowTypes'
  BY <1>1, <1>3 DEF RunInv, PlaceTypes, WindowTypes
<1>5. ChildTypes'
  <2>1. child[r] = "none"
    BY <1>2 DEF RunInv, ChildTypes, Train!Idle
  <2> QED
    BY <1>1, <1>3, <2>1 DEF RunInv, ChildTypes
<1>6. ASSUME late = {} PROVE OneEnd' /\ NothingToAdd'
  <2>1. OneEnd /\ NothingToAdd
    BY <1>6 DEF RunInv
  <2>2. \A s \in Runs : ~Unfinished(s)
    BY <1>1, <2>1 DEF OneEnd
  <2>3. \A i \in 1..Len(told) : told[i] \notin Train!Finishing
    BY <1>1, <2>1 DEF OneEnd
  <2>4. \A s \in Runs : Unfinished(s)' => s = r
    BY <1>1, <1>3, <2>2 DEF Unfinished
  <2>5. OneEnd'
    BY <1>1, <2>3, <2>4 DEF OneEnd
  <2>6. r \notin completed
    BY <1>2, <2>1 DEF NothingToAdd, Train!Idle, Train!Done, Train!Training
  <2>7. completed \subseteq Runs
    BY DEF RunInv, WindowTypes
  <2>8. NothingToAdd'
    BY <1>1, <1>3, <2>1, <2>6, <2>7 DEF NothingToAdd
  <2> QED
    BY <2>5, <2>8
<1> QED
  BY <1>1, <1>4, <1>5, <1>6 DEF RunInv

LEMMA CancelKeeps ==
  ASSUME RunsAssumption, RunInv, Train!Cancel
  PROVE  RunInv'
<1>1. /\ cancelRequested' = TRUE
      /\ UNCHANGED <<pc, pips, process, failure, told, polling, buttons, shown, completed>>
      /\ late' = late \cup {r \in completed : pc[r] # Train!Done}
  BY Zenon DEF Train!Cancel, Train!Terminate
<1>2. \/ UNCHANGED <<child, exits>>
      \/ /\ process # 0 /\ Train!Working(process)
         /\ child' = [child EXCEPT ![process] = "dead"] /\ exits' = [exits EXCEPT ![process] = FALSE]
  BY Zenon DEF Train!Cancel, Train!Terminate
<1>3. PlaceTypes' /\ WindowTypes'
  BY <1>1 DEF RunInv, PlaceTypes, WindowTypes
<1>4. ChildTypes'
  <2>1. CASE UNCHANGED <<child, exits>>
    BY <1>1, <2>1 DEF RunInv, ChildTypes
  <2>2. CASE /\ process # 0 /\ Train!Working(process)
             /\ child' = [child EXCEPT ![process] = "dead"] /\ exits' = [exits EXCEPT ![process] = FALSE]
    <3>1. process \in Runs /\ child[process] # "none"
      BY <2>2 DEF RunInv, ChildTypes, RunsAssumption, Runs, Train!Working
    <3>2. /\ child' \in [Runs -> {"none", "working", "reported", "dead"}]
          /\ \A r \in Runs : child'[r] # "none" => child[r] # "none"
      BY <2>2, <3>1 DEF RunInv, ChildTypes
    <3>3. exits' \in [Runs -> BOOLEAN]
      BY <2>2, <3>1 DEF RunInv, ChildTypes
    <3> QED
      BY <1>1, <3>2, <3>3 DEF RunInv, ChildTypes
  <2> QED
    BY <1>2, <2>1, <2>2
<1>5. ASSUME late' = {} PROVE OneEnd' /\ NothingToAdd'
  <2>1. late = {} /\ \A r \in completed : pc[r] = Train!Done
    BY <1>1, <1>5
  <2>2. OneEnd
    BY <2>1 DEF RunInv
  <2>3. OneEnd'
    BY <1>1, <2>2 DEF OneEnd, Unfinished
  <2>4. NothingToAdd'
    BY <1>1, <2>1 DEF NothingToAdd
  <2> QED
    BY <2>3, <2>4
<1> QED
  BY <1>3, <1>4, <1>5 DEF RunInv

\* What the window shows once it has drained an event.
LEMMA PollKeeps ==
  ASSUME RunsAssumption, RunInv, Train!Poll
  PROVE  /\ RunInv'
         /\ (late = {} /\ shown = "complete") => shown' = "complete"
<1>1. UNCHANGED <<pc, pips, child, exits, cancelRequested, failure, completed, late>>
  BY Zenon DEF Train!Poll
<1>2. /\ PlaceTypes /\ ChildTypes /\ WindowTypes /\ told \in Seq(Outcomes)
      /\ process \in 0..MaxRuns /\ 0 \in 0..MaxRuns
  BY DEF RunInv, WindowTypes, ChildTypes, RunsAssumption
<1>3. PlaceTypes'
  BY <1>1, <1>2 DEF PlaceTypes
<1>4. CASE told = <<>> /\ polling' = FALSE /\ UNCHANGED <<process, told, buttons, shown>>
  <2>1. ChildTypes' /\ WindowTypes'
    BY <1>1, <1>2, <1>4 DEF ChildTypes, WindowTypes
  <2>2. OneEnd /\ NothingToAdd => OneEnd' /\ NothingToAdd'
    BY <1>1, <1>4 DEF OneEnd, NothingToAdd, Unfinished
  <2> QED
    BY <1>1, <1>3, <1>4, <2>1, <2>2 DEF RunInv
<1>5. CASE /\ told # <<>> /\ polling' = TRUE /\ told' = Tail(told)
           /\ IF Head(told) \in Train!Finishing
              THEN process' = 0 /\ shown' = Head(told) /\ buttons' = "start"
              ELSE UNCHANGED <<process, buttons, shown>>
  <2>1. /\ Head(told) \in Outcomes /\ Tail(told) \in Seq(Outcomes) /\ Head(told) = told[1]
        /\ Len(Tail(told)) = Len(told) - 1 /\ Len(told) \in Nat \ {0}
        /\ \A i \in 1..Len(Tail(told)) : Tail(told)[i] = told[i + 1]
    BY <1>2, <1>5, HeadTailProperties, EmptySeq
  <2>2. PICK n \in Nat : Len(told') = n /\ Len(told) = n + 1
    <3>1. PICK m \in Nat \ {0} : m = Len(told)
      BY <2>1
    <3>2. Len(told') = m - 1
      BY <1>5, <2>1, <3>1
    <3>3. m - 1 \in Nat /\ (m - 1) + 1 = m
      BY <3>1
    <3> QED
      BY <3>1, <3>2, <3>3
  <2>3. \A i \in 1..n : told'[i] = told[i + 1] /\ i + 1 \in 1..n + 1 /\ i + 1 # 1
    BY <1>5, <2>1, <2>2
  <2>4. 1 \in 1..n + 1
    OBVIOUS
  <2>5. CASE Head(told) \in Train!Finishing
    <3>1. process' = 0 /\ shown' = told[1] /\ buttons' = "start" /\ told[1] \in Train!Finishing
      BY <1>5, <2>1, <2>5
    <3>2. ChildTypes'
      BY <1>1, <1>2, <3>1 DEF ChildTypes
    <3>3. WindowTypes'
      <4>1. shown' \in {"nothing", "complete", "cancelled", "error"}
        BY <3>1 DEF Train!Finishing
      <4>2. told' \in Seq(Outcomes)
        BY <1>5, <2>1
      <4> QED
        BY <1>1, <1>2, <1>5, <3>1, <4>1, <4>2, Zenon DEF WindowTypes
    <3>4. ASSUME late = {} PROVE OneEnd' /\ NothingToAdd' /\ shown # "complete"
      <4>1. OneEnd /\ NothingToAdd
        BY <3>4 DEF RunInv
      <4>2. buttons = "cancel" /\ \A j \in 1..n + 1 : told[j] \in Train!Finishing => j = 1
        BY <2>2, <2>4, <3>1, <4>1 DEF OneEnd
      <4>3. \A r \in Runs : ~Unfinished(r)
        BY <2>2, <2>4, <3>1, <4>1 DEF OneEnd
      <4>4. \A r \in Runs : ~Unfinished(r)'
        BY <1>1, <4>3 DEF Unfinished
      <4>5. \A i \in 1..n : told'[i] \notin Train!Finishing
        BY <2>3, <4>2
      <4>6. OneEnd'
        BY <2>2, <3>1, <4>4, <4>5 DEF OneEnd
      <4>7. NothingToAdd'
        BY <1>1, <4>1 DEF NothingToAdd
      <4>8. shown # "complete"
        BY <4>1, <4>2 DEF OneEnd
      <4> QED
        BY <4>6, <4>7, <4>8
    <3> QED
      BY <1>1, <1>3, <3>2, <3>3, <3>4 DEF RunInv
  <2>6. CASE Head(told) \notin Train!Finishing
    <3>1. UNCHANGED <<process, buttons, shown>>
      BY <1>5, <2>6
    <3>2. ChildTypes'
      BY <1>1, <1>2, <3>1 DEF ChildTypes
    <3>3. WindowTypes'
      <4>1. told' \in Seq(Outcomes)
        BY <1>5, <2>1
      <4> QED
        BY <1>1, <1>2, <1>5, <3>1, <4>1, Zenon DEF WindowTypes
    <3>4. ASSUME late = {} PROVE OneEnd' /\ NothingToAdd'
      <4>1. OneEnd /\ NothingToAdd
        BY <3>4 DEF RunInv
      <4>2. \A r \in Runs : Unfinished(r)' <=> Unfinished(r)
        BY <1>1 DEF Unfinished
      <4>3. ASSUME NEW r \in Runs, Unfinished(r)
            PROVE  buttons' = "cancel" /\ \A i \in 1..Len(told') : told'[i] \notin Train!Finishing
        BY <2>2, <2>3, <3>1, <4>1, <4>3 DEF OneEnd
      <4>4. ASSUME NEW i \in 1..n, told'[i] \in Train!Finishing
            PROVE  buttons' = "cancel" /\ \A j \in 1..n : told'[j] \in Train!Finishing => j = i
        <5>1. i + 1 \in 1..n + 1 /\ told[i + 1] \in Train!Finishing
          BY <2>3, <4>4
        <5>2. buttons = "cancel" /\ \A j \in 1..n + 1 : told[j] \in Train!Finishing => j = i + 1
          BY <2>2, <4>1, <5>1 DEF OneEnd
        <5>3. ASSUME NEW j \in 1..n, told'[j] \in Train!Finishing PROVE j = i
          <6>1. j + 1 = i + 1
            BY <2>3, <5>2, <5>3
          <6> QED
            BY <6>1
        <5> QED
          BY <3>1, <5>2, <5>3
      <4>5. OneEnd'
        BY <2>2, <3>1, <4>1, <4>2, <4>3, <4>4 DEF OneEnd
      <4>6. NothingToAdd'
        BY <1>1, <4>1 DEF NothingToAdd
      <4> QED
        BY <4>5, <4>6
    <3> QED
      BY <1>1, <1>3, <3>1, <3>2, <3>3, <3>4 DEF RunInv
  <2> QED
    BY <2>5, <2>6
<1> QED
  BY <1>4, <1>5, Zenon DEF Train!Poll, Train!FinishControls

\* A run that looks after its environment, its processes or their end: nothing
\* else is read of it than where it is.
LEMMA EnvironmentKeeps ==
  ASSUME RunsAssumption, RunInv, NEW r \in Runs, Train!EnsureEnvironment(r)
  PROVE  RunInv'
<1>1. /\ pc[r] = <<"env", "none">>
      /\ UNCHANGED <<child, exits, process, cancelRequested, buttons, shown, polling, failure,
                     completed, late>>
  BY Zenon DEF Train!EnsureEnvironment, Train!gui
<1>2. PICK q \in RunPlaces :
        /\ Train!Goto(r, q)
        /\ pips' = pips \/ (pips[r] > 0 /\ pips' = [pips EXCEPT ![r] = @ - 1])
        /\ \/ told' = told /\ q # Train!Done
           \/ q = Train!Done /\ \E e \in {"error", "cancelled"} : told' = Append(told, e)
  <2>1. /\ <<"pip", "spawn">> \in RunPlaces /\ <<"probe", "spawn">> \in RunPlaces
        /\ Train!Done \in RunPlaces
        /\ <<"pip", "spawn">> # Train!Done /\ <<"probe", "spawn">> # Train!Done
    BY DEF RunPlaces, Steps, Train!Done
  <2>2. \/ /\ pips[r] > 0 /\ pips' = [pips EXCEPT ![r] = @ - 1]
           /\ Train!Goto(r, <<"pip", "spawn">>) /\ told' = told
        \/ Train!Goto(r, Train!Done) /\ told' = Append(told, "error") /\ pips' = pips
        \/ Train!Goto(r, Train!Done) /\ told' = Append(told, "cancelled") /\ pips' = pips
        \/ Train!Goto(r, <<"probe", "spawn">>) /\ told' = told /\ pips' = pips
    BY Zenon DEF Train!EnsureEnvironment, Train!End, Train!PipNeeded
  <2> QED
    BY <2>1, <2>2
<1>3. pc' \in [Runs -> RunPlaces] /\ pc'[r] = q /\ \A s \in Runs : s # r => pc'[s] = pc[s]
  BY <1>2, RunMoves DEF RunInv
<1>4. PlaceTypes'
  <2>1. pips' \in [Runs -> 0..MaxInstalls]
    BY <1>2 DEF RunInv, PlaceTypes, RunsAssumption
  <2> QED
    BY <1>3, <2>1 DEF PlaceTypes
<1>5. ChildTypes'
  <2>1. child[r] = "none"
    BY <1>1 DEF RunInv, ChildTypes
  <2> QED
    BY <1>1, <1>3, <2>1 DEF RunInv, ChildTypes
<1>6. told \in Seq(Outcomes) /\ "error" \in Outcomes /\ "cancelled" \in Outcomes
  BY DEF RunInv, WindowTypes, Outcomes
<1>7. WindowTypes'
  <2>1. told' \in Seq(Outcomes)
    BY <1>2, <1>6, AppendProperties
  <2> QED
    BY <1>1, <2>1 DEF RunInv, WindowTypes
<1>8. ASSUME late = {} PROVE OneEnd' /\ NothingToAdd'
  <2>1. OneEnd /\ NothingToAdd
    BY <1>8 DEF RunInv
  <2>2. r \notin completed
    BY <1>1, <2>1 DEF NothingToAdd, Train!Done, Train!Training
  <2>3. Unfinished(r)
    BY <1>1, <2>2 DEF Unfinished, Train!Idle, Train!Done
  <2>4. \A s \in Runs : Unfinished(s)' => Unfinished(s)
    BY <1>1, <1>3, <2>3 DEF Unfinished
  <2>5. NothingToAdd'
    BY <1>1, <1>3, <2>1, <2>2 DEF NothingToAdd, RunInv, WindowTypes
  <2>6. CASE told' = told
    BY <1>1, <2>1, <2>4, <2>5, <2>6, EndsKeep
  <2>7. CASE q = Train!Done /\ \E e \in {"error", "cancelled"} : told' = Append(told, e)
    <3>1. PICK e \in Outcomes : told' = Append(told, e)
      BY <1>6, <2>7
    <3>2. \A s \in Runs : ~Unfinished(s)'
      BY <1>3, <2>1, <2>3, <2>4, <2>7 DEF OneEnd, Unfinished
    <3> QED
      BY <1>1, <1>6, <2>1, <2>3, <2>4, <2>5, <3>1, <3>2, EndsSaid
  <2> QED
    BY <1>2, <2>6, <2>7
<1> QED
  BY <1>1, <1>4, <1>5, <1>7, <1>8 DEF RunInv

\* A process is spawned, registered, ends or is read to its end.
LEMMA ProcessKeeps ==
  ASSUME RunsAssumption, RunInv, NEW r \in Runs,
         Train!Spawn(r) \/ Train!Register(r) \/ Train!Exit(r) \/ Train!Read(r)
  PROVE  RunInv'
<1>1. UNCHANGED <<pips, cancelRequested, buttons, shown, polling, told, completed, late>>
  BY Zenon DEF Train!Spawn, Train!Register, Train!Exit, Train!Read, Train!gui
<1>2. pc[r] \in RunPlaces /\ pc \in [Runs -> RunPlaces]
  BY DEF RunInv, PlaceTypes
<1>3. pc[r][2] \in Steps
  BY DEF Train!Spawn, Train!Register, Train!Exit, Train!Read, Steps
<1>4. PICK step \in Steps :
        \/ pc' = pc /\ step = pc[r][2]
        \/ Train!Goto(r, <<pc[r][1], step>>)
  BY <1>3, Zenon DEF Train!Spawn, Train!Register, Train!Exit, Train!Read, Train!Stage, Steps
<1>5. /\ pc[r] = <<pc[r][1], pc[r][2]>> /\ <<pc[r][1], step>> \in RunPlaces
      /\ pc[r] \notin {Train!Idle, Train!Done}
      /\ <<pc[r][1], step>> \notin {Train!Idle, Train!Done}
  <2>1. pc[r] = <<pc[r][1], pc[r][2]>> /\ pc[r][1] \in {"pip", "probe", "train", "retry"}
        /\ pc[r] \notin {Train!Idle, Train!Done}
    BY <1>2, <1>3, PlaceIs
  <2>2. <<pc[r][1], step>> \in RunPlaces
    BY <2>1 DEF RunPlaces
  <2>3. <<pc[r][1], step>> \notin {Train!Idle, Train!Done}
    BY <2>1 DEF Train!Idle, Train!Done, Steps
  <2> QED
    BY <2>1, <2>2, <2>3
<1>6. /\ pc' \in [Runs -> RunPlaces] /\ pc'[r] = <<pc[r][1], step>>
      /\ \A s \in Runs : s # r => pc'[s] = pc[s]
  <2>1. CASE pc' = pc /\ step = pc[r][2]
    BY <1>2, <1>5, <2>1
  <2>2. CASE Train!Goto(r, <<pc[r][1], step>>)
    BY <1>5, <2>2, RunMoves DEF RunInv
  <2> QED
    BY <1>4, <2>1, <2>2
<1>7. PlaceTypes'
  BY <1>1, <1>6 DEF RunInv, PlaceTypes
<1>8. /\ failure' \in {"none", "plain", "retryable"} /\ process' \in 0..MaxRuns
      /\ exits' \in [Runs -> BOOLEAN] /\ child' \in [Runs -> {"none", "working", "reported", "dead"}]
      /\ \A s \in Runs : s # r => child'[s] = child[s] /\ exits'[s] = exits[s]
      /\ child'[r] # "none" => pc'[r][2] \in {"register", "read", "unregister"}
  <2>1. /\ failure \in {"none", "plain", "retryable"} /\ process \in 0..MaxRuns
        /\ exits \in [Runs -> BOOLEAN] /\ child \in [Runs -> {"none", "working", "reported", "dead"}]
        /\ MaxRuns \in Nat /\ r \in 0..MaxRuns
    BY DEF RunInv, WindowTypes, ChildTypes, RunsAssumption, Runs
  <2>2. CASE Train!Spawn(r)
    <3>1. /\ failure' \in {"none", failure} /\ child' = [child EXCEPT ![r] = "working"]
          /\ Train!Goto(r, <<pc[r][1], "register">>) /\ UNCHANGED <<exits, process>>
      BY <2>2, Zenon DEF Train!Spawn, Train!gui, Train!Stage
    <3>2. pc'[r] = <<pc[r][1], "register">>
      BY <1>2, <3>1 DEF Train!Goto
    <3> QED
      BY <2>1, <3>1, <3>2
  <2>3. CASE Train!Register(r)
    <3>1. /\ process' = r /\ Train!Goto(r, <<pc[r][1], "read">>) /\ UNCHANGED <<child, exits, failure>>
      BY <2>3, Zenon DEF Train!Register, Train!Stage
    <3>2. pc'[r] = <<pc[r][1], "read">>
      BY <1>2, <3>1 DEF Train!Goto
    <3> QED
      BY <2>1, <3>1, <3>2
  <2>4. CASE Train!Exit(r)
    <3>1. /\ child' = [child EXCEPT ![r] = "dead"] /\ UNCHANGED <<pc, process, failure>>
          /\ exits' = exits \/ \E ok \in BOOLEAN : exits' = [exits EXCEPT ![r] = ok]
          /\ pc[r][2] = "read"
      BY <2>4, Zenon DEF Train!Exit, Train!gui
    <3> QED
      BY <2>1, <3>1
  <2>5. CASE Train!Read(r)
    <3>1. Train!Goto(r, <<pc[r][1], "unregister">>) /\ UNCHANGED <<child, exits, process, failure>>
      BY <2>5, Zenon DEF Train!Read, Train!Stage, Train!gui
    <3>2. pc'[r] = <<pc[r][1], "unregister">>
      BY <1>2, <3>1 DEF Train!Goto
    <3> QED
      BY <2>1, <3>1, <3>2
  <2> QED
    BY <2>2, <2>3, <2>4, <2>5
<1>9. ChildTypes'
  BY <1>6, <1>8 DEF RunInv, ChildTypes
<1>10. WindowTypes'
  BY <1>1, <1>8 DEF RunInv, WindowTypes
<1>11. ASSUME late = {} PROVE OneEnd' /\ NothingToAdd'
  <2>1. OneEnd /\ NothingToAdd
    BY <1>11 DEF RunInv
  <2>2. \A s \in Runs : Unfinished(s)' => Unfinished(s)
    BY <1>1, <1>5, <1>6 DEF Unfinished
  <2>3. OneEnd'
    BY <1>1, <2>1, <2>2, EndsKeep
  <2>4. ASSUME r \in completed
        PROVE  /\ pc'[r] \in Train!Training \X {"read", "unregister"}
               /\ child'[r] \in {"reported", "dead"} /\ exits'[r] /\ ~cancelRequested
    <3>1. /\ pc[r] \in Train!Training \X {"read", "unregister"} /\ child[r] \in {"reported", "dead"}
          /\ exits[r] /\ ~cancelRequested
      BY <1>5, <2>1, <2>4 DEF NothingToAdd
    <3>2. CASE Train!Spawn(r) \/ Train!Register(r)
      <4>1. pc[r][2] \in {"spawn", "register"}
        BY <3>2, Zenon DEF Train!Spawn, Train!Register
      <4> QED
        BY <3>1, <4>1
    <3>3. CASE Train!Exit(r)
      <4>1. /\ child' = [child EXCEPT ![r] = "dead"] /\ pc' = pc
            /\ (child[r] = "reported" /\ exits' = exits) \/ child[r] = "working"
        BY <3>3, Zenon DEF Train!Exit, Train!gui
      <4>2. child'[r] = "dead"
        BY <4>1 DEF RunInv, ChildTypes
      <4> QED
        BY <3>1, <4>1, <4>2
    <3>4. CASE Train!Read(r)
      <4>1. Train!Goto(r, <<pc[r][1], "unregister">>) /\ UNCHANGED <<child, exits>>
        BY <3>4, Zenon DEF Train!Read, Train!Stage, Train!gui
      <4>2. pc'[r] = <<pc[r][1], "unregister">>
        BY <1>2, <4>1 DEF Train!Goto
      <4> QED
        BY <3>1, <4>1, <4>2
    <3> QED
      BY <3>2, <3>3, <3>4
  <2>5. NothingToAdd'
    BY <1>1, <1>6, <1>8, <2>1, <2>4 DEF NothingToAdd, RunInv, WindowTypes
  <2> QED
    BY <2>3, <2>5
<1> QED
  BY <1>1, <1>7, <1>9, <1>10, <1>11 DEF RunInv

LEMMA ReportKeeps ==
  ASSUME RunsAssumption, RunInv, NEW r \in Runs, Train!Report(r)
  PROVE  RunInv'
<1>1. /\ pc[r][2] = "read" /\ pc[r][1] \in Train!Training /\ child[r] = "working"
      /\ child' = [child EXCEPT ![r] = "reported"]
      /\ UNCHANGED <<pc, pips, process, cancelRequested, buttons, shown, polling>>
  BY Zenon DEF Train!Report, Train!Stage, Train!gui
<1>2. PICK outcome \in {"complete", "plain", "retryable"} :
        /\ failure' = IF outcome = "complete" THEN failure ELSE outcome
        /\ told' = Append(told, IF outcome = "complete" THEN outcome ELSE "failure")
        /\ completed' = IF outcome = "complete" THEN completed \cup {r} ELSE completed
        /\ late' = IF outcome = "complete" /\ cancelRequested THEN late \cup {r} ELSE late
        /\ exits' = [exits EXCEPT ![r] = (outcome = "complete")]
  BY Zenon DEF Train!Report
<1>3. PlaceTypes'
  BY <1>1 DEF RunInv, PlaceTypes
<1>4. /\ child' \in [Runs -> {"none", "working", "reported", "dead"}]
      /\ child'[r] = "reported" /\ \A s \in Runs : s # r => child'[s] = child[s]
  BY <1>1 DEF RunInv, ChildTypes
<1>5. exits \in [Runs -> BOOLEAN]
  BY DEF RunInv, ChildTypes
<1>6. /\ exits' \in [Runs -> BOOLEAN] /\ \A s \in Runs : s # r => exits'[s] = exits[s]
      /\ outcome = "complete" => exits'[r]
  <2>1. CASE outcome = "complete"
    <3>1. exits' = [exits EXCEPT ![r] = TRUE]
      BY <1>2, <2>1
    <3> QED
      BY <1>5, <3>1
  <2>2. CASE outcome # "complete"
    <3>1. exits' = [exits EXCEPT ![r] = FALSE]
      BY <1>2, <2>2
    <3> QED
      BY <1>5, <2>2, <3>1
  <2> QED
    BY <2>1, <2>2
<1>7. ChildTypes'
  BY <1>1, <1>4, <1>6 DEF RunInv, ChildTypes
<1>8. PICK e \in Outcomes : /\ told' = Append(told, e)
                            /\ e = IF outcome = "complete" THEN "complete" ELSE "failure"
  BY <1>2 DEF Outcomes
<1>9. told \in Seq(Outcomes)
  BY DEF RunInv, WindowTypes
<1>10. WindowTypes'
  <2>1. told' \in Seq(Outcomes)
    BY <1>8, <1>9, AppendProperties
  <2>2. failure' \in {"none", "plain", "retryable"} /\ completed' \subseteq Runs /\ late' \subseteq Runs
    BY <1>2 DEF RunInv, WindowTypes
  <2> QED
    BY <1>1, <2>1, <2>2 DEF RunInv, WindowTypes
<1>11. ASSUME late' = {} PROVE OneEnd' /\ NothingToAdd'
  <2>1. late = {} /\ (outcome = "complete" => ~cancelRequested)
    BY <1>2, <1>11
  <2>2. OneEnd /\ NothingToAdd
    BY <2>1 DEF RunInv
  <2>3. pc[r] \in RunPlaces /\ pc[r] \notin {Train!Idle, Train!Done}
        /\ pc[r] = <<pc[r][1], pc[r][2]>>
    <3>1. pc[r] \in RunPlaces /\ pc[r][2] \in Steps
      BY <1>1 DEF RunInv, PlaceTypes, Steps
    <3> QED
      BY <3>1, PlaceIs
  <2>4. r \notin completed
    BY <1>1, <2>2, <2>3 DEF NothingToAdd
  <2>5. Unfinished(r)
    BY <2>3, <2>4 DEF Unfinished
  <2>6. \A s \in Runs : Unfinished(s)' => Unfinished(s)
    BY <1>1, <1>2 DEF Unfinished
  <2>7. e \in Train!Finishing => outcome = "complete" /\ \A s \in Runs : ~Unfinished(s)'
    <3>1. ASSUME e \in Train!Finishing PROVE outcome = "complete"
      BY <1>8, <3>1 DEF Train!Finishing
    <3>2. ASSUME outcome = "complete" PROVE \A s \in Runs : ~Unfinished(s)'
      <4>1. completed' = completed \cup {r} /\ pc' = pc
        BY <1>1, <1>2, <3>2
      <4> QED
        BY <2>2, <2>5, <4>1 DEF OneEnd, Unfinished
    <3> QED
      BY <3>1, <3>2
  <2>8. OneEnd'
    BY <1>1, <1>8, <1>9, <2>2, <2>5, <2>6, <2>7, EndsSaid
  <2>9. NothingToAdd'
    <3>1. \A s \in completed : s \in Runs /\ s # r
      BY <2>4 DEF RunInv, WindowTypes
    <3>2. ASSUME NEW s \in completed
          PROVE  \/ pc'[s] = Train!Done
                 \/ /\ pc'[s] \in Train!Training \X {"read", "unregister"}
                    /\ child'[s] \in {"reported", "dead"} /\ exits'[s] /\ ~cancelRequested'
      BY <1>1, <1>4, <1>6, <2>2, <3>1 DEF NothingToAdd
    <3>3. CASE outcome = "complete"
      <4>1. /\ pc'[r] \in Train!Training \X {"read", "unregister"} /\ child'[r] = "reported"
            /\ exits'[r] /\ ~cancelRequested' /\ completed' = completed \cup {r}
        BY <1>1, <1>2, <1>4, <1>6, <2>1, <2>3, <3>3
      <4> QED
        BY <3>2, <4>1 DEF NothingToAdd
    <3>4. CASE outcome # "complete"
      <4>1. completed' = completed
        BY <1>2, <3>4
      <4> QED
        BY <3>2, <4>1 DEF NothingToAdd
    <3> QED
      BY <3>3, <3>4
  <2> QED
    BY <2>8, <2>9
<1> QED
  BY <1>3, <1>7, <1>10, <1>11 DEF RunInv

LEMMA UnregisterKeeps ==
  ASSUME RunsAssumption, RunInv, NEW r \in Runs, Train!Unregister(r)
  PROVE  RunInv'
<1>1. /\ pc[r][2] = "unregister" /\ process' = 0 /\ child' = [child EXCEPT ![r] = "none"]
      /\ UNCHANGED <<pips, exits, cancelRequested, buttons, shown, polling, failure, completed, late>>
  BY Zenon DEF Train!Unregister
<1>2. \/ pc[r][1] = "pip" /\ Train!AfterPip(r)
      \/ pc[r][1] = "probe" /\ Train!AfterProbe(r)
      \/ pc[r][1] # "pip" /\ pc[r][1] # "probe" /\ Train!AfterTraining(r)
  BY DEF Train!Unregister, Train!Stage
<1>3. /\ pc[r] = <<pc[r][1], "unregister">> /\ pc[r][1] \in {"pip", "probe", "train", "retry"}
      /\ pc[r] \notin {Train!Idle, Train!Done}
  <2>1. pc[r] \in RunPlaces /\ pc[r][2] \in Steps
    BY <1>1 DEF RunInv, PlaceTypes, Steps
  <2> QED
    BY <1>1, <2>1, PlaceIs
\* It goes on with another process, ends without a word or says how it ended;
\* one that has reported its training complete ends without a word, unless
\* cancel was pressed.
<1>4. PICK q \in RunPlaces :
        /\ Train!Goto(r, q)
        /\ \/ told' = told /\ q # Train!Done
           \/ told' = told /\ q = Train!Done
           \/ q = Train!Done /\ \E e \in {"error", "cancelled"} : told' = Append(told, e)
        /\ pc[r][1] \in Train!Training /\ exits[r] /\ ~cancelRequested => told' = told /\ q = Train!Done
  <2>1. /\ <<"env", "none">> \in RunPlaces /\ <<"train", "spawn">> \in RunPlaces
        /\ <<"retry", "spawn">> \in RunPlaces /\ Train!Done \in RunPlaces
        /\ <<"env", "none">> # Train!Done /\ <<"train", "spawn">> # Train!Done
        /\ <<"retry", "spawn">> # Train!Done
    BY DEF RunPlaces, Steps, Train!Done
  <2>2. CASE pc[r][1] = "pip" /\ Train!AfterPip(r)
    <3>1. \/ Train!Goto(r, <<"env", "none">>) /\ told' = told
          \/ Train!Goto(r, Train!Done) /\ told' = Append(told, "error")
      BY <2>2, Zenon DEF Train!AfterPip, Train!End
    <3>2. pc[r][1] \notin Train!Training
      BY <2>2 DEF Train!Training
    <3> QED
      BY <2>1, <3>1, <3>2
  <2>3. CASE pc[r][1] = "probe" /\ Train!AfterProbe(r)
    <3>1. \/ Train!Goto(r, <<"train", "spawn">>) /\ told' = told
          \/ Train!Goto(r, Train!Done) /\ told' = Append(told, "error")
      BY <2>3, Zenon DEF Train!AfterProbe, Train!End
    <3>2. pc[r][1] \notin Train!Training
      BY <2>3 DEF Train!Training
    <3> QED
      BY <2>1, <3>1, <3>2
  <2>4. CASE Train!AfterTraining(r)
    <3>1. CASE ~exits[r] /\ pc[r][1] = "train" /\ Train!MayRetry
      <4>1. Train!Goto(r, <<"retry", "spawn">>) /\ told' = told
        BY <2>4, <3>1, Zenon DEF Train!AfterTraining, Train!Stage
      <4> QED
        BY <2>1, <3>1, <4>1
    <3>2. CASE ~(~exits[r] /\ pc[r][1] = "train" /\ Train!MayRetry)
      <4>1. /\ Train!Goto(r, Train!Done)
            /\ told' = CASE cancelRequested -> Append(told, "cancelled")
                         [] ~cancelRequested /\ ~exits[r] -> Append(told, "error")
                         [] OTHER -> told
        BY <2>4, <3>2, Zenon DEF Train!AfterTraining, Train!Stage, Train!End
      <4>2. /\ cancelRequested => told' = Append(told, "cancelled")
            /\ ~cancelRequested /\ ~exits[r] => told' = Append(told, "error")
            /\ ~cancelRequested /\ exits[r] => told' = told
        BY <4>1
      <4> QED
        BY <2>1, <4>1, <4>2
    <3> QED
      BY <3>1, <3>2
  <2> QED
    BY <1>2, <2>2, <2>3, <2>4
<1>5. pc' \in [Runs -> RunPlaces] /\ pc'[r] = q /\ \A s \in Runs : s # r => pc'[s] = pc[s]
  BY <1>4, RunMoves DEF RunInv
<1>6. PlaceTypes'
  BY <1>1, <1>5 DEF RunInv, PlaceTypes
<1>7. ChildTypes'
  BY <1>1, <1>5 DEF RunInv, ChildTypes, RunsAssumption
<1>8. told \in Seq(Outcomes) /\ "error" \in Outcomes /\ "cancelled" \in Outcomes
  BY DEF RunInv, WindowTypes, Outcomes
<1>9. WindowTypes'
  <2>1. told' \in Seq(Outcomes)
    BY <1>4, <1>8, AppendProperties
  <2> QED
    BY <1>1, <2>1 DEF RunInv, WindowTypes
<1>10. ASSUME late = {} PROVE OneEnd' /\ NothingToAdd'
  <2>1. OneEnd /\ NothingToAdd
    BY <1>10 DEF RunInv
  <2>2. r \in completed => told' = told /\ q = Train!Done
    <3>1. r \in completed => pc[r][1] \in Train!Training /\ exits[r] /\ ~cancelRequested
      BY <1>3, <2>1 DEF NothingToAdd
    <3> QED
      BY <1>4, <3>1
  <2>3. \A s \in Runs : Unfinished(s)' => Unfinished(s)
    BY <1>1, <1>3, <1>5, <2>2 DEF Unfinished
  <2>4. NothingToAdd'
    <3>1. \A s \in Runs : s # r => child'[s] = child[s]
      BY <1>1 DEF RunInv, ChildTypes
    <3> QED
      BY <1>1, <1>5, <2>1, <2>2, <3>1 DEF NothingToAdd, RunInv, WindowTypes
  <2>5. CASE told' = told
    BY <1>1, <2>1, <2>3, <2>4, <2>5, EndsKeep
  <2>6. CASE r \notin completed /\ q = Train!Done /\ \E e \in {"error", "cancelled"} : told' = Append(told, e)
    <3>1. PICK e \in Outcomes : told' = Append(told, e)
      BY <1>8, <2>6
    <3>2. Unfinished(r) /\ \A s \in Runs : ~Unfinished(s)'
      BY <1>3, <1>5, <2>1, <2>3, <2>6 DEF OneEnd, Unfinished
    <3> QED
      BY <1>1, <1>8, <2>1, <2>3, <2>4, <3>1, <3>2, EndsSaid
  <2> QED
    BY <1>4, <2>2, <2>5, <2>6
<1> QED
  BY <1>1, <1>6, <1>7, <1>9, <1>10 DEF RunInv

LEMMA RunStays ==
  ASSUME RunInv, UNCHANGED Train!vars
  PROVE  RunInv'
<1>1. UNCHANGED <<pc, pips, child, exits, process, cancelRequested, buttons, shown, polling,
                  failure, told, completed, late>>
  BY Zenon DEF Train!vars, Train!gui
<1> QED
  BY <1>1 DEF RunInv, PlaceTypes, ChildTypes, WindowTypes, OneEnd, NothingToAdd, Unfinished

LEMMA RunSteps ==
  ASSUME RunsAssumption, RunInv, [Train!Next]_Train!vars
  PROVE  RunInv'
<1>1. CASE Train!Start \/ Train!Cancel \/ Train!Poll
  BY <1>1, StartKeeps, CancelKeeps, PollKeeps
<1>2. ASSUME NEW r \in Runs, Train!Run(r) \/ Train!Report(r) \/ Train!Exit(r)
      PROVE  RunInv'
  BY <1>2, EnvironmentKeeps, ProcessKeeps, ReportKeeps, UnregisterKeeps, Zenon DEF Train!Run
<1>3. CASE Train!Over \/ UNCHANGED Train!vars
  BY <1>3, RunStays, Zenon DEF Train!Over
<1> QED
  BY <1>1, <1>2, <1>3, Zenon DEF Train!Next, Train!Runs, Runs

\* A training shown as complete stays shown.
LEMMA ShownStays ==
  ASSUME RunsAssumption, RunInv, [Train!Next]_Train!vars, shown = "complete", late = {}
  PROVE  shown' \in {"complete", "nothing"}
<1>1. CASE Train!Start
  BY <1>1, Zenon DEF Train!Start
<1>2. CASE Train!Poll
  BY <1>2, PollKeeps
<1>3. CASE Train!Cancel
  BY <1>3, Zenon DEF Train!Cancel
<1>4. ASSUME NEW r \in Runs, Train!Run(r) \/ Train!Report(r) \/ Train!Exit(r)
      PROVE  shown' = "complete"
  <2>1. CASE Train!EnsureEnvironment(r)
    BY <2>1, Zenon DEF Train!EnsureEnvironment, Train!gui
  <2>2. CASE Train!Spawn(r) \/ Train!Register(r) \/ Train!Read(r) \/ Train!Exit(r)
    BY <2>2, Zenon DEF Train!Spawn, Train!Register, Train!Read, Train!Exit, Train!gui
  <2>3. CASE Train!Report(r) \/ Train!Unregister(r)
    BY <2>3, Zenon DEF Train!Report, Train!Unregister, Train!gui
  <2> QED
    BY <1>4, <2>1, <2>2, <2>3, Zenon DEF Train!Run
<1>5. CASE Train!Over \/ UNCHANGED Train!vars
  BY <1>5, Zenon DEF Train!Over, Train!vars, Train!gui
<1> QED
  BY <1>1, <1>2, <1>3, <1>4, <1>5, Zenon DEF Train!Next, Train!Runs, Runs

\* For any number of runs and of what they install: until a run completes whose
\* thread finds cancel pressed, two training workers never work at once, and a
\* training shown as complete stays shown (TrainerGui of train_model.py).
THEOREM RunsAreKept == ASSUME RunsAssumption PROVE Train!Spec => Train!RunsKept
<1>1. Train!Init => RunInv
  BY RunStarts
<1>2. RunInv /\ [Train!Next]_Train!vars => RunInv'
  BY RunSteps
<1>3. RunInv => Train!TypeOK
  <2>1. RunPlaces = {Train!Idle, Train!Done, <<"env", "none">>} \cup (Train!Stages \X Train!Steps)
    BY DEF RunPlaces, Train!Stages, Train!Steps, Steps
  <2> QED
    BY <2>1 DEF RunInv, PlaceTypes, ChildTypes, WindowTypes, Train!TypeOK, Train!Runs, Runs
<1>4. RunInv => Train!OneWorker
  <2> SUFFICES ASSUME RunInv, late = {}
               PROVE  Train!Cardinality({r \in Runs : pc[r][1] \in Train!Training
                                                     /\ child[r] = "working"}) <= 1
    BY Zenon DEF Train!OneWorker, Train!Stage, Train!Runs, Runs
  <2> DEFINE W == {r \in Runs : pc[r][1] \in Train!Training /\ child[r] = "working"}
  <2>1. ASSUME NEW r \in W PROVE Unfinished(r)
    <3>1. pc[r][1] \in Train!Training /\ child[r] = "working"
      OBVIOUS
    <3>2. pc[r] \notin {Train!Idle, Train!Done}
      BY <3>1 DEF Train!Training, Train!Idle, Train!Done
    <3>3. r \notin completed
      BY <3>1, <3>2 DEF RunInv, NothingToAdd
    <3> QED
      BY <3>2, <3>3 DEF Unfinished
  <2>2. \A r, s \in W : r = s
    BY <2>1 DEF RunInv, OneEnd
  <2> HIDE DEF W
  <2>3. W = {} \/ \E r : W = {r}
    BY <2>2
  <2>4. Cardinality(W) <= 1
    <3>1. Cardinality({}) = 0 /\ \A r : Cardinality({r}) = 1
      BY FS_EmptySet, FS_Singleton
    <3>2. Cardinality(W) = 0 \/ Cardinality(W) = 1
      BY <2>3, <3>1, Zenon
    <3> QED
      BY <3>2
  <2>5. Train!Cardinality(W) = Cardinality(W)
    BY DEF Cardinality, Train!Cardinality
  <2> QED
    BY <2>4, <2>5 DEF W
<1>5. RunInv /\ [Train!Next]_Train!vars =>
        ((shown = "complete" /\ late = {} /\ ~cancelRequested) => shown' \in {"complete", "nothing"})
  BY ShownStays
<1> QED
  BY <1>1, <1>2, <1>3, <1>4, <1>5, PTL DEF Train!Spec, Train!RunsKept, Train!CompleteStays

-----------------------------------------------------------------------------
(* The captures: rows of the table, images in the directory, and the       *)
(* clean-up that works from what it read.                                  *)

CONSTANTS MaxFiles, MaxReviews, MaxNotes, Budget
VARIABLES rows, images, nextId, made, writing, unlinking, prune, reviews, strays

Library == INSTANCE Captures WITH files <- images

LibraryAssumption == {MaxFiles, MaxReviews, Budget} \subseteq Nat /\ MaxNotes \in Nat \ {0}

Ids == DOMAIN rows
Named(n) == n \in Library!Names(Ids)
Known == [id : Nat, name : 1..MaxFiles, status : Library!Statuses, old : BOOLEAN]

RowTypes ==
    /\ nextId \in Nat \ {0} /\ Ids \subseteq 1..nextId - 1 /\ \A i \in Ids : rows[i] \in Library!Row
    /\ made \in 0..MaxFiles /\ reviews \in 0..MaxReviews
    /\ images \cup writing \cup unlinking \cup strays \subseteq 1..made

\* A name is of one row, or of one file that gets its row or goes.
NamesApart ==
    /\ \A i, j \in Ids : rows[i].name = rows[j].name => i = j
    /\ \A i \in Ids : rows[i].name \notin writing /\ rows[i].name \notin unlinking
    /\ writing \subseteq images /\ writing \cap unlinking = {}

Shelves == Library!RowHasFile /\ Library!FilesTracked /\ NamesApart

Shape == [phase : {"idle", "old", "room", "done"}, todo : Seq(Known), kept : Seq(Known),
          total : 0..MaxFiles, busy : SUBSET (1..MaxFiles), read : SUBSET Known]

PruneTypes ==
    /\ prune \in Shape
    /\ prune.busy \subseteq {r.name : r \in prune.read} /\ IsFiniteSet(prune.read)
    /\ Library!ToSet(prune.todo) \cup Library!ToSet(prune.kept) \subseteq prune.read
    /\ \A r, q \in prune.read : r.name = q.name => r = q

\* What the clean-up read of a row is true of the one that has this id now, and
\* a name it read comes back under no other id.
ReadIsOfRow ==
    \A r \in prune.read :
      /\ r.id < nextId /\ r.name <= made /\ r.name \notin writing
      /\ r.id \in Ids => rows[r.id].name = r.name
      /\ Named(r.name) => r.id \in Ids

\* Of what it read, the rows that are still there.
Left == {r \in prune.read : Named(r.name)}

\* Where the clean-up will still look at those, or need not.
Accounted ==
    /\ prune.phase = "old" => Left \subseteq Library!ToSet(prune.todo) \cup Library!ToSet(prune.kept)
    /\ prune.phase = "room" =>
         /\ \A r \in Left : r \in Library!ToSet(prune.todo) \/ r.status = "training"
         /\ Cardinality(Left) <= prune.total

LibraryInv ==
    /\ RowTypes /\ Shelves /\ Library!RejectedIsNegative
    /\ PruneTypes /\ ReadIsOfRow /\ Accounted /\ Library!BudgetMet

LEMMA ListElements ==
  ASSUME NEW S, NEW s \in Seq(S)
  PROVE  /\ Library!ToSet(s) = {s[i] : i \in 1..Len(s)} /\ Library!ToSet(s) \subseteq S
         /\ IsFiniteSet(Library!ToSet(s))
         /\ s # <<>> => /\ Head(s) \in Library!ToSet(s) /\ Tail(s) \in Seq(S)
                        /\ Library!ToSet(s) = {Head(s)} \cup Library!ToSet(Tail(s))
         /\ \A e \in S : /\ Append(s, e) \in Seq(S)
                         /\ Library!ToSet(Append(s, e)) = Library!ToSet(s) \cup {e}
<1>1. DOMAIN s = 1..Len(s) /\ Len(s) \in Nat
  OBVIOUS
<1>2. Library!ToSet(s) = {s[i] : i \in 1..Len(s)} /\ Library!ToSet(s) \subseteq S
  BY <1>1 DEF Library!ToSet
<1>3. IsFiniteSet(Library!ToSet(s))
  <2>1. IsFiniteSet(1..Len(s))
    BY <1>1, FS_Interval
  <2>2. s \in [1..Len(s) -> Library!ToSet(s)] /\ \A e \in Library!ToSet(s) : \E i \in 1..Len(s) : s[i] = e
    BY <1>1, <1>2
  <2>3. s \in Surjection(1..Len(s), Library!ToSet(s))
    BY <2>2 DEF Surjection
  <2> QED
    BY <2>1, <2>3, FS_Surjection
<1>4. ASSUME s # <<>>
      PROVE  /\ Head(s) \in Library!ToSet(s) /\ Tail(s) \in Seq(S)
             /\ Library!ToSet(s) = {Head(s)} \cup Library!ToSet(Tail(s))
  <2>1. /\ Len(s) > 0 /\ Head(s) = s[1] /\ Tail(s) \in Seq(S) /\ Len(Tail(s)) = Len(s) - 1
        /\ \A i \in 1..Len(s) - 1 : Tail(s)[i] = s[i + 1]
    BY <1>4
  <2>2. Library!ToSet(Tail(s)) = {Tail(s)[i] : i \in 1..Len(s) - 1}
    <3>1. DOMAIN Tail(s) = 1..Len(s) - 1
      BY <2>1
    <3> QED
      BY <3>1 DEF Library!ToSet
  <2>3. \A i \in 1..Len(s) : i = 1 \/ (i - 1 \in 1..Len(s) - 1 /\ Tail(s)[i - 1] = s[i])
    BY <1>1, <2>1
  <2>4. \A i \in 1..Len(s) - 1 : i + 1 \in 1..Len(s) /\ Tail(s)[i] = s[i + 1]
    BY <1>1, <2>1
  <2>5. 1 \in 1..Len(s)
    BY <1>1, <2>1
  <2>6. Head(s) \in Library!ToSet(s)
    BY <1>2, <2>1, <2>5
  <2>7. ASSUME NEW e \in Library!ToSet(s) PROVE e = Head(s) \/ e \in Library!ToSet(Tail(s))
    BY <1>2, <2>1, <2>2, <2>3
  <2>8. ASSUME NEW e \in Library!ToSet(Tail(s)) PROVE e \in Library!ToSet(s)
    BY <1>2, <2>2, <2>4
  <2> QED
    BY <2>1, <2>6, <2>7, <2>8
<1>5. ASSUME NEW e \in S
      PROVE  Append(s, e) \in Seq(S) /\ Library!ToSet(Append(s, e)) = Library!ToSet(s) \cup {e}
  <2>1. /\ Append(s, e) \in Seq(S) /\ DOMAIN Append(s, e) = 1..Len(s) + 1
        /\ \A i \in 1..Len(s) : Append(s, e)[i] = s[i]
        /\ Append(s, e)[Len(s) + 1] = e
    OBVIOUS
  <2>2. \A i \in 1..Len(s) + 1 : i \in 1..Len(s) \/ i = Len(s) + 1
    BY <1>1
  <2>3. \A i \in 1..Len(s) : i \in 1..Len(s) + 1
    BY <1>1
  <2>4. Len(s) + 1 \in 1..Len(s) + 1
    BY <1>1
  <2>5. Library!ToSet(Append(s, e)) = {Append(s, e)[i] : i \in 1..Len(s) + 1}
    BY <2>1 DEF Library!ToSet
  <2> QED
    BY <1>2, <2>1, <2>2, <2>3, <2>4, <2>5
<1> QED
  BY <1>2, <1>3, <1>4, <1>5

\* The notes of a row.
LEMMA NotesAre ==
  LibraryAssumption =>
    Library!BoundedSeq(Library!Note, MaxNotes) = {s \in Seq(Library!Note) : Len(s) <= MaxNotes}
<1> SUFFICES ASSUME LibraryAssumption
             PROVE  Library!BoundedSeq(Library!Note, MaxNotes)
                      = {s \in Seq(Library!Note) : Len(s) <= MaxNotes}
  OBVIOUS
<1>1. MaxNotes \in Nat
  BY DEF LibraryAssumption
<1>2. Library!BoundedSeq(Library!Note, MaxNotes) = UNION {[1..m -> Library!Note] : m \in 0..MaxNotes}
  BY DEF Library!BoundedSeq, Library!SeqOf
<1>3. ASSUME NEW s \in Seq(Library!Note), Len(s) <= MaxNotes
      PROVE  s \in UNION {[1..m -> Library!Note] : m \in 0..MaxNotes}
  <2>1. Len(s) \in 0..MaxNotes /\ s \in [1..Len(s) -> Library!Note]
    BY <1>1, <1>3
  <2> QED
    BY <2>1
<1>4. ASSUME NEW m \in 0..MaxNotes, NEW s \in [1..m -> Library!Note]
      PROVE  s \in Seq(Library!Note) /\ Len(s) <= MaxNotes
  <2>1. m \in Nat
    BY <1>1
  <2>2. s \in Seq(Library!Note) /\ Len(s) = m
    BY <2>1
  <2> QED
    BY <1>1, <2>2
<1> QED
  BY <1>2, <1>3, <1>4

\* What a review may do to a row.
Sound(row, of) ==
    /\ row \in Library!Row /\ row.name = of.name
    /\ row.status = "rejected" => \A k \in DOMAIN row.notes : row.notes[k].status = "rejected"

LEMMA SyncedIsSound ==
  ASSUME LibraryAssumption, NEW row \in Library!Row PROVE Sound(Library!Synced(row), row)
<1> DEFINE seen == {row.notes[k].status : k \in DOMAIN row.notes}
           s == CASE seen = {} \/ "unreviewed" \in seen -> "unreviewed"
                  [] "unreviewed" \notin seen /\ "accepted" \in seen -> "training"
                  [] OTHER -> "rejected"
<1>1. Library!Synced(row) = [row EXCEPT !.status = s]
  BY DEF Library!Synced
<1>2. row.notes \in Seq(Library!Note)
  <2>1. Library!BoundedSeq(Library!Note, MaxNotes) = {z \in Seq(Library!Note) : Len(z) <= MaxNotes}
    BY NotesAre
  <2> QED
    BY <2>1 DEF Library!Row
<1>3. seen \subseteq {"unreviewed", "accepted", "rejected"}
  <2>1. ASSUME NEW k \in DOMAIN row.notes PROVE row.notes[k] \in Library!Note
    BY <1>2
  <2> QED
    BY <2>1 DEF Library!Note, Library!NoteStatuses
<1>4. s \in {"unreviewed", "training", "rejected"} /\ (s = "rejected" => seen \subseteq {"rejected"})
  BY <1>3
<1> HIDE DEF s
<1>5. [row EXCEPT !.status = s] \in Library!Row
  BY <1>4 DEF Library!Row, Library!Statuses
<1>6. /\ [row EXCEPT !.status = s].name = row.name /\ [row EXCEPT !.status = s].status = s
      /\ [row EXCEPT !.status = s].notes = row.notes
  BY DEF Library!Row
<1>7. s = "rejected" => \A k \in DOMAIN row.notes : row.notes[k].status = "rejected"
  BY <1>4
<1> QED
  BY <1>1, <1>5, <1>6, <1>7 DEF Sound

\* The budget, now and after a step.
LEMMA BudgetIs ==
  /\ Library!BudgetMet <=>
       (prune.phase = "done" => Cardinality(Left) <= Budget \/ \A r \in Left : r.status = "training")
  /\ Library!BudgetMet' <=>
       (prune'.phase = "done" => Cardinality(Left') <= Budget \/ \A r \in Left' : r.status = "training")
<1>1. \A S : Library!Cardinality(S) = Cardinality(S)
  BY DEF Library!Cardinality, Cardinality
<1>2. {r \in prune.read : r.name \in Library!Names(DOMAIN rows)} = Left
  BY DEF Left, Named, Ids
<1>3. {r \in prune'.read : r.name \in Library!Names(DOMAIN rows)'} = Left'
  BY DEF Left, Named, Ids
<1>4. Library!BudgetMet <=>
        (prune.phase = "done" => Cardinality(Left) <= Budget \/ \A r \in Left : r.status = "training")
  BY <1>1, <1>2, Zenon DEF Library!BudgetMet
<1>5. Library!BudgetMet' <=>
        (prune'.phase = "done" => Cardinality(Left') <= Budget \/ \A r \in Left' : r.status = "training")
  BY <1>1, <1>3, Zenon DEF Library!BudgetMet
<1> QED
  BY <1>4, <1>5

\* What the clean-up read stays true of rows that only go or keep their names.
LEMMA ReadStays ==
  ASSUME LibraryInv, prune'.read = prune.read, nextId' \in Nat, nextId <= nextId', made' \in Nat, made <= made',
         \A r \in prune.read : r.name \notin writing',
         \A i \in Ids' : i \in Ids /\ rows'[i].name = rows[i].name
  PROVE  /\ ReadIsOfRow' /\ Left' \subseteq Left /\ IsFiniteSet(Left)
         /\ Cardinality(Left') \in Nat /\ Cardinality(Left) \in Nat /\ Cardinality(Left') <= Cardinality(Left)
<1>1. ASSUME NEW n, Named(n)' PROVE \E i \in Ids' : rows'[i].name = n
  BY <1>1 DEF Named, Library!Names, Ids
<1>2. ASSUME NEW n, NEW i \in Ids, rows[i].name = n PROVE Named(n)
  BY <1>2 DEF Named, Library!Names, Ids
<1>3. ASSUME NEW r \in prune.read, Named(r.name)' PROVE Named(r.name) /\ r.id \in Ids'
  <2>1. PICK i \in Ids' : rows'[i].name = r.name
    BY <1>1, <1>3
  <2>2. i \in Ids /\ rows[i].name = r.name
    BY <2>1
  <2>3. Named(r.name)
    BY <1>2, <2>2
  <2>4. r.id \in Ids /\ rows[r.id].name = r.name
    BY <2>3 DEF LibraryInv, ReadIsOfRow
  <2>5. i = r.id
    BY <2>2, <2>4 DEF LibraryInv, Shelves, NamesApart
  <2> QED
    BY <2>1, <2>3, <2>5
<1>4. ASSUME NEW r \in prune.read
      PROVE  /\ r.id < nextId' /\ r.name <= made' /\ r.name \notin writing'
             /\ r.id \in Ids' => rows'[r.id].name = r.name
  <2>1. r.id \in Nat /\ r.name \in Nat /\ nextId \in Nat /\ made \in Nat
    BY DEF LibraryInv, PruneTypes, Shape, Known, RowTypes
  <2>2. r.id < nextId /\ r.name <= made /\ (r.id \in Ids => rows[r.id].name = r.name)
    BY DEF LibraryInv, ReadIsOfRow
  <2> QED
    BY <2>1, <2>2
<1>5. ReadIsOfRow'
  BY <1>3, <1>4 DEF ReadIsOfRow
<1>6. Left' \subseteq Left /\ Left \subseteq prune.read
  BY <1>3 DEF Left
<1>7. IsFiniteSet(prune.read)
  BY DEF LibraryInv, PruneTypes, Shape
<1>8. IsFiniteSet(Left)
  BY <1>6, <1>7, FS_Subset
<1>9. Cardinality(Left') <= Cardinality(Left) /\ IsFiniteSet(Left')
  BY <1>6, <1>8, FS_Subset
<1> QED
  BY <1>5, <1>6, <1>8, <1>9, FS_CardinalityType

\* A step that is none of the clean-up's.
LEMMA PruneRests ==
  ASSUME LibraryAssumption, LibraryInv, prune' = prune, ReadIsOfRow',
         Left' \subseteq Left, IsFiniteSet(Left), Cardinality(Left') \in Nat,
         Cardinality(Left) \in Nat, Cardinality(Left') <= Cardinality(Left)
  PROVE  PruneTypes' /\ ReadIsOfRow' /\ Accounted' /\ Library!BudgetMet'
<1>1. PruneTypes'
  BY DEF LibraryInv, PruneTypes, Shape
<1>2. Accounted'
  <2>1. prune.total \in Int
    BY DEF LibraryInv, PruneTypes, Shape, LibraryAssumption
  <2>2. ASSUME prune.phase = "room" PROVE Cardinality(Left') <= prune.total
    <3>1. Cardinality(Left) <= prune.total
      BY <2>2 DEF LibraryInv, Accounted
    <3> QED
      BY <2>1, <3>1
  <2> QED
    BY <2>2 DEF LibraryInv, Accounted
<1>3. Library!BudgetMet'
  <2>1. SUFFICES ASSUME prune.phase = "done"
                 PROVE  Cardinality(Left') <= Budget \/ \A r \in Left' : r.status = "training"
    BY BudgetIs
  <2>2. Cardinality(Left) <= Budget \/ \A r \in Left : r.status = "training"
    BY <2>1, BudgetIs DEF LibraryInv
  <2>3. Budget \in Nat
    BY DEF LibraryAssumption
  <2> QED
    BY <2>2, <2>3
<1> QED
  BY <1>1, <1>2, <1>3

\* Reviews, and the retention time that passes.
LEMMA RowsReviewed ==
  ASSUME LibraryAssumption, LibraryInv, Ids' = Ids, \A i \in Ids : Sound(rows'[i], rows[i]),
         UNCHANGED <<images, nextId, made, writing, unlinking, prune, strays>>, reviews' \in 0..MaxReviews
  PROVE  LibraryInv'
<1> USE DEF LibraryInv
<1>1. RowTypes'
  BY DEF RowTypes, Sound
<1>2. Library!Names(DOMAIN rows)' = Library!Names(DOMAIN rows)
  <2>1. \A i \in Ids : rows'[i].name = rows[i].name
    BY DEF Sound
  <2> QED
    BY <2>1 DEF Library!Names, Ids
<1>3. Shelves'
  <2>1. Library!RowHasFile' /\ Library!FilesTracked'
    BY <1>2 DEF Shelves, Library!RowHasFile, Library!FilesTracked
  <2>2. NamesApart'
    BY DEF Shelves, NamesApart, Sound
  <2> QED
    BY <2>1, <2>2 DEF Shelves
<1>4. Library!RejectedIsNegative'
  BY DEF Library!RejectedIsNegative, Sound, Ids
<1>5. nextId \in Nat /\ made \in Nat
  BY DEF RowTypes, LibraryAssumption
<1>6. \A r \in prune.read : r.name \notin writing'
  BY DEF ReadIsOfRow
<1>7. \A i \in Ids' : i \in Ids /\ rows'[i].name = rows[i].name
  BY DEF Sound
<1>8. nextId <= nextId' /\ made <= made' /\ nextId' \in Nat /\ made' \in Nat
  BY <1>5
<1>9. PruneTypes' /\ ReadIsOfRow' /\ Accounted' /\ Library!BudgetMet'
  BY <1>6, <1>7, <1>8, ReadStays, PruneRests
<1> QED
  BY <1>1, <1>3, <1>4, <1>9

\* A row that is not reviewed.
LEMMA StaysSound == LibraryInv => \A i \in Ids : Sound(rows[i], rows[i])
  BY DEF LibraryInv, Sound, RowTypes, Library!RejectedIsNegative, Ids

\* One review.
LEMMA ReviewKeeps ==
  ASSUME LibraryAssumption, LibraryInv, NEW id \in Ids, NEW row, Sound(row, rows[id]),
         Library!Review(id, row)
  PROVE  LibraryInv'
<1>1. /\ reviews < MaxReviews /\ reviews' = reviews + 1 /\ rows' = [rows EXCEPT ![id] = row]
      /\ UNCHANGED <<images, nextId, made, writing, unlinking, prune, strays>>
  BY DEF Library!Review
<1>2. Ids' = Ids /\ \A i \in Ids : Sound(rows'[i], rows[i])
  BY <1>1, StaysSound DEF Ids
<1>3. reviews' \in 0..MaxReviews
  BY <1>1 DEF LibraryInv, RowTypes, LibraryAssumption
<1> QED
  BY <1>1, <1>2, <1>3, RowsReviewed

Notes == Library!BoundedSeq(Library!Note, MaxNotes)

LEMMA MarkedIs ==
  ASSUME LibraryAssumption, NEW notes \in Notes, NEW from, NEW to \in Library!NoteStatuses
  PROVE  /\ Library!Marked(notes, from, to) \in Notes
         /\ DOMAIN Library!Marked(notes, from, to) = DOMAIN notes
         /\ \A k \in DOMAIN notes : notes[k].status \in from => Library!Marked(notes, from, to)[k].status = to
<1>1. Notes = {z \in Seq(Library!Note) : Len(z) <= MaxNotes}
  BY NotesAre DEF Notes
<1>2. notes \in Seq(Library!Note) /\ Len(notes) <= MaxNotes
  BY <1>1
<1> DEFINE now == [k \in DOMAIN notes |->
                     IF notes[k].status \in from THEN [notes[k] EXCEPT !.status = to] ELSE notes[k]]
<1>3. Library!Marked(notes, from, to) = now
  BY DEF Library!Marked
<1>4. ASSUME NEW k \in DOMAIN notes
      PROVE  now[k] \in Library!Note /\ (notes[k].status \in from => now[k].status = to)
  <2>1. notes[k] \in Library!Note
    BY <1>2
  <2>2. [notes[k] EXCEPT !.status = to] \in Library!Note /\ [notes[k] EXCEPT !.status = to].status = to
    BY <2>1 DEF Library!Note
  <2> QED
    BY <2>1, <2>2
<1>5. DOMAIN now = DOMAIN notes
  OBVIOUS
<1> HIDE DEF now
<1>6. DOMAIN notes = 1..Len(notes) /\ Len(notes) \in Nat
  BY <1>2
<1>7. now \in [1..Len(notes) -> Library!Note]
  <2>1. now = [k \in DOMAIN notes |-> now[k]]
    BY DEF now
  <2> QED
    BY <1>4, <1>6, <2>1
<1>8. now \in Seq(Library!Note) /\ Len(now) = Len(notes)
  BY <1>6, <1>7
<1> QED
  BY <1>1, <1>2, <1>3, <1>4, <1>5, <1>8

\* Other notes for a row, with the status that follows from them.
LEMMA SyncedKeeps ==
  ASSUME LibraryAssumption, LibraryInv, NEW id \in Ids, NEW notes \in Notes,
         Library!Review(id, Library!Synced([rows[id] EXCEPT !.notes = notes]))
  PROVE  LibraryInv'
<1>1. rows[id] \in Library!Row
  BY DEF LibraryInv, RowTypes
<1>2. [rows[id] EXCEPT !.notes = notes] \in Library!Row /\ [rows[id] EXCEPT !.notes = notes].name = rows[id].name
  BY <1>1 DEF Library!Row, Notes
<1> DEFINE row == [rows[id] EXCEPT !.notes = notes]
<1>3. row \in Library!Row /\ row.name = rows[id].name
  BY <1>2
<1> HIDE DEF row
<1>4. Sound(Library!Synced(row), row)
  BY <1>3, SyncedIsSound
<1>5. Sound(Library!Synced(row), rows[id])
  BY <1>3, <1>4 DEF Sound
<1>6. Library!Review(id, Library!Synced(row))
  BY DEF row
<1> QED
  BY <1>5, <1>6, ReviewKeeps

LEMMA ReviewsKeep ==
  ASSUME LibraryAssumption, LibraryInv,
         \/ Library!ReviewAnnotation \/ Library!AddAnnotation \/ Library!DeleteAnnotation
         \/ Library!RejectUnreviewed
  PROVE  LibraryInv'
<1>1. Notes = {z \in Seq(Library!Note) : Len(z) <= MaxNotes} /\ MaxNotes \in Nat
  BY NotesAre DEF Notes, LibraryAssumption
<1>2. ASSUME NEW id \in Ids PROVE rows[id] \in Library!Row /\ rows[id].notes \in Notes
  BY DEF LibraryInv, RowTypes, Library!Row, Notes
<1>3. CASE Library!ReviewAnnotation
  <2>1. PICK id \in Ids, to \in Library!NoteStatuses : \E k \in DOMAIN rows[id].notes :
          Library!Review(id, Library!Synced([rows[id] EXCEPT !.notes[k].status = to]))
    BY <1>3 DEF Library!ReviewAnnotation, Ids
  <2>2. PICK k \in DOMAIN rows[id].notes :
          Library!Review(id, Library!Synced([rows[id] EXCEPT !.notes[k].status = to]))
    BY <2>1
  <2> DEFINE notes == [rows[id].notes EXCEPT ![k] = [@ EXCEPT !.status = to]]
  <2>3. notes \in Notes
    <3>1. PICK s \in Seq(Library!Note) : s = rows[id].notes /\ Len(s) <= MaxNotes
      BY <1>1, <1>2
    <3>2. DOMAIN s = 1..Len(s) /\ k \in 1..Len(s) /\ Len(s) \in Nat
      BY <3>1
    <3>3. s[k] \in Library!Note
      BY <3>2
    <3>4. [s[k] EXCEPT !.status = to] \in Library!Note
      BY <3>3 DEF Library!Note
    <3>5. PICK n \in Library!Note : n = [s[k] EXCEPT !.status = to]
      BY <3>4
    <3>6. [s EXCEPT ![k] = n] \in Seq(Library!Note) /\ Len([s EXCEPT ![k] = n]) = Len(s)
      BY <3>2
    <3>7. notes = [s EXCEPT ![k] = n]
      BY <3>1, <3>5
    <3> QED
      BY <1>1, <3>1, <3>6, <3>7
  <2>4. [rows[id] EXCEPT !.notes[k].status = to] = [rows[id] EXCEPT !.notes = notes]
    BY <1>2 DEF Library!Row
  <2> HIDE DEF notes
  <2> QED
    BY <2>2, <2>3, <2>4, SyncedKeeps
<1>4. CASE Library!AddAnnotation
  <2> DEFINE note == [source |-> "manual", status |-> "accepted"]
  <2>1. PICK id \in Ids : /\ Len(rows[id].notes) < MaxNotes
                          /\ Library!Review(id, Library!Synced([rows[id] EXCEPT !.notes = Append(@, note)]))
    BY <1>4 DEF Library!AddAnnotation, Ids
  <2>2. note \in Library!Note
    BY DEF Library!Note, Library!NoteStatuses
  <2> HIDE DEF note
  <2>3. PICK s \in Seq(Library!Note) : s = rows[id].notes /\ Len(s) < MaxNotes
    BY <1>1, <1>2, <2>1
  <2>4. Append(s, note) \in Seq(Library!Note) /\ Len(Append(s, note)) = Len(s) + 1 /\ Len(s) \in Nat
    BY <2>2
  <2>5. Append(s, note) \in Notes
    BY <1>1, <2>3, <2>4
  <2>6. [rows[id] EXCEPT !.notes = Append(@, note)] = [rows[id] EXCEPT !.notes = Append(s, note)]
    BY <2>3
  <2> QED
    BY <2>1, <2>5, <2>6, SyncedKeeps
<1>5. CASE Library!DeleteAnnotation
  <2>1. PICK id \in Ids : \E k \in DOMAIN rows[id].notes :
          Library!Review(id, Library!Synced([rows[id] EXCEPT !.notes = Library!RemoveAt(@, k)]))
    BY <1>5 DEF Library!DeleteAnnotation, Ids
  <2>2. PICK k \in DOMAIN rows[id].notes :
          Library!Review(id, Library!Synced([rows[id] EXCEPT !.notes = Library!RemoveAt(@, k)]))
    BY <2>1
  <2>3. PICK s \in Seq(Library!Note) : s = rows[id].notes /\ Len(s) <= MaxNotes
    BY <1>1, <1>2
  <2>4. Library!RemoveAt(s, k) \in Notes
    <3>1. k \in 1..Len(s) /\ Len(s) \in Nat
      BY <2>3
    <3>2. PICK u \in Seq(Library!Note) : u = SubSeq(s, 1, k - 1) /\ Len(u) = k - 1
      <4>1. SubSeq(s, 1, k - 1) \in Seq(Library!Note) /\ Len(SubSeq(s, 1, k - 1)) = k - 1
        BY <3>1
      <4> QED
        BY <4>1
    <3>3. PICK v \in Seq(Library!Note) : v = SubSeq(s, k + 1, Len(s)) /\ Len(v) = Len(s) - k
      <4>1. SubSeq(s, k + 1, Len(s)) \in Seq(Library!Note) /\ Len(SubSeq(s, k + 1, Len(s))) = Len(s) - k
        BY <3>1
      <4> QED
        BY <4>1
    <3>4. u \o v \in Seq(Library!Note) /\ Len(u \o v) = Len(u) + Len(v)
      OBVIOUS
    <3>5. Len(u \o v) <= MaxNotes
      BY <1>1, <2>3, <3>1, <3>2, <3>3, <3>4
    <3>6. Library!RemoveAt(s, k) = u \o v
      BY <3>2, <3>3 DEF Library!RemoveAt
    <3> QED
      BY <1>1, <3>4, <3>5, <3>6
  <2>5. [rows[id] EXCEPT !.notes = Library!RemoveAt(@, k)] = [rows[id] EXCEPT !.notes = Library!RemoveAt(s, k)]
    BY <2>3
  <2> QED
    BY <2>2, <2>4, <2>5, SyncedKeeps
<1>6. CASE Library!RejectUnreviewed
  <2>1. PICK id \in Ids :
          Library!Review(id, Library!Synced([rows[id] EXCEPT !.notes = Library!Marked(@, {"unreviewed"}, "rejected")]))
    BY <1>6 DEF Library!RejectUnreviewed, Ids
  <2>2. PICK s \in Notes : s = rows[id].notes
    BY <1>2
  <2>3. "rejected" \in Library!NoteStatuses
    BY DEF Library!NoteStatuses
  <2>4. Library!Marked(s, {"unreviewed"}, "rejected") \in Notes
    BY <2>3, MarkedIs
  <2>5. [rows[id] EXCEPT !.notes = Library!Marked(@, {"unreviewed"}, "rejected")]
          = [rows[id] EXCEPT !.notes = Library!Marked(s, {"unreviewed"}, "rejected")]
    BY <2>2
  <2> QED
    BY <2>1, <2>4, <2>5, SyncedKeeps
<1> QED
  BY <1>3, <1>4, <1>5, <1>6

LEMMA UpdateKeeps == ASSUME LibraryAssumption, LibraryInv, Library!UpdateReview PROVE LibraryInv'
<1>1. PICK id \in Ids, to \in Library!Statuses :
        Library!Review(id, [rows[id] EXCEPT !.status = to,
                                            !.notes = Library!Remarked(rows[id].notes, to)])
  BY DEF Library!UpdateReview, Ids
<1>2. rows[id] \in Library!Row
  BY DEF LibraryInv, RowTypes
<1>3. PICK s \in Notes : s = rows[id].notes
  BY <1>2 DEF Library!Row, Notes
<1>4. PICK t : t = Library!Remarked(s, to)
  OBVIOUS
<1>5. t \in Notes /\ (to = "rejected" => \A k \in DOMAIN t : t[k].status = "rejected")
  <2>1. CASE to = "training"
    BY <1>4, <2>1 DEF Library!Remarked
  <2>2. CASE to # "training"
    <3>1. to \in Library!NoteStatuses
      BY <2>2 DEF Library!Statuses, Library!NoteStatuses
    <3>2. t = Library!Marked(s, Library!NoteStatuses, to)
      BY <1>4, <2>2 DEF Library!Remarked
    <3>3. /\ t \in Notes /\ DOMAIN t = DOMAIN s
          /\ \A k \in DOMAIN s : s[k].status \in Library!NoteStatuses => t[k].status = to
      BY <3>1, <3>2, MarkedIs
    <3>4. ASSUME NEW k \in DOMAIN s PROVE s[k].status \in Library!NoteStatuses
      <4>1. Notes = {z \in Seq(Library!Note) : Len(z) <= MaxNotes}
        BY NotesAre DEF Notes
      <4>2. s[k] \in Library!Note
        BY <4>1
      <4> QED
        BY <4>2 DEF Library!Note
    <3> QED
      BY <3>3, <3>4
  <2> QED
    BY <2>1, <2>2
<1> DEFINE row == [rows[id] EXCEPT !.status = to, !.notes = t]
<1>6. /\ row \in Library!Row /\ row.name = rows[id].name /\ row.status = to /\ row.notes = t
  BY <1>2, <1>5 DEF Library!Row, Notes
<1>7. Library!Review(id, row)
  BY <1>1, <1>3, <1>4
<1> HIDE DEF row
<1>8. Sound(row, rows[id])
  BY <1>5, <1>6 DEF Sound
<1> QED
  BY <1>7, <1>8, ReviewKeeps

LEMMA BulkKeeps == ASSUME LibraryAssumption, LibraryInv, Library!BulkReject PROVE LibraryInv'
<1>1. PICK ids \in SUBSET Ids :
        /\ reviews < MaxReviews /\ reviews' = reviews + 1
        /\ rows' = [i \in Ids |->
             IF i \in ids
             THEN [rows[i] EXCEPT !.status = "rejected",
                                  !.notes = Library!Marked(@, Library!NoteStatuses, "rejected")]
             ELSE rows[i]]
        /\ UNCHANGED <<images, nextId, made, writing, unlinking, prune, strays>>
  BY DEF Library!BulkReject, Ids
<1>2. Ids' = Ids
  BY <1>1 DEF Ids
<1>3. ASSUME NEW i \in ids PROVE Sound(rows'[i], rows[i])
  <2>1. rows[i] \in Library!Row /\ "rejected" \in Library!NoteStatuses /\ "rejected" \in Library!Statuses
    BY DEF LibraryInv, RowTypes, Library!NoteStatuses, Library!Statuses
  <2>2. PICK s \in Notes : s = rows[i].notes
    BY <2>1 DEF Library!Row, Notes
  <2>3. PICK t : t = Library!Marked(s, Library!NoteStatuses, "rejected")
    OBVIOUS
  <2>4. /\ t \in Notes /\ DOMAIN t = DOMAIN s
        /\ \A k \in DOMAIN s : s[k].status \in Library!NoteStatuses => t[k].status = "rejected"
    BY <2>1, <2>3, MarkedIs
  <2>5. ASSUME NEW k \in DOMAIN s PROVE s[k].status \in Library!NoteStatuses
    <3>1. Notes = {z \in Seq(Library!Note) : Len(z) <= MaxNotes}
      BY NotesAre DEF Notes
    <3>2. s[k] \in Library!Note
      BY <3>1
    <3> QED
      BY <3>2 DEF Library!Note
  <2> DEFINE row == [rows[i] EXCEPT !.status = "rejected", !.notes = t]
  <2>6. /\ row \in Library!Row /\ row.name = rows[i].name /\ row.status = "rejected" /\ row.notes = t
    BY <2>1, <2>4 DEF Library!Row, Notes
  <2>7. rows'[i] = row
    BY <1>1, <2>2, <2>3
  <2> HIDE DEF row
  <2> QED
    BY <2>4, <2>5, <2>6, <2>7 DEF Sound
<1>4. ASSUME NEW i \in Ids, i \notin ids PROVE Sound(rows'[i], rows[i])
  <2>1. \A j \in Ids : j \notin ids => rows'[j] = rows[j]
    BY <1>1, Zenon
  <2>2. Sound(rows[i], rows[i])
    BY StaysSound
  <2> QED
    BY <1>4, <2>1, <2>2
<1>5. reviews' \in 0..MaxReviews
  <2>1. reviews < MaxReviews /\ reviews' = reviews + 1
    BY <1>1
  <2>2. reviews \in 0..MaxReviews /\ MaxReviews \in Nat
    BY DEF LibraryInv, RowTypes, LibraryAssumption
  <2> QED
    BY <2>1, <2>2
<1>6. \A i \in Ids : Sound(rows'[i], rows[i])
  BY <1>3, <1>4
<1>7. UNCHANGED <<images, nextId, made, writing, unlinking, prune, strays>>
  BY <1>1
<1> QED
  BY <1>2, <1>5, <1>6, <1>7, RowsReviewed

LEMMA RetentionPasses == ASSUME LibraryAssumption, LibraryInv, Library!Age PROVE LibraryInv'
<1>1. PICK id \in Ids : /\ rows' = [rows EXCEPT ![id].old = TRUE]
                        /\ UNCHANGED <<images, nextId, made, writing, unlinking, prune, reviews, strays>>
  BY Zenon DEF Library!Age, Ids
<1>2. rows[id] \in Library!Row /\ Sound(rows[id], rows[id])
  BY StaysSound DEF LibraryInv, RowTypes
<1>3. PICK row : row = [rows[id] EXCEPT !.old = TRUE]
  OBVIOUS
<1>4. /\ row \in Library!Row /\ row.name = rows[id].name /\ row.status = rows[id].status
      /\ row.notes = rows[id].notes
  BY <1>2, <1>3 DEF Library!Row
<1>5. Sound(row, rows[id])
  BY <1>2, <1>4 DEF Sound
<1>6. rows' = [rows EXCEPT ![id] = row]
  BY <1>1, <1>3
<1>7. Ids' = Ids /\ \A i \in Ids : Sound(rows'[i], rows[i])
  BY <1>5, <1>6, StaysSound DEF Ids
<1>8. reviews' \in 0..MaxReviews
  BY <1>1 DEF LibraryInv, RowTypes
<1> QED
  BY <1>1, <1>7, <1>8, RowsReviewed

\* A file without a row: written, or withdrawn again.
LEMMA FilesCome ==
  ASSUME LibraryAssumption, LibraryInv, Library!WriteFile \/ Library!InsertFails \/ Library!Unlink
  PROVE  LibraryInv'
<1> USE DEF LibraryInv
<1>1. UNCHANGED <<rows, nextId, prune, reviews, strays>> /\ Ids' = Ids
  BY DEF Library!WriteFile, Library!InsertFails, Library!Unlink, Ids
<1>2. nextId \in Nat /\ made \in Nat /\ MaxFiles \in Nat
  BY DEF RowTypes, LibraryAssumption
<1>3. \A i \in Ids : rows[i].name \in images /\ rows[i].name \in 1..made
  BY DEF Shelves, Library!RowHasFile, Library!Names, Ids, RowTypes
<1>4. images \subseteq Library!Names(Ids) \cup writing \cup unlinking \cup strays
  BY DEF Shelves, Library!FilesTracked, Ids
<1>5. Library!Names(Ids)' = Library!Names(Ids) /\ \A i \in Ids : rows[i].name \in Library!Names(Ids)
  BY <1>1 DEF Library!Names, Ids
<1>6. CASE Library!WriteFile
  <2>1. /\ made < MaxFiles /\ made' = made + 1 /\ images' = images \cup {made'}
        /\ writing' = writing \cup {made'} /\ unlinking' = unlinking
    BY <1>6 DEF Library!WriteFile
  <2>2. RowTypes'
    BY <1>1, <1>2, <2>1 DEF RowTypes
  <2>3. made' \notin images /\ made' \notin unlinking /\ \A i \in Ids : rows[i].name # made'
    BY <1>2, <1>3, <2>1 DEF RowTypes
  <2>4. NamesApart'
    BY <1>1, <2>1, <2>3 DEF Shelves, NamesApart
  <2>5. Library!RowHasFile' /\ Library!FilesTracked'
    BY <1>1, <1>4, <1>5, <2>1 DEF Shelves, Library!RowHasFile, Library!FilesTracked, Ids
  <2>6. \A r \in prune.read : r.name \notin writing'
    <3>1. ASSUME NEW r \in prune.read PROVE r.name \notin writing /\ r.name <= made /\ r.name \in Nat
      BY DEF ReadIsOfRow, PruneTypes, Shape, Known
    <3> QED
      BY <1>2, <2>1, <3>1
  <2>7. made <= made' /\ made' \in Nat /\ nextId <= nextId' /\ nextId' \in Nat
    BY <1>1, <1>2, <2>1
  <2>8. \A i \in Ids' : i \in Ids /\ rows'[i].name = rows[i].name
    BY <1>1
  <2>9. PruneTypes' /\ ReadIsOfRow' /\ Accounted' /\ Library!BudgetMet'
    BY <1>1, <2>6, <2>7, <2>8, ReadStays, PruneRests
  <2> QED
    BY <1>1, <2>2, <2>4, <2>5, <2>9 DEF Shelves, Library!RejectedIsNegative
<1>7. CASE Library!InsertFails \/ Library!Unlink
  <2>1. PICK n \in writing \cup unlinking :
          /\ images' = images \ {n} /\ writing' = writing \ {n} /\ unlinking' = unlinking \ {n} /\ made' = made
    <3>1. CASE Library!InsertFails
      <4>1. PICK n \in writing : /\ images' = images \ {n} /\ writing' = writing \ {n}
                                 /\ UNCHANGED <<unlinking, made>>
        BY <3>1 DEF Library!InsertFails, Library!Withdrawn
      <4>2. unlinking' = unlinking \ {n}
        BY <4>1 DEF Shelves, NamesApart
      <4> QED
        BY <4>1, <4>2
    <3>2. CASE Library!Unlink
      <4>1. PICK n \in unlinking : /\ images' = images \ {n} /\ unlinking' = unlinking \ {n}
                                   /\ UNCHANGED <<writing, made>>
        BY <3>2 DEF Library!Unlink
      <4>2. writing' = writing \ {n}
        BY <4>1 DEF Shelves, NamesApart
      <4> QED
        BY <4>1, <4>2
    <3> QED
      BY <1>7, <3>1, <3>2
  <2>2. RowTypes'
    BY <1>1, <2>1 DEF RowTypes
  <2>3. \A i \in Ids : rows[i].name # n
    BY <2>1 DEF Shelves, NamesApart
  <2>4. NamesApart'
    BY <1>1, <2>1 DEF Shelves, NamesApart
  <2>5. Library!RowHasFile'
    <3>1. Library!Names(Ids) \subseteq images /\ n \notin Library!Names(Ids)
      BY <2>3 DEF Shelves, Library!RowHasFile, Library!Names, Ids
    <3> QED
      BY <1>5, <2>1, <3>1 DEF Library!RowHasFile, Ids
  <2>6. Library!FilesTracked'
    BY <1>1, <1>4, <1>5, <2>1 DEF Library!FilesTracked, Ids
  <2>7. \A r \in prune.read : r.name \notin writing'
    BY <2>1 DEF ReadIsOfRow
  <2>8. \A i \in Ids' : i \in Ids /\ rows'[i].name = rows[i].name
    BY <1>1
  <2>9. made <= made' /\ made' \in Nat /\ nextId <= nextId' /\ nextId' \in Nat
    BY <1>1, <1>2, <2>1
  <2>10. PruneTypes' /\ ReadIsOfRow' /\ Accounted' /\ Library!BudgetMet'
    BY <1>1, <2>7, <2>8, <2>9, ReadStays, PruneRests
  <2> QED
    BY <1>1, <2>2, <2>4, <2>5, <2>6, <2>10 DEF Shelves, Library!RejectedIsNegative
<1> QED
  BY <1>6, <1>7

LEMMA InsertKeeps == ASSUME LibraryAssumption, LibraryInv, Library!Insert PROVE LibraryInv'
<1> USE DEF LibraryInv
<1>1. PICK n \in writing, notes \in {<<>>, <<[source |-> "model", status |-> "unreviewed"]>>} :
        /\ rows' = [i \in Ids \cup {nextId} |->
                     IF i = nextId
                     THEN [name |-> n, notes |-> notes, status |-> "unreviewed", old |-> FALSE] ELSE rows[i]]
        /\ nextId' = nextId + 1 /\ writing' = writing \ {n}
        /\ UNCHANGED <<images, made, unlinking, prune, reviews, strays>>
  BY Zenon DEF Library!Insert, Library!NewId, Ids
<1> DEFINE row == [name |-> n, notes |-> notes, status |-> "unreviewed", old |-> FALSE]
<1>2. row \in Library!Row /\ row.name = n /\ row.status = "unreviewed"
  <2>1. notes \in Notes
    <3>1. Notes = {z \in Seq(Library!Note) : Len(z) <= MaxNotes} /\ MaxNotes \in Nat \ {0}
      BY NotesAre DEF Notes, LibraryAssumption
    <3>2. [source |-> "model", status |-> "unreviewed"] \in Library!Note
      BY DEF Library!Note, Library!NoteStatuses
    <3>3. CASE notes = <<>>
      BY <3>1, <3>3
    <3>4. PICK m \in Library!Note : m = [source |-> "model", status |-> "unreviewed"]
      BY <3>2
    <3>5. <<m>> \in Seq(Library!Note) /\ Len(<<m>>) = 1
      OBVIOUS
    <3>6. <<m>> \in Notes
      BY <3>1, <3>5
    <3> QED
      BY <3>3, <3>4, <3>6
  <2>2. n \in 1..MaxFiles
    BY DEF RowTypes, LibraryAssumption
  <2> QED
    BY <2>1, <2>2 DEF Library!Row, Notes, Library!Statuses
<1> HIDE DEF row
<1>3. Ids' = Ids \cup {nextId}
  BY <1>1 DEF Ids
<1>4. nextId \in Nat \ {0} /\ Ids \subseteq 1..nextId - 1 /\ nextId \notin Ids /\ made \in Nat
  BY DEF RowTypes, LibraryAssumption
<1>5. rows'[nextId] = row /\ \A i \in Ids : rows'[i] = rows[i]
  BY <1>1, <1>4 DEF row
<1>6. RowTypes'
  <2>1. \A i \in Ids' : rows'[i] \in Library!Row
    BY <1>2, <1>3, <1>5 DEF RowTypes
  <2>2. Ids' \subseteq 1..nextId' - 1 /\ nextId' \in Nat \ {0}
    BY <1>1, <1>3, <1>4
  <2> QED
    BY <1>1, <2>1, <2>2 DEF RowTypes
<1>7. \A i \in Ids : rows[i].name # n
  BY DEF Shelves, NamesApart
<1>8. NamesApart'
  <2>1. n \in images /\ n \notin unlinking
    BY DEF Shelves, NamesApart
  <2>2. ASSUME NEW i \in Ids', NEW j \in Ids', rows'[i].name = rows'[j].name PROVE i = j
    BY <1>2, <1>3, <1>5, <1>7, <2>2 DEF Shelves, NamesApart
  <2>3. ASSUME NEW i \in Ids' PROVE rows'[i].name \notin writing' /\ rows'[i].name \notin unlinking'
    BY <1>1, <1>2, <1>3, <1>5, <2>1 DEF Shelves, NamesApart
  <2>4. writing' \subseteq images' /\ writing' \cap unlinking' = {}
    BY <1>1 DEF Shelves, NamesApart
  <2> QED
    BY <2>2, <2>3, <2>4 DEF NamesApart
<1>9. Library!Names(Ids)' = Library!Names(Ids) \cup {n}
  <2>1. Library!Names(Ids)' = {rows'[i].name : i \in Ids'}
    BY DEF Library!Names, Ids
  <2>2. Library!Names(Ids) = {rows[i].name : i \in Ids}
    BY DEF Library!Names
  <2>3. ASSUME NEW m \in Library!Names(Ids)' PROVE m \in Library!Names(Ids) \cup {n}
    <3>1. PICK i \in Ids' : m = rows'[i].name
      BY <2>1
    <3> QED
      BY <1>2, <1>3, <1>5, <2>2, <3>1
  <2>4. ASSUME NEW i \in Ids PROVE rows[i].name \in Library!Names(Ids)'
    BY <1>3, <1>5, <2>1
  <2>5. n \in Library!Names(Ids)'
    <3>1. nextId \in Ids' /\ rows'[nextId].name = n
      BY <1>2, <1>3, <1>5
    <3> QED
      BY <2>1, <3>1
  <2> QED
    BY <2>2, <2>3, <2>4, <2>5
<1>10. Library!RowHasFile' /\ Library!FilesTracked'
  BY <1>1, <1>9 DEF Shelves, NamesApart, Library!RowHasFile, Library!FilesTracked, Ids
<1>11. Library!RejectedIsNegative'
  BY <1>2, <1>3, <1>5 DEF Library!RejectedIsNegative, Ids
<1>12. ASSUME NEW r \in prune.read
       PROVE  /\ r.id < nextId' /\ r.name <= made' /\ r.name \notin writing'
              /\ r.id \in Ids' => r.id \in Ids /\ rows'[r.id].name = r.name
              /\ Named(r.name)' => Named(r.name) /\ r.id \in Ids'
  <2>1. /\ r.id < nextId /\ r.name <= made /\ r.name \notin writing /\ r.id \in Nat
        /\ r.id \in Ids => rows[r.id].name = r.name
        /\ Named(r.name) => r.id \in Ids
    BY DEF ReadIsOfRow, PruneTypes, Shape, Known
  <2>2. Named(r.name)' => Named(r.name)
    <3>1. Named(r.name)' <=> r.name \in Library!Names(Ids)'
      BY DEF Named
    <3> QED
      BY <1>9, <2>1, <3>1 DEF Named
  <2>3. r.id # nextId
    BY <1>4, <2>1
  <2> QED
    BY <1>1, <1>3, <1>4, <1>5, <2>1, <2>2, <2>3
<1>13. ReadIsOfRow'
  BY <1>1, <1>12 DEF ReadIsOfRow
<1>14. Left' \subseteq Left /\ Left \subseteq prune.read /\ IsFiniteSet(prune.read)
  BY <1>1, <1>12 DEF Left, PruneTypes, Shape
<1>15. IsFiniteSet(Left)
  BY <1>14, FS_Subset
<1>16. Cardinality(Left') <= Cardinality(Left) /\ IsFiniteSet(Left')
  BY <1>14, <1>15, FS_Subset
<1>17. PruneTypes' /\ ReadIsOfRow' /\ Accounted' /\ Library!BudgetMet'
  BY <1>1, <1>13, <1>14, <1>15, <1>16, FS_CardinalityType, PruneRests
<1> QED
  BY <1>6, <1>8, <1>10, <1>11, <1>17 DEF Shelves

\* A transaction that deletes rows, of an operator or of the clean-up.
LEMMA DropKeeps ==
  ASSUME LibraryAssumption, LibraryInv, NEW ids \in SUBSET Ids, Library!Drop(ids),
         UNCHANGED <<nextId, made, writing, reviews, strays>>, prune'.read = prune.read
  PROVE  /\ RowTypes' /\ Shelves' /\ Library!RejectedIsNegative' /\ ReadIsOfRow'
         /\ Left' \subseteq Left /\ IsFiniteSet(Left)
         /\ Cardinality(Left') \in Nat /\ Cardinality(Left) \in Nat /\ Cardinality(Left') <= Cardinality(Left)
         /\ \A r \in Left' : r.id \notin ids
         /\ Library!Names(Ids) \ Library!Names(Ids)' \subseteq Library!Names(ids)
<1> USE DEF LibraryInv
<1>1. /\ rows' = [i \in Ids \ ids |-> rows[i]] /\ unlinking' = unlinking \cup Library!Names(ids)
      /\ images' = images
  BY DEF Library!Drop, Ids
<1>2. Ids' = Ids \ ids /\ \A i \in Ids' : rows'[i] = rows[i]
  BY <1>1 DEF Ids
<1>3. Library!Names(ids) = {rows[i].name : i \in ids} /\ Library!Names(Ids) = {rows[i].name : i \in Ids}
  BY DEF Library!Names
<1>4. Library!Names(Ids)' = {rows'[i].name : i \in Ids'}
  BY DEF Library!Names
<1>5. /\ Library!Names(ids) \subseteq Library!Names(Ids)
      /\ Library!Names(Ids) \subseteq Library!Names(Ids)' \cup Library!Names(ids)
      /\ Library!Names(Ids)' \subseteq Library!Names(Ids)
  BY <1>2, <1>3, <1>4
<1>6. Library!Names(Ids) \subseteq images
  BY DEF Shelves, Library!RowHasFile, Ids
<1>7. RowTypes'
  <2>1. unlinking' \subseteq 1..made
    BY <1>1, <1>5, <1>6 DEF RowTypes
  <2> QED
    BY <1>1, <1>2, <2>1 DEF RowTypes
<1>8. NamesApart'
  <2>1. ASSUME NEW i \in Ids' PROVE rows'[i].name \notin unlinking'
    <3>1. i \in Ids /\ i \notin ids /\ rows'[i].name = rows[i].name
      BY <1>2
    <3>2. rows[i].name \notin Library!Names(ids)
      <4>1. ASSUME NEW j \in ids PROVE rows[j].name # rows[i].name
        BY <3>1 DEF Shelves, NamesApart
      <4> QED
        BY <1>3, <4>1
    <3> QED
      BY <1>1, <3>1, <3>2 DEF Shelves, NamesApart
  <2>2. writing \cap unlinking' = {}
    <3>1. writing \cap Library!Names(ids) = {}
      BY <1>3 DEF Shelves, NamesApart
    <3> QED
      BY <1>1, <3>1 DEF Shelves, NamesApart
  <2> QED
    BY <1>1, <1>2, <2>1, <2>2 DEF Shelves, NamesApart
<1>9. Library!RowHasFile' /\ Library!FilesTracked'
  <2>1. images \subseteq Library!Names(Ids) \cup writing \cup unlinking \cup strays
    BY DEF Shelves, Library!FilesTracked, Ids
  <2> QED
    BY <1>1, <1>5, <1>6, <2>1 DEF Library!RowHasFile, Library!FilesTracked, Ids
<1>10. Library!RejectedIsNegative'
  BY <1>2 DEF Library!RejectedIsNegative, Ids
<1>11. nextId \in Nat /\ made \in Nat
  BY DEF RowTypes, LibraryAssumption
<1>12. \A r \in prune.read : r.name \notin writing'
  BY DEF ReadIsOfRow
<1>13. \A i \in Ids' : i \in Ids /\ rows'[i].name = rows[i].name
  BY <1>2
<1>14. nextId <= nextId' /\ made <= made' /\ nextId' \in Nat /\ made' \in Nat
  BY <1>11
<1>15. /\ ReadIsOfRow' /\ Left' \subseteq Left /\ IsFiniteSet(Left)
       /\ Cardinality(Left') \in Nat /\ Cardinality(Left) \in Nat /\ Cardinality(Left') <= Cardinality(Left)
  BY <1>12, <1>13, <1>14, ReadStays
<1>16. \A r \in Left' : r.id \notin ids
  <2>1. ASSUME NEW r \in Left' PROVE r.id \in Ids'
    BY <1>15 DEF Left, ReadIsOfRow
  <2> QED
    BY <1>2, <2>1
<1> QED
  BY <1>5, <1>7, <1>8, <1>9, <1>10, <1>15, <1>16 DEF Shelves

LEMMA DeleteKeeps == ASSUME LibraryAssumption, LibraryInv, Library!Delete PROVE LibraryInv'
<1>1. PICK ids \in SUBSET Ids : Library!Drop(ids) /\ UNCHANGED <<nextId, made, writing, prune, reviews, strays>>
  BY DEF Library!Delete, Ids
<1>2. /\ RowTypes' /\ Shelves' /\ Library!RejectedIsNegative' /\ ReadIsOfRow'
      /\ Left' \subseteq Left /\ IsFiniteSet(Left)
      /\ Cardinality(Left') \in Nat /\ Cardinality(Left) \in Nat /\ Cardinality(Left') <= Cardinality(Left)
  BY <1>1, DropKeeps
<1>3. PruneTypes' /\ Accounted' /\ Library!BudgetMet'
  BY <1>1, <1>2, PruneRests
<1> QED
  BY <1>2, <1>3 DEF LibraryInv

\* The clean-up forgotten or at its end.
LEMMA NothingRead ==
  ASSUME LibraryAssumption, prune' = Library!NoPrune
  PROVE  PruneTypes' /\ ReadIsOfRow' /\ Accounted' /\ Library!BudgetMet'
<1>1. /\ prune'.phase = "idle" /\ prune'.todo = <<>> /\ prune'.kept = <<>> /\ prune'.total = 0
      /\ prune'.busy = {} /\ prune'.read = {}
  BY DEF Library!NoPrune
<1>2. PruneTypes'
  <2>1. prune' \in Shape
    BY DEF Library!NoPrune, LibraryAssumption, Shape
  <2>2. IsFiniteSet({})
    BY FS_EmptySet
  <2>3. Library!ToSet(<<>>) = {}
    BY DEF Library!ToSet
  <2> QED
    BY <1>1, <2>1, <2>2, <2>3 DEF PruneTypes, Shape
<1>3. ReadIsOfRow' /\ Accounted'
  BY <1>1 DEF ReadIsOfRow, Accounted
<1>4. Library!BudgetMet'
  BY <1>1, BudgetIs
<1> QED
  BY <1>2, <1>3, <1>4

LEMMA CrashKeeps == ASSUME LibraryAssumption, LibraryInv, Library!Crash PROVE LibraryInv'
<1> USE DEF LibraryInv
<1>1. /\ strays' = strays \cup ((writing \cup unlinking) \cap images) /\ writing' = {} /\ unlinking' = {}
      /\ prune' = Library!NoPrune /\ UNCHANGED <<rows, images, nextId, made, reviews>>
  BY DEF Library!Crash
<1>2. Ids' = Ids /\ Library!Names(Ids)' = Library!Names(Ids)
  BY <1>1 DEF Ids, Library!Names
<1>3. RowTypes'
  BY <1>1, <1>2 DEF RowTypes
<1>4. Shelves'
  BY <1>1, <1>2 DEF Shelves, NamesApart, Library!RowHasFile, Library!FilesTracked, Ids
<1>5. Library!RejectedIsNegative'
  BY <1>1 DEF Library!RejectedIsNegative
<1>6. PruneTypes' /\ ReadIsOfRow' /\ Accounted' /\ Library!BudgetMet'
  BY <1>1, NothingRead
<1> QED
  BY <1>3, <1>4, <1>5, <1>6

LEMMA PruneBegins == ASSUME LibraryAssumption, LibraryInv, Library!PruneBegin PROVE LibraryInv' /\ rows' = rows
<1> USE DEF LibraryInv
<1>1. /\ prune.phase = "idle" /\ UNCHANGED <<rows, images, nextId, made, writing, unlinking, reviews, strays>>
      /\ \E all \in Library!Snapshots :
           prune' = [Library!NoPrune EXCEPT !.phase = "old", !.todo = all, !.read = Library!ToSet(all)]
  BY DEF Library!PruneBegin
<1>2. PICK f \in Library!Orders(Ids) : \E all :
        /\ all = [k \in DOMAIN f |-> Library!Read(f[k])]
        /\ prune' = [Library!NoPrune EXCEPT !.phase = "old", !.todo = all, !.read = Library!ToSet(all)]
  BY <1>1, Zenon DEF Library!Snapshots, Ids
<1> DEFINE all == [k \in DOMAIN f |-> Library!Read(f[k])]
           set == Library!ToSet(all)
<1>3. prune' = [Library!NoPrune EXCEPT !.phase = "old", !.todo = all, !.read = set]
  BY <1>2
<1>4. PICK n \in Nat : f \in [1..n -> Ids]
  <2>1. IsFiniteSet(Ids)
    <3>1. IsFiniteSet(1..nextId - 1) /\ Ids \subseteq 1..nextId - 1
      BY FS_Interval DEF RowTypes
    <3> QED
      BY <3>1, FS_Subset
  <2>2. Library!Cardinality(Ids) = Cardinality(Ids)
    BY DEF Library!Cardinality, Cardinality
  <2>3. Cardinality(Ids) \in Nat
    BY <2>1, FS_CardinalityType
  <2>4. f \in [1..Library!Cardinality(Ids) -> Ids]
    BY DEF Library!Orders
  <2> QED
    BY <2>2, <2>3, <2>4
<1>5. ASSUME NEW i \in Ids
      PROVE  /\ Library!Read(i) \in Known /\ Library!Read(i).id = i /\ Library!Read(i).name = rows[i].name
             /\ i < nextId /\ rows[i].name <= made /\ rows[i].name \notin writing
  <2>1. rows[i] \in Library!Row /\ i \in Nat /\ i < nextId
    BY DEF RowTypes
  <2>2. rows[i].name \in images /\ rows[i].name \notin writing
    BY DEF Shelves, Library!RowHasFile, Library!Names, Ids, NamesApart
  <2>3. rows[i].name <= made
    BY <2>2 DEF RowTypes, LibraryAssumption
  <2>4. Library!Read(i) \in Known
    BY <2>1 DEF Library!Read, Known, Library!Row
  <2> QED
    BY <2>1, <2>2, <2>3, <2>4 DEF Library!Read
<1>6. all \in Seq(Known)
  <2>1. \A k \in 1..n : f[k] \in Ids
    BY <1>4
  <2>2. \A k \in 1..n : Library!Read(f[k]) \in Known
    BY <1>5, <2>1
  <2>3. all \in [1..n -> Known]
    BY <1>4, <2>2
  <2> QED
    BY <1>4, <2>3
<1>7. ASSUME NEW r \in set PROVE \E i \in Ids : r = Library!Read(i)
  <2>1. PICK k \in DOMAIN all : r = all[k]
    BY DEF Library!ToSet
  <2>2. k \in 1..n /\ all[k] = Library!Read(f[k])
    BY <1>4, <2>1
  <2> QED
    BY <1>4, <2>1, <2>2
<1> HIDE DEF all
<1>8. IsFiniteSet(set) /\ set \subseteq Known
  BY <1>6, ListElements
<1>9. Library!ToSet(<<>>) = {}
  BY DEF Library!ToSet
<1> HIDE DEF set
<1>10. /\ prune'.phase = "old" /\ prune'.todo = all /\ prune'.kept = <<>> /\ prune'.total = 0
       /\ prune'.busy = {} /\ prune'.read = set
       /\ prune' \in Shape
  <2>1. prune' = [phase |-> "old", todo |-> all, kept |-> <<>>, total |-> 0, busy |-> {}, read |-> set]
    BY <1>3 DEF Library!NoPrune
  <2>2. 0 \in 0..MaxFiles /\ <<>> \in Seq(Known) /\ {} \in SUBSET (1..MaxFiles) /\ set \in SUBSET Known
    BY <1>8 DEF LibraryAssumption
  <2> QED
    BY <1>6, <2>1, <2>2 DEF Shape
<1>11. Library!ToSet(all) = set
  BY DEF set
<1>12. \A r, q \in set : r.name = q.name => r = q
  <2>1. SUFFICES ASSUME NEW r \in set, NEW q \in set, r.name = q.name PROVE r = q
    OBVIOUS
  <2>2. PICK i \in Ids, j \in Ids : r = Library!Read(i) /\ q = Library!Read(j)
    BY <1>7
  <2>3. rows[i].name = rows[j].name
    BY <1>5, <2>1, <2>2
  <2>4. i = j
    BY <2>3 DEF Shelves, NamesApart
  <2> QED
    BY <2>2, <2>4
<1>13. PruneTypes'
  BY <1>8, <1>9, <1>10, <1>11, <1>12 DEF PruneTypes, Shape
<1>14. Ids' = Ids
  BY <1>1 DEF Ids
<1>15. ReadIsOfRow'
  <2>1. ASSUME NEW r \in set
        PROVE  r.id < nextId /\ r.name <= made /\ r.name \notin writing /\ r.id \in Ids /\ rows[r.id].name = r.name
    BY <1>5, <1>7
  <2> QED
    BY <1>1, <1>10, <1>14, <2>1 DEF ReadIsOfRow
<1>16. Accounted'
  <2>1. Left' \subseteq set
    BY <1>10 DEF Left
  <2> QED
    BY <1>10, <1>11, <2>1 DEF Accounted
<1>17. Library!BudgetMet'
  BY <1>10, BudgetIs
<1>18. RowTypes'
  BY <1>1, <1>14 DEF RowTypes
<1>19. Shelves' /\ Library!RejectedIsNegative'
  <2>1. Library!Names(DOMAIN rows)' = Library!Names(DOMAIN rows)
    BY <1>1 DEF Library!Names
  <2> QED
    BY <1>1, <1>14, <2>1 DEF Shelves, NamesApart, Library!RowHasFile, Library!FilesTracked, Library!RejectedIsNegative
<1> QED
  BY <1>1, <1>13, <1>15, <1>16, <1>17, <1>18, <1>19

\* A deletion of the clean-up, or none.
LEMMA PruneDeletes ==
  ASSUME LibraryAssumption, LibraryInv, NEW ids \in SUBSET Ids, Library!PruneDelete(ids), prune'.read = prune.read
  PROVE  /\ RowTypes' /\ Shelves' /\ Library!RejectedIsNegative' /\ ReadIsOfRow'
         /\ Left' \subseteq Left /\ IsFiniteSet(Left)
         /\ Cardinality(Left') \in Nat /\ Cardinality(Left) \in Nat /\ Cardinality(Left') <= Cardinality(Left)
         /\ \A r \in Left' : r.id \notin ids
         /\ Library!Names(Ids) \ Library!Names(Ids)' \subseteq Library!Names(ids)
<1>1. UNCHANGED <<nextId, made, writing, reviews, strays>>
  BY DEF Library!PruneDelete
<1>2. CASE ids = {}
  <2>1. UNCHANGED <<rows, images, unlinking>>
    BY <1>2 DEF Library!PruneDelete
  <2>2. Ids' = Ids /\ Library!Names(Ids)' = Library!Names(Ids) /\ Library!Names(DOMAIN rows)' = Library!Names(DOMAIN rows)
    BY <2>1 DEF Ids, Library!Names
  <2>3. RowTypes'
    BY <1>1, <2>1, <2>2 DEF LibraryInv, RowTypes
  <2>4. Shelves' /\ Library!RejectedIsNegative'
    BY <1>1, <2>1, <2>2 DEF LibraryInv, Shelves, NamesApart, Library!RowHasFile, Library!FilesTracked,
                            Library!RejectedIsNegative
  <2>5. nextId \in Nat /\ made \in Nat
    BY DEF LibraryInv, RowTypes, LibraryAssumption
  <2>6. \A r \in prune.read : r.name \notin writing'
    BY <1>1 DEF LibraryInv, ReadIsOfRow
  <2>7. \A i \in Ids' : i \in Ids /\ rows'[i].name = rows[i].name
    BY <2>1, <2>2
  <2>8. nextId <= nextId' /\ made <= made' /\ nextId' \in Nat /\ made' \in Nat
    BY <1>1, <2>5
  <2>9. /\ ReadIsOfRow' /\ Left' \subseteq Left /\ IsFiniteSet(Left)
        /\ Cardinality(Left') \in Nat /\ Cardinality(Left) \in Nat /\ Cardinality(Left') <= Cardinality(Left)
    BY <2>6, <2>7, <2>8, ReadStays
  <2> QED
    BY <1>2, <2>2, <2>3, <2>4, <2>9
<1>3. CASE ids # {}
  <2>1. Library!Drop(ids)
    BY <1>3 DEF Library!PruneDelete
  <2> QED
    BY <1>1, <2>1, DropKeeps
<1> QED
  BY <1>2, <1>3

\* What a step of the clean-up may take away.
Unselected == {r.name : r \in {q \in prune.read : q.status # "training"}}
TakesUnselected == Library!Names(Ids) \ Library!Names(Ids)' \subseteq Unselected

\* The one row a pass looks at.
LEMMA OneRow ==
  ASSUME LibraryAssumption, LibraryInv, NEW r \in prune.read, NEW ids \in SUBSET Ids, ids \subseteq {r.id},
         ids # {} => Library!Removable(r)
  PROVE  /\ Library!Names(ids) \subseteq {r.name} /\ Library!Names(ids) \subseteq Unselected
         /\ ids # {} => r \in Left /\ r.name \in images
         /\ r.name \in 1..MaxFiles
<1>1. ASSUME NEW i \in ids PROVE i = r.id /\ r.id \in Ids /\ rows[i].name = r.name
  BY <1>1 DEF LibraryInv, ReadIsOfRow
<1>2. Library!Names(ids) \subseteq {r.name}
  BY <1>1 DEF Library!Names
<1>3. Library!Names(ids) \subseteq Unselected
  <2>1. ASSUME ids # {} PROVE r.name \in Unselected
    BY <2>1 DEF Unselected, Library!Removable
  <2>2. ids = {} => Library!Names(ids) = {}
    BY DEF Library!Names
  <2> QED
    BY <1>2, <2>1, <2>2
<1>4. ASSUME ids # {} PROVE r \in Left /\ r.name \in images
  <2>1. r.id \in Ids /\ rows[r.id].name = r.name
    BY <1>1, <1>4
  <2>2. r.name \in Library!Names(Ids)
    BY <2>1 DEF Library!Names
  <2> QED
    BY <2>2 DEF Left, Named, LibraryInv, Shelves, Library!RowHasFile, Ids
<1> QED
  BY <1>2, <1>3, <1>4 DEF LibraryInv, PruneTypes, Shape, Known

\* The types after a step that leaves what was read.
LEMMA ShapeTypes ==
  ASSUME LibraryInv, prune' \in Shape, prune'.read = prune.read,
         prune'.busy \subseteq {r.name : r \in prune.read},
         Library!ToSet(prune'.todo) \cup Library!ToSet(prune'.kept) \subseteq prune.read
  PROVE  PruneTypes'
<1>1. IsFiniteSet(prune.read) /\ \A r, q \in prune.read : r.name = q.name => r = q
  BY DEF LibraryInv, PruneTypes, Shape
<1> QED
  BY <1>1 DEF PruneTypes, Shape

LEMMA PruneOldKeeps == ASSUME LibraryAssumption, LibraryInv, Library!PruneOld PROVE LibraryInv' /\ TakesUnselected
<1> DEFINE r == Head(prune.todo)
           ids == {i \in DOMAIN rows : i = r.id /\ Library!Removable(r) /\ r.old}
           todo == Tail(prune.todo)
           kept == IF ids = {} THEN Append(prune.kept, r) ELSE prune.kept
           busy == Library!Names(ids)
<1>1. /\ prune.phase = "old" /\ prune.todo # <<>> /\ Library!PruneDelete(ids)
      /\ prune' = [prune EXCEPT !.todo = todo, !.busy = busy, !.kept = kept]
  BY Zenon DEF Library!PruneOld, Library!At
<1>2. /\ prune \in Shape /\ prune.todo \in Seq(Known) /\ prune.kept \in Seq(Known) /\ prune.read \subseteq Known
      /\ Library!ToSet(prune.todo) \subseteq prune.read /\ Library!ToSet(prune.kept) \subseteq prune.read
      /\ prune.total \in 0..MaxFiles
  BY DEF LibraryInv, PruneTypes, Shape
<1>3. /\ r \in prune.read /\ r \in Known /\ todo \in Seq(Known)
      /\ Library!ToSet(prune.todo) = {r} \cup Library!ToSet(todo)
  <2>1. /\ Head(prune.todo) \in Library!ToSet(prune.todo) /\ Tail(prune.todo) \in Seq(Known)
        /\ Library!ToSet(prune.todo) = {Head(prune.todo)} \cup Library!ToSet(Tail(prune.todo))
    BY <1>1, <1>2, ListElements
  <2> QED
    BY <1>2, <2>1
<1>4. ids \in SUBSET Ids /\ ids \subseteq {r.id} /\ (ids # {} => Library!Removable(r))
  BY DEF Ids
<1> HIDE DEF r
<1>5. /\ kept \in Seq(Known) /\ Library!ToSet(kept) \subseteq prune.read
      /\ Library!ToSet(prune.kept) \subseteq Library!ToSet(kept)
      /\ ids = {} => r \in Library!ToSet(kept)
  <2>1. Append(prune.kept, r) \in Seq(Known) /\ Library!ToSet(Append(prune.kept, r)) = Library!ToSet(prune.kept) \cup {r}
    BY <1>2, <1>3, ListElements
  <2> HIDE DEF ids
  <2>2. CASE ids = {}
    BY <1>2, <1>3, <2>1, <2>2
  <2>3. CASE ids # {}
    BY <1>2, <2>3
  <2> QED
    BY <2>2, <2>3
<1> HIDE DEF ids
<1>6. /\ Library!Names(ids) \subseteq {r.name} /\ Library!Names(ids) \subseteq Unselected
      /\ ids # {} => r \in Left
      /\ r.name \in 1..MaxFiles
  BY <1>3, <1>4, OneRow
<1>7. busy \in SUBSET (1..MaxFiles) /\ busy \subseteq {x.name : x \in prune.read}
  BY <1>3, <1>6
<1> HIDE DEF todo, kept, busy
<1>8. /\ prune' \in Shape /\ prune'.phase = prune.phase /\ prune'.todo = todo /\ prune'.kept = kept
      /\ prune'.total = prune.total /\ prune'.busy = busy /\ prune'.read = prune.read
  <2>1. prune \in Shape /\ prune' = [prune EXCEPT !.todo = todo, !.busy = busy, !.kept = kept]
    BY <1>1, <1>2
  <2>2. todo \in Seq(Known) /\ kept \in Seq(Known) /\ busy \in SUBSET (1..MaxFiles)
    BY <1>3, <1>5, <1>7
  <2> QED
    BY <2>1, <2>2 DEF Shape
<1>9. PruneTypes'
  <2>1. Library!ToSet(todo) \subseteq prune.read
    BY <1>2, <1>3
  <2> QED
    BY <1>5, <1>7, <1>8, <2>1, ShapeTypes
<1>10. /\ RowTypes' /\ Shelves' /\ Library!RejectedIsNegative' /\ ReadIsOfRow'
       /\ Left' \subseteq Left /\ \A q \in Left' : q.id \notin ids
       /\ Library!Names(Ids) \ Library!Names(Ids)' \subseteq Library!Names(ids)
  BY <1>1, <1>4, <1>8, PruneDeletes
<1>11. Accounted'
  <2>1. ASSUME NEW q \in Left' PROVE q \in Library!ToSet(todo) \cup Library!ToSet(kept)
    <3>1. q \in Library!ToSet(prune.todo) \cup Library!ToSet(prune.kept)
      BY <1>1, <1>10, <2>1 DEF LibraryInv, Accounted
    <3>2. CASE q = r
      <4>1. ids = {} \/ r.id \in ids
        BY <1>4
      <4> QED
        BY <1>5, <1>10, <2>1, <3>2, <4>1
    <3> QED
      BY <1>3, <1>5, <3>1, <3>2
  <2> QED
    BY <1>1, <1>8, <2>1 DEF Accounted
<1>12. Library!BudgetMet'
  BY <1>1, <1>8, BudgetIs
<1> QED
  BY <1>6, <1>9, <1>10, <1>11, <1>12 DEF LibraryInv, TakesUnselected

LEMMA PruneRoomKeeps == ASSUME LibraryAssumption, LibraryInv, Library!PruneRoom PROVE LibraryInv' /\ TakesUnselected
<1> DEFINE r == Head(prune.todo)
           ids == {i \in DOMAIN rows : i = r.id /\ Library!Removable(r)}
           todo == Tail(prune.todo)
           total == Library!Remaining(prune.total, r, ids # {})
           busy == Library!Names(ids)
<1>1. /\ prune.phase = "room" /\ prune.todo # <<>> /\ Library!PruneDelete(ids)
      /\ prune' = [prune EXCEPT !.todo = todo, !.busy = busy, !.total = total]
      /\ prune.total > Budget
  BY Zenon DEF Library!PruneRoom, Library!At
<1>2. /\ prune \in Shape /\ prune.todo \in Seq(Known) /\ prune.kept \in Seq(Known) /\ prune.read \subseteq Known
      /\ Library!ToSet(prune.todo) \subseteq prune.read /\ Library!ToSet(prune.kept) \subseteq prune.read
      /\ prune.total \in 0..MaxFiles /\ MaxFiles \in Nat /\ Budget \in Nat
  BY DEF LibraryInv, PruneTypes, Shape, LibraryAssumption
<1>3. /\ r \in prune.read /\ r \in Known /\ todo \in Seq(Known)
      /\ Library!ToSet(prune.todo) = {r} \cup Library!ToSet(todo)
  <2>1. /\ Head(prune.todo) \in Library!ToSet(prune.todo) /\ Tail(prune.todo) \in Seq(Known)
        /\ Library!ToSet(prune.todo) = {Head(prune.todo)} \cup Library!ToSet(Tail(prune.todo))
    BY <1>1, <1>2, ListElements
  <2> QED
    BY <1>2, <2>1
<1>4. ids \in SUBSET Ids /\ ids \subseteq {r.id} /\ (ids # {} => Library!Removable(r))
      /\ (ids = {} => r.id \notin Ids \/ r.status = "training")
  BY DEF Ids, Library!Removable
<1> HIDE DEF r, ids
<1>5. /\ Library!Names(ids) \subseteq {r.name} /\ Library!Names(ids) \subseteq Unselected
      /\ ids # {} => r \in Left /\ r.name \in images
      /\ r.name \in 1..MaxFiles
  BY <1>3, <1>4, OneRow
<1>6. busy \in SUBSET (1..MaxFiles) /\ busy \subseteq {x.name : x \in prune.read}
  BY <1>3, <1>5
<1>7. total \in 0..MaxFiles /\ total = IF ids # {} THEN prune.total - 1 ELSE prune.total
  BY <1>1, <1>2, <1>5 DEF Library!Remaining
<1> HIDE DEF todo, total, busy
<1>8. /\ prune' \in Shape /\ prune'.phase = prune.phase /\ prune'.todo = todo /\ prune'.kept = prune.kept
      /\ prune'.total = total /\ prune'.busy = busy /\ prune'.read = prune.read
  <2>1. prune \in Shape /\ prune' = [prune EXCEPT !.todo = todo, !.busy = busy, !.total = total]
    BY <1>1, <1>2
  <2>2. todo \in Seq(Known) /\ total \in 0..MaxFiles /\ busy \in SUBSET (1..MaxFiles)
    BY <1>3, <1>6, <1>7
  <2> QED
    BY <2>1, <2>2 DEF Shape
<1>9. PruneTypes'
  <2>1. Library!ToSet(todo) \subseteq prune.read
    BY <1>2, <1>3
  <2> QED
    BY <1>2, <1>6, <1>8, <2>1, ShapeTypes
<1>10. /\ RowTypes' /\ Shelves' /\ Library!RejectedIsNegative' /\ ReadIsOfRow'
       /\ Left' \subseteq Left /\ IsFiniteSet(Left)
       /\ Cardinality(Left') \in Nat /\ Cardinality(Left) \in Nat /\ Cardinality(Left') <= Cardinality(Left)
       /\ \A q \in Left' : q.id \notin ids
       /\ Library!Names(Ids) \ Library!Names(Ids)' \subseteq Library!Names(ids)
  BY <1>1, <1>4, <1>8, PruneDeletes
<1>11. /\ \A q \in Left : q \in Library!ToSet(prune.todo) \/ q.status = "training"
       /\ Cardinality(Left) <= prune.total
  BY <1>1 DEF LibraryInv, Accounted
<1>12. ASSUME NEW q \in Left' PROVE q \in Library!ToSet(todo) \/ q.status = "training"
  <2>1. q \in Left /\ (q \in Library!ToSet(prune.todo) \/ q.status = "training")
    BY <1>10, <1>11
  <2>2. ASSUME q = r PROVE q.status = "training"
    <3>1. r.id \in Ids
      BY <2>1, <2>2 DEF LibraryInv, ReadIsOfRow, Left
    <3>2. ids = {}
      BY <1>4, <1>10, <2>2
    <3> QED
      BY <1>4, <2>2, <3>1, <3>2
  <2> QED
    BY <1>3, <2>1, <2>2
<1>13. Cardinality(Left') <= total
  <2>1. CASE ids = {}
    BY <1>2, <1>7, <1>10, <1>11, <2>1
  <2>2. CASE ids # {}
    <3>1. r \in Left /\ r \notin Left'
      BY <1>4, <1>5, <1>10, <2>2
    <3>2. IsFiniteSet(Left \ {r}) /\ Cardinality(Left \ {r}) = Cardinality(Left) - 1
      BY <1>10, <3>1, FS_RemoveElement
    <3>3. Left' \subseteq Left \ {r}
      BY <1>10, <3>1
    <3>4. Cardinality(Left') <= Cardinality(Left \ {r})
      BY <3>2, <3>3, FS_Subset
    <3> QED
      BY <1>2, <1>7, <1>10, <1>11, <2>2, <3>2, <3>4
  <2> QED
    BY <2>1, <2>2
<1>14. Accounted'
  BY <1>1, <1>8, <1>12, <1>13 DEF Accounted
<1>15. Library!BudgetMet'
  BY <1>1, <1>8, BudgetIs
<1> QED
  BY <1>5, <1>9, <1>10, <1>14, <1>15 DEF LibraryInv, TakesUnselected

\* A step of the clean-up that deletes nothing.
LEMMA NothingGoes ==
  ASSUME LibraryAssumption, LibraryInv, Library!PruneDelete({})
  PROVE  TakesUnselected
<1>1. rows' = rows
  BY DEF Library!PruneDelete
<1>2. Library!Names(Ids)' = Library!Names(Ids)
  BY <1>1 DEF Library!Names, Ids
<1> QED
  BY <1>2 DEF TakesUnselected

LEMMA PruneMeasureKeeps == ASSUME LibraryAssumption, LibraryInv, Library!PruneMeasure PROVE LibraryInv' /\ TakesUnselected
<1> DEFINE K == {r \in Library!ToSet(prune.kept) : r.name \in images}
           total == Cardinality(K)
<1>1. /\ prune.phase = "old" /\ prune.todo = <<>> /\ Library!PruneDelete({})
      /\ prune' = [prune EXCEPT !.phase = "room", !.todo = prune.kept, !.total = total]
  <2>1. Library!Cardinality(K) = Cardinality(K)
    BY DEF Library!Cardinality, Cardinality
  <2>2. /\ prune.phase = "old" /\ prune.todo = <<>> /\ Library!PruneDelete({})
        /\ prune' = [prune EXCEPT !.phase = "room", !.todo = prune.kept, !.total = Library!Cardinality(K)]
    BY Zenon DEF Library!PruneMeasure, Library!At
  <2> QED
    BY <2>1, <2>2, Zenon
<1>2. /\ prune \in Shape /\ prune.kept \in Seq(Known) /\ prune.read \subseteq Known /\ MaxFiles \in Nat
      /\ Library!ToSet(prune.kept) \subseteq prune.read /\ IsFiniteSet(prune.read)
      /\ prune.busy \subseteq {r.name : r \in prune.read}
      /\ \A r, q \in prune.read : r.name = q.name => r = q
  BY DEF LibraryInv, PruneTypes, Shape, LibraryAssumption
<1>3. IsFiniteSet(K) /\ total \in 0..MaxFiles
  <2>1. K \subseteq prune.read
    BY <1>2
  <2>2. IsFiniteSet(K)
    BY <1>2, <2>1, FS_Subset
  <2>3. [r \in K |-> r.name] \in Injection(K, 1..MaxFiles)
    <3>1. \A r \in K : r.name \in 1..MaxFiles
      BY <1>2, <2>1 DEF Known
    <3>2. \A r, q \in K : r.name = q.name => r = q
      BY <1>2, <2>1
    <3> QED
      BY <3>1, <3>2 DEF Injection, IsInjective
  <2>4. IsFiniteSet(1..MaxFiles) /\ Cardinality(1..MaxFiles) = MaxFiles
    BY <1>2, FS_Interval
  <2>5. Cardinality(K) <= Cardinality(1..MaxFiles)
    BY <2>3, <2>4, FS_Injection
  <2>6. Cardinality(K) \in Nat
    BY <2>2, FS_CardinalityType
  <2> QED
    BY <1>2, <2>2, <2>4, <2>5, <2>6
<1> HIDE DEF total
<1>4. /\ prune' \in Shape /\ prune'.phase = "room" /\ prune'.todo = prune.kept /\ prune'.kept = prune.kept
      /\ prune'.total = total /\ prune'.busy = prune.busy /\ prune'.read = prune.read
  <2>1. /\ prune \in Shape /\ prune.kept \in Seq(Known) /\ total \in 0..MaxFiles
        /\ prune' = [prune EXCEPT !.phase = "room", !.todo = prune.kept, !.total = total]
    BY <1>1, <1>2, <1>3
  <2> QED
    BY <2>1 DEF Shape
<1>5. PruneTypes'
  BY <1>2, <1>4, ShapeTypes
<1>6. /\ RowTypes' /\ Shelves' /\ Library!RejectedIsNegative' /\ ReadIsOfRow' /\ Left' \subseteq Left
      /\ IsFiniteSet(Left) /\ Cardinality(Left') \in Nat /\ Cardinality(Left) \in Nat
      /\ Cardinality(Left') <= Cardinality(Left)
  BY <1>1, <1>4, PruneDeletes
<1>7. Left \subseteq K
  <2>1. Left \subseteq Library!ToSet(prune.kept)
    <3>1. Library!ToSet(prune.todo) = {}
      BY <1>1 DEF Library!ToSet
    <3> QED
      BY <1>1, <3>1 DEF LibraryInv, Accounted
  <2>2. \A r \in Left : r.name \in images
    BY DEF Left, Named, LibraryInv, Shelves, Library!RowHasFile, Ids
  <2> QED
    BY <2>1, <2>2
<1>8. Cardinality(Left) <= total
  BY <1>3, <1>7, FS_Subset DEF total
<1>9. Accounted'
  <2>1. \A r \in Left' : r \in Library!ToSet(prune.kept)
    BY <1>6, <1>7
  <2>2. Cardinality(Left') <= total
    <3>1. total \in Int
      BY <1>3
    <3> QED
      BY <1>6, <1>8, <3>1
  <2> QED
    BY <1>4, <2>1, <2>2 DEF Accounted
<1>10. Library!BudgetMet'
  BY <1>4, BudgetIs
<1> QED
  BY <1>1, <1>5, <1>6, <1>9, <1>10, NothingGoes DEF LibraryInv

LEMMA PruneDoneKeeps == ASSUME LibraryAssumption, LibraryInv, Library!PruneDone PROVE LibraryInv' /\ TakesUnselected
<1>1. /\ prune.phase = "room" /\ (prune.todo = <<>> \/ prune.total <= Budget) /\ Library!PruneDelete({})
      /\ prune' = [prune EXCEPT !.phase = "done"]
  BY Zenon DEF Library!PruneDone, Library!At
<1>2. prune \in Shape
  BY DEF LibraryInv, PruneTypes, Shape
<1>3. /\ prune' \in Shape /\ prune'.phase = "done" /\ prune'.todo = prune.todo /\ prune'.kept = prune.kept
      /\ prune'.total = prune.total /\ prune'.busy = prune.busy /\ prune'.read = prune.read
  BY <1>1, <1>2 DEF Shape
<1>4. PruneTypes'
  <2>1. /\ prune.busy \subseteq {r.name : r \in prune.read}
        /\ Library!ToSet(prune.todo) \cup Library!ToSet(prune.kept) \subseteq prune.read
    BY DEF LibraryInv, PruneTypes, Shape
  <2> QED
    BY <1>3, <2>1, ShapeTypes
<1>5. /\ RowTypes' /\ Shelves' /\ Library!RejectedIsNegative' /\ ReadIsOfRow' /\ Left' \subseteq Left
      /\ Cardinality(Left') \in Nat /\ Cardinality(Left) \in Nat /\ Cardinality(Left') <= Cardinality(Left)
  BY <1>1, <1>3, PruneDeletes
<1>6. Accounted'
  BY <1>3 DEF Accounted
<1>7. Cardinality(Left') <= Budget \/ \A r \in Left' : r.status = "training"
  <2>1. /\ \A r \in Left : r \in Library!ToSet(prune.todo) \/ r.status = "training"
        /\ Cardinality(Left) <= prune.total
    BY <1>1 DEF LibraryInv, Accounted
  <2>2. CASE prune.todo = <<>>
    <3>1. Library!ToSet(prune.todo) = {}
      BY <2>2 DEF Library!ToSet
    <3> QED
      BY <1>5, <2>1, <3>1
  <2>3. CASE prune.total <= Budget
    <3>1. prune.total \in Int /\ Budget \in Int
      BY <1>2 DEF Shape, LibraryAssumption
    <3> QED
      BY <1>5, <2>1, <2>3, <3>1
  <2> QED
    BY <1>1, <2>2, <2>3
<1>8. Library!BudgetMet'
  BY <1>7, BudgetIs
<1> QED
  BY <1>1, <1>4, <1>5, <1>6, <1>8, NothingGoes DEF LibraryInv

LEMMA PruneEndKeeps == ASSUME LibraryAssumption, LibraryInv, Library!PruneEnd PROVE LibraryInv'
<1>1. prune' = Library!NoPrune /\ UNCHANGED <<rows, images, unlinking, nextId, made, writing, reviews, strays>>
  BY DEF Library!PruneEnd, Library!PruneDelete
<1>2. Ids' = Ids /\ Library!Names(Ids)' = Library!Names(Ids) /\ Library!Names(DOMAIN rows)' = Library!Names(DOMAIN rows)
  BY <1>1 DEF Ids, Library!Names
<1>3. RowTypes'
  BY <1>1, <1>2 DEF LibraryInv, RowTypes
<1>4. Shelves' /\ Library!RejectedIsNegative'
  BY <1>1, <1>2 DEF LibraryInv, Shelves, NamesApart, Library!RowHasFile, Library!FilesTracked,
                    Library!RejectedIsNegative
<1> QED
  BY <1>1, <1>3, <1>4, NothingRead DEF LibraryInv

LEMMA LibraryOpens == LibraryAssumption /\ Library!Init => LibraryInv
<1> SUFFICES ASSUME LibraryAssumption, Library!Init PROVE LibraryInv
  OBVIOUS
<1>1. /\ rows = <<>> /\ images = {} /\ nextId = 1 /\ made = 0 /\ writing = {} /\ unlinking = {}
      /\ prune = Library!NoPrune /\ reviews = 0 /\ strays = {}
  BY DEF Library!Init
<1>2. Ids = {} /\ Library!Names(DOMAIN rows) = {}
  BY <1>1 DEF Ids, Library!Names
<1>3. RowTypes /\ Shelves /\ Library!RejectedIsNegative
  BY <1>1, <1>2 DEF RowTypes, Shelves, NamesApart, Library!RowHasFile, Library!FilesTracked,
                    Library!RejectedIsNegative, LibraryAssumption, Ids
<1>4. /\ prune.phase = "idle" /\ prune.todo = <<>> /\ prune.kept = <<>> /\ prune.busy = {} /\ prune.read = {}
  BY <1>1 DEF Library!NoPrune
<1>5. PruneTypes
  <2>1. prune \in Shape
    BY <1>1 DEF Library!NoPrune, LibraryAssumption, Shape
  <2>2. IsFiniteSet({})
    BY FS_EmptySet
  <2>3. Library!ToSet(<<>>) = {}
    BY DEF Library!ToSet
  <2> QED
    BY <1>4, <2>1, <2>2, <2>3 DEF PruneTypes, Shape
<1>6. ReadIsOfRow /\ Accounted /\ Library!BudgetMet
  BY <1>4 DEF ReadIsOfRow, Accounted, Library!BudgetMet
<1> QED
  BY <1>3, <1>5, <1>6 DEF LibraryInv

\* A step of the library, and what the clean-up's steps take away.
LEMMA LibrarySteps ==
  LibraryAssumption /\ LibraryInv /\ [Library!Next]_Library!vars =>
    /\ LibraryInv'
    /\ prune' # prune /\ prune'.phase # "idle" => TakesUnselected
<1> SUFFICES ASSUME LibraryAssumption, LibraryInv, [Library!Next]_Library!vars
             PROVE  /\ LibraryInv'
                    /\ prune' # prune /\ prune'.phase # "idle" => TakesUnselected
  OBVIOUS
<1>1. CASE Library!WriteFile \/ Library!InsertFails \/ Library!Unlink
  BY <1>1, FilesCome DEF Library!WriteFile, Library!InsertFails, Library!Unlink
<1>2. CASE Library!Insert
  BY <1>2, InsertKeeps, Zenon DEF Library!Insert
<1>3. CASE Library!UpdateReview
  BY <1>3, UpdateKeeps, Zenon DEF Library!UpdateReview, Library!Review
<1>4. CASE Library!ReviewAnnotation \/ Library!AddAnnotation \/ Library!DeleteAnnotation \/ Library!RejectUnreviewed
  <2>1. prune' = prune
    BY <1>4, Zenon DEF Library!ReviewAnnotation, Library!AddAnnotation, Library!DeleteAnnotation,
                       Library!RejectUnreviewed, Library!Review
  <2> QED
    BY <1>4, <2>1, ReviewsKeep
<1>5. CASE Library!BulkReject
  BY <1>5, BulkKeeps, Zenon DEF Library!BulkReject
<1>6. CASE Library!Delete
  BY <1>6, DeleteKeeps, Zenon DEF Library!Delete
<1>7. CASE Library!Age
  BY <1>7, RetentionPasses, Zenon DEF Library!Age
<1>8. CASE Library!Crash
  <2>1. prune' = Library!NoPrune
    BY <1>8 DEF Library!Crash
  <2>2. prune'.phase = "idle"
    BY <2>1 DEF Library!NoPrune
  <2> QED
    BY <1>8, <2>2, CrashKeeps
<1>9. CASE Library!PruneBegin
  <2>1. LibraryInv' /\ rows' = rows
    BY <1>9, PruneBegins
  <2>2. Library!Names(Ids)' = Library!Names(Ids)
    BY <2>1 DEF Library!Names, Ids
  <2> QED
    BY <2>1, <2>2 DEF TakesUnselected
<1>10. CASE Library!PruneOld \/ Library!PruneMeasure \/ Library!PruneRoom \/ Library!PruneDone
  BY <1>10, PruneOldKeeps, PruneMeasureKeeps, PruneRoomKeeps, PruneDoneKeeps
<1>11. CASE Library!PruneEnd
  <2>1. prune' = Library!NoPrune
    BY <1>11 DEF Library!PruneEnd
  <2>2. prune'.phase = "idle"
    BY <2>1 DEF Library!NoPrune
  <2> QED
    BY <1>11, <2>2, PruneEndKeeps
<1>12. CASE UNCHANGED Library!vars
  <2>1. UNCHANGED <<rows, images, nextId, made, writing, unlinking, prune, reviews, strays>>
    BY <1>12 DEF Library!vars
  <2>2. Ids' = Ids /\ \A i \in Ids : Sound(rows'[i], rows[i])
    BY <2>1, StaysSound DEF Ids
  <2>3. reviews' \in 0..MaxReviews
    BY <2>1 DEF LibraryInv, RowTypes
  <2> QED
    BY <2>1, <2>2, <2>3, RowsReviewed
<1> QED
  BY <1>1, <1>2, <1>3, <1>4, <1>5, <1>6, <1>7, <1>8, <1>9, <1>10, <1>11, <1>12, Zenon
     DEF Library!Next, Library!Prune

LEMMA LibraryTyped == LibraryInv => Library!TypeOK
<1> SUFFICES ASSUME LibraryInv PROVE Library!TypeOK
  OBVIOUS
<1>1. prune \in Shape /\ prune.busy \subseteq {r.name : r \in prune.read}
  BY DEF LibraryInv, PruneTypes, Shape
<1>2. prune.phase \in {"idle", "old", "room", "done"} /\ prune.total \in 0..MaxFiles
  BY <1>1 DEF Shape
<1> QED
  BY <1>1, <1>2 DEF LibraryInv, RowTypes, Library!TypeOK, Ids

\* For any number of files, reviews and annotations and any budget, with
\* operators and the clean-up at work together and stops anywhere: a row has
\* its image, an image without a row is on its way or was left by a stop, a
\* rejected capture shows nothing accepted, the clean-up deletes only what it
\* read as not selected, and what it leaves of it fits the budget or is all
\* selected (create, delete, update_review, bulk_review, prune).
THEOREM LibraryIsKept == ASSUME LibraryAssumption PROVE Library!Spec => Library!Kept
<1>1. Library!Init => LibraryInv
  BY LibraryOpens
<1>2. LibraryInv /\ [Library!Next]_Library!vars => LibraryInv'
  BY LibrarySteps
<1>3. LibraryInv => Library!TypeOK /\ Library!RowHasFile /\ Library!FilesTracked
                    /\ Library!RejectedIsNegative /\ Library!BudgetMet
  BY LibraryTyped DEF LibraryInv, Shelves
<1>4. LibraryInv /\ [Library!Next]_Library!vars =>
        (prune.phase \in {"old", "room"} /\ prune' # prune /\ prune'.phase # "idle"
         => Library!Names(DOMAIN rows) \ {rows'[i].name : i \in DOMAIN rows'}
              \subseteq {r.name : r \in {s \in prune.read : s.status # "training"}})
  <2>1. Library!Names(Ids)' = {rows'[i].name : i \in DOMAIN rows'} /\ Ids = DOMAIN rows
    BY DEF Library!Names, Ids
  <2>2. TakesUnselected => Library!Names(DOMAIN rows) \ {rows'[i].name : i \in DOMAIN rows'}
              \subseteq {r.name : r \in {s \in prune.read : s.status # "training"}}
    BY <2>1 DEF TakesUnselected, Unselected
  <2> QED
    BY <2>2, LibrarySteps
<1> QED
  BY <1>1, <1>2, <1>3, <1>4, PTL DEF Library!Spec, Library!Kept, Library!DeletesWhatItRead

-----------------------------------------------------------------------------
(* The evidence of the detections: what is remembered, and the images.     *)

CONSTANTS Boxes, Blank, Rearm, Repeat, Cap, MaxFails
VARIABLES lastSeen, memory, suppressed, announced, away, fails, quiet, shots

Imaging == INSTANCE Evidence WITH told <- announced

EvidenceAssumption ==
    /\ IsFiniteSet(Boxes) /\ (\A b \in Boxes : b.place \in Int) /\ "none" \notin Imaging!Classes
    /\ {Rearm, Cap, MaxFails} \subseteq Nat /\ Repeat \in Nat \ {0}

AllPlaces == {b.place : b \in Boxes}
Entries == [age : 0..Repeat, place : AllPlaces \ Blank]
Tries == [key : Imaging!Keys, age : 0..Repeat - 1, news : SUBSET AllPlaces, kept : BOOLEAN]

\* The memory is bounded, and what it would hold a box back for was tried.
Recalls(mem, tried) ==
    /\ mem \in [Imaging!Keys -> SUBSET Entries] /\ tried \subseteq Tries
    /\ \A k \in Imaging!Keys :
         /\ IsFiniteSet(mem[k]) /\ Cardinality(mem[k]) <= Cap
         /\ \A e \in mem[k] : e.age < Repeat =>
              \E s \in tried : s.key = k /\ s.age = e.age /\ e.place \in s.news

\* It holds a place once, and all that an image was taken for.
Covers(mem, tried) ==
    /\ \A s \in tried : /\ s.news # {}
                        /\ \A p \in s.news \ Blank : [age |-> s.age, place |-> p] \in mem[s.key]
    /\ \A k \in Imaging!Keys : \A e, f \in mem[k] :
         e.place = f.place /\ e.age < Repeat /\ f.age < Repeat => e = f

\* A memory with room for every place.
Roomy == Cardinality(AllPlaces \ Blank) <= Cap

LEMMA PlacesAreFinite == EvidenceAssumption => IsFiniteSet(AllPlaces) /\ AllPlaces \subseteq Int
<1> SUFFICES ASSUME EvidenceAssumption PROVE IsFiniteSet(AllPlaces) /\ AllPlaces \subseteq Int
  OBVIOUS
<1> DEFINE g == [b \in Boxes |-> b.place]
<1>1. g \in [Boxes -> AllPlaces] /\ \A p \in AllPlaces : \E b \in Boxes : g[b] = p
  BY DEF AllPlaces
<1> HIDE DEF g
<1>2. g \in Surjection(Boxes, AllPlaces)
  BY <1>1 DEF Surjection
<1>3. IsFiniteSet(AllPlaces)
  BY <1>2, FS_Surjection DEF EvidenceAssumption
<1> QED
  BY <1>3 DEF AllPlaces, EvidenceAssumption

\* The newest entries are at most Cap, and all while no more are there: each
\* has a number of its own of entries behind it.
LEMMA NewestAre ==
  ASSUME EvidenceAssumption, NEW E \in SUBSET Entries, IsFiniteSet(E)
  PROVE  /\ Imaging!Newest(E) \subseteq E /\ IsFiniteSet(Imaging!Newest(E))
         /\ Cardinality(Imaging!Newest(E)) <= Cap
         /\ Cardinality(E) <= Cap => Imaging!Newest(E) = E
<1> DEFINE After(e) == {d \in E : Imaging!Behind(d, e)}
           N == Imaging!Newest(E)
<1>1. \A S : Imaging!Cardinality(S) = Cardinality(S)
  BY DEF Imaging!Cardinality, Cardinality
<1>2. N = {e \in E : Cardinality(After(e)) < Cap}
  BY <1>1 DEF Imaging!Newest
<1>3. N \subseteq E /\ IsFiniteSet(N)
  BY <1>2, FS_Subset
<1>4. ASSUME NEW e \in E PROVE IsFiniteSet(After(e)) /\ Cardinality(After(e)) \in Nat
  <2>1. After(e) \subseteq E
    OBVIOUS
  <2> QED
    BY <2>1, FS_Subset, FS_CardinalityType
<1>5. ASSUME NEW e \in E PROVE e.age \in Int /\ e.place \in Int /\ e = [age |-> e.age, place |-> e.place]
  BY PlacesAreFinite DEF Entries, EvidenceAssumption
<1>6. ASSUME NEW e \in E PROVE e \notin After(e)
  BY <1>5 DEF Imaging!Behind
<1>7. ASSUME NEW d \in E, NEW e \in E, d # e PROVE Imaging!Behind(d, e) \/ Imaging!Behind(e, d)
  BY <1>5, <1>7 DEF Imaging!Behind
<1>8. ASSUME NEW d \in E, NEW e \in E, Imaging!Behind(d, e) PROVE Cardinality(After(d)) < Cardinality(After(e))
  <2>1. ASSUME NEW x \in E, Imaging!Behind(x, d) PROVE Imaging!Behind(x, e)
    BY <1>5, <1>8, <2>1 DEF Imaging!Behind
  <2>2. After(d) \subseteq After(e) \ {d}
    BY <1>6, <2>1
  <2>3. d \in After(e)
    BY <1>8
  <2> HIDE DEF After
  <2>4. IsFiniteSet(After(e) \ {d}) /\ Cardinality(After(e) \ {d}) = Cardinality(After(e)) - 1
    BY <1>4, <2>3, FS_RemoveElement
  <2>5. Cardinality(After(d)) <= Cardinality(After(e) \ {d})
    BY <2>2, <2>4, FS_Subset
  <2> QED
    BY <1>4, <2>4, <2>5
<1> HIDE DEF After
<1>9. Cardinality(N) <= Cap
  <2> DEFINE g == [e \in N |-> Cardinality(After(e))]
  <2>1. Cap \in Nat
    BY DEF EvidenceAssumption
  <2>2. g \in [N -> 0..Cap - 1]
    BY <1>2, <1>3, <1>4, <2>1
  <2>3. \A d, e \in N : g[d] = g[e] => d = e
    <3>1. ASSUME NEW d \in N, NEW e \in N, g[d] = g[e], d # e PROVE FALSE
      <4>1. Cardinality(After(d)) = Cardinality(After(e)) /\ d \in E /\ e \in E
        BY <1>3, <3>1
      <4>2. Cardinality(After(d)) < Cardinality(After(e)) \/ Cardinality(After(e)) < Cardinality(After(d))
        BY <1>7, <1>8, <3>1, <4>1
      <4> QED
        BY <1>4, <4>1, <4>2
    <3> QED
      BY <3>1
  <2> HIDE DEF g
  <2>4. g \in Injection(N, 0..Cap - 1)
    BY <2>2, <2>3 DEF Injection, IsInjective
  <2>5. IsFiniteSet(0..Cap - 1) /\ Cardinality(0..Cap - 1) = Cap
    BY <2>1, FS_Interval
  <2>6. Cardinality(N) <= Cardinality(0..Cap - 1)
    BY <2>4, <2>5, FS_Injection
  <2> QED
    BY <2>5, <2>6
<1>10. ASSUME Cardinality(E) <= Cap PROVE N = E
  <2>1. ASSUME NEW e \in E PROVE Cardinality(After(e)) < Cap
    <3>1. After(e) \subseteq E \ {e}
      BY <1>6 DEF After
    <3>2. IsFiniteSet(E \ {e}) /\ Cardinality(E \ {e}) = Cardinality(E) - 1
      BY FS_RemoveElement
    <3>3. Cardinality(After(e)) <= Cardinality(E \ {e})
      BY <3>1, <3>2, FS_Subset
    <3>4. Cardinality(E) \in Nat /\ Cap \in Nat
      BY FS_CardinalityType DEF EvidenceAssumption
    <3> QED
      BY <1>4, <1>10, <3>2, <3>3, <3>4
  <2> QED
    BY <1>2, <2>1
<1> QED
  BY <1>3, <1>9, <1>10

\* A memory and its images a frame later.
LEMMA AgedRecall ==
  ASSUME EvidenceAssumption, Recalls(memory, shots)
  PROVE  /\ Recalls(Imaging!AgedMemory, Imaging!AgedShots)
         /\ Covers(memory, shots) => Covers(Imaging!AgedMemory, Imaging!AgedShots)
<1> DEFINE older(e) == [e EXCEPT !.age = Imaging!Older(e.age, Repeat)]
           later(s) == [s EXCEPT !.age = s.age + 1]
           mem == Imaging!AgedMemory
           tried == Imaging!AgedShots
<1>1. Repeat \in Nat \ {0}
  BY DEF EvidenceAssumption
<1>2. ASSUME NEW k \in Imaging!Keys
      PROVE  memory[k] \subseteq Entries /\ IsFiniteSet(memory[k]) /\ Cardinality(memory[k]) <= Cap
             /\ mem[k] = {older(e) : e \in memory[k]}
  BY DEF Recalls, Imaging!AgedMemory
<1>3. ASSUME NEW e \in Entries
      PROVE  /\ older(e) \in Entries /\ older(e).place = e.place
             /\ older(e).age < Repeat => older(e).age = e.age + 1 /\ e.age < Repeat
             /\ e.age + 1 < Repeat => older(e) = [age |-> e.age + 1, place |-> e.place]
  <2>1. e.age \in 0..Repeat /\ e.place \in AllPlaces \ Blank /\ e = [age |-> e.age, place |-> e.place]
    BY DEF Entries
  <2>2. older(e) = [age |-> Imaging!Older(e.age, Repeat), place |-> e.place]
    BY <2>1
  <2>3. Imaging!Older(e.age, Repeat) \in 0..Repeat
    BY <1>1, <2>1 DEF Imaging!Older
  <2>4. /\ Imaging!Older(e.age, Repeat) < Repeat => Imaging!Older(e.age, Repeat) = e.age + 1 /\ e.age < Repeat
        /\ e.age + 1 < Repeat => Imaging!Older(e.age, Repeat) = e.age + 1
    BY <1>1, <2>1 DEF Imaging!Older
  <2> HIDE DEF older
  <2> QED
    BY <2>1, <2>2, <2>3, <2>4 DEF Entries
<1>4. ASSUME NEW s \in shots, s.age + 1 < Repeat
      PROVE  /\ later(s) \in Tries /\ later(s) \in tried
             /\ later(s).age = s.age + 1 /\ later(s).news = s.news /\ later(s).key = s.key
  <2>1. s \in Tries
    BY DEF Recalls
  <2>2. s.age \in Int /\ s.age >= 0 /\ s.age + 1 \in 0..Repeat - 1
    BY <1>1, <1>4, <2>1 DEF Tries
  <2>3. later(s) \in tried
    BY <1>4 DEF Imaging!AgedShots
  <2> QED
    BY <2>1, <2>2, <2>3 DEF Tries
<1>5. ASSUME NEW s \in tried PROVE \E t \in shots : t.age + 1 < Repeat /\ s = later(t)
  BY DEF Imaging!AgedShots
<1> HIDE DEF older, later, mem, tried
<1>6. tried \subseteq Tries
  BY <1>4, <1>5
<1>7. ASSUME NEW k \in Imaging!Keys
      PROVE  /\ mem[k] \subseteq Entries /\ IsFiniteSet(mem[k]) /\ Cardinality(mem[k]) <= Cap
             /\ \A e \in mem[k] : e.age < Repeat => \E s \in tried : s.key = k /\ s.age = e.age /\ e.place \in s.news
  <2>1. mem[k] \subseteq Entries
    BY <1>2, <1>3
  <2>2. IsFiniteSet(mem[k]) /\ Cardinality(mem[k]) <= Cardinality(memory[k])
    <3> DEFINE g == [e \in memory[k] |-> older(e)]
    <3>1. g \in [memory[k] -> mem[k]] /\ \A x \in mem[k] : \E e \in memory[k] : g[e] = x
      BY <1>2
    <3> HIDE DEF g
    <3>2. g \in Surjection(memory[k], mem[k])
      BY <3>1 DEF Surjection
    <3> QED
      BY <1>2, <3>2, FS_Surjection
  <2>3. Cardinality(memory[k]) \in Nat /\ Cardinality(mem[k]) \in Nat /\ Cap \in Nat
    BY <1>2, <2>2, FS_CardinalityType DEF EvidenceAssumption
  <2>4. ASSUME NEW x \in mem[k], x.age < Repeat
        PROVE  \E s \in tried : s.key = k /\ s.age = x.age /\ x.place \in s.news
    <3>1. PICK e \in memory[k] : x = older(e)
      BY <1>2
    <3>2. x.age = e.age + 1 /\ e.age < Repeat /\ x.place = e.place
      BY <1>2, <1>3, <2>4, <3>1
    <3>3. PICK s \in shots : s.key = k /\ s.age = e.age /\ e.place \in s.news
      BY <3>2 DEF Recalls
    <3> QED
      BY <1>4, <2>4, <3>2, <3>3
  <2> QED
    BY <1>2, <2>1, <2>2, <2>3, <2>4
<1>8. Recalls(mem, tried)
  <2>1. mem \in [Imaging!Keys -> SUBSET Entries]
    BY <1>7 DEF mem, Imaging!AgedMemory
  <2> QED
    BY <1>6, <1>7, <2>1 DEF Recalls
<1>9. ASSUME Covers(memory, shots) PROVE Covers(mem, tried)
  <2>1. ASSUME NEW s \in tried PROVE s.news # {} /\ \A p \in s.news \ Blank : [age |-> s.age, place |-> p] \in mem[s.key]
    <3>1. PICK t \in shots : t.age + 1 < Repeat /\ s = later(t)
      BY <1>5
    <3>2. s.age = t.age + 1 /\ s.news = t.news /\ s.key = t.key /\ t \in Tries
      BY <1>4, <3>1 DEF Recalls
    <3>3. ASSUME NEW p \in t.news \ Blank PROVE [age |-> t.age + 1, place |-> p] \in mem[t.key]
      <4> DEFINE e == [age |-> t.age, place |-> p]
      <4>1. e \in memory[t.key] /\ t.key \in Imaging!Keys
        BY <1>9, <3>2 DEF Covers, Tries
      <4>2. older(e) = [age |-> e.age + 1, place |-> e.place]
        <5>1. e \in Entries /\ e.age + 1 < Repeat
          BY <1>2, <3>1, <4>1
        <5> HIDE DEF e
        <5> QED
          BY <1>3, <5>1
      <4>3. older(e) \in mem[t.key]
        BY <1>2, <4>1
      <4> QED
        BY <4>2, <4>3
    <3> QED
      BY <1>9, <3>2, <3>3 DEF Covers
  <2>2. ASSUME NEW k \in Imaging!Keys, NEW x \in mem[k], NEW y \in mem[k], x.place = y.place, x.age < Repeat, y.age < Repeat
        PROVE  x = y
    <3>1. PICK e \in memory[k] : x = older(e)
      BY <1>2
    <3>2. PICK f \in memory[k] : y = older(f)
      BY <1>2
    <3>3. e.place = f.place /\ e.age < Repeat /\ f.age < Repeat
      BY <1>2, <1>3, <2>2, <3>1, <3>2
    <3>4. e = f
      BY <1>9, <3>3 DEF Covers
    <3> QED
      BY <3>1, <3>2, <3>4
  <2> QED
    BY <2>1, <2>2 DEF Covers
<1> QED
  BY <1>8, <1>9 DEF mem, tried

\* A frame held back changes nothing that is still remembered.
LEMMA HeldRecall ==
  ASSUME EvidenceAssumption, NEW mem, NEW tried, Recalls(mem, tried), NEW key \in Imaging!Keys, NEW places,
         Imaging!Holds(mem, key, places)
  PROVE  /\ Recalls(Imaging!Judge(mem, key, places), tried)
         /\ Covers(mem, tried) => Covers(Imaging!Judge(mem, key, places), tried)
<1> DEFINE now == Imaging!Judge(mem, key, places)
<1>1. places # {} /\ Imaging!Remembered(Imaging!Recent(mem[key]), places) = {e \in mem[key] : e.age < Repeat}
  BY DEF Imaging!Holds, Imaging!KeptBack, Imaging!Remembered, Imaging!Recent
<1>2. now = [mem EXCEPT ![key] = {e \in mem[key] : e.age < Repeat}]
  BY <1>1 DEF Imaging!Judge
<1>3. mem \in [Imaging!Keys -> SUBSET Entries]
  BY DEF Recalls
<1>4. ASSUME NEW k \in Imaging!Keys
      PROVE  now[k] \subseteq mem[k] /\ \A e \in mem[k] : e.age < Repeat => e \in now[k]
  BY <1>2, <1>3
<1> HIDE DEF now
<1>5. now \in [Imaging!Keys -> SUBSET Entries]
  BY <1>2, <1>3
<1>6. ASSUME NEW k \in Imaging!Keys PROVE IsFiniteSet(now[k]) /\ Cardinality(now[k]) <= Cap
  <2>1. IsFiniteSet(mem[k]) /\ Cardinality(mem[k]) <= Cap
    BY DEF Recalls
  <2>2. IsFiniteSet(now[k]) /\ Cardinality(now[k]) <= Cardinality(mem[k])
    BY <1>4, <2>1, FS_Subset
  <2> QED
    BY <2>1, <2>2, FS_CardinalityType DEF EvidenceAssumption
<1>7. Recalls(now, tried)
  BY <1>4, <1>5, <1>6 DEF Recalls
<1>8. ASSUME Covers(mem, tried) PROVE Covers(now, tried)
  <2>1. ASSUME NEW s \in tried, NEW p \in s.news \ Blank PROVE [age |-> s.age, place |-> p] \in now[s.key]
    <3>1. s.key \in Imaging!Keys /\ s.age < Repeat
      BY DEF Recalls, Tries, EvidenceAssumption
    <3>2. [age |-> s.age, place |-> p] \in mem[s.key] /\ [age |-> s.age, place |-> p].age = s.age
      BY <1>8 DEF Covers
    <3> QED
      BY <1>4, <3>1, <3>2
  <2> QED
    BY <1>4, <1>8, <2>1 DEF Covers
<1> QED
  BY <1>7, <1>8 DEF now

\* A frame that is tried: the memory takes in what it did not hold.
LEMMA TriedRecall ==
  ASSUME EvidenceAssumption, NEW mem, NEW tried, Recalls(mem, tried), NEW key \in Imaging!Keys,
         NEW places \in SUBSET AllPlaces, places # {}, NEW kept \in BOOLEAN, ~Imaging!Holds(mem, key, places)
  PROVE  LET next == Imaging!Judge(mem, key, places)
             seen == tried \cup {Imaging!Shot(mem, key, places, kept)}
         IN  Recalls(next, seen) /\ (Roomy /\ Covers(mem, tried) => Covers(next, seen))
<1> DEFINE R == {e \in mem[key] : e.age < Repeat}
           news == {p \in places : p \in Blank \/ ~\E e \in R : e.place = p}
           N == {[age |-> 0, place |-> p] : p \in news \ Blank}
           E == R \cup N
           next == Imaging!Judge(mem, key, places)
           shot == Imaging!Shot(mem, key, places, kept)
           seen == tried \cup {shot}
<1>1. /\ shot = [key |-> key, age |-> 0, news |-> news, kept |-> kept]
      /\ next = [mem EXCEPT ![key] = Imaging!Newest(E)]
      /\ R = {} \/ news # {}
  <2>1. Imaging!Recent(mem[key]) = R /\ Imaging!Novel(R, places) = news /\ Imaging!New(news \ Blank) = N
    BY DEF Imaging!Recent, Imaging!Novel, Imaging!New
  <2>2. ~Imaging!KeptBack(R, places)
    BY <2>1 DEF Imaging!Holds
  <2> HIDE DEF R, news, N
  <2>3. Imaging!Remembered(R, places) = Imaging!Newest(E)
    BY <2>1, <2>2 DEF Imaging!Remembered
  <2>4. shot = [key |-> key, age |-> 0, news |-> news, kept |-> kept]
    BY <2>1 DEF Imaging!Shot
  <2>5. next = [mem EXCEPT ![key] = Imaging!Newest(E)]
    BY <2>1, <2>3 DEF Imaging!Judge
  <2> QED
    BY <2>1, <2>2, <2>4, <2>5 DEF Imaging!KeptBack
<1>2. /\ mem \in [Imaging!Keys -> SUBSET Entries] /\ IsFiniteSet(mem[key]) /\ tried \subseteq Tries
      /\ Repeat \in Nat \ {0}
  BY DEF Recalls, EvidenceAssumption
<1>3. R \subseteq Entries /\ R \subseteq mem[key] /\ IsFiniteSet(R) /\ news \subseteq AllPlaces
  BY <1>2, FS_Subset
<1>4. R = {} => news = places
  OBVIOUS
<1>5. \A p \in news \ Blank, e \in R : e.place # p
  OBVIOUS
<1>6. \A e \in mem[key] : e.age < Repeat <=> e \in R
  BY <1>3
<1> HIDE DEF R, news
<1>7. N \subseteq Entries /\ IsFiniteSet(N) /\ (\A e \in N : e.age = 0 /\ e.place \in news \ Blank)
  <2>1. N \subseteq Entries /\ (\A e \in N : e.age = 0 /\ e.place \in news \ Blank)
    BY <1>2, <1>3 DEF Entries
  <2>2. IsFiniteSet(news \ Blank)
    BY <1>3, PlacesAreFinite, FS_Subset
  <2> DEFINE g == [p \in news \ Blank |-> [age |-> 0, place |-> p]]
  <2>3. g \in [news \ Blank -> N] /\ \A e \in N : \E p \in news \ Blank : g[p] = e
    OBVIOUS
  <2> HIDE DEF g, N
  <2>4. g \in Surjection(news \ Blank, N)
    BY <2>3 DEF Surjection
  <2> QED
    BY <2>1, <2>2, <2>4, FS_Surjection
<1>8. \A p \in news \ Blank : [age |-> 0, place |-> p] \in N
  OBVIOUS
<1>9. \A e, f \in N : e.place = f.place => e = f
  OBVIOUS
<1> HIDE DEF N
<1>10. E \in SUBSET Entries /\ IsFiniteSet(E)
  BY <1>3, <1>7, FS_Union
<1> HIDE DEF E
<1>11. /\ Imaging!Newest(E) \subseteq E /\ IsFiniteSet(Imaging!Newest(E))
       /\ Cardinality(Imaging!Newest(E)) <= Cap
       /\ Cardinality(E) <= Cap => Imaging!Newest(E) = E
  BY <1>10, NewestAre
<1>12. /\ next \in [Imaging!Keys -> SUBSET Entries] /\ next[key] = Imaging!Newest(E)
       /\ \A k \in Imaging!Keys : k # key => next[k] = mem[k]
  BY <1>1, <1>2, <1>10, <1>11
<1>13. shot \in Tries /\ shot.key = key /\ shot.age = 0 /\ shot.news = news
  BY <1>1, <1>2, <1>3 DEF Tries
<1> HIDE DEF next, shot
<1>14. Recalls(next, seen)
  <2>1. ASSUME NEW k \in Imaging!Keys
        PROVE  /\ IsFiniteSet(next[k]) /\ Cardinality(next[k]) <= Cap
               /\ \A e \in next[k] : e.age < Repeat => \E s \in seen : s.key = k /\ s.age = e.age /\ e.place \in s.news
    <3>1. CASE k # key
      BY <1>12, <3>1 DEF Recalls
    <3>2. CASE k = key
      <4>1. ASSUME NEW e \in next[key], e.age < Repeat
            PROVE  \E s \in seen : s.key = key /\ s.age = e.age /\ e.place \in s.news
        <5>1. e \in R \/ e \in N
          BY <1>11, <1>12 DEF E
        <5>2. CASE e \in R
          BY <1>3, <4>1, <5>2 DEF Recalls
        <5>3. CASE e \in N
          BY <1>7, <1>13, <5>3
        <5> QED
          BY <5>1, <5>2, <5>3
      <4> QED
        BY <1>11, <1>12, <3>2, <4>1
    <3> QED
      BY <3>1, <3>2
  <2> QED
    BY <1>2, <1>12, <1>13, <2>1 DEF Recalls
<1>15. ASSUME Roomy, Covers(mem, tried) PROVE Covers(next, seen)
  <2>1. \A e, f \in E : e.place = f.place => e = f
    <3>1. \A e, f \in R : e.place = f.place => e = f
      BY <1>3, <1>6, <1>15 DEF Covers
    <3>2. \A e \in R, f \in N : e.place # f.place
      BY <1>5, <1>7
    <3> QED
      BY <1>9, <3>1, <3>2 DEF E
  <2>2. next[key] = E
    <3>1. IsFiniteSet(AllPlaces \ Blank)
      BY PlacesAreFinite, FS_Subset
    <3> DEFINE g == [e \in E |-> e.place]
    <3>2. g \in [E -> AllPlaces \ Blank]
      BY <1>10 DEF Entries
    <3>3. \A e, f \in E : g[e] = g[f] => e = f
      BY <2>1
    <3> HIDE DEF g
    <3>4. g \in Injection(E, AllPlaces \ Blank)
      BY <3>2, <3>3 DEF Injection, IsInjective
    <3>5. Cardinality(E) <= Cardinality(AllPlaces \ Blank)
      BY <3>1, <3>4, FS_Injection
    <3>6. Cardinality(E) \in Nat /\ Cardinality(AllPlaces \ Blank) \in Nat /\ Cap \in Nat
      BY <1>10, <3>1, FS_CardinalityType DEF EvidenceAssumption
    <3> QED
      BY <1>11, <1>12, <1>15, <3>5, <3>6 DEF Roomy
  <2>3. news # {}
    BY <1>1, <1>4
  <2>4. ASSUME NEW s \in tried, NEW p \in s.news \ Blank PROVE [age |-> s.age, place |-> p] \in next[s.key]
    <3>1. s.key \in Imaging!Keys /\ s.age < Repeat /\ [age |-> s.age, place |-> p] \in mem[s.key]
          /\ [age |-> s.age, place |-> p].age = s.age
      BY <1>2, <1>15 DEF Covers, Tries
    <3>2. CASE s.key # key
      BY <1>12, <3>1, <3>2
    <3>3. CASE s.key = key
      BY <1>6, <2>2, <3>1, <3>3 DEF E
    <3> QED
      BY <3>2, <3>3
  <2>5. ASSUME NEW p \in news \ Blank PROVE [age |-> 0, place |-> p] \in next[key]
    BY <1>8, <2>2 DEF E
  <2>6. ASSUME NEW k \in Imaging!Keys, NEW e \in next[k], NEW f \in next[k],
               e.place = f.place, e.age < Repeat, f.age < Repeat
        PROVE  e = f
    <3>1. CASE k # key
      BY <1>12, <1>15, <2>6, <3>1 DEF Covers
    <3>2. CASE k = key
      BY <2>1, <2>2, <2>6, <3>2
    <3> QED
      BY <3>1, <3>2
  <2>7. ASSUME NEW s \in seen PROVE s.news # {} /\ \A p \in s.news \ Blank : [age |-> s.age, place |-> p] \in next[s.key]
    <3>1. CASE s \in tried
      BY <1>15, <2>4, <3>1 DEF Covers
    <3>2. CASE s = shot
      BY <1>13, <2>3, <2>5, <3>2
    <3> QED
      BY <3>1, <3>2
  <2> QED
    BY <2>6, <2>7 DEF Covers
<1> QED
  BY <1>14, <1>15 DEF next, shot

\* What the rescan of the motion leaves.
LEMMA RescanRecall ==
  ASSUME EvidenceAssumption, NEW mem, NEW tried, Recalls(mem, tried), suppressed \subseteq Imaging!Keys,
         NEW boxes \in SUBSET Boxes, NEW class \in Imaging!Classes \cup {"none"},
         class # "none" => Imaging!PlacesOf(boxes, class) # {}, NEW saved \in BOOLEAN
  PROVE  LET r == Imaging!Rescan(class, boxes, saved, mem, tried)
         IN  /\ Recalls(r.mem, r.shots) /\ r.held \subseteq Imaging!Keys
             /\ Roomy /\ Covers(mem, tried) => Covers(r.mem, r.shots)
<1> DEFINE key == <<"motion-rescan", class>>
           places == Imaging!PlacesOf(boxes, class)
           next == Imaging!Judge(mem, key, places)
           shot == Imaging!Shot(mem, key, places, saved)
           r == Imaging!Rescan(class, boxes, saved, mem, tried)
<1>1. CASE class = "none"
  <2>1. r = [mem |-> mem, held |-> suppressed, shots |-> tried]
    BY <1>1 DEF Imaging!Rescan
  <2> HIDE DEF r
  <2> QED
    BY <2>1 DEF r
<1>2. CASE class # "none"
  <2>1. key \in Imaging!Keys /\ places # {} /\ places \in SUBSET AllPlaces
    BY <1>2 DEF Imaging!Keys, Imaging!PlacesOf, AllPlaces
  <2>2. CASE Imaging!Holds(mem, key, places)
    <3>1. r = [mem |-> next, held |-> suppressed \cup {key}, shots |-> tried]
      BY <1>2, <2>2 DEF Imaging!Rescan
    <3>2. Recalls(next, tried) /\ (Covers(mem, tried) => Covers(next, tried))
      BY <2>1, <2>2, HeldRecall
    <3> HIDE DEF r, next, key, places
    <3>3. r.mem = next /\ r.held = suppressed \cup {key} /\ r.shots = tried
      BY <3>1
    <3>4. Recalls(r.mem, r.shots) /\ r.held \subseteq Imaging!Keys
          /\ (Roomy /\ Covers(mem, tried) => Covers(r.mem, r.shots))
      BY <2>1, <3>2, <3>3
    <3> QED
      BY <3>4 DEF r
  <2>3. CASE ~Imaging!Holds(mem, key, places)
    <3> DEFINE held == IF saved THEN suppressed \ {key} ELSE suppressed
    <3>1. r = [mem |-> next, held |-> held, shots |-> tried \cup {shot}]
      BY <1>2, <2>3 DEF Imaging!Rescan
    <3> HIDE DEF key, places
    <3>2. Recalls(next, tried \cup {shot}) /\ (Roomy /\ Covers(mem, tried) => Covers(next, tried \cup {shot}))
      BY <2>1, <2>3, TriedRecall
    <3>3. held \subseteq Imaging!Keys
      OBVIOUS
    <3> HIDE DEF r, next, shot, held
    <3>4. r.mem = next /\ r.held = held /\ r.shots = tried \cup {shot}
      BY <3>1
    <3>5. Recalls(r.mem, r.shots) /\ r.held \subseteq Imaging!Keys
          /\ (Roomy /\ Covers(mem, tried) => Covers(r.mem, r.shots))
      BY <3>2, <3>3, <3>4
    <3> QED
      BY <3>5 DEF r
  <2> QED
    BY <2>2, <2>3
<1> QED
  BY <1>1, <1>2

\* The ages are bounded and those of a class are one; the memory is what the
\* images say, and all they say when there is room.
EvidenceInv ==
  /\ lastSeen \in [Imaging!Classes -> 0..Rearm + 1] /\ away = lastSeen
  /\ suppressed \subseteq Imaging!Keys /\ fails \in 0..MaxFails
  /\ Recalls(memory, shots) /\ (Roomy => Covers(memory, shots))

LEMMA EvidenceInit == EvidenceAssumption /\ Imaging!Init => EvidenceInv
<1> SUFFICES ASSUME EvidenceAssumption, Imaging!Init PROVE EvidenceInv
  OBVIOUS
<1>1. /\ memory = [k \in Imaging!Keys |-> {}] /\ shots = {} /\ suppressed = {} /\ fails = 0
      /\ lastSeen = [c \in Imaging!Classes |-> Rearm + 1] /\ away = [c \in Imaging!Classes |-> Rearm + 1]
  BY DEF Imaging!Init
<1>2. Rearm \in Nat /\ MaxFails \in Nat /\ Cap \in Nat
  BY DEF EvidenceAssumption
<1>3. IsFiniteSet({}) /\ Cardinality({}) = 0
  BY FS_EmptySet
<1>4. Recalls(memory, shots)
  BY <1>1, <1>2, <1>3 DEF Recalls
<1>5. Covers(memory, shots)
  BY <1>1 DEF Covers
<1>6. lastSeen \in [Imaging!Classes -> 0..Rearm + 1] /\ away = lastSeen
  BY <1>1, <1>2
<1> QED
  BY <1>1, <1>2, <1>4, <1>5, <1>6 DEF EvidenceInv

\* The sightings of a result, whichever boxes count.
LEMMA SightingsStep ==
  ASSUME EvidenceAssumption, EvidenceInv, NEW seen,
         lastSeen' = Imaging!Seen(seen), announced' = Imaging!Due(seen),
         away' = [c \in Imaging!Classes |-> IF c \in seen THEN 0 ELSE Imaging!Older(away[c], Rearm + 1)]
  PROVE  /\ lastSeen' \in [Imaging!Classes -> 0..Rearm + 1] /\ away' = lastSeen'
         /\ \A c \in Imaging!Classes :
              /\ c \in announced' => Imaging!Older(away[c], Rearm + 1) > Rearm
              /\ away'[c] = 0 /\ Imaging!Older(away[c], Rearm + 1) > Rearm => c \in announced'
<1>1. Rearm \in Nat /\ away = lastSeen /\ \A c \in Imaging!Classes : lastSeen[c] \in 0..Rearm + 1
  BY DEF EvidenceInv, EvidenceAssumption
<1>2. \A c \in Imaging!Classes : Imaging!Older(lastSeen[c], Rearm + 1) \in 1..Rearm + 1
  BY <1>1 DEF Imaging!Older
<1>3. away' = lastSeen'
  BY <1>1 DEF Imaging!Seen
<1>4. lastSeen' \in [Imaging!Classes -> 0..Rearm + 1]
  BY <1>1, <1>2 DEF Imaging!Seen
<1>5. ASSUME NEW c \in Imaging!Classes, away'[c] = 0 PROVE c \in seen
  BY <1>1, <1>2, <1>5
<1> QED
  BY <1>1, <1>3, <1>4, <1>5 DEF Imaging!Due

\* The image of the best box of a result, after what the rescan left.
ImagesOf(first, best, boxes, saved, due) ==
  LET key == <<"detection", best>>
      places == Imaging!PlacesOf(boxes, best)
      held == best # "none" /\ Imaging!Holds(first.mem, key, places)
  IN  /\ memory' = IF best = "none" THEN first.mem ELSE Imaging!Judge(first.mem, key, places)
      /\ shots' = IF best = "none" \/ held THEN first.shots
                  ELSE first.shots \cup {Imaging!Shot(first.mem, key, places, saved)}
      /\ suppressed' = first.held \ {<<"detection", c>> : c \in due}
      /\ ~saved => \E s \in shots' : s.age = 0

\* Result, of its choices.
ResultOf(mem, tried, boxes, capturing, saved, found) ==
  /\ ~saved => fails < MaxFails
  /\ fails' = IF saved THEN fails ELSE fails + 1
  /\ found # "none" => Imaging!PlacesOf(boxes, found) # {}
  /\ LET seen == {b.class : b \in {x \in boxes : capturing \/ x.strong}}
         due == Imaging!Due(seen)
         first == Imaging!Rescan(found, boxes, saved, mem, tried)
     IN  /\ lastSeen' = Imaging!Seen(seen)
         /\ announced' = due
         /\ away' = [c \in Imaging!Classes |-> IF c \in seen THEN 0 ELSE Imaging!Older(away[c], Rearm + 1)]
         /\ quiet' = [c \in Imaging!Classes |-> IF c \in due THEN 0
                        ELSE IF Imaging!Older(away[c], Rearm + 1) > quiet[c] THEN Imaging!Older(away[c], Rearm + 1)
                        ELSE quiet[c]]
         /\ \E best \in IF due = {} \/ ~capturing THEN {"none"} ELSE due : ImagesOf(first, best, boxes, saved, due)

\* A result, whatever it saw, rescanned and saved.
LEMMA ResultKeeps ==
  ASSUME EvidenceAssumption, EvidenceInv, Imaging!Result
  PROVE  /\ EvidenceInv'
         /\ \A c \in Imaging!Classes :
              /\ c \in announced' => Imaging!Older(away[c], Rearm + 1) > Rearm
              /\ away'[c] = 0 /\ Imaging!Older(away[c], Rearm + 1) > Rearm => c \in announced'
<1> DEFINE mem == Imaging!AgedMemory
           tried == Imaging!AgedShots
           sights(boxes, capturing) == {b.class : b \in {x \in boxes : capturing \/ x.strong}}
<1>1. PICK m \in {mem}, a \in {tried}, boxes \in SUBSET Boxes, capturing \in BOOLEAN, saved \in BOOLEAN,
           found \in Imaging!Classes \cup {"none"} :
        ResultOf(m, a, boxes, capturing, saved, found)
  BY Zenon DEF Imaging!Result, ResultOf, ImagesOf
<1>2. m = mem /\ a = tried
  OBVIOUS
<1> DEFINE seen == sights(boxes, capturing)
           due == Imaging!Due(seen)
           first == Imaging!Rescan(found, boxes, saved, mem, tried)
<1>3. PICK best \in IF due = {} \/ ~capturing THEN {"none"} ELSE due : ImagesOf(first, best, boxes, saved, due)
  BY Zenon, <1>1, <1>2 DEF ResultOf
<1> DEFINE places == Imaging!PlacesOf(boxes, best)
           k == <<"detection", best>>
<1>4. /\ lastSeen' \in [Imaging!Classes -> 0..Rearm + 1] /\ away' = lastSeen'
      /\ \A c \in Imaging!Classes :
           /\ c \in announced' => Imaging!Older(away[c], Rearm + 1) > Rearm
           /\ away'[c] = 0 /\ Imaging!Older(away[c], Rearm + 1) > Rearm => c \in announced'
  <2> HIDE DEF seen
  <2> QED
    BY <1>1, SightingsStep DEF ResultOf, seen
<1>5. fails' \in 0..MaxFails
  BY <1>1 DEF EvidenceInv, EvidenceAssumption, ResultOf
<1>6. Recalls(memory, shots) /\ (Roomy => Covers(memory, shots)) /\ suppressed \subseteq Imaging!Keys
  BY DEF EvidenceInv
<1>7. Recalls(mem, tried) /\ (Roomy => Covers(mem, tried))
  BY <1>6, AgedRecall
<1>8. /\ Recalls(first.mem, first.shots) /\ first.held \subseteq Imaging!Keys
      /\ Roomy => Covers(first.mem, first.shots)
  <2> HIDE DEF mem, tried
  <2> QED
    BY <1>1, <1>6, <1>7, RescanRecall DEF ResultOf
<1>9. best # "none" => best \in seen /\ best \in Imaging!Classes /\ places # {} /\ places \in SUBSET AllPlaces
  BY <1>1, <1>3 DEF Imaging!Due, Imaging!Classes, Imaging!PlacesOf, AllPlaces
<1> HIDE DEF first, seen, due, mem, tried
<1>10. Recalls(memory', shots') /\ (Roomy => Covers(memory', shots'))
  <2>1. CASE best = "none"
    <3>1. memory' = first.mem /\ shots' = first.shots
      BY <1>3, <2>1 DEF ImagesOf
    <3> QED
      BY <1>8, <3>1
  <2>2. CASE best # "none" /\ Imaging!Holds(first.mem, k, places)
    <3>1. memory' = Imaging!Judge(first.mem, k, places) /\ shots' = first.shots
      BY <1>3, <2>2 DEF ImagesOf
    <3>2. k \in Imaging!Keys
      BY <1>9, <2>2 DEF Imaging!Keys
    <3> QED
      BY <1>8, <2>2, <3>1, <3>2, HeldRecall
  <2>3. CASE best # "none" /\ ~Imaging!Holds(first.mem, k, places)
    <3>1. memory' = Imaging!Judge(first.mem, k, places)
          /\ shots' = first.shots \cup {Imaging!Shot(first.mem, k, places, saved)}
      BY <1>3, <2>3 DEF ImagesOf
    <3>2. k \in Imaging!Keys
      BY <1>9, <2>3 DEF Imaging!Keys
    <3> QED
      BY <1>1, <1>8, <1>9, <2>3, <3>1, <3>2, TriedRecall
  <2> QED
    BY <2>1, <2>2, <2>3
<1>11. suppressed' \subseteq Imaging!Keys
  BY <1>8, <1>3 DEF ImagesOf
<1>12. Recalls(memory, shots)' /\ (Roomy => Covers(memory, shots)')
  BY <1>10 DEF Recalls, Covers, Tries, Entries, AllPlaces, Imaging!Keys, Imaging!Classes
<1> QED
  BY <1>4, <1>5, <1>11, <1>12 DEF EvidenceInv, Imaging!Keys, Imaging!Classes, Roomy, AllPlaces

LEMMA EvidenceStep == EvidenceAssumption /\ EvidenceInv /\ [Imaging!Next]_(Imaging!vars) => EvidenceInv'
<1> SUFFICES ASSUME EvidenceAssumption, EvidenceInv, [Imaging!Next]_(Imaging!vars) PROVE EvidenceInv'
  OBVIOUS
<1>1. CASE Imaging!Next
  BY <1>1, ResultKeeps DEF Imaging!Next
<1>2. CASE UNCHANGED Imaging!vars
  BY <1>2 DEF EvidenceInv, Imaging!vars, Imaging!Keys, Imaging!Classes, Recalls, Covers, Roomy, AllPlaces,
     Tries, Entries
<1> QED
  BY <1>1, <1>2

LEMMA EvidenceTypes == EvidenceAssumption /\ EvidenceInv => Imaging!TypeOK /\ Imaging!HeldWasTried
<1> SUFFICES ASSUME EvidenceAssumption, EvidenceInv PROVE Imaging!TypeOK /\ Imaging!HeldWasTried
  OBVIOUS
<1>1. ASSUME NEW k \in Imaging!Keys
      PROVE  /\ Imaging!Cardinality(memory[k]) <= Cap
             /\ \A e \in memory[k] : e.age \in 0..Repeat /\ e.place \notin Blank
             /\ \A e \in memory[k] : e.age < Repeat =>
                  \E s \in shots : s.key = k /\ s.age = e.age /\ e.place \in s.news
  <2>1. \A S : Imaging!Cardinality(S) = Cardinality(S)
    BY DEF Imaging!Cardinality, Cardinality
  <2>2. memory[k] \subseteq Entries /\ Cardinality(memory[k]) <= Cap
    BY DEF EvidenceInv, Recalls
  <2>3. \A e \in memory[k] : e.age \in 0..Repeat /\ e.place \notin Blank
    BY <2>2 DEF Entries
  <2>4. \A e \in memory[k] : e.age < Repeat => \E s \in shots : s.key = k /\ s.age = e.age /\ e.place \in s.news
    BY DEF EvidenceInv, Recalls
  <2> QED
    BY <2>1, <2>2, <2>3, <2>4
<1> QED
  BY <1>1 DEF EvidenceInv, Imaging!TypeOK, Imaging!HeldWasTried

\* Kept, for any boxes, any length of the memory and any of the times: the
\* memory is bounded and holds a box back only for a place an image was tried
\* of within the repeat time, and a visit of a class is one event, when it
\* comes after longer than the rearm time (Runtime._on_vision_result,
\* _suppress_repetitive_evidence).
THEOREM EvidenceIsKept ==
  ASSUME EvidenceAssumption
  PROVE  Imaging!Spec => Imaging!Kept
<1>1. Imaging!Init => EvidenceInv
  BY EvidenceInit
<1>2. EvidenceInv /\ [Imaging!Next]_(Imaging!vars) => EvidenceInv'
  BY EvidenceStep
<1>3. EvidenceInv => Imaging!TypeOK /\ Imaging!HeldWasTried
  BY EvidenceTypes
<1> DEFINE Once == \A c \in Imaging!Classes :
             /\ c \in announced' => quiet[c] > Rearm \/ Imaging!Older(away[c], Rearm + 1) > Rearm
             /\ away'[c] = 0 /\ Imaging!Older(away[c], Rearm + 1) > Rearm => c \in announced'
<1>4. EvidenceInv /\ [Imaging!Next]_(Imaging!vars) => [Once]_(Imaging!vars)
  <2> SUFFICES ASSUME EvidenceInv, Imaging!Next PROVE Once
    OBVIOUS
  <2> QED
    BY ResultKeeps DEF Imaging!Next
<1>5. Imaging!Spec => [](Imaging!TypeOK /\ Imaging!HeldWasTried) /\ [][Once]_(Imaging!vars)
  BY <1>1, <1>2, <1>3, <1>4, PTL DEF Imaging!Spec
<1> QED
  BY <1>5 DEF Imaging!Kept, Imaging!OncePerVisit

\* EachImageIsNews, while the memory has room for every place (512 of them):
\* every image is of some place, and of the same place there is one in the
\* repeat time, whatever places take turns (_suppress_repetitive_evidence).
THEOREM ImagesAreNews ==
  ASSUME EvidenceAssumption, Roomy
  PROVE  Imaging!Spec => []Imaging!EachImageIsNews
<1>1. Imaging!Init => EvidenceInv
  BY EvidenceInit
<1>2. EvidenceInv /\ [Imaging!Next]_(Imaging!vars) => EvidenceInv'
  BY EvidenceStep
<1>3. EvidenceInv => Imaging!EachImageIsNews
  <2> SUFFICES ASSUME EvidenceInv PROVE Imaging!EachImageIsNews
    OBVIOUS
  <2>1. Covers(memory, shots) /\ shots \subseteq Tries /\ Repeat \in Nat
    BY DEF EvidenceInv, Recalls, EvidenceAssumption
  <2>2. ASSUME NEW s \in shots, NEW o \in shots, o.key = s.key, o.age > s.age, NEW p \in o.news \cap s.news, p \notin Blank
        PROVE  FALSE
    <3>1. s.key \in Imaging!Keys /\ s.age < Repeat /\ o.age < Repeat
      BY <2>1 DEF Tries
    <3> DEFINE e == [age |-> s.age, place |-> p]
               f == [age |-> o.age, place |-> p]
    <3>2. e \in memory[s.key] /\ f \in memory[s.key]
      BY <2>1, <2>2 DEF Covers
    <3>3. e.place = f.place /\ e.age = s.age /\ f.age = o.age
      OBVIOUS
    <3> HIDE DEF e, f
    <3>4. e = f
      BY <2>1, <3>1, <3>2, <3>3 DEF Covers
    <3>5. s.age = o.age /\ s.age \in Int
      BY <2>1, <3>3, <3>4 DEF Tries
    <3> QED
      BY <2>2, <3>5
  <2> QED
    BY <2>1, <2>2 DEF Imaging!EachImageIsNews, Covers
<1> QED
  BY <1>1, <1>2, <1>3, PTL DEF Imaging!Spec
=============================================================================
