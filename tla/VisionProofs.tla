---------------------------- MODULE VisionProofs ----------------------------
(***************************************************************************)
(* What holds of the vision pipeline for any cameras, detectors, stall     *)
(* timeout and number of frames, sources and changes: the tracker's source *)
(* is the primary's, a healthy detector is the one that was asked for, and *)
(* one that works is kept.  And of its parts, for any frames: the moving   *)
(* regions it looks at again are rationed (SceneMotion), a track is what   *)
(* it was begun for (Tracks), and a native crop shows what it is taken of  *)
(* (Crops).                                                                *)
(***************************************************************************)
EXTENDS Vision, Integers, Sequences, FiniteSetTheorems, WellFoundedInduction, NaturalsInduction, TLAPS

\* A camera is stopped only while there is a source left to replace it.
JobInv == job.now # "none" => made < MaxGen

\* A detector that works and is not reported runs the settings, unless it is
\* being replaced.  Whether the last tick failed says nothing about it.
ReloadInv == detector.loaded /\ ~flags.reloadError /\ ~Pending => detector.model = settings.model

\* The sources whose frames the tracker remembers or is about to be handed.
Seen == tracks \cup (IF InFlight THEN {frame.gen} ELSE {})

\* Unless mixed they are one, and if the primary runs they are it: a result is
\* discarded together with the tracks, and a restart or a switch is told.
SourceInv ==
    /\ latest = None => tracks = {}
    /\ InFlight => frame # None
    /\ mixed \/ \E g \in 0..MaxGen :
         /\ Seen \subseteq {g}
         /\ Seen = {} \/ sources[settings.cam] \in {0, g}

IInv == TypeOK /\ JobInv /\ ReloadInv /\ SourceInv

----------------------------------------------------------------------------
(* The tracks.                                                             *)

\* Nothing is remembered.
LEMMA NothingSeen ==
  ASSUME latest' = None => tracks' = {}, InFlight' => frame' # None, mixed' \/ Seen' = {},
         MaxGen \in Nat
  PROVE  SourceInv'
<1>1. 0 \in 0..MaxGen
  OBVIOUS
<1> QED
  BY <1>1 DEF SourceInv

\* Nothing new is remembered.
LEMMA SourceStays ==
  ASSUME SourceInv, latest' = None => latest = None \/ tracks' = {},
         UNCHANGED <<settings, pc, mixed>>, tracks' \subseteq tracks,
         InFlight => frame' # None /\ frame'.gen = frame.gen,
         sources'[settings.cam] \in {0, sources[settings.cam]}
  PROVE  SourceInv'
<1>1. Seen' = Seen \/ Seen' \subseteq Seen
  BY DEF Seen, InFlight
<1> QED
  BY <1>1 DEF SourceInv, InFlight

\* The pipeline is told of an update, which moved the cameras or not.
Told(moved) ==
    /\ settings' \in Settings /\ flags' \in Flags /\ mixed' \in BOOLEAN
    /\ latest' \in Frames \cup {None} /\ tracks' \subseteq 1..MaxGen /\ lastSeq' \in 0..MaxSeq
    /\ UNCHANGED <<detector, loading, pc, frame>>
    /\ moved => latest' = None /\ tracks' = {} /\ (mixed' \/ ~InFlight)
    /\ ~moved => UNCHANGED <<latest, tracks>> /\ mixed' = (mixed /\ (tracks # {} \/ InFlight))
    /\ ReloadInv'

LEMMA Applied ==
  ASSUME IInv, NEW new \in Settings, NEW moved \in BOOLEAN, ApplySettings(new, moved)
  PROVE  settings' = new /\ Told(moved)
<1>1. settings' = new /\ UNCHANGED <<detector, loading, pc, frame>>
  BY DEF ApplySettings
<1>2. flags' \in Flags
  BY DEF Flags, ApplySettings, ReloadIfChanged, IInv, TypeOK
<1>3. latest' \in Frames \cup {None} /\ tracks' \subseteq 1..MaxGen /\ lastSeq' \in 0..MaxSeq
  <2>1. 0 \in 0..MaxSeq
    BY VisionAssumption
  <2>2. latest' \in {latest, None} /\ tracks' \in {tracks, {}} /\ lastSeq' \in {lastSeq, 0}
    BY DEF ApplySettings, Invalidate
  <2> QED
    BY <2>1, <2>2 DEF Flags, IInv, TypeOK
<1>4. mixed' \in BOOLEAN
  BY DEF ApplySettings
<1>5. moved => latest' = None /\ tracks' = {} /\ (mixed' \/ ~InFlight)
  BY DEF ApplySettings, Invalidate, IInv, SourceInv
<1>6. ~moved => UNCHANGED <<latest, tracks>> /\ mixed' = (mixed /\ (tracks # {} \/ InFlight))
  BY DEF ApplySettings
<1>7. ReloadInv'
  BY DEF Flags, ApplySettings, ReloadIfChanged, IInv, TypeOK, ReloadInv, Pending
<1> QED
  BY <1>1, <1>2, <1>3, <1>4, <1>5, <1>6, <1>7 DEF Told

----------------------------------------------------------------------------
(* The threads, the manager and the pipeline, one action after the other.  *)

LEMMA OpenInv ==
  ASSUME IInv, NEW c \in Cams, Open(c)
  PROVE  IInv'
<1>1. TypeOK'
  BY VisionAssumption DEF IInv, TypeOK, Open, manager, pipeline
<1>2. JobInv'
  BY DEF IInv, JobInv, Open, manager, pipeline
<1>3. ReloadInv'
  BY DEF IInv, TypeOK, ReloadInv, Pending, Open, manager, pipeline
<1>4. SourceInv'
  BY <1>1 DEF IInv, TypeOK, SourceInv, Seen, InFlight, Open, manager, pipeline
<1> QED
  BY <1>1, <1>2, <1>3, <1>4 DEF IInv

LEMMA PublishInv ==
  ASSUME IInv, NEW c \in Cams, Publish(c)
  PROVE  IInv'
<1>1. TypeOK'
  BY VisionAssumption DEF IInv, TypeOK, Publish, Running, manager, pipeline
<1>2. JobInv'
  BY DEF IInv, JobInv, Publish, manager, pipeline
<1>3. ReloadInv'
  BY DEF IInv, TypeOK, ReloadInv, Pending, Publish, manager, pipeline
<1>4. SourceInv'
  BY DEF IInv, TypeOK, SourceInv, Seen, InFlight, Publish, manager, pipeline
<1> QED
  BY <1>1, <1>2, <1>3, <1>4 DEF IInv

LEMMA ReconnectInv ==
  ASSUME IInv, NEW c \in Cams, Reconnect(c)
  PROVE  IInv'
<1>1. TypeOK'
  BY VisionAssumption DEF IInv, TypeOK, Reconnect, manager, pipeline
<1>2. JobInv'
  BY DEF IInv, JobInv, Reconnect, manager, pipeline
<1>3. ReloadInv'
  BY DEF IInv, TypeOK, ReloadInv, Pending, Reconnect, manager, pipeline
<1>4. SourceInv'
  BY DEF IInv, TypeOK, SourceInv, Seen, InFlight, Reconnect, manager, pipeline
<1> QED
  BY <1>1, <1>2, <1>3, <1>4 DEF IInv

LEMMA TimeInv ==
  ASSUME IInv, Time
  PROVE  IInv'
<1>1. TypeOK'
  BY VisionAssumption DEF IInv, TypeOK, Frames, None, Time, Older, Aged, manager
<1>2. JobInv'
  BY DEF IInv, JobInv, Time, Older, Aged, manager
<1>3. ReloadInv'
  BY DEF IInv, TypeOK, ReloadInv, Pending, Time, Older, Aged, manager
<1>4. SourceInv'
  <2>1. /\ frame # None => frame' # None /\ frame'.gen = frame.gen
        /\ latest' = None => latest = None
    BY DEF Flags, Time, Aged, IInv, TypeOK, Frames, None
  <2> QED
    BY <2>1, SourceStays DEF IInv, SourceInv, Time, manager, InFlight
<1> QED
  BY <1>1, <1>2, <1>3, <1>4 DEF IInv

LEMMA ChangeInv ==
  ASSUME IInv, Change PROVE IInv'
<1>1. PICK new \in Settings, restart \in SUBSET Cams :
        IF restart = {}
        THEN ApplySettings(new, new.cam # settings.cam) /\ UNCHANGED job
        ELSE /\ job' = [todo |-> restart, now |-> "none", new |-> new]
             /\ UNCHANGED <<pipeline, mixed>>
  BY DEF Change
<1>2. UNCHANGED camera /\ changes' = changes + 1 /\ changes' \in 0..MaxChanges /\ job = NoJob
  BY VisionAssumption DEF Flags, Change, IInv, TypeOK
<1>3. CASE restart = {}
  <2>1. ApplySettings(new, new.cam # settings.cam) /\ UNCHANGED job
    BY <1>1, <1>3
  <2> DEFINE moved == new.cam # settings.cam
  <2>2. settings' = new /\ Told(moved)
    BY <2>1, Applied
  <2>3. TypeOK' /\ JobInv'
    BY <1>2, <2>1, <2>2 DEF Told, Flags, IInv, TypeOK, JobInv, camera
  <2>4. CASE moved
    <3>1. mixed' \/ Seen' = {}
      BY <2>2, <2>4 DEF Told, Seen, InFlight
    <3> QED
      BY <2>2, <2>3, <2>4, <3>1, NothingSeen, VisionAssumption DEF Told, IInv, SourceInv, InFlight
  <2>5. CASE ~moved /\ (mixed' = mixed)
    BY <1>2, <2>2, <2>3, <2>5 DEF Told, IInv, SourceInv, Seen, InFlight, camera
  <2>6. CASE ~moved /\ tracks = {} /\ ~InFlight
    <3>1. mixed' \/ Seen' = {}
      BY <2>2, <2>6 DEF Told, Seen, InFlight
    <3> QED
      BY <2>2, <2>3, <2>6, <3>1, NothingSeen, VisionAssumption DEF Told, IInv, SourceInv, InFlight
  <2> QED
    BY <2>2, <2>3, <2>4, <2>5, <2>6 DEF Told, Flags, IInv, TypeOK
<1>4. CASE restart # {}
  <2>1. job' = [todo |-> restart, now |-> "none", new |-> new] /\ UNCHANGED <<pipeline, mixed>>
    BY <1>1, <1>4
  <2>2. TypeOK' /\ JobInv'
    BY <1>2, <2>1 DEF Flags, IInv, TypeOK, JobInv, camera, pipeline
  <2>3. ReloadInv' /\ SourceInv'
    BY <1>2, <2>1 DEF IInv, ReloadInv, Pending, SourceInv, Seen, InFlight, camera, pipeline
  <2> QED
    BY <2>2, <2>3 DEF IInv
<1> QED
  BY <1>3, <1>4
LEMMA CredentialsInv ==
  ASSUME IInv, NEW c \in Cams, Credentials(c)
  PROVE  IInv'
<1>1. TypeOK'
  BY VisionAssumption DEF IInv, TypeOK, Unset, Credentials, camera, pipeline
<1>2. JobInv'
  BY DEF IInv, JobInv, Credentials, camera, pipeline
<1>3. ReloadInv'
  BY DEF IInv, TypeOK, ReloadInv, Pending, Credentials, camera, pipeline
<1>4. SourceInv'
  BY DEF IInv, TypeOK, SourceInv, Seen, InFlight, Credentials, camera, pipeline
<1> QED
  BY <1>1, <1>2, <1>3, <1>4 DEF IInv

LEMMA StopSourceInv ==
  ASSUME IInv, NEW c \in Cams, StopSource(c)
  PROVE  IInv'
<1>1. TypeOK'
  BY VisionAssumption DEF IInv, TypeOK, StopSource, Unlist, pipeline
<1>2. JobInv'
  BY DEF IInv, JobInv, StopSource, Unlist, pipeline
<1>3. ReloadInv'
  BY DEF IInv, TypeOK, ReloadInv, Pending, StopSource, Unlist, pipeline
<1>4. SourceInv'
  BY DEF IInv, TypeOK, SourceInv, Seen, InFlight, StopSource, Unlist, pipeline
<1> QED
  BY <1>1, <1>2, <1>3, <1>4 DEF IInv

LEMMA StartSourceInv ==
  ASSUME IInv, NEW c \in Cams, StartSource(c) PROVE IInv'
<1> DEFINE left == job.todo \ {c}
<1>1. /\ job.now = c /\ made < MaxGen /\ c # "none"
      /\ made' = made + 1 /\ sources' = [sources EXCEPT ![c] = made']
      /\ thread' = [thread EXCEPT ![c] = "open"] /\ quiet' = [quiet EXCEPT ![c] = 0]
      /\ slot' = [slot EXCEPT ![c] = 0] /\ seq' = [seq EXCEPT ![c] = 0]
      /\ UNCHANGED changes
  BY VisionAssumption DEF IInv, JobInv, StartSource
<1>2. /\ made' \in 1..MaxGen
      /\ sources' \in [Cams -> 0..MaxGen] /\ thread' \in [Cams -> {"open", "read"}]
      /\ quiet' \in [Cams -> 0..Stall + 1] /\ {slot', seq'} \subseteq [Cams -> 0..MaxSeq]
      /\ \A d \in Cams : slot'[d] # 0 => sources'[d] # 0 /\ slot'[d] = seq'[d]
  BY <1>1, VisionAssumption DEF Flags, IInv, TypeOK
<1>3. CASE left # {} \/ job.new = Unset
  <2>1. /\ job' = (IF left # {} THEN [job EXCEPT !.todo = left, !.now = "none"] ELSE NoJob)
        /\ Untold(c) /\ UNCHANGED pipeline
    BY <1>3 DEF StartSource
  <2>2. /\ job' \in [todo: SUBSET Cams, now: Cams \cup {"none"}, new: Settings \cup {Unset}]
        /\ job'.now = "none"
    BY <2>1 DEF Flags, IInv, TypeOK, NoJob
  <2>3. TypeOK' /\ JobInv'
    BY <1>1, <1>2, <2>1, <2>2 DEF Flags, IInv, TypeOK, JobInv, Untold, pipeline
  <2>4. ReloadInv'
    BY <2>1 DEF IInv, ReloadInv, Pending, pipeline
  <2>5. SourceInv'
    BY <1>1, <2>1 DEF Flags, IInv, TypeOK, SourceInv, Seen, InFlight, Untold, pipeline, Settings
  <2> QED
    BY <2>3, <2>4, <2>5 DEF IInv
<1>4. CASE left = {} /\ job.new # Unset
  <2>1. job' = NoJob /\ ApplySettings(job.new, TRUE)
    BY <1>4 DEF StartSource
  <2>2. job.new \in Settings
    BY <1>4 DEF Flags, IInv, TypeOK
  <2>3. Told(TRUE)
    BY <2>1, <2>2, Applied
  <2>4. /\ job' \in [todo: SUBSET Cams, now: Cams \cup {"none"}, new: Settings \cup {Unset}]
        /\ job'.now = "none"
    BY <2>1 DEF NoJob
  <2>5. TypeOK' /\ JobInv'
    BY <1>1, <1>2, <2>3, <2>4 DEF Told, Flags, IInv, TypeOK, JobInv
  <2>6. mixed' \/ Seen' = {}
    BY <2>3 DEF Told, Seen, InFlight
  <2>7. SourceInv'
    BY <2>3, <2>6, NothingSeen, VisionAssumption DEF Told, IInv, SourceInv, InFlight
  <2> QED
    BY <2>3, <2>5, <2>7 DEF Told, IInv
<1> QED
  BY <1>3, <1>4
LEMMA BeginInv ==
  ASSUME IInv, Begin PROVE IInv'
<1>1. /\ pc = "tick" /\ ~InFlight
      /\ UNCHANGED <<camera, manager, settings, frame, lastSeq, detector>>
      /\ mixed' = (mixed /\ (tracks' # {} \/ InFlight'))
  BY DEF Begin, Remembered, InFlight
<1>2. /\ pc' \in {"tick", "load", "pick"} /\ loading' \in Models \cup {0}
      /\ latest' \in {latest, None} /\ tracks' \in {tracks, {}}
      /\ latest' = None => tracks' = {}
      /\ flags' \in Flags
  <2>1. settings.model \in Models
    BY DEF Flags, IInv, TypeOK, Settings
  <2>2. pc' \in {"tick", "load", "pick"} /\ loading' \in Models \cup {0}
    BY <1>1, <2>1 DEF Flags, Begin, Goto, IInv, TypeOK
  <2>3. latest' \in {latest, None} /\ tracks' \in {tracks, {}} /\ (latest' = None => tracks' = {})
    BY DEF Begin, Invalidate, IInv, SourceInv
  <2>4. flags' \in Flags
    <3>1. flags' \in {flags, [flags EXCEPT !.reload = FALSE]}
      BY DEF Begin
    <3>2. flags \in Flags
      BY DEF Flags, IInv, TypeOK
    <3> QED
      BY <3>1, <3>2 DEF Flags
  <2> QED
    BY <2>2, <2>3, <2>4
<1>3. TypeOK' /\ JobInv'
  BY <1>1, <1>2 DEF Flags, IInv, TypeOK, JobInv, camera, manager
<1>4. ReloadInv'
  BY <1>1 DEF Flags, Begin, Goto, IInv, TypeOK, ReloadInv, Pending
<1>5. SourceInv'
  <2>1. ~InFlight' /\ Seen' = tracks' /\ Seen = tracks
    BY <1>1, <1>2 DEF InFlight, Seen
  <2>2. CASE tracks' = {}
    BY <1>2, <2>1, <2>2, NothingSeen, VisionAssumption
  <2>3. CASE tracks' = tracks /\ mixed' = mixed
    BY <1>1, <1>2, <2>1, <2>3 DEF IInv, SourceInv, camera
  <2> QED
    BY <1>1, <1>2, <2>1, <2>2, <2>3 DEF Flags, IInv, TypeOK
<1> QED
  BY <1>3, <1>4, <1>5 DEF IInv

LEMMA LoadEndsInv ==
  ASSUME IInv, LoadEnds PROVE IInv'
<1>1. /\ pc = "load" /\ pc' = "pick" /\ loading' = 0 /\ (Loaded \/ LoadFailed)
      /\ UNCHANGED <<camera, manager, settings, frame, lastSeq, latest, tracks, mixed>>
  BY DEF LoadEnds, Goto
<1>2. /\ flags' \in Flags
      /\ detector' \in [model: Models \cup {0}, loaded: BOOLEAN]
  <2>1. flags' \in {[flags EXCEPT !.reload = TRUE], [flags EXCEPT !.reloadError = TRUE],
                    [flags EXCEPT !.error = FALSE, !.reloadError = FALSE],
                    [flags EXCEPT !.reloadError = TRUE, !.error = TRUE]}
    BY <1>1 DEF Loaded, LoadFailed
  <2>2. detector' \in {detector, [model |-> loading, loaded |-> TRUE],
                       [model |-> loading, loaded |-> FALSE]}
    BY <1>1 DEF Loaded, LoadFailed
  <2>3. flags' \in Flags
    <3>1. flags \in Flags
      BY DEF Flags, IInv, TypeOK
    <3> QED
      BY <2>1, <3>1 DEF Flags
  <2>4. detector' \in [model: Models \cup {0}, loaded: BOOLEAN]
    <3>1. detector \in [model: Models \cup {0}, loaded: BOOLEAN] /\ loading \in Models \cup {0}
      BY DEF Flags, IInv, TypeOK
    <3>2. \A b \in BOOLEAN :
            [model |-> loading, loaded |-> b] \in [model: Models \cup {0}, loaded: BOOLEAN]
      BY <3>1
    <3> QED
      BY <2>2, <3>1, <3>2
  <2> QED
    BY <2>3, <2>4
<1>3. TypeOK' /\ JobInv'
  BY <1>1, <1>2 DEF Flags, IInv, TypeOK, JobInv, camera, manager
<1>4. ReloadInv'
  BY <1>1 DEF Flags, Loaded, LoadFailed, IInv, TypeOK, ReloadInv, Pending
<1>5. SourceInv'
  BY <1>1 DEF IInv, SourceInv, Seen, InFlight, camera
<1> QED
  BY <1>3, <1>4, <1>5 DEF IInv

LEMMA PickInv ==
  ASSUME IInv, Pick PROVE IInv'
<1> DEFINE c == settings.cam
<1>1. /\ pc = "pick" /\ ~InFlight /\ c \in Cams
      /\ UNCHANGED <<camera, manager, settings, detector, loading, flags>>
      /\ mixed' = (mixed /\ (tracks' # {} \/ InFlight'))
  BY DEF Flags, Pick, Remembered, InFlight, IInv, TypeOK, Settings
<1>2. CASE /\ detector.loaded /\ slot[c] \notin {0, lastSeq}
           /\ frame' = [cam |-> c, gen |-> sources[c], seq |-> slot[c], age |-> quiet[c]]
           /\ lastSeq' = slot[c] /\ Goto("infer") /\ UNCHANGED <<latest, tracks>>
  <2>1. slot[c] \in 1..MaxSeq /\ sources[c] \in 1..MaxGen /\ quiet[c] \in 0..Stall + 1
    BY <1>1, <1>2, VisionAssumption DEF Flags, IInv, TypeOK
  <2>2. frame' \in Frames /\ frame' # None /\ frame'.gen = sources[c]
    BY <1>1, <1>2, <2>1 DEF Frames, None
  <2>3. TypeOK' /\ JobInv'
    BY <1>1, <1>2, <2>1, <2>2 DEF Flags, IInv, TypeOK, JobInv, Goto, camera, manager
  <2>4. ReloadInv'
    BY <1>1, <1>2 DEF IInv, ReloadInv, Pending, Goto
  <2>5. InFlight' /\ mixed' = mixed /\ Seen = tracks /\ Seen' = tracks \cup {sources[c]}
    BY <1>1, <1>2, <2>2 DEF Flags, InFlight, Seen, Goto, IInv, TypeOK
  <2>6. SourceInv'
    <3>1. CASE mixed
      BY <1>1, <1>2, <2>2, <2>5, <3>1 DEF IInv, SourceInv
    <3>2. CASE ~mixed
      <4>1. PICK g \in 0..MaxGen : tracks \subseteq {g} /\ (tracks = {} \/ sources[c] \in {0, g})
        BY <2>5, <3>2 DEF IInv, SourceInv
      <4>2. Seen' \subseteq {sources[c]} /\ sources[c] \in 0..MaxGen
        <5>1. tracks = {} \/ sources[c] = g
          BY <2>1, <4>1
        <5>2. Seen' \subseteq {sources[c]}
          BY <2>5, <4>1, <5>1
        <5> QED
          BY <2>1, <5>2, VisionAssumption
      <4>3. sources'[settings'.cam] = sources[c]
        BY <1>1 DEF camera
      <4> QED
        BY <1>1, <1>2, <2>2, <4>2, <4>3 DEF IInv, SourceInv
    <3> QED
      BY <3>1, <3>2
  <2> QED
    BY <2>3, <2>4, <2>6 DEF IInv
<1>3. CASE Goto("tick") /\ UNCHANGED <<frame, lastSeq>> /\ (Invalidate \/ NothingNew)
  <2>1. /\ latest' \in {latest, None} /\ tracks' \in {tracks, {}}
        /\ latest' = None => tracks' = {}
    BY <1>3 DEF Invalidate, NothingNew, IInv, SourceInv
  <2>2. TypeOK' /\ JobInv'
    BY <1>1, <1>3, <2>1 DEF Flags, IInv, TypeOK, JobInv, Goto, camera, manager
  <2>3. ReloadInv'
    BY <1>1, <1>3 DEF IInv, ReloadInv, Pending, Goto
  <2>4. ~InFlight' /\ Seen' = tracks' /\ Seen = tracks
    BY <1>1, <1>3 DEF InFlight, Seen, Goto
  <2>5. SourceInv'
    <3>1. CASE tracks' = {}
      BY <2>1, <2>4, <3>1, NothingSeen, VisionAssumption
    <3>2. CASE tracks' = tracks /\ mixed' = mixed
      BY <1>1, <2>1, <2>4, <3>2 DEF IInv, SourceInv, camera
    <3> QED
      BY <1>1, <2>1, <2>4, <3>1, <3>2 DEF Flags, IInv, TypeOK
  <2> QED
    BY <2>2, <2>3, <2>5 DEF IInv
<1> QED
  BY <1>2, <1>3 DEF Pick

LEMMA InferInv ==
  ASSUME IInv, Infer PROVE IInv'
<1>1. /\ pc = "infer" /\ InFlight
      /\ UNCHANGED <<camera, manager, settings, detector, loading, lastSeq>>
      /\ mixed' = (mixed /\ (tracks' # {} \/ InFlight'))
  BY DEF Infer, Remembered, InFlight
<1>2. CASE Goto("track") /\ UNCHANGED <<flags, frame, latest, tracks>>
  <2>1. TypeOK' /\ JobInv' /\ ReloadInv'
    BY <1>1, <1>2 DEF Flags, IInv, TypeOK, JobInv, ReloadInv, Pending, Goto, camera, manager
  <2>2. InFlight' /\ Seen' = Seen /\ mixed' = mixed
    BY <1>1, <1>2 DEF Flags, InFlight, Seen, Goto, IInv, TypeOK
  <2>3. SourceInv'
    BY <1>1, <1>2, <2>2 DEF IInv, SourceInv, camera
  <2> QED
    BY <2>1, <2>3 DEF IInv
<1>3. CASE /\ Invalidate /\ flags' = [flags EXCEPT !.error = TRUE]
           /\ frame' = None /\ Goto("tick")
  <2>1. latest' = None /\ tracks' = {} /\ ~InFlight' /\ Seen' = {}
    BY <1>3 DEF Invalidate, IInv, SourceInv, InFlight, Seen, Goto
  <2>2. TypeOK' /\ JobInv' /\ ReloadInv'
    BY <1>1, <1>3, <2>1 DEF Flags, IInv, TypeOK, JobInv, ReloadInv, Pending, Goto, camera, manager
  <2>3. SourceInv'
    BY <2>1, NothingSeen, VisionAssumption
  <2> QED
    BY <2>2, <2>3 DEF IInv
<1> QED
  BY <1>2, <1>3 DEF Infer

LEMMA TrackInv ==
  ASSUME IInv, Track
  PROVE  IInv'
<1>1. TypeOK'
  <2>1. frame \in Frames
    BY DEF Track, IInv, TypeOK, SourceInv, InFlight
  <2>2. flags' \in Flags /\ tracks' \subseteq 1..MaxGen
    BY <2>1 DEF Track, IInv, TypeOK, Flags, Frames
  <2> QED
    BY <2>1, <2>2 DEF Track, Goto, IInv, TypeOK, camera, manager
<1>2. JobInv'
  BY DEF IInv, JobInv, Track, camera, manager
<1>3. ReloadInv'
  BY DEF IInv, TypeOK, Flags, ReloadInv, Pending, Track, Goto, camera, manager
<1>4. SourceInv'
  <2>1. frame # None /\ InFlight /\ ~InFlight' /\ latest' # None
    BY DEF Track, Goto, IInv, SourceInv, InFlight
  <2>2. Seen' = Seen
    BY <2>1 DEF Track, Seen
  <2> QED
    BY <2>1, <2>2 DEF IInv, SourceInv, Track, camera
<1> QED
  BY <1>1, <1>2, <1>3, <1>4 DEF IInv

LEMMA ListenInv ==
  ASSUME IInv, Listen
  PROVE  IInv'
<1>1. TypeOK'
  BY VisionAssumption DEF IInv, TypeOK, Listen, Goto, camera, manager
<1>2. JobInv'
  BY DEF IInv, JobInv, Listen, camera, manager
<1>3. ReloadInv'
  BY DEF IInv, TypeOK, ReloadInv, Pending, Listen, Goto, camera, manager
<1>4. SourceInv'
  BY DEF IInv, TypeOK, SourceInv, Seen, InFlight, Listen, Goto, camera, manager
<1> QED
  BY <1>1, <1>2, <1>3, <1>4 DEF IInv

----------------------------------------------------------------------------
(* The invariant of the specification.                                     *)

LEMMA InitInv == Init => IInv
<1> SUFFICES ASSUME Init PROVE IInv
  OBVIOUS
<1>1. made \in 0..MaxGen /\ made = Cardinality(Cams)
  BY VisionAssumption, FS_CardinalityType DEF Init
<1>2. sources \in [Cams -> 0..MaxGen]
  <2>1. sources \in [Cams -> 1..made]
    BY DEF Init
  <2>2. 1..made \subseteq 0..MaxGen
    BY <1>1, VisionAssumption
  <2> QED
    BY <2>1, <2>2
<1>3. TypeOK
  <2>1. /\ thread \in [Cams -> {"open", "read"}] /\ quiet \in [Cams -> 0..Stall + 1]
        /\ {slot, seq} \subseteq [Cams -> 0..MaxSeq] /\ \A c \in Cams : slot[c] = 0
        /\ changes \in 0..MaxChanges
    BY VisionAssumption DEF Init
  <2>2. job \in [todo: SUBSET Cams, now: Cams \cup {"none"}, new: Settings \cup {Unset}]
    BY DEF Init, NoJob
  <2>3. /\ 0 \in 0..MaxSeq /\ settings \in Settings /\ loading = 0 /\ pc = "tick"
        /\ lastSeq = 0 /\ tracks = {} /\ mixed = FALSE /\ frame = None /\ latest = None
    BY VisionAssumption DEF Init
  <2>4. detector \in [model: Models \cup {0}, loaded: BOOLEAN]
    BY DEF Init
  <2>5. flags \in Flags
    BY DEF Init, Flags
  <2> QED
    BY <1>1, <1>2, <2>1, <2>2, <2>3, <2>4, <2>5 DEF Flags, TypeOK
<1>4. JobInv /\ ReloadInv
  BY DEF Init, JobInv, NoJob, ReloadInv
<1>5. SourceInv
  <2>1. Seen = {} /\ ~InFlight /\ 0 \in 0..MaxGen
    BY VisionAssumption DEF Init, Seen, InFlight
  <2> QED
    BY <2>1 DEF Init, SourceInv
<1> QED
  BY <1>3, <1>4, <1>5 DEF IInv

LEMMA NextInv == IInv /\ [Next]_vars => IInv'
<1> SUFFICES ASSUME IInv, [Next]_vars PROVE IInv'
  OBVIOUS
<1>1. CASE UNCHANGED vars
  <2>1. TypeOK' /\ JobInv' /\ ReloadInv'
    BY <1>1 DEF Flags, IInv, TypeOK, JobInv, ReloadInv, Pending, vars, camera, manager, pipeline
  <2>2. SourceInv'
    BY <1>1 DEF IInv, SourceInv, Seen, InFlight, vars, camera, manager, pipeline
  <2> QED
    BY <2>1, <2>2 DEF IInv
<1>2. CASE Tick
  BY <1>2, BeginInv, LoadEndsInv, PickInv, InferInv, TrackInv, ListenInv DEF Tick
<1>3. CASE Manage
  BY <1>3, ChangeInv, CredentialsInv, StopSourceInv, StartSourceInv DEF Manage
<1>4. CASE Time
  BY <1>4, TimeInv
<1>5. CASE \E c \in Cams : Open(c) \/ Publish(c) \/ Reconnect(c)
  BY <1>5, OpenInv, PublishInv, ReconnectInv
<1> QED
  BY <1>1, <1>2, <1>3, <1>4, <1>5 DEF Next

\* What was loaded, tracked and reported stays of the sources and the settings
\* that hold, however ticks, restarts and updates overlap.
THEOREM Invariant == Spec => []IInv
  BY InitInv, NextInv, PTL DEF Spec

\* What is shown as healthy runs the detector settings it was given last,
\* whatever was loading when they changed.
THEOREM HealthyRunsSettings == Spec => []HealthyIsCurrent
<1>1. IInv => HealthyIsCurrent
  BY DEF IInv, ReloadInv, HealthyIsCurrent, Healthy
<1> QED
  BY <1>1, Invariant, PTL

\* The tracker remembers one source, but for what the property names.
THEOREM TracksOneSource == Spec => []OneSourceTracked
<1>1. ASSUME IInv, ~mixed PROVE ~(Cardinality(tracks) > 1)
  <2>1. PICK g \in 0..MaxGen : tracks \subseteq {g}
    BY <1>1 DEF IInv, SourceInv, Seen
  <2>2. IsFiniteSet({g}) /\ Cardinality({g}) = 1
    BY FS_Singleton
  <2>3. Cardinality(tracks) <= 1 /\ Cardinality(tracks) \in Nat
    BY <2>1, <2>2, FS_Subset, FS_CardinalityType
  <2> QED
    BY <2>3
<1>2. IInv => OneSourceTracked
  BY <1>1 DEF IInv, OneSourceTracked
<1> QED
  BY <1>2, Invariant, PTL

\* Once a detector has loaded there is always one that works: a load that
\* fails, or is outdated when it ends, takes the place of nothing.
THEOREM WorkingDetectorStays == Spec => WorkingDetectorKept
<1>1. ASSUME IInv, [Next]_vars, detector.loaded PROVE detector'.loaded
  <2>1. CASE UNCHANGED detector
    BY <1>1, <2>1
  <2>2. CASE LoadEnds
    BY <1>1, <2>2 DEF LoadEnds, Loaded, LoadFailed
  <2>3. CASE Tick /\ ~LoadEnds
    <3>1. Begin => UNCHANGED detector
      BY DEF Begin
    <3>2. Pick \/ Infer \/ Track \/ Listen => UNCHANGED detector
      BY DEF Pick, Infer, Track, Listen
    <3> QED
      BY <2>1, <2>3, <3>1, <3>2 DEF Tick
  <2>4. CASE Manage
    <3>1. Change => UNCHANGED detector
      BY DEF Change, ApplySettings, pipeline
    <3>2. \A c \in Cams : Credentials(c) \/ StopSource(c) => UNCHANGED detector
      BY DEF Credentials, StopSource, pipeline
    <3>3. \A c \in Cams : StartSource(c) => UNCHANGED detector
      BY DEF StartSource, ApplySettings, pipeline
    <3> QED
      BY <2>1, <2>4, <3>1, <3>2, <3>3 DEF Manage
  <2>5. CASE Time \/ \E c \in Cams : Open(c) \/ Publish(c) \/ Reconnect(c)
    BY <2>1, <2>5 DEF Time, Open, Publish, Reconnect, pipeline
  <2> QED
    BY <1>1, <2>1, <2>2, <2>3, <2>4, <2>5 DEF Next, vars, pipeline
<1>2. IInv /\ [Next]_vars => (detector.loaded => detector'.loaded)
  BY <1>1
<1>3. Spec => [][detector.loaded => detector'.loaded]_vars
  BY <1>2, Invariant, PTL DEF Spec
<1> QED
  BY <1>3 DEF WorkingDetectorKept

-----------------------------------------------------------------------------
(* The moving regions that are looked at again.                            *)

CONSTANTS Places, Rearm, Interval, Warmup, Persistence, MaxRescans, MaxRegions, MaxEvents
VARIABLES started, events, nextEvent, phase, regions, failed, object

Scene == INSTANCE SceneMotion

SceneAssumption ==
    /\ IsFiniteSet(Places) /\ Places \subseteq Nat \ {0}
    /\ {Rearm, Interval, Warmup, MaxRescans, MaxRegions, MaxEvents} \subseteq Nat
    /\ Persistence \in Nat \ {0}

EventTypes ==
    /\ nextEvent \in 1..MaxEvents + 1 /\ DOMAIN events \subseteq 1..nextEvent - 1
    /\ events \in [DOMAIN events -> Scene!Event]

TickTypes ==
    /\ started \in -1..Warmup /\ phase \in {"idle", "mask", "assign", "claim"} /\ failed \in BOOLEAN

RegionTypes ==
    /\ DOMAIN regions \subseteq Places /\ Cardinality(DOMAIN regions) <= MaxRegions
    /\ \A p \in DOMAIN regions : regions[p] \in 0..MaxEvents

Objects == [single: BOOLEAN, at: Places \cup {0}, quiet: 0..Rearm + 1,
            rescans: 0..MaxRescans + 1, since: -1..Interval]

\* No event was seen after the object, and the object is not looked at beyond
\* its budget.
ObjectInv ==
    /\ object \in Objects
    /\ object.at = 0 => DOMAIN events = {}
    /\ \A e \in DOMAIN events : events[e].quiet >= object.quiet
    /\ object.single => object.rescans <= MaxRescans

\* The event of the single object, the only one that has not expired.
Its(e) ==
    /\ events[e].place = object.at /\ events[e].quiet = object.quiet
    /\ events[e].rescans = object.rescans /\ events[e].since = object.since
    /\ \A d \in DOMAIN events : d # e => events[d].quiet > Rearm

EventInv ==
    object.single /\ object.at # 0 /\ object.quiet <= Rearm => \E e \in DOMAIN events : Its(e)

\* What may be looked at again was seen in this frame, after the warm-up or,
\* after a reset within the update, for the first time.
LearntInv ==
    /\ phase \in {"mask", "assign"} /\ started = -1 => DOMAIN events = {}
    /\ phase = "assign" => started = -1 \/ started >= Warmup
    /\ phase = "claim" =>
         \A p \in DOMAIN regions : regions[p] \in DOMAIN events =>
           /\ events[regions[p]].quiet = 0
           /\ started >= Warmup \/ (started = -1 /\ events[regions[p]].frames = 1)

SceneInv == EventTypes /\ TickTypes /\ RegionTypes /\ ObjectInv /\ EventInv /\ LearntInv

\* Time passes up to a bound.
LEMMA UpToIs ==
  ASSUME NEW b \in Nat, NEW t \in 0..b
  PROVE  Scene!UpTo(b, t) = IF t + 1 <= b THEN t + 1 ELSE b
<1> DEFINE S == {b, t + 1}
           m == IF t + 1 <= b THEN t + 1 ELSE b
<1>1. m \in S /\ \A w \in S : m <= w
  OBVIOUS
<1>2. \A v \in S : (\A w \in S : v <= w) => v = m
  OBVIOUS
<1> HIDE DEF m
<1>3. (CHOOSE v \in S : \A w \in S : v <= w) = m
  BY <1>1, <1>2
<1>4. Scene!UpTo(b, t) = m
  BY <1>3, Zenon DEF Scene!UpTo, Scene!Min
<1> QED
  BY <1>4 DEF m

LEMMA ElapsedIs ==
  ASSUME NEW b \in Nat, NEW t \in -1..b
  PROVE  /\ Scene!Elapsed(b, t) \in -1..b
         /\ Scene!Elapsed(b, t) = IF t = -1 THEN -1 ELSE IF t + 1 <= b THEN t + 1 ELSE b
<1>1. t # -1 => Scene!UpTo(b, t) = IF t + 1 <= b THEN t + 1 ELSE b
  BY UpToIs
<1> QED
  BY <1>1 DEF Scene!Elapsed, Scene!Never

LEMMA TimeRations ==
  ASSUME SceneAssumption, SceneInv, Scene!Time
  PROVE  SceneInv'
<1> DEFINE later(bound, t) == IF t + 1 <= bound THEN t + 1 ELSE bound
           older(bound, t) == IF t = -1 THEN -1 ELSE later(bound, t)
<1>1. /\ Rearm \in Nat /\ Rearm + 1 \in Nat /\ Interval \in Nat /\ Warmup \in Nat
  BY DEF SceneAssumption
<1>2. /\ phase = "idle" /\ UNCHANGED <<nextEvent, phase, regions, failed>>
      /\ started' = Scene!Elapsed(Warmup, started)
      /\ DOMAIN events' = DOMAIN events
      /\ \A e \in DOMAIN events :
           events'[e] = [events[e] EXCEPT !.quiet = Scene!UpTo(Rearm + 1, @),
                                          !.since = Scene!Elapsed(Interval, @)]
      /\ events' = [e \in DOMAIN events |-> events'[e]]
      /\ object' = [object EXCEPT !.quiet = Scene!UpTo(Rearm + 1, @),
                                  !.since = Scene!Elapsed(Interval, @)]
  BY Zenon DEF Scene!Time
<1>3. \A e \in DOMAIN events :
        /\ events[e] \in Scene!Event /\ events[e].quiet \in 0..Rearm + 1
        /\ events[e].since \in -1..Interval
  BY DEF SceneInv, EventTypes, Scene!Event, Scene!Never
<1>4. /\ object \in Objects /\ object.quiet \in 0..Rearm + 1 /\ object.since \in -1..Interval
  BY DEF SceneInv, ObjectInv, Objects
<1>5. ASSUME NEW e \in DOMAIN events
      PROVE  /\ events'[e] \in Scene!Event
             /\ events'[e].place = events[e].place /\ events'[e].rescans = events[e].rescans
             /\ events'[e].quiet = later(Rearm + 1, events[e].quiet)
             /\ events'[e].since = older(Interval, events[e].since)
  <2> DEFINE q == Scene!UpTo(Rearm + 1, events[e].quiet)
             t == Scene!Elapsed(Interval, events[e].since)
             w == [events[e] EXCEPT !.quiet = q, !.since = t]
  <2>1. q = later(Rearm + 1, events[e].quiet) /\ q \in 0..Rearm + 1
    BY <1>1, <1>3, UpToIs
  <2>2. t = older(Interval, events[e].since) /\ t \in -1..Interval
    BY <1>1, <1>3, ElapsedIs
  <2>3. events'[e] = w
    BY <1>2, Zenon
  <2>4. events[e] \in Scene!Event
    BY <1>3
  <2> HIDE DEF q, t
  <2>a. w = [events[e] EXCEPT !.quiet = q, !.since = t]
    OBVIOUS
  <2> HIDE DEF w
  <2>5. /\ w = [place |-> events[e].place, quiet |-> q, frames |-> events[e].frames,
                rescans |-> events[e].rescans, since |-> t]
        /\ w.place = events[e].place /\ w.quiet = q
        /\ w.rescans = events[e].rescans /\ w.since = t
    BY <2>4, <2>a DEF Scene!Event
  <2>6. w \in Scene!Event
    BY <2>1, <2>2, <2>4, <2>5 DEF Scene!Event, Scene!Never
  <2> HIDE DEF later, older
  <2> QED
    BY <2>1, <2>2, <2>3, <2>5, <2>6, Zenon
<1>6. /\ object' \in Objects
      /\ object'.at = object.at /\ object'.single = object.single
      /\ object'.rescans = object.rescans
      /\ object'.quiet = later(Rearm + 1, object.quiet)
      /\ object'.since = older(Interval, object.since)
  <2> DEFINE q == Scene!UpTo(Rearm + 1, object.quiet)
             t == Scene!Elapsed(Interval, object.since)
             w == [object EXCEPT !.quiet = q, !.since = t]
  <2>1. q = later(Rearm + 1, object.quiet) /\ q \in 0..Rearm + 1
    BY <1>1, <1>4, UpToIs
  <2>2. t = older(Interval, object.since) /\ t \in -1..Interval
    BY <1>1, <1>4, ElapsedIs
  <2>3. object' = w
    BY <1>2, Zenon
  <2> HIDE DEF q, t
  <2>a. w = [object EXCEPT !.quiet = q, !.since = t]
    OBVIOUS
  <2> HIDE DEF w
  <2>4. /\ w = [single |-> object.single, at |-> object.at, quiet |-> q,
                rescans |-> object.rescans, since |-> t]
        /\ w.single = object.single /\ w.at = object.at /\ w.quiet = q
        /\ w.rescans = object.rescans /\ w.since = t
    BY <1>4, <2>a DEF Objects
  <2>5. w \in Objects
    BY <1>4, <2>1, <2>2, <2>4 DEF Objects
  <2> HIDE DEF later, older
  <2> QED
    BY <2>1, <2>2, <2>3, <2>4, <2>5, Zenon
<1>7. EventTypes'
  <2>1. events' \in [DOMAIN events -> Scene!Event]
    <3>1. events' = [e \in DOMAIN events |-> events'[e]]
      BY <1>2, Zenon
    <3>2. \A e \in DOMAIN events : events'[e] \in Scene!Event
      BY <1>5, Zenon
    <3> QED
      BY <3>1, <3>2
  <2>2. nextEvent' = nextEvent /\ DOMAIN events' = DOMAIN events
    BY <1>2, Zenon
  <2> QED
    BY <2>1, <2>2 DEF SceneInv, EventTypes
<1>8. TickTypes'
  <2>1. started' \in -1..Warmup
    <3>1. started' = Scene!Elapsed(Warmup, started)
      BY <1>2, Zenon
    <3> QED
      BY <1>1, <3>1, ElapsedIs DEF SceneInv, TickTypes
  <2>2. phase' = phase /\ failed' = failed
    BY <1>2, Zenon
  <2> QED
    BY <2>1, <2>2 DEF SceneInv, TickTypes
<1>9. RegionTypes'
  <2>1. regions' = regions
    BY <1>2, Zenon
  <2> QED
    BY <2>1 DEF SceneInv, RegionTypes
<1>10. ObjectInv'
  <2>1. ASSUME NEW e \in DOMAIN events PROVE events'[e].quiet >= object'.quiet
    <3>1. events[e].quiet >= object.quiet
      BY DEF SceneInv, ObjectInv
    <3>2. events'[e].quiet = later(Rearm + 1, events[e].quiet)
      BY <1>5, Zenon
    <3> QED
      BY <1>1, <1>3, <1>4, <1>6, <3>1, <3>2
  <2>2. DOMAIN events' = DOMAIN events
    BY <1>2, Zenon
  <2> HIDE DEF later, older
  <2> QED
    BY <1>6, <2>1, <2>2 DEF SceneInv, ObjectInv
<1>11. EventInv'
  <2>1. DOMAIN events' = DOMAIN events
    BY <1>2, Zenon
  <2> SUFFICES ASSUME object'.single, object'.at # 0, object'.quiet <= Rearm
               PROVE  \E e \in DOMAIN events : Its(e)'
    BY <2>1, Zenon DEF EventInv
  <2>2. object.quiet <= Rearm
    BY <1>1, <1>4, <1>6
  <2>3. object.single /\ object.at # 0
    BY <1>6
  <2>4. PICK e \in DOMAIN events : Its(e)
    BY <2>2, <2>3 DEF SceneInv, EventInv
  <2>5. ASSUME NEW d \in DOMAIN events, d # e PROVE events'[d].quiet > Rearm
    <3>1. events[d].quiet > Rearm
      BY <2>4, <2>5 DEF Its
    <3>2. events'[d].quiet = later(Rearm + 1, events[d].quiet)
      BY <1>5, Zenon
    <3> QED
      BY <1>1, <1>3, <3>1, <3>2
  <2> HIDE DEF later, older
  <2>6. /\ events'[e].place = object'.at /\ events'[e].quiet = object'.quiet
        /\ events'[e].rescans = object'.rescans /\ events'[e].since = object'.since
    BY <1>5, <1>6, <2>4, Zenon DEF Its
  <2> QED
    BY <2>1, <2>5, <2>6, Zenon DEF Its
<1>12. LearntInv'
  <2>1. phase' = "idle"
    BY <1>2, Zenon
  <2> QED
    BY <2>1 DEF LearntInv
<1> QED
  BY <1>7, <1>8, <1>9, <1>10, <1>11, <1>12, Zenon DEF SceneInv

LEMMA BeginRations ==
  ASSUME SceneAssumption, SceneInv, Scene!Begin
  PROVE  SceneInv'
<1>1. /\ phase' = "mask" /\ UNCHANGED <<events, nextEvent, regions, failed, object>>
      /\ started' = IF started = -1 THEN 0 ELSE started
  BY Zenon DEF Scene!Begin, Scene!Never
<1>2. EventTypes' /\ RegionTypes' /\ ObjectInv' /\ EventInv'
  BY <1>1 DEF SceneInv, EventTypes, RegionTypes, ObjectInv, EventInv, Its
<1>3. started' \in 0..Warmup
  BY <1>1 DEF SceneInv, TickTypes, SceneAssumption
<1>4. TickTypes' /\ LearntInv'
  BY <1>1, <1>3 DEF SceneInv, TickTypes, LearntInv
<1> QED
  BY <1>2, <1>4 DEF SceneInv

\* What does not expire, was seen lately.
LEMMA ExpiredIs ==
  /\ DOMAIN Scene!Expired(events) = {e \in DOMAIN events : events[e].quiet <= Rearm}
  /\ \A e \in DOMAIN Scene!Expired(events) : Scene!Expired(events)[e] = events[e]
  BY DEF Scene!Expired, Scene!Restrict

LEMMA NoRegionsRations ==
  ASSUME SceneAssumption, SceneInv, Scene!NoRegions
  PROVE  SceneInv'
<1> DEFINE live == Scene!Expired(events)
<1>1. /\ phase = "mask" /\ phase' = "claim" /\ regions' = Scene!Empty
      /\ failed' = (started = -1) /\ UNCHANGED <<started, nextEvent, object>>
      /\ events' = events \/ events' = live
  BY Zenon DEF Scene!NoRegions, Scene!Never
<1>2. /\ DOMAIN live = {e \in DOMAIN events : events[e].quiet <= Rearm}
      /\ \A e \in DOMAIN live : live[e] = events[e]
      /\ live = [e \in DOMAIN live |-> live[e]]
  <2>1. live = [e \in DOMAIN live |-> live[e]]
    BY DEF Scene!Expired, Scene!Restrict
  <2> QED
    BY <2>1, ExpiredIs
<1>3. /\ DOMAIN events' \subseteq DOMAIN events
      /\ \A e \in DOMAIN events' : events'[e] = events[e]
      /\ \A e \in DOMAIN events : events[e].quiet <= Rearm => e \in DOMAIN events'
      /\ events' = [e \in DOMAIN events' |-> events'[e]]
  <2>1. events = [e \in DOMAIN events |-> events[e]]
    BY DEF SceneInv, EventTypes
  <2> HIDE DEF live
  <2> QED
    BY <1>1, <1>2, <2>1
<1>4. EventTypes'
  BY <1>1, <1>3 DEF SceneInv, EventTypes
<1>5. TickTypes'
  BY <1>1 DEF SceneInv, TickTypes
<1>6. DOMAIN regions' = {}
  BY <1>1 DEF Scene!Empty
<1>7. RegionTypes'
  BY <1>6, FS_EmptySet DEF SceneAssumption, RegionTypes
<1>8. ObjectInv'
  BY <1>1, <1>3 DEF SceneInv, ObjectInv
<1>9. EventInv'
  <2> SUFFICES ASSUME object.single, object.at # 0, object.quiet <= Rearm
               PROVE  \E e \in DOMAIN events' : Its(e)'
    BY <1>1 DEF EventInv
  <2>1. PICK e \in DOMAIN events : Its(e)
    BY DEF SceneInv, EventInv
  <2>2. e \in DOMAIN events'
    BY <1>3, <2>1 DEF Its
  <2>3. Its(e)'
    BY <1>1, <1>3, <2>1, <2>2 DEF Its
  <2> QED
    BY <2>2, <2>3
<1>10. LearntInv'
  BY <1>1, <1>6 DEF LearntInv
<1> QED
  BY <1>4, <1>5, <1>7, <1>8, <1>9, <1>10 DEF SceneInv

LEMMA ExtractRations ==
  ASSUME SceneAssumption, SceneInv, Scene!Extract
  PROVE  SceneInv'
<1>1. /\ phase' = "assign" /\ UNCHANGED <<started, events, nextEvent, failed, object>>
      /\ started >= Warmup
  BY Zenon DEF Scene!Extract, Scene!Warm
<1>2. PICK moving \in SUBSET Places :
        Scene!Cardinality(moving) <= MaxRegions /\ regions' = [p \in moving |-> 0]
  BY Zenon DEF Scene!Extract
<1>3. Scene!Cardinality(moving) = Cardinality(moving)
  BY DEF Cardinality, Scene!Cardinality
<1>4. EventTypes' /\ ObjectInv' /\ EventInv'
  BY <1>1 DEF SceneInv, EventTypes, ObjectInv, EventInv, Its
<1>5. TickTypes' /\ LearntInv'
  BY <1>1 DEF SceneInv, SceneAssumption, TickTypes, LearntInv
<1>6. RegionTypes'
  <2>1. DOMAIN regions' = moving /\ \A p \in moving : regions'[p] = 0
    BY <1>2
  <2>2. Cardinality(DOMAIN regions') <= MaxRegions
    BY <1>2, <1>3, <2>1
  <2>3. 0 \in 0..MaxEvents
    BY DEF SceneAssumption
  <2> QED
    BY <2>1, <2>2, <2>3 DEF RegionTypes
<1> QED
  BY <1>4, <1>5, <1>6 DEF SceneInv

LEMMA ResetRations ==
  ASSUME SceneAssumption, SceneInv, Scene!Reset
  PROVE  SceneInv'
<1>1. /\ started' = -1 /\ events' = Scene!Empty /\ nextEvent' = 1 /\ failed' = FALSE
      /\ object' = Scene!Nothing /\ UNCHANGED <<phase, regions>>
  BY Zenon DEF Scene!Reset, Scene!Never, Scene!Forget
<1>2. DOMAIN events' = {} /\ events' \in [DOMAIN events' -> Scene!Event]
  BY <1>1 DEF Scene!Empty
<1>3. EventTypes'
  BY <1>1, <1>2 DEF SceneAssumption, EventTypes
<1>4. TickTypes' /\ RegionTypes'
  <2>1. Warmup \in Nat
    BY DEF SceneAssumption
  <2>2. started' \in -1..Warmup
    BY <1>1, <2>1
  <2>3. TickTypes'
    BY <1>1, <2>2, Zenon DEF SceneInv, TickTypes
  <2> QED
    BY <1>1, <2>3 DEF SceneInv, RegionTypes
<1>5. ObjectInv' /\ EventInv'
  BY <1>1, <1>2 DEF SceneAssumption, ObjectInv, EventInv, Objects, Scene!Nothing, Scene!Never
<1>6. LearntInv'
  BY <1>1, <1>2 DEF LearntInv
<1> QED
  BY <1>3, <1>4, <1>5, <1>6 DEF SceneInv

LEMMA SceneStarts == SceneAssumption /\ Scene!Init => SceneInv
<1> SUFFICES ASSUME SceneAssumption, Scene!Init PROVE SceneInv
  OBVIOUS
<1>1. /\ started = -1 /\ events = Scene!Empty /\ nextEvent = 1 /\ phase = "idle"
      /\ regions = Scene!Empty /\ failed = FALSE /\ object = Scene!Nothing
  BY Zenon DEF Scene!Init, Scene!Never
<1>2. DOMAIN events = {} /\ events \in [DOMAIN events -> Scene!Event] /\ DOMAIN regions = {}
  BY <1>1 DEF Scene!Empty
<1>3. EventTypes
  BY <1>1, <1>2 DEF SceneAssumption, EventTypes
<1>4. TickTypes /\ RegionTypes
  <2>1. Warmup \in Nat /\ MaxRegions \in Nat
    BY DEF SceneAssumption
  <2>2. started \in -1..Warmup
    BY <1>1, <2>1
  <2>3. TickTypes
    BY <1>1, <2>2, Zenon DEF TickTypes
  <2> QED
    BY <1>2, <2>1, <2>3, FS_EmptySet DEF RegionTypes
<1>5. ObjectInv /\ EventInv
  BY <1>1, <1>2 DEF SceneAssumption, ObjectInv, EventInv, Objects, Scene!Nothing, Scene!Never
<1>6. LearntInv
  BY <1>1, <1>2 DEF LearntInv
<1> QED
  BY <1>3, <1>4, <1>5, <1>6 DEF SceneInv

\* What claim_rescans does: the single object's event is looked at with it.
LEMMA ClaimIs ==
  ASSUME SceneAssumption, SceneInv, Scene!Claim
  PROVE  /\ phase = "claim" /\ phase' = "idle" /\ DOMAIN regions' = {}
         /\ UNCHANGED <<started, nextEvent, failed>>
         /\ \/ UNCHANGED <<events, object>>
            \/ \E due \in SUBSET DOMAIN events :
                 /\ due # {}
                 /\ \A e \in due :
                      /\ events[e].quiet = 0 /\ events[e].rescans < MaxRescans
                      /\ events[e].since = -1 \/ events[e].since >= Interval
                      /\ started >= Warmup \/ (started = -1 /\ Persistence = 1)
                 /\ events' = Scene!Claimed(due)
                 /\ object' = [object EXCEPT
                                 !.rescans = Scene!Min({MaxRescans + 1, @ + 1}), !.since = 0]
<1>1. /\ phase = "claim" /\ phase' = "idle" /\ regions' = Scene!Empty
      /\ UNCHANGED <<started, nextEvent, failed>>
  BY Zenon DEF Scene!Claim
<1>2. PICK unexplained \in SUBSET (Scene!Range(regions) \cap DOMAIN events) :
        LET due == {e \in unexplained :
                      /\ events[e].frames >= Persistence /\ events[e].rescans < MaxRescans
                      /\ events[e].since = -1 \/ events[e].since >= Interval}
        IN  /\ events' = Scene!Claimed(due)
            /\ object' = IF due = {} THEN object
                         ELSE [object EXCEPT !.rescans = Scene!Min({MaxRescans + 1, @ + 1}),
                                             !.since = 0]
  BY Zenon DEF Scene!Claim, Scene!Never
<1> DEFINE due == {e \in unexplained :
                     /\ events[e].frames >= Persistence /\ events[e].rescans < MaxRescans
                     /\ events[e].since = -1 \/ events[e].since >= Interval}
<1>3. DOMAIN regions' = {}
  BY <1>1 DEF Scene!Empty
<1>4. due \subseteq DOMAIN events
  OBVIOUS
<1>5. ASSUME NEW e \in due
      PROVE  /\ events[e].quiet = 0 /\ events[e].rescans < MaxRescans
             /\ events[e].since = -1 \/ events[e].since >= Interval
             /\ started >= Warmup \/ (started = -1 /\ Persistence = 1)
  <2>1. /\ events[e].frames >= Persistence /\ events[e].rescans < MaxRescans
        /\ events[e].since = -1 \/ events[e].since >= Interval
    OBVIOUS
  <2>2. PICK p \in DOMAIN regions : regions[p] = e
    BY DEF Scene!Range
  <2>3. /\ events[e].quiet = 0
        /\ started >= Warmup \/ (started = -1 /\ events[e].frames = 1)
    BY <1>1, <1>4, <2>2 DEF SceneInv, LearntInv
  <2>4. Persistence \in Nat \ {0}
    BY DEF SceneAssumption
  <2> QED
    BY <2>1, <2>3, <2>4
<1>6. /\ events' = Scene!Claimed(due)
      /\ object' = IF due = {} THEN object
                   ELSE [object EXCEPT !.rescans = Scene!Min({MaxRescans + 1, @ + 1}),
                                       !.since = 0]
  BY <1>2, Zenon
<1> HIDE DEF due
<1>7. CASE due = {}
  <2>1. Scene!Claimed({}) = [e \in DOMAIN events |-> events[e]]
    BY DEF Scene!Claimed
  <2>2. events = [e \in DOMAIN events |-> events[e]]
    BY DEF SceneInv, EventTypes
  <2>3. events' = events /\ object' = object
    BY <1>6, <1>7, <2>1, <2>2, Zenon
  <2> QED
    BY <1>1, <1>3, <2>3
<1>8. CASE due # {}
  <2>1. object' = [object EXCEPT !.rescans = Scene!Min({MaxRescans + 1, @ + 1}), !.since = 0]
    BY <1>6, <1>8, Zenon
  <2> QED
    BY <1>1, <1>3, <1>4, <1>5, <1>6, <1>8, <2>1, Zenon
<1> QED
  BY <1>7, <1>8

LEMMA ClaimRations ==
  ASSUME SceneAssumption, SceneInv, Scene!Claim
  PROVE  /\ SceneInv'
         /\ object'.rescans > object.rescans =>
              /\ object.single => object.since = -1 \/ object.since >= Interval
              /\ started >= Warmup \/ (started = -1 /\ Persistence = 1)
<1>1. /\ phase' = "idle" /\ DOMAIN regions' = {} /\ UNCHANGED <<started, nextEvent, failed>>
  BY ClaimIs, Zenon
<1>2. TickTypes' /\ RegionTypes' /\ LearntInv'
  <2>1. Cardinality(DOMAIN regions') <= MaxRegions
    BY <1>1, FS_EmptySet DEF SceneAssumption
  <2> QED
    BY <1>1, <2>1 DEF SceneInv, TickTypes, RegionTypes, LearntInv
<1>3. object \in Objects /\ object.rescans \in 0..MaxRescans + 1 /\ object.at \in Places \cup {0}
  BY DEF SceneInv, ObjectInv, Objects
<1>4. MaxRescans \in Nat /\ Rearm \in Nat /\ Interval \in Nat
  BY DEF SceneAssumption
<1>5. CASE UNCHANGED <<events, object>>
  <2>1. EventTypes' /\ ObjectInv' /\ EventInv'
    BY <1>1, <1>5 DEF SceneInv, EventTypes, ObjectInv, EventInv, Its
  <2> QED
    BY <1>2, <1>3, <1>5, <2>1 DEF SceneInv
<1>6. ASSUME NEW due \in SUBSET DOMAIN events, due # {},
             \A e \in due :
               /\ events[e].quiet = 0 /\ events[e].rescans < MaxRescans
               /\ events[e].since = -1 \/ events[e].since >= Interval
               /\ started >= Warmup \/ (started = -1 /\ Persistence = 1),
             events' = Scene!Claimed(due),
             object' = [object EXCEPT !.rescans = Scene!Min({MaxRescans + 1, @ + 1}), !.since = 0]
      PROVE  /\ SceneInv'
             /\ object.single => object.since = -1 \/ object.since >= Interval
             /\ started >= Warmup \/ (started = -1 /\ Persistence = 1)
  <2>1. \A e \in DOMAIN events : events[e] \in Scene!Event
    BY DEF SceneInv, EventTypes
  <2>2. /\ DOMAIN events' = DOMAIN events /\ events' = [e \in DOMAIN events |-> events'[e]]
        /\ \A e \in DOMAIN events : e \notin due => events'[e] = events[e]
        /\ \A e \in due : events'[e] = [events[e] EXCEPT !.since = 0, !.rescans = @ + 1]
    BY <1>6, Zenon DEF Scene!Claimed
  <2>3. ASSUME NEW e \in due
        PROVE  /\ events'[e] \in Scene!Event
               /\ events'[e].place = events[e].place /\ events'[e].quiet = events[e].quiet
               /\ events'[e].rescans = events[e].rescans + 1 /\ events'[e].since = 0
    <3> DEFINE v == events[e]
               w == events'[e]
               n == v.rescans + 1
    <3>1. v \in Scene!Event /\ v.rescans < MaxRescans
      BY <1>6, <2>1, <2>3, Zenon
    <3>2. n = v.rescans + 1 /\ n \in 0..MaxRescans
      BY <1>4, <3>1 DEF Scene!Event
    <3>3. w = [v EXCEPT !.since = 0, !.rescans = n]
      BY <2>2, <2>3, Zenon
    <3> HIDE DEF v, w, n
    <3>4. /\ w = [place |-> v.place, quiet |-> v.quiet, frames |-> v.frames,
                  rescans |-> n, since |-> 0]
          /\ w.place = v.place /\ w.quiet = v.quiet /\ w.rescans = n /\ w.since = 0
      BY <3>1, <3>3 DEF Scene!Event
    <3>5. w \in Scene!Event
      BY <1>4, <3>1, <3>2, <3>4 DEF Scene!Event, Scene!Never
    <3> QED
      BY <3>2, <3>4, <3>5 DEF v, w
  <2>4. \A e \in DOMAIN events : events'[e] \in Scene!Event /\ events'[e].quiet = events[e].quiet
    BY <2>1, <2>2, <2>3, Zenon
  <2>5. EventTypes'
    <3>1. events' \in [DOMAIN events -> Scene!Event]
      <4>1. events' = [e \in DOMAIN events |-> events'[e]]
        BY <2>2, Zenon
      <4> QED
        BY <2>4, <4>1
    <3>2. DOMAIN events' = DOMAIN events /\ nextEvent' = nextEvent
      BY <1>1, <2>2, Zenon
    <3> QED
      BY <3>1, <3>2 DEF SceneInv, EventTypes
  <2>6. Scene!Min({MaxRescans + 1, object.rescans + 1}) =
          IF object.rescans < MaxRescans THEN object.rescans + 1 ELSE MaxRescans + 1
    <3> DEFINE S == {MaxRescans + 1, object.rescans + 1}
               m == IF object.rescans < MaxRescans THEN object.rescans + 1 ELSE MaxRescans + 1
    <3>1. m \in S /\ \A w \in S : m <= w
      BY <1>3, <1>4
    <3>2. \A v \in S : (\A w \in S : v <= w) => v = m
      BY <1>3, <1>4
    <3> HIDE DEF m
    <3>3. (CHOOSE v \in S : \A w \in S : v <= w) = m
      BY <3>1, <3>2
    <3>4. Scene!Min(S) = m
      BY <3>3, Zenon DEF Scene!Min
    <3> QED
      BY <3>4 DEF m
  <2>7. /\ object' \in Objects
        /\ object'.single = object.single /\ object'.at = object.at
        /\ object'.quiet = object.quiet /\ object'.since = 0
        /\ object.rescans < MaxRescans => object'.rescans = object.rescans + 1
    <3> DEFINE n == Scene!Min({MaxRescans + 1, object.rescans + 1})
               w == object'
    <3>1. w = [object EXCEPT !.rescans = n, !.since = 0]
      BY <1>6, Zenon
    <3>2. n \in 0..MaxRescans + 1 /\ (object.rescans < MaxRescans => n = object.rescans + 1)
      BY <1>3, <1>4, <2>6
    <3> HIDE DEF n, w
    <3>3. /\ w = [single |-> object.single, at |-> object.at, quiet |-> object.quiet,
                  rescans |-> n, since |-> 0]
          /\ w.single = object.single /\ w.at = object.at /\ w.quiet = object.quiet
          /\ w.rescans = n /\ w.since = 0
      BY <1>3, <3>1 DEF Objects
    <3>4. w \in Objects
      BY <1>3, <1>4, <3>2, <3>3 DEF Objects
    <3> QED
      BY <3>2, <3>3, <3>4 DEF w
  <2>8. PICK e \in due : TRUE
    BY <1>6
  <2>9. object.quiet = 0 /\ object.at # 0 /\ object.quiet <= Rearm
    <3>1. events[e].quiet = 0 /\ events[e].quiet >= object.quiet
      BY <1>6, <2>8 DEF SceneInv, ObjectInv
    <3>2. object.quiet \in 0..Rearm + 1
      BY <1>3 DEF Objects
    <3>3. DOMAIN events # {}
      BY <2>8
    <3> QED
      BY <1>4, <3>1, <3>2, <3>3 DEF SceneInv, ObjectInv
  <2>10. object.single => due = {e} /\ Its(e)
    <3>1. SUFFICES ASSUME object.single PROVE due = {e} /\ Its(e)
      OBVIOUS
    <3>2. PICK d \in DOMAIN events : Its(d)
      BY <2>9, <3>1 DEF SceneInv, EventInv
    <3>3. ASSUME NEW c \in due PROVE c = d
      <4>1. events[c].quiet = 0
        BY <1>6
      <4> QED
        BY <1>4, <3>2, <4>1 DEF Its
    <3> QED
      BY <2>8, <3>2, <3>3
  <2>11. object.single => /\ object'.rescans = object.rescans + 1 /\ object.rescans < MaxRescans
                          /\ object.since = -1 \/ object.since >= Interval
    <3>1. SUFFICES ASSUME object.single
                   PROVE  /\ object'.rescans = object.rescans + 1 /\ object.rescans < MaxRescans
                          /\ object.since = -1 \/ object.since >= Interval
      OBVIOUS
    <3>2. events[e].rescans = object.rescans /\ events[e].since = object.since
      BY <2>10, <3>1 DEF Its
    <3>3. events[e].rescans < MaxRescans /\ (events[e].since = -1 \/ events[e].since >= Interval)
      BY <1>6, <2>8
    <3> QED
      BY <2>7, <3>2, <3>3
  <2>12. ObjectInv'
    <3>1. object'.at # 0
      BY <2>7, <2>9
    <3>2. \A d \in DOMAIN events : events'[d].quiet >= object'.quiet
      BY <2>4, <2>7 DEF SceneInv, ObjectInv
    <3>3. object'.single => object'.rescans <= MaxRescans
      BY <1>3, <1>4, <2>7, <2>11
    <3>4. DOMAIN events' = DOMAIN events
      BY <2>2, Zenon
    <3> QED
      BY <2>7, <3>1, <3>2, <3>3, <3>4 DEF ObjectInv
  <2>13. EventInv'
    <3>1. SUFFICES ASSUME object'.single PROVE Its(e)' /\ e \in DOMAIN events'
      BY Zenon DEF EventInv
    <3>2. due = {e} /\ Its(e) /\ object'.rescans = object.rescans + 1
      BY <2>7, <2>10, <2>11, <3>1
    <3>3. /\ events'[e].place = object'.at /\ events'[e].quiet = object'.quiet
          /\ events'[e].rescans = object'.rescans /\ events'[e].since = object'.since
      BY <2>3, <2>7, <2>8, <3>2 DEF Its
    <3>4. \A d \in DOMAIN events : d # e => events'[d].quiet > Rearm
      BY <2>4, <3>2 DEF Its
    <3>5. DOMAIN events' = DOMAIN events
      BY <2>2, Zenon
    <3> QED
      BY <2>8, <3>3, <3>4, <3>5 DEF Its
  <2> QED
    BY <1>2, <1>6, <2>5, <2>8, <2>11, <2>12, <2>13 DEF SceneInv
<1> QED
  <2>1. UNCHANGED <<events, object>> =>
          SceneInv' /\ (object'.rescans > object.rescans =>
                          /\ object.single => object.since = -1 \/ object.since >= Interval
                          /\ started >= Warmup \/ (started = -1 /\ Persistence = 1))
    BY <1>2, <1>3, <1>5
  <2> QED
    BY <1>6, <2>1, ClaimIs, Zenon

\* The events that have not expired, and what _assign_events makes of them: f
\* gives each region one of its own.
Live == {e \in DOMAIN events : events[e].quiet <= Rearm}

Assigned(f) ==
    /\ phase = "assign" /\ phase' = "claim" /\ started' = started /\ failed' = FALSE
    /\ regions' = f /\ DOMAIN f = DOMAIN regions
    /\ nextEvent' \in 1..MaxEvents + 1 /\ nextEvent' >= nextEvent
    /\ \A p \in DOMAIN f :
         f[p] \in 1..MaxEvents /\ f[p] < nextEvent' /\ (f[p] \in Live \/ f[p] >= nextEvent)
    /\ \A p \in DOMAIN f :
         IF f[p] \in Live THEN Scene!Near(events[f[p]].place, p)
         ELSE \A e \in Live : Scene!Near(events[e].place, p) => \E q \in DOMAIN f : f[q] = e
    /\ DOMAIN events' = Live \cup {f[p] : p \in DOMAIN f}
    /\ events' = [e \in DOMAIN events' |-> events'[e]]
    /\ \A e \in Live : (\A p \in DOMAIN f : f[p] # e) => events'[e] = events[e]
    /\ \A p \in DOMAIN f :
         events'[f[p]] = IF f[p] \in Live THEN Scene!SeenAgain(f[p], p) ELSE Scene!Fresh(p)
    /\ object' = Scene!Followed(DOMAIN f)

LEMMA LeastNumber ==
  ASSUME NEW S, S \subseteq Nat, S # {}
  PROVE  Scene!Min(S) \in S
<1> DEFINE R == {p \in Nat \X Nat : p[1] < p[2]}
<1>1. OpToRel(<, Nat) = R
  BY DEF OpToRel
<1>2. IsWellFoundedOn(R, Nat)
  BY <1>1, NatLessThanWellFounded
<1> HIDE DEF R
<1>3. PICK m \in S : \A k \in S : <<k, m>> \notin R
  BY <1>2, WFMin
<1>4. ASSUME NEW k \in S PROVE m <= k
  <2>1. <<k, m>> \notin R /\ k \in Nat /\ m \in Nat
    BY <1>3
  <2> QED
    BY <2>1 DEF R
<1> QED
  BY <1>3, <1>4, Zenon DEF Scene!Min

LEMMA GreatestNumber ==
  ASSUME NEW n \in Nat, NEW S, S \subseteq 1..n, S # {}
  PROVE  Scene!Max(S) \in S /\ \A w \in S : Scene!Max(S) >= w
<1> DEFINE R == {p \in Nat \X Nat : p[1] < p[2]}
           T == {m \in 0..n : n - m \in S}
<1>1. OpToRel(<, Nat) = R
  BY DEF OpToRel
<1>2. IsWellFoundedOn(R, Nat)
  BY <1>1, NatLessThanWellFounded
<1>3. T \subseteq Nat /\ T # {}
  <2>1. PICK w \in S : TRUE
    OBVIOUS
  <2>2. w \in 1..n /\ n - w \in 0..n /\ n - (n - w) = w
    OBVIOUS
  <2>3. n - w \in T
    BY <2>1, <2>2
  <2>4. T \subseteq Nat
    OBVIOUS
  <2> HIDE DEF T
  <2> QED
    BY <2>3, <2>4
<1> HIDE DEF R
<1>4. PICK m \in T : \A k \in T : <<k, m>> \notin R
  BY <1>2, <1>3, WFMin
<1>5. ASSUME NEW w \in S PROVE n - m >= w
  <2>1. w \in 1..n /\ n - w \in 0..n /\ n - (n - w) = w /\ m \in 0..n
    OBVIOUS
  <2>2. n - w \in T
    BY <2>1
  <2>3. <<n - w, m>> \notin R /\ n - w \in Nat /\ m \in Nat
    BY <1>4, <2>1, <2>2
  <2>4. ~(n - w < m)
    BY <2>3 DEF R
  <2> QED
    BY <2>1, <2>4
<1>6. n - m \in S
  BY <1>4
<1> HIDE DEF T
<1> QED
  BY <1>5, <1>6, Zenon DEF Scene!Max

LEMMA AssignIs ==
  ASSUME SceneAssumption, SceneInv, Scene!Assign
  PROVE  \E f : Assigned(f)
<1> DEFINE live == DOMAIN Scene!Expired(events)
           new == nextEvent..nextEvent + Scene!Cardinality(DOMAIN regions) - 1
<1>1. live = Live
  BY ExpiredIs, Zenon DEF Live
<1>2. PICK f \in Scene!Assignments(live) :
        /\ Scene!Range(f) \subseteq 1..MaxEvents
        /\ regions' = f
        /\ events' = [e \in live \cup Scene!Range(f) |->
                        IF e \notin Scene!Range(f) THEN events[e]
                        ELSE LET p == CHOOSE q \in DOMAIN f : f[q] = e
                             IN  IF e \in live THEN Scene!SeenAgain(e, p) ELSE Scene!Fresh(p)]
        /\ nextEvent' = Scene!Max({nextEvent} \cup {f[p] + 1 : p \in DOMAIN f})
        /\ object' = Scene!Followed(DOMAIN f)
        /\ failed' = FALSE
  BY Zenon DEF Scene!Assign
<1>3. phase = "assign" /\ phase' = "claim" /\ started' = started
  BY Zenon DEF Scene!Assign
<1>4. /\ f \in Scene!Injection(DOMAIN regions, live \cup new)
      /\ \A p \in DOMAIN f :
           IF f[p] \in live THEN Scene!Near(events[f[p]].place, p)
           ELSE \A e \in live : Scene!Near(events[e].place, p) => e \in Scene!Range(f)
  BY <1>2, Zenon DEF Scene!Assignments
<1>5. f \in [DOMAIN regions -> live \cup new] /\ Scene!IsInjective(f)
  BY <1>4, Zenon DEF Scene!Injection
<1>6. DOMAIN f = DOMAIN regions /\ \A p \in DOMAIN f : f[p] \in live \cup new
  BY <1>5
<1>7. \A p, q \in DOMAIN f : f[p] = f[q] => p = q
  BY <1>5, Zenon DEF Scene!IsInjective
<1>8. Scene!Range(f) = {f[p] : p \in DOMAIN f} /\ \A p \in DOMAIN f : f[p] \in 1..MaxEvents
  BY <1>2 DEF Scene!Range
<1>9. nextEvent \in 1..MaxEvents + 1 /\ MaxEvents \in Nat
  BY DEF SceneInv, EventTypes, SceneAssumption
<1>10. \A p \in DOMAIN f : f[p] \in Live \/ f[p] >= nextEvent
  <2>1. \A n \in new : n >= nextEvent
    BY <1>9
  <2> HIDE DEF new, live
  <2> QED
    BY <1>1, <1>6, <2>1
<1>11. /\ nextEvent' \in 1..MaxEvents + 1 /\ nextEvent' >= nextEvent
       /\ \A p \in DOMAIN f : f[p] < nextEvent'
  <2> DEFINE S == {nextEvent} \cup {f[p] + 1 : p \in DOMAIN f}
  <2>1. S \subseteq 1..MaxEvents + 1 /\ S # {} /\ MaxEvents + 1 \in Nat
    BY <1>8, <1>9
  <2>2. Scene!Max(S) \in S /\ \A w \in S : Scene!Max(S) >= w
    <3> HIDE DEF S
    <3> QED
      BY <2>1, GreatestNumber
  <2>3. nextEvent' = Scene!Max(S)
    BY <1>2, Zenon
  <2>4. nextEvent' \in S /\ \A w \in S : nextEvent' >= w
    BY <2>2, <2>3, Zenon
  <2>5. nextEvent' \in 1..MaxEvents + 1 /\ nextEvent' >= nextEvent
    BY <2>1, <2>4
  <2>6. ASSUME NEW p \in DOMAIN f PROVE f[p] < nextEvent'
    BY <1>8, <2>4, <2>5
  <2> QED
    BY <2>5, <2>6
<1>12. /\ DOMAIN events' = Live \cup {f[p] : p \in DOMAIN f}
       /\ events' = [e \in DOMAIN events' |-> events'[e]]
       /\ \A e \in Live : e \notin Scene!Range(f) => events'[e] = events[e]
       /\ \A e \in Scene!Range(f) :
            events'[e] = LET p == CHOOSE q \in DOMAIN f : f[q] = e
                         IN  IF e \in Live THEN Scene!SeenAgain(e, p) ELSE Scene!Fresh(p)
  <2> HIDE DEF live
  <2>1. events' = [e \in live \cup Scene!Range(f) |->
                     IF e \notin Scene!Range(f) THEN events[e]
                     ELSE LET p == CHOOSE q \in DOMAIN f : f[q] = e
                          IN  IF e \in live THEN Scene!SeenAgain(e, p) ELSE Scene!Fresh(p)]
    BY <1>2, Zenon
  <2>2. DOMAIN events' = live \cup Scene!Range(f)
    BY <2>1, Zenon
  <2>3. events' = [e \in DOMAIN events' |-> events'[e]]
    BY <2>1
  <2>4. \A e \in DOMAIN events' :
          events'[e] = IF e \notin Scene!Range(f) THEN events[e]
                       ELSE LET p == CHOOSE q \in DOMAIN f : f[q] = e
                            IN  IF e \in live THEN Scene!SeenAgain(e, p) ELSE Scene!Fresh(p)
    BY <2>1, <2>2, Zenon
  <2>5. ASSUME NEW e \in live, e \notin Scene!Range(f) PROVE events'[e] = events[e]
    BY <2>2, <2>4, <2>5, Zenon
  <2>6. ASSUME NEW e \in Scene!Range(f)
        PROVE  events'[e] = LET p == CHOOSE q \in DOMAIN f : f[q] = e
                            IN  IF e \in live THEN Scene!SeenAgain(e, p) ELSE Scene!Fresh(p)
    BY <2>2, <2>4, <2>6, Zenon
  <2> QED
    BY <1>1, <1>8, <2>2, <2>3, <2>5, <2>6, Zenon
<1>13. \A e \in Live : (\A p \in DOMAIN f : f[p] # e) => events'[e] = events[e]
  BY <1>8, <1>12, Zenon
<1>14. ASSUME NEW p \in DOMAIN f
       PROVE  events'[f[p]] = IF f[p] \in Live THEN Scene!SeenAgain(f[p], p) ELSE Scene!Fresh(p)
  <2>1. f[p] \in Scene!Range(f)
    BY <1>8, Zenon
  <2>2. (CHOOSE q \in DOMAIN f : f[q] = f[p]) = p
    BY <1>7, Zenon
  <2> QED
    BY <1>12, <2>1, <2>2, Zenon
<1>15. \A p \in DOMAIN f :
         IF f[p] \in Live THEN Scene!Near(events[f[p]].place, p)
         ELSE \A e \in Live : Scene!Near(events[e].place, p) => \E q \in DOMAIN f : f[q] = e
  <2> HIDE DEF live
  <2>1. \A e \in Scene!Range(f) : \E q \in DOMAIN f : f[q] = e
    BY <1>8, Zenon
  <2> QED
    BY <1>1, <1>4, <2>1, Zenon
<1>16. regions' = f /\ failed' = FALSE /\ object' = Scene!Followed(DOMAIN f)
  BY <1>2, Zenon
<1> HIDE DEF live, new
<1>17. Assigned(f)
  BY <1>3, <1>6, <1>8, <1>10, <1>11, <1>12, <1>13, <1>14, <1>15, <1>16, Zenon DEF Assigned
<1> QED
  BY <1>17

LEMMA SeenAgainIs ==
  ASSUME SceneAssumption, SceneInv, NEW e \in DOMAIN events, NEW p \in Places
  PROVE  LET w == Scene!SeenAgain(e, p) IN
         /\ w \in Scene!Event /\ w.place = p /\ w.quiet = 0
         /\ w.rescans = events[e].rescans /\ w.since = events[e].since
<1> DEFINE v == events[e]
           n == Scene!Min({Persistence, v.frames + 1})
           w == [v EXCEPT !.place = p, !.quiet = 0, !.frames = n]
<1>1. v \in Scene!Event /\ Rearm \in Nat /\ Persistence \in Nat \ {0}
  BY DEF SceneInv, EventTypes, SceneAssumption
<1>2. n \in 1..Persistence
  <2> DEFINE S == {Persistence, v.frames + 1}
  <2>1. v.frames \in 1..Persistence
    BY <1>1 DEF Scene!Event
  <2>2. S \subseteq 1..Persistence + 1 /\ S \subseteq Nat /\ S # {}
    BY <1>1, <2>1
  <2>3. n \in S
    BY <2>2, LeastNumber
  <2>4. v.frames + 1 \in S /\ Persistence \in S
    OBVIOUS
  <2>5. n <= Persistence
    <3>1. PICK m \in S : \A k \in S : m <= k
      <4>1. Persistence <= v.frames + 1 \/ v.frames + 1 <= Persistence
        BY <1>1, <2>1
      <4> QED
        BY <1>1, <2>1, <4>1
    <3>2. n = CHOOSE x \in S : \A y \in S : x <= y
      BY Zenon DEF Scene!Min
    <3> HIDE DEF n, S
    <3>3. \A k \in S : n <= k
      BY <3>1, <3>2
    <3> QED
      BY <2>4, <3>3
  <2> QED
    BY <1>1, <2>1, <2>3, <2>5
<1>3. Scene!SeenAgain(e, p) = w
  BY Zenon DEF Scene!SeenAgain
<1> HIDE DEF v, n
<1>4. w = [v EXCEPT !.place = p, !.quiet = 0, !.frames = n]
  OBVIOUS
<1> HIDE DEF w
<1>5. /\ w = [place |-> p, quiet |-> 0, frames |-> n, rescans |-> v.rescans, since |-> v.since]
      /\ w.place = p /\ w.quiet = 0 /\ w.rescans = v.rescans /\ w.since = v.since
  BY <1>1, <1>4 DEF Scene!Event
<1>6. w \in Scene!Event
  BY <1>1, <1>2, <1>5 DEF Scene!Event
<1> QED
  BY <1>3, <1>5, <1>6, Zenon DEF v

LEMMA FreshIs ==
  ASSUME SceneAssumption, NEW p \in Places
  PROVE  LET w == Scene!Fresh(p) IN
         /\ w \in Scene!Event /\ w.place = p /\ w.quiet = 0 /\ w.frames = 1
         /\ w.rescans = 0 /\ w.since = -1
<1>1. Rearm \in Nat /\ Persistence \in Nat \ {0} /\ MaxRescans \in Nat /\ Interval \in Nat
  BY DEF SceneAssumption
<1> QED
  BY <1>1 DEF Scene!Fresh, Scene!Event, Scene!Never

\* What the object becomes: the past is forgotten when it was still for long.
Gone == object.at = 0 \/ object.quiet > Rearm
Past == IF Gone THEN Scene!Nothing ELSE object

LEMMA FollowedIs ==
  ASSUME SceneAssumption, object \in Objects, NEW moving \in SUBSET Places
  PROVE  LET w == Scene!Followed(moving)
             p == Scene!Min(moving) IN
         /\ moving = {} => w = Past
         /\ moving # {} =>
              /\ w \in Objects /\ p \in moving /\ w.at = p /\ w.quiet = 0
              /\ w.rescans = Past.rescans /\ w.since = Past.since
              /\ w.single => /\ Past.single /\ moving = {p}
                             /\ Past.at = 0 \/ Scene!Near(Past.at, p)
<1> DEFINE p == Scene!Min(moving)
           past == Past
           b == past.single /\ Scene!Cardinality(moving) = 1
                /\ (past.at = 0 \/ Scene!Near(past.at, p))
           w == [past EXCEPT !.quiet = 0, !.at = p, !.single = b]
<1>1. Scene!Followed(moving) = IF moving = {} THEN past ELSE w
  BY Zenon DEF Scene!Followed, Past, Gone
<1>2. past \in Objects
  <2>1. Scene!Nothing \in Objects
    BY DEF SceneAssumption, Scene!Nothing, Scene!Never, Objects
  <2> QED
    BY <2>1 DEF Past
<1>3. IsFiniteSet(moving) /\ moving \subseteq Nat
  BY FS_Subset DEF SceneAssumption
<1>4. moving # {} => p \in moving
  BY <1>3, LeastNumber
<1>5. Scene!Cardinality(moving) = 1 => (moving # {} => moving = {p})
  <2>1. Scene!Cardinality(moving) = Cardinality(moving)
    BY DEF Cardinality, Scene!Cardinality
  <2>2. Cardinality(moving) = 1 => \E x : moving = {x}
    BY <1>3, FS_Singleton
  <2> HIDE DEF p
  <2> QED
    BY <1>4, <2>1, <2>2
<1>6. b \in BOOLEAN /\ (b => past.single /\ Scene!Cardinality(moving) = 1
                             /\ (past.at = 0 \/ Scene!Near(past.at, p)))
  BY Zenon
<1>7. w = [past EXCEPT !.quiet = 0, !.at = p, !.single = b]
  OBVIOUS
<1> HIDE DEF p, b, w, past
<1>8. ASSUME moving # {}
      PROVE  /\ w \in Objects /\ w.at = p /\ w.quiet = 0
             /\ w.rescans = past.rescans /\ w.since = past.since /\ w.single = b
  <2>1. /\ w = [single |-> b, at |-> p, quiet |-> 0, rescans |-> past.rescans, since |-> past.since]
        /\ w.at = p /\ w.quiet = 0
        /\ w.rescans = past.rescans /\ w.since = past.since /\ w.single = b
    BY <1>2, <1>7 DEF Objects
  <2>2. p \in Places \cup {0} /\ 0 \in 0..Rearm + 1
    <3>1. Rearm \in Nat
      BY DEF SceneAssumption
    <3> QED
      BY <1>4, <1>8, <3>1
  <2>3. /\ past.rescans \in 0..MaxRescans + 1 /\ past.since \in -1..Interval
    BY <1>2 DEF Objects
  <2>4. w \in Objects
    BY <1>6, <2>1, <2>2, <2>3, Zenon DEF Objects
  <2> QED
    BY <2>1, <2>4
<1> QED
  BY <1>1, <1>4, <1>5, <1>6, <1>8, Zenon DEF p, past

LEMMA AssignRations ==
  ASSUME SceneAssumption, SceneInv, Scene!Assign
  PROVE  SceneInv' /\ object'.rescans <= object.rescans
<1>1. PICK f : Assigned(f)
  BY AssignIs
<1>2. /\ phase = "assign" /\ phase' = "claim" /\ started' = started /\ failed' = FALSE
      /\ regions' = f /\ DOMAIN f = DOMAIN regions
      /\ nextEvent' \in 1..MaxEvents + 1 /\ nextEvent' >= nextEvent
      /\ object' = Scene!Followed(DOMAIN f)
  BY <1>1, Zenon DEF Assigned
<1>3. /\ DOMAIN events' = Live \cup {f[p] : p \in DOMAIN f}
      /\ events' = [e \in DOMAIN events' |-> events'[e]]
      /\ \A e \in Live : (\A p \in DOMAIN f : f[p] # e) => events'[e] = events[e]
  BY <1>1, Zenon DEF Assigned
<1>4. \A p \in DOMAIN f :
        /\ f[p] \in 1..MaxEvents /\ f[p] < nextEvent' /\ (f[p] \in Live \/ f[p] >= nextEvent)
        /\ IF f[p] \in Live THEN Scene!Near(events[f[p]].place, p)
           ELSE \A e \in Live : Scene!Near(events[e].place, p) => \E q \in DOMAIN f : f[q] = e
        /\ events'[f[p]] = IF f[p] \in Live THEN Scene!SeenAgain(f[p], p) ELSE Scene!Fresh(p)
  BY <1>1, Zenon DEF Assigned
<1>5. DOMAIN f \subseteq Places /\ \A e \in Live : e \in DOMAIN events
  BY <1>2 DEF SceneInv, RegionTypes, Live
<1>6. ASSUME NEW p \in DOMAIN f
      PROVE  /\ events'[f[p]] \in Scene!Event
             /\ events'[f[p]].place = p /\ events'[f[p]].quiet = 0
             /\ f[p] \in Live => /\ events'[f[p]].rescans = events[f[p]].rescans
                                 /\ events'[f[p]].since = events[f[p]].since
             /\ f[p] \notin Live => /\ events'[f[p]].rescans = 0 /\ events'[f[p]].since = -1
                                    /\ events'[f[p]].frames = 1
  <2>1. CASE f[p] \in Live
    <3>1. events'[f[p]] = Scene!SeenAgain(f[p], p) /\ f[p] \in DOMAIN events /\ p \in Places
      BY <1>4, <1>5, <2>1, Zenon
    <3> DEFINE w == Scene!SeenAgain(f[p], p)
    <3>2. /\ w \in Scene!Event /\ w.place = p /\ w.quiet = 0
          /\ w.rescans = events[f[p]].rescans /\ w.since = events[f[p]].since
      BY <3>1, SeenAgainIs
    <3> HIDE DEF w
    <3>3. events'[f[p]] = w
      BY <3>1 DEF w
    <3> QED
      BY <2>1, <3>2, <3>3, Zenon
  <2>2. CASE f[p] \notin Live
    <3>1. events'[f[p]] = Scene!Fresh(p) /\ p \in Places
      BY <1>4, <1>5, <2>2, Zenon
    <3> QED
      BY <2>2, <3>1, FreshIs, Zenon
  <2> QED
    BY <2>1, <2>2
<1>7. EventTypes'
  <2>1. ASSUME NEW e \in DOMAIN events' PROVE events'[e] \in Scene!Event
    <3>1. CASE \E p \in DOMAIN f : f[p] = e
      BY <1>6, <3>1, Zenon
    <3>2. CASE \A p \in DOMAIN f : f[p] # e
      <4>1. e \in Live /\ events'[e] = events[e]
        BY <1>3, <3>2, Zenon
      <4> QED
        BY <1>5, <4>1 DEF SceneInv, EventTypes
    <3> QED
      BY <3>1, <3>2, Zenon
  <2>2. events' \in [DOMAIN events' -> Scene!Event]
    <3> DEFINE D == DOMAIN events'
    <3>1. events' = [e \in D |-> events'[e]] /\ \A e \in D : events'[e] \in Scene!Event
      BY <1>3, <2>1, Zenon
    <3> HIDE DEF D
    <3>2. events' \in [D -> Scene!Event]
      BY <3>1
    <3> QED
      BY <3>2 DEF D
  <2>3. nextEvent \in 1..MaxEvents + 1 /\ MaxEvents \in Nat /\ DOMAIN events \subseteq 1..nextEvent - 1
    BY DEF SceneInv, EventTypes, SceneAssumption
  <2>4. DOMAIN events' \subseteq 1..nextEvent' - 1
    <3>1. ASSUME NEW e \in Live PROVE e \in 1..nextEvent' - 1
      BY <1>2, <1>5, <2>3
    <3>2. ASSUME NEW p \in DOMAIN f PROVE f[p] \in 1..nextEvent' - 1
      BY <1>2, <1>4, <2>3
    <3> QED
      BY <1>3, <3>1, <3>2, Zenon
  <2> QED
    BY <1>2, <2>2, <2>4, Zenon DEF EventTypes
<1>8. TickTypes' /\ RegionTypes'
  <2>1. Cardinality(DOMAIN regions') <= MaxRegions /\ DOMAIN regions' \subseteq Places
    BY <1>2 DEF SceneInv, RegionTypes
  <2>2. \A p \in DOMAIN regions' : regions'[p] \in 0..MaxEvents
    BY <1>2, <1>4
  <2> QED
    BY <1>2, <2>1, <2>2 DEF SceneInv, TickTypes, RegionTypes
<1>9. LearntInv'
  <2>1. started >= Warmup \/ (started = -1 /\ DOMAIN events = {})
    BY <1>2 DEF SceneInv, LearntInv
  <2>2. ASSUME NEW p \in DOMAIN f
        PROVE  /\ events'[f[p]].quiet = 0
               /\ started' >= Warmup \/ (started' = -1 /\ events'[f[p]].frames = 1)
    BY <1>2, <1>5, <1>6, <2>1
  <2> QED
    BY <1>2, <2>2 DEF LearntInv
<1>10. /\ object \in Objects /\ object.quiet \in 0..Rearm + 1 /\ object.rescans \in 0..MaxRescans + 1
       /\ Rearm \in Nat /\ MaxRescans \in Nat
  BY DEF SceneInv, ObjectInv, Objects, SceneAssumption
<1>11. \A e \in DOMAIN events : events[e].quiet \in 0..Rearm + 1 /\ events[e].quiet >= object.quiet
  BY DEF SceneInv, EventTypes, ObjectInv, Scene!Event
<1>12. Gone => Live = {}
  <2>1. object.at = 0 => DOMAIN events = {}
    BY DEF SceneInv, ObjectInv
  <2> QED
    BY <1>10, <1>11, <2>1 DEF Gone, Live
<1>13. /\ Past \in Objects /\ Past.rescans <= object.rescans
       /\ Past.single => Past.rescans <= MaxRescans
       /\ Gone => Past.at = 0 /\ Past.quiet = 0 /\ Past.rescans = 0 /\ Past.since = -1
       /\ ~Gone => Past = object
  <2>1. Scene!Nothing \in Objects
    BY DEF SceneAssumption, Scene!Nothing, Scene!Never, Objects
  <2> QED
    BY <1>10, <2>1 DEF Past, Scene!Nothing, Scene!Never, SceneInv, ObjectInv
<1>14. ASSUME ~Gone, object.single
       PROVE  \E e \in Live : Its(e) /\ Live = {e}
  <2>1. PICK e \in DOMAIN events : Its(e)
    BY <1>10, <1>14 DEF SceneInv, EventInv, Gone
  <2>2. e \in Live
    BY <1>10, <1>14, <2>1 DEF Its, Gone, Live
  <2>3. \A d \in Live : d = e
    BY <1>10, <1>11, <2>1 DEF Its, Live
  <2> QED
    BY <2>1, <2>2, <2>3
<1>15. ASSUME DOMAIN f = {}
       PROVE  ObjectInv' /\ EventInv' /\ object'.rescans <= object.rescans
  <2>1. object' = Past
    BY <1>2, <1>10, <1>15, FollowedIs, Zenon
  <2>2. DOMAIN events' = Live /\ \A e \in Live : events'[e] = events[e]
    BY <1>3, <1>15
  <2>3. ObjectInv'
    <3>1. ASSUME NEW e \in Live PROVE events'[e].quiet >= object'.quiet /\ object'.at # 0
      BY <1>5, <1>11, <1>12, <1>13, <2>1, <2>2 DEF Gone
    <3> QED
      BY <1>13, <2>1, <2>2, <3>1 DEF ObjectInv
  <2>4. EventInv'
    <3>1. SUFFICES ASSUME object'.single, object'.at # 0
                   PROVE  \E e \in Live : Its(e)'
      BY <2>2, Zenon DEF EventInv
    <3>2. ~Gone /\ object' = object
      BY <1>13, <2>1, <3>1
    <3>3. PICK e \in Live : Its(e) /\ Live = {e}
      BY <1>14, <3>1, <3>2
    <3> QED
      BY <2>2, <3>2, <3>3 DEF Its
  <2> QED
    BY <1>13, <2>1, <2>3, <2>4
<1>16. ASSUME DOMAIN f # {}
       PROVE  ObjectInv' /\ EventInv' /\ object'.rescans <= object.rescans
  <2> DEFINE p == Scene!Min(DOMAIN f)
  <2>1. /\ object' \in Objects /\ p \in DOMAIN f /\ object'.at = p /\ object'.quiet = 0
        /\ object'.rescans = Past.rescans /\ object'.since = Past.since
        /\ object'.single => /\ Past.single /\ DOMAIN f = {p}
                             /\ Past.at = 0 \/ Scene!Near(Past.at, p)
    BY <1>2, <1>5, <1>10, <1>16, FollowedIs, Zenon
  <2> HIDE DEF p
  <2>2. ObjectInv'
    <3>1. object'.at # 0
      BY <1>5, <2>1 DEF SceneAssumption
    <3>2. \A e \in DOMAIN events' : events'[e].quiet >= object'.quiet
      BY <1>7, <1>10, <2>1 DEF EventTypes, Scene!Event
    <3> QED
      BY <1>13, <2>1, <3>1, <3>2 DEF ObjectInv
  <2>3. EventInv'
    <3>1. SUFFICES ASSUME object'.single PROVE f[p] \in DOMAIN events' /\ Its(f[p])'
      BY Zenon DEF EventInv
    <3>2. DOMAIN f = {p} /\ Past.single /\ (Past.at = 0 \/ Scene!Near(Past.at, p))
      BY <2>1, <3>1
    <3>3. CASE Gone
      <4>1. DOMAIN events' = {f[p]} /\ f[p] \notin Live
        BY <1>3, <1>12, <3>2, <3>3
      <4>2. /\ events'[f[p]].place = object'.at /\ events'[f[p]].quiet = object'.quiet
            /\ events'[f[p]].rescans = object'.rescans /\ events'[f[p]].since = object'.since
        BY <1>6, <1>13, <2>1, <3>3, <4>1
      <4> QED
        BY <4>1, <4>2 DEF Its
    <3>4. CASE ~Gone
      <4>1. Past = object /\ object.at # 0 /\ object.single
        BY <1>13, <3>2, <3>4 DEF Gone
      <4>2. PICK e \in Live : Its(e) /\ Live = {e}
        BY <1>14, <3>4, <4>1
      <4>3. Scene!Near(events[e].place, p)
        BY <3>2, <4>1, <4>2 DEF Its
      <4>4. f[p] = e
        <5>1. f[p] \notin Live => \E q \in DOMAIN f : f[q] = e
          BY <1>4, <2>1, <4>2, <4>3, Zenon
        <5> QED
          BY <3>2, <4>2, <5>1
      <4>5. DOMAIN events' = {e}
        BY <1>3, <3>2, <4>2, <4>4
      <4>6. /\ events'[e].place = object'.at /\ events'[e].quiet = object'.quiet
            /\ events'[e].rescans = object'.rescans /\ events'[e].since = object'.since
        BY <1>6, <2>1, <4>1, <4>2, <4>4 DEF Its
      <4> QED
        BY <4>4, <4>5, <4>6 DEF Its
    <3> QED
      BY <3>3, <3>4
  <2> QED
    BY <1>13, <2>1, <2>2, <2>3
<1> QED
  BY <1>7, <1>8, <1>9, <1>15, <1>16, Zenon DEF SceneInv

LEMMA RescansOnlyClaimed ==
  ASSUME SceneAssumption, SceneInv,
         Scene!Time \/ Scene!Begin \/ Scene!NoRegions \/ Scene!Extract \/ Scene!Reset
  PROVE  object'.rescans <= object.rescans
<1>1. object \in Objects /\ object.rescans \in 0..MaxRescans + 1 /\ MaxRescans \in Nat
  BY DEF SceneInv, ObjectInv, Objects, SceneAssumption
<1>2. CASE Scene!Time
  <2> DEFINE q == Scene!UpTo(Rearm + 1, object.quiet)
             t == Scene!Elapsed(Interval, object.since)
             w == object'
  <2>1. w = [object EXCEPT !.quiet = q, !.since = t]
    BY <1>2, Zenon DEF Scene!Time
  <2> HIDE DEF q, t, w
  <2>2. w.rescans = object.rescans
    BY <1>1, <2>1 DEF Objects
  <2> QED
    BY <1>1, <2>2 DEF w
<1>3. CASE Scene!Begin \/ Scene!NoRegions \/ Scene!Extract
  <2>1. object' = object
    BY <1>3, Zenon DEF Scene!Begin, Scene!NoRegions, Scene!Extract
  <2> QED
    BY <1>1, <2>1
<1>4. CASE Scene!Reset
  <2>1. object' = Scene!Nothing
    BY <1>4, Zenon DEF Scene!Reset
  <2> QED
    BY <1>1, <2>1 DEF Scene!Nothing
<1> QED
  BY <1>2, <1>3, <1>4

\* What a step of the detector may do to the object.
Looked ==
    object'.rescans > object.rescans =>
      /\ object.single => object.since = -1 \/ object.since >= Interval
      /\ started >= Warmup \/ (started = -1 /\ Persistence = 1)

LEMMA SceneSteps ==
  ASSUME SceneAssumption, SceneInv, [Scene!Next]_Scene!vars
  PROVE  SceneInv' /\ Looked
<1>1. object \in Objects /\ object.rescans \in Int
  BY DEF SceneInv, ObjectInv, Objects, SceneAssumption
<1>2. CASE Scene!Time \/ Scene!Begin \/ Scene!NoRegions \/ Scene!Extract \/ Scene!Reset
  <2>1. SceneInv'
    BY <1>2, TimeRations, BeginRations, NoRegionsRations, ExtractRations, ResetRations
  <2>2. object'.rescans <= object.rescans /\ object'.rescans \in Int
    BY <1>2, <2>1, RescansOnlyClaimed DEF SceneInv, ObjectInv, Objects, SceneAssumption
  <2> QED
    BY <1>1, <2>1, <2>2 DEF Looked
<1>3. CASE Scene!Assign
  <2>1. SceneInv' /\ object'.rescans <= object.rescans
    BY <1>3, AssignRations
  <2>2. object'.rescans \in Int
    BY <2>1 DEF SceneInv, ObjectInv, Objects, SceneAssumption
  <2> QED
    BY <1>1, <2>1, <2>2 DEF Looked
<1>4. CASE Scene!Claim
  BY <1>4, ClaimRations, Zenon DEF Looked
<1>5. CASE UNCHANGED Scene!vars
  <2>1. UNCHANGED <<started, events, nextEvent, phase, regions, failed, object>>
    BY <1>5 DEF Scene!vars
  <2>2. SceneInv'
    BY <2>1 DEF SceneInv, EventTypes, TickTypes, RegionTypes, ObjectInv, EventInv, Its, LearntInv
  <2> QED
    BY <1>1, <2>1, <2>2 DEF Looked
<1> QED
  BY <1>2, <1>3, <1>4, <1>5, Zenon DEF Scene!Next

LEMMA SceneAlways == ASSUME SceneAssumption PROVE Scene!Spec => []SceneInv
<1>1. Scene!Init => SceneInv
  BY SceneStarts
<1>2. SceneInv /\ [Scene!Next]_Scene!vars => SceneInv'
  BY SceneSteps
<1> QED
  BY <1>1, <1>2, PTL DEF Scene!Spec

\* For any rearm time, interval, warm-up and limits: an object that moves
\* about alone is looked at natively no more often than an event may be and
\* never twice within the interval, whatever is reset meanwhile, and nothing
\* is looked at before the background has been learnt, but for what appears
\* in the frame of a reset (SceneMotionDetector).
THEOREM ObjectsAreRationed == ASSUME SceneAssumption PROVE Scene!Spec => Scene!Rationed
<1>1. SceneInv => Scene!TypeOK /\ Scene!ObjectBudget
  <2>1. SceneInv => Scene!TypeOK
    <3>1. Scene!Cardinality(DOMAIN regions) = Cardinality(DOMAIN regions)
      BY DEF Cardinality, Scene!Cardinality
    <3> QED
      BY <3>1, Zenon DEF SceneInv, EventTypes, TickTypes, RegionTypes, Scene!TypeOK, Scene!Never
  <2> QED
    BY <2>1 DEF SceneInv, ObjectInv, Scene!ObjectBudget
<1>2. SceneInv /\ [Scene!Next]_Scene!vars =>
        ((object.single /\ object'.rescans > object.rescans)
         => (object.since = Scene!Never \/ object.since >= Interval))
  BY SceneSteps, Zenon DEF Looked, Scene!Never
<1>3. SceneInv /\ [Scene!Next]_Scene!vars => Scene!LooksWhenLearnt
  BY SceneSteps, Zenon DEF Looked, Scene!LooksWhenLearnt, Scene!Never
<1>4. Scene!Spec => [](Scene!TypeOK /\ Scene!ObjectBudget)
  BY <1>1, SceneAlways, PTL
<1>5. Scene!Spec => Scene!ObjectPaced
  BY <1>2, SceneAlways, PTL DEF Scene!Spec, Scene!ObjectPaced
<1>6. Scene!Spec => Scene!LearntFirst
  BY <1>3, SceneAlways, PTL DEF Scene!Spec, Scene!LearntFirst
<1> QED
  BY <1>4, <1>5, <1>6 DEF Scene!Rationed

-----------------------------------------------------------------------------
(* The tracks of ByteTracker, for any cheapest pairing.                    *)

CONSTANTS Classes, Spots, MatchThresh, LowMatch, MinHits, TrackBuffer, MaxDetections, MaxIds
VARIABLES tracked, lost, nextId, seen

Tracker == INSTANCE Tracks WITH Places <- Spots

TracksAssumption ==
    /\ IsFiniteSet(Classes) /\ IsFiniteSet(Spots) /\ Spots \subseteq Nat
    /\ {MatchThresh, LowMatch, TrackBuffer, MaxDetections, MaxIds} \subseteq Nat
    /\ MinHits \in Nat \ {0}

Pool == tracked \cup lost

\* A number is of one track, and was given before.
IdentityInv ==
    /\ Pool \subseteq Tracker!Track /\ nextId \in 1..MaxIds + 1 /\ seen \in Tracker!Frames
    /\ \A t \in Pool : t.id < nextId
    /\ \A t, u \in Pool : t.id = u.id => t = u
    /\ tracked \cap lost = {}
    /\ Tracker!TrackedIsSeen

\* A pairing: of rows with columns of their class, each at most once.
Pairs(m, rows, cols) ==
    /\ \A p \in m : p[1] \in rows /\ p[2] \in cols /\ p = <<p[1], p[2]>> /\ p[1].class = p[2].class
    /\ \A p, q \in m : p[1] = q[1] => p = q
    /\ \A p, q \in m : p[2] = q[2] => p = q

LEMMA PairingPairs ==
  ASSUME NEW rows, NEW cols, NEW pairing \in Tracker!Pairings(rows, cols)
  PROVE  /\ \A p \in pairing : p[1] \in rows /\ p[2] \in cols /\ p = <<p[1], p[2]>>
         /\ \A p, q \in pairing : p[1] = q[1] => p = q
         /\ \A p, q \in pairing : p[2] = q[2] => p = q
<1>1. CASE \E f \in Tracker!Injection(rows, cols) : pairing = {<<r, f[r]>> : r \in rows}
  <2>1. PICK f \in Tracker!Injection(rows, cols) : pairing = {<<r, f[r]>> : r \in rows}
    BY <1>1
  <2>2. f \in [rows -> cols] /\ \A a, b \in rows : f[a] = f[b] => a = b
    BY DEF Tracker!Injection, Tracker!IsInjective
  <2>3. \A p \in pairing : \E r \in rows : p = <<r, f[r]>>
    BY <2>1
  <2> QED
    BY <2>2, <2>3
<1>2. CASE \E f \in Tracker!Injection(cols, rows) : pairing = {<<f[c], c>> : c \in cols}
  <2>1. PICK f \in Tracker!Injection(cols, rows) : pairing = {<<f[c], c>> : c \in cols}
    BY <1>2
  <2>2. f \in [cols -> rows] /\ \A a, b \in cols : f[a] = f[b] => a = b
    BY DEF Tracker!Injection, Tracker!IsInjective
  <2>3. \A p \in pairing : \E c \in cols : p = <<f[c], c>>
    BY <2>1
  <2> QED
    BY <2>2, <2>3
<1> QED
  BY <1>1, <1>2 DEF Tracker!Pairings

\* Nothing is associated across classes: the cost is above every threshold.
LEMMA AssignmentPairs ==
  ASSUME TracksAssumption, NEW rows, NEW cols, NEW threshold \in {MatchThresh, LowMatch},
         NEW m \in Tracker!LinearAssignment(rows, cols, threshold)
  PROVE  Pairs(m, rows, cols)
<1>1. PICK pairing \in Tracker!Pairings(rows, cols) :
         m = {p \in pairing : Tracker!Cost(p[1], p[2]) <= threshold}
  BY DEF Tracker!LinearAssignment
<1>2. ASSUME NEW t, NEW d, t.class # d.class PROVE ~(Tracker!Cost(t, d) <= threshold)
  <2>1. Tracker!Cost(t, d) = Tracker!Far
    BY <1>2 DEF Tracker!Cost
  <2>2. threshold < Tracker!Far /\ threshold \in Nat /\ Tracker!Far \in Nat
    BY DEF TracksAssumption, Tracker!Far
  <2> QED
    BY <2>1, <2>2
<1>3. \A p \in m : p \in pairing /\ p[1].class = p[2].class
  BY <1>1, <1>2
<1>4. /\ \A p \in pairing : p[1] \in rows /\ p[2] \in cols /\ p = <<p[1], p[2]>>
      /\ \A p, q \in pairing : p[1] = q[1] => p = q
      /\ \A p, q \in pairing : p[2] = q[2] => p = q
  BY PairingPairs
<1> QED
  BY <1>3, <1>4 DEF Pairs

\* A track seen again.
LEMMA ContinuedIs ==
  ASSUME TracksAssumption, NEW t \in Tracker!Track, NEW d \in Tracker!Detections, t.class = d.class
  PROVE  /\ Tracker!Continued(t, d) \in Tracker!Track
         /\ Tracker!Continued(t, d).id = t.id /\ Tracker!Continued(t, d).class = t.class
         /\ Tracker!Continued(t, d).place = d.place /\ Tracker!Continued(t, d).missed = 0
<1> DEFINE hits == Tracker!Min({MinHits, t.hits + 1})
<1>1. t.hits \in 1..MinHits /\ MinHits \in Nat /\ TrackBuffer \in Nat
  BY DEF TracksAssumption, Tracker!Track
<1>2. hits \in 1..MinHits
  <2>1. Tracker!Min({MinHits, t.hits + 1})
          = CHOOSE x \in {MinHits, t.hits + 1} : \A y \in {MinHits, t.hits + 1} : x =< y
    BY DEF Tracker!Min
  <2>2. \E x \in {MinHits, t.hits + 1} : \A y \in {MinHits, t.hits + 1} : x =< y
    BY <1>1
  <2>3. hits \in {MinHits, t.hits + 1} /\ \A y \in {MinHits, t.hits + 1} : hits =< y
    BY <2>1, <2>2
  <2> QED
    BY <1>1, <2>3
<1> HIDE DEF hits
<1>3. Tracker!Continued(t, d) = [t EXCEPT !.place = d.place, !.class = d.class, !.hits = hits, !.missed = 0]
  BY DEF Tracker!Continued, hits
<1>4. d.place \in Spots /\ d.class \in Classes /\ 0 \in 0..TrackBuffer
  BY <1>1 DEF Tracker!Detections
<1> QED
  BY <1>2, <1>3, <1>4 DEF Tracker!Track

\* A track that was not seen and is not forgotten.
LEMMA KeptIs ==
  ASSUME TracksAssumption, NEW s \in SUBSET Tracker!Track, NEW u \in Tracker!Kept(s)
  PROVE  /\ u \in Tracker!Track /\ u.missed > 0
         /\ \E t \in s : u = [t EXCEPT !.missed = t.missed + 1] /\ u.id = t.id /\ u.class = t.class
<1>1. PICK t \in s : t.missed < TrackBuffer /\ u = [t EXCEPT !.missed = t.missed + 1]
  BY DEF Tracker!Kept
<1>2. t \in Tracker!Track /\ t.missed \in 0..TrackBuffer /\ TrackBuffer \in Nat
  BY DEF TracksAssumption, Tracker!Track
<1>3. t.missed + 1 \in 0..TrackBuffer /\ t.missed + 1 > 0
  BY <1>1, <1>2
<1>4. u \in Tracker!Track /\ u.id = t.id /\ u.class = t.class /\ u.missed = t.missed + 1
  BY <1>1, <1>2, <1>3 DEF Tracker!Track
<1> QED
  BY <1>1, <1>3, <1>4

\* The tracks that are started have new numbers, each of one detection.
LEMMA StartedIs ==
  ASSUME TracksAssumption, IdentityInv, NEW new \in SUBSET Tracker!Detections, IsFiniteSet(new),
         NEW st \in Tracker!Started(new), nextId + Tracker!Cardinality(st) <= MaxIds + 1
  PROVE  /\ Tracker!Cardinality(st) \in Nat
         /\ \A u \in st : /\ u \in Tracker!Track /\ u.id >= nextId /\ u.id < nextId + Tracker!Cardinality(st)
                          /\ u.missed = 0 /\ \E d \in new : u.class = d.class /\ u.place = d.place
         /\ \A u, v \in st : u.id = v.id => u = v
<1> DEFINE n == Cardinality(new)
           rec(d, k) == [id |-> nextId + k, class |-> d.class, place |-> d.place, hits |-> 1, missed |-> 0]
<1>1. n \in Nat /\ Tracker!Cardinality(new) = Cardinality(new) /\ Tracker!Cardinality(st) = Cardinality(st)
  BY FS_CardinalityType DEF Cardinality, Tracker!Cardinality
<1>2. PICK f \in Tracker!Bijection(new, 0..n - 1) :
         st = {[id |-> nextId + f[d], class |-> d.class, place |-> d.place, hits |-> 1, missed |-> 0] : d \in new}
  BY <1>1 DEF Tracker!Started
<1>3. f \in [new -> 0..n - 1] /\ \A a, b \in new : f[a] = f[b] => a = b
  BY DEF Tracker!Bijection, Tracker!Injection, Tracker!IsInjective
<1>4. nextId \in Nat
  BY DEF IdentityInv, TracksAssumption
<1> HIDE DEF n
<1>5. \A d \in new : f[d] \in Nat /\ f[d] < n
  BY <1>1, <1>3
<1>6. Cardinality(st) = n
  <2> DEFINE g == [d \in new |-> rec(d, f[d])]
  <2>1. \A d \in new : g[d] \in st /\ g[d].id = nextId + f[d]
    BY <1>2
  <2>2. \A a, b \in new : g[a] = g[b] => a = b
    BY <1>3, <1>4, <1>5, <2>1
  <2>3. \A u \in st : \E d \in new : g[d] = u
    BY <1>2
  <2>4. g \in [new -> st]
    BY <2>1
  <2> HIDE DEF g
  <2>5. g \in Bijection(new, st)
    BY <2>2, <2>3, <2>4 DEF Bijection, Injection, IsInjective, Surjection
  <2> QED
    BY <2>5, FS_Bijection DEF n, ExistsBijection
<1>7. nextId + n <= MaxIds + 1 /\ MaxIds \in Nat /\ MinHits \in Nat \ {0} /\ TrackBuffer \in Nat
  BY <1>1, <1>6 DEF TracksAssumption
<1>8. ASSUME NEW u \in st
      PROVE  /\ u \in Tracker!Track /\ u.id >= nextId /\ u.id < nextId + n
             /\ u.missed = 0 /\ \E d \in new : u.class = d.class /\ u.place = d.place
  <2>1. PICK d \in new : u = [id |-> nextId + f[d], class |-> d.class, place |-> d.place, hits |-> 1, missed |-> 0]
    BY <1>2
  <2>2. nextId + f[d] \in 1..MaxIds
    BY <1>1, <1>4, <1>5, <1>7 DEF IdentityInv
  <2>3. d.class \in Classes /\ d.place \in Spots /\ 1 \in 1..MinHits /\ 0 \in 0..TrackBuffer
    BY <1>7 DEF Tracker!Detections
  <2>4. u \in Tracker!Track
    BY <2>1, <2>2, <2>3 DEF Tracker!Track
  <2> QED
    BY <1>1, <1>4, <1>5, <2>1, <2>4
<1>9. ASSUME NEW u \in st, NEW v \in st, u.id = v.id PROVE u = v
  <2>1. PICK d \in new : u = [id |-> nextId + f[d], class |-> d.class, place |-> d.place, hits |-> 1, missed |-> 0]
    BY <1>2
  <2>2. PICK e \in new : v = [id |-> nextId + f[e], class |-> e.class, place |-> e.place, hits |-> 1, missed |-> 0]
    BY <1>2
  <2>3. f[d] = f[e]
    BY <1>4, <1>5, <1>9, <2>1, <2>2
  <2> QED
    BY <1>3, <2>1, <2>2, <2>3
<1> QED
  BY <1>1, <1>6, <1>8, <1>9

\* Where a track comes from after an update: it is new, or one seen again or
\* not seen that had its number and class before.
Origin(u, t) == t \in Pool /\ t.id = u.id /\ t.class = u.class
New(u) == u.id >= nextId

LEMMA MatchedIs ==
  ASSUME TracksAssumption, IdentityInv, NEW rows \in SUBSET Pool, NEW cols \in SUBSET Tracker!Detections,
         NEW m, Pairs(m, rows, cols)
  PROVE  /\ Tracker!Rows(m) \subseteq rows /\ Tracker!Cols(m) \subseteq cols
         /\ \A u \in Tracker!Matched(m) :
              /\ u \in Tracker!Track /\ u.missed = 0
              /\ \E t \in Tracker!Rows(m) : Origin(u, t)
              /\ \E d \in cols : d.class = u.class /\ d.place = u.place
         /\ \A u, v \in Tracker!Matched(m) : u.id = v.id => u = v
<1>1. /\ \A p \in m : p[1] \in rows /\ p[2] \in cols /\ p[1].class = p[2].class
      /\ \A p, q \in m : p[1] = q[1] => p = q
  BY DEF Pairs
<1>2. Tracker!Rows(m) \subseteq rows /\ Tracker!Cols(m) \subseteq cols
  BY <1>1 DEF Tracker!Rows, Tracker!Cols
<1>3. ASSUME NEW p \in m
      PROVE  LET u == Tracker!Continued(p[1], p[2])
             IN  /\ u \in Tracker!Track /\ u.missed = 0 /\ u.id = p[1].id /\ u.class = p[1].class
                 /\ p[2].class = u.class /\ p[2].place = u.place /\ p[1] \in Pool /\ p[1] \in Tracker!Rows(m)
  <2>1. p[1] \in Tracker!Track /\ p[1] \in Pool /\ p[2] \in Tracker!Detections /\ p[1].class = p[2].class
    BY <1>1 DEF IdentityInv
  <2>2. p[1] \in Tracker!Rows(m)
    BY DEF Tracker!Rows
  <2> QED
    BY <2>1, <2>2, ContinuedIs
<1>4. ASSUME NEW u \in Tracker!Matched(m)
      PROVE  /\ u \in Tracker!Track /\ u.missed = 0
             /\ \E t \in Tracker!Rows(m) : Origin(u, t)
             /\ \E d \in cols : d.class = u.class /\ d.place = u.place
  <2>1. PICK p \in m : u = Tracker!Continued(p[1], p[2])
    BY DEF Tracker!Matched
  <2> QED
    BY <1>1, <1>3, <2>1 DEF Origin
<1>5. ASSUME NEW u \in Tracker!Matched(m), NEW v \in Tracker!Matched(m), u.id = v.id PROVE u = v
  <2>1. PICK p \in m : u = Tracker!Continued(p[1], p[2])
    BY DEF Tracker!Matched
  <2>2. PICK q \in m : v = Tracker!Continued(q[1], q[2])
    BY DEF Tracker!Matched
  <2>3. p[1] \in Pool /\ q[1] \in Pool /\ p[1].id = q[1].id
    BY <1>3, <1>5, <2>1, <2>2
  <2>4. p[1] = q[1]
    BY <2>3 DEF IdentityInv
  <2> QED
    BY <1>1, <2>1, <2>2, <2>4
<1> QED
  BY <1>2, <1>4, <1>5

\* There are finitely many detections.
LEMMA DetectionsAreFinite == TracksAssumption => IsFiniteSet(Tracker!Detections)
<1> SUFFICES ASSUME TracksAssumption PROVE IsFiniteSet(Tracker!Detections)
  OBVIOUS
<1>1. IsFiniteSet(Classes \X Spots)
  BY FS_Product DEF TracksAssumption
<1>2. IsFiniteSet(BOOLEAN)
  <2>1. IsFiniteSet({} \cup {TRUE})
    BY FS_EmptySet, FS_AddElement
  <2>2. IsFiniteSet(({} \cup {TRUE}) \cup {FALSE})
    BY <2>1, FS_AddElement
  <2>3. ({} \cup {TRUE}) \cup {FALSE} = BOOLEAN
    OBVIOUS
  <2> QED
    BY <2>2, <2>3
<1>3. IsFiniteSet((Classes \X Spots) \X BOOLEAN)
  BY <1>1, <1>2, FS_Product
<1> DEFINE rec == [x \in (Classes \X Spots) \X BOOLEAN |-> [class |-> x[1][1], place |-> x[1][2], high |-> x[2]]]
<1>4. \A d \in Tracker!Detections : \E x \in (Classes \X Spots) \X BOOLEAN : rec[x] = d
  <2> SUFFICES ASSUME NEW d \in Tracker!Detections
               PROVE  \E x \in (Classes \X Spots) \X BOOLEAN : rec[x] = d
    OBVIOUS
  <2>1. /\ d.class \in Classes /\ d.place \in Spots /\ d.high \in BOOLEAN
        /\ d = [class |-> d.class, place |-> d.place, high |-> d.high]
    BY DEF Tracker!Detections
  <2>2. <<<<d.class, d.place>>, d.high>> \in (Classes \X Spots) \X BOOLEAN
    BY <2>1
  <2>3. rec[<<<<d.class, d.place>>, d.high>>] = d
    BY <2>1, <2>2
  <2> QED
    BY <2>2, <2>3
<1>5. rec \in [(Classes \X Spots) \X BOOLEAN -> Tracker!Detections]
  BY DEF Tracker!Detections
<1> HIDE DEF rec
<1>6. rec \in Surjection((Classes \X Spots) \X BOOLEAN, Tracker!Detections)
  BY <1>4, <1>5 DEF Surjection
<1> QED
  BY <1>3, <1>6, FS_Surjection

\* An update: numbers keep their track and class, what is handed out was seen,
\* and what is handed out newly was seen with confidence.
LEMMA UpdateIdentifies ==
  ASSUME TracksAssumption, IdentityInv, Tracker!Update
  PROVE  /\ IdentityInv'
         /\ \A t \in Pool, u \in Pool' : t.id = u.id => t.class = u.class
         /\ \A t \in tracked' : t.id \notin Tracker!Ids(tracked) =>
              \E d \in seen' : d.high /\ d.class = t.class /\ d.place = t.place
<1> DEFINE High(now) == {d \in now : d.high}
<1>1. PICK now \in Tracker!Frames :
        \E m \in Tracker!LinearAssignment(Tracker!Pool, High(now), MatchThresh) :
        \E low \in Tracker!LinearAssignment(Tracker!SecondChance \ Tracker!Rows(m), now \ High(now), LowMatch) :
        \E st \in Tracker!Started(High(now) \ Tracker!Cols(m)) :
          /\ nextId + Tracker!Cardinality(st) <= MaxIds + 1
          /\ tracked' = Tracker!Activated(m, low, st)
          /\ lost' = Tracker!Kept(Tracker!Unmatched(m, low))
          /\ nextId' = nextId + Tracker!Cardinality(st)
          /\ seen' = now
  BY Zenon DEF Tracker!Update
<1> DEFINE high == High(now)
<1>a. PICK m \in Tracker!LinearAssignment(Tracker!Pool, high, MatchThresh) :
        \E low \in Tracker!LinearAssignment(Tracker!SecondChance \ Tracker!Rows(m), now \ high, LowMatch) :
        \E st \in Tracker!Started(high \ Tracker!Cols(m)) :
          /\ nextId + Tracker!Cardinality(st) <= MaxIds + 1
          /\ tracked' = Tracker!Activated(m, low, st)
          /\ lost' = Tracker!Kept(Tracker!Unmatched(m, low))
          /\ nextId' = nextId + Tracker!Cardinality(st)
          /\ seen' = now
  BY <1>1, Zenon
<1>b. PICK low \in Tracker!LinearAssignment(Tracker!SecondChance \ Tracker!Rows(m), now \ high, LowMatch) :
        \E st \in Tracker!Started(high \ Tracker!Cols(m)) :
          /\ nextId + Tracker!Cardinality(st) <= MaxIds + 1
          /\ tracked' = Tracker!Activated(m, low, st)
          /\ lost' = Tracker!Kept(Tracker!Unmatched(m, low))
          /\ nextId' = nextId + Tracker!Cardinality(st)
          /\ seen' = now
  BY <1>a, Zenon
<1>2. PICK st \in Tracker!Started(high \ Tracker!Cols(m)) :
          /\ nextId + Tracker!Cardinality(st) <= MaxIds + 1
          /\ tracked' = Tracker!Activated(m, low, st)
          /\ lost' = Tracker!Kept(Tracker!Unmatched(m, low))
          /\ nextId' = nextId + Tracker!Cardinality(st)
          /\ seen' = now
  BY <1>b, Zenon
<1>3. high \subseteq now /\ (\A d \in high : d.high) /\ now \subseteq Tracker!Detections
  BY DEF Tracker!Frames
<1> HIDE DEF High
<1>4. IsFiniteSet(now)
  BY <1>3, DetectionsAreFinite, FS_Subset
<1>5. Pairs(m, Pool, high) /\ Pairs(low, tracked \ Tracker!Rows(m), now \ high)
  <2>1. Tracker!Pool = Pool /\ Tracker!SecondChance = tracked
    BY DEF Tracker!Pool, Tracker!SecondChance, Pool
  <2> QED
    BY <2>1, AssignmentPairs
<1>6. /\ Tracker!Rows(m) \subseteq Pool /\ Tracker!Cols(m) \subseteq high
      /\ \A u \in Tracker!Matched(m) :
           /\ u \in Tracker!Track /\ u.missed = 0
           /\ \E t \in Tracker!Rows(m) : Origin(u, t)
           /\ \E d \in high : d.class = u.class /\ d.place = u.place
      /\ \A u, v \in Tracker!Matched(m) : u.id = v.id => u = v
  <2>1. high \in SUBSET Tracker!Detections /\ Pool \in SUBSET Pool
    BY <1>3
  <2> QED
    BY <1>5, <2>1, MatchedIs
<1>7. /\ Tracker!Rows(low) \subseteq tracked \ Tracker!Rows(m)
      /\ \A u \in Tracker!Matched(low) :
           /\ u \in Tracker!Track /\ u.missed = 0
           /\ \E t \in Tracker!Rows(low) : Origin(u, t)
           /\ \E d \in now : d.class = u.class /\ d.place = u.place
      /\ \A u, v \in Tracker!Matched(low) : u.id = v.id => u = v
  <2>1. now \ high \in SUBSET Tracker!Detections /\ tracked \ Tracker!Rows(m) \in SUBSET Pool
    BY <1>3 DEF Pool
  <2>2. /\ Tracker!Rows(low) \subseteq tracked \ Tracker!Rows(m)
        /\ \A u \in Tracker!Matched(low) :
             /\ u \in Tracker!Track /\ u.missed = 0
             /\ \E t \in Tracker!Rows(low) : Origin(u, t)
             /\ \E d \in now \ high : d.class = u.class /\ d.place = u.place
        /\ \A u, v \in Tracker!Matched(low) : u.id = v.id => u = v
    BY <1>5, <2>1, MatchedIs
  <2> QED
    BY <2>2
<1>8. /\ Tracker!Cardinality(st) \in Nat
      /\ \A u \in st : /\ u \in Tracker!Track /\ u.id >= nextId /\ u.id < nextId + Tracker!Cardinality(st)
                       /\ u.missed = 0 /\ \E d \in high : u.class = d.class /\ u.place = d.place
      /\ \A u, v \in st : u.id = v.id => u = v
  <2>1. high \ Tracker!Cols(m) \in SUBSET Tracker!Detections /\ IsFiniteSet(high \ Tracker!Cols(m))
    BY <1>3, <1>4, FS_Subset
  <2>2. /\ Tracker!Cardinality(st) \in Nat
        /\ \A u \in st : /\ u \in Tracker!Track /\ u.id >= nextId /\ u.id < nextId + Tracker!Cardinality(st)
                         /\ u.missed = 0 /\ \E d \in high \ Tracker!Cols(m) : u.class = d.class /\ u.place = d.place
        /\ \A u, v \in st : u.id = v.id => u = v
    BY <1>2, <2>1, StartedIs
  <2> QED
    BY <2>2
<1> DEFINE un == Tracker!Unmatched(m, low)
<1>9. un \subseteq Pool /\ un \cap Tracker!Rows(m) = {} /\ un \cap Tracker!Rows(low) = {}
  BY DEF Tracker!Unmatched, Pool
<1>10. \A u \in lost' : /\ u \in Tracker!Track /\ u.missed > 0
                        /\ \E t \in un : u = [t EXCEPT !.missed = t.missed + 1] /\ u.id = t.id /\ u.class = t.class
  <2>1. un \in SUBSET Tracker!Track
    BY <1>9 DEF IdentityInv
  <2> QED
    BY <1>2, <2>1, KeptIs
<1> HIDE DEF un, high
<1>11. tracked' = Tracker!Matched(m) \cup Tracker!Matched(low) \cup st
  BY <1>2 DEF Tracker!Activated
<1>12. nextId \in Nat /\ nextId' = nextId + Tracker!Cardinality(st) /\ nextId + Tracker!Cardinality(st) <= MaxIds + 1
       /\ MaxIds \in Nat /\ nextId >= 1
  BY <1>2 DEF IdentityInv, TracksAssumption
<1>13. ASSUME NEW t \in Pool PROVE t \in Tracker!Track /\ t.id \in Nat /\ t.id < nextId
  BY DEF IdentityInv, Tracker!Track
<1>14. ASSUME NEW t \in Pool, NEW s \in Pool, t.id = s.id PROVE t = s
  BY <1>14 DEF IdentityInv
\* Where each track that is remembered after the update comes from.
<1>15. ASSUME NEW u \in Pool'
       PROVE  /\ u \in Tracker!Track
              /\ \/ u \in Tracker!Matched(m) /\ \E t \in Tracker!Rows(m) : Origin(u, t)
                 \/ u \in Tracker!Matched(low) /\ \E t \in Tracker!Rows(low) : Origin(u, t)
                 \/ u \in lost' /\ \E t \in un : Origin(u, t)
                 \/ u \in st /\ New(u)
  <2>1. u \in tracked' \/ u \in lost'
    BY DEF Pool
  <2>2. CASE u \in Tracker!Matched(m)
    BY <1>6, <2>2
  <2>3. CASE u \in Tracker!Matched(low)
    BY <1>7, <2>3
  <2>4. CASE u \in lost'
    <3>1. PICK t \in un : u.id = t.id /\ u.class = t.class
      BY <1>10, <2>4
    <3>2. Origin(u, t)
      BY <1>9, <3>1 DEF Origin
    <3> QED
      BY <1>10, <2>4, <3>2
  <2>5. CASE u \in st
    BY <1>8, <2>5 DEF New
  <2> QED
    BY <1>11, <2>1, <2>2, <2>3, <2>4, <2>5
<1>16. ASSUME NEW u \in Pool', NEW t \in Pool, t.id = u.id PROVE Origin(u, t) /\ u \notin st
  <2>1. ~New(u) /\ u \notin st
    BY <1>8, <1>12, <1>13, <1>16 DEF New
  <2>2. PICK s : Origin(u, s)
    BY <1>15, <2>1
  <2>3. s = t
    BY <1>14, <1>16, <2>2 DEF Origin
  <2> QED
    BY <2>1, <2>2, <2>3
<1>17. ASSUME NEW u \in Pool', NEW v \in Pool', u.id = v.id PROVE u = v
  <2>1. CASE u \in st
    <3>1. v \in st
      <4>1. ASSUME NEW s, Origin(v, s) PROVE FALSE
        BY <1>16, <1>17, <2>1, <4>1 DEF Origin
      <4> QED
        BY <1>15, <4>1
    <3> QED
      BY <1>8, <1>17, <2>1, <3>1
  <2>2. CASE u \notin st
    <3>1. PICK t : Origin(u, t)
      BY <1>15, <2>2
    <3>2. t \in Pool /\ t.id = u.id /\ t.id = v.id
      BY <1>17, <3>1 DEF Origin
    <3>3. v \notin st
      BY <1>16, <3>2
    <3>4. ASSUME NEW s \in Pool, Origin(u, s) \/ Origin(v, s) PROVE s = t
      BY <1>14, <1>17, <3>2, <3>4 DEF Origin
    <3>5. /\ \/ u \in Tracker!Matched(m) /\ t \in Tracker!Rows(m)
             \/ u \in Tracker!Matched(low) /\ t \in Tracker!Rows(low)
             \/ u \in lost' /\ t \in un
          /\ \/ v \in Tracker!Matched(m) /\ t \in Tracker!Rows(m)
             \/ v \in Tracker!Matched(low) /\ t \in Tracker!Rows(low)
             \/ v \in lost' /\ t \in un
      BY <1>15, <2>2, <3>3, <3>4 DEF Origin
    <3>6. ~(t \in Tracker!Rows(m) /\ t \in Tracker!Rows(low)) /\ (t \in un => t \notin Tracker!Rows(m) \cup Tracker!Rows(low))
      BY <1>7, <1>9
    <3>7. ASSUME u \in lost', v \in lost' PROVE u = v
      <4>1. PICK r \in un : u = [r EXCEPT !.missed = r.missed + 1] /\ u.id = r.id
        BY <1>10, <3>7
      <4>2. PICK s \in un : v = [s EXCEPT !.missed = s.missed + 1] /\ v.id = s.id
        BY <1>10, <3>7
      <4>3. r = s
        BY <1>9, <1>14, <1>17, <4>1, <4>2
      <4> QED
        BY <4>1, <4>2, <4>3
    <3> QED
      BY <1>6, <1>7, <1>17, <3>5, <3>6, <3>7
  <2> QED
    BY <2>1, <2>2
<1>18. ASSUME NEW u \in Pool' PROVE u.id < nextId'
  <2>1. CASE u \in st
    BY <1>8, <1>12, <2>1
  <2>2. CASE u \notin st
    <3>1. PICK t \in Pool : t.id = u.id
      BY <1>15, <2>2 DEF Origin
    <3> QED
      BY <1>8, <1>12, <1>13, <3>1
  <2> QED
    BY <2>1, <2>2
<1>19. tracked' \cap lost' = {}
  <2>1. ASSUME NEW u \in tracked' PROVE u.missed = 0
    BY <1>6, <1>7, <1>8, <1>11
  <2> QED
    BY <1>10, <2>1
<1>20. ASSUME NEW u \in tracked' PROVE \E d \in now : d.class = u.class /\ d.place = u.place
  BY <1>3, <1>6, <1>7, <1>8, <1>11
<1>21. IdentityInv'
  <2>1. nextId' \in 1..MaxIds + 1
    BY <1>8, <1>12
  <2>2. Tracker!TrackedIsSeen'
    BY <1>2, <1>20 DEF Tracker!TrackedIsSeen
  <2>3. Pool' \subseteq Tracker!Track
    BY <1>15
  <2>4. seen' \in Tracker!Frames
    BY <1>2
  <2> QED
    BY <1>17, <1>18, <1>19, <2>1, <2>2, <2>3, <2>4 DEF IdentityInv
<1>22. ASSUME NEW u \in tracked', u.id \notin Tracker!Ids(tracked)
       PROVE  \E d \in seen' : d.high /\ d.class = u.class /\ d.place = u.place
  <2>1. u \notin Tracker!Matched(low)
    <3>1. ASSUME NEW t \in Tracker!Rows(low), Origin(u, t) PROVE FALSE
      BY <1>7, <1>22, <3>1 DEF Origin, Tracker!Ids
    <3> QED
      BY <1>7, <3>1
  <2>2. \E d \in high : d.class = u.class /\ d.place = u.place
    BY <1>6, <1>8, <1>11, <2>1
  <2> QED
    BY <1>2, <1>3, <2>2
<1>23. ASSUME NEW t \in Pool, NEW u \in Pool', t.id = u.id PROVE t.class = u.class
  BY <1>16, <1>23 DEF Origin
<1> QED
  BY <1>21, <1>22, <1>23

LEMMA NoneIsFrame == TracksAssumption => {} \in Tracker!Frames
<1>1. Tracker!Cardinality({}) = 0
  BY FS_EmptySet DEF Tracker!Cardinality, Cardinality
<1> QED
  BY <1>1 DEF Tracker!Frames, TracksAssumption

LEMMA IdentitySteps ==
  TracksAssumption /\ IdentityInv /\ [Tracker!Next]_Tracker!vars =>
    /\ IdentityInv'
    /\ \A t \in Pool, u \in Pool' : t.id = u.id => t.class = u.class
    /\ \A t \in tracked' : t.id \notin Tracker!Ids(tracked) =>
         \E d \in seen' : d.high /\ d.class = t.class /\ d.place = t.place
<1> SUFFICES ASSUME TracksAssumption, IdentityInv, [Tracker!Next]_Tracker!vars
             PROVE  /\ IdentityInv'
                    /\ \A t \in Pool, u \in Pool' : t.id = u.id => t.class = u.class
                    /\ \A t \in tracked' : t.id \notin Tracker!Ids(tracked) =>
                         \E d \in seen' : d.high /\ d.class = t.class /\ d.place = t.place
  OBVIOUS
<1>1. CASE Tracker!Update
  BY <1>1, UpdateIdentifies
<1>2. CASE Tracker!Reset
  <2>1. tracked' = {} /\ lost' = {} /\ nextId' = 1 /\ seen' = {} /\ Pool' = {}
    BY <1>2 DEF Tracker!Reset, Pool
  <2>2. {} \in Tracker!Frames
    BY NoneIsFrame
  <2> QED
    BY <2>1, <2>2 DEF IdentityInv, Tracker!TrackedIsSeen, TracksAssumption
<1>3. CASE UNCHANGED Tracker!vars
  <2>1. UNCHANGED <<tracked, lost, nextId, seen>> /\ Pool' = Pool
    BY <1>3 DEF Tracker!vars, Pool
  <2>2. \A t \in tracked : t.id \in Tracker!Ids(tracked)
    BY DEF Tracker!Ids
  <2>3. IdentityInv'
    BY <2>1 DEF IdentityInv, Tracker!TrackedIsSeen
  <2> QED
    BY <2>1, <2>2, <2>3 DEF IdentityInv
<1> QED
  BY <1>1, <1>2, <1>3 DEF Tracker!Next

\* As the type invariant counts them.
LEMMA IdentityTyped == TracksAssumption /\ IdentityInv => Tracker!TypeOK
<1> SUFFICES ASSUME TracksAssumption, IdentityInv PROVE Tracker!TypeOK
  OBVIOUS
<1>1. \A S : Tracker!Cardinality(S) = Cardinality(S)
  BY DEF Tracker!Cardinality, Cardinality
<1> DEFINE g == [t \in Pool |-> t.id]
<1>2. \A t \in Pool : g[t] = t.id /\ t.id \in 1..MaxIds
  BY DEF IdentityInv, Tracker!Track
<1>3. Tracker!Ids(tracked \cup lost) = {t.id : t \in Pool}
  BY DEF Tracker!Ids, Pool
<1>4. g \in Bijection(Pool, Tracker!Ids(tracked \cup lost))
  <2>1. g \in [Pool -> Tracker!Ids(tracked \cup lost)]
    BY <1>3
  <2>2. \A a, b \in Pool : g[a] = g[b] => a = b
    BY DEF IdentityInv
  <2>3. \A x \in Tracker!Ids(tracked \cup lost) : \E a \in Pool : g[a] = x
    BY <1>3
  <2> HIDE DEF g
  <2> QED
    BY <2>1, <2>2, <2>3 DEF Bijection, Injection, IsInjective, Surjection
<1>5. IsFiniteSet(Pool)
  <2>1. IsFiniteSet(1..MaxIds)
    BY FS_Interval DEF TracksAssumption
  <2>2. g \in Injection(Pool, 1..MaxIds)
    <3>1. g \in [Pool -> 1..MaxIds]
      BY <1>2
    <3>2. \A a, b \in Pool : g[a] = g[b] => a = b
      BY DEF IdentityInv
    <3> HIDE DEF g
    <3> QED
      BY <3>1, <3>2 DEF Injection, IsInjective
  <2> QED
    BY <2>1, <2>2, FS_Injection
<1> HIDE DEF g
<1>6. Cardinality(Tracker!Ids(tracked \cup lost)) = Cardinality(Pool)
  BY <1>4, <1>5, FS_Bijection DEF ExistsBijection
<1>7. IsFiniteSet(tracked) /\ IsFiniteSet(lost)
  BY <1>5, FS_Subset DEF Pool
<1>8. Cardinality(Pool) = Cardinality(tracked) + Cardinality(lost)
  <2>1. Cardinality(tracked \cup lost) = Cardinality(tracked) + Cardinality(lost) - Cardinality(tracked \cap lost)
    BY <1>7, FS_Union
  <2>2. Cardinality(tracked \cap lost) = 0
    BY FS_EmptySet DEF IdentityInv
  <2>3. Cardinality(tracked) \in Nat /\ Cardinality(lost) \in Nat
    BY <1>7, FS_CardinalityType
  <2> QED
    BY <2>1, <2>2, <2>3 DEF Pool
<1> QED
  BY <1>1, <1>6, <1>8 DEF IdentityInv, Tracker!TypeOK, Pool

\* For any classes, places, thresholds, hits and buffer, and whichever of the
\* cheapest pairings is taken: a number is of one track and keeps its class
\* while it is remembered, only what was seen in the frame is handed out, and
\* a track is started or revived only by a confident detection (ByteTracker).
THEOREM TracksAreIdentified == ASSUME TracksAssumption PROVE Tracker!Spec => Tracker!Identified
<1>1. Tracker!Init => IdentityInv
  <2> SUFFICES ASSUME Tracker!Init PROVE IdentityInv
    OBVIOUS
  <2>1. tracked = {} /\ lost = {} /\ nextId = 1 /\ seen = {} /\ Pool = {}
    BY DEF Tracker!Init, Pool
  <2> QED
    BY <2>1, NoneIsFrame DEF IdentityInv, Tracker!TrackedIsSeen, TracksAssumption
<1>2. IdentityInv /\ [Tracker!Next]_Tracker!vars => IdentityInv'
  BY IdentitySteps
<1>3. IdentityInv => Tracker!TypeOK /\ Tracker!TrackedIsSeen
  BY IdentityTyped DEF IdentityInv
<1>4. IdentityInv /\ [Tracker!Next]_Tracker!vars =>
        \A t \in Tracker!Remembered, u \in Tracker!Remembered' : t.id = u.id => t.class = u.class
  BY IdentitySteps DEF Tracker!Remembered, Pool
<1>5. IdentityInv /\ [Tracker!Next]_Tracker!vars =>
        \A t \in tracked' : t.id \notin Tracker!Ids(tracked)
          => \E d \in seen' : d.high /\ d.class = t.class /\ d.place = t.place
  BY IdentitySteps
<1> QED
  BY <1>1, <1>2, <1>3, <1>4, <1>5, PTL
     DEF Tracker!Spec, Tracker!Identified, Tracker!ClassKept, Tracker!WeakNeverRevives

-----------------------------------------------------------------------------
(* The crops of the native frame.                                          *)

CONSTANTS Width, Height, Padding, MinWidth, Regions
VARIABLE due

Cropping == INSTANCE Crops WITH regions <- due

\* The regions are parts of the frame; a crop need not be wider than it.
CropsAssumption ==
    /\ Width \in Nat \ {0} /\ Height \in Nat \ {0} /\ Padding \in Nat /\ MinWidth \in 0..2 * Width
    /\ Regions \subseteq Cropping!Box(2 * Width, 2 * Height)

\* One side of a crop.
LEMMA SideIs ==
  ASSUME NEW from \in Nat, NEW to \in Nat, NEW wanted \in Nat, NEW half \in Nat \ {0},
         from < to, to <= 2 * half, to - from <= wanted, wanted <= 2 * half
  PROVE  LET b == Cropping!Bounds(from, to, wanted, 2 * half)
         IN  /\ b[1] \in 0..half /\ b[2] \in 0..half /\ b[1] < b[2]
             /\ 2 * b[1] <= from /\ 2 * b[2] >= to - 1 /\ 2 * (b[2] - b[1]) >= wanted - 1
<1> DEFINE start == Cropping!Start(from, to, wanted, 2 * half)
           first == start \div 4
           round == Cropping!Rounded(start + 2 * wanted)
           last  == Cropping!Larger(first + 1, Cropping!Smaller((2 * half) \div 2, round))
<1>1. /\ start \in Int /\ start >= 0 /\ start <= 2 * (2 * half - wanted) /\ start <= 2 * from
      /\ start + 2 * wanted >= 2 * to
  BY DEF Cropping!Start, Cropping!Larger, Cropping!Smaller
<1>2. (2 * half) \div 2 = half
  OBVIOUS
<1> HIDE DEF start
<1>3. first \in Int /\ 4 * first <= start /\ start < 4 * first + 4
  BY <1>1
<1>4. round \in Int /\ 4 * round >= start + 2 * wanted - 2
  <2> DEFINE q == start + 2 * wanted
  <2>1. q \in Int /\ round = Cropping!Rounded(q) /\ q = start + 2 * wanted
    BY <1>1
  <2> HIDE DEF q, round
  <2>2. CASE q % 4 = 2
    <3>1. PICK k \in Int : q = 4 * k + 2
      BY <2>1, <2>2
    <3>2. Cropping!Rounded(q) = 2 * ((q + 2) \div 8)
      BY <2>2 DEF Cropping!Rounded
    <3>3. (q + 2) \div 8 \in Int /\ 8 * ((q + 2) \div 8) > q + 2 - 8
      BY <2>1
    <3>4. 8 * ((q + 2) \div 8) >= q - 2
      BY <3>1, <3>3
    <3> QED
      BY <1>1, <2>1, <3>2, <3>3, <3>4
  <2>3. CASE q % 4 # 2
    <3>1. Cropping!Rounded(q) = (q + 1) \div 4
      BY <2>3 DEF Cropping!Rounded
    <3>2. (q + 1) \div 4 \in Int /\ 4 * ((q + 1) \div 4) >= q + 1 - 3
      BY <2>1
    <3> QED
      BY <1>1, <2>1, <3>1, <3>2
  <2> QED
    BY <2>2, <2>3
<1> HIDE DEF first, round
<1>5. last = Cropping!Larger(first + 1, Cropping!Smaller(half, round))
  BY <1>2
<1>6. last \in Int /\ last >= first + 1 /\ (last >= half \/ last >= round) /\ (last = first + 1 \/ last <= half)
  BY <1>3, <1>4, <1>5 DEF Cropping!Larger, Cropping!Smaller
<1>7. Cropping!Bounds(from, to, wanted, 2 * half) = <<first, last>>
  BY Zenon DEF Cropping!Bounds, first, start, round
<1> HIDE DEF last
<1>8. first >= 0 /\ first < half
  BY <1>1, <1>3
<1>9. 2 * first <= from
  BY <1>1, <1>3
<1>10. last <= half /\ 2 * last >= to - 1 /\ 2 * (last - first) >= wanted - 1
  BY <1>1, <1>3, <1>4, <1>6, <1>8
<1> QED
  BY <1>3, <1>6, <1>7, <1>8, <1>9, <1>10

\* A crop of a region.
LEMMA CropIs ==
  ASSUME CropsAssumption, NEW r \in Regions
  PROVE  LET c == Cropping!CropOf(r)
         IN  /\ c \in Cropping!Box(Width, Height)
             /\ 2 * c.x1 <= r.x1 /\ 2 * c.x2 >= r.x2 - 1 /\ 2 * c.y1 <= r.y1 /\ 2 * c.y2 >= r.y2 - 1
             /\ 2 * (c.x2 - c.x1) >= MinWidth - 1
<1> DEFINE w    == r.x2 - r.x1
           h    == r.y2 - r.y1
           wide == Cropping!Larger(w * (1 + Padding), MinWidth)
           asp  == (wide * Height) \div Width
           high == Cropping!Larger(h * (1 + Padding), asp)
           sx   == Cropping!Smaller(2 * Width, wide)
           sy   == Cropping!Smaller(2 * Height, high)
           xs   == Cropping!Bounds(r.x1, r.x2, sx, 2 * Width)
           ys   == Cropping!Bounds(r.y1, r.y2, sy, 2 * Height)
<1>1. /\ r.x1 \in Nat /\ r.x2 \in Nat /\ r.y1 \in Nat /\ r.y2 \in Nat
      /\ r.x1 < r.x2 /\ r.x2 <= 2 * Width /\ r.y1 < r.y2 /\ r.y2 <= 2 * Height
      /\ Width \in Nat \ {0} /\ Height \in Nat \ {0} /\ Padding \in Nat /\ MinWidth \in Nat /\ MinWidth <= 2 * Width
  BY DEF CropsAssumption, Cropping!Box
<1>2. w \in Nat /\ h \in Nat /\ w <= 2 * Width /\ h <= 2 * Height
  BY <1>1
<1> HIDE DEF w, h
<1>3. \A a, b \in Nat : a * (1 + b) \in Nat /\ a * (1 + b) >= a
  <2> SUFFICES ASSUME NEW a \in Nat, NEW b \in Nat PROVE a * (1 + b) \in Nat /\ a * (1 + b) >= a
    OBVIOUS
  <2>1. a * b \in Nat /\ a * (1 + b) = a + a * b
    OBVIOUS
  <2> QED
    BY <2>1
<1>4. wide \in Nat /\ wide >= w /\ wide >= MinWidth
  <2>1. w * (1 + Padding) \in Nat /\ w * (1 + Padding) >= w
    BY <1>1, <1>2, <1>3
  <2> QED
    BY <1>1, <1>2, <2>1 DEF Cropping!Larger
<1> HIDE DEF wide
<1>5. asp \in Int
  BY <1>1, <1>4
<1> HIDE DEF asp
<1>6. high \in Nat /\ high >= h
  <2>1. h * (1 + Padding) \in Nat /\ h * (1 + Padding) >= h
    BY <1>1, <1>2, <1>3
  <2> QED
    BY <1>2, <1>5, <2>1 DEF Cropping!Larger
<1> HIDE DEF high
<1>7. /\ sx \in Nat /\ sx >= w /\ sx >= MinWidth /\ sx <= 2 * Width
      /\ sy \in Nat /\ sy >= h /\ sy <= 2 * Height
  BY <1>1, <1>2, <1>4, <1>6 DEF Cropping!Smaller
<1> HIDE DEF sx, sy
<1>8. /\ xs[1] \in 0..Width /\ xs[2] \in 0..Width /\ xs[1] < xs[2]
      /\ 2 * xs[1] <= r.x1 /\ 2 * xs[2] >= r.x2 - 1 /\ 2 * (xs[2] - xs[1]) >= sx - 1
  BY <1>1, <1>7, SideIs DEF w
<1>9. /\ ys[1] \in 0..Height /\ ys[2] \in 0..Height /\ ys[1] < ys[2]
      /\ 2 * ys[1] <= r.y1 /\ 2 * ys[2] >= r.y2 - 1
  BY <1>1, <1>7, SideIs DEF h
<1>10. Cropping!CropOf(r) = [x1 |-> xs[1], y1 |-> ys[1], x2 |-> xs[2], y2 |-> ys[2]]
  BY Zenon DEF Cropping!CropOf, w, h, wide, asp, high, sx, sy
<1> HIDE DEF xs, ys
<1>11. 2 * (xs[2] - xs[1]) >= MinWidth - 1
  BY <1>1, <1>7, <1>8
<1> QED
  BY <1>8, <1>9, <1>10, <1>11 DEF Cropping!Box

\* For any frame, padding, least width and regions of the frame: a crop is a
\* part of the frame of at least a pixel, shows its region and is as wide as
\* the model needs, both up to half a pixel (_native_crop_bounds).  Lengths
\* are whole half pixels: the height that goes with a width is taken down to
\* one, unless the frame is square.
THEOREM CropsShowRegions == ASSUME CropsAssumption PROVE Cropping!Spec => []Cropping!CropShowsRegion
<1> DEFINE DueInv == due \in Seq(Regions)
<1>1. Cropping!Init => DueInv
  BY DEF Cropping!Init
<1>2. DueInv /\ [Cropping!Next]_due => DueInv'
  <2> SUFFICES ASSUME DueInv, [Cropping!Next]_due PROVE due' \in Seq(Regions)
    OBVIOUS
  <2>1. CASE Cropping!Due
    <3>1. PICK r \in Regions : due' = Append(due, r)
      BY <2>1 DEF Cropping!Due
    <3> QED
      BY <3>1
  <2>2. CASE Cropping!Done
    BY <2>2 DEF Cropping!Done
  <2> QED
    BY <2>1, <2>2 DEF Cropping!Next
<1>3. DueInv => Cropping!CropShowsRegion
  <2> SUFFICES ASSUME DueInv PROVE Cropping!CropShowsRegion
    OBVIOUS
  <2>1. \A i \in 1..Len(due) : due[i] \in Regions
    OBVIOUS
  <2> QED
    BY <2>1, CropIs DEF Cropping!CropShowsRegion
<1> QED
  BY <1>1, <1>2, <1>3, PTL DEF Cropping!Spec
=============================================================================
