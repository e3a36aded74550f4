------------------------------- MODULE Vision -------------------------------
(***************************************************************************)
(* VisionPipeline (server/app/vision/pipeline.py) on the latest frames of  *)
(* the sources CameraManager runs (server/app/camera/).  The pipeline and  *)
(* the settings' listener are coroutines of one event loop and a step ends *)
(* at an await; each source fills its one-frame buffer from a thread.  A   *)
(* source is never started twice: the manager replaces it by a new object, *)
(* here a new generation.                                                  *)
(***************************************************************************)
EXTENDS Naturals, FiniteSets

CONSTANTS
    Cams,        \* camera identifiers
    Models,      \* detector settings
    Disabled,    \* those with enabled = False
    Stall,       \* stall_timeout_s
    MaxSeq,      \* bound: frames of one source
    MaxGen,      \* bound: sources
    MaxChanges   \* bound: settings updates and credential changes

ASSUME VisionAssumption ==
    /\ Disabled \subseteq Models /\ 0 \notin Models
    /\ {Stall, MaxSeq, MaxGen, MaxChanges} \subseteq Nat
    /\ IsFiniteSet(Cams) /\ Cardinality(Cams) <= MaxGen /\ "none" \notin Cams

VARIABLES
    sources,   \* _sources: camera -> generation, 0 when there is none
    thread,    \* what its thread does: "open" (or waits to), "read"
    quiet,     \* time since its last frame, or since it connected
    slot,      \* its buffer: sequence number of the frame, 0 when empty
    seq,       \* frames published by it
    made,      \* sources made so far
    job,       \* what the manager is doing: cameras to restart, and for whom
    changes,   \* updates so far
    settings,  \* _settings of the pipeline: primary camera and detector
    detector,  \* _detector: its settings and whether it loaded
    loading,   \* settings of the candidate being loaded, 0 when none is
    flags,     \* _reload, _error, _reload_error
    pc,        \* the pipeline's place in _tick
    frame,     \* the frame in hand
    lastSeq,   \* _last_frame_seq; 0 for -1
    latest,    \* _latest: the frame it is of
    tracks,    \* generations whose detections the tracker remembers
    mixed      \* history: why it may remember more than one

camera   == <<sources, thread, quiet, slot, seq, made>>
manager  == <<job, changes>>
pipeline == <<settings, detector, loading, flags, pc, frame, lastSeq, latest, tracks>>
vars     == <<camera, manager, pipeline, mixed>>

None == [cam |-> "none", gen |-> 0, seq |-> 0, age |-> 0]
Unset == [cam |-> "none", model |-> 0]
NoJob == [todo |-> {}, now |-> "none", new |-> Unset]
Settings == [cam: Cams, model: Models]
Flags == [reload: BOOLEAN, error: BOOLEAN, reloadError: BOOLEAN]
Frames == [cam: Cams, gen: 1..MaxGen, seq: 1..MaxSeq, age: 0..Stall + 1]
InFlight == pc \in {"infer", "track"}

TypeOK ==
    /\ sources \in [Cams -> 0..MaxGen] /\ thread \in [Cams -> {"open", "read"}]
    /\ quiet \in [Cams -> 0..Stall + 1] /\ {slot, seq} \subseteq [Cams -> 0..MaxSeq]
    /\ made \in 0..MaxGen /\ changes \in 0..MaxChanges
    /\ job \in [todo: SUBSET Cams, now: Cams \cup {"none"}, new: Settings \cup {Unset}]
    /\ settings \in Settings /\ detector \in [model: Models \cup {0}, loaded: BOOLEAN]
    /\ loading \in Models \cup {0} /\ flags \in Flags
    /\ pc \in {"tick", "load", "pick", "infer", "track", "listen"}
    /\ lastSeq \in 0..MaxSeq /\ tracks \subseteq 1..MaxGen /\ mixed \in BOOLEAN
    /\ {frame, latest} \subseteq Frames \cup {None}
    /\ \A c \in Cams : slot[c] # 0 => sources[c] # 0 /\ slot[c] = seq[c]

Init ==
    /\ made = Cardinality(Cams) /\ sources \in [Cams -> 1..made]
    /\ \A c, d \in Cams : c # d => sources[c] # sources[d]
    /\ thread = [c \in Cams |-> "open"] /\ quiet = [c \in Cams |-> 0]
    /\ slot = [c \in Cams |-> 0] /\ seq = [c \in Cams |-> 0]
    /\ job = NoJob /\ changes = 0
    /\ settings \in Settings /\ detector = [model |-> 0, loaded |-> FALSE] /\ loading = 0
    /\ flags = [reload |-> TRUE, error |-> FALSE, reloadError |-> FALSE]
    /\ pc = "tick" /\ frame = None /\ lastSeq = 0 /\ latest = None /\ tracks = {}
    /\ mixed = FALSE

----------------------------------------------------------------------------
(* The source's thread: RtspCameraSource._run.                             *)

Running(c) == sources[c] # 0

\* The camera answers, or reconnect_delay_s passes until the next attempt.
Open(c) ==
    /\ Running(c) /\ thread[c] = "open"
    /\ thread' = [thread EXCEPT ![c] = "read"] /\ quiet' = [quiet EXCEPT ![c] = 0]
    /\ UNCHANGED <<sources, slot, seq, made, manager, pipeline, mixed>>

Publish(c) ==
    /\ Running(c) /\ thread[c] = "read" /\ seq[c] < MaxSeq
    /\ seq' = [seq EXCEPT ![c] = @ + 1] /\ slot' = [slot EXCEPT ![c] = seq'[c]]
    /\ quiet' = [quiet EXCEPT ![c] = 0]
    /\ UNCHANGED <<sources, thread, made, manager, pipeline, mixed>>

\* No frame within the timeout: release, clear the buffer, open again.
Reconnect(c) ==
    /\ Running(c) /\ thread[c] = "read" /\ quiet[c] > Stall
    /\ thread' = [thread EXCEPT ![c] = "open"] /\ slot' = [slot EXCEPT ![c] = 0]
    /\ UNCHANGED <<sources, quiet, seq, made, manager, pipeline, mixed>>

Older(age) == IF age > Stall THEN age ELSE age + 1
Aged(f) == IF f = None THEN f ELSE [f EXCEPT !.age = Older(@)]

Time ==
    /\ quiet' = [c \in Cams |-> Older(quiet[c])]
    /\ frame' = Aged(frame) /\ latest' = Aged(latest)
    /\ UNCHANGED <<sources, thread, slot, seq, made, manager, settings, detector, loading, flags,
                   pc, lastSeq, tracks, mixed>>

----------------------------------------------------------------------------
(* Settings: the listener lets the manager restart the cameras that        *)
(* changed, one after the other, and then tells the pipeline, in one step  *)
(* with the end of the last start.  A credential change restarts one       *)
(* camera and tells nobody.                                                *)

Enabled == settings.model \notin Disabled

SlipTrackerKept == latest' = None /\ tracks' = tracks

\* _invalidate_result: nothing to do unless there is a result.
Invalidate ==
    /\ latest' = None
    /\ tracks' = IF latest = None THEN tracks ELSE {}

SlipReloadLater(new) ==
    flags' = IF new.model # settings.model
             THEN [flags EXCEPT !.reload = ~detector.loaded, !.reloadError = FALSE] ELSE flags

ReloadIfChanged(new) ==
    flags' = IF new.model # settings.model
             THEN [flags EXCEPT !.reload = TRUE, !.reloadError = FALSE] ELSE flags

\* apply_settings; `moved`: the cameras' section changed.
ApplySettings(new, moved) ==
    /\ settings' = new /\ ReloadIfChanged(new)
    /\ IF moved THEN Invalidate /\ lastSeq' = 0
                ELSE UNCHANGED <<latest, tracks, lastSeq>>
    /\ mixed' = ((moved /\ InFlight) \/ (mixed /\ (tracks' # {} \/ InFlight)))
    /\ UNCHANGED <<detector, loading, pc, frame>>

\* _on_settings_changed, up to its first await.
Change ==
    /\ job = NoJob /\ changes < MaxChanges /\ changes' = changes + 1
    /\ \E new \in Settings, restart \in SUBSET Cams :
         /\ new # settings \/ restart # {}
         /\ IF restart = {}
            THEN ApplySettings(new, new.cam # settings.cam) /\ UNCHANGED job
            ELSE /\ job' = [todo |-> restart, now |-> "none", new |-> new]
                 /\ UNCHANGED <<pipeline, mixed>>
    /\ UNCHANGED camera

Credentials(c) ==
    /\ job = NoJob /\ changes < MaxChanges /\ changes' = changes + 1
    /\ job' = [todo |-> {c}, now |-> "none", new |-> Unset]
    /\ UNCHANGED <<camera, pipeline, mixed>>

\* _stop_source: out of the table at once, stopped in a thread.
Unlist(c) == sources' = [sources EXCEPT ![c] = 0] /\ slot' = [slot EXCEPT ![c] = 0]

StopSource(c) ==
    /\ c \in job.todo /\ job.now = "none" /\ made < MaxGen
    /\ job' = [job EXCEPT !.now = c] /\ Unlist(c)
    /\ UNCHANGED <<thread, quiet, seq, made, changes, pipeline, mixed>>

Untold(c) == mixed' = (mixed \/ c = settings.cam)

\* The new source is started in a thread and then listed.  The pipeline goes on
\* meanwhile, and is not told of a primary listed before the last one.
StartSource(c) ==
    LET left == job.todo \ {c}
    IN  /\ job.now = c
        /\ made' = made + 1 /\ sources' = [sources EXCEPT ![c] = made']
        /\ thread' = [thread EXCEPT ![c] = "open"] /\ quiet' = [quiet EXCEPT ![c] = 0]
        /\ slot' = [slot EXCEPT ![c] = 0] /\ seq' = [seq EXCEPT ![c] = 0]
        /\ IF left # {}
           THEN /\ job' = [job EXCEPT !.todo = left, !.now = "none"]
                /\ Untold(c) /\ UNCHANGED pipeline
           ELSE /\ job' = NoJob
                /\ IF job.new = Unset
                   THEN Untold(c) /\ UNCHANGED pipeline
                   ELSE ApplySettings(job.new, TRUE)
        /\ UNCHANGED changes

----------------------------------------------------------------------------
(* The pipeline: _tick, from await to await.                               *)

Goto(place) == pc' = place
Remembered == mixed' = (mixed /\ (tracks' # {} \/ InFlight'))

\* `latest`: what the targeting loop may act on.
Actionable ==
    /\ latest # None /\ latest.cam = settings.cam
    /\ Running(latest.cam) /\ thread[latest.cam] = "read"
    /\ latest.age <= Stall

\* Detection is off, or _ensure_detector has nothing to do or begins a load.
Begin ==
    /\ pc = "tick"
    /\ \/ /\ ~Enabled
          /\ Invalidate /\ UNCHANGED <<detector, loading, flags, pc>>
       \/ /\ Enabled /\ detector.model # 0 /\ ~flags.reload
          /\ Goto("pick") /\ UNCHANGED <<detector, loading, flags, latest, tracks>>
       \/ /\ Enabled /\ (detector.model = 0 \/ flags.reload)
          /\ loading' = settings.model /\ flags' = [flags EXCEPT !.reload = FALSE]
          /\ Goto("load") /\ UNCHANGED <<detector, latest, tracks>>
    /\ Remembered /\ UNCHANGED <<camera, manager, settings, frame, lastSeq>>

\* The candidate loaded; it is stale when its settings no longer hold.
Loaded ==
    IF loading # settings.model
    THEN flags' = [flags EXCEPT !.reload = TRUE] /\ UNCHANGED detector
    ELSE /\ detector' = [model |-> loading, loaded |-> TRUE]
         /\ flags' = [flags EXCEPT !.error = FALSE, !.reloadError = FALSE]

SlipFailureReplaces ==
    /\ flags' = [flags EXCEPT !.reloadError = TRUE, !.error = TRUE]
    /\ detector' = [model |-> loading, loaded |-> FALSE]

\* A candidate that failed takes the place of nothing that works.
LoadFailed ==
    IF loading # settings.model
    THEN flags' = [flags EXCEPT !.reload = TRUE] /\ UNCHANGED detector
    ELSE IF detector.loaded
         THEN flags' = [flags EXCEPT !.reloadError = TRUE] /\ UNCHANGED detector
         ELSE /\ flags' = [flags EXCEPT !.reloadError = TRUE, !.error = TRUE]
              /\ detector' = [model |-> loading, loaded |-> FALSE]

LoadEnds ==
    /\ pc = "load" /\ (Loaded \/ LoadFailed)
    /\ loading' = 0 /\ Goto("pick")
    /\ UNCHANGED <<camera, manager, settings, frame, lastSeq, latest, tracks, mixed>>

SlipFrozenKept == UNCHANGED <<latest, tracks>>

\* No frame or no new one: a result that is no longer actionable goes.
NothingNew == IF latest # None /\ ~Actionable THEN Invalidate ELSE UNCHANGED <<latest, tracks>>

Pick ==
    /\ pc = "pick"
    /\ LET c == settings.cam
       IN  CASE ~detector.loaded ->
                  Invalidate /\ Goto("tick") /\ UNCHANGED <<frame, lastSeq>>
             [] detector.loaded /\ slot[c] \in {0, lastSeq} ->
                  NothingNew /\ Goto("tick") /\ UNCHANGED <<frame, lastSeq>>
             [] OTHER ->
                  /\ frame' = [cam |-> c, gen |-> sources[c], seq |-> slot[c], age |-> quiet[c]]
                  /\ lastSeq' = slot[c] /\ Goto("infer") /\ UNCHANGED <<latest, tracks>>
    /\ Remembered /\ UNCHANGED <<camera, manager, settings, detector, loading, flags>>

\* detector.infer, scene motion and rescans in threads; _run catches what
\* they raise.
Infer ==
    /\ pc = "infer"
    /\ \/ Goto("track") /\ UNCHANGED <<flags, frame, latest, tracks>>
       \/ /\ Invalidate /\ flags' = [flags EXCEPT !.error = TRUE]
          /\ frame' = None /\ Goto("tick")
    /\ Remembered /\ UNCHANGED <<camera, manager, settings, detector, loading, lastSeq>>

\* The tracker and the result, which the listeners are then handed.
Track ==
    /\ pc = "track"
    /\ tracks' = tracks \cup {frame.gen} /\ latest' = frame /\ frame' = None
    /\ flags' = [flags EXCEPT !.error = FALSE] /\ Goto("listen")
    /\ UNCHANGED <<camera, manager, settings, detector, loading, lastSeq, mixed>>

Listen ==
    /\ pc = "listen" /\ Goto("tick")
    /\ UNCHANGED <<camera, manager, settings, detector, loading, flags, frame, lastSeq, latest,
                   tracks, mixed>>

Tick == Begin \/ LoadEnds \/ Pick \/ Infer \/ Track \/ Listen
Manage == Change \/ \E c \in Cams : Credentials(c) \/ StopSource(c) \/ StartSource(c)

Next == Tick \/ Manage \/ Time \/ \E c \in Cams : Open(c) \/ Publish(c) \/ Reconnect(c)

Spec == Init /\ [][Next]_vars

\* _run loops for ever, threads return, time passes.
FairSpec == Spec /\ WF_vars(Tick) /\ WF_vars(Time)
                 /\ \A c \in Cams : WF_vars(StopSource(c)) /\ WF_vars(StartSource(c))

----------------------------------------------------------------------------
(* Properties.                                                             *)

\* "When replacing a working model, keep that model alive": once a detector
\* has loaded there is always one that works, whatever fails later.
WorkingDetectorKept == [][detector.loaded => detector'.loaded]_vars

\* `healthy`: what the dashboard shows as healthy, with no reload pending,
\* runs the settings it was given last, however the loads and the updates
\* overlapped.
Healthy == detector.loaded /\ ~flags.error /\ ~flags.reloadError
Pending == flags.reload \/ pc = "load"
HealthyIsCurrent == Enabled /\ Healthy /\ ~Pending => detector.model = settings.model

\* A reload that is asked for ends: it runs the settings, or reports.
ReloadSettles ==
    (flags.reload /\ Enabled)
    ~> (~Enabled \/ flags.reloadError \/ (~Pending /\ detector.model = settings.model))

\* A frozen stream, a lost camera or a switched one does not leave its last
\* result: one that is not actionable is discarded, with the track history.
StaleResultGoes == (latest # None /\ ~Actionable) ~> (latest = None \/ Actionable)

\* Both, since each depends on the loop coming round again.
PipelineSettles == ReloadSettles /\ StaleResultGoes

\* "Never carry detections or track history across a primary-camera switch
\* or source restart": the tracker remembers one source, unless a tick was
\* under way when the pipeline was told, or the primary was restarted and the
\* pipeline is not told, as for credentials, or not yet, as while another
\* camera is restarted after it.  The variables have their types.
OneSourceTracked == TypeOK /\ (Cardinality(tracks) > 1 => mixed)

\* The same without the exceptions.
NeverCarried == Cardinality(tracks) <= 1
=============================================================================
