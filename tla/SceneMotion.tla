----------------------------- MODULE SceneMotion -----------------------------
(***************************************************************************)
(* SceneMotionDetector (server/app/vision/scene_motion.py): which moving   *)
(* regions of the frame are looked at again in full resolution, and how    *)
(* often.  update runs in a worker thread and claim_rescans on the event   *)
(* loop after it; apply_settings resets the detector on the event loop at  *)
(* any time.                                                               *)
(***************************************************************************)
EXTENDS Integers, FiniteSets, FiniteSetsExt, Functions

CONSTANTS
    Places,      \* where a region may be, a set of numbers
    Rearm,       \* event_rearm_s
    Interval,    \* rescan_interval_s
    Warmup,      \* warmup_s
    Persistence, \* min_persistence_frames
    MaxRescans,  \* max_rescans_per_event
    MaxRegions,  \* max_regions
    MaxEvents    \* bound: events between two resets

Never == -1

VARIABLES
    started,    \* time since _started_at, Never when it is None
    events,     \* _events: number -> where, and when last seen and rescanned
    nextEvent,  \* _next_event_id
    phase,      \* of the tick: "idle", "mask", "assign", "claim"
    regions,    \* the regions of this frame: place -> event, 0 when not assigned
    failed,     \* _last_error
    object      \* history: what was in view, while it was one moving object

vars == <<started, events, nextEvent, phase, regions, failed, object>>

Event == [place: Places, quiet: 0..Rearm + 1, frames: 1..Persistence,
          rescans: 0..MaxRescans, since: Never..Interval]

TypeOK ==
    /\ started \in Never..Warmup /\ nextEvent \in 1..MaxEvents + 1
    /\ DOMAIN events \subseteq 1..nextEvent - 1 /\ events \in [DOMAIN events -> Event]
    /\ phase \in {"idle", "mask", "assign", "claim"} /\ failed \in BOOLEAN
    /\ DOMAIN regions \subseteq Places /\ Cardinality(DOMAIN regions) <= MaxRegions
    /\ \A p \in DOMAIN regions : regions[p] \in 0..MaxEvents

Empty == [p \in {} |-> 0]
Nothing == [single |-> TRUE, at |-> 0, quiet |-> 0, rescans |-> 0, since |-> Never]

Init ==
    /\ started = Never /\ events = Empty /\ nextEvent = 1 /\ phase = "idle" /\ regions = Empty
    /\ failed = FALSE /\ object = Nothing

----------------------------------------------------------------------------
(* Time passes between two frames.                                         *)

UpTo(bound, t) == Min({bound, t + 1})
Elapsed(bound, t) == IF t = Never THEN Never ELSE UpTo(bound, t)

Time ==
    /\ phase = "idle"
    /\ started' = Elapsed(Warmup, started)
    /\ events' = [e \in DOMAIN events |->
                    [events[e] EXCEPT !.quiet = UpTo(Rearm + 1, @), !.since = Elapsed(Interval, @)]]
    /\ object' = [object EXCEPT !.quiet = UpTo(Rearm + 1, @), !.since = Elapsed(Interval, @)]
    /\ UNCHANGED <<nextEvent, phase, regions, failed>>

----------------------------------------------------------------------------
(* update, in the worker.                                                  *)

Begin ==
    /\ phase = "idle" /\ phase' = "mask"
    /\ started' = IF started = Never THEN 0 ELSE started
    /\ UNCHANGED <<events, nextEvent, regions, failed, object>>

\* _expire_events
Expired(es) == Restrict(es, {e \in DOMAIN es : es[e].quiet <= Rearm})

\* Warming up, or too much of the frame changed: no regions.  A reset that
\* took the clock away under the worker makes it fail.
NoRegions ==
    /\ phase = "mask" /\ phase' = "claim" /\ regions' = Empty
    /\ failed' = (started = Never)
    /\ events' = IF failed' THEN events ELSE Expired(events)
    /\ UNCHANGED <<started, nextEvent, object>>

Warm == started >= Warmup

\* _extract_regions: the largest MaxRegions of those that qualify.
Extract ==
    /\ phase = "mask" /\ Warm /\ phase' = "assign"
    /\ \E moving \in SUBSET Places :
         /\ Cardinality(moving) <= MaxRegions /\ regions' = [p \in moving |-> 0]
    /\ UNCHANGED <<started, events, nextEvent, failed, object>>

Near(p, q) == p - q \in {-1, 0, 1}

SlipFreshBudget(e, p) ==
    [events[e] EXCEPT !.place = p, !.quiet = 0, !.frames = Min({Persistence, @ + 1}), !.since = Never]

\* The event of a region that continues it.
SeenAgain(e, p) ==
    [events[e] EXCEPT !.place = p, !.quiet = 0, !.frames = Min({Persistence, @ + 1})]

Fresh(p) == [place |-> p, quiet |-> 0, frames |-> 1, rescans |-> 0, since |-> Never]

\* Events for the regions: each takes one that matches, each of another, and
\* a new one when all that match are taken.
Assignments(live) ==
    LET new == nextEvent..nextEvent + Cardinality(DOMAIN regions) - 1
    IN  {f \in Injection(DOMAIN regions, live \cup new) :
           \A p \in DOMAIN f :
             IF f[p] \in live
             THEN Near(events[f[p]].place, p)
             ELSE /\ \A e \in live : Near(events[e].place, p) => e \in Range(f)
                  /\ \A n \in nextEvent..f[p] : n \in Range(f)}

\* One object goes on being one: a single region, near where it last was.
Followed(moving) ==
    LET gone == object.at = 0 \/ object.quiet > Rearm
        past == IF gone THEN Nothing ELSE object
    IN  IF moving = {} THEN past
        ELSE [past EXCEPT !.quiet = 0, !.at = Min(moving),
                !.single = @ /\ Cardinality(moving) = 1 /\ (past.at = 0 \/ Near(past.at, Min(moving)))]

\* _assign_events, which expires the others first.
Assign ==
    LET live == DOMAIN Expired(events)
    IN  /\ phase = "assign" /\ phase' = "claim"
        /\ \E f \in Assignments(live) :
             /\ Range(f) \subseteq 1..MaxEvents
             /\ regions' = f
             /\ events' = [e \in live \cup Range(f) |->
                             IF e \notin Range(f) THEN events[e]
                             ELSE LET p == CHOOSE q \in DOMAIN f : f[q] = e
                                  IN  IF e \in live THEN SeenAgain(e, p) ELSE Fresh(p)]
             /\ nextEvent' = Max({nextEvent} \cup {f[p] + 1 : p \in DOMAIN f})
             /\ object' = Followed(DOMAIN f)
             /\ failed' = FALSE
        /\ UNCHANGED started

----------------------------------------------------------------------------
(* The event loop.                                                         *)

Claimed(due) ==
    [e \in DOMAIN events |->
       IF e \in due THEN [events[e] EXCEPT !.since = 0, !.rescans = @ + 1] ELSE events[e]]

\* claim_rescans, for the regions no detection explains.
Claim ==
    /\ phase = "claim" /\ phase' = "idle" /\ regions' = Empty
    /\ \E unexplained \in SUBSET (Range(regions) \cap DOMAIN events) :
         LET due == {e \in unexplained :
                       /\ events[e].frames >= Persistence /\ events[e].rescans < MaxRescans
                       /\ events[e].since = Never \/ events[e].since >= Interval}
         IN  /\ events' = Claimed(due)
             /\ object' = IF due = {} THEN object
                          ELSE [object EXCEPT !.rescans = Min({MaxRescans + 1, @ + 1}), !.since = 0]
    /\ UNCHANGED <<started, nextEvent, failed>>

Forget == events' = Empty

\* reset, or update_settings with others.
Reset ==
    /\ started' = Never /\ Forget /\ nextEvent' = 1 /\ failed' = FALSE
    /\ object' = Nothing
    /\ UNCHANGED <<phase, regions>>

Next == Time \/ Begin \/ NoRegions \/ Extract \/ Assign \/ Claim \/ Reset

Spec == Init /\ [][Next]_vars

----------------------------------------------------------------------------
(* Properties.                                                             *)

\* An object that keeps moving about alone is looked at MaxRescans times in
\* all, however long it stays and wherever it goes, until it has been still
\* for the rearm time.
ObjectBudget == object.single => object.rescans <= MaxRescans

\* And never twice within the interval.
ObjectPaced ==
    [][(object.single /\ object'.rescans > object.rescans)
       => (object.since = Never \/ object.since >= Interval)]_vars

\* A region is looked at again only when the background has been learnt: not
\* in the warm-up after a reset.  A reset that falls into an update, between
\* its look at the clock and its claim, lets through what appears to the
\* forgetful detector in this one frame, if one frame is enough.
LooksWhenLearnt ==
    object'.rescans > object.rescans
    => started >= Warmup \/ (started = Never /\ Persistence = 1)

LearntFirst == [][LooksWhenLearnt]_vars

\* All three, and the types.
Rationed == [](TypeOK /\ ObjectBudget) /\ ObjectPaced /\ LearntFirst

\* False with one frame, see README: the settings call it "Ignore proposals
\* while the adaptive background model is first learning" (warmup_s).
LearntAlways == [][object'.rescans > object.rescans => started >= Warmup]_vars
=============================================================================
