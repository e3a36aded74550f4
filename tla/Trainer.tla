------------------------------- MODULE Trainer -------------------------------
(***************************************************************************)
(* The desktop trainer shipped with a dataset export: services/            *)
(* training_assets/train_model.py.  Three kinds of thread share the        *)
(* attributes of TrainerGui: Tk's main thread (start, cancel, _poll), one  *)
(* _run thread for each start, and behind it one child process at a time   *)
(* (pip, the hardware check, the training worker), whose output the _run   *)
(* thread reads.                                                           *)
(***************************************************************************)
EXTENDS Naturals, Sequences, FiniteSets

CONSTANTS
    MaxRuns,      \* bound: times Start is pressed
    MaxInstalls   \* bound: pip processes of one run (3 in the code)

VARIABLES
    pc,        \* each run's place in _run: <<stage, step>>
    installs,  \* pip processes each run may still need
    child,     \* each run's child process: "none", "working", "reported", "dead"
    code,      \* its exit code is zero
    process,   \* self.process: the run whose child it is, or 0
    cancelRequested, failure,  \* self.cancel_requested, self.worker_failure
    events,    \* the queue _poll drains
    polling,   \* _poll is draining it: no other callback of Tk runs
    buttons,   \* which one is enabled: "start" or "cancel"
    shown,     \* what _finish_controls last showed
    completed, \* history: runs whose training was reported complete
    late       \* history: those of them whose thread found cancel pressed as well

gui  == <<process, cancelRequested, buttons, shown, polling>>
vars == <<pc, installs, child, code, gui, failure, events, completed, late>>

Runs == 1..MaxRuns
Stages == {"pip", "probe", "train", "retry"}
Training == {"train", "retry"}
Idle == <<"none", "none">>
Done == <<"done", "none">>
Stage(r) == pc[r][1]

\* The steps of _stream_process: Popen, register, read, register(None).
Steps == {"spawn", "register", "read", "unregister"}

TypeOK ==
    /\ pc \in [Runs -> {Idle, Done, <<"env", "none">>} \cup (Stages \X Steps)]
    /\ installs \in [Runs -> 0..MaxInstalls]
    /\ child \in [Runs -> {"none", "working", "reported", "dead"}]
    /\ code \in [Runs -> BOOLEAN] /\ process \in 0..MaxRuns
    /\ {cancelRequested, polling} \subseteq BOOLEAN
    /\ failure \in {"none", "plain", "retryable"}
    /\ buttons \in {"start", "cancel"}
    /\ shown \in {"nothing", "complete", "cancelled", "error"}
    /\ completed \subseteq Runs /\ late \subseteq Runs
    /\ \A r \in Runs : child[r] # "none" => pc[r][2] \in {"register", "read", "unregister"}

Init ==
    /\ pc = [r \in Runs |-> Idle] /\ installs = [r \in Runs |-> MaxInstalls]
    /\ child = [r \in Runs |-> "none"] /\ code = [r \in Runs |-> TRUE]
    /\ process = 0 /\ cancelRequested = FALSE /\ failure = "none"
    /\ events = <<>> /\ polling = FALSE /\ buttons = "start" /\ shown = "nothing"
    /\ completed = {} /\ late = {}

----------------------------------------------------------------------------
(* Tk's thread.                                                            *)

Start ==
    /\ ~polling /\ buttons = "start"
    /\ \E r \in Runs :
         /\ pc[r] = Idle /\ \A s \in Runs : s < r => pc[s] # Idle
         /\ pc' = [pc EXCEPT ![r] = <<"env", "none">>]
    /\ cancelRequested' = FALSE /\ buttons' = "cancel" /\ shown' = "nothing"
    /\ UNCHANGED <<installs, child, code, process, failure, events, polling, completed, late>>

\* cancel, and _close once it is confirmed.
Working(r) == child[r] \in {"working", "reported"}
Newest(r) == \A s \in Runs : s > r => pc[s] = Idle

Terminate ==
    /\ cancelRequested' = TRUE
    /\ IF process # 0 /\ Working(process)
       THEN /\ child' = [child EXCEPT ![process] = "dead"]
            /\ code' = [code EXCEPT ![process] = FALSE]
       ELSE UNCHANGED <<child, code>>

Cancel ==
    /\ ~polling /\ buttons = "cancel"
    /\ Terminate
    /\ late' = late \cup {r \in completed : pc[r] # Done}
    /\ UNCHANGED <<pc, installs, process, failure, events, polling, buttons, shown, completed>>

SlipStartStays(kind) ==
    process' = 0 /\ shown' = kind /\ buttons' = IF kind = "cancelled" THEN buttons ELSE "start"

FinishControls(kind) == process' = 0 /\ shown' = kind /\ buttons' = "start"

SlipFailureFinishes == {"complete", "cancelled", "error", "failure"}

Finishing == {"complete", "cancelled", "error"}

Poll ==
    \/ /\ events # <<>>
       /\ polling' = TRUE /\ events' = Tail(events)
       /\ IF Head(events) \in Finishing
          THEN FinishControls(Head(events))
          ELSE UNCHANGED <<process, buttons, shown>>   \* a failure: the status line only
       /\ UNCHANGED <<pc, installs, child, code, cancelRequested, failure, completed, late>>
    \/ /\ events = <<>> /\ polling /\ polling' = FALSE
       /\ UNCHANGED <<pc, installs, child, code, process, cancelRequested, failure, events,
                      buttons, shown, completed, late>>

----------------------------------------------------------------------------
(* The _run thread.                                                        *)

Goto(r, place) == pc' = [pc EXCEPT ![r] = place]
End(r, e) == Goto(r, Done) /\ events' = e

PipNeeded(r) == installs[r] > 0

\* _ensure_environment runs pip as often as something is missing, or fails;
\* what it finds is the machine's.
EnsureEnvironment(r) ==
    /\ pc[r] = <<"env", "none">>
    /\ \/ /\ PipNeeded(r)
          /\ installs' = [installs EXCEPT ![r] = @ - 1]
          /\ Goto(r, <<"pip", "spawn">>) /\ UNCHANGED events
       \/ /\ End(r, Append(events, "error")) /\ UNCHANGED installs
       \/ /\ IF cancelRequested
             THEN End(r, Append(events, "cancelled"))
             ELSE Goto(r, <<"probe", "spawn">>) /\ UNCHANGED events
          /\ UNCHANGED installs
    /\ UNCHANGED <<child, code, gui, failure, completed, late>>

\* _stream_process, and _run_training_worker before it.
Spawn(r) ==
    /\ pc[r][2] = "spawn"
    /\ failure' = IF Stage(r) \in Training THEN "none" ELSE failure
    /\ child' = [child EXCEPT ![r] = "working"]
    /\ Goto(r, <<Stage(r), "register">>)
    /\ UNCHANGED <<installs, code, gui, events, completed, late>>

Register(r) ==
    /\ pc[r][2] = "register"
    /\ process' = r
    /\ Goto(r, <<Stage(r), "read">>)
    /\ UNCHANGED <<installs, child, code, cancelRequested, buttons, shown, polling, failure,
                   events, completed, late>>

\* A training worker reports how it ended just before it exits.
Report(r) ==
    /\ pc[r][2] = "read" /\ Stage(r) \in Training /\ child[r] = "working"
    /\ child' = [child EXCEPT ![r] = "reported"]
    /\ \E outcome \in {"complete", "plain", "retryable"} :
         /\ failure' = IF outcome = "complete" THEN failure ELSE outcome
         /\ events' = Append(events, IF outcome = "complete" THEN outcome ELSE "failure")
         /\ completed' = IF outcome = "complete" THEN completed \cup {r} ELSE completed
         /\ late' = IF outcome = "complete" /\ cancelRequested THEN late \cup {r} ELSE late
         /\ code' = [code EXCEPT ![r] = (outcome = "complete")]
    /\ UNCHANGED <<pc, installs, gui>>

Exit(r) ==
    /\ pc[r][2] = "read"
    /\ \/ child[r] = "reported" /\ UNCHANGED code
       \/ /\ child[r] = "working"
          /\ Stage(r) \notin Training /\ \E ok \in BOOLEAN : code' = [code EXCEPT ![r] = ok]
    /\ child' = [child EXCEPT ![r] = "dead"]
    /\ UNCHANGED <<pc, installs, gui, failure, events, completed, late>>

Read(r) ==
    /\ pc[r][2] = "read" /\ child[r] = "dead"
    /\ Goto(r, <<Stage(r), "unregister">>)
    /\ UNCHANGED <<installs, child, code, gui, failure, events, completed, late>>

MayRetry == ~cancelRequested /\ failure = "retryable"

\* register(None) and what _run does with the exit code.
AfterPip(r) ==
    IF code[r] THEN Goto(r, <<"env", "none">>) /\ UNCHANGED events
               ELSE End(r, Append(events, "error"))

AfterProbe(r) ==
    IF code[r] THEN Goto(r, <<"train", "spawn">>) /\ UNCHANGED events
               ELSE End(r, Append(events, "error"))

AfterTraining(r) ==
    IF ~code[r] /\ Stage(r) = "train" /\ MayRetry
    THEN Goto(r, <<"retry", "spawn">>) /\ UNCHANGED events
    ELSE End(r, CASE cancelRequested -> Append(events, "cancelled")
                  [] ~cancelRequested /\ ~code[r] -> Append(events, "error")
                  [] OTHER -> events)

Unregister(r) ==
    /\ pc[r][2] = "unregister"
    /\ process' = 0
    /\ child' = [child EXCEPT ![r] = "none"]
    /\ CASE Stage(r) = "pip" -> AfterPip(r)
         [] Stage(r) = "probe" -> AfterProbe(r)
         [] OTHER -> AfterTraining(r)
    /\ UNCHANGED <<installs, code, cancelRequested, buttons, shown, polling, failure,
                   completed, late>>

Run(r) == EnsureEnvironment(r) \/ Spawn(r) \/ Register(r) \/ Read(r) \/ Unregister(r)

\* The last run of the bound is over, and the window stays open.
Over == (\A r \in Runs : pc[r] = Done) /\ events = <<>> /\ ~polling /\ UNCHANGED vars

Next ==
    \/ Start \/ Cancel \/ Poll \/ Over
    \/ \E r \in Runs : Run(r) \/ Report(r) \/ Exit(r)

Spec == Init /\ [][Next]_vars

\* Tk calls _poll every 100 ms, the _run threads run.
Threads == WF_vars(Poll) /\ \A r \in Runs : WF_vars(Run(r))
FairSpec == Spec /\ Threads

\* A child process may train for ever; assumed below, where it is needed,
\* that it ends by itself sooner or later.
ChildrenEnd == \A r \in Runs : WF_vars(Report(r)) /\ WF_vars(Exit(r))

----------------------------------------------------------------------------
(* Properties.                                                             *)

\* Start stays disabled while a run can still start a worker or its worker
\* trains, so that two never write one configuration file and one run
\* directory, unless a run completed whose thread then found cancel
\* pressed: its completion enables Start, and its end does so again in the
\* middle of the next run.
OneWorker ==
    late # {} \/ Cardinality({r \in Runs : Stage(r) \in Training /\ child[r] = "working"}) <= 1

\* What is shown of a completed training stays: its run's thread has
\* nothing to add, unless cancel was pressed during that run.
CompleteStays ==
    [][ (shown = "complete" /\ late = {} /\ ~cancelRequested)
        => shown' \in {"complete", "nothing"} ]_vars

\* Both, and the types.
RunsKept == [](TypeOK /\ OneWorker) /\ CompleteStays

\* Cancelling a child that is registered ends the run: nothing waits for
\* the training to end by itself, no retry is made.
CancelEnds ==
    \A r \in Runs :
        (cancelRequested /\ child[r] = "dead" /\ ~code[r] /\ late = {} /\ Newest(r))
        ~> (pc[r] = Done \/ late # {})

\* However a run ends, if its children do, the controls come back.
ControlsReturn == ChildrenEnd => ((buttons = "cancel") ~> (buttons = "start"))

\* What cancel is for: once it was pressed, no training worker is started.
CancelStartsNothing ==
    [][ \A r \in Runs : cancelRequested /\ Stage(r) = "probe" => pc'[r] # <<"train", "spawn">> ]_vars
=============================================================================
