----------------------------- MODULE SprayGuard -----------------------------
(***************************************************************************)
(* The water budget with its two kinds of users.  The targeting loop       *)
(* checks and records a burst in one step (state_machine.py, _on_spray).   *)
(* An operator's request (runtime.py, manual_spray) checks, awaits the     *)
(* acknowledgement of the controller, and records only then: other         *)
(* requests and the loop run in between.                                   *)
(***************************************************************************)
EXTENDS SprayBudget, Integers, Sequences, FiniteSets

CONSTANTS
    Configs,    \* the SpraySettings a deployment may have
    Requests,   \* the durations an operator may ask for
    Operators,  \* the requests the HTTP API may be serving at once
    MaxLost     \* bound: acknowledgements lost within one Horizon

ASSUME ConfigsAssumption == \A c \in Configs : IsConfig(c)
ASSUME GuardAssumption == Floor \in Nat \ {0} /\ MaxLen \in Nat \ {0} /\ MaxLost \in Nat
ASSUME RequestsAssumption == Requests \subseteq Int
ASSUME OperatorsAssumption == {"nobody", "lost"} \cap Operators = {}

VARIABLES
    cfg,       \* SprayGuard.settings
    armed,     \* Runtime.armed
    history,   \* SprayGuard._history
    inflight,  \* for each operator request: the duration being acknowledged, or 0
    sent,      \* history variable: the bursts the server commanded, refused
               \* ones left out, each with who is still waiting for its ack,
               \* whether it was granted over somebody else's waiting, and
               \* whether behind a gap
    gap        \* history variable: the age of the youngest burst the full deque
               \* dropped, window + 1 if it dropped none that still counts

vars == <<cfg, armed, history, inflight, sent, gap>>

Nobody == "nobody"  \* nobody waits for this burst (any longer)
Lost == "lost"  \* its acknowledgement did not come in time

Larger(m, n) == IF m < n THEN n ELSE m

\* How long a burst matters to a property.
Horizon == Larger(cfg.window, cfg.interval)

TypeOK ==
    /\ cfg \in Configs
    /\ armed \in BOOLEAN
    /\ history \in Seq([age : 0..cfg.window + 1, ms : Nat \ {0}]) /\ Len(history) <= MaxLen
    /\ inflight \in [Operators -> Nat]
    /\ sent \in Seq([age : 0..Horizon, ms : Nat \ {0}, by : Operators \cup {Nobody, Lost},
                     over : BOOLEAN, blind : BOOLEAN])
    /\ gap \in 0..cfg.window + 1

Init ==
    /\ cfg \in Configs
    /\ armed = FALSE
    /\ history = <<>>
    /\ inflight = [o \in Operators |-> 0]
    /\ sent = <<>>
    /\ gap = cfg.window + 1

Pruned == Prune(history, cfg)

Waiting == {o \in Operators : inflight[o] > 0}

Command(ms, o) ==
    sent' = Append(sent, [age |-> 0, ms |-> ms, by |-> o,
                          over |-> Waiting # {}, blind |-> gap <= cfg.window])

\* record, of a history that may be full.
Record(h, ms) ==
    /\ history' = Recorded(h, cfg, ms)
    /\ gap' = IF Len(h) = MaxLen /\ h[1].age < gap THEN h[1].age ELSE gap

\* _on_spray: check and record at the same instant, before the command is
\* even sent; the default duration is asked for.
AutoSpray ==
    /\ armed
    /\ Allowed(Pruned, cfg)
    /\ LET ms == Grant(Pruned, cfg, cfg.default) IN
         /\ Record(Pruned, ms)
         /\ Command(ms, Nobody)
    /\ UNCHANGED <<cfg, armed, inflight>>

\* manual_spray up to its await: the check passes and the command leaves.
ManualCheck(o) ==
    /\ armed
    /\ inflight[o] = 0
    /\ Allowed(Pruned, cfg)
    /\ \E ms \in Requests \cup {cfg.default} :
         /\ inflight' = [inflight EXCEPT ![o] = Grant(Pruned, cfg, ms)]
         /\ Command(Grant(Pruned, cfg, ms), o)
    /\ history' = Pruned
    /\ UNCHANGED <<cfg, armed, gap>>

Settled(o, as) ==
    [i \in DOMAIN sent |-> IF sent[i].by = o THEN [sent[i] EXCEPT !.by = as] ELSE sent[i]]

Without(s, j) == [k \in 1..Len(s) - 1 |-> IF k < j THEN s[k] ELSE s[k + 1]]

SlipNotRecorded(o) ==
    /\ inflight[o] > 0
    /\ inflight' = [inflight EXCEPT ![o] = 0]
    /\ sent' = Settled(o, Nobody)
    /\ UNCHANGED <<cfg, armed, history, gap>>

\* The acknowledgement: the burst is recorded, at the time of its ack.
ManualAck(o) ==
    /\ inflight[o] > 0
    /\ Record(history, inflight[o])
    /\ inflight' = [inflight EXCEPT ![o] = 0]
    /\ sent' = Settled(o, Nobody)
    /\ UNCHANGED <<cfg, armed>>

\* The controller refuses: no water, nothing recorded.
ManualRefused(o) ==
    /\ inflight[o] > 0
    /\ inflight' = [inflight EXCEPT ![o] = 0]
    /\ \/ \E j \in DOMAIN sent : sent[j].by = o /\ sent' = Without(sent, j)
       \/ (\A j \in DOMAIN sent : sent[j].by # o) /\ UNCHANGED sent
    /\ UNCHANGED <<cfg, armed, history, gap>>

\* The controller sprays, but its acknowledgement is late or lost:
\* turret.spray raises, and record is never reached.
ManualTimeout(o) ==
    /\ Cardinality({i \in DOMAIN sent : sent[i].by = Lost}) < MaxLost
    /\ inflight[o] > 0
    /\ inflight' = [inflight EXCEPT ![o] = 0]
    /\ sent' = Settled(o, Lost)
    /\ UNCHANGED <<cfg, armed, history, gap>>

SetArmed ==
    /\ armed' = ~armed
    /\ UNCHANGED <<cfg, history, inflight, sent, gap>>

\* Time passes.
Tick ==
    /\ history' = Aged(history, cfg, 1)
    /\ sent' = Since([i \in DOMAIN sent |-> [sent[i] EXCEPT !.age = @ + 1]], Horizon)
    /\ gap' = IF gap > cfg.window THEN gap ELSE gap + 1
    /\ UNCHANGED <<cfg, armed, inflight>>

Next ==
    \/ AutoSpray
    \/ \E o \in Operators : ManualCheck(o) \/ ManualAck(o) \/ ManualRefused(o) \/ ManualTimeout(o)
    \/ SetArmed
    \/ Tick

Spec == Init /\ [][Next]_vars

----------------------------------------------------------------------------
(* Properties, over the bursts the server really commanded.                *)

\* The open time of the bursts that are in the window and in a set of them.
Sum(bursts) ==
    Total([i \in 1..Len(sent) |->
             IF sent[i] \in bursts /\ sent[i].age <= cfg.window THEN sent[i].ms ELSE 0])

Bursts == {sent[i] : i \in DOMAIN sent}
Acknowledged == {b \in Bursts : b.by = Nobody}

\* "Cumulative open time budget within duty_window_s", without exception.
BudgetHolds == cfg.budget > 0 => Sum(Bursts) <= cfg.budget

\* What is left of the budget when requests overlap, acknowledgements are
\* lost and the deque overflows: nothing but what was granted while another
\* burst was still waiting or behind a gap, and what was never acknowledged,
\* comes on top of it.
OvershootBounded ==
    cfg.budget > 0 =>
        Sum({b \in Bursts : b.by # Lost /\ ~b.over /\ ~b.blind}) <= cfg.budget

\* "Minimum time between two sprays", of an interval the window holds, but
\* for the same overlaps and losses.
IntervalHolds ==
    \A i, j \in DOMAIN sent :
        i < j /\ sent[i].by # Lost /\ ~sent[j].over /\ cfg.interval <= cfg.window
        => sent[i].age - sent[j].age >= cfg.interval

\* No burst is forgotten before its window is over: what was acknowledged is
\* in the history, and what is waiting is what its request waits for.
NothingForgotten ==
    /\ gap > cfg.window => Sum(Acknowledged) <= UsedMs(Pruned)
    /\ \A b \in Bursts : b.by \in Operators => b.ms = inflight[b.by]

\* A burst is no longer than its clamp, whoever asks.
ClampHolds == \A b \in Bursts : b.ms <= Larger(Floor, cfg.max)

\* Every acknowledged burst is in the history for as long as it counts
\* (NothingForgotten), as long as the guard clamped it (ClampHolds); the
\* variables have their types.
Accounted == TypeOK /\ NothingForgotten /\ ClampHolds
=============================================================================
