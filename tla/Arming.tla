------------------------------- MODULE Arming -------------------------------
(***************************************************************************)
(* Arming and emergency stop across the link: Runtime.armed and the        *)
(* operator actions (server/app/services/runtime.py), the one connection   *)
(* and the pending commands of TurretManager (server/app/turret/           *)
(* manager.py), the socket route with its read loop and post-connect task  *)
(* (server/app/api/websocket_hardware.py), and the controller's handling   *)
(* of the commands (firmware/src/ws_client.c, main.c).                     *)
(*                                                                         *)
(* The server is one asyncio loop: a step runs from one await to the next. *)
(* A call is a coroutine that sent a command and awaits its ack; ready is  *)
(* the loop's queue of calls whose future is settled, resumed in order.    *)
(* A connection delivers both ways in order, until it breaks.              *)
(***************************************************************************)
EXTENDS Integers, Sequences, FiniteSets

CONSTANTS
    Ops,           \* operator actions: of "arm", "disarm", "estop", "stop"
    MaxActions,    \* bound: operator actions
    MaxLinks,      \* bound: connections made
    MaxUp,         \* bound: status frames are sent while fewer are unread
    SprayEnabled,  \* settings.spray.enabled
    PushConfig     \* settings.controller.push_config_on_connect

ASSUME BoundsAssumption == {MaxActions, MaxLinks, MaxUp} \subseteq Nat
ASSUME SettingsAssumption == {SprayEnabled, PushConfig} \subseteq BOOLEAN

VARIABLES
    armed,      \* Runtime.armed
    conn,       \* TurretManager._connection, 0 for None
    cached,     \* TurretManager.state: the last status, or the reset one
    call,       \* the commands sent so far, by id: [op, on, pc], on the
                \* connection it went to, or whose post-connect task sent it
    ready,      \* ids of the calls to resume
    reader,     \* each connection's route: "none", "read", "emit", "closed"
    post,       \* each connection's post-connect task
    ctl,        \* the controller: [armed, estop, homed]
    ctlConn,    \* the connection it is on, 0 for none
    down,       \* ids of the commands on their way to it
    up,         \* each connection's frames on their way to the server
    executed,   \* history: ids of the commands the controller carried out
    armedBy,    \* history: the call that set armed, 0 if it is not set
    armedOn,    \* history: the connection that call was acknowledged on
    lastEstop,  \* history: the last emergency stop called, 0 for none
    excused     \* history: why the two sides need not agree on this link

server  == <<armed, conn, cached, call, ready, reader, post>>
device  == <<ctl, ctlConn>>
history == <<executed, armedBy, armedOn, lastEstop, excused>>
vars    == <<server, device, down, up, history>>

Links == 1..MaxLinks
MaxCalls == MaxActions + 2 * MaxLinks
State == [homed : BOOLEAN, estop : BOOLEAN]
Unknown == [homed |-> FALSE, estop |-> FALSE]

\* send_command awaits its future, the future is settled, the call goes on.
Calls == [op : {"arm", "disarm", "estop", "stop", "config", "quiet"}, on : 0..MaxLinks,
          pc : {"waiting", "ok", "failed", "returned", "raised"}]
Frames == [kind : {"ack"}, id : DOMAIN call, ok : BOOLEAN]
              \cup [kind : {"status"}, state : State] \cup [kind : {"estop"}]

TypeOK ==
    /\ armed \in BOOLEAN
    /\ conn \in 0..MaxLinks /\ ctlConn \in 0..MaxLinks
    /\ cached \in State
    /\ call \in Seq(Calls) /\ {ready, down} \subseteq Seq(DOMAIN call)
    /\ reader \in [Links -> {"none", "read", "emit", "closed"}]
    /\ post \in [Links -> {"none", "running", "done"}]
    /\ ctl \in [armed : BOOLEAN, estop : BOOLEAN, homed : BOOLEAN]
    /\ up \in [Links -> Seq(Frames)]
    /\ executed \subseteq DOMAIN call
    /\ {armedBy, lastEstop} \subseteq 0..Len(call) /\ armedOn \in 0..MaxLinks
    /\ excused \subseteq {"timeout", "stop", "race", "stale"}

Init ==
    /\ armed = FALSE /\ conn = 0 /\ cached = Unknown
    /\ call = <<>> /\ ready = <<>>
    /\ reader = [n \in Links |-> "none"] /\ post = [n \in Links |-> "none"]
    /\ ctl = [armed |-> FALSE, estop |-> FALSE, homed |-> FALSE] /\ ctlConn = 0
    /\ down = <<>> /\ up = [n \in Links |-> <<>>]
    /\ executed = {} /\ armedBy = 0 /\ armedOn = 0 /\ lastEstop = 0 /\ excused = {}

----------------------------------------------------------------------------
(* The server.                                                             *)

\* send_command up to its first await; c are the calls before.  Without a
\* connection it raises; on a broken one the frame is lost.
Command(op, on) == [op |-> op, on |-> on, pc |-> IF conn = 0 THEN "failed" ELSE "waiting"]

Send(op, on, c, queue) ==
    LET id == Len(c) + 1 IN
    /\ call' = Append(c, Command(op, on))
    /\ ready' = IF conn = 0 THEN Append(queue, id) ELSE queue
    /\ down' = IF conn # 0 /\ conn = ctlConn THEN Append(down, id) ELSE down

Call(op) ==
    /\ Cardinality({id \in DOMAIN call : call[id].op \in Ops}) < MaxActions
    /\ Send(op, conn, call, ready)

SetArmed(b) == armed' = b /\ armedBy' = 0 /\ armedOn' = 0

PostDone == \A n \in Links : post[n] # "running"

\* set_armed(True): the checks, then the command.
CallArm ==
    /\ "arm" \in Ops
    /\ conn # 0 /\ cached.homed /\ ~cached.estop
    /\ Call("arm")
    /\ excused' = IF PostDone THEN excused ELSE excused \cup {"race"}
    /\ UNCHANGED <<armed, conn, cached, reader, post, device, up, executed,
                   armedBy, armedOn, lastEstop>>

\* set_armed(False).
CallDisarm ==
    /\ "disarm" \in Ops
    /\ Call("disarm")
    /\ UNCHANGED <<armed, conn, cached, reader, post, device, up, history>>

\* emergency_stop: disarmed before anything is awaited.
CallEstop ==
    /\ "estop" \in Ops
    /\ SetArmed(FALSE)
    /\ Call("estop")
    /\ lastEstop' = Len(call) + 1
    /\ UNCHANGED <<conn, cached, reader, post, device, up, executed, excused>>

\* stop_motion and clear_emergency_stop: the same plain stop.
CallStop ==
    /\ "stop" \in Ops
    /\ Call("stop")
    /\ UNCHANGED <<armed, conn, cached, reader, post, device, up, history>>

\* wait_for gives up; a later ack finds no pending future.
Timeout(id) ==
    /\ call[id].pc = "waiting"
    /\ call' = [call EXCEPT ![id].pc = "failed"]
    /\ ready' = Append(ready, id)
    /\ excused' = excused \cup {"timeout"}
    /\ UNCHANGED <<armed, conn, cached, reader, post, device, down, up,
                   executed, armedBy, armedOn, lastEstop>>

\* The first call in the loop's queue goes on behind its await.
Resume ==
    /\ ready # <<>>
    /\ LET id == Head(ready)
           op == call[id].op
           ok == call[id].pc = "ok"
           after == [call EXCEPT ![id].pc = IF ok THEN "returned" ELSE "raised"]
       IN
       \/ /\ op = "config"  \* the configuration was pushed, or not
          /\ SetArmed(FALSE)
          /\ Send("quiet", call[id].on, after, Tail(ready))
          /\ UNCHANGED post
       \/ /\ op # "config"
          /\ call' = after /\ ready' = Tail(ready)
          /\ CASE op = "arm" /\ ok    -> armed' = TRUE /\ armedBy' = id /\ armedOn' = call[id].on
               [] op = "disarm" /\ ok -> SetArmed(FALSE)
               [] OTHER               -> UNCHANGED <<armed, armedBy, armedOn>>
          /\ post' = IF op = "quiet" THEN [post EXCEPT ![call[id].on] = "done"] ELSE post
          /\ UNCHANGED down
    /\ UNCHANGED <<conn, cached, reader, device, up, executed, lastEstop, excused>>

\* _pending: the ids of the calls in c whose future nothing has settled.
Pending(c) == {id \in DOMAIN c : c[id].pc = "waiting"}

\* The pending future of an ack is settled, once: a late ack finds none.
Settle(id, ok) ==
    /\ call' = [call EXCEPT ![id].pc = IF ok THEN "ok" ELSE "failed"]
    /\ ready' = Append(ready, id)

SlipResolvedInOrder(id, ok) ==
    LET first == {w \in Pending(call) : \A v \in Pending(call) : w <= v}
    IN  IF first # {} THEN \E w \in first : Settle(w, ok) ELSE UNCHANGED <<call, ready>>

SlipNotResumed(id, ok) ==
    /\ call' = [call EXCEPT ![id].pc = IF ok THEN "ok" ELSE "failed"]
    /\ UNCHANGED ready

Resolve(id, ok) ==
    IF call[id].pc = "waiting" THEN Settle(id, ok) ELSE UNCHANGED <<call, ready>>

\* One turn of the read loop of connection n: handle_message.  It does not
\* ask whether n is still the manager's connection.
Read(n) ==
    /\ reader[n] = "read" /\ up[n] # <<>>
    /\ LET frame == Head(up[n]) IN
       \/ /\ frame.kind = "ack"
          /\ Resolve(frame.id, frame.ok)
          /\ UNCHANGED <<cached, reader>>
       \/ /\ frame.kind = "status"
          /\ cached' = frame.state
          /\ UNCHANGED <<call, ready, reader>>
       \/ /\ frame.kind = "estop"
          /\ reader' = [reader EXCEPT ![n] = "emit"]
          /\ UNCHANGED <<call, ready, cached>>
    /\ up' = [up EXCEPT ![n] = Tail(@)]
    /\ UNCHANGED <<armed, conn, post, device, down, history>>

SlipStopNotRecorded(n) ==
    /\ reader[n] = "emit" /\ ready = <<>>
    /\ reader' = [reader EXCEPT ![n] = "read"]
    /\ UNCHANGED <<armed, conn, cached, call, ready, post, device, down, up, history>>

SlipRecordedFirst(n) ==
    /\ reader[n] = "emit"
    /\ reader' = [reader EXCEPT ![n] = "read"]
    /\ SetArmed(FALSE)
    /\ UNCHANGED <<conn, cached, call, ready, post, device, down, up,
                   executed, lastEstop, excused>>

\* _on_controller_event behind its await.  emit goes through a worker
\* thread, so the calls that were ready before have been resumed.
EmitDone(n) ==
    /\ reader[n] = "emit" /\ ready = <<>>
    /\ reader' = [reader EXCEPT ![n] = "read"]
    /\ SetArmed(FALSE)
    /\ excused' = IF n = conn THEN excused ELSE excused \cup {"stale"}
    /\ UNCHANGED <<conn, cached, call, ready, post, device, down, up,
                   executed, lastEstop>>

\* _teardown, on the calls in c: every pending future gets an exception.
TornDown(c) ==
    [id \in DOMAIN c |-> IF c[id].pc = "waiting" THEN [c[id] EXCEPT !.pc = "failed"] ELSE c[id]]

\* The sequence that lists a set of numbers from the least to the largest.
InOrder(S) == {s \in [1..Cardinality(S) -> S] : \A i, j \in DOMAIN s : i < j => s[i] < s[j]}

\* The controller connects anew and the handshake is accepted; a connection
\* the server still has is replaced, whose route may still hold one frame.
\* The post-connect task starts, queued behind the calls already ready: it
\* pushes the configuration, or else disarms at once.
Attach ==
    /\ ctlConn = 0 /\ ready = <<>>
    /\ \E n \in Links :
         /\ \A m \in Links : reader[m] = "none" <=> m >= n
         /\ ctlConn' = n /\ conn' = n
         /\ reader' = [reader EXCEPT ![n] = "read"]
         /\ post' = [post EXCEPT ![n] = "running"]
         /\ call' = Append(TornDown(call), [op |-> IF PushConfig THEN "config" ELSE "quiet",
                                            on |-> n, pc |-> "waiting"])
    /\ down' = <<Len(call) + 1>>
    /\ cached' = Unknown
    /\ ready' \in InOrder(Pending(call))
    /\ IF PushConfig THEN UNCHANGED <<armed, armedBy, armedOn>> ELSE SetArmed(FALSE)
    /\ \E k \in 0..1 :
         up' = [n \in Links |->
                  IF n = conn THEN SubSeq(up[n], 1, IF reader[n] = "emit" THEN 0
                                                    ELSE IF Len(up[n]) < k THEN Len(up[n]) ELSE k)
                  ELSE up[n]]
    /\ excused' = {}
    /\ UNCHANGED <<ctl, executed, lastEstop>>

\* The route of connection n ends: its post-connect task is cancelled, and
\* the manager is detached unless n was replaced.
Close(n) ==
    /\ reader[n] = "read" /\ up[n] = <<>> /\ n # ctlConn
    /\ reader' = [reader EXCEPT ![n] = "closed"]
    /\ post' = [post EXCEPT ![n] = "done"]
    /\ LET mine(id) == call[id].op \in {"config", "quiet"} /\ call[id].on = n
           rest == [id \in DOMAIN call |->
                      IF mine(id) /\ call[id].pc # "returned"
                      THEN [call[id] EXCEPT !.pc = "raised"] ELSE call[id]]
       IN \E kept \in InOrder({i \in DOMAIN ready : ~mine(ready[i])}) :
             LET queue == [k \in DOMAIN kept |-> ready[kept[k]]] IN
             IF n = conn
             THEN /\ conn' = 0 /\ cached' = Unknown /\ SetArmed(FALSE)
                  /\ call' = TornDown(rest)
                  /\ \E failing \in InOrder(Pending(rest)) : ready' = queue \o failing
             ELSE /\ call' = rest /\ ready' = queue
                  /\ UNCHANGED <<armed, armedBy, armedOn, conn, cached>>
    /\ UNCHANGED <<device, down, up, executed, lastEstop, excused>>

----------------------------------------------------------------------------
(* The controller.                                                         *)

Tell(frames) ==
    up' = IF ctlConn = 0 THEN up ELSE [up EXCEPT ![ctlConn] = @ \o frames]

Ack(id, ok) == [kind |-> "ack", id |-> id, ok |-> ok]
Estop == [kind |-> "estop"]

\* arm_output is refused at an emergency stop.
SlipArmAnyway == FALSE
ArmRefused == SprayEnabled /\ ctl.estop

\* handle_command.  Motion keeps homed on a plain stop.
Handle ==
    /\ down # <<>>
    /\ LET id == Head(down)
           op == call[id].op
           does(c, frames) == ctl' = c /\ Tell(frames) /\ executed' = executed \cup {id}
       IN
       \/ /\ op = "arm" /\ ArmRefused
          /\ Tell(<<Ack(id, FALSE)>>)
          /\ UNCHANGED <<ctl, executed, excused>>
       \/ /\ op = "arm" /\ ~ArmRefused
          /\ does([ctl EXCEPT !.armed = SprayEnabled], <<Ack(id, TRUE)>>)
          /\ UNCHANGED excused
       \/ /\ op \in {"disarm", "quiet"}
          /\ does([ctl EXCEPT !.armed = FALSE], <<Ack(id, TRUE)>>)
          /\ UNCHANGED excused
       \/ /\ op = "estop"
          /\ does([armed |-> FALSE, estop |-> TRUE, homed |-> FALSE], <<Estop, Ack(id, TRUE)>>)
          /\ UNCHANGED excused
       \/ /\ op = "stop"
          /\ does([ctl EXCEPT !.armed = FALSE, !.estop = FALSE], <<Ack(id, TRUE)>>)
          /\ excused' = excused \cup {"stop"}
       \/ /\ op = "config"
          /\ does(ctl, <<Ack(id, TRUE)>>)
          /\ UNCHANGED excused
    /\ down' = Tail(down)
    /\ UNCHANGED <<server, ctlConn, armedBy, armedOn, lastEstop>>

\* safety_task: the emergency stop input.
PressEstop ==
    /\ ~ctl.estop
    /\ ctl' = [armed |-> FALSE, estop |-> TRUE, homed |-> FALSE]
    /\ Tell(<<Estop>>)
    /\ UNCHANGED <<server, ctlConn, down, history>>

\* Homing completes; how is motion.c's affair.
Home ==
    /\ ~ctl.homed /\ ~ctl.estop
    /\ ctl' = [ctl EXCEPT !.homed = TRUE]
    /\ UNCHANGED <<server, ctlConn, down, up, history>>

SendStatus ==
    /\ ctlConn # 0 /\ Len(up[ctlConn]) < MaxUp
    /\ Tell(<<[kind |-> "status", state |-> [homed |-> ctl.homed, estop |-> ctl.estop]]>>)
    /\ UNCHANGED <<server, device, down, history>>

\* The link breaks, at the controller's failsafe or under it, or the
\* controller restarts: the output is disarmed, and what was under way
\* is lost but for some of the frames the server has received.  Bound: the
\* last connection stays.
Drop ==
    /\ ctlConn \in 1..MaxLinks - 1
    /\ ctl' \in {[ctl EXCEPT !.armed = FALSE],
                 [armed |-> FALSE, estop |-> FALSE, homed |-> FALSE]}
    /\ ctlConn' = 0 /\ down' = <<>>
    /\ \E k \in 0..Len(up[ctlConn]) : up' = [up EXCEPT ![ctlConn] = SubSeq(@, 1, k)]
    /\ UNCHANGED <<server, history>>

Loop ==
    \/ Resume
    \/ \E id \in DOMAIN call : Timeout(id)
    \/ \E n \in Links : Read(n) \/ EmitDone(n) \/ Close(n)

Next ==
    \/ CallArm \/ CallDisarm \/ CallEstop \/ CallStop
    \/ Loop \/ Attach
    \/ Handle \/ PressEstop \/ Home \/ SendStatus \/ Drop

Spec == Init /\ [][Next]_vars

\* The event loop runs, and wait_for's timer fires.
LoopRuns == WF_vars(Resume) /\ \A id \in 1..MaxCalls : WF_vars(id \in DOMAIN call /\ Timeout(id))
FairSpec == Spec /\ LoopRuns

----------------------------------------------------------------------------
(* Properties.                                                             *)

\* Nothing is under way on an established link.
Settled ==
    /\ conn # 0 /\ conn = ctlConn
    /\ down = <<>> /\ ready = <<>>
    /\ \A n \in Links : up[n] = <<>> /\ reader[n] # "emit"
    /\ \A id \in DOMAIN call : call[id].pc # "waiting"
    /\ post[conn] = "done"

\* A call that returned without an error was carried out by the controller:
\* ids are never reused, so no answer of an earlier command or an earlier
\* connection is taken for this one's.  The variables have their types.
AckedMeansActed ==
    TypeOK /\ \A id \in DOMAIN call : call[id].pc \in {"ok", "returned"} => id \in executed

\* When nothing is under way, the server's armed and the controller's are
\* the same, unless on this link a command timed out, a plain stop was
\* carried out, an arm was called before the post-connect task was done, or
\* a replaced connection's stop event was only now recorded.
AgreeWhenSettled ==
    Settled /\ excused = {} /\ SprayEnabled => armed = ctl.armed

\* An emergency stop stays: once everything has settled, armed is only set
\* by a call made after it, whatever was under way when it was pressed.
EstopSticks == Settled /\ armed => armedBy > lastEstop

\* set_armed says that arming requires a healthy, homed controller: when
\* everything has settled, an armed system is not at an emergency stop.
\* With spraying disabled the controller acknowledges an arming whatever its
\* state, and arms nothing.
ArmedIsHealthy == Settled /\ armed /\ SprayEnabled => ~ctl.estop

\* Every call comes back, answered or not.
CallsReturn ==
    \A id \in 1..MaxCalls :
        (id \in DOMAIN call) ~> (id \in DOMAIN call /\ call[id].pc \in {"returned", "raised"})

\* on_controller_connected says that a fresh link never inherits a previous
\* arm state.
FreshLinkDisarmed == armed /\ conn # 0 => armedOn = conn

\* send_command says that callers never have to guess whether the hardware
\* acted: a call that raised was not carried out.
RaisedMeansNotActed ==
    \A id \in DOMAIN call : call[id].pc = "raised" => id \notin executed

\* arm_output says that disarming must always be possible.
DisarmAlwaysPossible ==
    [][ \A id \in DOMAIN call :
          call[id].op = "disarm" /\ call[id].pc \in {"ok", "failed"}
          /\ call'[id].pc \in {"returned", "raised"} => ~armed' ]_vars

\* PROTOCOL.md says of a stop with emergency:false that motion stops and the
\* valve is closed; disarming the output is what emergency:true adds.
StopKeepsOutput ==
    Settled /\ excused \subseteq {"stop"} /\ SprayEnabled /\ armed => ctl.armed
=============================================================================
