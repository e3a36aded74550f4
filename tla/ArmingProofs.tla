---------------------------- MODULE ArmingProofs ----------------------------
(***************************************************************************)
(* What holds of arming and the emergency stop for every number of         *)
(* connections and of operator actions.                                    *)
(*                                                                         *)
(* The invariant follows an arming from the call to the controller and its *)
(* acknowledgement back.  Wherever a stop meets it, something behind it on *)
(* the same way undoes it (EstopInv, HealthInv); and the last of what is   *)
(* on its way back says what the controller's armed is (AgreeInv).  Both   *)
(* rest on the order of the commands and of their answers (OrderInv), on   *)
(* each call being resumed once (QueueInv), and on a former connection     *)
(* answering nobody (LinkInv, OrderInv).                                   *)
(***************************************************************************)
EXTENDS Arming, SequenceTheorems, FiniteSetTheorems, FunctionTheorems, TLAPS

\* A call whose future is open, or that has not been resumed yet.
Open(id) == call[id].pc \in {"waiting", "ok", "failed"}
OfPost(id) == call[id].op \in {"config", "quiet"}
IsAck(f) == f.kind = "ack"
OkArm(f) == IsAck(f) /\ f.ok /\ call[f.id].op = "arm"
InDown(id) == \E i \in DOMAIN down : down[i] = id

\* The two ends of a link: while the controller is on a connection it is the
\* server's, what is on its way to it is lost with the connection, and a
\* connection not made yet has carried nothing.
LinkInv ==
    /\ ctlConn # 0 => conn = ctlConn
    /\ conn # 0 => reader[conn] \in {"read", "emit"}
    /\ ctlConn = 0 => down = <<>> /\ ~ctl.armed
    /\ \A n \in Links : reader[n] = "none" => up[n] = <<>> /\ post[n] = "none"
    /\ \A id \in DOMAIN call : call[id].on # 0 => reader[call[id].on] # "none"

\* The loop's queue holds each settled call once.
QueueInv ==
    /\ \A i, j \in DOMAIN ready : i # j => ready[i] # ready[j]
    /\ \A i \in DOMAIN ready : call[ready[i]].pc \in {"ok", "failed"}
    /\ \A id \in DOMAIN call :
         call[id].pc \in {"ok", "failed"} => \E i \in DOMAIN ready : ready[i] = id

\* Each command is answered once, in the order in which they were sent; what
\* a former connection still delivers answers nobody.
OrderInv ==
    /\ \A i, j \in DOMAIN down : i < j => down[i] < down[j]
    /\ ctlConn # 0 => \A i \in DOMAIN up[ctlConn] : IsAck(up[ctlConn][i]) =>
         /\ \A j \in DOMAIN down : up[ctlConn][i].id < down[j]
         /\ \A j \in DOMAIN up[ctlConn] :
              i < j /\ IsAck(up[ctlConn][j]) => up[ctlConn][i].id < up[ctlConn][j].id
    /\ \A n \in Links : n # conn =>
         \A i \in DOMAIN up[n] : IsAck(up[n][i]) => call[up[n][i].id].pc # "waiting"

\* An acknowledgement that is still on its way is of a command carried out.
AckInv ==
    /\ \A n \in Links : \A i \in DOMAIN up[n] :
         IsAck(up[n][i]) /\ up[n][i].ok => up[n][i].id \in executed
    /\ \A id \in DOMAIN call : call[id].pc \in {"ok", "returned"} => id \in executed

\* The post-connect task of a connection waits for one call at a time.
PostInv ==
    /\ \A id \in DOMAIN call : OfPost(id) /\ Open(id) =>
         call[id].on # 0 /\ post[call[id].on] = "running"
    /\ \A id, jd \in DOMAIN call :
         OfPost(id) /\ Open(id) /\ OfPost(jd) /\ Open(jd) /\ call[id].on = call[jd].on => id = jd

\* Who armed was an arming, and the last emergency stop was one.
NamesInv ==
    /\ armed => armedBy # 0
    /\ armedBy # 0 => call[armedBy].op = "arm"
    /\ lastEstop # 0 => call[lastEstop].op = "estop"

----------------------------------------------------------------------------
\* A stop event that is not recorded yet: behind a frame, or at all.
StopBehind(k) == \E j \in DOMAIN up[ctlConn] : k < j /\ up[ctlConn][j].kind = "estop"
StopToCome == reader[ctlConn] = "emit" \/ StopBehind(0)

\* The post-connect task has not disarmed yet.
ConfigOpen == \E id \in DOMAIN call : call[id].op = "config" /\ call[id].on = ctlConn /\ Open(id)

\* Whatever one of these calls armed or will still arm, a stop event or the
\* post-connect task disarms behind it.
Undone(ids) ==
    /\ \A i \in DOMAIN up[ctlConn] :
         OkArm(up[ctlConn][i]) /\ up[ctlConn][i].id \in ids => StopBehind(i)
    /\ \A id \in DOMAIN call :
         id \in ids /\ call[id].op = "arm" /\ call[id].pc = "ok" => StopToCome
    /\ armed /\ armedBy \in ids => StopToCome \/ ConfigOpen

\* An arming called before the last emergency stop is undone by it, once the
\* controller has carried it out, which it does behind the arming.
EstopInv == ctlConn # 0 =>
    /\ InDown(lastEstop) \/ Undone(0..lastEstop - 1)
    /\ \A i \in DOMAIN down : call[down[i]].op = "arm" /\ down[i] < lastEstop => InDown(lastEstop)

\* So is every arming while the controller is at an emergency stop.
HealthInv == ctlConn # 0 /\ SprayEnabled /\ ctl.estop => Undone(Nat)

----------------------------------------------------------------------------
\* What is on its way to the server and will change armed.
Effective(f) == f.kind = "estop" \/ (IsAck(f) /\ f.ok /\ call[f.id].op \in {"arm", "disarm"})
Telling(id) == call[id].op = "config" \/ (call[id].pc = "ok" /\ call[id].op \in {"arm", "disarm"})
NoneBehind(k) == \A j \in DOMAIN up[ctlConn] : k < j => ~Effective(up[ctlConn][j])
NoneReadyBehind(k) == \A j \in DOMAIN ready : k < j => ~Telling(ready[j])
Delivered == NoneBehind(0) /\ reader[ctlConn] # "emit"

\* Nothing is armed, unless it is going to be disarmed, and nothing arms.
NoArming ==
    /\ ~ctl.armed /\ (armed => ConfigOpen)
    /\ \A id \in DOMAIN call : call[id].op = "arm" => call[id].pc \notin {"waiting", "ok"}

\* A command that may change the controller's armed is still awaited, and so
\* is its answer.
Awaited ==
    /\ \A i \in DOMAIN down : call[down[i]].op \in {"arm", "disarm"} => call[down[i]].pc = "waiting"
    /\ \A i \in DOMAIN up[ctlConn] :
         IsAck(up[ctlConn][i]) /\ call[up[ctlConn][i].id].op \in {"arm", "disarm"} =>
           call[up[ctlConn][i].id].pc = "waiting"

\* Until the post-connect task is done nothing is armed or arms.
Quieted ==
    /\ PostDone \/ NoArming
    /\ \A i \in DOMAIN down : call[down[i]].op = "quiet" =>
         ~ctl.armed /\ \A j \in DOMAIN down : j < i => call[down[j]].op # "arm"

\* The last of what is on its way to the server says what the controller is.
Told ==
    /\ \A i \in DOMAIN up[ctlConn] :
         Effective(up[ctlConn][i]) /\ NoneBehind(i) => (ctl.armed <=> OkArm(up[ctlConn][i]))
    /\ NoneBehind(0) /\ reader[ctlConn] = "emit" => ~ctl.armed

\* So does the last call to resume, and with none the server's armed itself,
\* until an emergency stop or the post-connect task reaches the controller.
Taken == Delivered =>
    /\ \A i \in DOMAIN ready :
         Telling(ready[i]) /\ NoneReadyBehind(i) => (ctl.armed <=> call[ready[i]].op = "arm")
    /\ NoneReadyBehind(0) =>
         \/ armed = ctl.armed
         \/ ConfigOpen
         \/ \E i \in DOMAIN down : call[down[i]].op = "estop"

AgreeInv == ctlConn # 0 /\ SprayEnabled /\ excused = {} => Awaited /\ Quieted /\ Told /\ Taken

IInv == /\ TypeOK /\ LinkInv /\ QueueInv /\ OrderInv /\ AckInv /\ PostInv /\ NamesInv
        /\ EstopInv /\ HealthInv /\ AgreeInv

----------------------------------------------------------------------------
(* Sequences.                                                              *)

\* What appending to a sequence gives.
LEMMA AppendFacts ==
    ASSUME NEW S, NEW s \in Seq(S), NEW e \in S
    PROVE  /\ Append(s, e) \in Seq(S) /\ Len(s) \in Nat
           /\ DOMAIN s = 1..Len(s) /\ Len(Append(s, e)) = Len(s) + 1
           /\ DOMAIN Append(s, e) = 1..Len(s) + 1
           /\ \A i \in DOMAIN s : Append(s, e)[i] = s[i]
           /\ Append(s, e)[Len(s) + 1] = e
BY AppendProperties, LenProperties

\* The first of a sequence and the rest.
LEMMA TailFacts ==
    ASSUME NEW S, NEW s \in Seq(S), s # <<>>
    PROVE  /\ Head(s) = s[1] /\ Head(s) \in S /\ 1 \in DOMAIN s /\ Len(s) \in Nat \ {0}
           /\ DOMAIN s = 1..Len(s)
           /\ Tail(s) \in Seq(S) /\ Len(Tail(s)) = Len(s) - 1 /\ DOMAIN Tail(s) = 1..Len(s) - 1
           /\ \A i \in DOMAIN Tail(s) : Tail(s)[i] = s[i + 1]
<1>1. Head(s) \in S /\ Tail(s) \in Seq(S) /\ Len(Tail(s)) = Len(s) - 1
      /\ \A i \in 1..Len(Tail(s)) : Tail(s)[i] = s[i + 1]
  BY HeadTailProperties
<1>2. Len(s) \in Nat /\ DOMAIN s = 1..Len(s) /\ DOMAIN Tail(s) = 1..Len(Tail(s))
  BY <1>1, LenProperties
<1>3. Len(s) # 0 /\ Head(s) = s[1]
  BY EmptySeq
<1> QED
  BY <1>1, <1>2, <1>3

\* A frame stays one when calls are added.
LEMMA FramesGrow ==
    ASSUME TypeOK, DOMAIN call \subseteq DOMAIN call'
    PROVE  up \in [Links -> Seq(Frames')]
<1>1. Frames \subseteq Frames'
  BY DEF Frames
<1>2. ASSUME NEW n \in Links PROVE up[n] \in Seq(Frames')
  <2>1. up[n] \in Seq(Frames)
    BY DEF TypeOK
  <2> QED
    BY <1>1, <2>1, SeqMonotonic
<1>3. up = [n \in Links |-> up[n]]
  BY DEF TypeOK
<1> QED
  BY <1>2, <1>3

\* So does the number of a call.
LEMMA NumbersGrow ==
    ASSUME TypeOK, DOMAIN call \subseteq DOMAIN call'
    PROVE  ready \in Seq(DOMAIN call') /\ down \in Seq(DOMAIN call')
BY SeqMonotonic DEF TypeOK

\* Send adds a call that waits, or that has failed at once, and a command.
SentThen(op, on, c, queue) ==
    /\ call' \in Seq(Calls) /\ Len(call') = Len(call) + 1 /\ Len(call) \in Nat
    /\ DOMAIN call = 1..Len(call) /\ DOMAIN call' = 1..Len(call) + 1
    /\ \A id \in DOMAIN call : call'[id] = c[id]
    /\ call'[Len(call) + 1] = Command(op, on)
    /\ ready' \in Seq(DOMAIN call') /\ down' \in Seq(DOMAIN call')
    /\ DOMAIN queue \subseteq DOMAIN ready' /\ \A i \in DOMAIN queue : ready'[i] = queue[i]
    /\ conn # 0 => ready' = queue
    /\ conn = 0 => DOMAIN ready' = 1..Len(queue) + 1 /\ ready'[Len(queue) + 1] = Len(call) + 1
    /\ DOMAIN queue = 1..Len(queue) /\ Len(queue) \in Nat
    /\ ctlConn = 0 => down' = down
    /\ DOMAIN down = 1..Len(down) /\ Len(down) \in Nat
    /\ ctlConn # 0 => /\ DOMAIN down' = 1..Len(down) + 1 /\ down'[Len(down) + 1] = Len(call) + 1
                      /\ \A i \in DOMAIN down : down'[i] = down[i]

\* Send does that.
LEMMA Sent ==
    ASSUME TypeOK, LinkInv, NEW op \in {"arm", "disarm", "estop", "stop", "quiet"},
           NEW on \in 0..MaxLinks,
           NEW c \in Seq(Calls), Len(c) = Len(call), NEW queue \in Seq(DOMAIN call),
           Send(op, on, c, queue)
    PROVE  SentThen(op, on, c, queue)
<1> DEFINE id == Len(call) + 1
<1>1. Command(op, on) \in Calls
  BY DEF Command, Calls
<1>2. call' = Append(c, Command(op, on))
  BY DEF Send
<1>3. Len(call) \in Nat /\ DOMAIN call = 1..Len(call) /\ DOMAIN c = 1..Len(call)
  BY LenProperties DEF TypeOK
<1>4. /\ call' \in Seq(Calls) /\ Len(call') = id /\ DOMAIN call' = 1..id
      /\ \A i \in DOMAIN call : call'[i] = c[i]
      /\ call'[id] = Command(op, on)
  BY <1>1, <1>2, <1>3, AppendFacts
<1>5. queue \in Seq(DOMAIN call') /\ down \in Seq(DOMAIN call') /\ id \in DOMAIN call'
  BY <1>3, <1>4, SeqMonotonic DEF TypeOK
<1> HIDE DEF id
<1>6. /\ ready' = IF conn = 0 THEN Append(queue, id) ELSE queue
      /\ down' = IF conn # 0 /\ conn = ctlConn THEN Append(down, id) ELSE down
  BY <1>3 DEF Send, id
<1>7. /\ Append(queue, id) \in Seq(DOMAIN call') /\ Len(queue) \in Nat /\ DOMAIN queue = 1..Len(queue)
      /\ DOMAIN Append(queue, id) = 1..Len(queue) + 1
      /\ \A i \in DOMAIN queue : Append(queue, id)[i] = queue[i]
      /\ Append(queue, id)[Len(queue) + 1] = id
  BY <1>5, AppendFacts
<1>8. /\ Append(down, id) \in Seq(DOMAIN call') /\ Len(down) \in Nat /\ DOMAIN down = 1..Len(down)
      /\ DOMAIN Append(down, id) = 1..Len(down) + 1
      /\ \A i \in DOMAIN down : Append(down, id)[i] = down[i]
      /\ Append(down, id)[Len(down) + 1] = id
  BY <1>5, AppendFacts
<1>9. ctlConn # 0 => conn # 0 /\ conn = ctlConn
  BY DEF LinkInv
<1>10. ctlConn = 0 => ~(conn # 0 /\ conn = ctlConn)
  OBVIOUS
<1>11. /\ ready' \in Seq(DOMAIN call') /\ DOMAIN queue \subseteq DOMAIN ready'
       /\ \A i \in DOMAIN queue : ready'[i] = queue[i]
       /\ conn # 0 => ready' = queue
       /\ conn = 0 => DOMAIN ready' = 1..Len(queue) + 1 /\ ready'[Len(queue) + 1] = id
  <2>1. CASE conn = 0
    <3>1. ready' = Append(queue, id)
      BY <1>6, <2>1
    <3>2. DOMAIN queue \subseteq 1..Len(queue) + 1
      BY <1>7
    <3> QED
      BY <1>7, <2>1, <3>1, <3>2
  <2>2. CASE conn # 0
    <3>1. ready' = queue
      BY <1>6, <2>2
    <3> QED
      BY <1>5, <2>2, <3>1
  <2> QED
    BY <2>1, <2>2
<1>12. /\ down' \in Seq(DOMAIN call')
       /\ ctlConn = 0 => down' = down
       /\ ctlConn # 0 => /\ DOMAIN down' = 1..Len(down) + 1 /\ down'[Len(down) + 1] = id
                         /\ \A i \in DOMAIN down : down'[i] = down[i]
  <2>1. CASE ctlConn = 0
    <3>1. down' = down
      BY <1>6, <1>10, <2>1
    <3> QED
      BY <1>5, <2>1, <3>1
  <2>2. CASE ctlConn # 0
    <3>1. down' = Append(down, id)
      BY <1>6, <1>9, <2>2
    <3> QED
      BY <1>8, <2>2, <3>1
  <2> QED
    BY <2>1, <2>2
<1> QED
  BY <1>3, <1>4, <1>7, <1>8, <1>11, <1>12 DEF id, SentThen

----------------------------------------------------------------------------
(* Calls, frames and the queue.                                            *)

\* A frame is one of three kinds, and an acknowledgement names a call.
LEMMA FrameFacts ==
    ASSUME TypeOK, NEW n \in Links
    PROVE  /\ up[n] \in Seq(Frames) /\ DOMAIN up[n] = 1..Len(up[n]) /\ Len(up[n]) \in Nat
           /\ \A i \in DOMAIN up[n] :
                /\ up[n][i] \in Frames
                /\ IsAck(up[n][i]) => up[n][i].id \in DOMAIN call /\ up[n][i].ok \in BOOLEAN
<1>1. up[n] \in Seq(Frames)
  BY DEF TypeOK
<1>2. DOMAIN up[n] = 1..Len(up[n]) /\ Len(up[n]) \in Nat
  BY <1>1, LenProperties
<1>3. ASSUME NEW i \in DOMAIN up[n] PROVE up[n][i] \in Frames
  BY <1>1, <1>2, <1>3, ElementOfSeq
<1>4. ASSUME NEW f \in Frames, IsAck(f) PROVE f.id \in DOMAIN call /\ f.ok \in BOOLEAN
  BY <1>4 DEF Frames, IsAck
<1> QED
  BY <1>1, <1>2, <1>3, <1>4

\* The queues hold numbers of calls.
LEMMA CallFacts ==
    ASSUME TypeOK
    PROVE  /\ DOMAIN call = 1..Len(call) /\ Len(call) \in Nat
           /\ \A id \in DOMAIN call : call[id] \in Calls
           /\ DOMAIN ready = 1..Len(ready) /\ Len(ready) \in Nat
           /\ \A i \in DOMAIN ready : ready[i] \in DOMAIN call
           /\ DOMAIN down = 1..Len(down) /\ Len(down) \in Nat
           /\ \A i \in DOMAIN down : down[i] \in DOMAIN call
<1>1. call \in Seq(Calls) /\ ready \in Seq(DOMAIN call) /\ down \in Seq(DOMAIN call)
  BY DEF TypeOK
<1> QED
  BY <1>1, LenProperties, ElementOfSeq

\* A call keeps its operation and its connection.
OpsKept == \A id \in DOMAIN call :
    id \in DOMAIN call' /\ call'[id].op = call[id].op /\ call'[id].on = call[id].on

\* What a frame means does not change.
LEMMA FramesStay ==
    ASSUME TypeOK, OpsKept, ctlConn \in Links, ctlConn' = ctlConn, up'[ctlConn] = up[ctlConn]
    PROVE  /\ \A i \in DOMAIN up[ctlConn] : /\ Effective(up[ctlConn][i])' <=> Effective(up[ctlConn][i])
                                            /\ OkArm(up[ctlConn][i])' <=> OkArm(up[ctlConn][i])
           /\ \A k : NoneBehind(k)' <=> NoneBehind(k)
           /\ \A k : StopBehind(k)' <=> StopBehind(k)
<1>1. \A i \in DOMAIN up[ctlConn] : IsAck(up[ctlConn][i]) =>
        /\ up[ctlConn][i].id \in DOMAIN call
        /\ call'[up[ctlConn][i].id].op = call[up[ctlConn][i].id].op
  BY FrameFacts DEF OpsKept
<1>2. \A i \in DOMAIN up[ctlConn] : /\ Effective(up[ctlConn][i])' <=> Effective(up[ctlConn][i])
                                    /\ OkArm(up[ctlConn][i])' <=> OkArm(up[ctlConn][i])
  BY <1>1 DEF Effective, OkArm, IsAck
<1>3. \A k : NoneBehind(k)' <=> NoneBehind(k)
  BY <1>2 DEF NoneBehind
<1>4. \A k : StopBehind(k)' <=> StopBehind(k)
  BY DEF StopBehind
<1> QED
  BY <1>2, <1>3, <1>4

\* What will be undone still will, as long as no frame moves.
LEMMA UndoneStays ==
    ASSUME TypeOK, OpsKept, ctlConn \in Links, ctlConn' = ctlConn, up'[ctlConn] = up[ctlConn],
           reader'[ctlConn] = reader[ctlConn],
           \A id \in DOMAIN call' : call'[id].pc = "ok" => id \in DOMAIN call /\ call[id].pc = "ok",
           armed' => \/ armed /\ armedBy' = armedBy
                     \/ armedBy' \in DOMAIN call /\ call[armedBy'].op = "arm" /\ call[armedBy'].pc = "ok",
           ConfigOpen => ConfigOpen' \/ ~armed',
           NEW ids, Undone(ids)
    PROVE  Undone(ids)'
<1>1. /\ \A i \in DOMAIN up[ctlConn] : OkArm(up[ctlConn][i])' <=> OkArm(up[ctlConn][i])
      /\ \A k : StopBehind(k)' <=> StopBehind(k)
  BY FramesStay
<1>2. StopToCome' <=> StopToCome
  BY <1>1 DEF StopToCome
<1>3. ASSUME NEW id \in DOMAIN call', id \in ids, call'[id].op = "arm", call'[id].pc = "ok"
      PROVE  StopToCome
  BY <1>3 DEF Undone, OpsKept
<1>4. ASSUME armed', armedBy' \in ids PROVE StopToCome \/ ConfigOpen'
  BY <1>4 DEF Undone
<1> QED
  BY <1>1, <1>2, <1>3, <1>4 DEF Undone

\* A call goes on; it stays the call it was.
Moved(id, v, c) ==
    /\ c \in Seq(Calls) /\ DOMAIN c = DOMAIN call /\ Len(c) = Len(call)
    /\ c[id].pc = v
    /\ \A k \in DOMAIN call : /\ c[k].op = call[k].op /\ c[k].on = call[k].on
                              /\ k # id => c[k] = call[k]

\* What setting the pc of a call leaves of the others.
LEMMA PcFacts ==
    ASSUME TypeOK, NEW id \in DOMAIN call,
           NEW v \in {"waiting", "ok", "failed", "returned", "raised"},
           NEW c, c = [call EXCEPT ![id].pc = v]
    PROVE  Moved(id, v, c)
<1>1. call \in Seq(Calls) /\ id \in 1..Len(call) /\ call[id] \in Calls /\ DOMAIN call = 1..Len(call)
  BY CallFacts DEF TypeOK
<1>2. [call[id] EXCEPT !.pc = v] \in Calls
  BY <1>1 DEF Calls
<1>3. c = [call EXCEPT ![id] = [call[id] EXCEPT !.pc = v]]
  OBVIOUS
<1>4. c \in Seq(Calls) /\ Len(c) = Len(call)
  BY <1>1, <1>2, <1>3, ExceptSeq
<1>5. [call[id] EXCEPT !.pc = v].pc = v /\ [call[id] EXCEPT !.pc = v].op = call[id].op
      /\ [call[id] EXCEPT !.pc = v].on = call[id].on
  BY <1>1 DEF Calls
<1> QED
  BY <1>1, <1>3, <1>4, <1>5 DEF Moved

\* A future is settled: the call joins the loop's queue.
LEMMA QueueGrows ==
    ASSUME TypeOK, QueueInv, NEW id \in DOMAIN call, call[id].pc = "waiting",
           NEW v \in {"ok", "failed"},
           call' = [call EXCEPT ![id].pc = v], ready' = Append(ready, id)
    PROVE  /\ QueueInv' /\ ready' \in Seq(DOMAIN call')
           /\ DOMAIN ready = 1..Len(ready) /\ Len(ready) \in Nat
           /\ DOMAIN ready' = DOMAIN ready \cup {Len(ready) + 1} /\ ready'[Len(ready) + 1] = id
           /\ \A i \in DOMAIN ready : ready'[i] = ready[i] /\ ready[i] # id /\ i < Len(ready) + 1
<1>1. DOMAIN call' = DOMAIN call /\ call'[id].pc = v
      /\ \A k \in DOMAIN call : k # id => call'[k] = call[k]
  BY PcFacts DEF Moved
<1>2. ready \in Seq(DOMAIN call)
  BY DEF TypeOK
<1>3. /\ ready' \in Seq(DOMAIN call') /\ Len(ready) \in Nat /\ DOMAIN ready = 1..Len(ready)
      /\ DOMAIN ready' = 1..Len(ready) + 1 /\ ready'[Len(ready) + 1] = id
      /\ \A i \in DOMAIN ready : ready'[i] = ready[i]
  BY <1>1, <1>2, AppendFacts
<1>4. 1..Len(ready) + 1 = 1..Len(ready) \cup {Len(ready) + 1} /\ \A i \in 1..Len(ready) : i < Len(ready) + 1
  BY <1>3
<1>5. DOMAIN ready' = DOMAIN ready \cup {Len(ready) + 1}
  BY <1>3, <1>4
<1>6. \A i \in DOMAIN ready : ready[i] \in DOMAIN call /\ ready[i] # id
  BY CallFacts DEF QueueInv
<1>7. QueueInv'
  <2>1. \A i, j \in DOMAIN ready' : i # j => ready'[i] # ready'[j]
    BY <1>3, <1>5, <1>6 DEF QueueInv
  <2>2. \A i \in DOMAIN ready' : call'[ready'[i]].pc \in {"ok", "failed"}
    BY <1>1, <1>3, <1>5, <1>6 DEF QueueInv
  <2>3. ASSUME NEW k \in DOMAIN call', call'[k].pc \in {"ok", "failed"}
        PROVE  \E i \in DOMAIN ready' : ready'[i] = k
    BY <1>1, <1>3, <1>5, <2>3 DEF QueueInv
  <2> QED
    BY <2>1, <2>2, <2>3 DEF QueueInv
<1> QED
  BY <1>3, <1>4, <1>5, <1>6, <1>7

\* The emergency stop's part of the invariant, while undoing goes on and no
\* arming is added to what is on its way to the controller.
LEMMA StopsStay ==
    ASSUME TypeOK, EstopInv, HealthInv, OpsKept, ctlConn' = ctlConn, lastEstop' = lastEstop,
           SprayEnabled /\ ctl'.estop => ctl.estop,
           InDown(lastEstop) => InDown(lastEstop)',
           \A i \in DOMAIN down' : call'[down'[i]].op = "arm" => InDown(down'[i]),
           ctlConn # 0 => \A ids : Undone(ids) => Undone(ids)'
    PROVE  EstopInv' /\ HealthInv'
<1>1. ASSUME ctlConn # 0, Undone(0..lastEstop - 1) PROVE Undone(0..lastEstop - 1)'
  <2> PICK ids : ids = 0..lastEstop - 1
    OBVIOUS
  <2>1. Undone(ids)'
    BY <1>1
  <2> QED
    BY <2>1 DEF Undone
<1>2. ASSUME ctlConn # 0, NEW i \in DOMAIN down', call'[down'[i]].op = "arm", down'[i] < lastEstop
      PROVE  InDown(lastEstop)'
  <2>1. PICK j \in DOMAIN down : down[j] = down'[i]
    BY <1>2 DEF InDown
  <2>2. call[down[j]].op = "arm"
    BY <1>2, <2>1, CallFacts DEF OpsKept
  <2> QED
    BY <1>2, <2>1, <2>2 DEF EstopInv
<1>3. EstopInv'
  BY <1>1, <1>2 DEF EstopInv
<1>4. HealthInv'
  BY DEF HealthInv
<1> QED
  BY <1>3, <1>4

\* The first call in the loop's queue leaves it.
Shrunk(id, c, queue) ==
    /\ id \in DOMAIN call /\ id = ready[1] /\ 1 \in DOMAIN ready /\ call[id].pc \in {"ok", "failed"}
    /\ queue \in Seq(DOMAIN call)
    /\ \A i \in DOMAIN queue :
         /\ i \in Nat \ {0} /\ i + 1 \in DOMAIN ready /\ queue[i] = ready[i + 1]
         /\ queue[i] \in DOMAIN call /\ queue[i] # id
         /\ c[queue[i]] = call[queue[i]]
    /\ \A i \in DOMAIN ready : i \in Nat \ {0} /\ (i # 1 => i - 1 \in DOMAIN queue)
    /\ \A i, j \in DOMAIN queue : i # j => queue[i] # queue[j]
    /\ \A k \in DOMAIN call : c[k].pc \in {"ok", "failed"} => \E i \in DOMAIN queue : queue[i] = k

\* A call that goes on leaves such a queue.
LEMMA QueueShrinks ==
    ASSUME TypeOK, QueueInv, ready # <<>>, NEW id, id = Head(ready),
           NEW w \in {"returned", "raised"}, NEW c, Moved(id, w, c)
    PROVE  Shrunk(id, c, Tail(ready))
<1>1. ready \in Seq(DOMAIN call)
  BY DEF TypeOK
<1>2. /\ Head(ready) = ready[1] /\ 1 \in DOMAIN ready /\ Len(ready) \in Nat \ {0}
      /\ DOMAIN ready = 1..Len(ready) /\ Tail(ready) \in Seq(DOMAIN call)
      /\ DOMAIN Tail(ready) = 1..Len(ready) - 1
      /\ \A i \in DOMAIN Tail(ready) : Tail(ready)[i] = ready[i + 1]
  BY <1>1, TailFacts
<1>3. id \in DOMAIN call /\ id = ready[1] /\ 1 \in DOMAIN ready /\ call[id].pc \in {"ok", "failed"}
  BY <1>2, CallFacts DEF QueueInv
<1>4. ASSUME NEW i \in DOMAIN Tail(ready)
      PROVE  /\ i \in Nat \ {0} /\ i + 1 \in DOMAIN ready /\ Tail(ready)[i] = ready[i + 1]
             /\ Tail(ready)[i] \in DOMAIN call /\ Tail(ready)[i] # id
             /\ c[Tail(ready)[i]] = call[Tail(ready)[i]]
  <2>1. i \in Nat \ {0} /\ i + 1 \in DOMAIN ready /\ i + 1 # 1 /\ Tail(ready)[i] = ready[i + 1]
    BY <1>2, <1>4
  <2>2. ready[i + 1] \in DOMAIN call /\ ready[i + 1] # ready[1]
    BY <1>2, <2>1, CallFacts DEF QueueInv
  <2>3. c[ready[i + 1]] = call[ready[i + 1]]
    BY <1>3, <2>2 DEF Moved
  <2> QED
    BY <1>3, <2>1, <2>2, <2>3
<1>5. \A i \in DOMAIN ready : i \in Nat \ {0} /\ (i # 1 => i - 1 \in DOMAIN Tail(ready))
  BY <1>2
<1>6. ASSUME NEW i \in DOMAIN Tail(ready), NEW j \in DOMAIN Tail(ready), i # j
      PROVE  Tail(ready)[i] # Tail(ready)[j]
  <2>1. i + 1 # j + 1
    BY <1>2, <1>6
  <2> QED
    BY <1>4, <2>1 DEF QueueInv
<1>7. ASSUME NEW k \in DOMAIN call, c[k].pc \in {"ok", "failed"}
      PROVE  \E i \in DOMAIN Tail(ready) : Tail(ready)[i] = k
  <2>1. k # id /\ c[k] = call[k]
    BY <1>7 DEF Moved
  <2>2. PICK j \in DOMAIN ready : ready[j] = k
    BY <1>7, <2>1 DEF QueueInv
  <2>3. j - 1 \in DOMAIN Tail(ready) /\ (j - 1) + 1 = j
    BY <1>3, <1>5, <2>1, <2>2
  <2>4. Tail(ready)[j - 1] = k
    BY <1>2, <2>2, <2>3
  <2> QED
    BY <2>3, <2>4
<1> QED
  BY <1>2, <1>3, <1>4, <1>5, <1>6, <1>7 DEF Shrunk

----------------------------------------------------------------------------
(* The steps of the server.                                                *)

\* An operator's call, whichever it is.
Called(op) ==
    /\ Send(op, conn, call, ready)
    /\ UNCHANGED <<conn, cached, reader, post, device, up, executed>>
    /\ IF op = "estop" THEN SetArmed(FALSE) /\ lastEstop' = Len(call) + 1
                       ELSE UNCHANGED <<armed, armedBy, armedOn, lastEstop>>
    /\ excused' \in {excused, excused \cup {"race"}}
    /\ op = "arm" => PostDone \/ "race" \in excused'

\* An operator's call preserves the invariant.  An arming is only called with
\* the post-connect task done, or the link is excused; an emergency stop goes
\* down behind every arming called before it.
LEMMA CallInv ==
    ASSUME IInv, NEW op \in {"arm", "disarm", "estop", "stop"}, Called(op)
    PROVE  IInv'
<1> DEFINE N == Len(call) + 1
<1>1. TypeOK /\ LinkInv /\ QueueInv /\ OrderInv /\ AckInv /\ PostInv /\ NamesInv
      /\ EstopInv /\ HealthInv /\ AgreeInv
  BY DEF IInv
<1> USE <1>1
<1>2. conn \in 0..MaxLinks /\ ready \in Seq(DOMAIN call) /\ call \in Seq(Calls)
      /\ Send(op, conn, call, ready)
  BY DEF TypeOK, Called
<1>3. /\ call' \in Seq(Calls) /\ Len(call') = N /\ Len(call) \in Nat
      /\ DOMAIN call = 1..Len(call) /\ DOMAIN call' = 1..N
      /\ \A id \in DOMAIN call : call'[id] = call[id]
      /\ call'[N] = Command(op, conn)
      /\ ready' \in Seq(DOMAIN call') /\ down' \in Seq(DOMAIN call')
      /\ DOMAIN ready \subseteq DOMAIN ready' /\ \A i \in DOMAIN ready : ready'[i] = ready[i]
      /\ conn # 0 => ready' = ready
      /\ conn = 0 => DOMAIN ready' = 1..Len(ready) + 1 /\ ready'[Len(ready) + 1] = N
      /\ DOMAIN ready = 1..Len(ready) /\ Len(ready) \in Nat
      /\ ctlConn = 0 => down' = down
      /\ DOMAIN down = 1..Len(down) /\ Len(down) \in Nat
      /\ ctlConn # 0 => /\ DOMAIN down' = 1..Len(down) + 1 /\ down'[Len(down) + 1] = N
                        /\ \A i \in DOMAIN down : down'[i] = down[i]
  <2>1. SentThen(op, conn, call, ready)
    BY <1>2, Sent
  <2> QED
    BY <2>1 DEF SentThen
<1>4. \A n \in Links : \A i \in DOMAIN up[n] :
        IsAck(up[n][i]) => up[n][i].id \in DOMAIN call
  BY FrameFacts
<1>5. /\ \A i \in DOMAIN ready : ready[i] \in DOMAIN call
      /\ \A i \in DOMAIN down : down[i] \in DOMAIN call
  BY CallFacts
<1>6. /\ UNCHANGED <<conn, cached, reader, post, ctl, ctlConn, up, executed>>
      /\ \/ op = "estop" /\ armed' = FALSE /\ armedBy' = 0 /\ armedOn' = 0 /\ lastEstop' = N
         \/ op # "estop" /\ UNCHANGED <<armed, armedBy, armedOn, lastEstop>>
      /\ excused' \in {excused, excused \cup {"race"}}
      /\ op = "arm" => PostDone \/ "race" \in excused'
  BY DEF Called, device, SetArmed
<1>7. /\ call'[N].op = op /\ call'[N].on = conn
      /\ call'[N].pc = IF conn = 0 THEN "failed" ELSE "waiting"
  BY <1>3 DEF Command
<1>8. ctlConn # 0 => conn = ctlConn /\ ctlConn \in Links /\ conn # 0
  BY DEF LinkInv, TypeOK, Links
<1>9. armedBy \in 0..Len(call) /\ lastEstop \in 0..Len(call) /\ armedOn \in 0..MaxLinks /\ armed \in BOOLEAN
  BY DEF TypeOK
<1> HIDE DEF N
<1>10. /\ N \notin DOMAIN call /\ DOMAIN call' = DOMAIN call \cup {N} /\ N \in Nat
       /\ \A id \in DOMAIN call : id < N /\ id \in Nat
       /\ \A id \in DOMAIN call : call'[id] = call[id]
  BY <1>3 DEF N
<1>11. /\ conn # 0 => ready' = ready
       /\ conn = 0 => /\ DOMAIN ready' = DOMAIN ready \cup {Len(ready) + 1}
                      /\ Len(ready) + 1 \notin DOMAIN ready /\ ready'[Len(ready) + 1] = N
                      /\ \A i \in DOMAIN ready : ready'[i] = ready[i]
  <2>1. 1..Len(ready) + 1 = 1..Len(ready) \cup {Len(ready) + 1} /\ Len(ready) + 1 \notin 1..Len(ready)
    BY <1>3
  <2>2. DOMAIN ready = 1..Len(ready)
    BY <1>3
  <2>3. conn = 0 => DOMAIN ready' = DOMAIN ready \cup {Len(ready) + 1}
    BY <1>3, <2>1, <2>2
  <2>4. Len(ready) + 1 \notin DOMAIN ready
    BY <2>1, <2>2
  <2>5. conn = 0 => ready'[Len(ready) + 1] = N
    BY <1>3
  <2>6. conn = 0 => \A i \in DOMAIN ready : ready'[i] = ready[i]
    BY <1>3
  <2>7. conn # 0 => ready' = ready
    BY <1>3
  <2> QED
    BY <2>3, <2>4, <2>5, <2>6, <2>7
<1>12. /\ ctlConn = 0 => down' = down
       /\ ctlConn # 0 => /\ DOMAIN down' = DOMAIN down \cup {Len(down) + 1}
                         /\ Len(down) + 1 \notin DOMAIN down /\ down'[Len(down) + 1] = N
                         /\ \A i \in DOMAIN down : down'[i] = down[i] /\ i < Len(down) + 1 /\ i \in Nat
       /\ Len(down) + 1 \in Nat
  <2>1. 1..Len(down) + 1 = 1..Len(down) \cup {Len(down) + 1} /\ Len(down) + 1 \notin 1..Len(down)
        /\ Len(down) + 1 \in Nat /\ \A i \in 1..Len(down) : i < Len(down) + 1 /\ i \in Nat
    BY <1>3
  <2>2. DOMAIN down = 1..Len(down)
    BY <1>3
  <2>3. ctlConn # 0 => DOMAIN down' = DOMAIN down \cup {Len(down) + 1}
    BY <1>3, <2>1, <2>2
  <2>4. ctlConn # 0 => down'[Len(down) + 1] = N /\ \A i \in DOMAIN down : down'[i] = down[i]
    BY <1>3
  <2>5. ctlConn = 0 => down' = down
    BY <1>3
  <2> QED
    BY <2>1, <2>2, <2>3, <2>4, <2>5
<1>13. TypeOK'
  <2>1. up \in [Links -> Seq(Frames')]
    BY <1>10, FramesGrow
  <2>2. armedBy' \in 0..Len(call') /\ lastEstop' \in 0..Len(call') /\ armedOn' \in 0..MaxLinks
        /\ armed' \in BOOLEAN
    <3>1. Len(call') = N /\ Len(call) \in Nat
      BY <1>3
    <3>2. 0 \in 0..N /\ N \in 0..N /\ 0..Len(call) \subseteq 0..N /\ MaxLinks \in Nat /\ 0 \in 0..MaxLinks
      BY <3>1, BoundsAssumption DEF N
    <3> QED
      BY <1>6, <1>9, <3>1, <3>2
  <2>3. executed' \subseteq DOMAIN call'
    BY <1>6, <1>10 DEF TypeOK
  <2>4. excused' \subseteq {"timeout", "stop", "race", "stale"}
    BY <1>6 DEF TypeOK
  <2> QED
    BY <1>3, <1>6, <2>1, <2>2, <2>3, <2>4 DEF TypeOK
<1>14. LinkInv'
  BY <1>3, <1>6, <1>7, <1>10 DEF LinkInv
<1>15. QueueInv'
  <2>1. CASE conn # 0
    BY <1>5, <1>7, <1>10, <1>11, <2>1 DEF QueueInv
  <2>2. CASE conn = 0
    <3>1. \A i, j \in DOMAIN ready' : i # j => ready'[i] # ready'[j]
      BY <1>5, <1>10, <1>11, <2>2 DEF QueueInv
    <3>2. \A i \in DOMAIN ready' : call'[ready'[i]].pc \in {"ok", "failed"}
      BY <1>5, <1>7, <1>10, <1>11, <2>2 DEF QueueInv
    <3>3. ASSUME NEW id \in DOMAIN call', call'[id].pc \in {"ok", "failed"}
          PROVE  \E i \in DOMAIN ready' : ready'[i] = id
      BY <1>5, <1>7, <1>10, <1>11, <2>2, <3>3 DEF QueueInv
    <3> QED
      BY <3>1, <3>2, <3>3 DEF QueueInv
  <2> QED
    BY <2>1, <2>2
<1>16. OrderInv'
  <2>1. \A i, j \in DOMAIN down' : i < j => down'[i] < down'[j]
    BY <1>5, <1>10, <1>12 DEF OrderInv
  <2>2. ASSUME ctlConn # 0, NEW i \in DOMAIN up[ctlConn], IsAck(up[ctlConn][i]),
               NEW j \in DOMAIN down'
        PROVE  up[ctlConn][i].id < down'[j]
    <3>1. up[ctlConn][i].id \in DOMAIN call
      BY <1>4, <1>8, <2>2
    <3> QED
      BY <1>10, <1>12, <2>2, <3>1 DEF OrderInv
  <2>3. ASSUME NEW n \in Links, n # conn, NEW i \in DOMAIN up[n], IsAck(up[n][i])
        PROVE  call'[up[n][i].id].pc # "waiting"
    BY <1>4, <1>10, <2>3 DEF OrderInv
  <2> QED
    BY <1>6, <2>1, <2>2, <2>3 DEF OrderInv, IsAck
<1>17. AckInv'
  BY <1>3, <1>6, <1>7, <1>10 DEF AckInv, IsAck
<1>18. PostInv'
  <2>1. \A id \in DOMAIN call' : (OfPost(id) /\ Open(id))' => id \in DOMAIN call /\ OfPost(id) /\ Open(id)
    BY <1>7, <1>10 DEF OfPost, Open
  <2>2. \A id \in DOMAIN call : call'[id].on = call[id].on
    BY <1>10
  <2> QED
    BY <1>6, <2>1, <2>2 DEF PostInv
<1>19. NamesInv'
  <2>1. lastEstop' # 0 => call'[lastEstop'].op = "estop"
    BY <1>3, <1>6, <1>7, <1>9, <1>10 DEF NamesInv
  <2>2. armedBy' # 0 => call'[armedBy'].op = "arm"
    BY <1>3, <1>6, <1>9, <1>10 DEF NamesInv
  <2> QED
    BY <1>6, <2>1, <2>2 DEF NamesInv
<1>20. OpsKept
  BY <1>10 DEF OpsKept
<1>21. ASSUME ctlConn # 0
       PROVE  /\ \A ids : Undone(ids) => Undone(ids)'
              /\ ConfigOpen => ConfigOpen'
  <2>1. ConfigOpen => ConfigOpen'
    BY <1>6, <1>10 DEF ConfigOpen, Open
  <2>2. \A id \in DOMAIN call' : call'[id].pc = "ok" => id \in DOMAIN call /\ call[id].pc = "ok"
    BY <1>7, <1>8, <1>21, <1>10
  <2> QED
    BY <1>6, <1>8, <1>20, <1>21, <2>1, <2>2, UndoneStays
<1>22. EstopInv'
  <2>1. CASE ctlConn = 0
    BY <1>6, <2>1 DEF EstopInv
  <2>2. CASE ctlConn # 0 /\ op = "estop"
    <3>1. lastEstop' = N /\ ctlConn' = ctlConn
      BY <1>6, <2>2
    <3>2. InDown(lastEstop)'
      BY <1>12, <2>2, <3>1 DEF InDown
    <3> QED
      BY <3>2 DEF EstopInv
  <2>3. CASE ctlConn # 0 /\ op # "estop"
    <3>1. UNCHANGED <<lastEstop, ctlConn>>
      BY <1>6, <2>3
    <3>2. InDown(lastEstop) => InDown(lastEstop)'
      BY <1>12, <2>3, <3>1 DEF InDown
    <3>3. Undone(0..lastEstop - 1) => Undone(0..lastEstop - 1)'
      <4> PICK ids : ids = 0..lastEstop - 1
        OBVIOUS
      <4>1. ids = (0..lastEstop - 1)'
        BY <3>1
      <4> QED
        BY <1>21, <2>3, <4>1 DEF Undone
    <3>4. ASSUME NEW i \in DOMAIN down', call'[down'[i]].op = "arm", down'[i] < lastEstop
          PROVE  InDown(lastEstop)
      <4>1. lastEstop < N /\ lastEstop \in Nat
        BY <1>3, <1>9 DEF N
      <4>2. down'[i] # N
        BY <1>10, <3>4, <4>1
      <4>3. i \in DOMAIN down /\ down'[i] = down[i] /\ down[i] \in DOMAIN call
        BY <1>5, <1>12, <2>3, <4>2
      <4> QED
        BY <1>10, <2>3, <3>4, <4>3 DEF EstopInv
    <3> QED
      BY <2>3, <3>1, <3>2, <3>3, <3>4 DEF EstopInv
  <2> QED
    BY <2>1, <2>2, <2>3
<1>23. HealthInv'
  BY <1>6, <1>21 DEF HealthInv
<1>24. AgreeInv'
  <2> SUFFICES ASSUME ctlConn # 0, SprayEnabled, excused' = {}
               PROVE  (Awaited /\ Quieted /\ Told /\ Taken)'
    BY <1>6 DEF AgreeInv
  <2>1. Awaited /\ Quieted /\ Told /\ Taken /\ (op = "arm" => PostDone)
    BY <1>6 DEF AgreeInv
  <2>2. \A i \in DOMAIN up[ctlConn] : IsAck(up[ctlConn][i]) =>
          up[ctlConn][i].id \in DOMAIN call /\ call'[up[ctlConn][i].id] = call[up[ctlConn][i].id]
    BY <1>4, <1>8, <1>10
  <2>3. Awaited'
    <3>1. ASSUME NEW i \in DOMAIN down', call'[down'[i]].op \in {"arm", "disarm"}
          PROVE  call'[down'[i]].pc = "waiting"
      BY <1>5, <1>7, <1>8, <1>10, <1>12, <2>1, <3>1 DEF Awaited
    <3> QED
      BY <1>6, <2>1, <2>2, <3>1 DEF Awaited, IsAck
  <2>4. Quieted'
    <3>1. PostDone' \/ NoArming'
      BY <1>6, <1>7, <1>21, <1>10, <2>1 DEF Quieted, NoArming, PostDone
    <3>2. ASSUME NEW i \in DOMAIN down', call'[down'[i]].op = "quiet"
          PROVE  i \in DOMAIN down /\ call[down[i]].op = "quiet"
      BY <1>5, <1>7, <1>10, <1>12, <3>2
    <3>3. ASSUME NEW i \in DOMAIN down, NEW j \in DOMAIN down', j < i
          PROVE  j \in DOMAIN down /\ down'[j] = down[j]
      BY <1>3, <1>12, <3>3
    <3>4. \A j \in DOMAIN down : call'[down[j]] = call[down[j]]
      BY <1>5, <1>10
    <3> QED
      BY <1>6, <2>1, <3>1, <3>2, <3>3, <3>4 DEF Quieted
  <2>5. /\ \A i \in DOMAIN up[ctlConn] : /\ Effective(up[ctlConn][i])' <=> Effective(up[ctlConn][i])
                                         /\ OkArm(up[ctlConn][i])' <=> OkArm(up[ctlConn][i])
        /\ \A k : NoneBehind(k)' <=> NoneBehind(k)
    BY <1>6, <1>8, <1>20, FramesStay
  <2>6. Told'
    BY <1>6, <2>1, <2>5 DEF Told
  <2>7. Taken'
    <3>1. ready' = ready
      BY <1>8, <1>11
    <3>2. \A i \in DOMAIN ready : /\ Telling(ready[i])' <=> Telling(ready[i])
                                 /\ call'[ready[i]] = call[ready[i]]
      BY <1>5, <1>10, <3>1 DEF Telling
    <3>3. \A k : NoneReadyBehind(k)' <=> NoneReadyBehind(k)
      BY <3>1, <3>2 DEF NoneReadyBehind
    <3>4. Delivered' <=> Delivered
      BY <1>6, <2>5 DEF Delivered
    <3>5. (\E i \in DOMAIN down : call[down[i]].op = "estop")
          => \E i \in DOMAIN down' : call'[down'[i]].op = "estop"
      BY <1>5, <1>10, <1>12
    <3>6. CASE op = "estop"
      <4>1. \E i \in DOMAIN down' : call'[down'[i]].op = "estop"
        BY <1>7, <1>12, <3>6
      <4> QED
        BY <1>6, <2>1, <3>1, <3>2, <3>3, <3>4, <4>1 DEF Taken
    <3>7. CASE op # "estop"
      <4>1. UNCHANGED <<armed, ctl>>
        BY <1>6, <3>7
      <4> QED
        BY <1>21, <2>1, <3>1, <3>2, <3>3, <3>4, <3>5, <4>1 DEF Taken
    <3> QED
      BY <3>6, <3>7
  <2> QED
    BY <2>3, <2>4, <2>6, <2>7
<1> QED
  BY <1>13, <1>14, <1>15, <1>16, <1>17, <1>18, <1>19, <1>22, <1>23, <1>24 DEF IInv

\* A call that times out has failed: it arms nothing.
LEMMA TimeoutInv ==
    ASSUME IInv, NEW id \in DOMAIN call, Timeout(id)
    PROVE  IInv'
<1>1. TypeOK /\ LinkInv /\ QueueInv /\ OrderInv /\ AckInv /\ PostInv /\ NamesInv
      /\ EstopInv /\ HealthInv /\ AgreeInv
  BY DEF IInv
<1> USE <1>1
<1>2. /\ call[id].pc = "waiting"
      /\ call' = [call EXCEPT ![id].pc = "failed"] /\ ready' = Append(ready, id)
      /\ excused' = excused \cup {"timeout"}
      /\ UNCHANGED <<armed, conn, cached, reader, post, ctl, ctlConn, down, up,
                     executed, armedBy, armedOn, lastEstop>>
  BY DEF Timeout, device
<1>3. Moved(id, "failed", call')
  BY <1>2, PcFacts
<1>4. QueueInv' /\ ready' \in Seq(DOMAIN call')
  BY <1>2, QueueGrows
<1>5. TypeOK'
  <2>1. up \in [Links -> Seq(Frames')]
    BY <1>3, FramesGrow DEF Moved
  <2> QED
    BY <1>2, <1>3, <1>4, <2>1 DEF Moved, TypeOK
<1>6. LinkInv'
  BY <1>2, <1>3 DEF Moved, LinkInv
<1>7. OrderInv'
  <2>1. \A n \in Links : \A i \in DOMAIN up[n] : IsAck(up[n][i]) => up[n][i].id \in DOMAIN call
    BY FrameFacts
  <2>2. \A k \in DOMAIN call : call[k].pc # "waiting" => call'[k].pc # "waiting"
    BY <1>3 DEF Moved
  <2> QED
    BY <1>2, <2>1, <2>2 DEF OrderInv, IsAck
<1>8. AckInv'
  BY <1>2, <1>3 DEF Moved, AckInv, IsAck
<1>9. PostInv'
  BY <1>2, <1>3 DEF Moved, PostInv, OfPost, Open
<1>10. NamesInv'
  BY <1>2, <1>3 DEF Moved, NamesInv, TypeOK
<1>11. OpsKept
  BY <1>3 DEF Moved, OpsKept
<1>12. ASSUME ctlConn # 0, NEW ids, Undone(ids) PROVE Undone(ids)'
  <2>1. ConfigOpen => ConfigOpen'
    BY <1>2, <1>3 DEF Moved, ConfigOpen, Open
  <2>2. ctlConn \in Links
    BY <1>12 DEF TypeOK, Links
  <2>3. \A k \in DOMAIN call' : call'[k].pc = "ok" => k \in DOMAIN call /\ call[k].pc = "ok"
    BY <1>3 DEF Moved
  <2> QED
    BY <1>2, <1>11, <1>12, <2>1, <2>2, <2>3, UndoneStays
<1>13. EstopInv' /\ HealthInv'
  <2>1. InDown(lastEstop)' <=> InDown(lastEstop)
    BY <1>2 DEF InDown
  <2>2. \A i \in DOMAIN down' : InDown(down'[i])
    BY <1>2 DEF InDown
  <2> QED
    BY <1>2, <1>11, <1>12, <2>1, <2>2, StopsStay
<1>14. AgreeInv'
  BY <1>2 DEF AgreeInv
<1> QED
  BY <1>4, <1>5, <1>6, <1>7, <1>8, <1>9, <1>10, <1>13, <1>14 DEF IInv

\* The frame that is read, and what is left.
LEMMA ReadFacts ==
    ASSUME TypeOK, NEW n \in Links, Read(n)
    PROVE  /\ up[n] # <<>> /\ 1 \in DOMAIN up[n] /\ up[n][1] \in Frames
           /\ up' \in [Links -> Seq(Frames)]
           /\ \A m \in Links : m # n => up'[m] = up[m]
           /\ \A i \in DOMAIN up'[n] : i \in Nat \ {0} /\ i + 1 \in DOMAIN up[n] /\ up'[n][i] = up[n][i + 1]
           /\ \A i \in DOMAIN up[n] : i \in Nat \ {0} /\ (i # 1 => i - 1 \in DOMAIN up'[n])
           /\ Head(up[n]) = up[n][1]
<1>1. up[n] # <<>> /\ up' = [up EXCEPT ![n] = Tail(@)]
  BY DEF Read
<1>2. up \in [Links -> Seq(Frames)] /\ up[n] \in Seq(Frames)
  BY DEF TypeOK
<1>3. /\ Head(up[n]) = up[n][1] /\ Head(up[n]) \in Frames /\ 1 \in DOMAIN up[n]
      /\ Len(up[n]) \in Nat \ {0} /\ DOMAIN up[n] = 1..Len(up[n])
      /\ Tail(up[n]) \in Seq(Frames) /\ DOMAIN Tail(up[n]) = 1..Len(up[n]) - 1
      /\ \A i \in DOMAIN Tail(up[n]) : Tail(up[n])[i] = up[n][i + 1]
  BY <1>1, <1>2, TailFacts
<1>4. up'[n] = Tail(up[n]) /\ \A m \in Links : m # n => up'[m] = up[m]
  BY <1>1, <1>2
<1>5. up' \in [Links -> Seq(Frames)]
  BY <1>1, <1>2, <1>3
<1>6. \A i \in DOMAIN up'[n] : i \in Nat \ {0} /\ i + 1 \in DOMAIN up[n] /\ up'[n][i] = up[n][i + 1]
  BY <1>3, <1>4
<1>7. \A i \in DOMAIN up[n] : i \in Nat \ {0} /\ (i # 1 => i - 1 \in DOMAIN up'[n])
  BY <1>3, <1>4
<1> QED
  BY <1>1, <1>3, <1>4, <1>5, <1>6, <1>7

\* A frame read: an acknowledgement settles the call it names, which waits;
\* a stop event that is read is about to be recorded.
LEMMA ReadInv ==
    ASSUME IInv, NEW n \in Links, Read(n)
    PROVE  IInv'
<1>1. TypeOK /\ LinkInv /\ QueueInv /\ OrderInv /\ AckInv /\ PostInv /\ NamesInv
      /\ EstopInv /\ HealthInv /\ AgreeInv
  BY DEF IInv
<1> USE <1>1
<1> PICK f \in Frames : f = up[n][1]
  BY ReadFacts
<1>2. /\ reader[n] = "read" /\ Head(up[n]) = f /\ f = up[n][1]
      /\ \/ f.kind = "ack" /\ Resolve(f.id, f.ok) /\ UNCHANGED <<cached, reader>>
         \/ f.kind = "status" /\ cached' = f.state /\ UNCHANGED <<call, ready, reader>>
         \/ f.kind = "estop" /\ reader' = [reader EXCEPT ![n] = "emit"]
            /\ UNCHANGED <<call, ready, cached>>
      /\ UNCHANGED <<armed, conn, post, ctl, ctlConn, down, executed, armedBy, armedOn,
                     lastEstop, excused>>
  BY ReadFacts DEF Read, device, history
<1>3. /\ up' \in [Links -> Seq(Frames)] /\ 1 \in DOMAIN up[n]
      /\ \A m \in Links : m # n => up'[m] = up[m]
      /\ \A i \in DOMAIN up'[n] : i \in Nat \ {0} /\ i + 1 \in DOMAIN up[n] /\ up'[n][i] = up[n][i + 1]
      /\ \A i \in DOMAIN up[n] : i \in Nat \ {0} /\ (i # 1 => i - 1 \in DOMAIN up'[n])
  BY ReadFacts
<1>4. /\ f.kind = "ack" => f.id \in DOMAIN call /\ f.ok \in BOOLEAN
      /\ f.kind = "status" => f.state \in State
  BY DEF Frames
\* Its call is settled, or there is nothing to settle.
<1> DEFINE settled == f.kind = "ack" /\ call[f.id].pc = "waiting"
           v == IF f.ok THEN "ok" ELSE "failed"
<1>5. /\ settled => call' = [call EXCEPT ![f.id].pc = v] /\ ready' = Append(ready, f.id)
      /\ ~settled => UNCHANGED <<call, ready>>
  BY <1>2 DEF Resolve, Settle
<1>6. settled => n = conn
  BY <1>2, <1>3 DEF OrderInv, IsAck
<1> HIDE DEF settled, v
<1>7. ASSUME settled PROVE Moved(f.id, v, call')
  BY <1>4, <1>5, <1>7, PcFacts DEF settled, v
<1>8. OpsKept /\ DOMAIN call' = DOMAIN call /\ call' \in Seq(Calls) /\ Len(call') = Len(call)
  <2>1. CASE settled
    BY <1>7, <2>1 DEF Moved, OpsKept
  <2>2. CASE ~settled
    BY <1>5, <2>2 DEF OpsKept, TypeOK
  <2> QED
    BY <2>1, <2>2
<1>9. QueueInv' /\ ready' \in Seq(DOMAIN call')
  <2>1. CASE settled
    BY <1>4, <1>5, <2>1, QueueGrows DEF settled, v
  <2>2. CASE ~settled
    BY <1>5, <2>2 DEF QueueInv, TypeOK
  <2> QED
    BY <2>1, <2>2
<1>10. \A id \in DOMAIN call :
         /\ call'[id].pc # call[id].pc =>
              settled /\ id = f.id /\ call[id].pc = "waiting" /\ call'[id].pc = v
         /\ Open(id)' <=> Open(id)
  <2>1. CASE settled
    BY <1>4, <1>7, <2>1 DEF Moved, settled, v, Open
  <2>2. CASE ~settled
    BY <1>5, <2>2 DEF Open
  <2> QED
    BY <2>1, <2>2
<1>11. TypeOK'
  <2>1. Frames' = Frames
    BY <1>8 DEF Frames
  <2>2. reader' \in [Links -> {"none", "read", "emit", "closed"}] /\ cached' \in State
    BY <1>2, <1>4 DEF TypeOK
  <2> QED
    BY <1>2, <1>3, <1>8, <1>9, <2>1, <2>2 DEF TypeOK
<1>12. \A m \in Links : reader'[m] = IF m = n /\ f.kind = "estop" THEN "emit" ELSE reader[m]
  BY <1>2 DEF TypeOK
<1>13. LinkInv'
  <2>1. \A m \in Links : reader'[m] = "none" => reader[m] = "none" /\ m # n
    BY <1>2, <1>12
  <2>2. \A m \in Links : reader[m] # "none" => reader'[m] # "none"
    BY <1>12
  <2>3. \A id \in DOMAIN call : call[id].on # 0 => call[id].on \in Links
    BY CallFacts DEF Calls, Links
  <2>4. conn # 0 => conn \in Links
    BY DEF TypeOK, Links
  <2>5. \A id \in DOMAIN call' : call'[id].on # 0 => reader'[call'[id].on] # "none"
    BY <1>8, <2>2, <2>3 DEF LinkInv, OpsKept
  <2> QED
    BY <1>2, <1>3, <1>12, <2>1, <2>4, <2>5 DEF LinkInv
<1>14. \A m \in Links : \A i \in DOMAIN up'[m] : \E k \in DOMAIN up[m] :
         up'[m][i] = up[m][k] /\ (m = n => k = i + 1) /\ (m # n => k = i)
  BY <1>3
<1>15. \A m \in Links : \A i \in DOMAIN up[m] : IsAck(up[m][i]) => up[m][i].id \in DOMAIN call
  BY FrameFacts
<1>16. AckInv'
  <2>1. ASSUME NEW m \in Links, NEW i \in DOMAIN up'[m], IsAck(up'[m][i]), up'[m][i].ok
        PROVE  up'[m][i].id \in executed
    BY <1>14, <2>1 DEF AckInv
  <2>2. ASSUME NEW id \in DOMAIN call, call'[id].pc \in {"ok", "returned"} PROVE id \in executed
    <3>1. CASE call'[id].pc = call[id].pc
      BY <2>2, <3>1 DEF AckInv
    <3>2. CASE call'[id].pc # call[id].pc
      BY <1>2, <1>3, <1>10, <2>2, <3>2 DEF AckInv, settled, v, IsAck
    <3> QED
      BY <3>1, <3>2
  <2> QED
    BY <1>2, <1>8, <2>1, <2>2 DEF AckInv, IsAck
<1>17. PostInv'
  BY <1>2, <1>8, <1>10 DEF PostInv, OfPost, OpsKept
<1>18. NamesInv'
  BY <1>2, <1>8 DEF NamesInv, TypeOK, OpsKept
<1>19. ctlConn # 0 => ctlConn \in Links /\ conn = ctlConn
  BY DEF LinkInv, TypeOK, Links
<1>20. OrderInv'
  <2>1. ASSUME ctlConn # 0, NEW i \in DOMAIN up'[ctlConn], IsAck(up'[ctlConn][i])
        PROVE  /\ \A j \in DOMAIN down : up'[ctlConn][i].id < down[j]
               /\ \A j \in DOMAIN up'[ctlConn] :
                    i < j /\ IsAck(up'[ctlConn][j]) => up'[ctlConn][i].id < up'[ctlConn][j].id
    <3>1. PICK k \in DOMAIN up[ctlConn] :
            up'[ctlConn][i] = up[ctlConn][k] /\ (ctlConn = n => k = i + 1) /\ (ctlConn # n => k = i)
      BY <1>14, <1>19, <2>1
    <3>2. ASSUME NEW j \in DOMAIN up'[ctlConn], i < j, IsAck(up'[ctlConn][j])
          PROVE  up'[ctlConn][i].id < up'[ctlConn][j].id
      <4>1. PICK l \in DOMAIN up[ctlConn] :
              up'[ctlConn][j] = up[ctlConn][l] /\ (ctlConn = n => l = j + 1) /\ (ctlConn # n => l = j)
        BY <1>14, <1>19, <2>1
      <4>2. k < l
        BY <1>3, <3>1, <3>2, <4>1
      <4> QED
        BY <2>1, <3>1, <3>2, <4>1, <4>2 DEF OrderInv
    <3> QED
      BY <2>1, <3>1, <3>2 DEF OrderInv
  <2>2. ASSUME NEW m \in Links, m # conn, NEW i \in DOMAIN up'[m], IsAck(up'[m][i])
        PROVE  call'[up'[m][i].id].pc # "waiting"
    <3>1. PICK k \in DOMAIN up[m] : up'[m][i] = up[m][k]
      BY <1>14
    <3>2. call[up[m][k].id].pc # "waiting" /\ up[m][k].id \in DOMAIN call
      BY <1>15, <2>2, <3>1 DEF OrderInv
    <3> QED
      BY <1>10, <3>1, <3>2
  <2> QED
    BY <1>2, <2>1, <2>2 DEF OrderInv, IsAck
<1>21. \A i \in DOMAIN up[n] : IsAck(up[n][i]) => call'[up[n][i].id].op = call[up[n][i].id].op
  BY <1>8, <1>15 DEF OpsKept
<1>22. ConfigOpen' <=> ConfigOpen
  BY <1>2, <1>8, <1>10 DEF ConfigOpen, OpsKept
<1>23. ASSUME ctlConn # 0, n # ctlConn
       PROVE  UNCHANGED <<call, ready>> /\ up'[ctlConn] = up[ctlConn] /\ reader'[ctlConn] = reader[ctlConn]
  BY <1>3, <1>5, <1>6, <1>12, <1>19, <1>23
<1>24. ASSUME n = ctlConn, NEW k \in Nat, NEW l, l = k + 1, StopBehind(l) PROVE StopBehind(k)'
  <2>1. PICK j \in DOMAIN up[n] : l < j /\ up[n][j].kind = "estop"
    BY <1>24 DEF StopBehind
  <2>2. j - 1 \in DOMAIN up'[n] /\ up'[n][j - 1] = up[n][j] /\ k < j - 1
    BY <1>3, <1>24, <2>1
  <2> QED
    BY <1>2, <1>24, <2>1, <2>2 DEF StopBehind
<1>25. ASSUME n = ctlConn, StopToCome PROVE StopToCome'
  <2>1. PICK j \in DOMAIN up[n] : 0 < j /\ up[n][j].kind = "estop"
    BY <1>2, <1>25 DEF StopToCome, StopBehind
  <2>2. CASE j = 1
    BY <1>2, <1>12, <1>25, <2>1, <2>2 DEF StopToCome
  <2>3. CASE j # 1
    <3>1. StopBehind(1)
      BY <1>3, <1>25, <2>1, <2>3 DEF StopBehind
    <3> QED
      BY <1>24, <1>25, <3>1 DEF StopToCome
  <2> QED
    BY <2>2, <2>3
<1>26. ASSUME ctlConn # 0, NEW ids, Undone(ids) PROVE Undone(ids)'
  <2>1. CASE n # ctlConn
    BY <1>2, <1>8, <1>19, <1>22, <1>23, <1>26, <2>1, UndoneStays
  <2>2. CASE n = ctlConn
    <3>1. ASSUME NEW i \in DOMAIN up'[n], IsAck(up'[n][i]), up'[n][i].ok,
                 call'[up'[n][i].id].op = "arm", up'[n][i].id \in ids
          PROVE  StopBehind(i)'
      <4>1. i \in Nat /\ i + 1 \in DOMAIN up[n] /\ up'[n][i] = up[n][i + 1]
        BY <1>3
      <4>2. OkArm(up[n][i + 1])
        BY <1>21, <3>1, <4>1 DEF OkArm, IsAck
      <4>3. StopBehind(i + 1)
        BY <1>26, <2>2, <3>1, <4>1, <4>2 DEF Undone
      <4> QED
        BY <1>24, <2>2, <4>1, <4>3
    <3>2. ASSUME NEW id \in DOMAIN call', id \in ids, call'[id].op = "arm", call'[id].pc = "ok"
          PROVE  StopToCome'
      <4>1. id \in DOMAIN call /\ call[id].op = "arm"
        BY <1>8, <3>2 DEF OpsKept
      <4>2. CASE call[id].pc = "ok"
        BY <1>25, <1>26, <2>2, <3>2, <4>1, <4>2 DEF Undone
      <4>3. CASE call[id].pc # "ok"
        <5>1. settled /\ id = f.id /\ v = "ok"
          BY <1>10, <3>2, <4>1, <4>3
        <5>2. OkArm(up[n][1])
          BY <1>2, <4>1, <5>1 DEF OkArm, IsAck, settled, v
        <5>3. StopBehind(1)
          BY <1>2, <1>3, <1>26, <2>2, <3>2, <5>1, <5>2 DEF Undone
        <5> QED
          BY <1>24, <2>2, <5>3 DEF StopToCome
      <4> QED
        BY <4>2, <4>3
    <3>3. armed' /\ armedBy' \in ids => StopToCome' \/ ConfigOpen'
      BY <1>2, <1>22, <1>25, <1>26, <2>2 DEF Undone
    <3> QED
      BY <1>2, <2>2, <3>1, <3>2, <3>3 DEF Undone, OkArm
  <2> QED
    BY <2>1, <2>2
<1>27. EstopInv' /\ HealthInv'
  <2>1. InDown(lastEstop)' <=> InDown(lastEstop)
    BY <1>2 DEF InDown
  <2>2. \A i \in DOMAIN down' : InDown(down'[i])
    BY <1>2 DEF InDown
  <2> QED
    BY <1>2, <1>8, <1>26, <2>1, <2>2, StopsStay
<1>28. AgreeInv'
  <2> SUFFICES ASSUME ctlConn # 0, SprayEnabled, excused = {}
               PROVE  (Awaited /\ Quieted /\ Told /\ Taken)'
    BY <1>2 DEF AgreeInv
  <2>1. Awaited /\ Quieted /\ Told /\ Taken
    BY DEF AgreeInv
  <2>2. CASE n # ctlConn
    <3>1. UNCHANGED <<call, ready, up[ctlConn], reader[ctlConn], armed, ctl, ctlConn, down, post>>
      BY <1>2, <1>23, <2>2
    <3>2. Awaited' /\ Quieted'
      BY <2>1, <3>1 DEF Awaited, IsAck, Quieted, PostDone, NoArming, ConfigOpen, Open
    <3>3. Told' /\ Taken'
      BY <2>1, <3>1 DEF Told, NoneBehind, Effective, OkArm, IsAck, Taken,
                             NoneReadyBehind, Telling, Delivered, ConfigOpen, Open
    <3> QED
      BY <3>2, <3>3
  <2>3. CASE n = ctlConn
    <3>1. \A i \in DOMAIN up'[n] : \A k : k = i + 1 =>
            /\ k \in DOMAIN up[n]
            /\ Effective(up[n][i])' <=> Effective(up[n][k])
            /\ OkArm(up[n][i])' <=> OkArm(up[n][k])
      BY <1>3, <1>21 DEF Effective, OkArm, IsAck
    <3>2. ASSUME NEW k \in Nat, NoneBehind(k)', NEW l, l = k + 1 PROVE NoneBehind(l)
      <4>1. ASSUME NEW j \in DOMAIN up[n], l < j PROVE ~Effective(up[n][j])
        <5>1. j - 1 \in DOMAIN up'[n] /\ k < j - 1 /\ (j - 1) + 1 = j
          BY <1>3, <3>2, <4>1
        <5>2. ~Effective(up[n][j - 1])'
          BY <1>2, <2>3, <3>2, <5>1 DEF NoneBehind
        <5> QED
          BY <3>1, <5>1, <5>2
      <4> QED
        BY <2>3, <4>1 DEF NoneBehind
    <3>3. settled => /\ \A i \in DOMAIN down : down[i] # f.id
                     /\ \A i \in DOMAIN up'[n] : IsAck(up'[n][i]) => up'[n][i].id # f.id
      <4> HAVE settled
      <4>1. IsAck(up[n][1]) /\ f.id \in Nat
        BY <1>2, <1>4, CallFacts DEF settled, IsAck
      <4>2. \A i \in DOMAIN down : down[i] # f.id
        BY <1>2, <1>3, <2>3, <4>1 DEF OrderInv
      <4>3. ASSUME NEW i \in DOMAIN up'[n], IsAck(up'[n][i]) PROVE up'[n][i].id # f.id
        <5>1. PICK k \in DOMAIN up[n] : 1 < k /\ up'[n][i] = up[n][k]
          BY <1>3
        <5>2. f.id < up[n][k].id
          BY <1>2, <1>3, <2>3, <4>1, <4>3, <5>1 DEF OrderInv
        <5> QED
          BY <4>1, <5>1, <5>2
      <4> QED
        BY <4>2, <4>3
    <3>4. \A id \in DOMAIN call : ~settled \/ id # f.id => call'[id].pc = call[id].pc
      BY <1>10
    <3>5. Awaited'
      <4>1. \A i \in DOMAIN down : call'[down[i]].op \in {"arm", "disarm"} => call'[down[i]].pc = "waiting"
        BY <1>8, <2>1, <3>3, <3>4, CallFacts DEF Awaited, OpsKept
      <4>2. ASSUME NEW i \in DOMAIN up'[n], IsAck(up'[n][i]), call'[up'[n][i].id].op \in {"arm", "disarm"}
            PROVE  call'[up'[n][i].id].pc = "waiting"
        <5>1. PICK k \in DOMAIN up[n] : up'[n][i] = up[n][k]
          BY <1>3
        <5>2. call[up[n][k].id].pc = "waiting" /\ up[n][k].id \in DOMAIN call
          BY <1>15, <1>21, <2>1, <2>3, <4>2, <5>1 DEF Awaited
        <5> QED
          BY <3>3, <3>4, <4>2, <5>1, <5>2
      <4> QED
        BY <1>2, <2>3, <4>1, <4>2 DEF Awaited
    <3>6. Quieted'
      <4>1. PostDone' \/ NoArming'
        BY <1>2, <1>8, <1>10, <1>22, <2>1 DEF Quieted, PostDone, NoArming, OpsKept, settled
      <4>2. \A i \in DOMAIN down : call'[down[i]].op = call[down[i]].op
        BY <1>8, CallFacts DEF OpsKept
      <4> QED
        BY <1>2, <2>1, <4>1, <4>2 DEF Quieted
    <3>7. Told'
      <4>1. ASSUME NEW i \in DOMAIN up'[n], Effective(up[n][i])', NoneBehind(i)'
            PROVE  ctl.armed <=> OkArm(up[n][i])'
        <5> PICK k : k = i + 1
          OBVIOUS
        <5>1. Effective(up[n][k]) /\ NoneBehind(k) /\ k \in DOMAIN up[n]
          BY <1>3, <3>1, <3>2, <4>1
        <5> QED
          BY <2>1, <2>3, <3>1, <4>1, <5>1 DEF Told
      <4>2. ASSUME NoneBehind(0)', reader'[n] = "emit" PROVE ~ctl.armed
        <5>1. NoneBehind(1) /\ f.kind = "estop"
          BY <1>2, <1>12, <3>2, <4>2
        <5>2. Effective(up[n][1]) /\ ~OkArm(up[n][1])
          BY <1>2, <5>1 DEF Effective, OkArm, IsAck
        <5> QED
          BY <1>3, <2>1, <2>3, <5>1, <5>2 DEF Told
      <4> QED
        BY <1>2, <2>3, <4>1, <4>2 DEF Told
    <3>8. Taken'
      <4> SUFFICES ASSUME Delivered'
                   PROVE  /\ \A i \in DOMAIN ready' : Telling(ready[i])' /\ NoneReadyBehind(i)' =>
                                (ctl.armed <=> call'[ready'[i]].op = "arm")
                          /\ NoneReadyBehind(0)' =>
                               \/ armed = ctl.armed
                               \/ ConfigOpen
                               \/ \E i \in DOMAIN down : call'[down[i]].op = "estop"
        BY <1>2, <1>22 DEF Taken
      <4>1. NoneBehind(1) /\ f.kind # "estop" /\ reader[n] # "emit"
        BY <1>2, <1>12, <2>3, <3>2 DEF Delivered
      <4>2. \A i \in DOMAIN ready : ready[i] \in DOMAIN call
        BY CallFacts
      <4>3. \A i \in DOMAIN down : down[i] \in DOMAIN call /\ call'[down[i]].op = call[down[i]].op
        BY <1>8, CallFacts DEF OpsKept
      <4>4. ASSUME settled
            PROVE  /\ DOMAIN ready' = DOMAIN ready \cup {Len(ready) + 1} /\ ready'[Len(ready) + 1] = f.id
                   /\ \A i \in DOMAIN ready : /\ ready'[i] = ready[i] /\ i < Len(ready) + 1
                                             /\ ready[i] # f.id /\ i \in Nat
                   /\ Len(ready) + 1 \in Nat \ {0}
        <5>1. call[f.id].pc = "waiting" /\ f.id \in DOMAIN call /\ v \in {"ok", "failed"}
          BY <1>4, <4>4 DEF settled, v
        <5>2. call' = [call EXCEPT ![f.id].pc = v] /\ ready' = Append(ready, f.id)
          BY <1>5, <4>4
        <5>3. /\ DOMAIN ready' = DOMAIN ready \cup {Len(ready) + 1} /\ ready'[Len(ready) + 1] = f.id
              /\ DOMAIN ready = 1..Len(ready) /\ Len(ready) \in Nat
          BY <5>1, <5>2, QueueGrows
        <5>4. \A i \in DOMAIN ready : ready'[i] = ready[i] /\ i < Len(ready) + 1 /\ ready[i] # f.id
          BY <5>1, <5>2, QueueGrows
        <5>5. \A i \in DOMAIN ready : i \in Nat
          BY <5>3
        <5>6. Len(ready) + 1 \in Nat \ {0}
          BY <5>3
        <5> QED
          BY <5>3, <5>4, <5>5, <5>6
      <4>5. \A i \in DOMAIN ready : ready[i] # f.id \/ ~settled => call'[ready[i]].pc = call[ready[i]].pc
        BY <3>4, <4>2
      <4>6. f.kind = "ack" /\ f.ok /\ call[f.id].op \in {"arm", "disarm"} =>
              settled /\ v = "ok" /\ (ctl.armed <=> call[f.id].op = "arm")
        <5> HAVE f.kind = "ack" /\ f.ok /\ call[f.id].op \in {"arm", "disarm"}
        <5>1. settled /\ v = "ok"
          <6>1. 1 \in DOMAIN up[ctlConn] /\ up[ctlConn][1] = f
            BY <1>2, <1>3, <2>3
          <6>2. call[f.id].pc = "waiting"
            BY <2>1, <6>1 DEF Awaited, IsAck
          <6> QED
            BY <6>2 DEF settled, v
        <5>2. Effective(up[n][1]) /\ (OkArm(up[n][1]) <=> call[f.id].op = "arm")
          BY <1>2 DEF Effective, OkArm, IsAck
        <5> QED
          BY <1>3, <2>1, <2>3, <4>1, <5>1, <5>2 DEF Told
      <4>7. CASE settled /\ Telling(f.id)'
        <5>1. ctl.armed <=> call'[f.id].op = "arm"
          <6>1. CASE call'[f.id].op = "config"
            <7>1. OfPost(f.id) /\ Open(f.id) /\ f.id \in DOMAIN call
              BY <1>4, <1>8, <4>7, <6>1 DEF OfPost, Open, OpsKept, settled
            <7>2. call[f.id].on \in Links
              BY <7>1, CallFacts DEF PostInv, Calls, Links
            <7>3. ~PostDone
              BY <7>1, <7>2 DEF PostInv, PostDone
            <7> QED
              BY <2>1, <6>1, <7>3 DEF Quieted, NoArming
          <6>2. CASE call'[f.id].op # "config"
            <7>1. f.id \in DOMAIN call /\ call[f.id].op = call'[f.id].op /\ f.kind = "ack"
              BY <1>4, <1>8, <4>7 DEF OpsKept, settled
            <7>2. v = "ok" /\ call[f.id].op \in {"arm", "disarm"}
              BY <1>7, <4>7, <6>2, <7>1 DEF Moved, Telling
            <7> QED
              BY <4>6, <7>1, <7>2 DEF v
          <6> QED
            BY <6>1, <6>2
        <5>2. \A i \in DOMAIN ready : ~NoneReadyBehind(i)'
          BY <4>4, <4>7 DEF NoneReadyBehind
        <5>3. ~NoneReadyBehind(0)'
          BY <4>4, <4>7 DEF NoneReadyBehind
        <5> QED
          BY <4>4, <4>7, <5>1, <5>2, <5>3
      <4>8. CASE ~(settled /\ Telling(f.id)')
        <5>1. ~(f.kind = "ack" /\ f.ok /\ call[f.id].op \in {"arm", "disarm"})
          BY <1>4, <1>7, <1>8, <4>6, <4>8 DEF Telling, Moved, OpsKept
        <5>2. Delivered
          <6>1. ~Effective(up[n][1])
            BY <1>2, <4>1, <5>1 DEF Effective, IsAck
          <6>2. NoneBehind(0)
            BY <1>3, <2>3, <4>1, <6>1 DEF NoneBehind
          <6> QED
            BY <2>3, <4>1, <6>2 DEF Delivered
        <5>3. \A i \in DOMAIN ready : /\ i \in DOMAIN ready' /\ ready'[i] = ready[i]
                                     /\ call'[ready[i]].op = call[ready[i]].op
                                     /\ call'[ready[i]].pc = call[ready[i]].pc
          BY <1>5, <1>8, <4>2, <4>4, <4>5 DEF OpsKept
        <5>4. \A i \in DOMAIN ready' : Telling(ready[i])' => i \in DOMAIN ready
          BY <1>5, <4>4, <4>8
        <5>5. \A i \in DOMAIN ready : Telling(ready[i])' <=> Telling(ready[i])
          BY <5>3 DEF Telling
        <5>6. \A k : NoneReadyBehind(k)' => NoneReadyBehind(k)
          BY <5>3, <5>5 DEF NoneReadyBehind
        <5> QED
          BY <1>2, <2>1, <4>3, <5>2, <5>3, <5>4, <5>5, <5>6 DEF Taken
      <4> QED
        BY <4>7, <4>8
    <3> QED
      BY <3>5, <3>6, <3>7, <3>8
  <2> QED
    BY <2>2, <2>3
<1> QED
  BY <1>9, <1>11, <1>13, <1>16, <1>17, <1>18, <1>20, <1>27, <1>28 DEF IInv

\* The stop event is recorded: nothing is armed any more.
LEMMA EmitDoneInv ==
    ASSUME IInv, NEW n \in Links, EmitDone(n)
    PROVE  IInv'
<1>1. TypeOK /\ LinkInv /\ QueueInv /\ OrderInv /\ AckInv /\ PostInv /\ NamesInv
      /\ EstopInv /\ HealthInv /\ AgreeInv
  BY DEF IInv
<1> USE <1>1
<1>2. /\ reader[n] = "emit" /\ ready = <<>>
      /\ reader' = [reader EXCEPT ![n] = "read"]
      /\ armed' = FALSE /\ armedBy' = 0 /\ armedOn' = 0
      /\ excused' = IF n = conn THEN excused ELSE excused \cup {"stale"}
      /\ UNCHANGED <<conn, cached, call, ready, post, ctl, ctlConn, down, up, executed, lastEstop>>
  BY DEF EmitDone, SetArmed, device
<1>3. \A m \in Links : reader'[m] = IF m = n THEN "read" ELSE reader[m]
  BY <1>2 DEF TypeOK
<1>4. \A id \in DOMAIN call : call[id].pc \notin {"ok", "failed"}
  BY <1>2 DEF QueueInv
<1>5. TypeOK'
  <2>1. up \in [Links -> Seq(Frames')]
    BY <1>2, FramesGrow
  <2>2. reader' \in [Links -> {"none", "read", "emit", "closed"}]
    BY <1>2 DEF TypeOK
  <2>3. excused' \subseteq {"timeout", "stop", "race", "stale"}
    BY <1>2 DEF TypeOK
  <2>4. 0 \in 0..Len(call) /\ 0 \in 0..MaxLinks
    BY CallFacts, BoundsAssumption
  <2> QED
    BY <1>2, <2>1, <2>2, <2>3, <2>4 DEF TypeOK
<1>6. LinkInv'
  <2>1. \A id \in DOMAIN call : call[id].on # 0 => call[id].on \in Links
    BY CallFacts DEF Calls, Links
  <2>2. conn # 0 => conn \in Links
    BY DEF TypeOK, Links
  <2> QED
    BY <1>2, <1>3, <2>1, <2>2 DEF LinkInv
<1>7. QueueInv' /\ OrderInv' /\ AckInv' /\ PostInv' /\ NamesInv'
  BY <1>2 DEF QueueInv, OrderInv, AckInv, PostInv, NamesInv, IsAck, OfPost, Open
<1>8. OpsKept
  BY <1>2 DEF OpsKept
<1>9. ctlConn # 0 => ctlConn \in Links /\ conn = ctlConn
  BY DEF LinkInv, TypeOK, Links
<1>10. ASSUME ctlConn # 0, NEW ids, Undone(ids) PROVE Undone(ids)'
  <2>1. /\ \A i \in DOMAIN up[ctlConn] : OkArm(up[ctlConn][i])' <=> OkArm(up[ctlConn][i])
        /\ \A k : StopBehind(k)' <=> StopBehind(k)
    BY <1>2, <1>8, <1>9, <1>10, FramesStay
  <2> QED
    BY <1>2, <1>4, <1>10, <2>1 DEF Undone
<1>11. EstopInv' /\ HealthInv'
  <2>1. InDown(lastEstop)' <=> InDown(lastEstop)
    BY <1>2 DEF InDown
  <2>2. \A i \in DOMAIN down' : InDown(down'[i])
    BY <1>2 DEF InDown
  <2> QED
    BY <1>2, <1>8, <1>10, <2>1, <2>2, StopsStay
<1>12. AgreeInv'
  <2> SUFFICES ASSUME ctlConn # 0, SprayEnabled, excused = {}, n = ctlConn
               PROVE  (Awaited /\ Quieted /\ Told /\ Taken)'
    BY <1>2, <1>9 DEF AgreeInv
  <2>1. Awaited /\ Quieted /\ Told /\ Taken
    BY DEF AgreeInv
  <2>2. /\ \A i \in DOMAIN up[ctlConn] : /\ Effective(up[ctlConn][i])' <=> Effective(up[ctlConn][i])
                                         /\ OkArm(up[ctlConn][i])' <=> OkArm(up[ctlConn][i])
        /\ \A k : NoneBehind(k)' <=> NoneBehind(k)
    BY <1>2, <1>8, FramesStay
  <2>3. Awaited' /\ Quieted'
    BY <1>2, <2>1 DEF Awaited, IsAck, Quieted, PostDone, NoArming
  <2>4. reader'[ctlConn] = "read"
    BY <1>3
  <2>5. Told'
    BY <1>2, <2>1, <2>2, <2>4 DEF Told
  <2>6. Taken'
    <3>1. DOMAIN ready' = {}
      BY <1>2
    <3>2. Delivered' => ~ctl.armed
      BY <1>2, <2>1, <2>2 DEF Told, Delivered
    <3>3. ctl.armed \in BOOLEAN
      BY DEF TypeOK
    <3> QED
      BY <1>2, <3>1, <3>2, <3>3 DEF Taken
  <2> QED
    BY <2>3, <2>5, <2>6
<1> QED
  BY <1>5, <1>6, <1>7, <1>11, <1>12 DEF IInv

\* A call goes on behind its await: the first in the queue, so that what the
\* last one says is what armed becomes.
LEMMA ResumeOtherInv ==
    ASSUME IInv, Resume, call[Head(ready)].op # "config"
    PROVE  IInv'
<1>1. TypeOK /\ LinkInv /\ QueueInv /\ OrderInv /\ AckInv /\ PostInv /\ NamesInv
      /\ EstopInv /\ HealthInv /\ AgreeInv
  BY DEF IInv
<1> USE <1>1
<1> PICK id : id = Head(ready)
  OBVIOUS
<1> PICK w \in {"returned", "raised"} : w = IF call[id].pc = "ok" THEN "returned" ELSE "raised"
  OBVIOUS
<1>2. /\ ready # <<>> /\ call[id].op # "config"
      /\ call' = [call EXCEPT ![id].pc = w] /\ ready' = Tail(ready)
      /\ \/ /\ call[id].op = "arm" /\ call[id].pc = "ok"
            /\ armed' = TRUE /\ armedBy' = id /\ armedOn' = call[id].on
         \/ /\ call[id].op = "disarm" /\ call[id].pc = "ok"
            /\ armed' = FALSE /\ armedBy' = 0 /\ armedOn' = 0
         \/ /\ ~(call[id].op \in {"arm", "disarm"} /\ call[id].pc = "ok")
            /\ UNCHANGED <<armed, armedBy, armedOn>>
      /\ post' = IF call[id].op = "quiet" THEN [post EXCEPT ![call[id].on] = "done"] ELSE post
      /\ UNCHANGED <<conn, cached, reader, ctl, ctlConn, up, down, executed, lastEstop, excused>>
  BY DEF Resume, SetArmed, device
<1>3. id \in DOMAIN call
  BY <1>2, TailFacts DEF TypeOK
<1>4. Moved(id, w, call')
  BY <1>2, <1>3, PcFacts
<1>5. /\ id = ready[1] /\ 1 \in DOMAIN ready /\ call[id].pc \in {"ok", "failed"}
      /\ ready' \in Seq(DOMAIN call)
      /\ \A i \in DOMAIN ready' :
           /\ i \in Nat \ {0} /\ i + 1 \in DOMAIN ready /\ ready'[i] = ready[i + 1]
           /\ ready'[i] \in DOMAIN call /\ ready'[i] # id
           /\ call'[ready'[i]] = call[ready'[i]]
      /\ \A i \in DOMAIN ready : i \in Nat \ {0} /\ (i # 1 => i - 1 \in DOMAIN ready')
      /\ \A i, j \in DOMAIN ready' : i # j => ready'[i] # ready'[j]
      /\ \A k \in DOMAIN call : call'[k].pc \in {"ok", "failed"} => \E i \in DOMAIN ready' : ready'[i] = k
  <2>1. Shrunk(id, call', ready')
    BY <1>2, <1>4, QueueShrinks
  <2> QED
    BY <2>1 DEF Shrunk
<1>6. OpsKept /\ DOMAIN call' = DOMAIN call /\ call' \in Seq(Calls) /\ Len(call') = Len(call)
  BY <1>4 DEF Moved, OpsKept
<1>7. /\ call'[id].pc = w
      /\ \A k \in DOMAIN call : k # id => call'[k] = call[k]
  BY <1>4 DEF Moved
<1>8. QueueInv'
  BY <1>5, <1>6 DEF QueueInv
<1>9. call[id].op = "quiet" => call[id].on \in Links
  BY <1>3, <1>5, CallFacts DEF PostInv, OfPost, Open, Calls, Links
<1>10. \A m \in Links : post'[m] = IF call[id].op = "quiet" /\ m = call[id].on THEN "done" ELSE post[m]
  BY <1>2, <1>9 DEF TypeOK
<1>11. TypeOK'
  <2>1. Frames' = Frames
    BY <1>6 DEF Frames
  <2>2. post' \in [Links -> {"none", "running", "done"}]
    BY <1>2, <1>9 DEF TypeOK
  <2>3. call[id].on \in 0..MaxLinks /\ id \in 0..Len(call) /\ 0 \in 0..Len(call) /\ 0 \in 0..MaxLinks
    BY <1>3, CallFacts, BoundsAssumption DEF Calls
  <2>4. armed' \in BOOLEAN /\ armedBy' \in 0..Len(call) /\ armedOn' \in 0..MaxLinks
    BY <1>2, <2>3 DEF TypeOK
  <2> QED
    BY <1>2, <1>5, <1>6, <2>1, <2>2, <2>4 DEF TypeOK
<1>12. LinkInv'
  <2>1. call[id].op = "quiet" => reader[call[id].on] # "none"
    BY <1>3, <1>9 DEF LinkInv, Links
  <2>2. \A m \in Links : reader[m] = "none" => post'[m] = post[m]
    BY <1>10, <2>1
  <2>3. \A k \in DOMAIN call' : call'[k].on # 0 => reader[call'[k].on] # "none"
    BY <1>6 DEF LinkInv, OpsKept
  <2> QED
    BY <1>2, <2>2, <2>3 DEF LinkInv
<1>13. OrderInv'
  <2>1. \A n \in Links : \A i \in DOMAIN up[n] : IsAck(up[n][i]) => up[n][i].id \in DOMAIN call
    BY FrameFacts
  <2>2. \A k \in DOMAIN call : call[k].pc # "waiting" => call'[k].pc # "waiting"
    BY <1>7
  <2> QED
    BY <1>2, <2>1, <2>2 DEF OrderInv, IsAck
<1>14. AckInv'
  BY <1>2, <1>3, <1>5, <1>6, <1>7 DEF AckInv, IsAck
<1>15. \A k \in DOMAIN call : Open(k)' => Open(k) /\ k # id
  BY <1>6, <1>7 DEF Open
<1>16. PostInv'
  <2>1. \A k \in DOMAIN call : OfPost(k)' <=> OfPost(k)
    BY <1>6 DEF OfPost, OpsKept
  <2>2. ASSUME NEW k \in DOMAIN call, OfPost(k), Open(k)'
        PROVE  call'[k].on # 0 /\ post'[call'[k].on] = "running"
    <3>1. call[k].on # 0 /\ post[call[k].on] = "running" /\ call'[k].on = call[k].on /\ call[k].on \in Links
      BY <1>6, <1>15, <2>2, CallFacts DEF PostInv, OpsKept, Calls, Links
    <3>2. call[id].op = "quiet" => call[id].on # call[k].on
      BY <1>3, <1>5, <1>15, <2>2 DEF PostInv, OfPost, Open
    <3> QED
      BY <1>10, <3>1, <3>2
  <2> QED
    BY <1>6, <1>15, <2>1, <2>2 DEF PostInv, OpsKept
<1>17. NamesInv'
  <2>1. id \in Nat \ {0} /\ (armedBy # 0 => armedBy \in DOMAIN call)
    BY <1>3, CallFacts DEF TypeOK
  <2>2. armedBy' # 0 => armedBy' \in DOMAIN call /\ call[armedBy'].op = "arm"
    BY <1>2, <1>3, <2>1 DEF NamesInv
  <2>3. armed' => armedBy' # 0
    BY <1>2, <2>1 DEF NamesInv
  <2> QED
    BY <1>2, <1>6, <2>2, <2>3, CallFacts DEF NamesInv, OpsKept, TypeOK
<1>18. ConfigOpen' <=> ConfigOpen
  BY <1>2, <1>6, <1>7 DEF ConfigOpen, Open, OpsKept
<1>19. ctlConn # 0 => ctlConn \in Links
  BY DEF TypeOK, Links
<1>20. ASSUME ctlConn # 0, NEW ids, Undone(ids) PROVE Undone(ids)'
  <2>1. \A k \in DOMAIN call' : call'[k].pc = "ok" => k \in DOMAIN call /\ call[k].pc = "ok"
    BY <1>6, <1>7
  <2>2. armed' => \/ armed /\ armedBy' = armedBy
                  \/ armedBy' \in DOMAIN call /\ call[armedBy'].op = "arm" /\ call[armedBy'].pc = "ok"
    BY <1>2, <1>3
  <2> QED
    BY <1>2, <1>6, <1>18, <1>19, <1>20, <2>1, <2>2, UndoneStays
<1>21. EstopInv' /\ HealthInv'
  <2>1. InDown(lastEstop)' <=> InDown(lastEstop)
    BY <1>2 DEF InDown
  <2>2. \A i \in DOMAIN down' : InDown(down'[i])
    BY <1>2 DEF InDown
  <2> QED
    BY <1>2, <1>6, <1>20, <2>1, <2>2, StopsStay
<1>22. AgreeInv'
  <2> SUFFICES ASSUME ctlConn # 0, SprayEnabled, excused = {}
               PROVE  (Awaited /\ Quieted /\ Told /\ Taken)'
    BY <1>2 DEF AgreeInv
  <2>1. Awaited /\ Quieted /\ Told /\ Taken
    BY DEF AgreeInv
  <2>2. /\ \A i \in DOMAIN up[ctlConn] : /\ Effective(up[ctlConn][i])' <=> Effective(up[ctlConn][i])
                                         /\ OkArm(up[ctlConn][i])' <=> OkArm(up[ctlConn][i])
        /\ \A k : NoneBehind(k)' <=> NoneBehind(k)
    BY <1>2, <1>6, <1>19, FramesStay
  <2>3. Awaited'
    <3>1. \A k \in DOMAIN call : call[k].pc = "waiting" => call'[k].pc = "waiting"
      BY <1>5, <1>7
    <3>2. \A i \in DOMAIN up[ctlConn] : IsAck(up[ctlConn][i]) => up[ctlConn][i].id \in DOMAIN call
      BY <1>19, FrameFacts
    <3> QED
      BY <1>2, <1>6, <2>1, <3>1, <3>2, CallFacts DEF Awaited, OpsKept
  <2>4. Quieted'
    <3>1. PostDone => PostDone'
      BY <1>10 DEF PostDone
    <3>2. NoArming => NoArming'
      BY <1>2, <1>3, <1>6, <1>7, <1>18 DEF NoArming, OpsKept
    <3>3. \A i \in DOMAIN down : call'[down[i]].op = call[down[i]].op
      BY <1>6, CallFacts DEF OpsKept
    <3> QED
      BY <1>2, <2>1, <3>1, <3>2, <3>3 DEF Quieted
  <2>5. Told'
    BY <1>2, <2>1, <2>2 DEF Told
  <2>6. Taken'
    <3>1. Delivered' <=> Delivered
      BY <1>2, <2>2 DEF Delivered
    <3>2. \A i \in DOMAIN ready' : \A k : k = i + 1 =>
            /\ k \in DOMAIN ready /\ (Telling(ready[i])' <=> Telling(ready[k]))
            /\ call'[ready'[i]].op = call[ready[k]].op
      BY <1>5 DEF Telling
    <3>3. ASSUME NEW k \in Nat, NoneReadyBehind(k)', NEW l, l = k + 1 PROVE NoneReadyBehind(l)
      <4>1. ASSUME NEW j \in DOMAIN ready, l < j PROVE ~Telling(ready[j])
        <5>1. j - 1 \in DOMAIN ready' /\ k < j - 1 /\ (j - 1) + 1 = j
          BY <1>5, <3>3, <4>1
        <5>2. ~Telling(ready[j - 1])'
          BY <3>3, <5>1 DEF NoneReadyBehind
        <5> QED
          BY <3>2, <5>1, <5>2
      <4> QED
        BY <4>1 DEF NoneReadyBehind
    <3>4. ASSUME Delivered, NEW i \in DOMAIN ready', Telling(ready[i])', NoneReadyBehind(i)'
          PROVE  ctl.armed <=> call'[ready'[i]].op = "arm"
      <4> PICK k : k = i + 1
        OBVIOUS
      <4>1. k \in DOMAIN ready /\ Telling(ready[k]) /\ NoneReadyBehind(k)
        BY <1>5, <3>2, <3>3, <3>4
      <4> QED
        BY <2>1, <3>2, <3>4, <4>1 DEF Taken
    <3>5. ASSUME Delivered, NoneReadyBehind(0)'
          PROVE  armed' = ctl.armed \/ ConfigOpen \/ \E i \in DOMAIN down : call[down[i]].op = "estop"
      <4>1. NoneReadyBehind(1)
        BY <3>3, <3>5
      <4>2. CASE Telling(id)
        <5>1. ctl.armed <=> call[id].op = "arm"
          BY <1>5, <2>1, <3>5, <4>1, <4>2 DEF Taken
        <5>2. call[id].pc = "ok" /\ call[id].op \in {"arm", "disarm"}
          BY <1>2, <4>2 DEF Telling
        <5>3. ctl.armed \in BOOLEAN
          BY DEF TypeOK
        <5> QED
          BY <1>2, <5>1, <5>2, <5>3
      <4>3. CASE ~Telling(id)
        <5>1. NoneReadyBehind(0)
          BY <1>5, <4>1, <4>3 DEF NoneReadyBehind
        <5>2. armed' = armed
          BY <1>2, <4>3 DEF Telling
        <5> QED
          BY <2>1, <3>5, <5>1, <5>2 DEF Taken
      <4> QED
        BY <4>2, <4>3
    <3>6. \A i \in DOMAIN down : call'[down[i]].op = call[down[i]].op
      BY <1>6, CallFacts DEF OpsKept
    <3> QED
      BY <1>2, <1>18, <3>1, <3>4, <3>5, <3>6 DEF Taken
  <2> QED
    BY <2>3, <2>4, <2>5, <2>6
<1> QED
  BY <1>8, <1>11, <1>12, <1>13, <1>14, <1>16, <1>17, <1>21, <1>22 DEF IInv

\* The post-connect task goes on: it disarms, and sends the quieting disarm.
LEMMA ResumeConfigInv ==
    ASSUME IInv, Resume, call[Head(ready)].op = "config"
    PROVE  IInv'
<1>1. TypeOK /\ LinkInv /\ QueueInv /\ OrderInv /\ AckInv /\ PostInv /\ NamesInv
      /\ EstopInv /\ HealthInv /\ AgreeInv
  BY DEF IInv
<1> USE <1>1
<1> PICK id : id = Head(ready)
  OBVIOUS
<1> PICK w \in {"returned", "raised"} : w = IF call[id].pc = "ok" THEN "returned" ELSE "raised"
  OBVIOUS
<1> PICK c : c = [call EXCEPT ![id].pc = w]
  OBVIOUS
<1> PICK on : on = call[id].on
  OBVIOUS
<1> PICK N : N = Len(call) + 1
  OBVIOUS
<1> PICK queue : queue = Tail(ready)
  OBVIOUS
<1>2. /\ ready # <<>> /\ call[id].op = "config"
      /\ armed' = FALSE /\ armedBy' = 0 /\ armedOn' = 0
      /\ Send("quiet", on, c, queue)
      /\ UNCHANGED <<conn, cached, reader, post, ctl, ctlConn, up, executed, lastEstop, excused>>
  BY DEF Resume, SetArmed, device
<1>3. id \in DOMAIN call
  BY <1>2, TailFacts DEF TypeOK
<1>4. Moved(id, w, c)
  BY <1>3, PcFacts
<1>5. /\ id = ready[1] /\ 1 \in DOMAIN ready /\ call[id].pc \in {"ok", "failed"}
      /\ queue \in Seq(DOMAIN call)
      /\ \A i \in DOMAIN queue :
           /\ i \in Nat \ {0} /\ i + 1 \in DOMAIN ready /\ queue[i] = ready[i + 1]
           /\ queue[i] \in DOMAIN call /\ queue[i] # id
           /\ c[queue[i]] = call[queue[i]]
      /\ \A i \in DOMAIN ready : i \in Nat \ {0} /\ (i # 1 => i - 1 \in DOMAIN queue)
      /\ \A i, j \in DOMAIN queue : i # j => queue[i] # queue[j]
      /\ \A k \in DOMAIN call : c[k].pc \in {"ok", "failed"} => \E i \in DOMAIN queue : queue[i] = k
  <2>1. Shrunk(id, c, queue)
    BY <1>2, <1>4, QueueShrinks
  <2> QED
    BY <2>1 DEF Shrunk
\* The post-connect task's connection.
<1>6. on \in Links /\ post[on] = "running" /\ on \in 0..MaxLinks /\ on # 0
  BY <1>2, <1>3, <1>5, CallFacts DEF PostInv, OfPost, Open, Calls, Links
<1>7. c \in Seq(Calls) /\ Len(c) = Len(call) /\ DOMAIN c = DOMAIN call
  BY <1>4 DEF Moved
<1>8. SentThen("quiet", on, c, queue)
  BY <1>2, <1>5, <1>6, <1>7, Sent
<1>9. /\ call' \in Seq(Calls) /\ Len(call') = N /\ N \in Nat \ {0} /\ Len(call) = N - 1
      /\ DOMAIN call = 1..N - 1 /\ DOMAIN call' = 1..N
  BY <1>8 DEF SentThen
<1>10. /\ \A k \in DOMAIN call : call'[k] = c[k]
       /\ call'[N] = Command("quiet", on)
       /\ ready' \in Seq(DOMAIN call') /\ down' \in Seq(DOMAIN call')
  BY <1>8 DEF SentThen
<1>11. /\ conn # 0 => ready' = queue
       /\ conn = 0 => DOMAIN ready' = 1..Len(queue) + 1 /\ ready'[Len(queue) + 1] = N
       /\ DOMAIN queue = 1..Len(queue) /\ Len(queue) \in Nat
       /\ \A i \in DOMAIN queue : ready'[i] = queue[i]
  BY <1>8 DEF SentThen
<1>12. /\ ctlConn = 0 => down' = down
       /\ DOMAIN down = 1..Len(down) /\ Len(down) \in Nat
       /\ ctlConn # 0 => /\ DOMAIN down' = 1..Len(down) + 1 /\ down'[Len(down) + 1] = N
                         /\ \A i \in DOMAIN down : down'[i] = down[i]
  BY <1>8 DEF SentThen
<1>13. /\ N \notin DOMAIN call /\ DOMAIN call' = DOMAIN call \cup {N}
       /\ \A k \in DOMAIN call : k < N /\ k \in Nat
  BY <1>9
<1>14. /\ ctlConn = 0 => down' = down
       /\ ctlConn # 0 => /\ DOMAIN down' = DOMAIN down \cup {Len(down) + 1}
                         /\ down'[Len(down) + 1] = N
                         /\ \A i \in DOMAIN down : down'[i] = down[i]
       /\ Len(down) + 1 \in Nat /\ \A i \in DOMAIN down : i < Len(down) + 1 /\ i \in Nat
  <2>1. 1..Len(down) + 1 = 1..Len(down) \cup {Len(down) + 1}
        /\ Len(down) + 1 \in Nat /\ \A i \in 1..Len(down) : i < Len(down) + 1 /\ i \in Nat
    BY <1>12
  <2>2. ctlConn # 0 => DOMAIN down' = DOMAIN down \cup {Len(down) + 1}
    BY <1>12, <2>1
  <2> QED
    BY <1>12, <2>1, <2>2
<1>15. /\ call'[N].op = "quiet" /\ call'[N].on = on
       /\ call'[N].pc = IF conn = 0 THEN "failed" ELSE "waiting"
  BY <1>10 DEF Command
<1>16. /\ call'[id].pc = w /\ OpsKept
       /\ \A k \in DOMAIN call : k # id => call'[k] = call[k]
  BY <1>3, <1>4, <1>10, <1>13 DEF Moved, OpsKept
<1>17. ctlConn # 0 => conn = ctlConn /\ ctlConn \in Links /\ conn # 0
  BY DEF LinkInv, TypeOK, Links
<1>18. TypeOK'
  <2>1. up \in [Links -> Seq(Frames')]
    BY <1>13, FramesGrow
  <2>2. armedBy' \in 0..Len(call') /\ armedOn' \in 0..MaxLinks /\ lastEstop \in 0..Len(call')
    BY <1>2, <1>9, BoundsAssumption DEF TypeOK
  <2>3. executed \subseteq DOMAIN call'
    BY <1>13 DEF TypeOK
  <2> QED
    BY <1>2, <1>9, <1>10, <2>1, <2>2, <2>3 DEF TypeOK
<1>19. LinkInv'
  <2>1. \A k \in DOMAIN call' : call'[k].on # 0 => reader[call'[k].on] # "none"
    BY <1>2, <1>3, <1>6, <1>13, <1>15, <1>16 DEF LinkInv, OpsKept
  <2> QED
    BY <1>2, <1>14, <2>1 DEF LinkInv
<1>20. QueueInv'
  <2>1. CASE conn # 0
    <3>1. ready' = queue
      BY <1>11, <2>1
    <3>2. \A i \in DOMAIN queue : call'[queue[i]] = call[queue[i]]
      BY <1>5, <1>16
    <3>3. \A i \in DOMAIN queue : call'[queue[i]].pc \in {"ok", "failed"}
      BY <1>5, <3>2 DEF QueueInv
    <3>4. ASSUME NEW k \in DOMAIN call', call'[k].pc \in {"ok", "failed"}
          PROVE  \E i \in DOMAIN queue : queue[i] = k
      BY <1>5, <1>10, <1>13, <1>15, <2>1, <3>4
    <3> QED
      BY <1>5, <3>1, <3>3, <3>4 DEF QueueInv
  <2>2. CASE conn = 0
    <3>1. DOMAIN ready' = DOMAIN queue \cup {Len(queue) + 1} /\ ready'[Len(queue) + 1] = N
          /\ \A i \in DOMAIN queue : ready'[i] = queue[i]
      <4>1. 1..Len(queue) + 1 = 1..Len(queue) \cup {Len(queue) + 1}
        BY <1>11
      <4> QED
        BY <1>11, <2>2, <4>1
    <3>2. \A i \in DOMAIN queue : call'[queue[i]] = call[queue[i]]
      BY <1>5, <1>16
    <3>3. \A i \in DOMAIN ready' : call'[ready'[i]].pc \in {"ok", "failed"}
      BY <1>5, <1>15, <2>2, <3>1, <3>2 DEF QueueInv
    <3>4. ASSUME NEW k \in DOMAIN call', call'[k].pc \in {"ok", "failed"}
          PROVE  \E i \in DOMAIN ready' : ready'[i] = k
      <4>1. CASE k = N
        BY <3>1, <4>1
      <4>2. CASE k # N
        <5>1. PICK i \in DOMAIN queue : queue[i] = k
          BY <1>5, <1>10, <1>13, <3>4, <4>2
        <5> QED
          BY <3>1, <5>1
      <4> QED
        BY <4>1, <4>2
    <3>5. \A i, j \in DOMAIN ready' : i # j => ready'[i] # ready'[j]
      BY <1>5, <1>13, <3>1
    <3> QED
      BY <3>3, <3>4, <3>5 DEF QueueInv
  <2> QED
    BY <2>1, <2>2
<1>21. \A n \in Links : \A i \in DOMAIN up[n] : IsAck(up[n][i]) => up[n][i].id \in DOMAIN call
  BY FrameFacts
<1>22. OrderInv'
  <2>1. \A i, j \in DOMAIN down' : i < j => down'[i] < down'[j]
    <3>1. \A i \in DOMAIN down : down[i] < N
      BY <1>13, CallFacts
    <3> QED
      BY <1>14, <3>1 DEF OrderInv
  <2>2. ASSUME ctlConn # 0, NEW i \in DOMAIN up[ctlConn], IsAck(up[ctlConn][i]), NEW j \in DOMAIN down'
        PROVE  up[ctlConn][i].id < down'[j]
    <3>1. up[ctlConn][i].id \in DOMAIN call
      BY <1>21, <1>17, <2>2
    <3> QED
      BY <1>13, <1>14, <2>2, <3>1 DEF OrderInv
  <2>3. ASSUME NEW n \in Links, n # conn, NEW i \in DOMAIN up[n], IsAck(up[n][i])
        PROVE  call'[up[n][i].id].pc # "waiting"
    BY <1>21, <1>16, <2>3 DEF OrderInv
  <2> QED
    BY <1>2, <2>1, <2>2, <2>3 DEF OrderInv, IsAck
<1>23. AckInv'
  BY <1>2, <1>3, <1>5, <1>13, <1>15, <1>16 DEF AckInv, IsAck
<1>24. PostInv'
  <2>1. \A k \in DOMAIN call' : (OfPost(k) /\ Open(k))' =>
          k = N \/ (k \in DOMAIN call /\ k # id /\ OfPost(k) /\ Open(k) /\ call'[k].on = call[k].on)
    BY <1>13, <1>16 DEF OfPost, Open
  <2>2. \A k \in DOMAIN call : k # id /\ OfPost(k) /\ Open(k) => call[k].on # on
    BY <1>2, <1>3, <1>5 DEF PostInv, OfPost, Open
  <2>3. \A k \in DOMAIN call' : (OfPost(k) /\ Open(k))' =>
          call'[k].on # 0 /\ post'[call'[k].on] = "running"
    BY <1>2, <1>6, <1>15, <2>1 DEF PostInv
  <2>4. ASSUME NEW k \in DOMAIN call', NEW l \in DOMAIN call', (OfPost(k) /\ Open(k))',
               (OfPost(l) /\ Open(l))', call'[k].on = call'[l].on
        PROVE  k = l
    BY <1>15, <2>1, <2>2, <2>4 DEF PostInv
  <2> QED
    BY <2>3, <2>4 DEF PostInv
<1>25. NamesInv'
  BY <1>2, <1>9, <1>13, <1>16 DEF NamesInv, TypeOK, OpsKept
<1>26. ASSUME ctlConn # 0, NEW ids, Undone(ids) PROVE Undone(ids)'
  <2>1. \A k \in DOMAIN call' : call'[k].pc = "ok" => k \in DOMAIN call /\ call[k].pc = "ok"
    BY <1>13, <1>15, <1>16
  <2> QED
    BY <1>2, <1>16, <1>17, <1>26, <2>1, UndoneStays
<1>27. EstopInv' /\ HealthInv'
  <2>1. InDown(lastEstop) => InDown(lastEstop)'
    BY <1>2, <1>14 DEF InDown
  <2>2. \A i \in DOMAIN down' : call'[down'[i]].op = "arm" => InDown(down'[i])
    BY <1>14, <1>15 DEF InDown
  <2> QED
    BY <1>2, <1>16, <1>26, <2>1, <2>2, StopsStay
<1>28. AgreeInv'
  <2> SUFFICES ASSUME ctlConn # 0, SprayEnabled, excused = {}
               PROVE  (Awaited /\ Quieted /\ Told /\ Taken)'
    BY <1>2 DEF AgreeInv
  <2>1. Awaited /\ Quieted /\ Told /\ Taken
    BY DEF AgreeInv
  <2>2. NoArming
    BY <1>6, <2>1 DEF Quieted, PostDone
  <2>3. /\ \A i \in DOMAIN up[ctlConn] : /\ Effective(up[ctlConn][i])' <=> Effective(up[ctlConn][i])
                                         /\ OkArm(up[ctlConn][i])' <=> OkArm(up[ctlConn][i])
        /\ \A k : NoneBehind(k)' <=> NoneBehind(k)
    BY <1>2, <1>16, <1>17, FramesStay
  <2>4. \A k \in DOMAIN call : call[k].pc = "waiting" => call'[k].pc = "waiting"
    BY <1>5, <1>16
  <2>5. \A i \in DOMAIN down : down[i] \in DOMAIN call /\ call'[down[i]].op = call[down[i]].op
    BY <1>16, CallFacts DEF OpsKept
  <2>6. Awaited'
    <3>1. \A i \in DOMAIN up[ctlConn] : IsAck(up[ctlConn][i]) =>
            up[ctlConn][i].id \in DOMAIN call /\ call'[up[ctlConn][i].id].op = call[up[ctlConn][i].id].op
      BY <1>21, <1>16, <1>17 DEF OpsKept
    <3>2. \A i \in DOMAIN down' : call'[down'[i]].op \in {"arm", "disarm"} => call'[down'[i]].pc = "waiting"
      BY <1>14, <1>15, <2>1, <2>4, <2>5 DEF Awaited
    <3> QED
      BY <1>2, <2>1, <2>4, <3>1, <3>2 DEF Awaited
  <2>7. Quieted'
    <3>1. NoArming'
      BY <1>2, <1>3, <1>13, <1>15, <1>16, <2>2 DEF NoArming, OpsKept
    <3>2. \A i \in DOMAIN down' : call'[down'[i]].op # "arm"
      BY <1>14, <1>15, <2>1, <2>2, <2>5 DEF Awaited, NoArming
    <3> QED
      BY <1>2, <2>2, <3>1, <3>2 DEF Quieted, NoArming
  <2>8. Told'
    BY <1>2, <2>1, <2>3 DEF Told
  <2>9. Taken'
    <3>1. Delivered' <=> Delivered
      BY <1>2, <2>3 DEF Delivered
    <3>2. ready' = queue
      BY <1>11, <1>17
    <3>3. \A i \in DOMAIN queue : \A k : k = i + 1 =>
            /\ k \in DOMAIN ready /\ (Telling(ready[i])' <=> Telling(ready[k]))
            /\ call'[queue[i]].op = call[ready[k]].op
      BY <1>5, <1>16, <3>2 DEF Telling
    <3>4. ASSUME NEW k \in Nat, NoneReadyBehind(k)', NEW l, l = k + 1 PROVE NoneReadyBehind(l)
      <4>1. ASSUME NEW j \in DOMAIN ready, l < j PROVE ~Telling(ready[j])
        <5>1. j - 1 \in DOMAIN queue /\ k < j - 1 /\ (j - 1) + 1 = j
          BY <1>5, <3>4, <4>1
        <5>2. ~Telling(ready[j - 1])'
          BY <3>2, <3>4, <5>1 DEF NoneReadyBehind
        <5> QED
          BY <3>3, <5>1, <5>2
      <4> QED
        BY <4>1 DEF NoneReadyBehind
    <3>5. ASSUME Delivered, NEW i \in DOMAIN queue, Telling(ready[i])', NoneReadyBehind(i)'
          PROVE  ctl.armed <=> call'[queue[i]].op = "arm"
      <4> PICK k : k = i + 1
        OBVIOUS
      <4>1. k \in DOMAIN ready /\ Telling(ready[k]) /\ NoneReadyBehind(k)
        BY <1>5, <3>3, <3>4, <3>5
      <4> QED
        BY <2>1, <3>3, <3>5, <4>1 DEF Taken
    <3>6. armed' = ctl.armed
      BY <1>2, <2>2 DEF NoArming, TypeOK
    <3> QED
      BY <1>2, <3>1, <3>2, <3>5, <3>6 DEF Taken
  <2> QED
    BY <2>6, <2>7, <2>8, <2>9
<1> QED
  BY <1>18, <1>19, <1>20, <1>22, <1>23, <1>24, <1>25, <1>27, <1>28 DEF IInv

\* What lists a set of numbers in order lists each once, and all.
Lists(s, S) ==
    /\ s \in Seq(S) /\ DOMAIN s = 1..Len(s) /\ Len(s) \in Nat
    /\ \A i \in DOMAIN s : s[i] \in S
    /\ \A i, j \in DOMAIN s : i < j => s[i] < s[j]
    /\ \A i, j \in DOMAIN s : i # j => s[i] # s[j]
    /\ \A x \in S : \E i \in DOMAIN s : s[i] = x

\* InOrder of numbers up to some n does.
LEMMA InOrderFacts ==
    ASSUME NEW n \in Nat, NEW S, S \subseteq 1..n, NEW s, s \in InOrder(S)
    PROVE  Lists(s, S)
<1>1. IsFiniteSet(S) /\ Cardinality(S) \in Nat
  <2>1. IsFiniteSet(1..n) /\ S \in SUBSET (1..n)
    BY FS_Interval
  <2>2. IsFiniteSet(S)
    BY <2>1, FS_Subset
  <2> QED
    BY <2>2, FS_CardinalityType
<1> PICK c \in Nat : c = Cardinality(S)
  BY <1>1
<1>2. s \in [1..c -> S] /\ \A i, j \in DOMAIN s : i < j => s[i] < s[j]
  BY DEF InOrder
<1>3. s \in Seq(S) /\ Len(s) = c
  <2>1. s \in Seq(S) /\ DOMAIN s = 1..c
    BY <1>2, SeqDef
  <2>2. Len(s) \in Nat /\ 1..Len(s) = 1..c
    BY <2>1, LenProperties
  <2> QED
    BY <2>1, <2>2
<1>4. DOMAIN s = 1..c /\ \A i \in 1..c : s[i] \in S /\ s[i] \in Nat
  <2>1. DOMAIN s = 1..c /\ \A i \in 1..c : s[i] \in S
    BY <1>2
  <2>2. \A x \in S : x \in Nat
    OBVIOUS
  <2> QED
    BY <2>1, <2>2
<1>5. \A i, j \in 1..c : i # j => s[i] # s[j]
  BY <1>2, <1>4
<1>6. s \in Injection(1..c, S)
  BY <1>2, <1>5, Fun_IsInj
<1>7. Cardinality(1..c) = c
  BY FS_Interval
<1>8. s \in Surjection(1..c, S)
  BY <1>1, <1>6, <1>7, FS_Injection
<1>9. \A x \in S : \E i \in 1..c : s[i] = x
  BY <1>8, Fun_SurjectionProperties
<1> QED
  BY <1>2, <1>3, <1>4, <1>5, <1>9 DEF Lists

\* What TornDown does to a call.
Torn(c, t) ==
    /\ t \in Seq(Calls) /\ DOMAIN t = DOMAIN c /\ Len(t) = Len(c)
    /\ \A id \in DOMAIN c : /\ t[id].op = c[id].op /\ t[id].on = c[id].on
                            /\ c[id].pc = "waiting" => t[id].pc = "failed"
                            /\ c[id].pc # "waiting" => t[id] = c[id]

\* TornDown does that.
LEMMA TornDownFacts ==
    ASSUME NEW c \in Seq(Calls)
    PROVE  Torn(c, TornDown(c))
<1>1. DOMAIN c = 1..Len(c) /\ Len(c) \in Nat /\ \A id \in DOMAIN c : c[id] \in Calls
  BY LenProperties, ElementOfSeq
<1>2. ASSUME NEW id \in DOMAIN c
      PROVE  /\ TornDown(c)[id] \in Calls
             /\ TornDown(c)[id].op = c[id].op /\ TornDown(c)[id].on = c[id].on
             /\ c[id].pc = "waiting" => TornDown(c)[id].pc = "failed"
             /\ c[id].pc # "waiting" => TornDown(c)[id] = c[id]
  BY <1>1 DEF TornDown, Calls
<1>3. DOMAIN TornDown(c) = 1..Len(c) /\ TornDown(c) = [id \in 1..Len(c) |-> TornDown(c)[id]]
  BY <1>1 DEF TornDown
<1>4. TornDown(c) \in [1..Len(c) -> Calls]
  BY <1>1, <1>2, <1>3
<1>5. TornDown(c) \in Seq(Calls) /\ Len(TornDown(c)) = Len(c)
  <2>1. TornDown(c) \in Seq(Calls)
    BY <1>1, <1>4, SeqDef
  <2>2. Len(TornDown(c)) \in Nat /\ 1..Len(TornDown(c)) = 1..Len(c)
    BY <1>3, <2>1, LenProperties
  <2> QED
    BY <1>1, <2>1, <2>2
<1> QED
  BY <1>1, <1>2, <1>3, <1>5 DEF Torn

\* Two sequences joined: where an entry is from.
Joined(s, t, q, n) ==
    /\ DOMAIN s = 1..n /\ n \in Nat /\ DOMAIN t = 1..Len(t) /\ Len(t) \in Nat
    /\ \A i \in DOMAIN s : i \in DOMAIN q /\ q[i] = s[i] /\ i \in Nat \ {0} /\ i <= n
    /\ \A k \in DOMAIN t : n + k \in DOMAIN q /\ q[n + k] = t[k] /\ k \in Nat \ {0}
    /\ \A i \in DOMAIN q : i \in DOMAIN s \/ \E k \in DOMAIN t : i = n + k

\* Concatenation does that.
LEMMA JoinFacts ==
    ASSUME NEW S, NEW s \in Seq(S), NEW t \in Seq(S)
    PROVE  s \o t \in Seq(S) /\ Joined(s, t, s \o t, Len(s))
<1>1. /\ s \o t \in Seq(S) /\ Len(s \o t) = Len(s) + Len(t)
      /\ \A i \in 1..Len(s) + Len(t) : (s \o t)[i] = IF i <= Len(s) THEN s[i] ELSE t[i - Len(s)]
  BY ConcatProperties
<1> PICK q : q = s \o t
  OBVIOUS
<1> PICK n : n = Len(s)
  OBVIOUS
<1> PICK m : m = Len(t)
  OBVIOUS
<1>2. /\ DOMAIN s = 1..n /\ n \in Nat /\ DOMAIN t = 1..m /\ m \in Nat
      /\ DOMAIN q = 1..n + m
  BY <1>1, LenProperties
<1>3. \A i \in 1..n + m : q[i] = IF i <= n THEN s[i] ELSE t[i - n]
  BY <1>1
<1>4. ASSUME NEW i \in 1..n PROVE i \in 1..n + m /\ i <= n /\ i \in Nat \ {0} /\ q[i] = s[i]
  <2>1. i \in 1..n + m /\ i <= n /\ i \in Nat \ {0}
    BY <1>2
  <2> QED
    BY <1>3, <2>1
<1>5. ASSUME NEW k \in 1..m PROVE n + k \in 1..n + m /\ k \in Nat \ {0} /\ q[n + k] = t[k]
  <2>1. n + k \in 1..n + m /\ ~(n + k <= n) /\ (n + k) - n = k /\ k \in Nat \ {0}
    BY <1>2
  <2> QED
    BY <1>3, <2>1
<1>6. ASSUME NEW i \in 1..n + m, i \notin 1..n PROVE \E k \in 1..m : i = n + k
  <2>1. i - n \in 1..m /\ i = n + (i - n)
    BY <1>2, <1>6
  <2> QED
    BY <2>1
<1>7. Joined(s, t, q, n)
  BY <1>2, <1>4, <1>5, <1>6 DEF Joined
<1> QED
  BY <1>1, <1>7

\* Of two sequences without a number in common, each listing numbers once.
LEMMA JoinOnce ==
    ASSUME NEW s, NEW t, NEW q, NEW n, Joined(s, t, q, n),
           \A i, j \in DOMAIN s : i # j => s[i] # s[j],
           \A i, j \in DOMAIN t : i # j => t[i] # t[j],
           \A i \in DOMAIN s, j \in DOMAIN t : s[i] # t[j]
    PROVE  \A i, j \in DOMAIN q : i # j => q[i] # q[j]
<1>1. \A i \in DOMAIN s : q[i] = s[i]
  BY DEF Joined
<1>2. \A k \in DOMAIN t : q[n + k] = t[k]
  BY DEF Joined
<1>3. \A i \in DOMAIN q : i \in DOMAIN s \/ \E k \in DOMAIN t : i = n + k
  BY DEF Joined
<1> QED
  BY <1>1, <1>2, <1>3
\* A new connection: everything pending has failed, and what the former
\* connection still delivers answers nobody.
LEMMA AttachInv ==
    ASSUME IInv, Attach
    PROVE  IInv'
<1>1. TypeOK /\ LinkInv /\ QueueInv /\ OrderInv /\ AckInv /\ PostInv /\ NamesInv
      /\ EstopInv /\ HealthInv /\ AgreeInv
  BY DEF IInv
<1> USE <1>1
<1> PICK N : N = Len(call) + 1
  OBVIOUS
<1> PICK new : \E m \in Links : new = [op |-> IF PushConfig THEN "config" ELSE "quiet",
                                      on |-> m, pc |-> "waiting"]
               /\ (\A l \in Links : reader[l] = "none" <=> l >= m)
               /\ ctlConn' = m /\ conn' = m
               /\ reader' = [reader EXCEPT ![m] = "read"]
               /\ post' = [post EXCEPT ![m] = "running"]
               /\ call' = Append(TornDown(call), new)
  BY DEF Attach
<1> PICK n \in Links :
           /\ new = [op |-> IF PushConfig THEN "config" ELSE "quiet", on |-> n, pc |-> "waiting"]
           /\ \A m \in Links : reader[m] = "none" <=> m >= n
           /\ ctlConn' = n /\ conn' = n
           /\ reader' = [reader EXCEPT ![n] = "read"]
           /\ post' = [post EXCEPT ![n] = "running"]
           /\ call' = Append(TornDown(call), new)
  OBVIOUS
<1> PICK k \in 0..1 :
           up' = [m \in Links |->
                    IF m = conn THEN SubSeq(up[m], 1, IF reader[m] = "emit" THEN 0
                                                      ELSE IF Len(up[m]) < k THEN Len(up[m]) ELSE k)
                    ELSE up[m]]
  BY DEF Attach
<1>2. /\ ctlConn = 0 /\ ready = <<>>
      /\ down' = <<N>> /\ cached' = Unknown
      /\ ready' \in InOrder(Pending(call))
      /\ IF PushConfig THEN UNCHANGED <<armed, armedBy, armedOn>>
                       ELSE armed' = FALSE /\ armedBy' = 0 /\ armedOn' = 0
      /\ excused' = {}
      /\ UNCHANGED <<ctl, executed, lastEstop>>
  <2>1. /\ ctlConn = 0 /\ ready = <<>> /\ down' = <<N>> /\ cached' = Unknown
        /\ ready' \in InOrder(Pending(call)) /\ excused' = {}
        /\ UNCHANGED <<ctl, executed, lastEstop>>
    BY DEF Attach
  <2>2. IF PushConfig THEN UNCHANGED <<armed, armedBy, armedOn>>
                      ELSE armed' = FALSE /\ armedBy' = 0 /\ armedOn' = 0
    BY DEF Attach, SetArmed
  <2> QED
    BY <2>1, <2>2
<1>3. n \in 1..MaxLinks /\ MaxLinks \in Nat /\ n # 0 /\ n \in Nat
  BY BoundsAssumption DEF Links
\* The calls: none is settled; those that wait are torn down.
<1>4. /\ DOMAIN call = 1..Len(call) /\ Len(call) \in Nat /\ N \in Nat /\ call \in Seq(Calls)
      /\ \A id \in DOMAIN call : call[id] \in Calls /\ id < N /\ id \in Nat
  BY CallFacts DEF TypeOK
<1>5. \A id \in DOMAIN call : call[id].pc \notin {"ok", "failed"}
  BY <1>2 DEF QueueInv
<1>6. new \in Calls /\ new.on = n /\ new.pc = "waiting" /\ new.op \in {"config", "quiet"}
      /\ (PushConfig => new.op = "config")
  BY <1>3 DEF Calls
<1>7. /\ TornDown(call) \in Seq(Calls) /\ DOMAIN TornDown(call) = DOMAIN call
      /\ Len(TornDown(call)) = Len(call)
      /\ \A id \in DOMAIN call :
           /\ TornDown(call)[id].op = call[id].op /\ TornDown(call)[id].on = call[id].on
           /\ call[id].pc = "waiting" => TornDown(call)[id].pc = "failed"
           /\ call[id].pc # "waiting" => TornDown(call)[id] = call[id]
  <2>1. Torn(call, TornDown(call))
    BY <1>4, TornDownFacts
  <2> QED
    BY <2>1 DEF Torn
<1>8. /\ call' \in Seq(Calls) /\ Len(call') = N /\ DOMAIN call' = 1..N
      /\ \A id \in DOMAIN call : call'[id] = TornDown(call)[id]
      /\ call'[N] = new
  BY <1>4, <1>6, <1>7, AppendFacts
<1>9. /\ DOMAIN call' = DOMAIN call \cup {N} /\ N \notin DOMAIN call /\ OpsKept
      /\ \A id \in DOMAIN call :
           /\ call'[id].op = call[id].op /\ call'[id].on = call[id].on
           /\ call[id].pc = "waiting" => call'[id].pc = "failed"
           /\ call[id].pc # "waiting" => call'[id].pc = call[id].pc
           /\ call'[id].pc \notin {"waiting", "ok"}
  <2>1. 1..N = 1..Len(call) \cup {N} /\ N \notin 1..Len(call)
    BY <1>4
  <2>2. DOMAIN call' = DOMAIN call \cup {N} /\ N \notin DOMAIN call
    BY <1>4, <1>8, <2>1
  <2>3. ASSUME NEW id \in DOMAIN call
        PROVE  /\ call'[id].op = call[id].op /\ call'[id].on = call[id].on
               /\ call[id].pc = "waiting" => call'[id].pc = "failed"
               /\ call[id].pc # "waiting" => call'[id].pc = call[id].pc
               /\ call'[id].pc \notin {"waiting", "ok"}
    BY <1>5, <1>7, <1>8
  <2> QED
    BY <2>2, <2>3 DEF OpsKept
<1>10. /\ ready' \in Seq(DOMAIN call)
       /\ \A i \in DOMAIN ready' : ready'[i] \in DOMAIN call /\ call[ready'[i]].pc = "waiting"
       /\ \A i, j \in DOMAIN ready' : i # j => ready'[i] # ready'[j]
       /\ \A id \in DOMAIN call : call[id].pc = "waiting" => \E i \in DOMAIN ready' : ready'[i] = id
  <2> PICK P : P = Pending(call)
    OBVIOUS
  <2>1. P \subseteq 1..Len(call) /\ Len(call) \in Nat /\ ready' \in InOrder(P)
    BY <1>2, <1>4 DEF Pending
  <2>2. Lists(ready', P)
    BY <2>1, InOrderFacts
  <2>3. ready' \in Seq(DOMAIN call)
    BY <1>4, <2>1, <2>2, SeqMonotonic DEF Lists
  <2> QED
    BY <2>2, <2>3 DEF Lists, Pending
\* The frames: those of the former connection are lost from some point on.
<1>11. /\ up' \in [Links -> Seq(Frames)]
       /\ \A m \in Links : m # conn => up'[m] = up[m]
       /\ \A m \in Links : \A i \in DOMAIN up'[m] : i \in DOMAIN up[m] /\ up'[m][i] = up[m][i]
  <2>1. ASSUME NEW m \in Links, m = conn
        PROVE  /\ up'[m] \in Seq(Frames)
               /\ \A i \in DOMAIN up'[m] : i \in DOMAIN up[m] /\ up'[m][i] = up[m][i]
    <3> PICK l : l = IF reader[m] = "emit" THEN 0 ELSE IF Len(up[m]) < k THEN Len(up[m]) ELSE k
      OBVIOUS
    <3>1. up'[m] = SubSeq(up[m], 1, l)
      BY <2>1
    <3>2. up[m] \in Seq(Frames) /\ DOMAIN up[m] = 1..Len(up[m]) /\ Len(up[m]) \in Nat
          /\ \A i \in DOMAIN up[m] : up[m][i] \in Frames
      BY FrameFacts
    <3>3. l \in Nat /\ 1..l \subseteq 1..Len(up[m])
      BY <3>2
    <3>4. /\ SubSeq(up[m], 1, l) \in Seq(Frames) /\ Len(SubSeq(up[m], 1, l)) = l
          /\ \A i \in 1..l : SubSeq(up[m], 1, l)[i] = up[m][i]
      BY <3>2, <3>3, SubSeqProperties
    <3>5. DOMAIN up'[m] = 1..l
      BY <3>1, <3>4, LenProperties
    <3> QED
      BY <3>1, <3>2, <3>3, <3>4, <3>5
  <2>2. \A m \in Links : m # conn => up'[m] = up[m]
    OBVIOUS
  <2>3. \A m \in Links : up'[m] \in Seq(Frames)
    BY <2>1, <2>2, FrameFacts
  <2>4. up' \in [Links -> Seq(Frames)]
    BY <2>3
  <2> QED
    BY <2>1, <2>2, <2>4
<1>12. /\ \A m \in Links : reader'[m] = IF m = n THEN "read" ELSE reader[m]
       /\ \A m \in Links : post'[m] = IF m = n THEN "running" ELSE post[m]
       /\ reader[n] = "none"
  BY <1>3 DEF TypeOK
<1>13. n # conn /\ up'[n] = <<>> /\ DOMAIN up'[n] = {}
  <2>1. n # conn /\ up[n] = <<>>
    BY <1>3, <1>12 DEF LinkInv
  <2> QED
    BY <1>11, <2>1
<1>14. \A id \in DOMAIN call : call[id].on # n
  BY <1>3, <1>12 DEF LinkInv
<1>15. \A m \in Links : \A i \in DOMAIN up'[m] : IsAck(up'[m][i]) => up'[m][i].id \in DOMAIN call
  BY <1>11, FrameFacts
<1>16. DOMAIN down' = {1} /\ down'[1] = N /\ down' \in Seq(DOMAIN call')
  <2>1. N \in DOMAIN call' /\ down' = <<N>>
    BY <1>2, <1>9
  <2>2. <<N>> \in Seq(DOMAIN call') /\ Len(<<N>>) = 1 /\ <<N>>[1] = N
    BY <2>1
  <2>3. DOMAIN down' = 1..1
    BY <2>1, <2>2, LenProperties
  <2> QED
    BY <2>1, <2>2, <2>3
<1>17. TypeOK'
  <2>1. /\ reader' \in [Links -> {"none", "read", "emit", "closed"}]
        /\ post' \in [Links -> {"none", "running", "done"}]
    BY DEF TypeOK
  <2>2. Frames \subseteq Frames'
    BY <1>9 DEF Frames
  <2>3. up' \in [Links -> Seq(Frames')]
    <3>1. \A m \in Links : up'[m] \in Seq(Frames')
      BY <1>11, <2>2, SeqMonotonic
    <3> QED
      BY <1>11, <3>1
  <2>4. ready' \in Seq(DOMAIN call')
    BY <1>9, <1>10, SeqMonotonic
  <2>5. armedBy' \in 0..Len(call') /\ armedOn' \in 0..MaxLinks /\ armed' \in BOOLEAN
        /\ lastEstop' \in 0..Len(call')
    <3>1. armedBy \in 0..Len(call) /\ armedOn \in 0..MaxLinks /\ armed \in BOOLEAN
          /\ lastEstop \in 0..Len(call)
      BY DEF TypeOK
    <3>2. 0 \in 0..N /\ 0..Len(call) \subseteq 0..N /\ 0 \in 0..MaxLinks
      BY <1>3, <1>4
    <3> QED
      BY <1>2, <1>8, <3>1, <3>2
  <2>6. executed' \subseteq DOMAIN call' /\ cached' \in State
    BY <1>2, <1>9 DEF TypeOK, Unknown, State
  <2>7. conn' \in 0..MaxLinks /\ ctlConn' \in 0..MaxLinks
    BY <1>3
  <2> QED
    BY <1>2, <1>8, <1>16, <2>1, <2>3, <2>4, <2>5, <2>6, <2>7 DEF TypeOK
<1>18. LinkInv'
  <2>1. \A m \in Links : reader'[m] = "none" => up'[m] = <<>> /\ post'[m] = "none"
    <3>1. conn \in Links => reader[conn] # "none"
      BY DEF LinkInv, Links
    <3> QED
      BY <1>11, <1>12, <3>1 DEF LinkInv
  <2>2. \A id \in DOMAIN call' : call'[id].on # 0 => reader'[call'[id].on] # "none"
    <3>1. \A id \in DOMAIN call : call[id].on # 0 => call[id].on \in Links
      BY <1>4 DEF Calls, Links
    <3> QED
      BY <1>6, <1>8, <1>12, <1>9, <3>1 DEF LinkInv
  <2> QED
    BY <1>3, <1>12, <2>1, <2>2 DEF LinkInv
<1>19. QueueInv'
  <2>1. ASSUME NEW i \in DOMAIN ready' PROVE call'[ready'[i]].pc \in {"ok", "failed"}
    <3>1. ready'[i] \in DOMAIN call /\ call[ready'[i]].pc = "waiting"
      BY <1>10
    <3> QED
      BY <1>9, <3>1
  <2>2. ASSUME NEW id \in DOMAIN call', call'[id].pc \in {"ok", "failed"}
        PROVE  \E i \in DOMAIN ready' : ready'[i] = id
    <3>1. id \in DOMAIN call /\ call[id].pc = "waiting"
      BY <1>5, <1>6, <1>8, <1>9, <2>2
    <3> QED
      BY <1>10, <3>1
  <2> QED
    BY <1>10, <2>1, <2>2 DEF QueueInv
<1>20. OrderInv'
  <2>1. \A m \in Links : \A i \in DOMAIN up'[m] : IsAck(up'[m][i]) => call'[up'[m][i].id].pc # "waiting"
    BY <1>15, <1>9
  <2>2. \A i, j \in DOMAIN down' : ~(i < j)
    BY <1>16
  <2> QED
    BY <1>13, <2>1, <2>2 DEF OrderInv
<1>21. AckInv'
  <2>1. \A m \in Links : \A i \in DOMAIN up'[m] :
          IsAck(up'[m][i]) /\ up'[m][i].ok => up'[m][i].id \in executed
    BY <1>11 DEF AckInv
  <2>2. \A id \in DOMAIN call' : call'[id].pc \in {"ok", "returned"} => id \in executed
    BY <1>6, <1>8, <1>9 DEF AckInv
  <2> QED
    BY <1>2, <2>1, <2>2 DEF AckInv
<1>22. PostInv'
  <2>1. \A id \in DOMAIN call' : (OfPost(id) /\ Open(id))' =>
          \/ id = N
          \/ id \in DOMAIN call /\ OfPost(id) /\ Open(id) /\ call'[id].on = call[id].on /\ call[id].on # n
    BY <1>14, <1>9 DEF OfPost, Open
  <2>2. \A id \in DOMAIN call' : (OfPost(id) /\ Open(id))' =>
          call'[id].on # 0 /\ post'[call'[id].on] = "running"
    <3>1. \A id \in DOMAIN call : call[id].on # 0 => call[id].on \in Links
      BY <1>4 DEF Calls, Links
    <3> QED
      BY <1>3, <1>6, <1>8, <1>12, <2>1, <3>1 DEF PostInv
  <2>3. ASSUME NEW i \in DOMAIN call', NEW j \in DOMAIN call', (OfPost(i) /\ Open(i))',
               (OfPost(j) /\ Open(j))', call'[i].on = call'[j].on
        PROVE  i = j
    BY <1>6, <1>8, <2>1, <2>3 DEF PostInv
  <2> QED
    BY <2>2, <2>3 DEF PostInv
<1>23. NamesInv'
  BY <1>2, <1>4, <1>9 DEF NamesInv, TypeOK
<1>24. ~PushConfig => ~armed'
  BY <1>2
<1>25. PushConfig => ConfigOpen'
  BY <1>6, <1>8, <1>9 DEF ConfigOpen, Open
<1>26. EstopInv' /\ HealthInv'
  <2>1. ASSUME NEW ids PROVE Undone(ids)'
    <3>1. \A id \in DOMAIN call' : call'[id].pc # "ok"
      BY <1>6, <1>8, <1>9
    <3> QED
      BY <1>13, <1>24, <1>25, <3>1 DEF Undone
  <2>2. Undone(0..lastEstop - 1)' /\ Undone(Nat)'
    <3> PICK ids : ids = 0..lastEstop - 1
      OBVIOUS
    <3>1. ids = (0..lastEstop - 1)'
      BY <1>2
    <3>2. Undone(ids)' /\ Undone(Nat)'
      BY <2>1
    <3> QED
      BY <3>1, <3>2 DEF Undone
  <2>3. \A i \in DOMAIN down' : call'[down'[i]].op # "arm"
    BY <1>6, <1>8, <1>16
  <2> QED
    BY <2>2, <2>3 DEF EstopInv, HealthInv
<1>27. NoArming'
  BY <1>2, <1>6, <1>8, <1>24, <1>25, <1>9 DEF NoArming, LinkInv
<1>28. AgreeInv'
  <2>1. Awaited'
    BY <1>6, <1>8, <1>13, <1>16 DEF Awaited
  <2>2. Quieted'
    BY <1>6, <1>8, <1>16, <1>27 DEF Quieted, NoArming
  <2>3. Told'
    BY <1>12, <1>13 DEF Told
  <2>4. Taken'
    <3>1. ASSUME NEW i \in DOMAIN ready', Telling(ready[i])' PROVE call'[ready'[i]].op # "arm"
      <4>1. ready'[i] \in DOMAIN call /\ call'[ready'[i]].pc # "ok"
        BY <1>9, <1>10
      <4> QED
        BY <3>1, <4>1 DEF Telling
    <3>2. ctl'.armed = FALSE /\ (armed' = FALSE \/ ConfigOpen')
      <4>1. ctl.armed = FALSE
        BY <1>2 DEF LinkInv, TypeOK
      <4>2. PushConfig \/ armed' = FALSE
        BY <1>2
      <4> QED
        BY <1>2, <1>25, <4>1, <4>2
    <3> QED
      BY <3>1, <3>2 DEF Taken
  <2> QED
    BY <2>1, <2>2, <2>3, <2>4 DEF AgreeInv
<1> QED
  BY <1>17, <1>18, <1>19, <1>20, <1>21, <1>22, <1>23, <1>26, <1>28 DEF IInv

\* The post-connect task's own calls are over; the others stay in the queue.
Mine(n, id) == call[id].op \in {"config", "quiet"} /\ call[id].on = n
Cancelled(n, rest, kept, queue) ==
    /\ rest \in Seq(Calls) /\ DOMAIN rest = DOMAIN call /\ Len(rest) = Len(call)
    /\ \A id \in DOMAIN call :
         /\ rest[id].op = call[id].op /\ rest[id].on = call[id].on
         /\ ~Mine(n, id) \/ call[id].pc = "returned" => rest[id].pc = call[id].pc
         /\ Mine(n, id) /\ call[id].pc # "returned" => rest[id].pc = "raised"
    /\ queue \in Seq(DOMAIN call)
    /\ \A k \in DOMAIN queue :
         /\ queue[k] = ready[kept[k]] /\ kept[k] \in DOMAIN ready
         /\ queue[k] \in DOMAIN call /\ ~Mine(n, queue[k])
    /\ \A k, l \in DOMAIN queue : k < l => kept[k] < kept[l]
    /\ \A k, l \in DOMAIN queue : k # l => queue[k] # queue[l]
    /\ \A i \in DOMAIN ready : ~Mine(n, ready[i]) => \E k \in DOMAIN queue : kept[k] = i

\* A route that ends leaves such calls and such a queue.
LEMMA CancelFacts ==
    ASSUME TypeOK, QueueInv, NEW n \in Links,
           NEW rest, rest = [id \in DOMAIN call |->
                               IF Mine(n, id) /\ call[id].pc # "returned"
                               THEN [call[id] EXCEPT !.pc = "raised"] ELSE call[id]],
           NEW kept, kept \in InOrder({i \in DOMAIN ready : ~Mine(n, ready[i])}),
           NEW queue, queue = [k \in DOMAIN kept |-> ready[kept[k]]]
    PROVE  Cancelled(n, rest, kept, queue)
<1>1. /\ DOMAIN call = 1..Len(call) /\ Len(call) \in Nat
      /\ \A id \in DOMAIN call : call[id] \in Calls
      /\ DOMAIN ready = 1..Len(ready) /\ Len(ready) \in Nat
      /\ \A i \in DOMAIN ready : ready[i] \in DOMAIN call
  BY CallFacts
<1>2. ASSUME NEW id \in DOMAIN call
      PROVE  /\ rest[id] \in Calls
             /\ rest[id].op = call[id].op /\ rest[id].on = call[id].on
             /\ ~Mine(n, id) \/ call[id].pc = "returned" => rest[id].pc = call[id].pc
             /\ Mine(n, id) /\ call[id].pc # "returned" => rest[id].pc = "raised"
  BY <1>1 DEF Calls
<1>3. rest \in Seq(Calls) /\ Len(rest) = Len(call) /\ DOMAIN rest = DOMAIN call
  <2>1. rest \in [1..Len(call) -> Calls]
    BY <1>1, <1>2
  <2>2. rest \in Seq(Calls)
    BY <1>1, <2>1, SeqDef
  <2>3. Len(rest) \in Nat /\ 1..Len(rest) = 1..Len(call)
    BY <2>1, <2>2, LenProperties
  <2> QED
    BY <1>1, <2>2, <2>3
<1> PICK S : S = {i \in DOMAIN ready : ~Mine(n, ready[i])}
  OBVIOUS
<1>4. S \subseteq 1..Len(ready) /\ kept \in InOrder(S)
  BY <1>1
<1>5. /\ DOMAIN kept = 1..Len(kept) /\ Len(kept) \in Nat
      /\ \A k \in DOMAIN kept : kept[k] \in S
      /\ \A k, l \in DOMAIN kept : k < l => kept[k] < kept[l]
      /\ \A k, l \in DOMAIN kept : k # l => kept[k] # kept[l]
      /\ \A x \in S : \E k \in DOMAIN kept : kept[k] = x
  <2>1. Lists(kept, S)
    BY <1>1, <1>4, InOrderFacts
  <2> QED
    BY <2>1 DEF Lists
<1>6. DOMAIN queue = DOMAIN kept /\ \A k \in DOMAIN queue : queue[k] = ready[kept[k]]
  OBVIOUS
<1>7. queue \in Seq(DOMAIN call)
  <2>1. \A k \in 1..Len(kept) : queue[k] \in DOMAIN call
    BY <1>1, <1>5, <1>6
  <2>2. queue \in [1..Len(kept) -> DOMAIN call]
    BY <1>5, <2>1
  <2> QED
    BY <1>5, <2>2, SeqDef
<1>8. \A k \in DOMAIN queue : /\ queue[k] = ready[kept[k]] /\ kept[k] \in DOMAIN ready
                              /\ queue[k] \in DOMAIN call /\ ~Mine(n, queue[k])
  BY <1>1, <1>5, <1>6
<1>9. \A k, l \in DOMAIN queue : k # l => queue[k] # queue[l]
  BY <1>5, <1>6 DEF QueueInv
<1>10. \A i \in DOMAIN ready : ~Mine(n, ready[i]) => \E k \in DOMAIN queue : kept[k] = i
  BY <1>5, <1>6
<1>11. \A k, l \in DOMAIN queue : k < l => kept[k] < kept[l]
  BY <1>5, <1>6
<1> QED
  BY <1>2, <1>3, <1>7, <1>8, <1>9, <1>10, <1>11 DEF Cancelled

\* The calls and the loop's queue once the route of connection n has ended.
Ended(n) ==
    /\ call' \in Seq(Calls) /\ DOMAIN call' = DOMAIN call /\ Len(call') = Len(call)
    /\ \A id \in DOMAIN call :
         /\ call'[id].op = call[id].op /\ call'[id].on = call[id].on
         /\ Mine(n, id) => call'[id].pc \in {"returned", "raised"}
         /\ call'[id].pc # call[id].pc => call'[id].pc \in {"raised", "failed"} /\ Open(id)
         /\ n # conn /\ ~Mine(n, id) => call'[id].pc = call[id].pc
         /\ n = conn => call'[id].pc # "waiting"
    /\ ready' \in Seq(DOMAIN call)

\* So it is, with or without the pending calls failing too.
LEMMA CloseCalls ==
    ASSUME TypeOK, QueueInv, NEW n \in Links, NEW rest, NEW kept, NEW queue,
           Cancelled(n, rest, kept, queue),
           \/ n # conn /\ call' = rest /\ ready' = queue
           \/ /\ n = conn /\ call' = TornDown(rest)
              /\ \E failing \in InOrder(Pending(rest)) : ready' = queue \o failing
    PROVE  Ended(n) /\ QueueInv'
<1>1. rest \in Seq(Calls) /\ DOMAIN rest = DOMAIN call /\ Len(rest) = Len(call)
  BY DEF Cancelled
<1>2. \A id \in DOMAIN call :
        /\ rest[id].op = call[id].op /\ rest[id].on = call[id].on
        /\ ~Mine(n, id) \/ call[id].pc = "returned" => rest[id].pc = call[id].pc
        /\ Mine(n, id) /\ call[id].pc # "returned" => rest[id].pc = "raised"
  BY DEF Cancelled
<1>3. /\ queue \in Seq(DOMAIN call)
      /\ \A k \in DOMAIN queue :
           /\ queue[k] = ready[kept[k]] /\ kept[k] \in DOMAIN ready
           /\ queue[k] \in DOMAIN call /\ ~Mine(n, queue[k])
      /\ \A k, l \in DOMAIN queue : k # l => queue[k] # queue[l]
  BY DEF Cancelled
<1>4. \A i \in DOMAIN ready : ~Mine(n, ready[i]) => \E k \in DOMAIN queue : kept[k] = i
  BY DEF Cancelled
<1>5. \A k \in DOMAIN queue : rest[queue[k]].pc \in {"ok", "failed"}
  BY <1>2, <1>3 DEF QueueInv
<1>6. ASSUME NEW id \in DOMAIN call, rest[id].pc \in {"ok", "failed"}
      PROVE  \E k \in DOMAIN queue : queue[k] = id
  <2>1. ~Mine(n, id) /\ call[id].pc \in {"ok", "failed"}
    BY <1>2, <1>6
  <2>2. PICK i \in DOMAIN ready : ready[i] = id
    BY <2>1 DEF QueueInv
  <2> QED
    BY <1>3, <1>4, <2>1, <2>2
<1>7. \A id \in DOMAIN call : call[id].pc \in {"waiting", "ok", "failed", "returned", "raised"}
  BY CallFacts DEF Calls
<1>8. CASE n # conn
  <2>1. call' = rest /\ ready' = queue
    BY <1>8
  <2>2. Ended(n)
    BY <1>1, <1>2, <1>3, <1>7, <1>8, <2>1 DEF Ended, Open
  <2>3. QueueInv'
    BY <1>1, <1>3, <1>5, <1>6, <2>1 DEF QueueInv
  <2> QED
    BY <2>2, <2>3
<1>9. CASE n = conn
  <2> PICK P : P = Pending(rest)
    OBVIOUS
  <2> PICK t : t = TornDown(rest)
    OBVIOUS
  <2>1. call' = t
    BY <1>9
  <2>2. PICK failing \in InOrder(P) : ready' = queue \o failing
    BY <1>9
  <2>3. Torn(rest, t)
    BY <1>1, TornDownFacts
  <2>4. /\ t \in Seq(Calls) /\ DOMAIN t = DOMAIN call /\ Len(t) = Len(call)
        /\ \A id \in DOMAIN call :
             /\ t[id].op = call[id].op /\ t[id].on = call[id].on
             /\ rest[id].pc = "waiting" => t[id].pc = "failed"
             /\ rest[id].pc # "waiting" => t[id].pc = rest[id].pc
    <3>1. t \in Seq(Calls) /\ DOMAIN t = DOMAIN call /\ Len(t) = Len(call)
      BY <1>1, <2>3 DEF Torn
    <3>2. ASSUME NEW id \in DOMAIN call
          PROVE  /\ t[id].op = call[id].op /\ t[id].on = call[id].on
                 /\ rest[id].pc = "waiting" => t[id].pc = "failed"
                 /\ rest[id].pc # "waiting" => t[id].pc = rest[id].pc
      <4>1. id \in DOMAIN rest
        BY <1>1
      <4>2. /\ t[id].op = rest[id].op /\ t[id].on = rest[id].on
            /\ rest[id].pc = "waiting" => t[id].pc = "failed"
            /\ rest[id].pc # "waiting" => t[id] = rest[id]
        BY <2>3, <4>1 DEF Torn
      <4> QED
        BY <1>2, <4>2
    <3> QED
      BY <3>1, <3>2
  <2>5. P \subseteq 1..Len(call) /\ Len(call) \in Nat /\ DOMAIN call = 1..Len(call)
        /\ \A id \in DOMAIN call : id \in P <=> rest[id].pc = "waiting"
    BY <1>1, CallFacts DEF Pending
  <2>6. Lists(failing, P)
    BY <2>2, <2>5, InOrderFacts
  <2>7. failing \in Seq(DOMAIN call)
    BY <2>5, <2>6, SeqMonotonic DEF Lists
  <2> PICK n0 : n0 = Len(queue)
    OBVIOUS
  <2>8. ready' \in Seq(DOMAIN call) /\ Joined(queue, failing, ready', n0)
    BY <1>3, <2>2, <2>7, JoinFacts
  <2>9. /\ \A i \in DOMAIN failing : failing[i] \in P
        /\ \A i, j \in DOMAIN failing : i # j => failing[i] # failing[j]
        /\ \A x \in P : \E i \in DOMAIN failing : failing[i] = x
    BY <2>6 DEF Lists
  <2>10. \A i, j \in DOMAIN ready' : i # j => ready'[i] # ready'[j]
    <3>1. \A i \in DOMAIN queue, j \in DOMAIN failing : queue[i] # failing[j]
      BY <1>3, <1>5, <2>5, <2>9
    <3>2. \A i, j \in DOMAIN queue : i # j => queue[i] # queue[j]
      BY <1>3
    <3>3. \A i, j \in DOMAIN failing : i # j => failing[i] # failing[j]
      BY <2>9
    <3> PICK q : q = ready'
      OBVIOUS
    <3>4. Joined(queue, failing, q, n0)
      BY <2>8
    <3>5. \A i, j \in DOMAIN q : i # j => q[i] # q[j]
      BY <3>1, <3>2, <3>3, <3>4, JoinOnce
    <3> QED
      BY <3>5
  <2>11. ASSUME NEW i \in DOMAIN ready' PROVE t[ready'[i]].pc \in {"ok", "failed"}
    <3>1. CASE i \in DOMAIN queue
      <4>1. ready'[i] = queue[i]
        BY <2>8, <3>1 DEF Joined
      <4> QED
        BY <1>3, <1>5, <2>4, <3>1, <4>1
    <3>2. CASE i \notin DOMAIN queue
      <4>1. PICK k \in DOMAIN failing : ready'[i] = failing[k]
        BY <2>8, <3>2 DEF Joined
      <4>2. failing[k] \in DOMAIN call /\ rest[failing[k]].pc = "waiting"
        BY <2>5, <2>9
      <4> QED
        BY <2>4, <4>1, <4>2
    <3> QED
      BY <3>1, <3>2
  <2>12. ASSUME NEW id \in DOMAIN call, t[id].pc \in {"ok", "failed"}
         PROVE  \E i \in DOMAIN ready' : ready'[i] = id
    <3>1. CASE rest[id].pc = "waiting"
      <4>1. PICK k \in DOMAIN failing : failing[k] = id
        BY <2>5, <2>9, <3>1
      <4> QED
        BY <2>8, <4>1 DEF Joined
    <3>2. CASE rest[id].pc # "waiting"
      <4>1. PICK k \in DOMAIN queue : queue[k] = id
        BY <1>6, <2>4, <2>12, <3>2
      <4> QED
        BY <2>8, <4>1 DEF Joined
    <3> QED
      BY <3>1, <3>2
  <2>13. QueueInv'
    BY <2>1, <2>4, <2>10, <2>11, <2>12 DEF QueueInv
  <2>14. ASSUME NEW id \in DOMAIN call
         PROVE  /\ Mine(n, id) => t[id].pc \in {"returned", "raised"}
                /\ t[id].pc # call[id].pc => t[id].pc \in {"raised", "failed"} /\ Open(id)
                /\ t[id].pc # "waiting"
    BY <1>2, <1>7, <2>4 DEF Open
  <2>15. Ended(n)
    BY <1>9, <2>1, <2>4, <2>8, <2>14 DEF Ended
  <2> QED
    BY <2>13, <2>15
<1> QED
  BY <1>8, <1>9

\* A route ends: the post-connect task's own call is over with it, and with
\* the manager's own connection everything pending.
LEMMA CloseInv ==
    ASSUME IInv, NEW n \in Links, Close(n)
    PROVE  IInv'
<1>1. TypeOK /\ LinkInv /\ QueueInv /\ OrderInv /\ AckInv /\ PostInv /\ NamesInv
      /\ EstopInv /\ HealthInv /\ AgreeInv
  BY DEF IInv
<1> USE <1>1
<1> PICK rest : rest = [id \in DOMAIN call |->
                          IF Mine(n, id) /\ call[id].pc # "returned"
                          THEN [call[id] EXCEPT !.pc = "raised"] ELSE call[id]]
  OBVIOUS
<1> PICK kept \in InOrder({i \in DOMAIN ready : ~Mine(n, ready[i])}) :
      LET queue == [k \in DOMAIN kept |-> ready[kept[k]]] IN
      IF n = conn
      THEN /\ conn' = 0 /\ cached' = Unknown /\ SetArmed(FALSE)
           /\ call' = TornDown(rest)
           /\ \E failing \in InOrder(Pending(rest)) : ready' = queue \o failing
      ELSE /\ call' = rest /\ ready' = queue
           /\ UNCHANGED <<armed, armedBy, armedOn, conn, cached>>
  BY DEF Close, Mine
<1> PICK queue : queue = [k \in DOMAIN kept |-> ready[kept[k]]]
  OBVIOUS
<1>2. /\ reader[n] = "read" /\ up[n] = <<>> /\ n # ctlConn
      /\ reader' = [reader EXCEPT ![n] = "closed"]
      /\ post' = [post EXCEPT ![n] = "done"]
      /\ UNCHANGED <<ctl, ctlConn, down, up, executed, lastEstop, excused>>
  BY DEF Close, device
<1>3. /\ n = conn => /\ conn' = 0 /\ cached' = Unknown
                     /\ armed' = FALSE /\ armedBy' = 0 /\ armedOn' = 0
                     /\ call' = TornDown(rest)
                     /\ \E failing \in InOrder(Pending(rest)) : ready' = queue \o failing
      /\ n # conn => /\ call' = rest /\ ready' = queue
                     /\ UNCHANGED <<armed, armedBy, armedOn, conn, cached>>
  BY DEF SetArmed
<1>4. Cancelled(n, rest, kept, queue)
  BY CancelFacts
<1>5. Ended(n) /\ QueueInv'
  BY <1>3, <1>4, CloseCalls
<1>6. call' \in Seq(Calls) /\ DOMAIN call' = DOMAIN call /\ Len(call') = Len(call) /\ OpsKept
  BY <1>5 DEF Ended, OpsKept
<1>7. \A id \in DOMAIN call :
        /\ Mine(n, id) => call'[id].pc \in {"returned", "raised"}
        /\ call'[id].pc # call[id].pc => call'[id].pc \in {"raised", "failed"} /\ Open(id)
        /\ n # conn /\ ~Mine(n, id) => call'[id].pc = call[id].pc
        /\ n = conn => call'[id].pc # "waiting"
  BY <1>5 DEF Ended
<1>8. /\ \A m \in Links : reader'[m] = IF m = n THEN "closed" ELSE reader[m]
      /\ \A m \in Links : post'[m] = IF m = n THEN "done" ELSE post[m]
      /\ reader' \in [Links -> {"none", "read", "emit", "closed"}]
      /\ post' \in [Links -> {"none", "running", "done"}]
  BY <1>2 DEF TypeOK
<1>9. n # 0 /\ (conn # 0 => conn \in Links) /\ (ctlConn # 0 => ctlConn \in Links /\ n # conn)
  <2>1. MaxLinks \in Nat /\ conn \in 0..MaxLinks /\ ctlConn \in 0..MaxLinks /\ n \in 1..MaxLinks
    BY BoundsAssumption DEF TypeOK, Links
  <2> QED
    BY <1>2, <2>1 DEF Links, LinkInv
<1>10. TypeOK'
  <2>1. Frames' = Frames
    BY <1>6 DEF Frames
  <2>2. ready' \in Seq(DOMAIN call')
    BY <1>5, <1>6 DEF Ended
  <2>3. armed' \in BOOLEAN /\ armedBy' \in 0..Len(call) /\ armedOn' \in 0..MaxLinks
        /\ conn' \in 0..MaxLinks /\ cached' \in State
    <3>1. 0 \in 0..MaxLinks /\ 0 \in 0..Len(call) /\ Unknown \in State
      BY BoundsAssumption, CallFacts DEF State, Unknown
    <3> QED
      BY <1>3, <3>1 DEF TypeOK
  <2>4. /\ executed \subseteq DOMAIN call /\ lastEstop \in 0..Len(call)
        /\ down \in Seq(DOMAIN call) /\ up \in [Links -> Seq(Frames)]
        /\ ctl \in [armed : BOOLEAN, estop : BOOLEAN, homed : BOOLEAN] /\ ctlConn \in 0..MaxLinks
        /\ excused \subseteq {"timeout", "stop", "race", "stale"}
    BY DEF TypeOK
  <2> QED
    BY <1>2, <1>6, <1>8, <2>1, <2>2, <2>3, <2>4 DEF TypeOK
<1>11. LinkInv'
  <2>1. \A k \in DOMAIN call' : call'[k].on # 0 => reader'[call'[k].on] # "none"
    <3> TAKE k \in DOMAIN call'
    <3>1. call[k].on \in 0..MaxLinks
      BY <1>6, CallFacts DEF Calls
    <3> QED
      BY <1>6, <1>8, <3>1 DEF LinkInv, OpsKept, Links
  <2>2. ctlConn' # 0 => conn' = ctlConn'
    BY <1>2, <1>3, <1>9 DEF LinkInv
  <2>3. conn' # 0 => reader'[conn'] \in {"read", "emit"}
    BY <1>3, <1>8, <1>9 DEF LinkInv
  <2>4. \A m \in Links : reader'[m] = "none" => up'[m] = <<>> /\ post'[m] = "none"
    BY <1>2, <1>8 DEF LinkInv
  <2> QED
    BY <1>2, <2>1, <2>2, <2>3, <2>4 DEF LinkInv
<1>12. \A m \in Links : \A i \in DOMAIN up[m] : IsAck(up[m][i]) => up[m][i].id \in DOMAIN call
  BY FrameFacts
<1>13. OrderInv'
  <2>1. \A k \in DOMAIN call : call[k].pc # "waiting" => call'[k].pc # "waiting"
    BY <1>7
  <2>2. ASSUME NEW m \in Links, m # conn', NEW i \in DOMAIN up[m], IsAck(up[m][i])
        PROVE  call'[up[m][i].id].pc # "waiting"
    BY <1>3, <1>7, <1>12, <2>1, <2>2 DEF OrderInv
  <2> QED
    BY <1>2, <2>2 DEF OrderInv, IsAck
<1>14. AckInv'
  BY <1>2, <1>6, <1>7 DEF AckInv, IsAck
<1>15. PostInv'
  <2>1. \A k \in DOMAIN call' : (OfPost(k) /\ Open(k))' =>
          /\ k \in DOMAIN call /\ OfPost(k) /\ Open(k) /\ call'[k].on = call[k].on /\ ~Mine(n, k)
    BY <1>6, <1>7 DEF OfPost, Open, OpsKept
  <2>2. ASSUME NEW k \in DOMAIN call', (OfPost(k) /\ Open(k))'
        PROVE  call'[k].on # 0 /\ post'[call'[k].on] = "running"
    <3>1. call[k].on # 0 /\ post[call[k].on] = "running" /\ call[k].on \in Links
      BY <2>1, <2>2, CallFacts DEF PostInv, Calls, Links
    <3>2. call[k].on # n
      BY <2>1, <2>2 DEF Mine, OfPost
    <3> QED
      BY <1>8, <2>1, <2>2, <3>1, <3>2
  <2> QED
    BY <2>1, <2>2 DEF PostInv
<1>16. NamesInv'
  <2>1. armedBy' # 0 => armedBy' \in DOMAIN call /\ call[armedBy'].op = "arm"
    BY <1>3, CallFacts DEF NamesInv, TypeOK
  <2>2. lastEstop # 0 => lastEstop \in DOMAIN call
    BY CallFacts DEF TypeOK
  <2> QED
    BY <1>2, <1>3, <1>6, <2>1, <2>2 DEF NamesInv, OpsKept
\* With the controller's connection still up, the route that ended is an
\* earlier one, and of the calls only its post-connect task's are over.
<1>17. ctlConn # 0 => /\ call' = rest /\ ready' = queue
                      /\ UNCHANGED <<armed, armedBy, armedOn, conn, cached>>
                      /\ reader'[ctlConn] = reader[ctlConn]
                      /\ \A id \in DOMAIN call : ~Mine(n, id) => call'[id].pc = call[id].pc
                      /\ (ConfigOpen' <=> ConfigOpen)
  <2> SUFFICES ASSUME ctlConn # 0
               PROVE  ConfigOpen' <=> ConfigOpen
    BY <1>2, <1>3, <1>7, <1>8, <1>9
  <2>1. \A id \in DOMAIN call : call[id].on = ctlConn => call'[id].pc = call[id].pc
    BY <1>2, <1>7, <1>9 DEF Mine
  <2> QED
    BY <1>2, <1>6, <2>1 DEF ConfigOpen, Open, OpsKept
<1>18. ASSUME ctlConn # 0, NEW ids, Undone(ids) PROVE Undone(ids)'
  <2>1. \A k \in DOMAIN call' : call'[k].pc = "ok" => k \in DOMAIN call /\ call[k].pc = "ok"
    BY <1>6, <1>7
  <2> QED
    BY <1>2, <1>6, <1>9, <1>17, <1>18, <2>1, UndoneStays
<1>19. EstopInv' /\ HealthInv'
  <2>1. InDown(lastEstop)' <=> InDown(lastEstop)
    BY <1>2 DEF InDown
  <2>2. \A i \in DOMAIN down' : InDown(down'[i])
    BY <1>2 DEF InDown
  <2> QED
    BY <1>2, <1>6, <1>18, <2>1, <2>2, StopsStay
<1>20. AgreeInv'
  <2> SUFFICES ASSUME ctlConn # 0, SprayEnabled, excused = {}
               PROVE  (Awaited /\ Quieted /\ Told /\ Taken)'
    BY <1>2 DEF AgreeInv
  <2>1. Awaited /\ Quieted /\ Told /\ Taken
    BY DEF AgreeInv
  <2>2. /\ \A i \in DOMAIN up[ctlConn] : /\ Effective(up[ctlConn][i])' <=> Effective(up[ctlConn][i])
                                         /\ OkArm(up[ctlConn][i])' <=> OkArm(up[ctlConn][i])
        /\ \A k : NoneBehind(k)' <=> NoneBehind(k)
    BY <1>2, <1>6, <1>9, FramesStay
  <2>3. \A k \in DOMAIN call : call[k].op \notin {"config", "quiet"} =>
          call'[k].op = call[k].op /\ call'[k].pc = call[k].pc
    BY <1>6, <1>17 DEF Mine, OpsKept
  <2>4. Awaited'
    <3>1. \A i \in DOMAIN up[ctlConn] : IsAck(up[ctlConn][i]) => up[ctlConn][i].id \in DOMAIN call
      BY <1>9, <1>12
    <3>2. \A k \in DOMAIN call : call'[k].op = call[k].op
                                 /\ (call[k].op \in {"arm", "disarm"} => call'[k].pc = call[k].pc)
      BY <1>6, <2>3 DEF OpsKept
    <3> QED
      BY <1>2, <2>1, <3>1, <3>2, CallFacts DEF Awaited, IsAck
  <2>5. NoArming => NoArming'
    BY <1>2, <1>6, <1>17, <2>3 DEF NoArming, OpsKept
  <2>6. Quieted'
    <3>1. PostDone => PostDone'
      BY <1>8 DEF PostDone
    <3>2. \A i \in DOMAIN down : call'[down[i]].op = call[down[i]].op
      BY <1>6, CallFacts DEF OpsKept
    <3> QED
      BY <1>2, <2>1, <2>5, <3>1, <3>2 DEF Quieted
  <2>7. Told'
    BY <1>2, <1>17, <2>1, <2>2 DEF Told
  <2>8. Delivered' <=> Delivered
    BY <1>2, <1>17, <2>2 DEF Delivered
  <2>9. /\ \A k \in DOMAIN queue :
             /\ ready'[k] = ready[kept[k]] /\ kept[k] \in DOMAIN ready
             /\ ready'[k] \in DOMAIN call /\ ~Mine(n, ready'[k])
        /\ \A k, l \in DOMAIN queue : k < l => kept[k] < kept[l]
        /\ \A i \in DOMAIN ready : ~Mine(n, ready[i]) => \E k \in DOMAIN queue : kept[k] = i
        /\ DOMAIN ready' = DOMAIN queue
    BY <1>4, <1>17 DEF Cancelled
  <2>10. \A k \in DOMAIN queue : /\ call'[ready'[k]].op = call[ready[kept[k]]].op
                                 /\ Telling(ready[k])' <=> Telling(ready[kept[k]])
    BY <1>6, <1>17, <2>9 DEF Telling, OpsKept
  <2>11. Taken'
    <3>1. CASE ~PostDone
      <4>1. NoArming /\ NoArming'
        BY <2>1, <2>5, <3>1 DEF Quieted
      <4>2. \A k \in DOMAIN queue : Telling(ready[k])' => call'[ready'[k]].op # "arm"
        BY <1>6, <2>9, <4>1 DEF Telling, NoArming
      <4>3. armed' = ctl'.armed \/ ConfigOpen'
        BY <1>10, <4>1 DEF NoArming, TypeOK
      <4> QED
        BY <1>2, <2>9, <4>1, <4>2, <4>3 DEF Taken, NoArming
    <3>2. CASE PostDone
      <4>1. \A i \in DOMAIN ready : ~Mine(n, ready[i])
        <5> TAKE i \in DOMAIN ready
        <5>1. ready[i] \in DOMAIN call /\ Open(ready[i]) /\ call[ready[i]].on \in 0..MaxLinks
          BY CallFacts DEF QueueInv, Open, Calls
        <5> QED
          BY <3>2, <5>1 DEF PostInv, PostDone, Mine, OfPost, Links
      <4>2. \A i \in DOMAIN ready : \E k \in DOMAIN queue : kept[k] = i
        BY <2>9, <4>1
      <4>3. ASSUME NEW k \in DOMAIN queue, NoneReadyBehind(k)', NEW l, l = kept[k]
            PROVE  NoneReadyBehind(l)
        <5>1. ASSUME NEW j \in DOMAIN ready, l < j PROVE ~Telling(ready[j])
          <6>1. PICK m \in DOMAIN queue : kept[m] = j
            BY <4>2
          <6>2. k \in Nat /\ m \in Nat /\ l \in Nat /\ j \in Nat
            <7>1. DOMAIN queue = 1..Len(ready') /\ Len(ready') \in Nat
              BY <1>10, <2>9, LenProperties DEF TypeOK
            <7>2. DOMAIN ready = 1..Len(ready) /\ Len(ready) \in Nat /\ l \in DOMAIN ready
              BY <2>9, <4>3, CallFacts
            <7> QED
              BY <7>1, <7>2
          <6>3. k < m
            BY <2>9, <4>3, <5>1, <6>1, <6>2
          <6>4. ~Telling(ready[m])'
            BY <2>9, <4>3, <6>3 DEF NoneReadyBehind
          <6> QED
            BY <2>10, <6>1, <6>4
        <5> QED
          BY <5>1 DEF NoneReadyBehind
      <4>4. ASSUME Delivered, NEW k \in DOMAIN queue, Telling(ready[k])', NoneReadyBehind(k)'
            PROVE  ctl.armed <=> call'[ready'[k]].op = "arm"
        <5> PICK l : l = kept[k]
          OBVIOUS
        <5>1. l \in DOMAIN ready /\ Telling(ready[l]) /\ NoneReadyBehind(l)
          BY <2>9, <2>10, <4>3, <4>4
        <5> QED
          BY <2>1, <2>10, <4>4, <5>1 DEF Taken
      <4>5. NoneReadyBehind(0)' => NoneReadyBehind(0)
        <5> SUFFICES ASSUME NoneReadyBehind(0)', NEW j \in DOMAIN ready PROVE ~Telling(ready[j])
          BY DEF NoneReadyBehind
        <5>1. PICK m \in DOMAIN queue : kept[m] = j
          BY <4>2
        <5>2. DOMAIN ready' = 1..Len(ready')
          BY <1>10, LenProperties DEF TypeOK
        <5>3. m \in DOMAIN ready' /\ 0 < m
          BY <2>9, <5>2
        <5>4. ~Telling(ready[m])'
          BY <5>3 DEF NoneReadyBehind
        <5> QED
          BY <2>10, <5>1, <5>4
      <4>6. \A i \in DOMAIN down : call'[down[i]].op = call[down[i]].op
        BY <1>6, CallFacts DEF OpsKept
      <4> QED
        BY <1>2, <1>17, <2>1, <2>8, <2>9, <4>4, <4>5, <4>6 DEF Taken
    <3> QED
      BY <3>1, <3>2
  <2> QED
    BY <2>4, <2>6, <2>7, <2>11
<1> QED
  BY <1>5, <1>10, <1>11, <1>13, <1>14, <1>15, <1>16, <1>19, <1>20 DEF IInv

----------------------------------------------------------------------------
(* The steps of the controller.                                            *)

\* What the controller says joins what is on its way to the server.
Spoken(frames) ==
    /\ up' \in [Links -> Seq(Frames)]
    /\ \A m \in Links : m # ctlConn => up'[m] = up[m]
    /\ ctlConn # 0 => Joined(up[ctlConn], frames, up'[ctlConn], Len(up[ctlConn]))

\* Tell does that.
LEMMA TellFacts ==
    ASSUME TypeOK, NEW frames \in Seq(Frames), Tell(frames)
    PROVE  Spoken(frames)
<1>1. CASE ctlConn = 0
  BY <1>1 DEF Tell, Spoken, TypeOK, Links
<1>2. CASE ctlConn # 0
  <2>1. ctlConn \in Links /\ up \in [Links -> Seq(Frames)] /\ up[ctlConn] \in Seq(Frames)
    <3>1. ctlConn \in Links /\ up \in [Links -> Seq(Frames)]
      BY <1>2 DEF TypeOK, Links
    <3> QED
      BY <3>1
  <2>2. /\ up[ctlConn] \o frames \in Seq(Frames)
        /\ Joined(up[ctlConn], frames, up[ctlConn] \o frames, Len(up[ctlConn]))
    BY <2>1, JoinFacts
  <2> PICK said : said = up[ctlConn] \o frames
    OBVIOUS
  <2>3. up' = [up EXCEPT ![ctlConn] = said]
    BY <1>2 DEF Tell
  <2>4. up'[ctlConn] = said /\ said \in Seq(Frames) /\ up' \in [Links -> Seq(Frames)]
        /\ \A m \in Links : m # ctlConn => up'[m] = up[m]
    BY <2>1, <2>2, <2>3
  <2>5. Joined(up[ctlConn], frames, up'[ctlConn], Len(up[ctlConn]))
    BY <2>2, <2>4
  <2> QED
    BY <2>4, <2>5 DEF Spoken
<1> QED
  BY <1>1, <1>2

\* A step of the controller: what it says, and the command it takes.
Acted(frames) ==
    /\ UNCHANGED <<armed, conn, cached, call, ready, reader, post, ctlConn,
                   armedBy, armedOn, lastEstop>>
    /\ ctl' \in [armed : BOOLEAN, estop : BOOLEAN, homed : BOOLEAN]
    /\ executed \subseteq executed' /\ executed' \subseteq DOMAIN call
    /\ excused \subseteq excused' /\ excused' \subseteq {"timeout", "stop", "race", "stale"}
    /\ Spoken(frames)
    /\ \/ /\ down' = down
          /\ \A k \in DOMAIN frames : ~IsAck(frames[k])
          /\ ctl'.armed => ctl.armed
       \/ /\ down # <<>> /\ down' = Tail(down)
          /\ \A k \in DOMAIN frames : IsAck(frames[k]) =>
               frames[k].id = Head(down) /\ (frames[k].ok => Head(down) \in executed')
          /\ \A k, l \in DOMAIN frames : IsAck(frames[k]) /\ IsAck(frames[l]) => k = l
          /\ ctl'.armed => ctl.armed \/ call[Head(down)].op = "arm"

\* What is left of the commands was there before.
LEMMA DownLeft ==
    ASSUME TypeOK, OrderInv, NEW frames, Acted(frames)
    PROVE  /\ down' \in Seq(DOMAIN call)
           /\ \A i \in DOMAIN down' : \E j \in DOMAIN down : i <= j /\ down'[i] = down[j]
           /\ \A i, j \in DOMAIN down' : i < j => down'[i] < down'[j]
           /\ down' # down => \A i \in DOMAIN down' : Head(down) < down'[i]
<1>1. DOMAIN down = 1..Len(down) /\ Len(down) \in Nat /\ down \in Seq(DOMAIN call)
  BY CallFacts DEF TypeOK
<1>2. CASE down' = down
  <2>1. \A i \in DOMAIN down : i <= i
    BY <1>1
  <2> QED
    BY <1>1, <1>2, <2>1 DEF OrderInv
<1>3. CASE down # <<>> /\ down' = Tail(down)
  <2>1. /\ Head(down) = down[1] /\ 1 \in DOMAIN down
        /\ down' \in Seq(DOMAIN call) /\ DOMAIN down' = 1..Len(down) - 1
        /\ \A i \in DOMAIN down' : down'[i] = down[i + 1]
    BY <1>1, <1>3, TailFacts
  <2>2. \A i \in DOMAIN down' : i + 1 \in DOMAIN down /\ i <= i + 1 /\ 1 < i + 1
    BY <1>1, <2>1
  <2>3. \A i, j \in DOMAIN down' : i < j => i + 1 < j + 1
    BY <1>1, <2>1
  <2>4. \A i \in DOMAIN down' : \E j \in DOMAIN down : i <= j /\ down'[i] = down[j]
    BY <2>1, <2>2
  <2>5. \A i, j \in DOMAIN down' : i < j => down'[i] < down'[j]
    BY <2>1, <2>2, <2>3 DEF OrderInv
  <2>6. \A i \in DOMAIN down' : Head(down) < down'[i]
    BY <2>1, <2>2 DEF OrderInv
  <2> QED
    BY <2>1, <2>4, <2>5, <2>6
<1> QED
  BY <1>2, <1>3 DEF Acted

\* The parts of the invariant about links, queues and orders: an answer is of
\* the first command on its way, so later than every answer before it.
LEMMA ActedKeeps ==
    ASSUME TypeOK, LinkInv, QueueInv, OrderInv, AckInv, PostInv, NamesInv,
           NEW frames, Acted(frames)
    PROVE  TypeOK' /\ LinkInv' /\ QueueInv' /\ OrderInv' /\ AckInv' /\ PostInv' /\ NamesInv'
<1>1. UNCHANGED <<armed, conn, cached, call, ready, reader, post, ctlConn,
                  armedBy, armedOn, lastEstop>>
  BY DEF Acted
<1>2. /\ down' \in Seq(DOMAIN call)
      /\ \A i \in DOMAIN down' : \E j \in DOMAIN down : i <= j /\ down'[i] = down[j]
      /\ \A i, j \in DOMAIN down' : i < j => down'[i] < down'[j]
      /\ down' # down => \A i \in DOMAIN down' : Head(down) < down'[i]
  BY DownLeft
<1>3. /\ up' \in [Links -> Seq(Frames)]
      /\ \A m \in Links : m # ctlConn => up'[m] = up[m]
  BY DEF Acted, Spoken
<1>4. TypeOK'
  <2>1. Frames' = Frames
    BY <1>1 DEF Frames
  <2>2. /\ ctl' \in [armed : BOOLEAN, estop : BOOLEAN, homed : BOOLEAN]
        /\ executed' \subseteq DOMAIN call' /\ excused' \subseteq {"timeout", "stop", "race", "stale"}
    BY <1>1 DEF Acted
  <2> QED
    BY <1>1, <1>2, <1>3, <2>1, <2>2 DEF TypeOK
<1>5. LinkInv'
  <2>1. ctlConn = 0 => down' = <<>> /\ ~ctl'.armed
    BY DEF Acted, LinkInv
  <2>2. \A m \in Links : reader[m] = "none" => up'[m] = up[m]
    <3>1. \A m \in Links : reader[m] = "none" => m # ctlConn
      BY BoundsAssumption DEF LinkInv, Links
    <3> QED
      BY <1>3, <3>1
  <2>3. /\ ctlConn' # 0 => conn' = ctlConn'
        /\ conn' # 0 => reader'[conn'] \in {"read", "emit"}
        /\ \A id \in DOMAIN call' : call'[id].on # 0 => reader'[call'[id].on] # "none"
    BY <1>1 DEF LinkInv
  <2>4. \A m \in Links : reader'[m] = "none" => up'[m] = <<>> /\ post'[m] = "none"
    BY <1>1, <2>2 DEF LinkInv
  <2> QED
    BY <1>1, <2>1, <2>3, <2>4 DEF LinkInv
<1>6. QueueInv' /\ PostInv' /\ NamesInv'
  BY <1>1 DEF QueueInv, PostInv, NamesInv, OfPost, Open
<1>7. OrderInv' /\ AckInv'
  <2> PICK s : s = up[ctlConn]
    OBVIOUS
  <2> PICK q : q = up'[ctlConn]
    OBVIOUS
  <2> PICK n : n = Len(up[ctlConn])
    OBVIOUS
  <2>1. ctlConn # 0 =>
          /\ DOMAIN s = 1..n /\ n \in Nat /\ DOMAIN frames = 1..Len(frames) /\ Len(frames) \in Nat
          /\ \A i \in DOMAIN s : i \in DOMAIN q /\ q[i] = s[i] /\ i \in Nat \ {0} /\ i <= n
          /\ \A k \in DOMAIN frames : n + k \in DOMAIN q /\ q[n + k] = frames[k] /\ k \in Nat \ {0}
          /\ \A i \in DOMAIN q : i \in DOMAIN s \/ \E k \in DOMAIN frames : i = n + k
    BY DEF Acted, Spoken, Joined
  <2>2. \A i \in DOMAIN down : down[i] \in Nat
    BY CallFacts
  <2>3. \A m \in Links : \A i \in DOMAIN up[m] : IsAck(up[m][i]) => up[m][i].id \in Nat
    BY FrameFacts, CallFacts
  <2>4. ctlConn # 0 => ctlConn \in Links /\ conn = ctlConn
    BY DEF TypeOK, Links, LinkInv
  \* A new answer is the head command's.
  <2>5. \A k \in DOMAIN frames : IsAck(frames[k]) =>
          /\ down # <<>> /\ down' # down /\ frames[k].id = Head(down)
          /\ frames[k].ok => Head(down) \in executed'
          /\ \A l \in DOMAIN frames : IsAck(frames[l]) => l = k
    <3>1. down # <<>> => Tail(down) # down
      <4>1. down # <<>> => Len(Tail(down)) # Len(down)
        BY CallFacts, TailFacts DEF TypeOK
      <4> QED
        BY <4>1
    <3> QED
      BY <3>1 DEF Acted
  <2>6. down # <<>> => Head(down) = down[1] /\ 1 \in DOMAIN down
    BY TailFacts DEF TypeOK
  <2>7. ASSUME ctlConn # 0, NEW i \in DOMAIN q, IsAck(q[i]), NEW j \in DOMAIN down'
        PROVE  q[i].id < down'[j]
    <3>1. CASE i \in DOMAIN s
      <4>1. PICK l \in DOMAIN down : down'[j] = down[l]
        BY <1>2
      <4> QED
        BY <2>1, <2>7, <3>1, <4>1 DEF OrderInv
    <3>2. CASE i \notin DOMAIN s
      <4>1. PICK k \in DOMAIN frames : i = n + k
        BY <2>1, <2>7, <3>2
      <4> QED
        BY <1>2, <2>1, <2>5, <2>7, <4>1
    <3> QED
      BY <3>1, <3>2
  <2>8. ASSUME ctlConn # 0, NEW i \in DOMAIN q, NEW j \in DOMAIN q, i < j, IsAck(q[i]), IsAck(q[j])
        PROVE  q[i].id < q[j].id
    <3>1. CASE j \in DOMAIN s
      <4>1. i \in DOMAIN s
        BY <2>1, <2>8, <3>1
      <4> QED
        BY <2>1, <2>8, <3>1, <4>1 DEF OrderInv
    <3>2. CASE j \notin DOMAIN s
      <4>1. PICK k \in DOMAIN frames : j = n + k
        BY <2>1, <2>8, <3>2
      <4>2. q[j].id = down[1] /\ 1 \in DOMAIN down
        BY <2>1, <2>5, <2>6, <2>8, <4>1
      <4>3. i \in DOMAIN s
        <5>1. ASSUME NEW l \in DOMAIN frames, i = n + l PROVE FALSE
          <6>1. l = k
            BY <2>1, <2>5, <2>8, <4>1, <5>1
          <6> QED
            BY <2>1, <2>8, <4>1, <5>1, <6>1
        <5> QED
          BY <2>1, <2>8, <5>1
      <4> QED
        BY <2>1, <2>8, <4>2, <4>3 DEF OrderInv
    <3> QED
      BY <3>1, <3>2
  <2>9. ASSUME NEW m \in Links, m # conn, NEW i \in DOMAIN up'[m], IsAck(up'[m][i])
        PROVE  call[up'[m][i].id].pc # "waiting"
    <3>1. m # ctlConn
      BY <2>4, <2>9 DEF Links
    <3>2. up'[m] = up[m]
      BY <1>3, <3>1
    <3> QED
      BY <2>9, <3>2 DEF OrderInv
  <2>10. OrderInv'
    BY <1>1, <1>2, <2>7, <2>8, <2>9 DEF OrderInv, IsAck
  <2>11. executed \subseteq executed'
    BY DEF Acted
  <2>12. ASSUME NEW m \in Links, NEW i \in DOMAIN up'[m], IsAck(up'[m][i]), up'[m][i].ok
         PROVE  up'[m][i].id \in executed'
    <3>1. CASE m # ctlConn
      BY <1>3, <2>11, <2>12, <3>1 DEF AckInv
    <3>2. CASE m = ctlConn
      <4>1. ctlConn # 0 /\ i \in DOMAIN q /\ IsAck(q[i]) /\ q[i].ok
        BY <2>12, <3>2 DEF Links
      <4>2. CASE i \in DOMAIN s
        BY <2>1, <2>11, <2>12, <3>2, <4>1, <4>2 DEF AckInv
      <4>3. CASE i \notin DOMAIN s
        BY <2>1, <2>5, <3>2, <4>1, <4>3
      <4> QED
        BY <4>2, <4>3
    <3> QED
      BY <3>1, <3>2
  <2>13. \A id \in DOMAIN call : call[id].pc \in {"ok", "returned"} => id \in executed'
    BY <2>11 DEF AckInv
  <2>14. AckInv'
    BY <1>1, <2>12, <2>13 DEF AckInv, IsAck
  <2> QED
    BY <2>10, <2>14
<1> QED
  BY <1>4, <1>5, <1>6, <1>7

\* What a step of the controller adds to its connection, and what is there.
Added(frames, s, q, n) ==
    /\ s = up[ctlConn] /\ q = up'[ctlConn] /\ n \in Nat /\ ctlConn \in Links
    /\ \A i \in DOMAIN s : i \in DOMAIN q /\ q[i] = s[i] /\ i \in Nat \ {0} /\ i <= n
    /\ \A k \in DOMAIN frames : n + k \in DOMAIN q /\ q[n + k] = frames[k] /\ k \in Nat \ {0}
    /\ \A i \in DOMAIN q : i \in DOMAIN s \/ \E k \in DOMAIN frames : i = n + k
    \* The calls are the same, so a frame means what it did.
    /\ \A f : (OkArm(f)' <=> OkArm(f)) /\ (Effective(f)' <=> Effective(f))

\* Spoken, for the connection the controller is on.
LEMMA AddedFacts ==
    ASSUME TypeOK, ctlConn # 0, NEW frames, Acted(frames)
    PROVE  \E n : Added(frames, up[ctlConn], up'[ctlConn], n)
<1> PICK n : n = Len(up[ctlConn])
  OBVIOUS
<1>1. Joined(up[ctlConn], frames, up'[ctlConn], n) /\ ctlConn \in Links
  BY DEF Acted, Spoken, TypeOK, Links
<1>2. \A f : (OkArm(f)' <=> OkArm(f)) /\ (Effective(f)' <=> Effective(f))
  BY DEF Acted, OkArm, Effective, IsAck
<1>3. Added(frames, up[ctlConn], up'[ctlConn], n)
  BY <1>1, <1>2 DEF Joined, Added
<1> QED
  BY <1>3

\* Either the step's own stop event undoes every arming, or the step leaves
\* what is undone so.
Undoing(frames) ==
    \/ /\ \E k \in DOMAIN frames : frames[k].kind = "estop"
       /\ \A k \in DOMAIN frames : ~OkArm(frames[k])
       /\ InDown(lastEstop) => InDown(lastEstop)' \/ (Head(down) = lastEstop /\ down' # down)
    \/ /\ InDown(lastEstop) => InDown(lastEstop)'
       /\ SprayEnabled /\ ctl'.estop => ctl.estop /\ \A k \in DOMAIN frames : ~OkArm(frames[k])

\* Such a step preserves what says that armings are undone.
LEMMA ActedStops ==
    ASSUME TypeOK, OrderInv, EstopInv, HealthInv, NEW frames, Acted(frames), Undoing(frames)
    PROVE  EstopInv' /\ HealthInv'
<1> SUFFICES ASSUME ctlConn # 0
             PROVE  EstopInv' /\ HealthInv'
  BY DEF EstopInv, HealthInv, Acted
<1> PICK s : s = up[ctlConn]
  OBVIOUS
<1> PICK q : q = up'[ctlConn]
  OBVIOUS
<1> PICK n : Added(frames, s, q, n)
  BY AddedFacts
<1>1. UNCHANGED <<armed, call, ready, reader, ctlConn, armedBy, lastEstop>>
  BY DEF Acted
<1>2. /\ s = up[ctlConn] /\ q = up'[ctlConn] /\ n \in Nat /\ ctlConn \in Links
      /\ \A i \in DOMAIN s : i \in DOMAIN q /\ q[i] = s[i] /\ i \in Nat \ {0} /\ i <= n
      /\ \A k \in DOMAIN frames : n + k \in DOMAIN q /\ q[n + k] = frames[k] /\ k \in Nat \ {0}
      /\ \A i \in DOMAIN q : i \in DOMAIN s \/ \E k \in DOMAIN frames : i = n + k
  BY DEF Added
<1>3. \A f : OkArm(f)' <=> OkArm(f)
  BY DEF Added
<1>4. \A k : StopBehind(k) => StopBehind(k)'
  BY <1>1, <1>2 DEF StopBehind
<1>5. StopToCome => StopToCome'
  BY <1>1, <1>4 DEF StopToCome
<1>6. ConfigOpen' <=> ConfigOpen
  BY <1>1 DEF ConfigOpen, Open
<1>7. ASSUME NEW ids, Undone(ids),
             \A k \in DOMAIN frames : OkArm(frames[k]) => frames[k].id \notin ids
      PROVE  Undone(ids)'
  <2>1. ASSUME NEW i \in DOMAIN q, OkArm(q[i]), q[i].id \in ids PROVE StopBehind(i)'
    <3>1. i \in DOMAIN s
      BY <1>2, <1>7, <2>1
    <3> QED
      BY <1>2, <1>4, <1>7, <2>1, <3>1 DEF Undone
  <2> QED
    BY <1>1, <1>2, <1>3, <1>5, <1>6, <1>7, <2>1 DEF Undone
<1>8. ASSUME NEW k \in DOMAIN frames, frames[k].kind = "estop",
             \A l \in DOMAIN frames : ~OkArm(frames[l]), NEW ids
      PROVE  Undone(ids)'
  <2>1. n + k \in DOMAIN q /\ q[n + k].kind = "estop" /\ 0 < n + k
        /\ \A i \in DOMAIN s : i < n + k
    BY <1>2, <1>8
  <2>2. StopToCome' /\ \A i \in DOMAIN s : StopBehind(i)'
    BY <1>1, <1>2, <2>1 DEF StopToCome, StopBehind
  <2>3. ASSUME NEW i \in DOMAIN q, OkArm(q[i]) PROVE i \in DOMAIN s
    BY <1>2, <1>8, <2>3
  <2> QED
    BY <1>1, <1>2, <1>3, <2>2, <2>3 DEF Undone
<1>9. /\ \A i \in DOMAIN down' : \E j \in DOMAIN down : i <= j /\ down'[i] = down[j]
      /\ down' # down => \A i \in DOMAIN down' : Head(down) < down'[i]
  BY DownLeft
<1>10. down' = down \/ (down # <<>> /\ 1 \in DOMAIN down /\ Head(down) = down[1])
  BY TailFacts DEF Acted, TypeOK
<1>11. lastEstop \in Nat /\ \A i \in DOMAIN down : down[i] \in Nat
  BY CallFacts DEF TypeOK
<1>12. CASE /\ \E k \in DOMAIN frames : frames[k].kind = "estop"
            /\ \A k \in DOMAIN frames : ~OkArm(frames[k])
            /\ InDown(lastEstop) => InDown(lastEstop)' \/ (Head(down) = lastEstop /\ down' # down)
  <2>1. HealthInv'
    BY <1>8, <1>12 DEF HealthInv
  <2>2. Undone(0..lastEstop - 1)'
    <3> PICK ids : ids = 0..lastEstop - 1
      OBVIOUS
    <3>1. Undone(ids)'
      BY <1>8, <1>12
    <3> QED
      BY <1>1, <3>1 DEF Undone
  <2>3. ASSUME NEW i \in DOMAIN down', call'[down'[i]].op = "arm", down'[i] < lastEstop
        PROVE  InDown(lastEstop)'
    <3>1. InDown(lastEstop)
      BY <1>1, <1>9, <2>3 DEF EstopInv
    <3>2. Head(down) = lastEstop => down' = down
      BY <1>9, <1>10, <1>11, <2>3
    <3> QED
      BY <1>12, <3>1, <3>2
  <2>4. EstopInv'
    BY <1>1, <2>2, <2>3 DEF EstopInv
  <2> QED
    BY <2>1, <2>4
<1>13. CASE /\ InDown(lastEstop) => InDown(lastEstop)'
            /\ SprayEnabled /\ ctl'.estop => ctl.estop /\ \A k \in DOMAIN frames : ~OkArm(frames[k])
  <2>1. HealthInv'
    <3> SUFFICES ASSUME SprayEnabled, ctl'.estop PROVE Undone(Nat)'
      BY DEF HealthInv
    <3> PICK ids : ids = Nat
      OBVIOUS
    <3>1. Undone(ids)
      BY <1>13 DEF HealthInv
    <3>2. Undone(ids)'
      BY <1>7, <1>13, <3>1
    <3> QED
      BY <3>2 DEF Undone
  <2>2. ASSUME NEW i \in DOMAIN down', call'[down'[i]].op = "arm", down'[i] < lastEstop
        PROVE  InDown(lastEstop)'
    BY <1>1, <1>9, <1>13, <2>2 DEF EstopInv
  <2>3. InDown(lastEstop)' \/ Undone(0..lastEstop - 1)'
    <3> SUFFICES ASSUME ~InDown(lastEstop) PROVE Undone(0..lastEstop - 1)'
      BY <1>13
    <3> PICK ids : ids = 0..lastEstop - 1
      OBVIOUS
    <3>1. Undone(ids)
      BY DEF EstopInv
    <3>2. ASSUME NEW k \in DOMAIN frames, OkArm(frames[k]) PROVE frames[k].id \notin ids
      <4>1. frames[k].id = down[1] /\ 1 \in DOMAIN down /\ call[down[1]].op = "arm"
        <5>1. down # <<>> /\ frames[k].id = Head(down) /\ call[Head(down)].op = "arm"
          BY <3>2 DEF Acted, OkArm
        <5> QED
          BY <5>1, TailFacts DEF TypeOK
      <4>2. ~(down[1] < lastEstop)
        BY <4>1 DEF EstopInv
      <4> QED
        BY <1>11, <4>1, <4>2
    <3>3. Undone(ids)'
      BY <1>7, <3>1, <3>2
    <3> QED
      BY <1>1, <3>3 DEF Undone
  <2>4. EstopInv'
    BY <1>1, <2>2, <2>3 DEF EstopInv
  <2> QED
    BY <2>1, <2>4
<1> QED
  BY <1>12, <1>13 DEF Undoing

\* Either the step says what the controller's armed now is, or that is what
\* it was.
Agreeing(frames) ==
    SprayEnabled /\ excused' = {} =>
      \/ /\ \A k \in DOMAIN frames : ~Effective(frames[k])
         /\ ctl'.armed = ctl.armed
         /\ (\E i \in DOMAIN down : call[down[i]].op = "estop") =>
              \E i \in DOMAIN down' : call[down'[i]].op = "estop"
      \/ /\ \E k \in DOMAIN frames : Effective(frames[k])
         /\ \A k \in DOMAIN frames : Effective(frames[k]) => (ctl'.armed <=> OkArm(frames[k]))

\* Such a step preserves what says that the two sides agree.
LEMMA ActedAgrees ==
    ASSUME TypeOK, OrderInv, AgreeInv, NEW frames, Acted(frames), Agreeing(frames)
    PROVE  AgreeInv'
<1> SUFFICES ASSUME ctlConn # 0, SprayEnabled, excused' = {}
             PROVE  (Awaited /\ Quieted /\ Told /\ Taken)'
  BY DEF AgreeInv, Acted
<1>1. Awaited /\ Quieted /\ Told /\ Taken
  BY DEF AgreeInv, Acted
<1> PICK s : s = up[ctlConn]
  OBVIOUS
<1> PICK q : q = up'[ctlConn]
  OBVIOUS
<1> PICK n : Added(frames, s, q, n)
  BY AddedFacts
<1>2. UNCHANGED <<armed, call, ready, reader, post, ctlConn>>
  BY DEF Acted
<1>3. /\ s = up[ctlConn] /\ q = up'[ctlConn] /\ n \in Nat /\ ctlConn \in Links
      /\ \A i \in DOMAIN s : i \in DOMAIN q /\ q[i] = s[i] /\ i \in Nat \ {0} /\ i <= n
      /\ \A k \in DOMAIN frames : n + k \in DOMAIN q /\ q[n + k] = frames[k] /\ k \in Nat \ {0}
      /\ \A i \in DOMAIN q : i \in DOMAIN s \/ \E k \in DOMAIN frames : i = n + k
  BY DEF Added
<1>4. \A f : (OkArm(f)' <=> OkArm(f)) /\ (Effective(f)' <=> Effective(f))
  BY DEF Added
<1>5. \A i \in DOMAIN down' : \E j \in DOMAIN down : i <= j /\ down'[i] = down[j]
  BY DownLeft
<1>6. down # <<>> => Head(down) = down[1] /\ 1 \in DOMAIN down
  BY TailFacts DEF TypeOK
<1>7. ConfigOpen' <=> ConfigOpen
  BY <1>2 DEF ConfigOpen, Open
<1>8. ctl.armed \in BOOLEAN /\ ctl'.armed \in BOOLEAN
  BY DEF TypeOK, Acted
<1>9. Awaited'
  <2>1. \A i \in DOMAIN down' : call[down'[i]].op \in {"arm", "disarm"} => call[down'[i]].pc = "waiting"
    BY <1>1, <1>5 DEF Awaited
  <2>2. ASSUME NEW i \in DOMAIN q, IsAck(q[i]), call[q[i].id].op \in {"arm", "disarm"}
        PROVE  call[q[i].id].pc = "waiting"
    <3>1. CASE i \in DOMAIN s
      BY <1>1, <1>3, <2>2, <3>1 DEF Awaited
    <3>2. CASE i \notin DOMAIN s
      <4>1. PICK k \in DOMAIN frames : i = n + k
        BY <1>3, <2>2, <3>2
      <4>2. down # <<>> /\ q[i].id = Head(down)
        BY <1>3, <2>2, <4>1 DEF Acted
      <4> QED
        BY <1>1, <1>6, <2>2, <4>2 DEF Awaited
    <3> QED
      BY <3>1, <3>2
  <2> QED
    BY <1>2, <1>3, <2>1, <2>2 DEF Awaited, IsAck
<1>10. Quieted'
  <2>1. NoArming => ~ctl'.armed
    <3> SUFFICES ASSUME NoArming, ctl'.armed PROVE FALSE
      OBVIOUS
    <3>1. down # <<>> /\ call[Head(down)].op = "arm"
      BY DEF Acted, NoArming
    <3>2. call[down[1]].op = "arm" /\ call[down[1]].pc = "waiting" /\ down[1] \in DOMAIN call
      BY <1>1, <1>6, <3>1, CallFacts DEF Awaited
    <3> QED
      BY <3>2 DEF NoArming
  <2>2. NoArming => NoArming'
    BY <1>2, <1>7, <2>1 DEF NoArming
  <2>3. PostDone' <=> PostDone
    BY <1>2 DEF PostDone
  <2>4. ASSUME NEW i \in DOMAIN down', call[down'[i]].op = "quiet"
        PROVE  ~ctl'.armed /\ \A j \in DOMAIN down' : j < i => call[down'[j]].op # "arm"
    <3>1. CASE down' = down
      BY <1>1, <2>4, <3>1 DEF Quieted, Acted
    <3>2. CASE down # <<>> /\ down' = Tail(down) /\ (ctl'.armed => ctl.armed \/ call[Head(down)].op = "arm")
      <4>1. /\ DOMAIN down = 1..Len(down) /\ Len(down) \in Nat /\ DOMAIN down' = 1..Len(down) - 1
            /\ \A l \in DOMAIN down' : down'[l] = down[l + 1]
        BY <3>2, TailFacts DEF TypeOK
      <4>2. \A l \in DOMAIN down' : l + 1 \in DOMAIN down /\ 1 < l + 1
        BY <4>1
      <4>3. \A l \in DOMAIN down' : l < i => l + 1 < i + 1
        BY <4>1
      <4> PICK k : k = i + 1
        OBVIOUS
      <4>4. k \in DOMAIN down /\ call[down[k]].op = "quiet" /\ 1 < k
        BY <2>4, <4>1, <4>2
      <4>5. ~ctl.armed /\ \A l \in DOMAIN down : l < k => call[down[l]].op # "arm"
        BY <1>1, <4>4 DEF Quieted
      <4>6. ~ctl'.armed
        BY <1>6, <3>2, <4>4, <4>5
      <4> QED
        BY <4>1, <4>2, <4>3, <4>5, <4>6
    <3> QED
      BY <3>1, <3>2 DEF Acted
  <2> QED
    BY <1>1, <1>2, <2>2, <2>3, <2>4 DEF Quieted
<1>11. \A k \in Nat : NoneBehind(k)' => NoneBehind(k)
  BY <1>2, <1>3, <1>4 DEF NoneBehind
<1>12. NoneBehind(0)' => NoneBehind(0) /\ \A k \in DOMAIN frames : ~Effective(frames[k])
  <2>1. \A k \in DOMAIN frames : 0 < n + k
    BY <1>3
  <2>2. NoneBehind(0)' => \A k \in DOMAIN frames : ~Effective(frames[k])
    BY <1>2, <1>3, <1>4, <2>1 DEF NoneBehind
  <2> QED
    BY <1>11, <2>2
<1>13. CASE /\ \A k \in DOMAIN frames : ~Effective(frames[k])
            /\ ctl'.armed = ctl.armed
            /\ (\E i \in DOMAIN down : call[down[i]].op = "estop") =>
                 \E i \in DOMAIN down' : call[down'[i]].op = "estop"
  <2>1. Told'
    <3>1. ASSUME NEW i \in DOMAIN q, Effective(q[i]), NoneBehind(i)'
          PROVE  ctl.armed <=> OkArm(q[i])
      <4>1. i \in DOMAIN s
        BY <1>3, <1>13, <3>1
      <4> QED
        BY <1>1, <1>3, <1>11, <3>1, <4>1 DEF Told
    <3>2. NoneBehind(0)' /\ reader[ctlConn] = "emit" => ~ctl.armed
      BY <1>1, <1>12 DEF Told
    <3> QED
      BY <1>2, <1>3, <1>4, <1>13, <3>1, <3>2 DEF Told
  <2>2. Taken'
    <3>1. Delivered' => Delivered
      BY <1>2, <1>12 DEF Delivered
    <3>2. /\ \A i \in DOMAIN ready : Telling(ready[i])' <=> Telling(ready[i])
          /\ \A k : NoneReadyBehind(k)' <=> NoneReadyBehind(k)
      BY <1>2 DEF Telling, NoneReadyBehind
    <3> QED
      BY <1>1, <1>2, <1>7, <1>13, <3>1, <3>2 DEF Taken
  <2> QED
    BY <1>9, <1>10, <2>1, <2>2
<1>14. CASE /\ \E k \in DOMAIN frames : Effective(frames[k])
            /\ \A k \in DOMAIN frames : Effective(frames[k]) => (ctl'.armed <=> OkArm(frames[k]))
  <2>1. PICK k \in DOMAIN frames : Effective(frames[k])
    BY <1>14
  <2>2. n + k \in DOMAIN q /\ Effective(q[n + k]) /\ 0 < n + k /\ \A i \in DOMAIN s : i < n + k
    BY <1>3, <2>1
  <2>3. ~NoneBehind(0)' /\ \A i \in DOMAIN s : ~NoneBehind(i)'
    BY <1>2, <1>3, <1>4, <2>2 DEF NoneBehind
  <2>4. ASSUME NEW i \in DOMAIN q, Effective(q[i]), NoneBehind(i)'
        PROVE  ctl'.armed <=> OkArm(q[i])
    <3>1. PICK l \in DOMAIN frames : i = n + l
      BY <1>3, <2>3, <2>4
    <3> QED
      BY <1>3, <1>14, <2>4, <3>1
  <2>5. Told'
    BY <1>2, <1>3, <1>4, <2>3, <2>4 DEF Told
  <2>6. Taken'
    BY <2>3 DEF Taken, Delivered
  <2> QED
    BY <1>9, <1>10, <2>5, <2>6
<1> QED
  BY <1>13, <1>14 DEF Agreeing

\* A step of the controller that says what it does preserves the invariant.
LEMMA ActedInv ==
    ASSUME IInv, NEW frames, Acted(frames), Undoing(frames), Agreeing(frames)
    PROVE  IInv'
<1>1. TypeOK /\ LinkInv /\ QueueInv /\ OrderInv /\ AckInv /\ PostInv /\ NamesInv
      /\ EstopInv /\ HealthInv /\ AgreeInv
  BY DEF IInv
<1>2. TypeOK' /\ LinkInv' /\ QueueInv' /\ OrderInv' /\ AckInv' /\ PostInv' /\ NamesInv'
  BY <1>1, ActedKeeps
<1>3. EstopInv' /\ HealthInv'
  BY <1>1, ActedStops
<1>4. AgreeInv'
  BY <1>1, ActedAgrees
<1> QED
  BY <1>2, <1>3, <1>4 DEF IInv

\* Sequences of one and of two frames.
LEMMA OneFrame ==
    ASSUME NEW f \in Frames
    PROVE  <<f>> \in Seq(Frames) /\ DOMAIN <<f>> = {1} /\ <<f>>[1] = f
OBVIOUS

\* Two of them.
LEMMA TwoFrames ==
    ASSUME NEW f \in Frames, NEW g \in Frames
    PROVE  <<f, g>> \in Seq(Frames) /\ DOMAIN <<f, g>> = {1, 2} /\ <<f, g>>[1] = f /\ <<f, g>>[2] = g
OBVIOUS

\* The emergency stop input undoes every arming itself.
LEMMA PressEstopInv ==
    ASSUME IInv, PressEstop
    PROVE  IInv'
<1>1. TypeOK /\ Estop \in Frames
  BY DEF IInv, Frames, Estop
<1> PICK frames : frames = <<Estop>>
  OBVIOUS
<1>2. /\ frames \in Seq(Frames) /\ DOMAIN frames = {1} /\ frames[1].kind = "estop"
  BY <1>1, OneFrame DEF Estop
<1>3. /\ ctl' = [armed |-> FALSE, estop |-> TRUE, homed |-> FALSE] /\ Tell(frames)
      /\ UNCHANGED <<armed, conn, cached, call, ready, reader, post, ctlConn, armedBy, armedOn,
                     lastEstop, down, executed, excused>>
  BY DEF PressEstop, server, history
<1>4. Spoken(frames)
  BY <1>1, <1>2, <1>3, TellFacts
<1>5. Acted(frames)
  BY <1>1, <1>2, <1>3, <1>4 DEF Acted, TypeOK, IsAck
<1>6. Undoing(frames)
  BY <1>2, <1>3 DEF Undoing, OkArm, IsAck, InDown
<1>7. Agreeing(frames)
  BY <1>2, <1>3 DEF Agreeing, Effective, OkArm, IsAck
<1> QED
  BY <1>5, <1>6, <1>7, ActedInv

\* A status changes nothing that the invariant is about.
LEMMA SendStatusInv ==
    ASSUME IInv, SendStatus
    PROVE  IInv'
<1> PICK frames : frames = <<[kind |-> "status", state |-> [homed |-> ctl.homed, estop |-> ctl.estop]]>>
  OBVIOUS
<1>1. TypeOK
  BY DEF IInv
<1>2. /\ frames \in Seq(Frames) /\ DOMAIN frames = {1} /\ frames[1].kind = "status"
  <2>1. [kind |-> "status", state |-> [homed |-> ctl.homed, estop |-> ctl.estop]] \in Frames
    BY <1>1 DEF TypeOK, Frames, State
  <2> QED
    BY <2>1, OneFrame
<1>3. /\ Tell(frames)
      /\ UNCHANGED <<armed, conn, cached, call, ready, reader, post, ctl, ctlConn, armedBy, armedOn,
                     lastEstop, down, executed, excused>>
  BY DEF SendStatus, server, device, history
<1>4. Spoken(frames)
  BY <1>1, <1>2, <1>3, TellFacts
<1>5. Acted(frames)
  BY <1>1, <1>2, <1>3, <1>4 DEF Acted, TypeOK, IsAck
<1>6. Undoing(frames)
  BY <1>2, <1>3 DEF Undoing, OkArm, IsAck, InDown
<1>7. Agreeing(frames)
  BY <1>2, <1>3 DEF Agreeing, Effective, OkArm, IsAck
<1> QED
  BY <1>5, <1>6, <1>7, ActedInv

\* Neither does homing.
LEMMA HomeInv ==
    ASSUME IInv, Home
    PROVE  IInv'
<1>1. TypeOK
  BY DEF IInv
<1>2. /\ ctl' = [ctl EXCEPT !.homed = TRUE]
      /\ UNCHANGED <<armed, conn, cached, call, ready, reader, post, ctlConn, armedBy, armedOn,
                     lastEstop, down, up, executed, excused>>
  BY DEF Home, server, history
<1>3. ctl'.armed = ctl.armed /\ ctl'.estop = ctl.estop
      /\ ctl' \in [armed : BOOLEAN, estop : BOOLEAN, homed : BOOLEAN]
  BY <1>1, <1>2 DEF TypeOK
<1> PICK frames : frames = <<>>
  OBVIOUS
<1>4. DOMAIN frames = {} /\ DOMAIN frames = 1..Len(frames) /\ Len(frames) \in Nat
  OBVIOUS
<1>5. Spoken(frames)
  <2>1. \A m \in Links : DOMAIN up[m] = 1..Len(up[m]) /\ Len(up[m]) \in Nat
    BY <1>1, FrameFacts
  <2>2. ASSUME ctlConn # 0 PROVE Joined(up[ctlConn], frames, up[ctlConn], Len(up[ctlConn]))
    <3>1. ctlConn \in Links
      BY <1>1, <2>2 DEF TypeOK, Links
    <3> PICK s : s = up[ctlConn]
      OBVIOUS
    <3> PICK n : n = Len(s)
      OBVIOUS
    <3>2. DOMAIN s = 1..n /\ n \in Nat
      BY <2>1, <3>1
    <3>3. \A i \in 1..n : i \in Nat \ {0} /\ i <= n
      BY <3>2
    <3>4. Joined(s, frames, s, n)
      BY <1>4, <3>2, <3>3 DEF Joined
    <3> QED
      BY <3>4
  <2> QED
    BY <1>1, <1>2, <2>2 DEF Spoken, TypeOK
<1>6. Acted(frames)
  BY <1>1, <1>2, <1>3, <1>4, <1>5 DEF Acted, TypeOK
<1>7. Undoing(frames)
  BY <1>2, <1>3, <1>4 DEF Undoing, InDown
<1>8. Agreeing(frames)
  BY <1>2, <1>3, <1>4 DEF Agreeing
<1> QED
  BY <1>6, <1>7, <1>8, ActedInv

\* A command is carried out.  A refused arming says nothing of armed; the
\* others say what armed now is, but for the quieting disarm, before which
\* nothing is armed, and for a plain stop, which excuses the link.
LEMMA HandleInv ==
    ASSUME IInv, Handle
    PROVE  IInv'
<1>1. TypeOK /\ OrderInv /\ NamesInv /\ EstopInv /\ AgreeInv /\ LinkInv
  BY DEF IInv
<1> PICK id : id = Head(down)
  OBVIOUS
<1> PICK op : op = call[id].op
  OBVIOUS
<1>2. /\ down # <<>> /\ down' = Tail(down)
      /\ UNCHANGED <<armed, conn, cached, call, ready, reader, post, ctlConn, armedBy, armedOn, lastEstop>>
  BY DEF Handle, server
<1>3. /\ down \in Seq(DOMAIN call) /\ DOMAIN down = 1..Len(down) /\ Len(down) \in Nat \ {0}
      /\ id = down[1] /\ 1 \in DOMAIN down /\ id \in DOMAIN call /\ id \in Nat \ {0}
      /\ DOMAIN down' = 1..Len(down) - 1 /\ \A i \in DOMAIN down' : down'[i] = down[i + 1]
  BY <1>1, <1>2, TailFacts, CallFacts DEF TypeOK
<1>4. ctlConn # 0
  BY <1>1, <1>2 DEF LinkInv
<1>5. Ack(id, TRUE) \in Frames /\ Ack(id, FALSE) \in Frames /\ Estop \in Frames
  BY <1>3 DEF Frames, Ack, Estop
<1>6. \A ok \in BOOLEAN : /\ Ack(id, ok).kind = "ack" /\ Ack(id, ok).kind # "estop"
                         /\ Ack(id, ok).id = id /\ Ack(id, ok).ok = ok
  BY DEF Ack
<1>7. ~IsAck(Estop) /\ Estop.kind = "estop" /\ Effective(Estop) /\ ~OkArm(Estop)
  BY DEF Estop, IsAck, Effective, OkArm
\* A command that is not the first one stays.
<1>8. \A i \in DOMAIN down : i # 1 => \E j \in DOMAIN down' : down'[j] = down[i]
  <2> TAKE i \in DOMAIN down
  <2> HAVE i # 1
  <2>1. i - 1 \in DOMAIN down' /\ (i - 1) + 1 = i
    BY <1>3
  <2> QED
    BY <1>3, <2>1
<1>9. lastEstop # id /\ InDown(lastEstop) => InDown(lastEstop)'
  <2> SUFFICES ASSUME lastEstop # id, InDown(lastEstop) PROVE InDown(lastEstop)'
    OBVIOUS
  <2>1. PICK i \in DOMAIN down : down[i] = lastEstop
    BY DEF InDown
  <2> QED
    BY <1>2, <1>3, <1>8, <2>1 DEF InDown
<1>10. op # "estop" => lastEstop # id
  BY <1>1, <1>3 DEF NamesInv
<1>11. op # "estop" /\ (\E i \in DOMAIN down : call[down[i]].op = "estop") =>
         \E i \in DOMAIN down' : call[down'[i]].op = "estop"
  <2> SUFFICES ASSUME op # "estop", NEW i \in DOMAIN down, call[down[i]].op = "estop"
               PROVE  \E j \in DOMAIN down' : call[down'[j]].op = "estop"
    OBVIOUS
  <2>1. i # 1
    BY <1>3
  <2> QED
    BY <1>8, <2>1
<1>12. ctl \in [armed : BOOLEAN, estop : BOOLEAN, homed : BOOLEAN] /\ SprayEnabled \in BOOLEAN
       /\ executed \subseteq DOMAIN call /\ excused \subseteq {"timeout", "stop", "race", "stale"}
  BY <1>1, SettingsAssumption DEF TypeOK
<1>13. CASE op = "arm" /\ ArmRefused /\ Tell(<<Ack(id, FALSE)>>) /\ UNCHANGED <<ctl, executed, excused>>
  <2> PICK frames : frames = <<Ack(id, FALSE)>>
    OBVIOUS
  <2>1. frames \in Seq(Frames) /\ DOMAIN frames = {1} /\ frames[1] = Ack(id, FALSE)
    BY <1>5, OneFrame
  <2>2. Spoken(frames)
    BY <1>1, <1>13, <2>1, TellFacts
  <2>3. \A k \in DOMAIN frames :
         frames[k].kind = "ack" /\ frames[k].kind # "estop" /\ frames[k].id = id /\ ~frames[k].ok
    BY <1>6, <2>1
  <2>4. \A k, l \in DOMAIN frames : k = l
    BY <2>1
  <2>5. Acted(frames)
    BY <1>2, <1>12, <1>13, <2>3, <2>4, <2>2 DEF Acted
  <2>6. \A k \in DOMAIN frames : ~OkArm(frames[k]) /\ ~Effective(frames[k])
    BY <2>3 DEF OkArm, Effective
  <2>7. Undoing(frames)
    BY <1>9, <1>10, <1>13, <2>6 DEF Undoing
  <2>8. Agreeing(frames)
    BY <1>11, <1>13, <2>6 DEF Agreeing
  <2> QED
    BY <2>5, <2>7, <2>8, ActedInv
\* The acknowledgement of what was carried out.
<1>14. CASE /\ op \in {"arm", "disarm", "quiet", "stop", "config"} /\ Tell(<<Ack(id, TRUE)>>)
            /\ executed' = executed \cup {id}
            /\ \/ op = "arm" /\ ~ArmRefused /\ ctl' = [ctl EXCEPT !.armed = SprayEnabled] /\ UNCHANGED excused
               \/ op \in {"disarm", "quiet"} /\ ctl' = [ctl EXCEPT !.armed = FALSE] /\ UNCHANGED excused
               \/ /\ op = "stop" /\ ctl' = [ctl EXCEPT !.armed = FALSE, !.estop = FALSE]
                  /\ excused' = excused \cup {"stop"}
               \/ op = "config" /\ ctl' = ctl /\ UNCHANGED excused
  <2> PICK frames : frames = <<Ack(id, TRUE)>>
    OBVIOUS
  <2>1. frames \in Seq(Frames) /\ DOMAIN frames = {1} /\ frames[1] = Ack(id, TRUE)
    BY <1>5, OneFrame
  <2>2. Spoken(frames)
    BY <1>1, <1>14, <2>1, TellFacts
  <2>3. ctl' \in [armed : BOOLEAN, estop : BOOLEAN, homed : BOOLEAN]
    BY <1>12, <1>14
  <2>4. ctl'.armed => ctl.armed \/ op = "arm"
    BY <1>12, <1>14
  <2>5. /\ executed \subseteq executed' /\ executed' \subseteq DOMAIN call /\ id \in executed'
        /\ excused \subseteq excused' /\ excused' \subseteq {"timeout", "stop", "race", "stale"}
    BY <1>3, <1>12, <1>14
  <2>6. \A k \in DOMAIN frames :
         frames[k].kind = "ack" /\ frames[k].kind # "estop" /\ frames[k].id = id /\ frames[k].ok
    BY <1>6, <2>1
  <2>7. \A k, l \in DOMAIN frames : k = l
    BY <2>1
  <2>8. Acted(frames)
    BY <1>2, <2>6, <2>7, <2>2, <2>3, <2>4, <2>5 DEF Acted
  <2>9. \A k \in DOMAIN frames : /\ OkArm(frames[k]) <=> op = "arm"
                                 /\ Effective(frames[k]) <=> op \in {"arm", "disarm"}
    BY <2>6 DEF OkArm, Effective, IsAck
  <2>10. Undoing(frames)
    <3>1. SprayEnabled /\ ctl'.estop => ctl.estop /\ op # "arm"
      BY <1>12, <1>14 DEF ArmRefused
    <3> QED
      BY <1>9, <1>10, <1>14, <2>9, <3>1 DEF Undoing
  <2>11. Agreeing(frames)
    <3> SUFFICES ASSUME SprayEnabled, excused' = {}
                 PROVE  \/ /\ \A k \in DOMAIN frames : ~Effective(frames[k])
                           /\ ctl'.armed = ctl.armed
                           /\ (\E i \in DOMAIN down : call[down[i]].op = "estop") =>
                                \E i \in DOMAIN down' : call[down'[i]].op = "estop"
                        \/ /\ \E k \in DOMAIN frames : Effective(frames[k])
                           /\ \A k \in DOMAIN frames : Effective(frames[k]) =>
                                (ctl'.armed <=> OkArm(frames[k]))
      BY DEF Agreeing
    <3>1. CASE op = "arm"
      <4>1. ctl'.armed
        BY <1>12, <1>14, <3>1
      <4> QED
        BY <2>1, <2>9, <3>1, <4>1
    <3>2. CASE op = "disarm"
      <4>1. ~ctl'.armed
        BY <1>12, <1>14, <3>2
      <4> QED
        BY <2>1, <2>9, <3>2, <4>1
    <3>3. CASE op \in {"quiet", "config"}
      <4>1. op = "quiet" => ~ctl.armed
        <5>1. Quieted
          BY <1>1, <1>4, <1>14, <3>3 DEF AgreeInv
        <5> QED
          BY <1>3, <5>1 DEF Quieted
      <4>2. ctl'.armed = ctl.armed
        BY <1>12, <1>14, <3>3, <4>1
      <4> QED
        BY <1>11, <2>9, <3>3, <4>2
    <3> QED
      BY <1>14, <3>1, <3>2, <3>3
  <2> QED
    BY <2>8, <2>10, <2>11, ActedInv
<1>15. CASE /\ op = "estop" /\ Tell(<<Estop, Ack(id, TRUE)>>) /\ executed' = executed \cup {id}
            /\ ctl' = [armed |-> FALSE, estop |-> TRUE, homed |-> FALSE] /\ UNCHANGED excused
  <2> PICK frames : frames = <<Estop, Ack(id, TRUE)>>
    OBVIOUS
  <2>1. frames \in Seq(Frames) /\ DOMAIN frames = {1, 2} /\ frames[1] = Estop /\ frames[2] = Ack(id, TRUE)
    BY <1>5, TwoFrames
  <2>2. Spoken(frames)
    BY <1>1, <1>15, <2>1, TellFacts
  <2>3. /\ frames[2].kind = "ack" /\ frames[2].id = id
       /\ ~IsAck(frames[1]) /\ frames[1].kind = "estop"
    BY <1>6, <1>7, <2>1
  <2>4. \A k, l \in DOMAIN frames : IsAck(frames[k]) /\ IsAck(frames[l]) => k = l
    BY <2>1, <2>3
  <2>5. \A k \in DOMAIN frames : IsAck(frames[k]) => frames[k].id = id
    BY <2>1, <2>3
  <2>6. /\ executed \subseteq executed' /\ executed' \subseteq DOMAIN call /\ id \in executed'
       /\ ctl' \in [armed : BOOLEAN, estop : BOOLEAN, homed : BOOLEAN] /\ ~ctl'.armed
    BY <1>3, <1>12, <1>15
  <2>7. Acted(frames)
    BY <1>2, <1>12, <1>15, <2>2, <2>4, <2>5, <2>6 DEF Acted
  <2>8. ~OkArm(frames[2]) /\ ~Effective(frames[2])
    BY <1>6, <1>15, <2>1 DEF OkArm, Effective
  <2>9. Undoing(frames)
    <3>1. down' # down
      <4>1. Len(down) \in DOMAIN down /\ Len(down) \notin DOMAIN down'
        BY <1>3
      <4> QED
        BY <4>1
    <3> QED
      BY <1>7, <1>9, <2>1, <2>8, <3>1 DEF Undoing
  <2>10. Agreeing(frames)
    BY <1>7, <1>15, <2>1, <2>8 DEF Agreeing
  <2> QED
    BY <2>7, <2>9, <2>10, ActedInv
<1> QED
  <2>1. \/ op = "arm" /\ ArmRefused /\ Tell(<<Ack(id, FALSE)>>) /\ UNCHANGED <<ctl, executed, excused>>
        \/ /\ op = "arm" /\ ~ArmRefused /\ ctl' = [ctl EXCEPT !.armed = SprayEnabled]
           /\ Tell(<<Ack(id, TRUE)>>) /\ executed' = executed \cup {id} /\ UNCHANGED excused
        \/ /\ op \in {"disarm", "quiet"} /\ ctl' = [ctl EXCEPT !.armed = FALSE]
           /\ Tell(<<Ack(id, TRUE)>>) /\ executed' = executed \cup {id} /\ UNCHANGED excused
        \/ /\ op = "estop" /\ ctl' = [armed |-> FALSE, estop |-> TRUE, homed |-> FALSE]
           /\ Tell(<<Estop, Ack(id, TRUE)>>) /\ executed' = executed \cup {id} /\ UNCHANGED excused
        \/ /\ op = "stop" /\ ctl' = [ctl EXCEPT !.armed = FALSE, !.estop = FALSE]
           /\ Tell(<<Ack(id, TRUE)>>) /\ executed' = executed \cup {id} /\ excused' = excused \cup {"stop"}
        \/ /\ op = "config" /\ ctl' = ctl
           /\ Tell(<<Ack(id, TRUE)>>) /\ executed' = executed \cup {id} /\ UNCHANGED excused
    BY DEF Handle
  <2> QED
    BY <1>13, <1>14, <1>15, <2>1

\* The link breaks: what undoes an arming is then the route's end.
LEMMA DropInv ==
    ASSUME IInv, Drop
    PROVE  IInv'
<1>1. TypeOK /\ LinkInv /\ QueueInv /\ OrderInv /\ AckInv /\ PostInv /\ NamesInv
  BY DEF IInv
<1>2. /\ ctlConn # 0 /\ ctlConn \in Links
      /\ ctl' \in [armed : BOOLEAN, estop : BOOLEAN, homed : BOOLEAN] /\ ~ctl'.armed
      /\ ctlConn' = 0 /\ down' = <<>>
      /\ UNCHANGED <<armed, conn, cached, call, ready, reader, post, executed, armedBy, armedOn,
                     lastEstop, excused>>
  <2>1. ctlConn \in 1..MaxLinks - 1 /\ ctlConn' = 0 /\ down' = <<>>
    BY DEF Drop
  <2>2. ctlConn # 0 /\ ctlConn \in Links
    BY <2>1, BoundsAssumption DEF Links
  <2>3. ctl' \in [armed : BOOLEAN, estop : BOOLEAN, homed : BOOLEAN] /\ ~ctl'.armed
    <3>1. ctl \in [armed : BOOLEAN, estop : BOOLEAN, homed : BOOLEAN]
      BY <1>1 DEF TypeOK
    <3>2. ctl' \in {[ctl EXCEPT !.armed = FALSE], [armed |-> FALSE, estop |-> FALSE, homed |-> FALSE]}
      BY DEF Drop
    <3>3. CASE ctl' = [ctl EXCEPT !.armed = FALSE]
      BY <3>1, <3>3
    <3>4. CASE ctl' = [armed |-> FALSE, estop |-> FALSE, homed |-> FALSE]
      BY <3>4
    <3> QED
      BY <3>2, <3>3, <3>4
  <2> QED
    BY <2>1, <2>2, <2>3 DEF Drop, server, history
<1> PICK k \in 0..Len(up[ctlConn]) : up' = [up EXCEPT ![ctlConn] = SubSeq(@, 1, k)]
  BY DEF Drop
<1> PICK s : s = up[ctlConn]
  OBVIOUS
<1> PICK left : left = SubSeq(s, 1, k)
  OBVIOUS
<1>3. s \in Seq(Frames) /\ DOMAIN s = 1..Len(s) /\ Len(s) \in Nat /\ up \in [Links -> Seq(Frames)]
  BY <1>1, <1>2, FrameFacts DEF TypeOK
<1>4. left \in Seq(Frames) /\ DOMAIN left \subseteq DOMAIN s /\ \A i \in DOMAIN left : left[i] = s[i]
      /\ (s = <<>> => left = <<>>)
  <2>1. k \in 0..Len(s) /\ 1..k \subseteq 1..Len(s)
    BY <1>3
  <2>2. 1 \in Int /\ k \in Int /\ (k >= 1 => 1 \in DOMAIN s /\ k \in DOMAIN s)
    BY <1>3, <2>1
  <2>3. /\ left \in Seq(Frames) /\ Len(left) = IF 1 <= k THEN k - 1 + 1 ELSE 0
        /\ \A i \in 1..k - 1 + 1 : left[i] = s[1 + i - 1]
    BY <1>3, <2>1, <2>2, SubSeqProperties
  <2>4. Len(left) = k /\ DOMAIN left = 1..k
    BY <2>1, <2>3, LenProperties
  <2>5. \A i \in 1..k : left[i] = s[i]
    BY <2>1, <2>3
  <2>6. s = <<>> => left = <<>>
    <3>1. s = <<>> => k = 0
      BY <2>1
    <3> QED
      BY <2>3, <2>4, <3>1, EmptySeq
  <2> QED
    BY <1>3, <2>1, <2>3, <2>4, <2>5, <2>6
<1>5. /\ up' \in [Links -> Seq(Frames)]
      /\ \A m \in Links : up'[m] = IF m = ctlConn THEN left ELSE up[m]
  BY <1>2, <1>3, <1>4
\* What is left was there before.
<1>6. \A m \in Links : /\ DOMAIN up'[m] \subseteq DOMAIN up[m]
                       /\ \A i \in DOMAIN up'[m] : up'[m][i] = up[m][i]
                       /\ up[m] = <<>> => up'[m] = <<>>
  BY <1>4, <1>5
<1>7. TypeOK'
  <2>1. Frames' = Frames
    BY <1>2 DEF Frames
  <2>2. 0 \in 0..MaxLinks
    BY BoundsAssumption
  <2>3. <<>> \in Seq(DOMAIN call)
    OBVIOUS
  <2> QED
    BY <1>1, <1>2, <1>5, <2>1, <2>2, <2>3 DEF TypeOK
<1>8. LinkInv'
  BY <1>1, <1>2, <1>6 DEF LinkInv
<1>9. QueueInv' /\ PostInv' /\ NamesInv'
  BY <1>1, <1>2 DEF QueueInv, PostInv, NamesInv, OfPost, Open
<1>10. OrderInv'
  BY <1>1, <1>2, <1>6 DEF OrderInv, IsAck
<1>11. AckInv'
  BY <1>1, <1>2, <1>6 DEF AckInv, IsAck
<1>12. EstopInv' /\ HealthInv' /\ AgreeInv'
  BY <1>2 DEF EstopInv, HealthInv, AgreeInv
<1> QED
  BY <1>7, <1>8, <1>9, <1>10, <1>11, <1>12 DEF IInv

----------------------------------------------------------------------------
\* At first there is no connection and no call.
LEMMA InitInv == Init => IInv
<1> SUFFICES ASSUME Init PROVE IInv
  OBVIOUS
<1>1. /\ armed = FALSE /\ conn = 0 /\ cached = Unknown /\ call = <<>> /\ ready = <<>>
      /\ reader = [n \in Links |-> "none"] /\ post = [n \in Links |-> "none"]
      /\ ctl = [armed |-> FALSE, estop |-> FALSE, homed |-> FALSE] /\ ctlConn = 0
      /\ down = <<>> /\ up = [n \in Links |-> <<>>]
      /\ executed = {} /\ armedBy = 0 /\ armedOn = 0 /\ lastEstop = 0 /\ excused = {}
  BY DEF Init
<1>2. DOMAIN call = {} /\ DOMAIN ready = {} /\ DOMAIN down = {}
      /\ \A n \in Links : DOMAIN up[n] = {} /\ up[n] = <<>>
  BY <1>1
<1>3. TypeOK
  <2>1. up \in [Links -> Seq(Frames)]
    BY <1>1
  <2>2. 0 \in 0..MaxLinks /\ 0 \in 0..Len(call)
    BY <1>1, BoundsAssumption
  <2>3. call \in Seq(Calls) /\ ready \in Seq(DOMAIN call) /\ down \in Seq(DOMAIN call)
    BY <1>1
  <2> QED
    BY <1>1, <2>1, <2>2, <2>3 DEF TypeOK, Unknown, State
<1>4. LinkInv
  BY <1>1, <1>2 DEF LinkInv
<1>5. QueueInv /\ OrderInv /\ AckInv /\ PostInv
  BY <1>1, <1>2 DEF QueueInv, OrderInv, AckInv, PostInv
<1>6. NamesInv
  BY <1>1 DEF NamesInv
<1>7. EstopInv /\ HealthInv /\ AgreeInv
  BY <1>1 DEF EstopInv, HealthInv, AgreeInv
<1> QED
  BY <1>3, <1>4, <1>5, <1>6, <1>7 DEF IInv

\* A step that changes nothing preserves the invariant.
LEMMA StutterInv == IInv /\ UNCHANGED vars => IInv'
<1> SUFFICES ASSUME IInv, UNCHANGED vars PROVE IInv'
  OBVIOUS
<1>1. UNCHANGED <<armed, conn, cached, call, ready, reader, post, ctl, ctlConn, down, up,
                  executed, armedBy, armedOn, lastEstop, excused>>
  BY DEF vars, server, device, history
<1>2. TypeOK' /\ LinkInv' /\ QueueInv' /\ PostInv' /\ NamesInv'
  BY <1>1 DEF IInv, TypeOK, LinkInv, QueueInv, PostInv, NamesInv, Frames, OfPost, Open
<1>3. OrderInv' /\ AckInv'
  BY <1>1 DEF IInv, OrderInv, AckInv, IsAck
<1>4. EstopInv' /\ HealthInv'
  BY <1>1 DEF IInv, EstopInv, HealthInv, Undone, InDown, OkArm, IsAck, StopBehind, StopToCome,
              ConfigOpen, Open
<1>5. AgreeInv'
  BY <1>1 DEF IInv, AgreeInv, Awaited, Quieted, Told, Taken, Delivered, NoneBehind, NoneReadyBehind,
              Effective, Telling, NoArming, PostDone, ConfigOpen, Open, OkArm, IsAck
<1> QED
  BY <1>2, <1>3, <1>4, <1>5 DEF IInv

\* Every step preserves the invariant.
LEMMA NextInv == IInv /\ [Next]_vars => IInv'
<1> SUFFICES ASSUME IInv, [Next]_vars PROVE IInv'
  OBVIOUS
<1>1. CASE CallArm
  <2>1. Called("arm")
    BY <1>1 DEF CallArm, Call, Called, PostDone
  <2> QED
    BY <2>1, CallInv
<1>2. CASE CallDisarm
  <2>1. Called("disarm")
    BY <1>2 DEF CallDisarm, Call, Called, history
  <2> QED
    BY <2>1, CallInv
<1>3. CASE CallEstop
  <2>1. Called("estop")
    BY <1>3 DEF CallEstop, Call, Called
  <2> QED
    BY <2>1, CallInv
<1>4. CASE CallStop
  <2>1. Called("stop")
    BY <1>4 DEF CallStop, Call, Called, history
  <2> QED
    BY <2>1, CallInv
<1>5. CASE Resume
  BY <1>5, ResumeConfigInv, ResumeOtherInv
<1>6. ASSUME NEW id \in DOMAIN call, Timeout(id) PROVE IInv'
  BY <1>6, TimeoutInv
<1>7. ASSUME NEW n \in Links, Read(n) PROVE IInv'
  BY <1>7, ReadInv
<1>8. ASSUME NEW n \in Links, EmitDone(n) PROVE IInv'
  BY <1>8, EmitDoneInv
<1>9. ASSUME NEW n \in Links, Close(n) PROVE IInv'
  BY <1>9, CloseInv
<1>10. CASE Attach
  BY <1>10, AttachInv
<1>11. CASE Handle
  BY <1>11, HandleInv
<1>12. CASE PressEstop
  BY <1>12, PressEstopInv
<1>13. CASE Home
  BY <1>13, HomeInv
<1>14. CASE SendStatus
  BY <1>14, SendStatusInv
<1>15. CASE Drop
  BY <1>15, DropInv
<1>16. CASE UNCHANGED vars
  BY <1>16, StutterInv
<1> QED
  BY <1>1, <1>2, <1>3, <1>4, <1>5, <1>6, <1>7, <1>8, <1>9, <1>10, <1>11, <1>12, <1>13, <1>14,
     <1>15, <1>16 DEF Next, Loop

\* The inductive invariant.
THEOREM Invariant == Spec => []IInv
<1>1. Init => IInv
  BY InitInv
<1>2. IInv /\ [Next]_vars => IInv'
  BY NextInv
<1> QED
  BY <1>1, <1>2, PTL DEF Spec

\* A call that returned without an error was carried out by the controller,
\* whatever the connections lost, delayed or answered late.
THEOREM Acknowledged == Spec => []AckedMeansActed
<1>1. IInv => AckedMeansActed
  BY DEF IInv, AckInv, AckedMeansActed
<1> QED
  BY <1>1, Invariant, PTL

\* What is known once nothing is under way.
LEMMA AtRest ==
    ASSUME IInv, Settled
    PROVE  /\ ctlConn # 0 /\ ctlConn \in Links /\ ~ConfigOpen /\ ~StopToCome
           /\ ~InDown(lastEstop) /\ Delivered /\ NoneReadyBehind(0)
<1>1. /\ conn # 0 /\ conn = ctlConn /\ down = <<>> /\ ready = <<>>
      /\ \A n \in Links : up[n] = <<>> /\ reader[n] # "emit"
      /\ \A id \in DOMAIN call : call[id].pc # "waiting"
  BY DEF Settled
<1>2. ctlConn # 0 /\ ctlConn \in Links
  BY <1>1 DEF IInv, TypeOK, Links
<1>3. DOMAIN down = {} /\ DOMAIN ready = {} /\ DOMAIN up[ctlConn] = {} /\ reader[ctlConn] # "emit"
  BY <1>1, <1>2
<1>4. \A id \in DOMAIN call : ~Open(id)
  BY <1>1, <1>3 DEF IInv, QueueInv, Open
<1> QED
  BY <1>2, <1>3, <1>4 DEF ConfigOpen, StopToCome, StopBehind, InDown, Delivered, NoneBehind,
                          NoneReadyBehind

\* An emergency stop stays: whatever was under way when it was called, once
\* everything has settled armed is only set by a call made after it.
THEOREM StopStays == Spec => []EstopSticks
<1>1. ASSUME IInv, Settled, armed PROVE armedBy > lastEstop
  <2>1. ctlConn # 0 /\ ~ConfigOpen /\ ~StopToCome /\ ~InDown(lastEstop)
    BY <1>1, AtRest
  <2>2. Undone(0..lastEstop - 1)
    BY <1>1, <2>1 DEF IInv, EstopInv
  <2>3. armedBy \notin 0..lastEstop - 1
    BY <1>1, <2>1, <2>2 DEF Undone
  <2>4. /\ armedBy # 0 /\ armedBy \in Nat /\ lastEstop \in Nat
        /\ call[armedBy].op = "arm" /\ (lastEstop # 0 => call[lastEstop].op = "estop")
    BY <1>1, CallFacts DEF IInv, NamesInv, TypeOK
  <2>5. armedBy # lastEstop
    BY <2>4
  <2> QED
    BY <2>3, <2>4, <2>5
<1>2. IInv => EstopSticks
  BY <1>1 DEF EstopSticks
<1> QED
  BY <1>2, Invariant, PTL

\* When everything has settled, an armed system is not at an emergency stop.
THEOREM ArmedHealthy == Spec => []ArmedIsHealthy
<1>1. ASSUME IInv, Settled, armed, SprayEnabled PROVE ~ctl.estop
  <2>1. ctlConn # 0 /\ ~ConfigOpen /\ ~StopToCome
    BY <1>1, AtRest
  <2>2. armedBy \in Nat
    BY <1>1, CallFacts DEF IInv, TypeOK
  <2>3. ~Undone(Nat)
    BY <1>1, <2>1, <2>2 DEF Undone
  <2> QED
    BY <1>1, <2>1, <2>3 DEF IInv, HealthInv
<1>2. IInv => ArmedIsHealthy
  BY <1>1 DEF ArmedIsHealthy
<1> QED
  BY <1>2, Invariant, PTL

\* When nothing is under way, the server's armed and the controller's are the
\* same, but for what excused names.
THEOREM SidesAgree == Spec => []AgreeWhenSettled
<1>1. ASSUME IInv, Settled, excused = {}, SprayEnabled PROVE armed = ctl.armed
  <2>1. ctlConn # 0 /\ ~ConfigOpen /\ Delivered /\ NoneReadyBehind(0)
    BY <1>1, AtRest
  <2>2. down = <<>>
    BY <1>1 DEF Settled
  <2>3. Taken
    BY <1>1, <2>1 DEF IInv, AgreeInv
  <2> QED
    BY <2>1, <2>2, <2>3 DEF Taken
<1>2. IInv => AgreeWhenSettled
  BY <1>1 DEF AgreeWhenSettled
<1> QED
  BY <1>2, Invariant, PTL
=============================================================================
