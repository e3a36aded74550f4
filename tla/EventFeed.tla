----------------------------- MODULE EventFeed -----------------------------
(***************************************************************************)
(* The story of the system: EventLog.emit puts an event in the recent      *)
(* list, the database and the queues of the browsers (event_log.py), and   *)
(* the telemetry hub serves every browser from a queue of its own          *)
(* (telemetry.py, websocket_browser.py, all under server/app).             *)
(*                                                                         *)
(* The event loop interleaves emitters, writers and sockets where they     *)
(* await the database or the network; everything between two such awaits   *)
(* is one step.  Events are numbered in the order they were recorded.      *)
(***************************************************************************)
EXTENDS Integers, Sequences, FiniteSets, SequencesExt

CONSTANTS
  Clients,     \* browsers
  QueueLimit,  \* TelemetryHub.QUEUE_LIMIT (8)
  RecentSize,  \* recent_size (200); a hello shows all of it here (30 in the code)
  MaxRows,     \* system.max_events
  MaxEvents,   \* bound: events recorded
  MaxFrames    \* bound: telemetry frames broadcast

VARIABLES
  recorded,   \* the number of events recorded
  emitting,   \* events whose insert is awaited
  recent,     \* _recent
  rows,       \* the events table: <<event, past its retention>>
  frames,     \* the frames broadcast so far
  socket,     \* "out" | "in": the browser's connection and its listener
  listed,     \* the browsers in the hub's _clients
  writer,     \* "none" | "wait" | "send" | "dead": the task in _tasks
  queue,      \* the browser's asyncio.Queue
  sending,    \* what its writer is sending
  hello,      \* history: the events its hello showed
  got         \* history: the events that reached it

feed == <<recorded, emitting, recent, rows>>
hub == <<socket, listed, writer, queue, sending, hello, got>>
vars == <<feed, frames, hub>>

Frame == 0
Events == 1..MaxEvents

Init ==
  /\ recorded = 0 /\ emitting = {} /\ recent = <<>> /\ rows = <<>> /\ frames = 0
  /\ socket = [c \in Clients |-> "out"] /\ listed = {}
  /\ writer = [c \in Clients |-> "none"]
  /\ queue = [c \in Clients |-> <<>>]
  /\ sending = [c \in Clients |-> <<>>]
  /\ hello = [c \in Clients |-> {}] /\ got = [c \in Clients |-> {}]

LastOf(s, n) == LET most == IF Len(s) < n THEN Len(s) ELSE n IN SubSeq(s, Len(s) - most + 1, Len(s))

---------------------------------------------------------------------------
(* The hub *)

\* put_nowait for every browser in cs: a full queue unregisters its browser
\* and cancels the writer, whatever it was sending.
Full(cs) == {c \in cs : Len(queue[c]) >= QueueLimit}

Put(cs, message) ==
  LET full == Full(cs \cap listed)
      open == (cs \cap listed) \ full
  IN /\ queue' = [c \in Clients |-> IF c \in open THEN Append(queue[c], message) ELSE queue[c]]
     /\ listed' = listed \ full
     /\ writer' = [c \in Clients |-> IF c \in full THEN "none" ELSE writer[c]]
     /\ sending' = [c \in Clients |-> IF c \in full THEN <<>> ELSE sending[c]]

\* _telemetry_loop
Broadcast ==
  /\ frames < MaxFrames
  /\ frames' = frames + 1
  /\ Put(Clients, Frame)
  /\ UNCHANGED <<feed, socket, hello, got>>

\* accept, register, subscribe, the hello and the first telemetry (one message
\* here), without an await between.
Connect(c) ==
  /\ socket[c] = "out"
  /\ socket' = [socket EXCEPT ![c] = "in"]
  /\ listed' = listed \cup {c}
  /\ writer' = [writer EXCEPT ![c] = "wait"]
  /\ queue' = [queue EXCEPT ![c] = <<Frame>>]
  /\ hello' = [hello EXCEPT ![c] = ToSet(recent)]
  /\ got' = [got EXCEPT ![c] = {}]
  /\ UNCHANGED <<feed, frames, sending>>

\* The browser goes away: unsubscribe and unregister.
Disconnect(c) ==
  /\ socket[c] = "in"
  /\ socket' = [socket EXCEPT ![c] = "out"]
  /\ listed' = listed \ {c}
  /\ writer' = [writer EXCEPT ![c] = "none"]
  /\ queue' = [queue EXCEPT ![c] = <<>>]
  /\ sending' = [sending EXCEPT ![c] = <<>>]
  /\ hello' = [hello EXCEPT ![c] = {}] /\ got' = [got EXCEPT ![c] = {}]
  /\ UNCHANGED <<feed, frames>>

\* _writer: get, then send_text, which may take as long as the browser likes.
Take(c) ==
  /\ writer[c] = "wait" /\ queue[c] # <<>>
  /\ writer' = [writer EXCEPT ![c] = "send"]
  /\ sending' = [sending EXCEPT ![c] = <<Head(queue[c])>>]
  /\ queue' = [queue EXCEPT ![c] = Tail(@)]
  /\ UNCHANGED <<feed, frames, socket, listed, hello, got>>

Send(c) ==
  /\ writer[c] = "send"
  /\ got' = [got EXCEPT ![c] = @ \cup (ToSet(sending[c]) \ {Frame})]
  /\ writer' = [writer EXCEPT ![c] = "wait"]
  /\ sending' = [sending EXCEPT ![c] = <<>>]
  /\ UNCHANGED <<feed, frames, socket, listed, queue, hello>>

\* The send raises: the writer ends and takes its browser off the list.
WithoutWriter(c) == listed \ {c}

SendFails(c) ==
  /\ writer[c] = "send"
  /\ writer' = [writer EXCEPT ![c] = "dead"]
  /\ listed' = WithoutWriter(c)
  /\ sending' = [sending EXCEPT ![c] = <<>>]
  /\ UNCHANGED <<feed, frames, socket, queue, hello, got>>

\* A ping or a request for telemetry from the browser: send_to.
Ask(c) ==
  /\ socket[c] = "in" /\ frames < MaxFrames
  /\ frames' = frames + 1
  /\ Put({c}, Frame)
  /\ UNCHANGED <<feed, socket, hello, got>>

---------------------------------------------------------------------------
(* The event log *)

\* emit up to the insert.  An event repeated inside its dedupe_s is not
\* recorded and is no step here.
Emit ==
  /\ recorded < MaxEvents
  /\ recorded' = recorded + 1
  /\ recent' = LastOf(Append(recent, recorded'), RecentSize)
  /\ emitting' = emitting \cup {recorded'}
  /\ UNCHANGED <<rows, frames, hub>>

\* The browsers told of event e; the listeners are read after the insert.
SlipOnlyStored(stored) == {c \in Clients : stored /\ socket[c] = "in"}
Listeners(stored) == {c \in Clients : socket[c] = "in"}

\* The insert returned or raised, and the listeners are called either way.
Persist(e, stored) ==
  /\ e \in emitting
  /\ emitting' = emitting \ {e}
  /\ rows' = IF stored THEN Append(rows, <<e, FALSE>>) ELSE rows
  /\ Put(Listeners(stored), e)
  /\ UNCHANGED <<recorded, recent, frames, socket, hello, got>>

\* The retention time passes for the oldest row that is inside it.
Age ==
  \E k \in DOMAIN rows :
    /\ rows[k][2] = FALSE /\ \A j \in 1..k - 1 : rows[j][2]
    /\ rows' = [rows EXCEPT ![k] = <<@[1], TRUE>>]
    /\ UNCHANGED <<recorded, emitting, recent, frames, hub>>

\* The rows past the retention go, which are the oldest,
Inside(stored) ==
  LET first == CHOOSE k \in 1..Len(stored) + 1 :
                 /\ \A i \in 1..k - 1 : stored[i][2]
                 /\ k <= Len(stored) => ~stored[k][2]
  IN SubSeq(stored, first, Len(stored))

\* and then all below the newest MaxRows.
Newest(kept) == LastOf(kept, MaxRows)

Prune ==
  /\ rows' = Newest(Inside(rows))
  /\ rows' # rows
  /\ UNCHANGED <<recorded, emitting, recent, frames, hub>>

Next ==
  \/ Broadcast \/ Emit \/ Age \/ Prune
  \/ \E e \in Events, stored \in BOOLEAN : Persist(e, stored)
  \/ \E c \in Clients : Connect(c) \/ Disconnect(c) \/ Take(c) \/ Send(c) \/ SendFails(c) \/ Ask(c)

\* What the server does by itself: its tasks run, and the database answers.
Served ==
  /\ \A e \in Events : WF_vars(\E stored \in BOOLEAN : Persist(e, stored))
  /\ \A c \in Clients : WF_vars(Take(c))

Spec == Init /\ [][Next]_vars
FairSpec == Spec /\ Served

---------------------------------------------------------------------------
(* Properties *)

TypeOK ==
  /\ recorded \in 0..MaxEvents /\ emitting \subseteq 1..recorded /\ Len(recent) <= RecentSize
  /\ \A c \in Clients : /\ Len(queue[c]) <= QueueLimit
                        /\ sending[c] # <<>> <=> writer[c] = "send"
                        /\ got[c] \cup hello[c] \subseteq 1..recorded

\* A browser the hub still serves has every event since it came in its hello,
\* on the way or delivered, whether or not the event could be stored and
\* whichever of the two came first (emit, telemetry_socket).
NothingMissed ==
  \A c \in listed : \A e \in 1..recorded :
    (e \notin emitting /\ e \in ToSet(recent)) =>
      e \in hello[c] \cup got[c] \cup ToSet(queue[c]) \cup ToSet(sending[c])

\* A browser the hub serves has a task that writes to it, and only a
\* connected one is served (register, unregister, _writer).
ServedHasWriter == \A c \in listed : writer[c] \in {"wait", "send"} /\ socket[c] = "in"

\* Retention drops an event only when it is too old or when MaxRows newer
\* ones stay (prune).
NewestStay ==
  [][ \A k \in DOMAIN rows :
        (rows[k] \notin ToSet(rows') /\ ~rows[k][2] /\ Len(rows') < Len(rows))
        => Cardinality({j \in k + 1..Len(rows) : rows[j] \in ToSet(rows')}) >= MaxRows ]_vars

\* All of this: whoever is served misses nothing, and retention keeps the
\* newest (EventLog, TelemetryHub, telemetry_socket).
FeedKept == [](TypeOK /\ ServedHasWriter /\ NothingMissed) /\ NewestStay

\* What telemetry.py says: a client that cannot keep up is disconnected.  The
\* hub stops serving it and leaves its connection open.
SlowIsDisconnected == \A c \in Clients : (socket[c] = "in" /\ writer[c] = "none") ~> socket[c] = "out"

=============================================================================
