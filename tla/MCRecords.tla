------------------------------ MODULE MCRecords ------------------------------
(* What is kept, on small instances: the settings, with the constants of     *)
(* this module, the evidence of a detection, the captures, the event feed,   *)
(* and the state of the stand-alone simulator over its sessions.  The parts  *)
(* share no state, and a behaviour takes the steps of one of them.           *)
EXTENDS Settings, Integers

VARIABLES
  part,                                                       \* never changes
  lastSeen, memory, suppressed, told, away, fails, quiet, shots,  \* Evidence
  rows, files, nextId, made, writing, unlinking, prune, reviews, strays,  \* Captures
  recorded, emitting, recent, events, frames, socket, listed,
  writer, queue, sending, hello, got,                                     \* EventFeed
  link, waiting, homing, lim, pos, vel, goal, rate, homed, armed, valve, estop,
  state, error, jogFor, valveFor, openFor                                 \* ControllerSim

ofEvidence == <<lastSeen, memory, suppressed, told, away, fails, quiet, shots>>
ofCaptures == <<rows, files, nextId, made, writing, unlinking, prune, reviews, strays>>
ofFeed == <<recorded, emitting, recent, events, frames, socket, listed,
            writer, queue, sending, hello, got>>
ofTool == <<link, waiting, homing, lim, pos, vel, goal, rate, homed, armed, valve, estop,
            state, error, jogFor, valveFor, openFor>>

\* A strong box at either of two places, the second of them blank, and a weak
\* one between.
Box(place, strong) == [class |-> "bird", place |-> place, strong |-> strong]

Images == INSTANCE Evidence WITH
    Boxes <- {Box(1, TRUE), Box(2, FALSE), Box(3, TRUE)}, Blank <- {3},
    Rearm <- 1, Repeat <- 3, Cap <- 2, MaxFails <- 1

Library == INSTANCE Captures WITH MaxFiles <- 2, MaxReviews <- 2, MaxNotes <- 2, Budget <- 1

Feed == INSTANCE EventFeed WITH
    Clients <- {"browser"}, QueueLimit <- 2, RecentSize <- 2, MaxRows <- 1,
    MaxEvents <- 3, MaxFrames <- 2, rows <- events

Tool == INSTANCE ControllerSim WITH
    Limits <- {<<-1, 1>>}, Goals <- -2..1, MaxSpeed <- 1, Accel <- 1, Homing <- 2, JogTime <- 2,
    Durations <- {0, 4}, MaxSpray <- 2, MaxWaiting <- 1

\* The settings have many beginnings; the other parts need one of them.
PartsInit ==
    /\ part \in {"settings", "evidence", "captures", "feed", "tool"}
    /\ Init /\ Images!Init /\ Library!Init /\ Feed!Init /\ Tool!Init
    /\ part # "settings" =>
         db = [s \in Sections |-> 0] /\ patch = [r \in Requests |-> CHOOSE p \in Patches : TRUE]

PartsNext ==
    /\ UNCHANGED part
    /\ \/ part = "settings" /\ Next /\ UNCHANGED <<ofEvidence, ofCaptures, ofFeed, ofTool>>
       \/ part = "evidence" /\ Images!Next /\ UNCHANGED <<vars, ofCaptures, ofFeed, ofTool>>
       \/ part = "captures" /\ Library!Next /\ UNCHANGED <<vars, ofEvidence, ofFeed, ofTool>>
       \/ part = "feed" /\ Feed!Next /\ UNCHANGED <<vars, ofEvidence, ofCaptures, ofTool>>
       \/ part = "tool" /\ Tool!Next /\ UNCHANGED <<vars, ofEvidence, ofCaptures, ofFeed>>

PartsSpec == PartsInit /\ [][PartsNext]_<<part, vars, ofEvidence, ofCaptures, ofFeed, ofTool>>

----------------------------------------------------------------------------
(* What each part promises: the properties its module states, together; that *)
(* of the settings holds at their beginning, where the other parts leave them. *)

\* Every image kept of a detection is news, a box is held back only for an
\* image that was tried, and a class that stays in sight is told of once, and
\* again when it was away for longer than the rearm time
\* (_capture_vision_evidence, _on_vision_result).
EvidenceIsNews == Images!Kept /\ [](part = "evidence" => Images!EachImageIsNews)

\* Rows and images of the captures agree through failures and stops, a
\* rejected capture is an empty example, and the clean-up deletes only what
\* it read as not selected, down to its budget (DetectionCaptureStore).
LibraryKept == Library!Kept

\* A browser that is served is connected, has a writer and misses no event,
\* and retention keeps the newest (EventLog, TelemetryHub, telemetry_socket).
FeedKept == Feed!FeedKept

\* The stand-alone simulator implements TurretContract over sessions that
\* break, close and come back, and bounds every burst.
ToolKeepsContract == Tool!ToolKeepsContract

\* What the docstring of prune says, "preserving training selections".
SelectionsKept == Library!SelectionsKept
=============================================================================
