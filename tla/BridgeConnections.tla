--------------------------- MODULE BridgeConnections ---------------------------
(***************************************************************************)
(* The connections of the Host Bridge to one Core, one client after the    *)
(* other (src/src/agentic_gaming/main.py, host_bridge): a client may be    *)
(* gone while its handler still has messages to read and a frame to        *)
(* analyse, and the next client connects meanwhile.  All handlers share    *)
(* app.state.bridge and latest_vision.  The client sends what              *)
(* CoreWebSocketClient.cs makes it send.                                   *)
(*                                                                         *)
(* VisionPipeline has the frames of one handler in detail; here a handler  *)
(* is what it shares with the others.                                      *)
(***************************************************************************)
EXTENDS Integers, Sequences

CONSTANTS
  Clients,        \* processes of the Host Bridge; each connects once
  MaxCaptured,    \* bound: frames
  MaxInTransit,   \* bound: messages sent and not read
  Hello,          \* the first message of a client
  Nothing         \* None

ASSUME ConnectionsAssumption ==
  /\ Nothing \notin Clients
  /\ MaxCaptured \in Nat
  /\ MaxInTransit \in Nat \ {0}

VARIABLES
  client,         \* "new", "live" or "gone"
  handler,        \* "none", "open", "waiting" for pending_frame_lock, or "ended"
  transit,        \* messages of a client that its handler has not read
  pending,        \* pending_frame of a handler
  newest,         \* latest_frame_sequence of a handler, as the frame
  work,           \* what the vision worker of a handler does
  status,         \* app.state.bridge["status"]
  greeted,        \* the client whose hello set profile_id and run_id
  latestVision,   \* app.state.latest_vision
  ingested,       \* vision states given to a run
  captured,       \* frames are numbered in the order they are captured
  \* history
  overlapped,     \* a client has connected while another's handler was open
  raised          \* a handler has ended with an exception of its own

shared == <<status, greeted, latestVision, ingested>>
history == <<overlapped, raised>>
vars == <<client, handler, transit, pending, newest, work, shared, captured, history>>

HandlerRuns(c) == handler[c] \in {"open", "waiting"}

Frame(c, number) == [client |-> c, number |-> number]

Work(stage, frame, pack) == [stage |-> stage, frame |-> frame, pack |-> pack]

Init ==
  /\ client = [c \in Clients |-> "new"]
  /\ handler = [c \in Clients |-> "none"]
  /\ transit = [c \in Clients |-> <<>>]
  /\ pending = [c \in Clients |-> Nothing]
  /\ newest = [c \in Clients |-> Nothing]
  /\ work = [c \in Clients |-> Nothing]
  /\ status = "DISCONNECTED"
  /\ greeted = Nothing
  /\ latestVision = Nothing
  /\ ingested = {}
  /\ captured = 0
  /\ overlapped = FALSE
  /\ raised = FALSE

-----------------------------------------------------------------------------
(* The client *)

\* Broken on purpose: the status follows the first frame.
StatusOfNewConnection == status

StatusOfConnect == "CONNECTED"

\* A client connects and says hello first.  One process of the Host Bridge runs
\* at a time; the handler of the one before may not have ended.
Connect(c) ==
  /\ client[c] = "new"
  /\ \A other \in Clients : client[other] # "live"
  /\ client' = [client EXCEPT ![c] = "live"]
  /\ handler' = [handler EXCEPT ![c] = "open"]
  /\ transit' = [transit EXCEPT ![c] = <<Hello>>]
  /\ status' = StatusOfConnect
  /\ overlapped' = (overlapped \/ \E other \in Clients : HandlerRuns(other))
  /\ UNCHANGED <<pending, newest, work, greeted, latestVision, ingested, captured,
                 raised>>

\* One round of the loop in CoreWebSocketClient.RunAsync.
SendFrame(c) ==
  /\ client[c] = "live"
  /\ HandlerRuns(c)
  /\ captured < MaxCaptured
  /\ Len(transit[c]) < MaxInTransit
  /\ captured' = captured + 1
  /\ transit' = [transit EXCEPT ![c] = Append(@, Frame(c, captured + 1))]
  /\ UNCHANGED <<client, handler, pending, newest, work, shared, history>>

\* The loop ends, however it does, and the socket is closed; nothing connects again.
Leave(c) ==
  /\ client[c] = "live"
  /\ client' = [client EXCEPT ![c] = "gone"]
  /\ UNCHANGED <<handler, transit, pending, newest, work, shared, captured, history>>

-----------------------------------------------------------------------------
(* The handler *)

Reads(c) == handler[c] = "open" /\ transit[c] # <<>>

\* Broken on purpose: a hello does not replace what another has said.
GreetedFirst(c) == IF greeted = Nothing THEN c ELSE greeted

GreetedBy(c) == c

\* profile_id and run_id of the message replace those of any other client.
ReadHello(c) ==
  /\ Reads(c)
  /\ Head(transit[c]) = Hello
  /\ transit' = [transit EXCEPT ![c] = Tail(@)]
  /\ greeted' = GreetedBy(c)
  /\ UNCHANGED <<client, handler, pending, newest, work, status, latestVision, ingested,
                 captured, history>>

\* The worker keeps pending_frame_lock while it answers for a frame.
LockFree(c) == work[c] # Nothing => work[c].stage = "observing"

\* The frame goes into the slot, with the lock.
Place(c) ==
  /\ LockFree(c)
  /\ transit' = [transit EXCEPT ![c] = Tail(@)]
  /\ pending' = [pending EXCEPT ![c] = Head(transit[c])]
  /\ newest' = [newest EXCEPT ![c] = Head(transit[c])]

\* A frame also says that the Bridge is connected, whoever has said otherwise.
ReadFrame(c) ==
  /\ Reads(c)
  /\ Head(transit[c]) # Hello
  /\ status' = "CONNECTED"
  /\ \/ /\ Place(c)
        /\ UNCHANGED handler
     \/ /\ ~LockFree(c)
        /\ handler' = [handler EXCEPT ![c] = "waiting"]
        /\ UNCHANGED <<transit, pending, newest>>
  /\ UNCHANGED <<client, work, greeted, latestVision, ingested, captured, history>>

PlaceWaitingFrame(c) ==
  /\ handler[c] = "waiting"
  /\ Place(c)
  /\ handler' = [handler EXCEPT ![c] = "open"]
  /\ UNCHANGED <<client, work, shared, captured, history>>

\* Broken on purpose: the worker goes on when its handler has ended; only the
\* client that said hello last is disconnected.
WorkAfterEnd(c) == work

StatusAfterEndOfGreeted(c) == IF greeted = c THEN "DISCONNECTED" ELSE status

WorkAfterCancel(c) == [work EXCEPT ![c] = Nothing]

StatusAfterEnd(c) == "DISCONNECTED"

\* The handler ends and its worker is cancelled.
End(c) ==
  /\ handler' = [handler EXCEPT ![c] = "ended"]
  /\ transit' = [transit EXCEPT ![c] = <<>>]
  /\ pending' = [pending EXCEPT ![c] = Nothing]
  /\ work' = WorkAfterCancel(c)
  /\ UNCHANGED <<client, newest, latestVision, ingested, captured, overlapped>>

\* WebSocketDisconnect, when all was read or an answer cannot be sent: the
\* Bridge is disconnected, whoever else is connected.
Disconnect(c) ==
  /\ handler[c] = "open"
  /\ client[c] = "gone"
  /\ status' = StatusAfterEnd(c)
  /\ End(c)
  /\ UNCHANGED <<greeted, raised>>

\* A message that is no object, a width that is no number, a file that cannot be
\* written: any other exception ends the handler and leaves status and hello at
\* what they are, or at what the message has made of them before.
HandlerRaises(c) ==
  /\ HandlerRuns(c)
  /\ transit[c] # <<>>
  /\ handler[c] = "waiting" => LockFree(c)
  /\ raised' = TRUE
  /\ \/ UNCHANGED <<status, greeted>>
     \/ Head(transit[c]) # Hello /\ status' = "CONNECTED" /\ UNCHANGED greeted
     \/ Head(transit[c]) = Hello /\ greeted' = GreetedBy(c) /\ UNCHANGED status
  /\ End(c)

-----------------------------------------------------------------------------
(* The vision worker *)

\* The Game Pack is that of the last hello, or the default.
Take(c) ==
  /\ work[c] = Nothing
  /\ pending[c] # Nothing
  /\ pending' = [pending EXCEPT ![c] = Nothing]
  /\ work' = [work EXCEPT ![c] = Work("observing", pending[c], greeted)]
  /\ UNCHANGED <<client, handler, transit, newest, shared, captured, history>>

ObserveFails(c) ==
  /\ work[c] # Nothing
  /\ work[c].stage = "observing"
  /\ work' = [work EXCEPT ![c] = Nothing]
  /\ UNCHANGED <<client, handler, transit, pending, newest, shared, captured, history>>

IsNewest(c) == pending[c] = Nothing /\ work[c].frame = newest[c]

Discard(c) ==
  /\ work[c] # Nothing
  /\ work[c].stage = "observing"
  /\ ~IsNewest(c)
  /\ work' = [work EXCEPT ![c] = Nothing]
  /\ UNCHANGED <<client, handler, transit, pending, newest, shared, captured, history>>

Publish(c) ==
  /\ work[c] # Nothing
  /\ work[c].stage = "observing"
  /\ IsNewest(c)
  /\ latestVision' = work[c].frame
  /\ work' = [work EXCEPT ![c].stage = "annotating"]
  /\ UNCHANGED <<client, handler, transit, pending, newest, status, greeted, ingested,
                 captured, history>>

\* The annotations were sent; run_id is read now.
Ingest(c) ==
  /\ work[c] # Nothing
  /\ work[c].stage = "annotating"
  /\ ingested' = ingested \cup
       {[frame |-> work[c].frame, pack |-> work[c].pack, run |-> greeted]}
  /\ work' = [work EXCEPT ![c] = Nothing]
  /\ UNCHANGED <<client, handler, transit, pending, newest, status, greeted, latestVision,
                 captured, history>>

\* The client is gone and the annotations cannot be sent.
AnnotatingFails(c) ==
  /\ work[c] # Nothing
  /\ work[c].stage = "annotating"
  /\ client[c] = "gone"
  /\ work' = [work EXCEPT ![c] = Nothing]
  /\ UNCHANGED <<client, handler, transit, pending, newest, shared, captured, history>>

Next ==
  \E c \in Clients :
    \/ Connect(c)
    \/ SendFrame(c)
    \/ Leave(c)
    \/ ReadHello(c)
    \/ ReadFrame(c)
    \/ PlaceWaitingFrame(c)
    \/ Disconnect(c)
    \/ HandlerRaises(c)
    \/ Take(c)
    \/ ObserveFails(c)
    \/ Discard(c)
    \/ Publish(c)
    \/ Ingest(c)
    \/ AnnotatingFails(c)

Spec == Init /\ [][Next]_vars

-----------------------------------------------------------------------------
(* Properties *)

AllFrames == [client : Clients, number : 1..MaxCaptured]

Works ==
  [stage : {"observing", "annotating"}, frame : AllFrames,
   pack : Clients \cup {Nothing}]

\* The variables hold values of their kind, a handler only its own frames, and
\* only a handler that runs has frames or a worker that works.
TypeOK ==
  /\ client \in [Clients -> {"new", "live", "gone"}]
  /\ handler \in [Clients -> {"none", "open", "waiting", "ended"}]
  /\ transit \in [Clients -> Seq(AllFrames \cup {Hello})]
  /\ pending \in [Clients -> AllFrames \cup {Nothing}]
  /\ newest \in [Clients -> AllFrames \cup {Nothing}]
  /\ work \in [Clients -> Works \cup {Nothing}]
  /\ status \in {"CONNECTED", "DISCONNECTED"}
  /\ greeted \in Clients \cup {Nothing}
  /\ latestVision \in AllFrames \cup {Nothing}
  /\ ingested \subseteq
       [frame : AllFrames, pack : Clients \cup {Nothing}, run : Clients \cup {Nothing}]
  /\ captured \in 0..MaxCaptured
  /\ overlapped \in BOOLEAN
  /\ raised \in BOOLEAN
  /\ \A c \in Clients :
       /\ \A i \in DOMAIN transit[c] : transit[c][i] # Hello => transit[c][i].client = c
       /\ pending[c] # Nothing => pending[c].client = c
       /\ work[c] # Nothing => work[c].frame.client = c
       /\ ~HandlerRuns(c) =>
            transit[c] = <<>> /\ pending[c] = Nothing /\ work[c] = Nothing

\* When nobody is connected any more the status says so, in whatever order the
\* handlers have found out and whatever they have read last; unless a handler
\* has ended with an exception of its own, which updates no status.
NobodyConnectedIsShown ==
  ~raised /\ (\A c \in Clients : ~HandlerRuns(c)) => status = "DISCONNECTED"

\* README.md:76: the dashboard shows the connection of the Bridge.  When handlers
\* did not overlap, a client that is there is not shown as disconnected.
StatusShowsConnection ==
  ~overlapped => \A c \in Clients : HandlerRuns(c) => status = "CONNECTED"

\* host-bridge/README.md:56: BRIDGE_RUN_ID identifies the live run.  When handlers
\* did not overlap, the frames of a client are observed with the profile, and
\* ingested into the run, of its own hello.
FrameGoesToItsRun ==
  ~overlapped => \A i \in ingested : i.pack = i.frame.client /\ i.run = i.frame.client

\* README.md:65: latest-vision has the newest vision.  A handler that has ended
\* publishes nothing any more, the vision of one client never goes back to a
\* frame captured before, nor does that of any client when handlers did not
\* overlap.
LatestVisionIsNewest ==
  [][latestVision' # latestVision =>
       /\ HandlerRuns(latestVision'.client)
       /\ \/ latestVision = Nothing
          \/ overlapped /\ latestVision'.client # latestVision.client
          \/ latestVision'.number > latestVision.number]_vars

\* README.md:76: the dashboard shows the connection of the Bridge: as connected
\* exactly while a client has its handler.  It does not: a handler that ends
\* with an exception of its own leaves the status as it was (main.py:1007), and
\* one that ends late marks the next client as disconnected (main.py:1009).
StatusIsTheConnection ==
  status = "CONNECTED" <=> \E c \in Clients : HandlerRuns(c)
=============================================================================
