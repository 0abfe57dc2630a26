---------------------------- MODULE VisionPipeline ----------------------------
(***************************************************************************)
(* The vision path of the Core's /ws/host-bridge handler                   *)
(* (src/src/agentic_gaming/main.py, host_bridge): the receive loop that    *)
(* takes frames from the Host Bridge, the one-slot mailbox pending_frame,  *)
(* and the vision_worker task that analyses the newest frame in a thread   *)
(* and publishes the result.                                               *)
(*                                                                         *)
(* Two coroutines share the state: Intake (the receive loop) and Worker.   *)
(* They interleave only where the code awaits: a reply being sent, the     *)
(* pending_frame_event, a busy pending_frame_lock, the analysis thread and *)
(* the event bus.  Code between two awaits is one action.                  *)
(*                                                                         *)
(* pending_frame_lock is an asyncio.Lock: taking it when it is free does   *)
(* not suspend, and release hands it to the coroutine that waits.  Only    *)
(* the worker awaits anything while it owns the lock, so only the receive  *)
(* loop can have to wait for it.                                           *)
(* send_lock is as fair, so replies reach the wire in the order in which   *)
(* they are requested, and outbound records a reply when it is requested.  *)
(*                                                                         *)
(* A client that reconnects gets a fresh set of the handler's local        *)
(* variables.  Here a connection is over before the next one starts.       *)
(***************************************************************************)
EXTENDS Naturals, Sequences

CONSTANT MaxFrames     \* bound: frames received over all connections

ASSUME MaxFramesAssumption == MaxFrames \in Nat \ {0}

VARIABLES
  \* app.state, shared by all connections
  status,              \* bridge["status"]
  framesReceived,      \* bridge["frames_received"]
  framesDropped,       \* bridge["vision_frames_dropped"]
  visionStatus,        \* bridge["vision_status"]; READY stands for DEGRADED too
  runKnown,            \* bridge["run_id"] names a run of app.state.runs
  latestVision,        \* frame of latest_vision and latest_vision_frame_bytes
  ingested,            \* frame last ingested into a run's WorldState
  emitted,             \* frame of the last perception.vision.state event
  \* files in bridge_dir
  diskFrame,           \* frame in latest-vision-frame.png
  diskVision,          \* frame in latest-vision.json
  \* local variables of host_bridge
  connection,
  latestFrameSequence, \* next_frame_sequence and latest_frame_sequence
  pendingFrame,
  pendingFrameEvent,
  lockOwner,           \* pending_frame_lock
  outbound,            \* frame_ack and vision_annotations replies, oldest first
  intake,              \* where the receive loop is
  worker,              \* where vision_worker is
  frame,               \* the frame vision_worker has taken
  \* history
  published, failed, lost

shared  == <<status, framesReceived, framesDropped, visionStatus, runKnown,
             latestVision, ingested, emitted>>
files   == <<diskFrame, diskVision>>
mailbox == <<latestFrameSequence, pendingFrame, pendingFrameEvent>>
history == <<published, failed, lost>>
vars    == <<shared, files, connection, mailbox, lockOwner, outbound, intake,
             worker, frame, history>>

Ack(n)         == [type |-> "frame_ack", frame |-> n]
Annotations(n) == [type |-> "vision_annotations", frame |-> n]

\* A frame is known by its number: the value of frames_received it brought.
Frame    == [id : 1..MaxFrames, sequence : 1..MaxFrames]
NoFrame  == [id |-> 0, sequence |-> 0]
Messages == [type : {"frame_ack", "vision_annotations"}, frame : 1..MaxFrames]

One(condition) == IF condition THEN 1 ELSE 0

\* The worker holds a frame whose fate is open.
Analysing == worker = "observe"

Init ==
  /\ status = "DISCONNECTED"
  /\ framesReceived = 0
  /\ framesDropped = 0
  /\ visionStatus = "DISABLED"
  /\ runKnown = FALSE
  /\ latestVision = 0
  /\ ingested = 0
  /\ emitted = 0
  /\ diskFrame = 0
  /\ diskVision = 0
  /\ connection = "closed"
  /\ latestFrameSequence = 0
  /\ pendingFrame = NoFrame
  /\ pendingFrameEvent = FALSE
  /\ lockOwner = "none"
  /\ outbound = <<>>
  /\ intake = "receive"
  /\ worker = "wait"
  /\ frame = NoFrame
  /\ published = 0
  /\ failed = 0
  /\ lost = 0

-----------------------------------------------------------------------------
(* pending_frame_lock *)

LockFree == lockOwner = "none"

\* Leaving the "async with": the receive loop owns the lock next if it waits.
Release == lockOwner' = IF intake = "place" THEN "intake" ELSE "none"

-----------------------------------------------------------------------------
(* The connection *)

\* Token accepted: fresh local variables and a new worker task.
Connect ==
  /\ connection = "closed"
  /\ connection' = "open"
  /\ status' = "CONNECTED"
  /\ UNCHANGED <<framesReceived, framesDropped, visionStatus, runKnown,
                 latestVision, ingested, emitted, files, mailbox, lockOwner,
                 outbound, intake, worker, frame, history>>

\* The handler's finally block: the worker is cancelled at the await it is in.
\* The slot, a frame under analysis (its thread runs on, its result is
\* thrown away) and a frame still waiting for the lock are gone, uncounted.
\* Local variables are shown as the next connection will find them.
Teardown(arriving) ==
  /\ connection' = "closed"
  /\ lost' = lost + One(pendingFrame # NoFrame) + One(Analysing) + One(arriving)
  /\ latestFrameSequence' = 0
  /\ pendingFrame' = NoFrame
  /\ pendingFrameEvent' = FALSE
  /\ lockOwner' = "none"
  /\ outbound' = <<>>
  /\ intake' = "receive"
  /\ worker' = "wait"
  /\ frame' = NoFrame
  /\ UNCHANGED <<framesDropped, visionStatus, runKnown, latestVision, ingested,
                 emitted, files, published, failed>>

\* receive_json or a send raises WebSocketDisconnect.
Disconnect ==
  /\ connection = "open"
  /\ intake \in {"receive", "send"}
  /\ status' = "DISCONNECTED"
  /\ Teardown(FALSE)
  /\ UNCHANGED framesReceived

\* Any other exception ends the handler without the DISCONNECTED update: text
\* that is not JSON, latest.png that cannot be written, a captured_at_ns that
\* int() rejects ...
HandlerRaises ==
  /\ connection = "open"
  /\ intake = "receive"
  /\ Teardown(FALSE)
  /\ UNCHANGED <<status, framesReceived>>

\* ... or a width or height that int() rejects, with the frame counted already
\* and pending_frame_lock held.
PlacingRaises ==
  /\ connection = "open"
  /\ \/ /\ intake = "receive"
        /\ LockFree
        /\ framesReceived < MaxFrames
        /\ framesReceived' = framesReceived + 1
     \/ /\ intake = "place"
        /\ lockOwner = "intake"
        /\ UNCHANGED framesReceived
  /\ status' = "CONNECTED"
  /\ Teardown(TRUE)

-----------------------------------------------------------------------------
(* The receive loop *)

\* Broken on purpose: the event is set only for a frame that replaces another.
NotifyWhenReplacing == pendingFrameEvent' = (pendingFrame # NoFrame)

\* pending_frame_event.set()
Notify == pendingFrameEvent' = TRUE

\* Broken on purpose: a frame under analysis counts as replaced too.
CountReplacedOrAnalysed ==
  framesDropped' = framesDropped + One(pendingFrame # NoFrame \/ Analysing)

\* vision_frames_dropped grows when the slot was not empty.
CountReplaced == framesDropped' = framesDropped + One(pendingFrame # NoFrame)

\* With the lock: the frame goes into the slot, replacing one the worker has
\* not taken, and wakes the worker; it is acknowledged.
Place(number) ==
  /\ latestFrameSequence' = latestFrameSequence + 1
  /\ pendingFrame' = [id |-> number, sequence |-> latestFrameSequence + 1]
  /\ Notify
  /\ CountReplaced
  /\ lockOwner' = "none"
  /\ outbound' = Append(outbound, Ack(number))
  /\ intake' = "send"

\* A well-formed frame message.  When the worker owns the lock the frame waits.
ReceiveFrame ==
  /\ connection = "open"
  /\ intake = "receive"
  /\ framesReceived < MaxFrames
  /\ status' = "CONNECTED"
  /\ framesReceived' = framesReceived + 1
  /\ \/ /\ LockFree
        /\ Place(framesReceived + 1)
     \/ /\ ~LockFree
        /\ intake' = "place"
        /\ UNCHANGED <<mailbox, framesDropped, outbound, lockOwner>>
  /\ UNCHANGED <<visionStatus, runKnown, latestVision, ingested, emitted, files,
                 connection, worker, frame, history>>

\* The lock has come to the receive loop.  The waiting frame is the last one
\* received: the loop reads nothing meanwhile.
PlaceWaitingFrame ==
  /\ connection = "open"
  /\ intake = "place"
  /\ lockOwner = "intake"
  /\ Place(framesReceived)
  /\ UNCHANGED <<status, framesReceived, visionStatus, runKnown, latestVision,
                 ingested, emitted, files, connection, worker, frame, history>>

\* hello names a run, or none that exists, and is acknowledged.
Hello ==
  /\ connection = "open"
  /\ intake = "receive"
  /\ runKnown' \in BOOLEAN
  /\ intake' = "send"
  /\ UNCHANGED <<status, framesReceived, framesDropped, visionStatus, latestVision,
                 ingested, emitted, files, connection, mailbox, lockOwner,
                 outbound, worker, frame, history>>

\* A frame whose data_base64 is missing or broken: an error reply, no frame.
RejectFrame ==
  /\ connection = "open"
  /\ intake = "receive"
  /\ intake' = "send"
  /\ UNCHANGED <<shared, files, connection, mailbox, lockOwner, outbound, worker,
                 frame, history>>

\* The reply has been handed to the transport.
ReplySent ==
  /\ connection = "open"
  /\ intake = "send"
  /\ intake' = "receive"
  /\ UNCHANGED <<shared, files, connection, mailbox, lockOwner, outbound, worker,
                 frame, history>>

-----------------------------------------------------------------------------
(* vision_worker *)

\* The event is set; with the lock, the worker takes the frame from the slot.
WorkerTakes ==
  /\ connection = "open"
  /\ worker = "wait"
  /\ pendingFrameEvent
  /\ LockFree
  /\ frame' = pendingFrame
  /\ pendingFrame' = NoFrame
  /\ pendingFrameEvent' = FALSE
  /\ worker' = IF pendingFrame # NoFrame THEN "observe" ELSE "wait"
  /\ UNCHANGED <<shared, files, connection, latestFrameSequence, lockOwner, outbound,
                 intake, history>>

\* Broken on purpose: the worker goes back to waiting with its frame in hand.
FrameDoneButKept ==
  /\ worker' = "wait"
  /\ UNCHANGED frame

\* process_latest_frame is over and the worker waits for the next event.
FrameDone ==
  /\ worker' = "wait"
  /\ frame' = NoFrame

\* The except clause of process_latest_frame, for a frame that never became
\* visible.
Fail ==
  /\ FrameDone
  /\ visionStatus' = "ERROR"
  /\ failed' = failed + 1
  /\ UNCHANGED <<published, lost, framesDropped, latestVision, outbound>>

\* Unknown game pack, or an exception from observe in its thread.
ObserveFails ==
  /\ connection = "open"
  /\ worker = "observe"
  /\ Fail
  /\ UNCHANGED <<status, framesReceived, runKnown, ingested, emitted, files,
                 connection, mailbox, lockOwner, intake>>

\* Broken on purpose: the comparison the wrong way round, and a frame that
\* carries the sequence number of the one before it.
OlderFrameIsPending == frame.sequence > latestFrameSequence
NextFrameIsPending == pendingFrame # NoFrame \/ frame.sequence + 1 # latestFrameSequence

NewerFrameIsPending ==
  pendingFrame # NoFrame \/ frame.sequence # latestFrameSequence

\* Broken on purpose: the vision state is served before it is judged.
DiscardAfterServing ==
  /\ NewerFrameIsPending
  /\ FrameDone
  /\ framesDropped' = framesDropped + 1
  /\ latestVision' = frame.id
  /\ UNCHANGED <<files, visionStatus, outbound, lockOwner, history>>

\* The analysis is discarded because a newer frame was received.
Discard ==
  /\ NewerFrameIsPending
  /\ FrameDone
  /\ framesDropped' = framesDropped + 1
  /\ UNCHANGED <<files, visionStatus, latestVision, outbound, lockOwner, history>>

\* Broken on purpose: the lock is released before the annotations are sent.
AnswerUnlocked == lockOwner' = lockOwner

\* send and emit are awaited inside the "async with".
AnswerLocked == lockOwner' = "worker"

\* The analysis is published: files first, then memory and status, then the
\* annotations are sent, with the lock still held.
Publish ==
  /\ ~NewerFrameIsPending
  /\ diskFrame' = frame.id
  /\ diskVision' = frame.id
  /\ latestVision' = frame.id
  /\ visionStatus' = "READY"
  /\ outbound' = Append(outbound, Annotations(frame.id))
  /\ published' = published + 1
  /\ AnswerLocked
  /\ worker' = "annotate"
  /\ UNCHANGED <<framesDropped, frame, failed, lost>>

\* Broken on purpose: latest-vision.json is written first.
PublishFailsStateFirst ==
  /\ ~NewerFrameIsPending
  /\ diskVision' \in {diskVision, frame.id}
  /\ UNCHANGED <<diskFrame, lockOwner>>
  /\ Fail

\* One of the two files cannot be written; the first may have been.
PublishFails ==
  /\ ~NewerFrameIsPending
  /\ diskFrame' \in {diskFrame, frame.id}
  /\ UNCHANGED <<diskVision, lockOwner>>
  /\ Fail

\* observe has returned; with the lock, its result is judged.
ObserveReturns ==
  /\ connection = "open"
  /\ worker = "observe"
  /\ LockFree
  /\ Discard \/ Publish \/ PublishFails
  /\ UNCHANGED <<status, framesReceived, runKnown, ingested, emitted, connection,
                 mailbox, intake>>

\* Broken on purpose: the lock is not released when answering raises.
FailAfterPublishingLocked ==
  /\ FrameDone
  /\ visionStatus' = "ERROR"
  /\ UNCHANGED lockOwner

\* An exception after the frame has been published: only the status shows it.
FailAfterPublishing ==
  /\ FrameDone
  /\ visionStatus' = "ERROR"
  /\ Release

\* The annotations are out; a known run takes the vision state and starts to
\* publish its event.  run_id is read only now.
AnnotationsSent ==
  /\ connection = "open"
  /\ worker = "annotate"
  /\ \/ /\ runKnown
        /\ ingested' = frame.id
        /\ worker' = "emit"
        /\ UNCHANGED <<lockOwner, frame>>
     \/ /\ ~runKnown
        /\ FrameDone
        /\ Release
        /\ UNCHANGED ingested
  /\ UNCHANGED <<status, framesReceived, framesDropped, visionStatus, runKnown,
                 latestVision, emitted, files, connection, mailbox, outbound,
                 intake, history>>

EventPublished ==
  /\ connection = "open"
  /\ worker = "emit"
  /\ emitted' = frame.id
  /\ FrameDone
  /\ Release
  /\ UNCHANGED <<status, framesReceived, framesDropped, visionStatus, runKnown,
                 latestVision, ingested, files, connection, mailbox, outbound,
                 intake, history>>

\* The send or the event bus raises.
AnsweringFails ==
  /\ connection = "open"
  /\ worker \in {"annotate", "emit"}
  /\ FailAfterPublishing
  /\ UNCHANGED <<status, framesReceived, framesDropped, runKnown, latestVision,
                 ingested, emitted, files, connection, mailbox, outbound, intake,
                 history>>

-----------------------------------------------------------------------------
Intake == \/ ReceiveFrame \/ PlaceWaitingFrame \/ Hello \/ RejectFrame \/ ReplySent
Worker == \/ WorkerTakes \/ ObserveReturns \/ ObserveFails
          \/ AnnotationsSent \/ EventPublished \/ AnsweringFails
Ending == Disconnect \/ HandlerRaises \/ PlacingRaises

Next == Connect \/ Intake \/ Worker \/ Ending

Spec == Init /\ [][Next]_vars

\* The event loop runs every coroutine that is ready, the locks are served in
\* order, the analysis of a frame ends, and a send or a publish ends or raises.
\* Nobody promises that a frame arrives or that a connection is made or kept.
Fairness ==
  /\ WF_vars(Worker)
  /\ WF_vars(PlaceWaitingFrame)
  /\ WF_vars(ReplySent)

FairSpec == Spec /\ Fairness

-----------------------------------------------------------------------------
(* Properties *)

SharedTypeOK ==
  /\ status \in {"CONNECTED", "DISCONNECTED"}
  /\ framesReceived \in 0..MaxFrames
  /\ framesDropped \in Nat
  /\ visionStatus \in {"DISABLED", "READY", "ERROR"}
  /\ runKnown \in BOOLEAN
  /\ latestVision \in 0..MaxFrames
  /\ ingested \in 0..MaxFrames
  /\ emitted \in 0..MaxFrames
  /\ diskFrame \in 0..MaxFrames
  /\ diskVision \in 0..MaxFrames

LocalTypeOK ==
  /\ connection \in {"open", "closed"}
  /\ latestFrameSequence \in 0..MaxFrames
  /\ pendingFrame \in Frame \cup {NoFrame}
  /\ pendingFrameEvent \in BOOLEAN
  /\ lockOwner \in {"none", "intake", "worker"}
  /\ intake \in {"receive", "place", "send"}
  /\ worker \in {"wait", "observe", "annotate", "emit"}
  /\ frame \in IF worker = "wait" THEN {NoFrame} ELSE Frame

HistoryTypeOK == published \in Nat /\ failed \in Nat /\ lost \in Nat

\* The variables hold values of their kind, and the worker holds a frame
\* exactly while it processes one.
TypeOK == SharedTypeOK /\ LocalTypeOK /\ outbound \in Seq(Messages) /\ HistoryTypeOK

\* Received frames whose fate is still open.
InTransit == One(intake = "place") + One(pendingFrame # NoFrame) + One(Analysing)

\* No frame is lost or counted twice: each frame counted in frames_received is
\* waiting, or was published, counted once in vision_frames_dropped, failed with
\* vision_status ERROR, or went with its connection.
FramesConserved ==
  framesReceived = framesDropped + published + failed + lost + InTransit

\* On the wire the annotations of a frame come straight after its frame_ack:
\* the client never sees annotations of a frame it has already replaced, nor
\* two annotations of one frame.
AnnotationFollowsItsAck ==
  \A i \in 1..Len(outbound) :
    outbound[i].type = "vision_annotations" =>
      i > 1 /\ outbound[i - 1] = Ack(outbound[i].frame)

\* The reply stream and the served vision state implement LatestFrameWins.
Promise == INSTANCE LatestFrameWins
             WITH wire <- outbound, latest <- latestVision, Frames <- 1..MaxFrames

PromiseKept == Promise!Spec

\* A run takes only the annotated frame that is still the newest one accepted
\* on the connection, and its event goes out before a newer frame is accepted:
\* the lock is held through the send and the publish.
RunTakesNewestFrame ==
  [][/\ ingested' # ingested =>
          ingested' > ingested /\ Promise!Newest = Annotations(ingested')
     /\ emitted' # emitted =>
          emitted' = ingested /\ Promise!Newest = Annotations(emitted')]_vars

\* The worker's event is set exactly while the slot holds a frame, so that a
\* frame put into the slot wakes the worker and an empty slot does not.
NoLostWakeup == pendingFrameEvent <=> pendingFrame # NoFrame

\* The worker owns the lock exactly while it answers for a published frame.
\* The receive loop waits only for an owner, and gets the lock when the worker
\* has nothing to take: so the worker itself never finds the lock taken.
LockDiscipline ==
  /\ lockOwner = "worker" <=> worker \in {"annotate", "emit"}
  /\ lockOwner = "intake" => intake = "place" /\ worker = "wait" /\ ~pendingFrameEvent
  /\ intake = "place" => ~LockFree

\* What the API serves from memory has been written to disk, and the state on
\* disk is never newer than the picture on disk.
MemoryNotAheadOfDisk == latestVision <= diskVision /\ diskVision <= diskFrame

\* Frame n is in the slot or under analysis.
Held(n) == pendingFrame.id = n \/ (Analysing /\ frame.id = n)

\* A frame that nothing newer follows is never the one to be discarded, and the
\* worker gets to it: unless a newer frame is received, a frame fails or the
\* connection ends, it is published.
NewestFrameIsAnswered ==
  \A n \in 1..MaxFrames, k \in 0..MaxFrames :
    (Held(n) /\ failed = k) ~>
      (latestVision = n \/ framesReceived > n \/ failed > k \/ connection = "closed")

\* A frame that waits for the worker to let go of the lock is accepted, or the
\* connection ends: no path through the worker keeps the lock.
IntakeIsReleased == (intake = "place") ~> (intake # "place")
=============================================================================
