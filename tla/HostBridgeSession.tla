--------------------------- MODULE HostBridgeSession ---------------------------
(***************************************************************************)
(* The session of the Host Bridge with the Core                            *)
(* (src/host-bridge/src/AgenticGaming.HostBridge/CoreWebSocketClient.cs)   *)
(* after the connection is made: the frame loop, the receiver of           *)
(* annotations and the audio task, which share one socket, one send gate   *)
(* and one cancellation, and the overlay both of the first two write to.   *)
(*                                                                         *)
(* A frame is its number; 0 is no frame.  An await is a value of the       *)
(* task's variable, a step is the code from one await to the next.         *)
(***************************************************************************)
EXTENDS Integers, Sequences

CONSTANTS
  SafeCapture,    \* _options.SafeCapture: hide the overlay before a capture
  MaxFrames       \* bound: frames captured

ASSUME SessionAssumption ==
  /\ SafeCapture \in BOOLEAN
  /\ MaxFrames \in Nat

VARIABLES
  loop,           \* where the frame loop of RunAsync stands
  receiver,       \* where ReceiveLoopAsync stands
  audio,          \* where RunAudioAsync stands; "none" without audio
  cancelled,      \* linkedCancellation
  gate,           \* _sendGate: the task that holds it, or "free"
  socket,         \* "open", "closeReceived", "aborted" or "closed"
  captured,       \* the newest frame captured
  overlay,        \* _currentFrameId, the frame of _annotations, Visible
  sent,           \* the newest frame sent to the Core
  answered,       \* the newest frame the Core has sent annotations of
  inbound,        \* annotations on their way to the receiver
  showing         \* the annotations the receiver hands to the overlay

wire == <<sent, answered, inbound, showing>>
vars == <<loop, receiver, audio, cancelled, gate, socket, captured, overlay, wire>>

Over == {"done", "failed"}
Awaits == {"hiding", "capturing", "updating", "gate", "sending", "delay"}

TypeOK ==
  /\ loop \in {"top", "closing", "closingAudio", "handshake", "ended"} \cup Awaits
  /\ receiver \in {"reading", "showing"} \cup Over
  /\ audio \in {"none", "listening", "gate", "sending"} \cup Over
  /\ cancelled \in BOOLEAN
  /\ gate \in {"free", "loop", "audio"}
  /\ socket \in {"open", "closeReceived", "aborted", "closed"}
  /\ captured \in Nat /\ sent \in Nat /\ answered \in Nat /\ showing \in Nat
  /\ overlay \in [frame : Nat, boxes : Nat, visible : BOOLEAN]
  /\ inbound \in Seq(Nat)

Init ==
  /\ loop = "top"
  /\ receiver = "reading"
  /\ audio \in {"none", "listening"}
  /\ cancelled = FALSE
  /\ gate = "free"
  /\ socket = "open"
  /\ captured = 0
  /\ overlay = [frame |-> 0, boxes |-> 0, visible |-> FALSE]
  /\ sent = 0 /\ answered = 0 /\ inbound = <<>> /\ showing = 0

-----------------------------------------------------------------------------
(* The frame loop *)

\* The finally block begins: it cancels whatever ended the loop.
Leave ==
  /\ loop' = "closing"
  /\ cancelled' = TRUE

\* The checks at the head of the loop.
NextRound ==
  /\ loop = "top"
  /\ IF cancelled \/ receiver \in Over \/ audio \in Over
       THEN Leave
       ELSE /\ loop' = IF SafeCapture THEN "hiding" ELSE "capturing"
            /\ UNCHANGED cancelled
  /\ UNCHANGED <<receiver, audio, gate, socket, captured, overlay, wire>>

HideOverlay ==
  /\ loop = "hiding"
  /\ loop' = "capturing"
  /\ overlay' = [overlay EXCEPT !.visible = FALSE]
  /\ UNCHANGED <<receiver, audio, cancelled, gate, socket, captured, wire>>

\* CaptureAsync returns when the compositor has delivered a picture, which it
\* need not do: WaitForBitmapAsync polls until it is cancelled.
TakePicture ==
  /\ loop = "capturing"
  /\ captured < MaxFrames
  /\ captured' = captured + 1
  /\ loop' = "updating"
  /\ UNCHANGED <<receiver, audio, cancelled, gate, socket, overlay, wire>>

\* OverlayWindow.Update: annotations of another frame are dropped.
Updated(frame) ==
  [frame |-> frame,
   boxes |-> IF overlay.boxes = frame THEN frame ELSE 0,
   visible |-> TRUE]

UpdateOverlay ==
  /\ loop = "updating"
  /\ loop' = "gate"
  /\ overlay' = Updated(captured)
  /\ UNCHANGED <<receiver, audio, cancelled, gate, socket, captured, wire>>

LoopTakesGate ==
  /\ loop = "gate"
  /\ gate = "free"
  /\ gate' = "loop"
  /\ loop' = "sending"
  /\ UNCHANGED <<receiver, audio, cancelled, socket, captured, overlay, wire>>

SendFrame ==
  /\ loop = "sending"
  /\ socket \in {"open", "closeReceived"}
  /\ sent' = captured
  /\ gate' = "free"
  /\ loop' = "delay"
  /\ UNCHANGED <<receiver, audio, cancelled, socket, captured, overlay,
                 answered, inbound, showing>>

DelayEnds ==
  /\ loop = "delay"
  /\ loop' = "top"
  /\ UNCHANGED <<receiver, audio, cancelled, gate, socket, captured, overlay, wire>>

\* An await raises and the finally block of SendAsync lets the gate go.  A send
\* that is cancelled aborts the socket, one that fails leaves it aborted.
LoopRaises ==
  /\ Leave
  /\ gate' = IF gate = "loop" THEN "free" ELSE gate
  /\ socket' = IF loop = "sending" THEN "aborted" ELSE socket
  /\ UNCHANGED <<receiver, audio, captured, overlay, wire>>

LoopIsCancelled == cancelled /\ loop \in Awaits /\ LoopRaises

\* The window is gone, the overlay's thread has stopped, or the socket is broken.
LoopFails == loop \in {"hiding", "capturing", "updating", "sending"} /\ LoopRaises

\* await receiver: an exception that is not a cancellation leaves RunAsync there.
AwaitReceiver ==
  /\ loop = "closing"
  /\ receiver \in Over
  /\ loop' = IF receiver = "failed" THEN "ended" ELSE "closingAudio"
  /\ socket' = IF receiver = "failed" THEN "closed" ELSE socket
  /\ UNCHANGED <<receiver, audio, cancelled, gate, captured, overlay, wire>>

AwaitAudio ==
  /\ loop = "closingAudio"
  /\ audio \in Over \cup {"none"}
  /\ loop' = IF audio = "failed" THEN "ended" ELSE "handshake"
  /\ socket' = IF audio = "failed" THEN "closed" ELSE socket
  /\ UNCHANGED <<receiver, audio, cancelled, gate, captured, overlay, wire>>

\* CloseAsync, if the socket is still open, and the end of using.
CloseSocket ==
  /\ loop = "handshake"
  /\ loop' = "ended"
  /\ socket' = "closed"
  /\ UNCHANGED <<receiver, audio, cancelled, gate, captured, overlay, wire>>

-----------------------------------------------------------------------------
(* The receiver; messages other than annotations are only logged *)

ReceiveAnnotations ==
  /\ receiver = "reading"
  /\ ~cancelled
  /\ inbound # <<>>
  /\ receiver' = "showing"
  /\ showing' = Head(inbound)
  /\ inbound' = Tail(inbound)
  /\ UNCHANGED <<loop, audio, cancelled, gate, socket, captured, overlay, sent, answered>>

\* Broken on purpose: the frame of the annotations is not compared.
ShowAnyAnnotations ==
  /\ receiver = "showing"
  /\ receiver' = "reading"
  /\ overlay' = [overlay EXCEPT !.boxes = showing]
  /\ showing' = 0
  /\ UNCHANGED <<loop, audio, cancelled, gate, socket, captured, sent, answered, inbound>>

\* OverlayWindow.UpdateAnnotations ignores those of a frame that is not current.
ShowAnnotations ==
  /\ receiver = "showing"
  /\ receiver' = "reading"
  /\ overlay' = IF showing = overlay.frame
                  THEN [overlay EXCEPT !.boxes = showing] ELSE overlay
  /\ showing' = 0
  /\ UNCHANGED <<loop, audio, cancelled, gate, socket, captured, sent, answered, inbound>>

\* The Core has closed the connection.
ReceiveClose ==
  /\ receiver = "reading"
  /\ socket = "closeReceived"
  /\ inbound = <<>>
  /\ receiver' = "done"
  /\ UNCHANGED <<loop, audio, cancelled, gate, socket, captured, overlay, wire>>

\* The token is seen at the head of the loop or cancels an await; a
\* ReceiveAsync that is cancelled aborts the socket.
ReceiverIsCancelled ==
  /\ cancelled
  /\ receiver \in {"reading", "showing"}
  /\ receiver' = "done"
  /\ \/ UNCHANGED socket
     \/ /\ receiver = "reading" /\ socket = "open"
        /\ socket' = "aborted"
  /\ UNCHANGED <<loop, audio, cancelled, gate, captured, overlay, wire>>

\* The connection breaks, a message is not JSON, or the overlay is gone.
ReceiverFails ==
  /\ receiver \in {"reading", "showing"}
  /\ receiver' = "failed"
  /\ UNCHANGED <<loop, audio, cancelled, gate, socket, captured, overlay, wire>>

-----------------------------------------------------------------------------
(* The audio task *)

\* A chunk is full and has been written to AudioLatestPath, which takes the token.
ChunkIsFull ==
  /\ audio = "listening"
  /\ ~cancelled
  /\ audio' = "gate"
  /\ UNCHANGED <<loop, receiver, cancelled, gate, socket, captured, overlay, wire>>

AudioTakesGate ==
  /\ audio = "gate"
  /\ gate = "free"
  /\ gate' = "audio"
  /\ audio' = "sending"
  /\ UNCHANGED <<loop, receiver, cancelled, socket, captured, overlay, wire>>

SendChunk ==
  /\ audio = "sending"
  /\ socket \in {"open", "closeReceived"}
  /\ gate' = "free"
  /\ audio' = "listening"
  /\ UNCHANGED <<loop, receiver, cancelled, socket, captured, overlay, wire>>

\* Broken on purpose: the frame loop alone looks whether the task has ended.
AudioEndsAlone(how) ==
  /\ audio \in {"listening", "gate", "sending"}
  /\ audio' = how
  /\ gate' = IF gate = "audio" THEN "free" ELSE gate
  /\ socket' = IF audio = "sending" THEN "aborted" ELSE socket
  /\ UNCHANGED <<loop, receiver, cancelled, captured, overlay, wire>>

\* The task ends, and its continuation cancels the session.
AudioEnds(how) ==
  /\ audio \in {"listening", "gate", "sending"}
  /\ audio' = how
  /\ cancelled' = TRUE
  /\ gate' = IF gate = "audio" THEN "free" ELSE gate
  /\ socket' = IF audio = "sending" THEN "aborted" ELSE socket
  /\ UNCHANGED <<loop, receiver, captured, overlay, wire>>

AudioIsCancelled == cancelled /\ AudioEnds("done")

\* The recorder stops, or raises; a write or a send raises.
RecordingStops == audio = "listening" /\ AudioEnds("done")
AudioFails == audio # "gate" /\ AudioEnds("failed")

-----------------------------------------------------------------------------
(* What is around the session *)

\* Ctrl+C: the token of Program.cs, to which linkedCancellation is linked.
UserStops ==
  /\ loop # "ended"
  /\ ~cancelled
  /\ cancelled' = TRUE
  /\ UNCHANGED <<loop, receiver, audio, gate, socket, captured, overlay, wire>>

\* The Core annotates frames it has, each once, in their order (LatestFrameWins).
CoreAnnotates ==
  /\ socket = "open"
  /\ \E frame \in (answered + 1) .. sent :
       /\ answered' = frame
       /\ inbound' = Append(inbound, frame)
  /\ UNCHANGED <<loop, receiver, audio, cancelled, gate, socket, captured,
                 overlay, sent, showing>>

CoreCloses ==
  /\ socket = "open"
  /\ socket' = "closeReceived"
  /\ UNCHANGED <<loop, receiver, audio, cancelled, gate, captured, overlay, wire>>

-----------------------------------------------------------------------------

\* Steps the runtime takes without anything from outside.
LoopGoesOn ==
  \/ NextRound \/ HideOverlay \/ UpdateOverlay \/ LoopTakesGate \/ SendFrame
  \/ DelayEnds \/ LoopIsCancelled
  \/ AwaitReceiver \/ AwaitAudio \/ CloseSocket

ReceiverGoesOn ==
  ReceiveAnnotations \/ ShowAnnotations \/ ReceiveClose \/ ReceiverIsCancelled

AudioGoesOn == AudioTakesGate \/ SendChunk \/ AudioIsCancelled

Next ==
  \/ LoopGoesOn \/ TakePicture \/ LoopFails
  \/ ReceiverGoesOn \/ ReceiverFails
  \/ AudioGoesOn \/ ChunkIsFull \/ RecordingStops \/ AudioFails
  \/ UserStops \/ CoreAnnotates \/ CoreCloses

Spec == Init /\ [][Next]_vars

(* A picture, a chunk, a failure, a stop and what the Core does are not to be  *)
(* counted on.  That a task whose await is over, or cancelled, goes on is the  *)
(* scheduler's; that CloseAsync ends is the Core's, which answers a close.     *)
(* _sendGate serves those that wait in their order, so that none is passed     *)
(* over for ever.                                                              *)
FairSpec ==
  /\ Spec
  /\ WF_vars(LoopGoesOn) /\ WF_vars(ReceiverGoesOn) /\ WF_vars(AudioGoesOn)
  /\ SF_vars(LoopTakesGate)

-----------------------------------------------------------------------------

\* The overlay has every frame before the Core can answer it, so that no
\* annotations come too early and are ignored (UpdateAsync before SendAsync);
\* and what it draws is of the frame it has, over both tasks that write to it.
AnnotationsArePunctual ==
  /\ \A i \in DOMAIN inbound : inbound[i] <= overlay.frame
  /\ receiver = "showing" => showing <= overlay.frame
  /\ overlay.boxes \in {0, overlay.frame}

AllOver == loop = "ended" /\ receiver \in Over /\ audio \in Over \cup {"none"}

\* Whatever ends first ends the rest: after a stop, or when the audio task ends
\* for any reason, all three tasks end; when the receiver ends, they do unless
\* the frame loop goes on waiting for a picture that does not come.
OneEndsAll ==
  /\ cancelled ~> AllOver
  /\ audio \in Over ~> AllOver
  /\ receiver \in Over ~> (AllOver \/ [](loop = "capturing"))

=============================================================================
