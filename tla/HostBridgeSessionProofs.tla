------------------------ MODULE HostBridgeSessionProofs ------------------------
(***************************************************************************)
(* Proofs about HostBridgeSession, for any number of frames.               *)
(*                                                                         *)
(* Annotations are not too early because the overlay is at least where the *)
(* Core is: what is sent is what the overlay has at that moment, and the   *)
(* overlay only goes forward.  Order says so.                              *)
(***************************************************************************)
EXTENDS HostBridgeSession, TLAPS

Order ==
  /\ answered <= sent
  /\ sent <= overlay.frame
  /\ overlay.frame <= captured
  /\ loop \in {"gate", "sending"} => overlay.frame = captured

Inv == TypeOK /\ AnnotationsArePunctual /\ Order

LEMMA InitInv == Init => Inv
  <1> SUFFICES ASSUME Init PROVE Inv
    OBVIOUS
  <1>1. TypeOK
    <2>1. /\ captured \in Nat /\ sent \in Nat /\ answered \in Nat /\ showing \in Nat
          /\ overlay \in [frame : Nat, boxes : Nat, visible : BOOLEAN]
          /\ inbound \in Seq(Nat)
      BY DEF Init
    <2> QED BY <2>1 DEF Init, TypeOK, Over, Awaits
  <1>2. AnnotationsArePunctual /\ Order
    BY DEF Init, AnnotationsArePunctual, Order
  <1> QED BY <1>1, <1>2 DEF Inv

\* The frame loop, but for the steps that touch the overlay or send.
LEMMA LoopKeepsInv ==
  ASSUME Inv,
         \/ NextRound \/ LoopTakesGate \/ DelayEnds \/ LoopIsCancelled
         \/ LoopFails \/ AwaitReceiver \/ AwaitAudio \/ CloseSocket
  PROVE  Inv'
  <1> USE DEF Inv
  <1>1. UNCHANGED <<captured, overlay, wire>>
    BY DEF NextRound, LoopTakesGate, DelayEnds, LoopIsCancelled, LoopFails,
           LoopRaises, AwaitReceiver, AwaitAudio, CloseSocket
  <1>2. receiver' = receiver
    BY DEF NextRound, LoopTakesGate, DelayEnds, LoopIsCancelled, LoopFails,
           LoopRaises, AwaitReceiver, AwaitAudio, CloseSocket
  <1>3. TypeOK'
    <2>1. CASE NextRound
      BY <2>1 DEF NextRound, Leave, TypeOK, Over, Awaits, wire
    <2>2. CASE LoopTakesGate \/ DelayEnds
      BY <2>2 DEF LoopTakesGate, DelayEnds, TypeOK, Over, Awaits, wire
    <2>3. CASE LoopIsCancelled \/ LoopFails
      BY <2>3 DEF LoopIsCancelled, LoopFails, LoopRaises, Leave, TypeOK, Over, Awaits, wire
    <2>4. CASE AwaitReceiver \/ AwaitAudio \/ CloseSocket
      BY <2>4 DEF AwaitReceiver, AwaitAudio, CloseSocket, TypeOK, Over, Awaits, wire
    <2> QED BY <2>1, <2>2, <2>3, <2>4
  <1>4. AnnotationsArePunctual'
    BY <1>1, <1>2 DEF AnnotationsArePunctual, wire
  <1>5. loop' \in {"gate", "sending"} => loop = "gate"
    BY DEF NextRound, LoopTakesGate, DelayEnds, LoopIsCancelled, LoopFails,
           LoopRaises, Leave, AwaitReceiver, AwaitAudio, CloseSocket
  <1>6. Order'
    BY <1>1, <1>5 DEF Order, wire
  <1> QED BY <1>3, <1>4, <1>6

\* A capture, an update of the overlay, and a send.
LEMMA FrameKeepsInv ==
  ASSUME Inv, HideOverlay \/ TakePicture \/ UpdateOverlay \/ SendFrame
  PROVE  Inv'
  <1> USE DEF Inv
  <1>1. CASE HideOverlay
    <2>1. overlay' \in [frame : Nat, boxes : Nat, visible : BOOLEAN]
            /\ overlay'.frame = overlay.frame /\ overlay'.boxes = overlay.boxes
      BY <1>1 DEF HideOverlay, TypeOK
    <2>2. TypeOK'
      BY <1>1, <2>1 DEF HideOverlay, TypeOK, Awaits, wire
    <2>3. AnnotationsArePunctual' /\ Order'
      BY <1>1, <2>1 DEF HideOverlay, AnnotationsArePunctual, Order, wire
    <2> QED BY <2>2, <2>3
  <1>2. CASE TakePicture
    <2>1. TypeOK'
      BY <1>2 DEF TakePicture, TypeOK, Awaits, wire
    <2>2. AnnotationsArePunctual'
      BY <1>2 DEF TakePicture, AnnotationsArePunctual, wire
    <2>3. Order'
      BY <1>2 DEF TakePicture, Order, TypeOK, wire
    <2> QED BY <2>1, <2>2, <2>3
  <1>3. CASE UpdateOverlay
    <2>1. overlay' \in [frame : Nat, boxes : Nat, visible : BOOLEAN]
            /\ overlay'.frame = captured /\ overlay'.boxes \in {0, captured}
      BY <1>3 DEF UpdateOverlay, Updated, TypeOK
    <2>2. TypeOK'
      BY <1>3, <2>1 DEF UpdateOverlay, TypeOK, Awaits, wire
    <2>3. \A i \in DOMAIN inbound : inbound[i] \in Nat
      BY DEF TypeOK
    <2>4. \A n \in Nat : n <= overlay.frame => n <= overlay'.frame
      BY <2>1 DEF Order, TypeOK
    <2>5. AnnotationsArePunctual'
      BY <1>3, <2>1, <2>3, <2>4 DEF UpdateOverlay, AnnotationsArePunctual, TypeOK, wire
    <2>6. Order'
      BY <1>3, <2>1, <2>4 DEF UpdateOverlay, Order, TypeOK, wire
    <2> QED BY <2>2, <2>5, <2>6
  <1>4. CASE SendFrame
    <2>1. TypeOK'
      BY <1>4 DEF SendFrame, TypeOK, Awaits
    <2>2. AnnotationsArePunctual'
      BY <1>4 DEF SendFrame, AnnotationsArePunctual
    <2>3. Order'
      BY <1>4 DEF SendFrame, Order, TypeOK
    <2> QED BY <2>1, <2>2, <2>3
  <1> QED BY <1>1, <1>2, <1>3, <1>4

LEMMA ReceiverKeepsInv ==
  ASSUME Inv, ReceiverGoesOn \/ ReceiverFails
  PROVE  Inv'
  <1> USE DEF Inv
  <1>1. CASE ReceiveAnnotations
    <2>1. inbound \in Seq(Nat) /\ inbound # <<>>
      BY <1>1 DEF ReceiveAnnotations, TypeOK
    <2>2. Head(inbound) \in Nat /\ Tail(inbound) \in Seq(Nat)
            /\ Head(inbound) = inbound[1] /\ 1 \in DOMAIN inbound
      BY <2>1
    <2>3. \A i \in DOMAIN Tail(inbound) : Tail(inbound)[i] = inbound[i + 1]
            /\ i + 1 \in DOMAIN inbound
      BY <2>1
    <2>4. TypeOK'
      BY <1>1, <2>2 DEF ReceiveAnnotations, TypeOK
    <2>5. AnnotationsArePunctual'
      BY <1>1, <2>2, <2>3 DEF ReceiveAnnotations, AnnotationsArePunctual
    <2>6. Order'
      BY <1>1 DEF ReceiveAnnotations, Order
    <2> QED BY <2>4, <2>5, <2>6
  <1>2. CASE ShowAnnotations
    <2>1. overlay' \in [frame : Nat, boxes : Nat, visible : BOOLEAN]
            /\ overlay'.frame = overlay.frame
            /\ overlay'.boxes \in {overlay.boxes, overlay.frame}
      BY <1>2 DEF ShowAnnotations, TypeOK
    <2>2. TypeOK'
      BY <1>2, <2>1 DEF ShowAnnotations, TypeOK
    <2>3. AnnotationsArePunctual'
      BY <1>2, <2>1 DEF ShowAnnotations, AnnotationsArePunctual
    <2>4. Order'
      BY <1>2, <2>1 DEF ShowAnnotations, Order
    <2> QED BY <2>2, <2>3, <2>4
  <1>3. CASE ReceiveClose \/ ReceiverIsCancelled \/ ReceiverFails
    <2>1. /\ UNCHANGED <<loop, audio, cancelled, gate, captured, overlay, wire>>
          /\ receiver' \in Over
      BY <1>3 DEF ReceiveClose, ReceiverIsCancelled, ReceiverFails, Over
    <2>2. socket' \in {socket, "aborted"}
      BY <1>3 DEF ReceiveClose, ReceiverIsCancelled, ReceiverFails
    <2>3. TypeOK'
      BY <2>1, <2>2 DEF TypeOK, wire
    <2>4. AnnotationsArePunctual' /\ Order'
      BY <2>1 DEF AnnotationsArePunctual, Order, Over, wire
    <2> QED BY <2>3, <2>4
  <1> QED BY <1>1, <1>2, <1>3 DEF ReceiverGoesOn

LEMMA AudioKeepsInv ==
  ASSUME Inv, AudioGoesOn \/ ChunkIsFull \/ RecordingStops \/ AudioFails
  PROVE  Inv'
  <1> USE DEF Inv
  <1> DEFINE AudioTypes ==
        /\ audio \in {"none", "listening", "gate", "sending"} \cup Over
        /\ cancelled \in BOOLEAN
        /\ gate \in {"free", "loop", "audio"}
        /\ socket \in {"open", "closeReceived", "aborted", "closed"}
  <1>1. UNCHANGED <<loop, receiver, captured, overlay, wire>> /\ AudioTypes'
    <2>1. CASE AudioTakesGate \/ SendChunk \/ ChunkIsFull
      BY <2>1 DEF AudioTakesGate, SendChunk, ChunkIsFull, TypeOK
    <2>2. CASE AudioIsCancelled \/ RecordingStops \/ AudioFails
      BY <2>2 DEF AudioIsCancelled, RecordingStops, AudioFails, AudioEnds, TypeOK, Over
    <2> QED BY <2>1, <2>2 DEF AudioGoesOn
  <1>2. TypeOK'
    BY <1>1 DEF TypeOK, wire
  <1>3. AnnotationsArePunctual' /\ Order'
    BY <1>1 DEF AnnotationsArePunctual, Order, wire
  <1> QED BY <1>2, <1>3

LEMMA OutsideKeepsInv ==
  ASSUME Inv, UserStops \/ CoreAnnotates \/ CoreCloses
  PROVE  Inv'
  <1> USE DEF Inv
  <1>1. CASE UserStops \/ CoreCloses
    <2>1. TypeOK'
      BY <1>1 DEF UserStops, CoreCloses, TypeOK, wire
    <2>2. AnnotationsArePunctual' /\ Order'
      BY <1>1 DEF UserStops, CoreCloses, AnnotationsArePunctual, Order, wire
    <2> QED BY <2>1, <2>2
  <1>2. CASE CoreAnnotates
    <2>1. PICK frame \in (answered + 1) .. sent :
            answered' = frame /\ inbound' = Append(inbound, frame)
      BY <1>2 DEF CoreAnnotates
    <2>2. frame \in Nat /\ frame <= sent /\ frame <= overlay.frame
      BY <2>1 DEF TypeOK, Order
    <2>3. inbound' \in Seq(Nat) /\ \A i \in DOMAIN inbound' :
            inbound'[i] = frame \/ (i \in DOMAIN inbound /\ inbound'[i] = inbound[i])
      BY <2>1, <2>2 DEF TypeOK
    <2>4. TypeOK'
      BY <1>2, <2>1, <2>2, <2>3 DEF CoreAnnotates, TypeOK
    <2>5. AnnotationsArePunctual'
      BY <1>2, <2>2, <2>3 DEF CoreAnnotates, AnnotationsArePunctual
    <2>6. Order'
      BY <1>2, <2>1, <2>2 DEF CoreAnnotates, Order
    <2> QED BY <2>4, <2>5, <2>6
  <1> QED BY <1>1, <1>2

LEMMA NextInv == Inv /\ [Next]_vars => Inv'
  <1> SUFFICES ASSUME Inv, [Next]_vars PROVE Inv'
    OBVIOUS
  <1>1. CASE UNCHANGED vars
    BY <1>1 DEF Inv, TypeOK, AnnotationsArePunctual, Order, vars, wire
  <1>2. CASE LoopGoesOn \/ TakePicture \/ LoopFails
    BY <1>2, LoopKeepsInv, FrameKeepsInv DEF LoopGoesOn
  <1>3. CASE ReceiverGoesOn \/ ReceiverFails
    BY <1>3, ReceiverKeepsInv
  <1>4. CASE AudioGoesOn \/ ChunkIsFull \/ RecordingStops \/ AudioFails
    BY <1>4, AudioKeepsInv
  <1>5. CASE UserStops \/ CoreAnnotates \/ CoreCloses
    BY <1>5, OutsideKeepsInv
  <1> QED BY <1>1, <1>2, <1>3, <1>4, <1>5 DEF Next

\* The inductive invariant of the session.
THEOREM SessionInvariance == Spec => []Inv
  BY InitInv, NextInv, PTL DEF Spec

\* Every variable keeps to its values.
THEOREM TypeCorrect == Spec => []TypeOK
  <1>1. Inv => TypeOK
    BY DEF Inv
  <1> QED BY <1>1, SessionInvariance, PTL

\* No annotations reach the overlay before their frame, and it draws none of
\* another frame (UpdateAsync before SendAsync, and both checks of OverlayWindow).
THEOREM AnnotationsPunctual == Spec => []AnnotationsArePunctual
  <1>1. Inv => AnnotationsArePunctual
    BY DEF Inv
  <1> QED BY <1>1, SessionInvariance, PTL

=============================================================================
