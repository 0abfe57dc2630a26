------------------------ MODULE VisionPipelineProofs ------------------------
(***************************************************************************)
(* The safety properties of VisionPipeline for any number of frames.       *)
(*                                                                         *)
(* None of them is inductive alone.  What ties them together is where a    *)
(* frame on its way to the client may stand: the slot always holds the     *)
(* newest accepted frame, whose frame_ack is then the last reply on the    *)
(* wire; a frame under analysis is newer than everything published, and as *)
(* long as the slot is empty and the sequence numbers agree its frame_ack  *)
(* is the last reply; a frame being answered is the one published last.    *)
(***************************************************************************)
EXTENDS VisionPipeline, Integers, TLAPS

Newest == Promise!Newest

\* Frames that have reached the slot in some connection, by their number.
Accepted == framesReceived - One(intake = "place")

CountsBounded ==
  /\ latestFrameSequence <= Accepted
  /\ outbound # <<>> => Newest.frame <= Accepted
  /\ latestVision <= Accepted
  /\ ingested <= latestVision
  /\ diskVision = latestVision

SlotHoldsNewest ==
  pendingFrame # NoFrame =>
    /\ pendingFrame.sequence = latestFrameSequence
    /\ latestVision < pendingFrame.id
    /\ outbound # <<>>
    /\ Newest = Ack(pendingFrame.id)

AnalysedMayBeNewest ==
  Analysing =>
    /\ latestVision < frame.id
    /\ pendingFrame # NoFrame => frame.id < pendingFrame.id
    /\ frame.id <= Accepted
    /\ ~NewerFrameIsPending => outbound # <<>> /\ Newest = Ack(frame.id)

AnsweredWasPublished ==
  worker \in {"annotate", "emit"} =>
    /\ frame.id = latestVision
    /\ outbound # <<>>
    /\ Newest = Annotations(frame.id)
    /\ worker = "annotate" => ingested < frame.id
    /\ worker = "emit" => ingested = frame.id /\ emitted < frame.id

Inv ==
  /\ TypeOK
  /\ NoLostWakeup
  /\ LockDiscipline
  /\ CountsBounded
  /\ SlotHoldsNewest
  /\ AnalysedMayBeNewest
  /\ AnsweredWasPublished
  /\ emitted <= ingested

-----------------------------------------------------------------------------

\* What a reply added to the wire does to it.
LEMMA LastReply ==
  ASSUME NEW wire \in Seq(Messages), NEW reply \in Messages
  PROVE  /\ Append(wire, reply) \in Seq(Messages)
         /\ Append(wire, reply) # <<>>
         /\ Append(wire, reply)[Len(Append(wire, reply))] = reply
  OBVIOUS

LEMMA EmptySequence ==
  ASSUME NEW S
  PROVE  <<>> \in Seq(S)
  OBVIOUS

LEMMA EmptyWire == <<>> \in Seq(Messages)
  BY EmptySequence

LEMMA ZeroIsBound == 0 \in 0..MaxFrames /\ 0 \in Nat
  BY MaxFramesAssumption

LEMMA InitInv == Init => Inv
  <1> SUFFICES ASSUME Init PROVE Inv
    OBVIOUS
  <1>1. TypeOK
    <2>1. outbound \in Seq(Messages)
      BY EmptyWire DEF Init
    <2>2. SharedTypeOK
      BY ZeroIsBound, Zenon DEF Init, SharedTypeOK
    <2>3. LocalTypeOK /\ HistoryTypeOK
      BY ZeroIsBound, Zenon DEF Init, LocalTypeOK, HistoryTypeOK
    <2> QED BY <2>1, <2>2, <2>3 DEF TypeOK
  <1>2. NoLostWakeup /\ LockDiscipline /\ SlotHoldsNewest /\ AnalysedMayBeNewest
        /\ AnsweredWasPublished
    BY DEF Init, NoLostWakeup, LockDiscipline, LockFree, SlotHoldsNewest,
           AnalysedMayBeNewest, Analysing, AnsweredWasPublished
  <1>3. CountsBounded /\ emitted <= ingested
    BY DEF Init, CountsBounded, Accepted, One
  <1> QED BY <1>1, <1>2, <1>3 DEF Inv

LEMMA TeardownInv ==
  ASSUME Inv, NEW arriving \in BOOLEAN, Teardown(arriving),
         status' \in {"CONNECTED", "DISCONNECTED"},
         framesReceived' \in framesReceived..MaxFrames
  PROVE  Inv'
  <1>1. TypeOK'
    <2>1. outbound' \in Seq(Messages)
      BY EmptyWire DEF Teardown
    <2>2. framesReceived' \in 0..MaxFrames /\ lost' \in Nat
      BY DEF Inv, Teardown, TypeOK, SharedTypeOK, HistoryTypeOK, One
    <2>3. (SharedTypeOK /\ LocalTypeOK /\ HistoryTypeOK)'
      BY <2>2, ZeroIsBound, Zenon
         DEF Inv, Teardown, TypeOK, SharedTypeOK, LocalTypeOK, HistoryTypeOK, files
    <2> QED BY <2>1, <2>3 DEF TypeOK
  <1>2. (NoLostWakeup /\ LockDiscipline /\ SlotHoldsNewest /\ AnalysedMayBeNewest
         /\ AnsweredWasPublished)'
    BY DEF Inv, Teardown, NoLostWakeup, LockDiscipline, SlotHoldsNewest, LockFree,
           AnalysedMayBeNewest, AnsweredWasPublished, Analysing
  <1>3. (CountsBounded /\ emitted <= ingested)'
    <2>1. /\ latestFrameSequence' = 0
          /\ intake' = "receive"
          /\ outbound' = <<>>
          /\ UNCHANGED <<latestVision, ingested, emitted, diskVision>>
      BY Zenon DEF Teardown, files
    <2>2. One((intake = "place")') = 0 /\ One(intake = "place") \in {0, 1}
      BY <2>1 DEF One
    <2>3. /\ framesReceived \in Nat /\ framesReceived' \in Nat
          /\ framesReceived <= framesReceived'
          /\ latestVision \in Nat
      BY MaxFramesAssumption DEF Inv, TypeOK, SharedTypeOK
    <2>4. Accepted' = framesReceived' /\ Accepted <= framesReceived' /\ Accepted \in Int
      BY <2>2, <2>3 DEF Accepted
    <2> QED BY <2>1, <2>3, <2>4 DEF Inv, CountsBounded
  <1> QED BY <1>1, <1>2, <1>3 DEF Inv

LEMMA PlaceInv ==
  ASSUME Inv, NEW number \in 1..MaxFrames, Place(number),
         framesReceived' = number,
         Accepted < number,
         status' \in {"CONNECTED", "DISCONNECTED"},
         lockOwner # "worker",
         UNCHANGED <<visionStatus, runKnown, latestVision, ingested, emitted, files,
                     connection, worker, frame, history>>
  PROVE  Inv'
  <1>1. Accepted' = number
    BY DEF Accepted, Place, One, Inv, TypeOK, SharedTypeOK, LocalTypeOK
  <1>2. /\ outbound' \in Seq(Messages)
        /\ outbound' # <<>>
        /\ Newest' = Ack(number)
    BY LastReply DEF Inv, TypeOK, SharedTypeOK, LocalTypeOK, Place, Newest, Promise!Newest, Ack, Messages
  <1>3. /\ pendingFrame' \in Frame
        /\ pendingFrame'.id = number
        /\ pendingFrame'.sequence = latestFrameSequence'
        /\ pendingFrame' # NoFrame
        /\ latestFrameSequence' \in 0..MaxFrames
        /\ latestFrameSequence' <= number
    BY MaxFramesAssumption
       DEF Inv, TypeOK, SharedTypeOK, LocalTypeOK, CountsBounded, Place, Frame, NoFrame, Accepted, One
  <1>4. TypeOK'
    <2>1. SharedTypeOK'
      BY DEF Inv, TypeOK, SharedTypeOK, Place, CountReplaced, One, files
    <2>2. (LocalTypeOK /\ HistoryTypeOK)'
      BY <1>3 DEF Inv, TypeOK, LocalTypeOK, HistoryTypeOK, Place, Notify, history
    <2> QED BY <1>2, <2>1, <2>2 DEF TypeOK
  <1>5. (NoLostWakeup /\ LockDiscipline /\ AnsweredWasPublished)'
    BY <1>3 DEF Inv, TypeOK, SharedTypeOK, LocalTypeOK, Place, Notify, NoLostWakeup, LockDiscipline, LockFree,
                AnsweredWasPublished
  <1>6. (CountsBounded /\ emitted <= ingested)'
    BY <1>1, <1>2, <1>3 DEF Inv, TypeOK, SharedTypeOK, LocalTypeOK, CountsBounded, files, Ack, Accepted, One
  <1>7. (SlotHoldsNewest /\ AnalysedMayBeNewest)'
    BY <1>1, <1>2, <1>3 DEF Inv, TypeOK, SharedTypeOK, LocalTypeOK, CountsBounded, SlotHoldsNewest, Accepted, One,
       AnalysedMayBeNewest, Analysing, NewerFrameIsPending, Frame
  <1> QED BY <1>4, <1>5, <1>6, <1>7 DEF Inv

LEMMA ReceiveFrameInv == Inv /\ ReceiveFrame => Inv'
  <1> SUFFICES ASSUME Inv, ReceiveFrame PROVE Inv'
    OBVIOUS
  <1>1. /\ framesReceived \in Nat
        /\ framesReceived + 1 \in 1..MaxFrames
        /\ framesReceived' = framesReceived + 1
        /\ intake = "receive"
        /\ Accepted = framesReceived
    BY MaxFramesAssumption
       DEF ReceiveFrame, Inv, TypeOK, SharedTypeOK, Accepted, One
  <1>2. CASE LockFree /\ Place(framesReceived + 1)
    <2>1. lockOwner # "worker" /\ status' \in {"CONNECTED", "DISCONNECTED"}
      BY <1>2 DEF LockFree, ReceiveFrame
    <2>2. UNCHANGED <<visionStatus, runKnown, latestVision, ingested, emitted, files,
                      connection, worker, frame, history>>
      BY DEF ReceiveFrame
    <2> QED BY <1>1, <1>2, <2>1, <2>2, PlaceInv
  <1>3. CASE ~LockFree /\ intake' = "place" /\
             UNCHANGED <<mailbox, framesDropped, outbound, lockOwner>>
    <2>1. Accepted' = Accepted
      BY <1>1, <1>3 DEF Accepted, One
    <2>2. TypeOK'
      <3>1. framesReceived' \in 0..MaxFrames
        BY <1>1
      <3> QED BY <1>3, <3>1, Zenon
              DEF ReceiveFrame, Inv, TypeOK, SharedTypeOK, LocalTypeOK, HistoryTypeOK,
                  mailbox, files, history
    <2>3. (NoLostWakeup /\ LockDiscipline /\ SlotHoldsNewest /\ AnsweredWasPublished)'
      BY <1>1, <1>3, Zenon
         DEF ReceiveFrame, Inv, NoLostWakeup, LockDiscipline, LockFree, SlotHoldsNewest,
             AnsweredWasPublished, mailbox, Newest, Promise!Newest
    <2>4. (CountsBounded /\ AnalysedMayBeNewest /\ emitted <= ingested)'
      BY <1>1, <1>3, <2>1, Zenon
         DEF ReceiveFrame, Inv, CountsBounded, AnalysedMayBeNewest, Analysing, mailbox,
             files, Newest, Promise!Newest, NewerFrameIsPending
    <2> QED BY <2>2, <2>3, <2>4 DEF Inv
  <1> QED BY <1>2, <1>3 DEF ReceiveFrame

LEMMA PlaceWaitingFrameInv == Inv /\ PlaceWaitingFrame => Inv'
  <1> SUFFICES ASSUME Inv, PlaceWaitingFrame PROVE Inv'
    OBVIOUS
  <1>1. /\ framesReceived \in 1..MaxFrames
        /\ Accepted < framesReceived
        /\ framesReceived' = framesReceived
    BY MaxFramesAssumption
       DEF PlaceWaitingFrame, Inv, TypeOK, SharedTypeOK, CountsBounded, Accepted, One
  <1>2. lockOwner # "worker" /\ status' \in {"CONNECTED", "DISCONNECTED"}
    BY DEF PlaceWaitingFrame, Inv, TypeOK, SharedTypeOK
  <1>3. Place(framesReceived) /\
        UNCHANGED <<visionStatus, runKnown, latestVision, ingested, emitted, files,
                    connection, worker, frame, history>>
    BY DEF PlaceWaitingFrame
  <1> QED BY <1>1, <1>2, <1>3, PlaceInv

\* Steps that move the receive loop between receiving and sending a reply,
\* or change the connection, the status or the run, and nothing else.
LEMMA QuietInv ==
  ASSUME Inv,
         status' \in {"CONNECTED", "DISCONNECTED"},
         connection' \in {"open", "closed"},
         runKnown' \in BOOLEAN,
         intake' \in {"receive", "send", intake},
         intake # "place" \/ intake' = intake,
         UNCHANGED <<framesReceived, framesDropped, visionStatus, latestVision, ingested,
                     emitted, files, mailbox, lockOwner, outbound, worker, frame, history>>
  PROVE  Inv'
  <1>1. intake' \in {"receive", "place", "send"} /\ (intake' = "place" <=> intake = "place")
    BY DEF Inv, TypeOK, LocalTypeOK
  <1>2. Accepted' = Accepted
    BY <1>1 DEF Accepted, One
  <1>3. TypeOK'
    BY <1>1, Zenon DEF Inv, TypeOK, SharedTypeOK, LocalTypeOK, HistoryTypeOK, mailbox,
                       files, history
  <1>4. (NoLostWakeup /\ LockDiscipline /\ SlotHoldsNewest /\ AnsweredWasPublished)'
    BY <1>1, Zenon
       DEF Inv, NoLostWakeup, LockDiscipline, LockFree, SlotHoldsNewest,
           AnsweredWasPublished, mailbox, Newest, Promise!Newest
  <1>5. (CountsBounded /\ AnalysedMayBeNewest /\ emitted <= ingested)'
    BY <1>2, Zenon
       DEF Inv, CountsBounded, AnalysedMayBeNewest, Analysing, mailbox,
           files, Newest, Promise!Newest, NewerFrameIsPending
  <1> QED BY <1>3, <1>4, <1>5 DEF Inv

LEMMA WorkerTakesInv == Inv /\ WorkerTakes => Inv'
  <1> SUFFICES ASSUME Inv, WorkerTakes PROVE Inv'
    OBVIOUS
  <1>1. /\ pendingFrame # NoFrame /\ pendingFrame \in Frame
        /\ worker' = "observe"
        /\ frame' = pendingFrame
        /\ lockOwner = "none"
    BY DEF WorkerTakes, Inv, NoLostWakeup, TypeOK, LocalTypeOK, LockFree
  <1>2. Accepted' = Accepted
    BY DEF WorkerTakes, Accepted, shared
  <1>3. TypeOK'
    BY <1>1, Zenon DEF WorkerTakes, Inv, TypeOK, SharedTypeOK, LocalTypeOK, HistoryTypeOK,
                       shared, files, history
  <1>4. (NoLostWakeup /\ LockDiscipline /\ SlotHoldsNewest /\ AnsweredWasPublished)'
    BY <1>1
       DEF WorkerTakes, Inv, NoLostWakeup, LockDiscipline, LockFree, SlotHoldsNewest,
           AnsweredWasPublished
  <1>5. (CountsBounded /\ emitted <= ingested)'
    BY <1>2, Zenon DEF WorkerTakes, Inv, CountsBounded, shared, files, Newest, Promise!Newest
  <1>6. AnalysedMayBeNewest'
    <2>1. outbound # <<>> /\ Newest = Ack(pendingFrame.id)
      BY <1>1 DEF Inv, SlotHoldsNewest
    <2>2. outbound' # <<>> /\ Newest' = Ack(frame'.id) /\ pendingFrame' = NoFrame
      BY <1>1, <2>1 DEF WorkerTakes, Newest, Promise!Newest
    <2>3. latestVision' < frame'.id
      BY <1>1 DEF Inv, SlotHoldsNewest, WorkerTakes, shared
    <2>4. Ack(pendingFrame.id).frame = pendingFrame.id
      BY DEF Ack
    <2>5. frame'.id <= Accepted'
      BY <1>1, <1>2, <2>1, <2>4 DEF Inv, CountsBounded
    <2> QED BY <2>2, <2>3, <2>5 DEF AnalysedMayBeNewest
  <1> QED BY <1>3, <1>4, <1>5, <1>6 DEF Inv

\* The worker is done with its frame: it failed under analysis, was discarded,
\* or was answered.
LEMMA FrameDoneInv ==
  ASSUME Inv, FrameDone,
         framesDropped' \in Nat,
         visionStatus' \in {"READY", "ERROR", visionStatus},
         ingested' = ingested,
         emitted' \in {emitted, ingested},
         diskFrame' \in 0..MaxFrames,
         failed' \in Nat,
         lockOwner # "intake",
         IF intake = "place" THEN lockOwner' # "none" ELSE lockOwner' = "none",
         lockOwner' \in {"none", "intake"},
         lockOwner' = "intake" => ~pendingFrameEvent,
         UNCHANGED <<status, framesReceived, runKnown, latestVision, diskVision,
                     connection, mailbox, outbound, intake, published, lost>>
  PROVE  Inv'
  <1>1. Accepted' = Accepted
    BY DEF Accepted
  <1>2. TypeOK'
    <2>1. emitted' \in 0..MaxFrames /\ visionStatus' \in {"DISABLED", "READY", "ERROR"}
          /\ lockOwner' \in {"none", "intake", "worker"}
      BY DEF Inv, TypeOK, SharedTypeOK
    <2> QED BY <2>1, Zenon DEF FrameDone, Inv, TypeOK, SharedTypeOK, LocalTypeOK,
                               HistoryTypeOK, mailbox
  <1>3. (NoLostWakeup /\ SlotHoldsNewest)'
    BY Zenon DEF Inv, NoLostWakeup, SlotHoldsNewest, mailbox, Newest, Promise!Newest
  <1>4. (LockDiscipline /\ AnsweredWasPublished /\ AnalysedMayBeNewest)'
    BY DEF FrameDone, LockDiscipline, LockFree, AnsweredWasPublished, AnalysedMayBeNewest,
           Analysing, mailbox
  <1>5. CountsBounded'
    BY <1>1, Zenon DEF Inv, CountsBounded, mailbox, Newest, Promise!Newest
  <1>6. (emitted <= ingested)'
    BY DEF Inv, TypeOK, SharedTypeOK
  <1> QED BY <1>2, <1>3, <1>4, <1>5, <1>6 DEF Inv

LEMMA ObserveFailsInv == Inv /\ ObserveFails => Inv'
  <1> SUFFICES ASSUME Inv, ObserveFails PROVE Inv'
    OBVIOUS
  <1>1. /\ failed' \in Nat
        /\ framesDropped' \in Nat
        /\ diskFrame' \in 0..MaxFrames
        /\ lockOwner' = lockOwner
        /\ lockOwner \in {"none", "intake", "worker"}
    BY DEF ObserveFails, Fail, Inv, TypeOK, SharedTypeOK, LocalTypeOK, HistoryTypeOK, files
  <1>2. lockOwner = "none" /\ intake # "place"
    BY <1>1 DEF ObserveFails, Inv, LockDiscipline, LockFree
  <1> QED BY <1>1, <1>2, FrameDoneInv DEF ObserveFails, Fail, files

LEMMA DiscardInv == Inv /\ ObserveReturns /\ Discard => Inv'
  <1> SUFFICES ASSUME Inv, ObserveReturns, Discard PROVE Inv'
    OBVIOUS
  <1>1. lockOwner = "none" /\ intake # "place"
    BY DEF ObserveReturns, Inv, LockDiscipline, LockFree
  <1>2. framesDropped' \in Nat /\ diskFrame' \in 0..MaxFrames /\ failed' \in Nat
    BY DEF Discard, Inv, TypeOK, SharedTypeOK, HistoryTypeOK, files, history
  <1> QED BY <1>1, <1>2, FrameDoneInv DEF Discard, ObserveReturns, files, history

LEMMA PublishFailsInv == Inv /\ ObserveReturns /\ PublishFails => Inv'
  <1> SUFFICES ASSUME Inv, ObserveReturns, PublishFails PROVE Inv'
    OBVIOUS
  <1>1. lockOwner = "none" /\ intake # "place"
    BY DEF ObserveReturns, Inv, LockDiscipline, LockFree
  <1>2. frame.id \in 0..MaxFrames
    BY DEF ObserveReturns, Inv, TypeOK, LocalTypeOK, Frame
  <1>3. framesDropped' \in Nat /\ diskFrame' \in 0..MaxFrames /\ failed' \in Nat
    BY <1>2 DEF PublishFails, Fail, Inv, TypeOK, SharedTypeOK, HistoryTypeOK
  <1> QED BY <1>1, <1>3, FrameDoneInv DEF PublishFails, Fail, ObserveReturns

LEMMA PublishInv == Inv /\ ObserveReturns /\ Publish => Inv'
  <1> SUFFICES ASSUME Inv, ObserveReturns, Publish PROVE Inv'
    OBVIOUS
  <1>1. /\ frame \in Frame
        /\ frame.id \in 1..MaxFrames
        /\ lockOwner = "none" /\ intake # "place"
        /\ latestVision < frame.id /\ frame.id <= Accepted
        /\ Newest = Ack(frame.id)
        /\ pendingFrame = NoFrame
    BY DEF ObserveReturns, Publish, Inv, TypeOK, LocalTypeOK, Frame, LockDiscipline, LockFree,
           AnalysedMayBeNewest, Analysing, NewerFrameIsPending
  <1>2. /\ outbound' \in Seq(Messages)
        /\ outbound' # <<>>
        /\ Newest' = Annotations(frame.id)
    BY <1>1, LastReply
       DEF Publish, Inv, TypeOK, Newest, Promise!Newest, Annotations, Messages
  <1>3. Accepted' = Accepted
    BY DEF ObserveReturns, Accepted
  <1>4. TypeOK'
    <2>1. published' \in Nat /\ 0 \in 0..MaxFrames /\ frame.id \in 0..MaxFrames
      BY <1>1, MaxFramesAssumption DEF Publish, Inv, TypeOK, HistoryTypeOK
    <2> QED BY <1>1, <1>2, <2>1, Zenon
            DEF Publish, AnswerLocked, ObserveReturns, Inv, TypeOK, SharedTypeOK, LocalTypeOK,
                HistoryTypeOK, mailbox
  <1>5. (NoLostWakeup /\ LockDiscipline)'
    BY <1>1, Zenon DEF Publish, AnswerLocked, ObserveReturns, Inv, NoLostWakeup, LockDiscipline,
                LockFree, mailbox
  <1>6. (SlotHoldsNewest /\ AnalysedMayBeNewest)'
    BY <1>1, Zenon DEF Publish, ObserveReturns, SlotHoldsNewest, AnalysedMayBeNewest,
                       Analysing, mailbox
  <1>7. AnsweredWasPublished'
    <2>1. ingested < frame.id
      BY <1>1 DEF Inv, CountsBounded, TypeOK, SharedTypeOK
    <2> QED BY <1>1, <1>2, <2>1 DEF Publish, ObserveReturns, AnsweredWasPublished
  <1>8. (CountsBounded /\ emitted <= ingested)'
    <2>1. Newest'.frame = frame.id
      BY <1>2 DEF Annotations
    <2>2. latestFrameSequence' = latestFrameSequence
      BY DEF ObserveReturns, mailbox
    <2> QED BY <1>1, <1>3, <2>1, <2>2
            DEF Publish, ObserveReturns, Inv, CountsBounded, TypeOK, SharedTypeOK
  <1> QED BY <1>4, <1>5, <1>6, <1>7, <1>8 DEF Inv

\* What holds when the worker lets go of a frame it has published.
LEMMA AnsweredFacts ==
  ASSUME Inv, worker \in {"annotate", "emit"}
  PROVE  /\ lockOwner = "worker"
         /\ ~pendingFrameEvent
         /\ frame.id \in 1..MaxFrames
         /\ frame.id = latestVision
         /\ worker = "annotate" => ingested < frame.id
         /\ worker = "emit" => ingested = frame.id
  <1>1. pendingFrame = NoFrame
    BY DEF Inv, SlotHoldsNewest, AnsweredWasPublished, Ack, Annotations
  <1>2. lockOwner = "worker" /\ ~pendingFrameEvent
    BY <1>1 DEF Inv, LockDiscipline, NoLostWakeup
  <1> QED BY <1>2 DEF Inv, AnsweredWasPublished, TypeOK, LocalTypeOK, Frame

LEMMA AnsweredInv ==
  ASSUME Inv, worker \in {"annotate", "emit"}, FrameDone, Release,
         visionStatus' \in {"ERROR", visionStatus},
         ingested' = ingested,
         emitted' \in {emitted, ingested},
         UNCHANGED <<status, framesReceived, framesDropped, runKnown, latestVision, files,
                     connection, mailbox, outbound, intake, history>>
  PROVE  Inv'
  <1>1. lockOwner = "worker" /\ ~pendingFrameEvent
    BY AnsweredFacts
  <1>2. /\ IF intake = "place" THEN lockOwner' # "none" ELSE lockOwner' = "none"
        /\ lockOwner' \in {"none", "intake"}
    BY DEF Release
  <1>3. framesDropped' \in Nat /\ diskFrame' \in 0..MaxFrames /\ failed' \in Nat
    BY DEF Inv, TypeOK, SharedTypeOK, HistoryTypeOK, files, history
  <1> QED BY <1>1, <1>2, <1>3, FrameDoneInv DEF files, history

LEMMA AnnotationsSentInv == Inv /\ AnnotationsSent => Inv'
  <1> SUFFICES ASSUME Inv, AnnotationsSent PROVE Inv'
    OBVIOUS
  <1>1. CASE ~runKnown /\ FrameDone /\ Release /\ UNCHANGED ingested
    BY <1>1, AnsweredInv DEF AnnotationsSent
  <1>2. CASE runKnown /\ ingested' = frame.id /\ worker' = "emit" /\
             UNCHANGED <<lockOwner, frame>>
    <2>1. /\ lockOwner = "worker"
          /\ frame.id \in 0..MaxFrames
          /\ frame.id = latestVision
          /\ emitted < frame.id
      BY AnsweredFacts DEF AnnotationsSent, Inv, TypeOK, SharedTypeOK
    <2>2. worker = "annotate" /\ frame \in Frame /\ Accepted' = Accepted
      BY DEF AnnotationsSent, Inv, TypeOK, LocalTypeOK, Accepted
    <2>3. TypeOK'
      BY <1>2, <2>1, <2>2, Zenon
         DEF AnnotationsSent, Inv, TypeOK, SharedTypeOK, LocalTypeOK, HistoryTypeOK, mailbox,
             files, history
    <2>4. (NoLostWakeup /\ LockDiscipline /\ SlotHoldsNewest /\ AnalysedMayBeNewest)'
      BY <1>2, <2>1, <2>2, Zenon
         DEF AnnotationsSent, Inv, NoLostWakeup, LockDiscipline, LockFree, SlotHoldsNewest,
             AnalysedMayBeNewest, Analysing, mailbox, Newest, Promise!Newest
    <2>5. AnsweredWasPublished'
      BY <1>2, <2>1, <2>2, Zenon
         DEF AnnotationsSent, Inv, AnsweredWasPublished, mailbox, Newest, Promise!Newest
    <2>6. (CountsBounded /\ emitted <= ingested)'
      <3>1. ingested' <= latestVision' /\ emitted' <= ingested'
        BY <1>2, <2>1 DEF AnnotationsSent, Inv, TypeOK, SharedTypeOK
      <3> QED BY <2>2, <3>1, Zenon
              DEF AnnotationsSent, Inv, CountsBounded, mailbox, files, Newest, Promise!Newest
    <2> QED BY <2>3, <2>4, <2>5, <2>6 DEF Inv
  <1> QED BY <1>1, <1>2 DEF AnnotationsSent

LEMMA EventPublishedInv == Inv /\ EventPublished => Inv'
  <1> SUFFICES ASSUME Inv, EventPublished PROVE Inv'
    OBVIOUS
  <1>1. emitted' = ingested
    BY AnsweredFacts DEF EventPublished
  <1> QED BY <1>1, AnsweredInv DEF EventPublished

LEMMA AnsweringFailsInv == Inv /\ AnsweringFails => Inv'
  BY AnsweredInv DEF AnsweringFails, FailAfterPublishing

LEMMA NextInv == Inv /\ [Next]_vars => Inv'
  <1> SUFFICES ASSUME Inv, [Next]_vars PROVE Inv'
    OBVIOUS
  <1>1. CASE Connect
    BY <1>1, QuietInv DEF Connect, Inv, TypeOK, SharedTypeOK, LocalTypeOK
  <1>2. CASE ReceiveFrame
    BY <1>2, ReceiveFrameInv
  <1>3. CASE PlaceWaitingFrame
    BY <1>3, PlaceWaitingFrameInv
  <1>4. CASE Hello
    BY <1>4, QuietInv DEF Hello, Inv, TypeOK, SharedTypeOK, LocalTypeOK
  <1>5. CASE RejectFrame
    BY <1>5, QuietInv DEF RejectFrame, shared, Inv, TypeOK, SharedTypeOK, LocalTypeOK
  <1>6. CASE ReplySent
    BY <1>6, QuietInv DEF ReplySent, shared, Inv, TypeOK, SharedTypeOK, LocalTypeOK
  <1>7. CASE Worker
    <2>1. ASSUME ObserveReturns PROVE Inv'
      <3>1. Discard \/ Publish \/ PublishFails
        BY <2>1 DEF ObserveReturns
      <3> QED BY <2>1, <3>1, DiscardInv, PublishInv, PublishFailsInv
    <2> QED BY <1>7, <2>1, WorkerTakesInv, ObserveFailsInv, AnnotationsSentInv,
               EventPublishedInv, AnsweringFailsInv DEF Worker
  <1>8. CASE Ending
    <2>1. /\ framesReceived' \in framesReceived..MaxFrames
          /\ status' \in {"CONNECTED", "DISCONNECTED"}
      <3>1. framesReceived' = framesReceived \/
            (framesReceived < MaxFrames /\ framesReceived' = framesReceived + 1)
        BY <1>8 DEF Ending, Disconnect, HandlerRaises, PlacingRaises
      <3>2. framesReceived' \in framesReceived..MaxFrames
        BY <3>1, MaxFramesAssumption DEF Inv, TypeOK, SharedTypeOK
      <3>3. status' \in {"CONNECTED", "DISCONNECTED"}
        BY <1>8, Zenon
           DEF Ending, Disconnect, HandlerRaises, PlacingRaises, Inv, TypeOK, SharedTypeOK
      <3> QED BY <3>2, <3>3
    <2>2. PICK arriving \in BOOLEAN : Teardown(arriving)
      BY <1>8 DEF Ending, Disconnect, HandlerRaises, PlacingRaises
    <2> QED BY <2>1, <2>2, TeardownInv
  <1>9. CASE UNCHANGED vars
    BY <1>9, QuietInv
       DEF vars, shared, Inv, TypeOK, SharedTypeOK, LocalTypeOK
  <1> QED BY <1>1, <1>2, <1>3, <1>4, <1>5, <1>6, <1>7, <1>8, <1>9 DEF Next, Intake

\* The inductive invariant.
THEOREM Invariance == Spec => []Inv
  BY InitInv, NextInv, PTL DEF Spec

-----------------------------------------------------------------------------
(* The properties the runs check *)

\* The variables always hold values of their kind, and the worker holds a
\* frame exactly while process_latest_frame runs.
THEOREM TypeCorrect == Spec => []TypeOK
  <1>1. Inv => TypeOK
    BY DEF Inv
  <1> QED BY <1>1, Invariance, PTL

\* A frame in the slot always has the worker's event set: no wakeup is lost.
THEOREM WakeupsAreKept == Spec => []NoLostWakeup
  <1>1. Inv => NoLostWakeup
    BY DEF Inv
  <1> QED BY <1>1, Invariance, PTL

\* pending_frame_lock is held across awaits only by a worker that answers for a
\* published frame, and the worker itself never has to wait for it.
THEOREM LockIsDisciplined == Spec => []LockDiscipline
  <1>1. Inv => LockDiscipline
    BY DEF Inv
  <1> QED BY <1>1, Invariance, PTL

\* Every frame counted in frames_received is accounted for exactly once.
THEOREM Conservation == Spec => []FramesConserved
  <1>1. Init => FramesConserved
    BY DEF Init, FramesConserved, InTransit, One, Analysing
  <1>2. Inv /\ FramesConserved /\ [Next]_vars => FramesConserved'
    <2> SUFFICES ASSUME Inv, FramesConserved, [Next]_vars PROVE FramesConserved'
      OBVIOUS
    <2> USE DEF FramesConserved, InTransit, One, Analysing, Inv, TypeOK, SharedTypeOK,
                HistoryTypeOK
    <2>1. CASE Connect \/ Hello \/ RejectFrame \/ ReplySent \/ UNCHANGED vars
      BY <2>1 DEF Connect, Hello, RejectFrame, ReplySent, vars, shared, mailbox, history
    <2>2. CASE ReceiveFrame
      <3>1. CASE Place(framesReceived + 1)
        BY <2>2, <3>1 DEF ReceiveFrame, Place, CountReplaced, NoFrame, history
      <3>2. CASE intake' = "place" /\ UNCHANGED <<mailbox, framesDropped>>
        BY <2>2, <3>2 DEF ReceiveFrame, mailbox, history
      <3> QED BY <2>2, <3>1, <3>2 DEF ReceiveFrame
    <2>3. CASE PlaceWaitingFrame
      BY <2>3 DEF PlaceWaitingFrame, Place, CountReplaced, NoFrame, history
    <2>4. CASE WorkerTakes
      BY <2>4 DEF WorkerTakes, NoLostWakeup, shared, history
    <2>5. CASE ObserveFails
      BY <2>5 DEF ObserveFails, Fail, FrameDone, mailbox
    <2>6. CASE ObserveReturns
      <3>1. CASE Discard
        BY <2>6, <3>1 DEF ObserveReturns, Discard, FrameDone, mailbox, history
      <3>2. CASE Publish
        BY <2>6, <3>2 DEF ObserveReturns, Publish, mailbox
      <3>3. CASE PublishFails
        BY <2>6, <3>3 DEF ObserveReturns, PublishFails, Fail, FrameDone, mailbox
      <3> QED BY <2>6, <3>1, <3>2, <3>3 DEF ObserveReturns
    <2>7. CASE AnnotationsSent \/ EventPublished \/ AnsweringFails
      BY <2>7 DEF AnnotationsSent, EventPublished, AnsweringFails, FailAfterPublishing,
                  FrameDone, mailbox, history
    <2>8. CASE Disconnect \/ HandlerRaises
      <3>1. intake # "place" /\ Teardown(FALSE) /\ UNCHANGED framesReceived
        BY <2>8 DEF Disconnect, HandlerRaises
      <3> QED BY <3>1 DEF Teardown
    <2>9. CASE PlacingRaises
      BY <2>9 DEF PlacingRaises, Teardown
    <2> QED BY <2>1, <2>2, <2>3, <2>4, <2>5, <2>6, <2>7, <2>8, <2>9
            DEF Next, Intake, Worker, Ending
  <1> QED BY <1>1, <1>2, Invariance, PTL DEF Spec

\* What each step does to the reply stream and the served vision state.
LEMMA WireStep ==
  ASSUME Inv, [Next]_vars
  PROVE  \/ \E n \in 1..MaxFrames :
              /\ Accepted < n
              /\ outbound' = Append(outbound, Ack(n))
              /\ latestVision' = latestVision
         \/ \E n \in 1..MaxFrames :
              /\ outbound # <<>>
              /\ Newest = Ack(n)
              /\ outbound' = Append(outbound, Annotations(n))
              /\ latestVision' = n
         \/ outbound' = <<>> /\ latestVision' = latestVision
         \/ UNCHANGED <<outbound, latestVision>>
  <1>1. CASE ReceiveFrame
    <2>1. framesReceived + 1 \in 1..MaxFrames /\ Accepted < framesReceived + 1
      BY <1>1, MaxFramesAssumption
         DEF ReceiveFrame, Inv, TypeOK, SharedTypeOK, Accepted, One
    <2>2. CASE Place(framesReceived + 1)
      BY <1>1, <2>1, <2>2 DEF ReceiveFrame, Place
    <2>3. CASE UNCHANGED outbound
      BY <1>1, <2>3 DEF ReceiveFrame
    <2> QED BY <1>1, <2>2, <2>3 DEF ReceiveFrame
  <1>2. CASE PlaceWaitingFrame
    <2>1. framesReceived \in 1..MaxFrames /\ Accepted < framesReceived
      BY <1>2, MaxFramesAssumption
         DEF PlaceWaitingFrame, Inv, TypeOK, SharedTypeOK, CountsBounded, Accepted, One
    <2> QED BY <1>2, <2>1 DEF PlaceWaitingFrame, Place
  <1>3. CASE ObserveReturns
    <2>1. CASE Publish
      <3>1. frame.id \in 1..MaxFrames /\ outbound # <<>> /\ Newest = Ack(frame.id)
        BY <1>3, <2>1 DEF ObserveReturns, Publish, Inv, TypeOK, LocalTypeOK, Frame,
                          AnalysedMayBeNewest, Analysing
      <3> QED BY <2>1, <3>1 DEF Publish
    <2>2. CASE Discard \/ PublishFails
      BY <2>2 DEF Discard, PublishFails, Fail
    <2> QED BY <1>3, <2>1, <2>2 DEF ObserveReturns
  <1>4. CASE Ending
    BY <1>4 DEF Ending, Disconnect, HandlerRaises, PlacingRaises, Teardown
  <1>5. CASE Connect \/ Hello \/ RejectFrame \/ ReplySent \/ UNCHANGED vars
    BY <1>5 DEF Connect, Hello, RejectFrame, ReplySent, vars, shared
  <1>6. CASE WorkerTakes \/ ObserveFails \/ AnnotationsSent \/ EventPublished \/ AnsweringFails
    BY <1>6 DEF WorkerTakes, ObserveFails, Fail, AnnotationsSent, EventPublished,
                AnsweringFails, shared
  <1> QED BY <1>1, <1>2, <1>3, <1>4, <1>5, <1>6 DEF Next, Intake, Worker

\* On the wire, annotations come straight after the frame_ack of their frame.
THEOREM AnnotationsFollowAcks == Spec => []AnnotationFollowsItsAck
  <1>1. Init => AnnotationFollowsItsAck
    BY DEF Init, AnnotationFollowsItsAck
  <1>2. Inv /\ AnnotationFollowsItsAck /\ [Next]_vars => AnnotationFollowsItsAck'
    <2> SUFFICES ASSUME Inv, AnnotationFollowsItsAck, [Next]_vars,
                        NEW i \in 1..Len(outbound'),
                        outbound'[i].type = "vision_annotations"
                 PROVE  i > 1 /\ outbound'[i - 1] = Ack(outbound'[i].frame)
      BY DEF AnnotationFollowsItsAck, Ack
    <2>1. outbound \in Seq(Messages)
      BY DEF Inv, TypeOK
    <2>2. ASSUME NEW reply \in Messages, outbound' = Append(outbound, reply),
                 reply.type = "vision_annotations" =>
                   outbound # <<>> /\ Newest = Ack(reply.frame)
          PROVE  i > 1 /\ outbound'[i - 1] = Ack(outbound'[i].frame)
      <3>1. CASE i = Len(outbound) + 1
        BY <2>1, <2>2, <3>1 DEF Newest, Promise!Newest
      <3>2. CASE i \in 1..Len(outbound)
        <4>1. outbound'[i] = outbound[i]
          BY <2>1, <2>2, <3>2
        <4>2. i > 1 /\ outbound[i - 1] = Ack(outbound[i].frame)
          BY <3>2, <4>1 DEF AnnotationFollowsItsAck
        <4> QED BY <2>1, <2>2, <3>2, <4>1, <4>2
      <3> QED BY <2>1, <2>2, <3>1, <3>2
    <2>3. ASSUME NEW n \in 1..MaxFrames, outbound' = Append(outbound, Ack(n))
          PROVE  i > 1 /\ outbound'[i - 1] = Ack(outbound'[i].frame)
      BY <2>2, <2>3 DEF Ack, Messages
    <2>4. ASSUME NEW n \in 1..MaxFrames, outbound # <<>>, Newest = Ack(n),
                 outbound' = Append(outbound, Annotations(n))
          PROVE  i > 1 /\ outbound'[i - 1] = Ack(outbound'[i].frame)
      <3>1. Annotations(n) \in Messages /\ Annotations(n).frame = n
        BY DEF Annotations, Messages
      <3> QED BY <2>2, <2>4, <3>1
    <2>5. outbound' # <<>>
      OBVIOUS
    <2>6. CASE UNCHANGED outbound
      BY <2>6 DEF AnnotationFollowsItsAck
    <2> QED BY <2>3, <2>4, <2>5, <2>6, WireStep
  <1> QED BY <1>1, <1>2, Invariance, PTL DEF Spec

\* The vision state served from memory is on disk, and the picture on disk is at
\* least as new as the state on disk.
THEOREM DiskIsAhead == Spec => []MemoryNotAheadOfDisk
  <1>1. Init => MemoryNotAheadOfDisk
    BY DEF Init, MemoryNotAheadOfDisk
  <1>2. Inv /\ MemoryNotAheadOfDisk /\ [Next]_vars => MemoryNotAheadOfDisk'
    <2> SUFFICES ASSUME Inv, MemoryNotAheadOfDisk, [Next]_vars
                 PROVE  MemoryNotAheadOfDisk'
      OBVIOUS
    <2> USE DEF MemoryNotAheadOfDisk, Inv, TypeOK, SharedTypeOK
    <2>1. CASE ObserveReturns
      <3>1. diskVision < frame.id /\ frame.id \in 1..MaxFrames
        BY <2>1 DEF ObserveReturns, CountsBounded, AnalysedMayBeNewest, Analysing,
                    LocalTypeOK, Frame
      <3>2. CASE Discard
        BY <3>2 DEF Discard, files
      <3>3. CASE Publish
        BY <3>1, <3>3 DEF Publish
      <3>4. CASE PublishFails
        BY <3>1, <3>4 DEF PublishFails, Fail
      <3> QED BY <2>1, <3>2, <3>3, <3>4 DEF ObserveReturns
    <2>2. CASE ~ObserveReturns
      <3>1. UNCHANGED <<latestVision, diskVision, diskFrame>>
        BY <2>2 DEF Next, Connect, Intake, ReceiveFrame, PlaceWaitingFrame, Hello,
           RejectFrame, ReplySent, Worker, WorkerTakes, ObserveFails, Fail, AnnotationsSent,
           EventPublished, AnsweringFails, Ending, Disconnect, HandlerRaises,
           PlacingRaises, Teardown, vars, shared, files
      <3> QED BY <3>1
    <2> QED BY <2>1, <2>2
  <1> QED BY <1>1, <1>2, Invariance, PTL DEF Spec

\* A run is given only the newest accepted frame, after its annotations, and its
\* event goes out before a newer frame is accepted.
THEOREM RunsTakeNewest == Spec => RunTakesNewestFrame
  <1> DEFINE Step ==
        /\ ingested' # ingested =>
             ingested' > ingested /\ Promise!Newest = Annotations(ingested')
        /\ emitted' # emitted =>
             emitted' = ingested /\ Promise!Newest = Annotations(emitted')
  <1>1. Inv /\ [Next]_vars => [Step]_vars
    <2> SUFFICES ASSUME Inv, Next PROVE Step
      BY DEF vars
    <2>1. CASE AnnotationsSent
      <3>1. emitted' = emitted
        BY <2>1 DEF AnnotationsSent
      <3>2. /\ ingested' \in {ingested, frame.id}
            /\ ingested < frame.id
            /\ Promise!Newest = Annotations(frame.id)
        BY <2>1 DEF AnnotationsSent, Inv, AnsweredWasPublished, Newest
      <3> QED BY <3>1, <3>2
    <2>2. CASE EventPublished
      BY <2>2 DEF EventPublished, Inv, AnsweredWasPublished, Newest
    <2>3. CASE ~AnnotationsSent /\ ~EventPublished
      <3>1. UNCHANGED <<ingested, emitted>>
        BY <2>3 DEF Next, Connect, Intake, ReceiveFrame, PlaceWaitingFrame, Hello,
           RejectFrame, ReplySent, Worker, WorkerTakes, ObserveFails, ObserveReturns,
           AnsweringFails, Ending, Disconnect, HandlerRaises, PlacingRaises, Teardown, shared
      <3> QED BY <3>1
    <2> QED BY <2>1, <2>2, <2>3
  <1>2. [][Step]_vars => RunTakesNewestFrame
    BY PTL DEF RunTakesNewestFrame
  <1> QED BY <1>1, <1>2, Invariance, PTL DEF Spec

\* The handler keeps the promise of LatestFrameWins.
THEOREM Refinement == Spec => PromiseKept
  <1>1. Init => Promise!Init
    BY DEF Init, Promise!Init
  <1>2. Inv /\ [Next]_vars => [Promise!Next]_(Promise!vars)
    <2> SUFFICES ASSUME Inv, [Next]_vars PROVE [Promise!Next]_(Promise!vars)
      OBVIOUS
    <2>1. ASSUME NEW n \in 1..MaxFrames, Accepted < n,
                 outbound' = Append(outbound, Ack(n)), latestVision' = latestVision
          PROVE  Promise!Accept(n)
      <3>1. outbound # <<>> => n > Promise!Newest.frame
        <4>1. outbound # <<>> => Promise!Newest \in Messages
          BY DEF Inv, TypeOK, Promise!Newest
        <4> QED BY <2>1, <4>1 DEF Inv, CountsBounded, Newest, Messages, Accepted, One,
                                  TypeOK, SharedTypeOK
      <3>2. n > latestVision
        BY <2>1 DEF Inv, CountsBounded, Accepted, One, TypeOK, SharedTypeOK
      <3> QED BY <2>1, <3>1, <3>2 DEF Promise!Accept, Ack, Promise!Ack
    <2>2. ASSUME NEW n \in 1..MaxFrames, outbound # <<>>, Newest = Ack(n),
                 outbound' = Append(outbound, Annotations(n)), latestVision' = n
          PROVE  Promise!Annotate(n)
      BY <2>2 DEF Promise!Annotate, Newest, Ack, Promise!Ack, Annotations, Promise!Annotations
    <2>3. CASE outbound' = <<>> /\ latestVision' = latestVision
      BY <2>3 DEF Promise!Next, Promise!Reconnect
    <2>4. CASE UNCHANGED <<outbound, latestVision>>
      BY <2>4 DEF Promise!vars
    <2> QED BY <2>1, <2>2, <2>3, <2>4, WireStep DEF Promise!Next
  <1> QED BY <1>1, <1>2, Invariance, PTL DEF Spec, PromiseKept, Promise!Spec
=============================================================================
