------------------------ MODULE LatestVisionFilesProofs ------------------------
(***************************************************************************)
(* What the Core serves of the last publication, for any number of frames, *)
(* failed writes, stops and restarts.                                      *)
(*                                                                         *)
(* The invariant says what the order of the writes gives: the state file   *)
(* is never there without a picture file, the files are those of the last  *)
(* publication until the next one empties the picture, and from then on    *)
(* the publication counts as interrupted until it has ended.               *)
(***************************************************************************)
EXTENDS LatestVisionFiles, TLAPS

LastPublished == IF published = 0 THEN Nothing ELSE published

MemoryIsLast == latestVision # Nothing => latestVision = published /\ published > 0

FilesAreLast ==
  ~interrupted => pictureFile = LastPublished /\ stateFile = LastPublished

FilesStay ==
  /\ published > 0 => stateFile # Nothing /\ pictureFile # Nothing
  /\ stateFile # Nothing => pictureFile # Nothing
  /\ stateFile \in Nat => stateFile >= published

Writing ==
  /\ stage = "idle" => published <= frame
  /\ stage # "idle" => published < frame
  /\ stage \notin {"idle", "empty picture"} => interrupted
  /\ stage \in {"empty state", "write state", "remember"} => pictureFile = frame
  /\ stage = "remember" => stateFile = frame

IInv ==
  /\ TypeOK
  /\ MemoryIsLast
  /\ FilesAreLast
  /\ FilesStay
  /\ Writing

-----------------------------------------------------------------------------

\* Frames are told apart from what is no frame.
LEMMA FrameKinds ==
  /\ \A n \in Nat : n # Nothing /\ n # Torn
  /\ Frames \subseteq Nat
  /\ 0..MaxFrames \subseteq Nat
  BY FilesAssumption DEF Frames

LEMMA InitInv == Init => IInv
  <1> SUFFICES ASSUME Init PROVE IInv
    OBVIOUS
  <1>1. 0 \in 0..MaxFrames
    BY FilesAssumption
  <1>2. TypeOK
    BY <1>1 DEF Init, TypeOK, Contents, Stages
  <1>3. MemoryIsLast /\ FilesAreLast /\ FilesStay /\ Writing
    BY FilesAssumption
       DEF Init, MemoryIsLast, FilesAreLast, LastPublished, FilesStay, Writing
  <1> QED BY <1>2, <1>3 DEF IInv

LEMMA TypeStep == IInv /\ [Next]_vars => TypeOK'
  <1> SUFFICES ASSUME IInv, [Next]_vars PROVE TypeOK'
    OBVIOUS
  <1>0. /\ MaxFrames \in Nat /\ frame \in 0..MaxFrames /\ published \in 0..MaxFrames
        /\ stage # "idle" => published < frame
    BY FilesAssumption DEF IInv, TypeOK, Writing
  <1>1. stage # "idle" => frame \in Frames
    BY <1>0 DEF Frames
  <1>12. frame < MaxFrames => frame + 1 \in 0..MaxFrames
    BY <1>0
  <1> USE DEF IInv, TypeOK, Stages, Contents
  <1>2. CASE Begin
    <2>1. frame' \in 0..MaxFrames
      BY <1>2, <1>12 DEF Begin
    <2> QED BY <1>2, <2>1 DEF Begin
  <1>3. CASE EmptyPicture
    BY <1>3 DEF EmptyPicture
  <1>4. CASE WritePicture
    BY <1>1, <1>4 DEF WritePicture
  <1>5. CASE EmptyState
    BY <1>5 DEF EmptyState
  <1>6. CASE WriteState
    BY <1>1, <1>6 DEF WriteState, StateWritten
  <1>7. CASE Remember
    BY <1>1, <1>7 DEF Remember, Frames
  <1>8. CASE WriteRaises
    BY <1>8 DEF WriteRaises
  <1>9. CASE Crash
    BY <1>9 DEF Crash
  <1>10. CASE Restart
    BY <1>10 DEF Restart
  <1>11. CASE UNCHANGED vars
    BY <1>11 DEF vars
  <1> QED BY <1>2, <1>3, <1>4, <1>5, <1>6, <1>7, <1>8, <1>9, <1>10, <1>11 DEF Next

\* The order of the writes keeps the files usable.
LEMMA FilesStep ==
  IInv /\ [Next]_vars => MemoryIsLast' /\ FilesAreLast' /\ FilesStay' /\ Writing'
  <1> SUFFICES ASSUME IInv, [Next]_vars
               PROVE  MemoryIsLast' /\ FilesAreLast' /\ FilesStay' /\ Writing'
    OBVIOUS
  <1>1. frame \in Nat /\ published \in Nat /\ stage \in Stages
        /\ running \in BOOLEAN /\ interrupted \in BOOLEAN
    BY FrameKinds DEF IInv, TypeOK
  <1>12. /\ published <= frame /\ published < frame + 1
         /\ stage # "idle" => published < frame
    <2>1. /\ stage = "idle" => published <= frame
          /\ stage # "idle" => published < frame
      BY DEF IInv, Writing
    <2>2. published <= frame
      BY <1>1, <2>1
    <2> QED BY <1>1, <2>1, <2>2
  <1>13. ASSUME published' = published, frame' = frame,
                stage' = "idle" \/ stage # "idle"
         PROVE  /\ stage' = "idle" => published' <= frame'
                /\ stage' # "idle" => published' < frame'
    <2>1. published' <= frame'
      BY <1>12, <1>13
    <2>2. stage' # "idle" => published' < frame'
      BY <1>12, <1>13
    <2> QED BY <2>1, <2>2
  <1> USE <1>1, FilesAssumption
      DEF IInv, MemoryIsLast, FilesAreLast, LastPublished, FilesStay, Writing, Stages
  <1>2. CASE Begin
    <2>1. MemoryIsLast' /\ FilesAreLast'
      BY <1>2 DEF Begin
    <2>2. FilesStay'
      BY <1>2 DEF Begin
    <2>3. Writing'
      BY <1>2, <1>12 DEF Begin
    <2> QED BY <2>1, <2>2, <2>3
  <1>3. CASE EmptyPicture
    BY <1>3 DEF EmptyPicture
  <1>4. CASE WritePicture
    BY <1>4 DEF WritePicture
  <1>5. CASE EmptyState
    BY <1>5 DEF EmptyState
  <1>6. CASE WriteState
    <2>1. MemoryIsLast' /\ FilesAreLast'
      BY <1>6 DEF WriteState, StateWritten
    <2>2. FilesStay'
      <3>1. stateFile' = frame /\ published' = published /\ pictureFile' = frame
        BY <1>6 DEF WriteState, StateWritten
      <3>2. stateFile' # Nothing /\ pictureFile' # Nothing
        BY <1>1, <3>1
      <3>3. stateFile' >= published'
        BY <1>1, <1>12, <3>1
      <3> QED BY <3>2, <3>3
    <2>3. Writing'
      BY <1>6, <1>13 DEF WriteState, StateWritten
    <2> QED BY <2>1, <2>2, <2>3
  <1>7. CASE Remember
    BY <1>7 DEF Remember
  <1>8. CASE WriteRaises
    <2>1. MemoryIsLast' /\ FilesAreLast'
      BY <1>8 DEF WriteRaises
    <2>2. FilesStay'
      BY <1>8 DEF WriteRaises
    <2>3. Writing'
      BY <1>8, <1>13 DEF WriteRaises
    <2> QED BY <2>1, <2>2, <2>3
  <1>9. CASE Crash
    <2>1. MemoryIsLast' /\ FilesAreLast'
      BY <1>9 DEF Crash
    <2>2. FilesStay'
      BY <1>9 DEF Crash
    <2>3. Writing'
      BY <1>9, <1>13 DEF Crash
    <2> QED BY <2>1, <2>2, <2>3
  <1>10. CASE Restart
    BY <1>10 DEF Restart
  <1>11. CASE UNCHANGED vars
    BY <1>11 DEF vars
  <1> QED BY <1>2, <1>3, <1>4, <1>5, <1>6, <1>7, <1>8, <1>9, <1>10, <1>11 DEF Next

\* The invariant holds in every state that the Core and its files can reach.
THEOREM FilesInvariance == Spec => []IInv
  <1>1. IInv /\ [Next]_vars => IInv'
    BY TypeStep, FilesStep DEF IInv
  <1> QED BY <1>1, InitInv, PTL DEF Spec

-----------------------------------------------------------------------------
(* The results *)

\* latest-vision and latest-vision-frame agree, whatever was interrupted.
THEOREM EndpointsGoTogether == Spec => []EndpointsAgree
  <1>1. IInv => EndpointsAgree
    <2> SUFFICES ASSUME IInv, NEW id \in Frames
                 PROVE  LatestVisionFrame(id).code = 200 <=>
                          LatestVision.code = 200 /\ LatestVision.id = id
      BY DEF EndpointsAgree
    <2>1. CASE latestVision # Nothing
      BY <2>1 DEF LatestVisionFrame, LatestVision, AnswerIfCurrent, Answer
    <2>2. CASE latestVision = Nothing /\ stateFile \in {Nothing, Torn}
      BY <2>2, FilesAssumption
         DEF IInv, FilesStay, LatestVisionFrame, LatestVision, Answer, AnswerIfCurrent
    <2>3. CASE latestVision = Nothing /\ stateFile \notin {Nothing, Torn}
      <3>1. pictureFile # Nothing
        BY <2>3 DEF IInv, FilesStay
      <3>2. LatestVision = Answer(200, stateFile, Nothing)
        BY <2>3 DEF LatestVision
      <3>3. LatestVisionFrame(id) = AnswerIfCurrent(id, stateFile, pictureFile)
        BY <2>3, <3>1 DEF LatestVisionFrame
      <3> QED BY <3>2, <3>3 DEF AnswerIfCurrent, Answer
    <2> QED BY <2>1, <2>2, <2>3
  <1> QED BY <1>1, FilesInvariance, PTL

\* A picture is that of the frame named with it, but for a restart after an
\* interrupted publication.
THEOREM PictureMatches == Spec => []PictureIsOfItsFrame
  <1>1. IInv => PictureIsOfItsFrame
    <2> SUFFICES ASSUME IInv, NEW id \in Frames, LatestVisionFrame(id).code = 200,
                        ~(interrupted /\ latestVision = Nothing)
                 PROVE  LatestVisionFrame(id).picture = id
      BY DEF PictureIsOfItsFrame
    <2>1. CASE latestVision # Nothing
      BY <2>1 DEF LatestVisionFrame, AnswerIfCurrent, Answer, PictureInMemory
    <2>2. CASE latestVision = Nothing
      <3>1. pictureFile = stateFile
        BY <2>2 DEF IInv, FilesAreLast
      <3> QED BY <2>2, <3>1
              DEF LatestVisionFrame, AnswerIfCurrent, Answer
    <2> QED BY <2>1, <2>2
  <1> QED BY <1>1, FilesInvariance, PTL

\* What was published to the end is served, and nothing older after it.
THEOREM PublishedStaysServed == Spec => []PublishedIsServed
  <1>1. IInv => PublishedIsServed
    <2> SUFFICES ASSUME IInv, published > 0
                 PROVE  /\ ~interrupted =>
                             LatestVisionFrame(published) = Answer(200, published, published)
                        /\ LatestVision.code \in {200, 500}
                        /\ LatestVision.code = 200 => LatestVision.id >= published
                        /\ \A id \in Frames : LatestVisionFrame(id).code # 404
      BY DEF PublishedIsServed
    <2>1. published \in Nat /\ published # Nothing /\ published # Torn
      BY FrameKinds DEF IInv, TypeOK
    <2>2. CASE latestVision # Nothing
      <3>1. latestVision = published
        BY <2>2 DEF IInv, MemoryIsLast
      <3> QED BY <2>1, <2>2, <3>1
              DEF LatestVisionFrame, LatestVision, AnswerIfCurrent, Answer, PictureInMemory
    <2>3. CASE latestVision = Nothing
      <3>1. stateFile # Nothing /\ pictureFile # Nothing
        BY DEF IInv, FilesStay
      <3>2. ~interrupted => pictureFile = published /\ stateFile = published
        BY <2>1 DEF IInv, FilesAreLast, LastPublished
      <3>3. CASE stateFile = Torn
        BY <2>1, <2>3, <3>1, <3>2, <3>3
           DEF LatestVisionFrame, LatestVision, AnswerIfCurrent, Answer
      <3>4. CASE stateFile # Torn
        <4>1. stateFile \in Nat /\ stateFile >= published
          BY <3>1, <3>4, FrameKinds DEF IInv, TypeOK, Contents, FilesStay
        <4>2. LatestVision = Answer(200, stateFile, Nothing)
          BY <2>3, <3>1, <3>4 DEF LatestVision
        <4>3. \A id \in Nat :
                LatestVisionFrame(id) = AnswerIfCurrent(id, stateFile, pictureFile)
          BY <2>3, <3>1, <3>4 DEF LatestVisionFrame
        <4>4. \A id \in Frames : LatestVisionFrame(id).code # 404
          BY <4>3, FrameKinds DEF AnswerIfCurrent, Answer
        <4>5. ~interrupted =>
                LatestVisionFrame(published) = Answer(200, published, published)
          BY <2>1, <3>2, <4>3 DEF AnswerIfCurrent
        <4> QED BY <4>1, <4>2, <4>4, <4>5 DEF Answer
      <3> QED BY <3>3, <3>4
    <2> QED BY <2>2, <2>3
  <1> QED BY <1>1, FilesInvariance, PTL
=============================================================================
