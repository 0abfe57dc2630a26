--------------------------- MODULE LatestVisionFiles ---------------------------
(***************************************************************************)
(* The last published frame, its vision state and where the Core serves    *)
(* them from (src/src/agentic_gaming/main.py): memory while the process    *)
(* lives, the files latest-vision-frame.png and latest-vision.json after a *)
(* restart.                                                                *)
(*                                                                         *)
(* Publication awaits nothing until both files are written, so no endpoint *)
(* runs in the middle of it.  But the process may stop at any point of it, *)
(* and each write may raise: write_bytes and write_text empty the file     *)
(* first and fill it then.                                                 *)
(***************************************************************************)
EXTENDS Naturals

CONSTANTS
  MaxFrames,      \* bound: frames analysed and found to be the newest
  Nothing,        \* no frame: a missing file, nothing in memory
  Torn            \* a file that was emptied and not filled to the end

ASSUME FilesAssumption ==
  /\ MaxFrames \in Nat
  /\ Nothing \notin Nat
  /\ Torn \notin Nat
  /\ Nothing # Torn

VARIABLES
  running,        \* the Core is up
  latestVision,   \* frame of latest_vision and latest_vision_frame_bytes
  pictureFile,    \* frame in latest-vision-frame.png
  stateFile,      \* frame in latest-vision.json
  stage,          \* where the publication stands
  frame,          \* frames are numbered as they are published or tried to be
  published,      \* history: the last frame published to the end
  interrupted     \* history: a later publication was begun and not ended

vars == <<running, latestVision, pictureFile, stateFile, stage, frame, published,
          interrupted>>

Frames == 1..MaxFrames

Init ==
  /\ running = TRUE
  /\ latestVision = Nothing
  /\ pictureFile = Nothing
  /\ stateFile = Nothing
  /\ stage = "idle"
  /\ frame = 0
  /\ published = 0
  /\ interrupted = FALSE

-----------------------------------------------------------------------------
(* Publication *)

\* process_latest_frame has found no newer frame: a new frame is to be written.
Begin ==
  /\ running
  /\ stage = "idle"
  /\ frame < MaxFrames
  /\ frame' = frame + 1
  /\ stage' = "empty picture"
  /\ UNCHANGED <<running, latestVision, pictureFile, stateFile, published,
                 interrupted>>

\* A file opened for writing is empty.
EmptyPicture ==
  /\ running
  /\ stage = "empty picture"
  /\ stage' = "write picture"
  /\ pictureFile' = Torn
  /\ interrupted' = TRUE
  /\ UNCHANGED <<running, latestVision, stateFile, frame, published>>

WritePicture ==
  /\ running
  /\ stage = "write picture"
  /\ stage' = "empty state"
  /\ pictureFile' = frame
  /\ UNCHANGED <<running, latestVision, stateFile, frame, published, interrupted>>

EmptyState ==
  /\ running
  /\ stage = "empty state"
  /\ stage' = "write state"
  /\ stateFile' = Torn
  /\ UNCHANGED <<running, latestVision, pictureFile, frame, published, interrupted>>

\* Broken on purpose: the state is written only when memory has none.
StateWrittenOnce == IF latestVision = Nothing THEN frame ELSE latestVision

StateWritten == frame

WriteState ==
  /\ running
  /\ stage = "write state"
  /\ stage' = "remember"
  /\ stateFile' = StateWritten
  /\ UNCHANGED <<running, latestVision, pictureFile, frame, published, interrupted>>

Remember ==
  /\ running
  /\ stage = "remember"
  /\ stage' = "idle"
  /\ latestVision' = frame
  /\ published' = frame
  /\ interrupted' = FALSE
  /\ UNCHANGED <<running, pictureFile, stateFile, frame>>

\* A write raises, and the except clause reports it: the files stay as they
\* are, and so does what memory serves.
WriteRaises ==
  /\ running
  /\ stage \notin {"idle", "remember"}
  /\ stage' = "idle"
  /\ UNCHANGED <<running, latestVision, pictureFile, stateFile, frame, published,
                 interrupted>>

-----------------------------------------------------------------------------
(* The process *)

Crash ==
  /\ running
  /\ running' = FALSE
  /\ stage' = "idle"
  /\ latestVision' = Nothing
  /\ UNCHANGED <<pictureFile, stateFile, frame, published, interrupted>>

\* startup: latest_vision and latest_vision_frame_bytes are None.
Restart ==
  /\ ~running
  /\ running' = TRUE
  /\ UNCHANGED <<latestVision, pictureFile, stateFile, stage, frame, published,
                 interrupted>>

Next ==
  \/ Begin
  \/ EmptyPicture
  \/ WritePicture
  \/ EmptyState
  \/ WriteState
  \/ Remember
  \/ WriteRaises
  \/ Crash
  \/ Restart

Spec == Init /\ [][Next]_vars

-----------------------------------------------------------------------------
(* The endpoints: what they answer now *)

Answering == running /\ stage = "idle"

Answer(code, id, picture) == [code |-> code, id |-> id, picture |-> picture]

\* GET latest-vision
LatestVision ==
  CASE latestVision # Nothing -> Answer(200, latestVision, Nothing)
    [] latestVision = Nothing /\ stateFile = Nothing -> Answer(404, Nothing, Nothing)
    [] latestVision = Nothing /\ stateFile = Torn -> Answer(500, Nothing, Nothing)
    [] OTHER -> Answer(200, stateFile, Nothing)

\* Broken on purpose: the frame_id of the request is not compared.
AnswerAnyRequest(requested, current, picture) == Answer(200, current, picture)

\* The picture of another frame is refused with 409; X-Frame-ID names the frame.
AnswerIfCurrent(requested, current, picture) ==
  IF requested # current THEN Answer(409, Nothing, Nothing)
                         ELSE Answer(200, current, picture)

\* Broken on purpose: the picture always comes from its file.
PictureFromFile == pictureFile

\* latest_vision_frame_bytes are set together with latest_vision.
PictureInMemory == latestVision

\* GET latest-vision-frame?frame_id=requested
LatestVisionFrame(requested) ==
  CASE latestVision # Nothing -> AnswerIfCurrent(requested, latestVision, PictureInMemory)
    [] latestVision = Nothing /\ Nothing \in {stateFile, pictureFile} ->
         Answer(404, Nothing, Nothing)
    [] latestVision = Nothing /\ pictureFile # Nothing /\ stateFile = Torn ->
         Answer(500, Nothing, Nothing)
    [] OTHER -> AnswerIfCurrent(requested, stateFile, pictureFile)

-----------------------------------------------------------------------------
(* Properties *)

Stages == {"idle", "empty picture", "write picture", "empty state", "write state",
           "remember"}

Contents == Frames \cup {Nothing, Torn}

\* The variables hold values of their kind; nothing is under way in a Core that
\* is down, and it has no memory.
TypeOK ==
  /\ running \in BOOLEAN
  /\ latestVision \in Frames \cup {Nothing}
  /\ pictureFile \in Contents
  /\ stateFile \in Contents
  /\ stage \in Stages
  /\ frame \in 0..MaxFrames
  /\ published \in 0..MaxFrames
  /\ interrupted \in BOOLEAN
  /\ ~running => stage = "idle" /\ latestVision = Nothing

\* The two endpoints go together, before and after a restart and whatever was
\* interrupted: who asks latest-vision-frame for the frame that latest-vision
\* shows gets a picture, and a picture is only given for the frame shown.  The
\* picture is written before the state for this reason.
EndpointsAgree ==
  Answering => \A id \in Frames :
    LatestVisionFrame(id).code = 200 <=>
      LatestVision.code = 200 /\ LatestVision.id = id

\* A picture is the picture of the frame named with it, unless the Core was
\* restarted and the last publication before that was interrupted: a failed
\* write is not seen while memory has the last frame.
PictureIsOfItsFrame ==
  Answering => \A id \in Frames :
    LatestVisionFrame(id).code = 200 =>
      \/ LatestVisionFrame(id).picture = id
      \/ interrupted /\ latestVision = Nothing

\* A frame that was published to the end is served until another is begun, also
\* by a restarted Core.  After that no older frame is served again, and not found
\* is not the answer: there is a frame to serve, or the files of an interrupted
\* publication are beyond reading (status 500).
PublishedIsServed ==
  Answering /\ published > 0 =>
    /\ ~interrupted => LatestVisionFrame(published) = Answer(200, published, published)
    /\ LatestVision.code \in {200, 500}
    /\ LatestVision.code = 200 => LatestVision.id >= published
    /\ \A id \in Frames : LatestVisionFrame(id).code # 404
=============================================================================
