-------------------------- MODULE MCSceneObservation --------------------------
(***************************************************************************)
(* SceneObservation for TLC: every picture of four pixels in three grays,  *)
(* every pair of title scores around the two bounds, a pan that is known   *)
(* or not, ROIs in the picture and beside it, and three packs.             *)
(***************************************************************************)
EXTENDS SceneObservation, TLC

MCPixels == 1..4

MCGrays == {0, 10, 40}

MCPictures ==
  "bonnie" :> <<40, 40, 0, 0>> @@
  "bonnie near" :> <<0, 0, 40, 40>> @@
  "empty" :> <<0, 0, 0, 0>> @@
  "dark" :> <<0, 10, 40, 10>> @@
  "foxy" :> <<0, 40, 40, 10>> @@
  "unread" :> Nothing

MCRois ==
  "door" :> "world" @@ "window" :> "world" @@ "screen" :> "screen"

\* A component is two pixels side by side; for a Foxy or a light one is enough.
Pairs == {mask \in SUBSET MCPixels : \E x \in mask : x + 1 \in mask}

Pixel == (SUBSET MCPixels) \ {{}}

Candidate(scene, camera, space, roi, positives, negatives, state) ==
  [scene |-> scene, camera |-> camera, space |-> space, roi |-> roi,
   positives |-> positives, negatives |-> negatives, state |-> state,
   allowed |-> MCPixels, components |-> Pairs, enabled |-> TRUE]

Door == Candidate("office", "none", "world", "door", <<"bonnie">>, <<"empty", "dark">>, "present")

Light ==
  [Candidate("office", "none", "screen", "screen", <<"foxy">>, <<"empty">>, "active")
     EXCEPT !.allowed = {2, 3, 4}, !.components = Pixel]

Stage1A ==
  Candidate("camera", "CAM1A", "screen", "screen", <<"bonnie", "bonnie near">>, <<"empty">>,
            "present")

Foxy1C ==
  [Candidate("camera", "CAM1C", "screen", "screen", <<"foxy", "unread">>, <<"dark">>, "running")
     EXCEPT !.components = Pixel]

Window == [Door EXCEPT !.roi = "window", !.negatives = <<"empty">>]

\* One candidate of each kind in pipeline.json: world and screen, one and several
\* references, cameras, and a reference that is missing.  Then two ROIs of the world
\* among candidates that are not looked at; and candidates in the wrong space.
MCPipelines ==
  {<<Door, Light, Stage1A, Foxy1C>>,
   <<[Light EXCEPT !.enabled = FALSE], Window, [Door EXCEPT !.roi = "moved"], Door>>,
   <<[Door EXCEPT !.roi = "screen"], Light, [Light EXCEPT !.roi = "window"], Foxy1C>>}

MCTitleScores == {0, 5900, 7100}
=============================================================================
