---------------------------- MODULE ViewportTracking ----------------------------
(***************************************************************************)
(* Where in the reference picture the frame looks: DifferenceVision.observe *)
(* and _register_horizontal_viewport in                                    *)
(* src/game-packs/fnaf1/vision/runtime.py, which search near the previous  *)
(* pan first and keep pan and shape of the last frame for the next one.    *)
(*                                                                         *)
(* One provider serves all connections: the worker thread of a connection  *)
(* that was closed may still observe while that of the next one does.      *)
(*                                                                         *)
(* A frame is its size, the pan it was taken at and whether its anchor has *)
(* contrast; the error of a position grows with its distance from that pan *)
(* up to Blur.                                                             *)
(***************************************************************************)
EXTENDS FrameGeometry

CONSTANTS
  Threads,          \* worker threads that observe
  Sizes,            \* sizes of the frames
  Views,            \* bound: the pans a frame may be taken at
  WorldRois,        \* ROIs in world coordinates
  Entities,         \* boxes of entities
  CoarseStep,       \* coarse_step, refine_step: in pixels of the reference
  RefineStep,
  MaxPanJump,       \* max_pan_jump_px
  MaxAnchorError,   \* max_anchor_error, and min_confidence, which is the same
  Blur,             \* the error of a position that has nothing of the anchor
  Patience          \* bound: frames of a still view that are counted

ASSUME TrackingAssumption ==
  /\ {CoarseStep, RefineStep, MaxPanJump, Patience} \subseteq Nat \ {0}
  /\ {MaxAnchorError, Blur} \subseteq Nat
  /\ MaxAnchorError < Blur

ASSUME InputsAssumption ==
  /\ Sizes \subseteq [width : Nat \ {0}, height : Nat \ {0}]
  /\ Views \subseteq Nat
  /\ WorldRois \subseteq [x : Nat, width : Nat]
  /\ Entities \subseteq [x : Nat, width : Nat, scope : {"reference", "frame", "roi"}]

VARIABLES
  pc,               \* where the observation of a thread stands
  frame,            \* the frame a thread observes, Nowhere when it is idle
  previous,         \* previous_pan_x
  lastPan,          \* _last_pan_x
  lastShape,        \* _last_frame_shape
  pan,              \* the pan a thread has found for its frame
  raised,           \* the last registration raised
  \* history
  still,            \* the last frame, and how often it was observed in a row
  concurrent        \* two observations were open at once

tracker == <<lastPan, lastShape>>
history == <<still, concurrent>>
vars == <<pc, frame, previous, lastPan, lastShape, pan, raised, history>>

Frames ==
  {f \in [width : {s.width : s \in Sizes}, height : {s.height : s \in Sizes},
          at : Views \cup {Nowhere}, clear : BOOLEAN] :
     /\ \E s \in Sizes : s.width = f.width /\ s.height = f.height
     /\ f.at # Nowhere => f.clear /\ f.at <= LargestPan(f)}

ASSUME NowhereIsNoFrame == Nowhere \notin Frames

Shape(f) == <<f.width, f.height>>

NeverStill == [frame |-> Nowhere, times |-> 0]

Init ==
  /\ pc = [t \in Threads |-> "idle"]
  /\ frame = [t \in Threads |-> Nowhere]
  /\ previous = [t \in Threads |-> Nowhere]
  /\ lastPan = Nowhere
  /\ lastShape = <<>>
  /\ pan = [t \in Threads |-> Nowhere]
  /\ raised = FALSE
  /\ still = NeverStill
  /\ concurrent = FALSE

-----------------------------------------------------------------------------
(* The search *)

Error(f, x) ==
  IF f.at = Nowhere THEN Blur ELSE Min({Blur, Abs(x - f.at)})

\* range(low, high + 1, step)
Positions(low, high, step) ==
  {x \in low..high : (x - low) % step = 0}

\* min(positions, key=score): the first of the best.
BestOf(f, positions) ==
  CHOOSE x \in positions :
    \A y \in positions :
      Error(f, x) < Error(f, y) \/ (Error(f, x) = Error(f, y) /\ x <= y)

LocalPositions(f, from) ==
  Positions(Max({0, from - 2 * CoarseStep}), Min({LargestPan(f), from + 2 * CoarseStep}),
            CoarseStep)

GlobalPositions(f) == Positions(0, LargestPan(f), CoarseStep)

Coarse(f, from) ==
  LET near == BestOf(f, LocalPositions(f, from))
  IN IF from # Nowhere /\ Error(f, near) <= MaxAnchorError
     THEN near
     ELSE BestOf(f, GlobalPositions(f))

\* Broken on purpose: the refinement may leave the reference picture.
RefinedUnclipped(f, best) ==
  BestOf(f, Positions(best - CoarseStep, best + CoarseStep, RefineStep))

Refined(f, best) ==
  BestOf(f, Positions(Max({0, best - CoarseStep}),
                      Min({LargestPan(f), best + CoarseStep}), RefineStep))

\* The pan to answer and to keep: none if the anchor is not found well enough or
\* found too far from where it was.
Located(f, from) ==
  LET best == Refined(f, Coarse(f, from))
  IN IF Error(f, best) > MaxAnchorError \/ (from # Nowhere /\ Abs(best - from) > MaxPanJump)
     THEN Nowhere
     ELSE best

-----------------------------------------------------------------------------
(* The observation *)

Begin(t, f) ==
  /\ pc[t] = "idle"
  /\ frame' = [frame EXCEPT ![t] = f]
  /\ concurrent' = (concurrent \/ \E u \in Threads : pc[u] # "idle")
  /\ still' = IF concurrent' THEN NeverStill
              ELSE [frame |-> f,
                    times |-> IF f = still.frame THEN Min({still.times + 1, Patience})
                              ELSE 1]
  /\ pc' = [pc EXCEPT ![t] = "shape"]
  /\ UNCHANGED <<previous, tracker, pan, raised>>

\* Broken on purpose: the pan of another shape is kept.
KeptForShapeAlways(t) == lastPan

KeptForShape(t) ==
  IF lastShape # <<>> /\ lastShape # Shape(frame[t]) THEN Nowhere ELSE lastPan

\* A pan of a frame of another shape is forgotten.
ForgetOtherShape(t) ==
  /\ pc[t] = "shape"
  /\ lastPan' = KeptForShape(t)
  /\ pc' = [pc EXCEPT ![t] = "keep shape"]
  /\ UNCHANGED <<frame, previous, lastShape, pan, raised, history>>

KeepShape(t) ==
  /\ pc[t] = "keep shape"
  /\ lastShape' = Shape(frame[t])
  /\ pc' = [pc EXCEPT ![t] = "register"]
  /\ UNCHANGED <<frame, previous, lastPan, pan, raised, history>>

ShowsAll(f) == f.width >= ReferenceWidth \/ LargestPan(f) = 0

Found(t, x) ==
  /\ pan' = [pan EXCEPT ![t] = x]
  /\ lastPan' = x
  /\ raised' = FALSE
  /\ pc' = [pc EXCEPT ![t] = "registered"]

\* There is nothing to pan in a frame as wide as the reference.
NothingToPan(t) ==
  /\ pc[t] = "register"
  /\ ShowsAll(frame[t])
  /\ Found(t, 0)
  /\ UNCHANGED <<frame, previous, lastShape, history>>

\* The anchor is empty or has too little contrast to be found.
NoAnchor(t) ==
  /\ pc[t] = "register"
  /\ ~ShowsAll(frame[t])
  /\ ~frame[t].clear
  /\ Found(t, Nowhere)
  /\ UNCHANGED <<frame, previous, lastShape, history>>

ReadPrevious(t) ==
  /\ pc[t] = "register"
  /\ ~ShowsAll(frame[t])
  /\ frame[t].clear
  /\ previous' = [previous EXCEPT ![t] = lastPan]
  /\ pc' = [pc EXCEPT ![t] = "search"]
  /\ UNCHANGED <<frame, tracker, pan, raised, history>>

SearchIsEmpty(t) ==
  previous[t] # Nowhere /\ LocalPositions(frame[t], previous[t]) = {}

\* Broken on purpose: a refusal keeps the pan it has refused to jump from.
KeptPanOf(t) ==
  LET x == Located(frame[t], previous[t]) IN IF x = Nowhere THEN previous[t] ELSE x

KeptPan(t) == Located(frame[t], previous[t])

Search(t) ==
  /\ pc[t] = "search"
  /\ ~SearchIsEmpty(t)
  /\ pan' = [pan EXCEPT ![t] = Located(frame[t], previous[t])]
  /\ lastPan' = KeptPan(t)
  /\ raised' = FALSE
  /\ pc' = [pc EXCEPT ![t] = "registered"]
  /\ UNCHANGED <<frame, previous, lastShape, history>>

\* The observation ends and its local variables with it.
Leave(t) ==
  /\ pc' = [pc EXCEPT ![t] = "idle"]
  /\ frame' = [frame EXCEPT ![t] = Nowhere]
  /\ previous' = [previous EXCEPT ![t] = Nowhere]

\* min() of an empty range raises ValueError.
SearchRaises(t) ==
  /\ pc[t] = "search"
  /\ SearchIsEmpty(t)
  /\ raised' = TRUE
  /\ Leave(t)
  /\ UNCHANGED <<tracker, pan, history>>

\* The candidates are evaluated and the observation is returned.
Return(t) ==
  /\ pc[t] = "registered"
  /\ pan' = [pan EXCEPT ![t] = Nowhere]
  /\ Leave(t)
  /\ UNCHANGED <<tracker, raised, history>>

Next ==
  \E t \in Threads :
    \/ \E f \in Frames : Begin(t, f)
    \/ ForgetOtherShape(t)
    \/ KeepShape(t)
    \/ NothingToPan(t)
    \/ NoAnchor(t)
    \/ ReadPrevious(t)
    \/ Search(t)
    \/ SearchRaises(t)
    \/ Return(t)

Spec == Init /\ [][Next]_vars

-----------------------------------------------------------------------------
(* Properties *)

Stages == {"idle", "shape", "keep shape", "register", "search", "registered"}

Pans == 0..ReferenceWidth \cup {Nowhere}

\* The variables hold values of their kind, and the local variables of an
\* observation are unset outside of it.
TypeOK ==
  /\ pc \in [Threads -> Stages]
  /\ frame \in [Threads -> Frames \cup {Nowhere}]
  /\ previous \in [Threads -> Pans]
  /\ lastPan \in Pans
  /\ lastShape \in {<<>>} \cup {Shape(f) : f \in Frames}
  /\ pan \in [Threads -> Pans]
  /\ raised \in BOOLEAN
  /\ still \in [frame : Frames \cup {Nowhere}, times : 0..Patience]
  /\ concurrent \in BOOLEAN
  /\ \A t \in Threads :
       /\ frame[t] = Nowhere <=> pc[t] = "idle"
       /\ pan[t] # Nowhere => pc[t] = "registered"
       /\ previous[t] # Nowhere => pc[t] \in {"search", "registered"}

\* Whatever the other threads do to the tracker meanwhile, the pan that an
\* observation goes on with is a pan its frame can have, and the anchor is there.
PanFitsItsFrame ==
  \A t \in Threads : pc[t] = "registered" /\ pan[t] # Nowhere =>
    /\ pan[t] \in 0..LargestPan(frame[t])
    /\ ~ShowsAll(frame[t]) => Error(frame[t], pan[t]) <= MaxAnchorError

\* As long as one observation follows the other there always is a position to
\* look at: the pan of a wider view, from before the frames changed their size,
\* is never the start of a search.
SearchNeverRaises == ~concurrent => ~raised

\* As long as one observation follows the other a view that stands still is found,
\* as exactly as the refinement allows, from whatever pan was tracked before: a
\* pan that was refused, or found somewhere near an older one, does not keep the
\* search away from it.
StillViewIsFound ==
  \A t \in Threads :
    /\ pc[t] = "registered" /\ ~concurrent
    /\ still.times = Patience /\ frame[t].clear /\ frame[t].at # Nowhere
    /\ ~ShowsAll(frame[t])
    => pan[t] # Nowhere /\ Abs(pan[t] - frame[t].at) < RefineStep

\* The frame shows a part of the reference: it is no wider than that, for its height.
ShowsPart(f) == Round(f.width * ReferenceHeight, f.height) \in 1..ReferenceWidth

\* What a frame is compared with is what it shows: the left of a world ROI in the
\* frame is compared with the left of that ROI in the reference, but for the
\* rounding of a column of each.  Not so in a frame that is wider than the
\* reference: _viewport_gray stretches all of it over the frame, _roi_for_frame
\* leaves it at its scale.
WorldRoiIsAligned ==
  \A t \in Threads : pc[t] = "registered" /\ pan[t] # Nowhere /\ ShowsPart(frame[t]) =>
    \A roi \in WorldRois :
      LET f == frame[t]
          seen == RoiForFrame(roi, pan[t], f)
          compared == ViewportLeft(pan[t], f) * f.width + seen.left * ViewportWidth(f)
      IN seen # Nowhere /\ seen.left > 0 =>
           2 * f.height * Abs(compared * Unit - roi.x * ReferenceWidth * f.width)
             <= f.width * Unit * (ReferenceHeight + f.height)

\* The box shown for an entity holds every pixel that was counted as evidence of
\* it, so there is one whenever there is evidence.
HintHoldsEvidence ==
  \A t \in Threads : pc[t] = "registered" /\ pan[t] # Nowhere =>
    \A roi \in WorldRois, entity \in Entities :
      LET f == frame[t]
          world == RoiForFrame(roi, pan[t], f)
          seen == IF world = Nowhere
                  THEN CropNormalized(roi.x, roi.x + roi.width, Unit, f)
                  ELSE CropNormalized(world.left, world.right, f.width, f)
          scope == ScopeBox(entity, seen, pan[t], f)
          evidence == Restricted(scope, seen)
          hint == HintBox(scope, seen, f)
      IN evidence.left < evidence.right =>
           /\ hint # Nowhere
           /\ hint.left <= seen.left + evidence.left
           /\ seen.left + evidence.right <= hint.right
=============================================================================
