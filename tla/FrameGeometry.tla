----------------------------- MODULE FrameGeometry -----------------------------
(***************************************************************************)
(* The horizontal arithmetic of src/game-packs/fnaf1/vision/runtime.py:    *)
(* from normalized boxes to pixels of a frame, and from the coordinates of *)
(* the reference picture ("world") to the frame that shows a part of it.   *)
(* The vertical axis is the same without a pan.                            *)
(*                                                                         *)
(* A normalized number is a fraction over Unit.  Floats are taken to be    *)
(* exact; round() is Python's, to the even neighbour.                      *)
(***************************************************************************)
EXTENDS Integers, FiniteSetsExt

CONSTANTS
  ReferenceWidth,   \* registration.reference_size
  ReferenceHeight,
  Unit,             \* denominator of normalized coordinates
  Nowhere           \* None: no box, no pan

ASSUME ReferenceAssumption ==
  /\ ReferenceWidth \in Nat \ {0}
  /\ ReferenceHeight \in Nat \ {0}
  /\ Unit \in Nat \ {0}
  /\ Nowhere \notin Int
  /\ Nowhere \notin [left : Nat, right : Nat]

\* round(n / d)
Round(n, d) ==
  LET floor == n \div d
      twice == 2 * (n % d)
  IN IF twice > d \/ (twice = d /\ floor % 2 = 1) THEN floor + 1 ELSE floor

Clip(low, high, x) == Max({low, Min({high, x})})

Abs(x) == IF x < 0 THEN -x ELSE x

\* Pixels from left up to, and without, right.
Pixels(left, right) == [left |-> left, right |-> right]

\* The columns of the reference that a frame shows: its height fills the height of
\* the reference.
ViewportWidth(frame) ==
  Clip(1, ReferenceWidth, Round(frame.width * ReferenceHeight, frame.height))

LargestPan(frame) == Max({0, ReferenceWidth - ViewportWidth(frame)})

\* _crop_normalized, with the normalized box from / den .. to / den.
CropNormalized(from, to, den, frame) ==
  LET left == Clip(0, frame.width, Round(from * frame.width, den))
  IN Pixels(left, Clip(left, frame.width, Round(to * frame.width, den)))

\* Broken on purpose: the pan is subtracted as pixels of the frame.
FrameColumnUnscaled(x, pan, frame) ==
  Round(x * ReferenceWidth * frame.height - pan * Unit * ReferenceHeight,
        Unit * ReferenceHeight)

\* The column of the frame where a normalized x of the reference is seen.
FrameColumn(x, pan, frame) ==
  Round((x * ReferenceWidth - pan * Unit) * frame.height, Unit * ReferenceHeight)

\* _roi_for_frame of a world ROI.
RoiForFrame(roi, pan, frame) ==
  LET left == Clip(0, frame.width, FrameColumn(roi.x, pan, frame))
      right == Clip(left, frame.width, FrameColumn(roi.x + roi.width, pan, frame))
  IN IF right <= left THEN Nowhere ELSE Pixels(left, right)

\* _viewport_gray: the first column of the reference that the frame is compared
\* with; ViewportWidth columns are stretched over the width of the frame.
ViewportLeft(pan, frame) == Clip(0, ReferenceWidth - ViewportWidth(frame), pan)

\* _scope_bbox: left and width of an entity's box, from the left of the ROI.
ScopeBox(entity, roi, pan, frame) ==
  CASE entity.scope = "reference" ->
         [left |-> FrameColumn(entity.x, pan, frame) - roi.left,
          width |-> Round(entity.width * ReferenceWidth * frame.height,
                          Unit * ReferenceHeight)]
    [] entity.scope = "frame" ->
         [left |-> Round(entity.x * frame.width, Unit) - roi.left,
          width |-> Round(entity.width * frame.width, Unit)]
    [] OTHER ->
         [left |-> Round(entity.x * (roi.right - roi.left), Unit),
          width |-> Round(entity.width * (roi.right - roi.left), Unit)]

\* _restrict_mask: the part of the ROI in which differences count.
Restricted(scope, roi) ==
  LET size == roi.right - roi.left
      left == Clip(0, size, scope.left)
  IN Pixels(left, Clip(left, size, scope.left + scope.width))

\* Broken on purpose: the box is not moved by the left of the ROI.
HintBoxUnmoved(scope, roi, frame) ==
  LET left == Clip(0, frame.width, scope.left)
      right == Clip(left, frame.width, scope.left + scope.width)
  IN IF right <= left THEN Nowhere ELSE Pixels(left, right)

\* _hint_bbox: the box that is shown for the entity, in pixels of the frame.
HintBox(scope, roi, frame) ==
  LET left == Clip(0, frame.width, roi.left + scope.left)
      right == Clip(left, frame.width, roi.left + scope.left + scope.width)
  IN IF right <= left THEN Nowhere ELSE Pixels(left, right)
=============================================================================
