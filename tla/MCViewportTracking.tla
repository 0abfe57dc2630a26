-------------------------- MODULE MCViewportTracking --------------------------
(***************************************************************************)
(* ViewportTracking on a small instance: a reference of 40 columns and two *)
(* threads that observe at once or in turn, whose frames are wider than it *)
(* or show 24, 26 or 34 columns, at its scale, larger or smaller.          *)
(* Of the pans, 6 is near 0 and 16 too far from either for the search      *)
(* around the last one, and from 0 for a jump.                             *)
(***************************************************************************)
EXTENDS ViewportTracking, TLC

CONSTANTS a, b

Size(w, h) == [width |-> w, height |-> h]

MCSizes == {Size(48, 18), Size(36, 27), Size(13, 9), Size(34, 18)}

MCViews == {0, 6, 16}

MCRois == {[x |-> 10, width |-> 5], [x |-> 0, width |-> 20], [x |-> 13, width |-> 1]}

MCEntities ==
  [x : {0, 9, 11}, width : {2, 8}, scope : {"reference", "frame", "roi"}]

\* The threads are alike.
Symmetry == Permutations({a, b})
=============================================================================
