----------------------------- MODULE MCRunSession -----------------------------
(***************************************************************************)
(* RunSession on a small instance: two concurrent callers, one scene, one  *)
(* entity, one sound and two capture times, so that a late vision state    *)
(* can follow a newer one, and four events.                                *)
(***************************************************************************)
EXTENDS RunSession

CONSTANTS office, bonnie, footstep, c1, c2

MCTimes == {1, 2}
MCCallers == {c1, c2}
MCScenes == {office}
MCEntities == {bonnie}
MCSounds == {footstep}

\* The callers are alike.
Symmetry == Permutations(MCCallers)
=============================================================================
