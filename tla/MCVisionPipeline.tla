--------------------------- MODULE MCVisionPipeline ---------------------------
(***************************************************************************)
(* Instance of VisionPipeline for TLC.  Four frames are enough for a frame *)
(* on the wire, one under analysis, one in the slot and one waiting for    *)
(* the lock, all at once; connections may follow each other at any point.  *)
(***************************************************************************)
EXTENDS VisionPipeline
=============================================================================
