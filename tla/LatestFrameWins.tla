--------------------------- MODULE LatestFrameWins ---------------------------
(***************************************************************************)
(* What the Core promises to a Host Bridge client about the frames it      *)
(* sends, with everything about slots, locks, threads and failures left    *)
(* out.                                                                    *)
(*                                                                         *)
(* The client sees one stream of replies.  Every accepted frame is         *)
(* acknowledged, in order.  A frame may be answered with annotations, at   *)
(* most once and only while it is the newest acknowledged frame, so that   *)
(* the annotations of a frame come straight after its acknowledgement and  *)
(* never after the acknowledgement of a newer one.  The vision state that  *)
(* the HTTP API serves changes with the annotations and never goes back to *)
(* an older frame.                                                         *)
(***************************************************************************)
EXTENDS Naturals, Sequences

CONSTANT Frames    \* the numbers a frame can have

VARIABLES
  wire,     \* frame replies sent on the open connection, oldest first
  latest    \* number of the frame behind GET /api/bridge/latest-vision, 0 if none

vars == <<wire, latest>>

Ack(n)         == [type |-> "frame_ack", frame |-> n]
Annotations(n) == [type |-> "vision_annotations", frame |-> n]

Newest == wire[Len(wire)]

Init ==
  /\ wire = <<>>
  /\ latest = 0

Accept(n) ==
  /\ wire # <<>> => n > Newest.frame
  /\ n > latest
  /\ wire' = Append(wire, Ack(n))
  /\ UNCHANGED latest

Annotate(n) ==
  /\ wire # <<>>
  /\ Newest = Ack(n)
  /\ wire' = Append(wire, Annotations(n))
  /\ latest' = n

Reconnect ==
  /\ wire' = <<>>
  /\ UNCHANGED latest

Next ==
  \/ \E n \in Frames : Accept(n) \/ Annotate(n)
  \/ Reconnect

Spec == Init /\ [][Next]_vars
=============================================================================
