----------------------------- MODULE MCAudioIntake -----------------------------
(***************************************************************************)
(* AudioIntake on a small instance.  A history of 3 units, a warm-up of 2  *)
(* and chunks of 1 or 2 units put the eviction and the warm-up on their    *)
(* boundaries; a baseline at 25 percent meets a half to be rounded and     *)
(* lets two chunks in a row be loud; levels 0 and 6 are a quiet and a loud *)
(* chunk.  The order of sequence numbers, where duration and loudness do   *)
(* not matter, is checked with chunks that are all alike.                  *)
(***************************************************************************)
EXTENDS AudioIntake

CONSTANTS game, desktop

MCDurations == {1, 2}
MCLevels == {0, 6}
MCAlike == {1}
MCStreams == {game, desktop}
=============================================================================
