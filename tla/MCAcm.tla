------------------------------- MODULE MCAcm -------------------------------
(***************************************************************************)
(* Three MODCODs, and a pass of four ticks or of none.  The hysteresis is  *)
(* nothing, or less than, exactly or more than a gap between requirements, *)
(* so that levels coincide.  The delay is nothing, one tick, or half the   *)
(* pass, so that decisions overlap and the last are dropped.               *)
(***************************************************************************)
EXTENDS Acm

ThreeModcods == <<0, 2, 5>>
ShortPasses ==
  [hysteresis : {0, 1, 2, 4}, delay : {0, 1, 2}, end : {0, 4}, grid : BOOLEAN]
=============================================================================
