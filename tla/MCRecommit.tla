----------------------------- MODULE MCRecommit -----------------------------
(***************************************************************************)
(* Recommit at millisecond resolution: intervals below the minimum, at it, *)
(* between the limits, at the maximum and above it; fill ratios below the  *)
(* 0.1 clamp, at a quarter, a half and full.                               *)
(***************************************************************************)
EXTENDS Recommit

MCSecond    == 1000
MCIntervals == {500, 1000, 3000, 15000, 20000}
MCRatios    == {<<0, 4>>, <<1, 20>>, <<1, 4>>, <<2, 4>>, <<4, 4>>}
=============================================================================
