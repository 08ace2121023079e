--------------------------- MODULE MCMeasureGroups ---------------------------
(***************************************************************************)
(* MeasureGroups on a few cycles of a short heater profile.                *)
(***************************************************************************)
EXTENDS MeasureGroups, TLC
=============================================================================
