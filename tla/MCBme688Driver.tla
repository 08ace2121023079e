--------------------------- MODULE MCBme688Driver ---------------------------
(***************************************************************************)
(* Bme688Driver with short and long heater profiles.                       *)
(***************************************************************************)
EXTENDS Bme688Driver, TLC
=============================================================================
