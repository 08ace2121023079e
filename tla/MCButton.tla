------------------------------ MODULE MCButton ------------------------------
(***************************************************************************)
(* Button on small press times.  A tick of 500 ms gives the firmware's 1 s *)
(* and 4 s as 2 and 8 ticks.                                               *)
(***************************************************************************)
EXTENDS Button, TLC
=============================================================================
