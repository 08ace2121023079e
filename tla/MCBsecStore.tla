----------------------------- MODULE MCBsecStore -----------------------------
(***************************************************************************)
(* BsecStore on short periods and with sets of faults.                     *)
(***************************************************************************)
EXTENDS BsecStore, TLC

FlashFaults == {"erase", "write", "state"}
AllFaults   == FlashFaults \union {"read"}
=============================================================================
