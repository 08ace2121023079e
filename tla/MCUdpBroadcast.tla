--------------------------- MODULE MCUdpBroadcast ---------------------------
(***************************************************************************)
(* UdpBroadcast with the main thread, the sensor thread and a third one.   *)
(***************************************************************************)
EXTENDS UdpBroadcast, TLC

CONSTANTS main, bme688, third

ThreeThreads == {main, bme688, third}
=============================================================================
