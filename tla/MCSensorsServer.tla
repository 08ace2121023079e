--------------------------- MODULE MCSensorsServer ---------------------------
(***************************************************************************)
(* SensorsServer with two clients and as many datagrams.                   *)
(***************************************************************************)
EXTENDS SensorsServer

CONSTANTS first, second, alice, bob, none

TwoDatagrams == {first, second}
TwoClients   == {alice, bob}
FromBoth     == [d \in TwoDatagrams |-> IF d = first THEN alice ELSE bob]
=============================================================================
