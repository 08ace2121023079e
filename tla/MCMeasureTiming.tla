--------------------------- MODULE MCMeasureTiming ---------------------------
(***************************************************************************)
(* MeasureTiming with the boundaries of the encodings and of the           *)
(* oversampling; the encoding compared with the loop of the code.          *)
(***************************************************************************)
EXTENDS MeasureTiming

FewOversamplings ==
  {[temp |-> 0, pres |-> 0, hum |-> 0], [temp |-> 2, pres |-> 4, hum |-> 1],
   [temp |-> 5, pres |-> 3, hum |-> 9]}
EdgeDurations == {255, 4031, 65535}
EdgeMultipliers == {300}

\* The loop of calc_gas_wait and calc_heatr_dur_shared, as it is written.
RECURSIVE EncodeLoop(_, _)
EncodeLoop(dur, factor) ==
  IF dur > 63 THEN EncodeLoop(dur \div 4, factor + 1) ELSE dur + factor * 64

ASSUME EncodeIsTheLoop == \A dur \in 0..4031 : Encode(dur) = EncodeLoop(dur, 0)
=============================================================================
