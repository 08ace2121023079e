----------------------------- MODULE FieldStream -----------------------------
(***************************************************************************)
(* What reading the sensor's fields promises: the measurements handed over *)
(* come in the order they were made, none of them twice.  Some may be      *)
(* missing.  MeasureGroups takes its fields from such a stream.            *)
(***************************************************************************)
EXTENDS Integers, Sequences

VARIABLES
  made,    \* how many measurements the sensor has made; they are 0, 1, ...
  out,     \* the measurements handed over by the last read
  newest   \* the newest measurement handed over so far, -1 if none

vars == <<made, out, newest>>

Init == made = 0 /\ out = <<>> /\ newest = -1

Make ==
  /\ made' = made + 1
  /\ UNCHANGED <<out, newest>>

\* A read hands over at least one new measurement, oldest first.
HandOver ==
  /\ out' \in Seq(newest + 1..made - 1) /\ out' # <<>>
  /\ \A i, j \in 1..Len(out') : i < j => out'[i] < out'[j]
  /\ newest' = out'[Len(out')]
  /\ UNCHANGED made

\* A read that fails or finds nothing new hands over nothing.
HandOverNothing ==
  /\ out' = <<>>
  /\ UNCHANGED <<made, newest>>

Next == Make \/ HandOver \/ HandOverNothing

Spec == Init /\ [][Next]_vars
=============================================================================
