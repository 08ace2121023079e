----------------------------- MODULE FieldReader -----------------------------
(***************************************************************************)
(* How the BME688 driver reads the three fields of the sensor in parallel  *)
(* mode (bme68x_get_data, bme688_data_get) while the sensor fills them.    *)
(* The sensor writes its measurements to the fields in turn, each with an  *)
(* eight-bit index and a flag that says it was not read yet.  Fields that  *)
(* are not read in time are overwritten, so the oldest new measurement may *)
(* be in any field; the driver sorts them by an index that wraps around.   *)
(***************************************************************************)
EXTENDS Integers, Sequences

CONSTANTS
  IndexSize,   \* the number of values of meas_index, a byte: 256
  MaxMade      \* bound: the measurements the sensor makes

\* Measurements of the three fields are at most two apart; with five values
\* the index still tells which of two is older.
ReaderAssumption ==
  /\ IndexSize \in Nat /\ IndexSize >= 5
  /\ MaxMade \in Nat

ASSUME ReaderAssumption

VARIABLES
  \* the sensor
  made,      \* the measurements made so far
  field,     \* its three fields
  \* the driver
  pc,        \* "idle" or "settings", between the two transfers
  buff,      \* the fields as read by the first transfer
  data,      \* the driver's data[0..2]
  nFields,   \* the driver's n_fields
  \* what the caller got
  out,       \* the last read: p_data[0..n_fields - 1]
  newest,    \* the newest measurement of all reads
  broken     \* some transfer has failed so far

sensor == <<made, field>>
driver == <<pc, buff, data, nFields>>
vars   == <<sensor, driver, out, newest, broken>>

Slots == 0..2

\* What a field holds: which measurement (no = -1 before the first) and the
\* new_data flag.  The code sees no % IndexSize only.
Contents == [no : Int, new : BOOLEAN]
Empty    == [no |-> -1, new |-> FALSE]

MeasIndex(f) == f.no % IndexSize

TypeOK ==
  /\ made \in Nat
  /\ field \in [Slots -> Contents]
  /\ pc \in {"idle", "settings"}
  /\ buff \in [Slots -> Contents] /\ data \in [Slots -> Contents]
  /\ nFields \in 0..3
  /\ out \in Seq(Int) /\ newest \in Int
  /\ broken \in BOOLEAN

Init ==
  /\ made = 0 /\ field = [s \in Slots |-> Empty]
  /\ pc = "idle" /\ buff = [s \in Slots |-> Empty]
  /\ data = [s \in Slots |-> Empty] /\ nFields = 0
  /\ out = <<>> /\ newest = -1 /\ broken = FALSE

-----------------------------------------------------------------------------
(* The sensor                                                              *)

Measure ==
  /\ made < MaxMade
  /\ field' = [field EXCEPT ![made % 3] = [no |-> made, new |-> TRUE]]
  /\ made' = made + 1
  /\ UNCHANGED <<driver, out, newest, broken>>

\* A transfer of the fields clears the flags of those it got through.
Cleared(seen) ==
  [s \in Slots |-> IF s \in seen THEN [field[s] EXCEPT !.new = FALSE]
                                 ELSE field[s]]

-----------------------------------------------------------------------------
(* The order of the fields                                                 *)

Swap(f, i, j) == [f EXCEPT ![i] = f[j], ![j] = f[i]]

\* The limits do not fit three fields: bug.
OutOfOrderNarrow(low, high) ==
  LET diff == MeasIndex(high) - MeasIndex(low)
  IN  IF low.new /\ high.new THEN (diff > -2 /\ diff < 0) \/ diff > 2
                             ELSE high.new

\* Whether the field in the lower position has to give way.
OutOfOrder(low, high) ==
  LET diff == MeasIndex(high) - MeasIndex(low)
  IN  IF low.new /\ high.new THEN (diff > -3 /\ diff < 0) \/ diff > 2
                             ELSE high.new

SortPair(f, i, j) == IF OutOfOrder(f[i], f[j]) THEN Swap(f, i, j) ELSE f

\* A sort that forgets the last pair: bug.
SortedTwoPairs(f) == SortPair(SortPair(f, 0, 1), 0, 2)

Sorted(f) == SortPair(SortPair(SortPair(f, 0, 1), 0, 2), 1, 2)

NewFields(f) == {s \in Slots : f[s].new}

\* new_fields, without the cardinality of a set: there are three flags.
CountNew(f) ==
  (IF f[0].new THEN 1 ELSE 0) + (IF f[1].new THEN 1 ELSE 0)
    + (IF f[2].new THEN 1 ELSE 0)

-----------------------------------------------------------------------------
(* Reading                                                                 *)

\* The first transfer of read_all_field_data: the three fields in one burst.
ReadFields ==
  /\ pc = "idle" /\ pc' = "settings"
  /\ buff' = field
  /\ field' = Cleared(Slots)
  /\ UNCHANGED <<made, data, nFields, out, newest, broken>>

\* The status of the transfer is reported as the number of fields: bug.
FailedCode ==
  /\ pc' = "idle"
  /\ nFields' = -1 /\ out' = <<>> /\ broken' = TRUE
  /\ UNCHANGED <<made, buff, data, newest>>

\* A read that failed: no field is handed over, data keeps what it had.
Failed ==
  /\ pc' = "idle"
  /\ nFields' = 0 /\ out' = <<>> /\ broken' = TRUE
  /\ UNCHANGED <<made, buff, data, newest>>

\* The burst may break off after some of the fields.
ReadFieldsFails ==
  /\ pc = "idle"
  /\ \E seen \in SUBSET Slots : field' = Cleared(seen)
  /\ Failed

\* The second transfer: the heater settings.  Then the fields are counted,
\* sorted and copied.
ReadSettings ==
  /\ pc = "settings" /\ pc' = "idle"
  /\ data' = Sorted(buff)
  /\ nFields' = CountNew(buff)
  /\ out' = [i \in 1..nFields' |-> data'[i - 1].no]
  /\ newest' = IF nFields' = 0 THEN newest ELSE out'[nFields']
  /\ UNCHANGED <<sensor, buff, broken>>

ReadSettingsFails ==
  /\ pc = "settings"
  /\ UNCHANGED field
  /\ Failed

Next ==
  \/ Measure
  \/ ReadFields \/ ReadFieldsFails
  \/ ReadSettings \/ ReadSettingsFails

Spec == Init /\ [][Next]_vars

-----------------------------------------------------------------------------
(* Properties                                                              *)

Stream == INSTANCE FieldStream

\* Whatever wraps around, is overwritten or fails: the fields come in the
\* order they were measured and none comes twice (bme68x_get_data).
FieldStreamSpec == Stream!Spec

\* While no transfer has failed, a read hands over consecutive measurements,
\* the first of them missing nothing since the read before, unless all three
\* fields were new: only overwriting loses a measurement.
GapsOnlyByOverwriting ==
  [][pc = "settings" /\ pc' = "idle" /\ ~broken' /\ out' # <<>> =>
       /\ \A i \in 1..Len(out') : out'[i] = out'[1] + i - 1
       /\ out'[1] = newest + 1 \/ Len(out') = 3]_vars
=============================================================================
