---------------------------- MODULE MeasureGroups ----------------------------
(***************************************************************************)
(* How subsys/bme688_server turns the fields it reads from the sensor into *)
(* the groups it hands to the application: measure_process (with BSEC2)    *)
(* and bme688_service (without).  A measuring cycle of the sensor makes    *)
(* one field per step of the heater profile; the field tells its step      *)
(* (gas_index) but not its cycle.  Fields are collected in user_data until *)
(* the start of another cycle is seen in a field, and published then.      *)
(*                                                                         *)
(* A field may be lost: overwritten in the sensor before it was read, or   *)
(* gone with a failed transfer.  The handler runs in the same thread.      *)
(***************************************************************************)
EXTENDS Integers

CONSTANTS
  Steps,       \* heater_profile_len
  Bsec2,       \* measure_process if TRUE, bme688_service otherwise
  MaxCycle     \* bound: the sensor stops after this cycle

ASSUME GroupsAssumption ==
  /\ Steps \in Nat \ {0}
  /\ Bsec2 \in BOOLEAN
  /\ MaxCycle \in Nat
  /\ ~Bsec2 => Steps > 1      \* nb_steps of the default parallel mode is 10

VARIABLES
  \* the sensor
  cycle, gasIndex,  \* the field that comes next
  \* bme688_server.cpp
  userData,     \* the entries of user_data; none is nullptr
  sample,       \* user_data["sample"]
  measureCount, lastIndex,
  iaqOutput,    \* the field iaq_output was computed from
  iaq,          \* the field user_data["iaq"] was computed from
  \* history
  lost,         \* the fields that were lost
  silent,       \* the fields for which the library gave no outputs
  received,     \* the valid fields that were read
  published,    \* the fields of all published groups
  lastGroup     \* the last published group and its sample and iaq

sensor  == <<cycle, gasIndex>>
service == <<userData, sample, measureCount, lastIndex, iaqOutput, iaq>>
history == <<lost, silent, received, published, lastGroup>>
vars    == <<sensor, service, history>>

NoField == [cycle |-> -1, index |-> -1]
Fields  == [cycle : Nat, index : 0..Steps - 1]

\* An entry of user_data: gas<index>, or gas<index>_nhs if the heater was not
\* stable, with the field its value came from.
Entries == [field : Fields, stable : BOOLEAN]

TypeOK ==
  /\ cycle \in Nat /\ gasIndex \in 0..Steps - 1
  /\ userData \subseteq Entries
  /\ sample \in Nat /\ measureCount \in Nat
  /\ lastIndex \in Nat
  /\ iaqOutput \in Fields \union {NoField} /\ iaq \in Fields \union {NoField}
  /\ lost \subseteq Fields /\ silent \subseteq Fields /\ received \subseteq Fields
  /\ published \subseteq Fields
  /\ lastGroup \in [entries : SUBSET Entries, sample : Int,
                    iaq : Fields \union {NoField}]

Init ==
  /\ cycle = 0 /\ gasIndex = 0
  /\ userData = {} /\ sample = 0 /\ measureCount = 0 /\ lastIndex = 1
  /\ iaqOutput = NoField /\ iaq = NoField
  /\ lost = {} /\ silent = {} /\ received = {} /\ published = {}
  /\ lastGroup = [entries |-> {}, sample |-> -1, iaq |-> NoField]

FieldsOf(entries) == {e.field : e \in entries}

Field == [cycle |-> cycle, index |-> gasIndex]

\* The sensor goes on to its next field.
Advance ==
  /\ cycle <= MaxCycle
  /\ IF gasIndex = Steps - 1 THEN gasIndex' = 0 /\ cycle' = cycle + 1
                             ELSE gasIndex' = gasIndex + 1 /\ cycle' = cycle

FieldLost ==
  /\ Advance
  /\ lost' = lost \union {Field}
  /\ UNCHANGED <<service, silent, received, published, lastGroup>>

\* MUTANT of Boundary: a cycle is taken to start at its second step.
BoundaryLate == gasIndex = 1

\* The field read is taken for the start of another cycle.
Boundary == IF Bsec2 THEN gasIndex = 0 ELSE gasIndex < lastIndex

\* MUTANT of Flush: the count goes the wrong way.
FlushCountsDown ==
  IF Boundary
  THEN /\ measureCount' = measureCount - 1
       /\ UNCHANGED <<published, lastGroup>>
  ELSE UNCHANGED <<measureCount, published, lastGroup>>

\* The group before is handed to the handler, and counted.
Flush ==
  IF Boundary
  THEN /\ measureCount' = measureCount + 1
       /\ IF userData = {} THEN UNCHANGED <<published, lastGroup>>
          ELSE /\ published' = published \union FieldsOf(userData)
               /\ lastGroup' = [entries |-> userData, sample |-> sample, iaq |-> iaq]
  ELSE UNCHANGED <<measureCount, published, lastGroup>>

\* MUTANT of Open: user_data is not reset.
OpenKeeps == userData

\* The group the field meets: after a boundary, user_data is nullptr.
Open == IF Boundary THEN {} ELSE userData

OpenIaq == IF Boundary THEN NoField ELSE iaq

\* A field without new and valid gas data only serves as a boundary.
FieldInvalid ==
  /\ Advance
  /\ Flush
  /\ lastIndex' = gasIndex
  /\ userData' = Open /\ iaq' = OpenIaq
  /\ UNCHANGED <<sample, iaqOutput, lost, silent, received>>

\* update_user_data: an entry of the same name is overwritten.
Updated(stable) ==
  {e \in Open : e.field.index # gasIndex \/ e.stable # stable}
    \union {[field |-> Field, stable |-> stable]}

\* MUTANT of ProcessData: its result is not looked at.
ProcessDataUnchecked ==
  \/ ~Bsec2 /\ iaq' = NoField /\ UNCHANGED <<iaqOutput, silent>>
  \/ Bsec2 /\ iaq' = iaqOutput /\ UNCHANGED <<iaqOutput, silent>>
  \/ Bsec2 /\ iaqOutput' = Field /\ iaq' = Field /\ UNCHANGED silent
  \/ Bsec2 /\ iaq' = iaqOutput /\ silent' = silent \union {Field}
           /\ UNCHANGED iaqOutput

\* processData: bsec_do_steps fails, or succeeds with or without outputs; in the
\* last case iaq_output keeps what it had and is attached all the same.
ProcessData ==
  \/ ~Bsec2 /\ iaq' = NoField /\ UNCHANGED <<iaqOutput, silent>>
  \/ Bsec2 /\ iaq' = OpenIaq /\ UNCHANGED <<iaqOutput, silent>>
  \/ Bsec2 /\ iaqOutput' = Field /\ iaq' = Field /\ UNCHANGED silent
  \/ Bsec2 /\ iaq' = iaqOutput /\ silent' = silent \union {Field}
           /\ UNCHANGED iaqOutput

\* A valid field joins the group.
FieldValid(stable) ==
  /\ Advance
  /\ Flush
  /\ lastIndex' = gasIndex
  /\ userData' = Updated(stable) /\ sample' = measureCount'
  /\ ProcessData
  /\ received' = received \union {Field}
  /\ UNCHANGED lost

\* bme688_data_get has no new field: the loop goes round.
NothingNew == UNCHANGED vars

Next ==
  \/ NothingNew
  \/ FieldLost
  \/ FieldInvalid
  \/ \E stable \in BOOLEAN : FieldValid(stable)

Spec == Init /\ [][Next]_vars

-----------------------------------------------------------------------------
(* Properties.                                                             *)

Before(f, g) ==
  \/ f.cycle < g.cycle
  \/ f.cycle = g.cycle /\ f.index < g.index

\* Whatever is lost, measure_process mixes fields of two cycles in a group only
\* if the first field of every later cycle in it was lost: one that arrives,
\* even an invalid one, closes the group before.
MixedOnlyWithoutStart ==
  Bsec2 =>
    \A e, f \in lastGroup.entries : \A c \in e.field.cycle + 1..f.field.cycle :
      [cycle |-> c, index |-> 0] \in lost

\* In either variant a group that mixes cycles means that a field between the
\* two was lost.
MixedOnlyAfterLoss ==
  \A e, f \in lastGroup.entries :
    e.field.cycle < f.field.cycle =>
      \E l \in lost : l.cycle \in e.field.cycle..f.field.cycle

\* As long as no field is lost, every valid field read is published once or
\* waits in the open group: none is dropped and none published twice.
NoneDropped ==
  lost = {} => /\ published \union FieldsOf(userData) = received
               /\ published \intersect FieldsOf(userData) = {}

\* The groups are published in order: the sample numbers grow, and no field is
\* published after a later one.
GroupsInOrder ==
  [][lastGroup' # lastGroup =>
       /\ lastGroup'.sample > lastGroup.sample
       /\ \A e \in lastGroup'.entries, f \in published : Before(f, e.field)]_vars

\* If no field is lost and the library gave outputs for every field of the
\* group that it took, the air quality in it was computed from one of them: a
\* field that the library refuses brings no air quality of an earlier group.
IaqOfGroup ==
  /\ lost = {} /\ lastGroup.iaq # NoField
  /\ FieldsOf(lastGroup.entries) \intersect silent = {}
  => lastGroup.iaq \in FieldsOf(lastGroup.entries)

\* A step closes the group exactly when it is the first of its cycle.
BoundaryInv ==
  lost = {} /\ ~Bsec2 => /\ gasIndex = 0 => lastIndex >= 1
                         /\ gasIndex > 0 => lastIndex = gasIndex - 1

\* Fields come in order; those of the open group come after the published.
OrderInv ==
  /\ \A f \in received \union published : Before(f, Field)
  /\ \A e \in userData : Before(e.field, Field)
  /\ \A e \in userData, f \in published : Before(f, e.field)
  /\ lastGroup.sample < measureCount /\ sample <= measureCount
  /\ userData # {} => lastGroup.sample < sample

\* The open group has crossed the start of no cycle, save those that were lost.
OpenGroupInv ==
  Bsec2 \/ lost = {} =>
    \A e \in userData : \A c \in e.field.cycle + 1..cycle :
      c < cycle \/ gasIndex > 0 => [cycle |-> c, index |-> 0] \in lost

\* Without loss nothing is overwritten in the open group, and its air quality
\* is of its own unless the library was silent.
DropInv ==
  lost = {} =>
    /\ published \union FieldsOf(userData) = received
    /\ iaq # NoField /\ FieldsOf(userData) \intersect silent = {} =>
         iaq \in FieldsOf(userData)

\* Where no field of a cycle was lost, last_index is of the field before.
LastIndexInv ==
  LET whole(c) == \A l \in lost : l.cycle # c
  IN  /\ gasIndex > 0 /\ whole(cycle) => lastIndex = gasIndex - 1
      /\ gasIndex = 0 /\ cycle > 0 /\ whole(cycle - 1) => lastIndex = Steps - 1

\* The open group has crossed the start of no cycle unless a field was lost.
OpenMixInv ==
  \A e \in userData : \A c \in e.field.cycle + 1..cycle :
    c < cycle \/ gasIndex > 0 => \E l \in lost : l.cycle \in e.field.cycle..c
=============================================================================
