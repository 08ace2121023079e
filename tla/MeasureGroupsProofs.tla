------------------------- MODULE MeasureGroupsProofs -------------------------
(***************************************************************************)
(* The safety properties of MeasureGroups, for every length of the heater  *)
(* profile and both variants of the service, and what is left of them for  *)
(* the air quality when fields are lost or the library is silent.          *)
(***************************************************************************)
EXTENDS MeasureGroups, TLAPS

\* The field that comes next is one, and only grows.
LEMMA AdvanceGrows ==
  ASSUME TypeOK, Advance
  PROVE /\ cycle' \in Nat /\ gasIndex' \in 0..Steps - 1
        /\ Field \in Fields
        /\ Before(Field, Field')
        /\ gasIndex' > 0 => gasIndex' = gasIndex + 1 /\ cycle' = cycle
        /\ gasIndex' = 0 => gasIndex = Steps - 1 /\ cycle' = cycle + 1
BY GroupsAssumption DEF TypeOK, Advance, Before, Field, Fields

\* Before is transitive.
LEMMA BeforeTransitive ==
  ASSUME NEW f \in Fields, NEW g \in Fields, NEW h \in Fields,
         Before(f, g), Before(g, h)
  PROVE  Before(f, h)
BY GroupsAssumption DEF Before, Fields

\* Every variable keeps its type.
THEOREM TypeCorrect == Spec => []TypeOK
<1>1. Init => TypeOK
  <2> SUFFICES ASSUME Init PROVE TypeOK
    OBVIOUS
  <2>1. lastGroup \in [entries : SUBSET Entries, sample : Int,
                       iaq : Fields \union {NoField}]
    BY DEF Init
  <2> QED
    BY <2>1, GroupsAssumption DEF Init, TypeOK
<1>2. TypeOK /\ [Next]_vars => TypeOK'
  <2> SUFFICES ASSUME TypeOK, [Next]_vars PROVE TypeOK'
    OBVIOUS
  <2>1. ASSUME Advance, Flush
        PROVE /\ measureCount' \in Nat /\ published' \subseteq Fields
              /\ lastGroup' \in [entries : SUBSET Entries, sample : Int,
                                 iaq : Fields \union {NoField}]
              /\ Open \subseteq Entries
              /\ OpenIaq \in Fields \union {NoField}
    BY <2>1 DEF TypeOK, Flush, Open, OpenIaq, FieldsOf, Entries
  <2>2. CASE FieldLost
    BY <2>2, AdvanceGrows DEF FieldLost, TypeOK, service
  <2>3. CASE FieldInvalid
    BY <2>1, <2>3, AdvanceGrows, GroupsAssumption DEF FieldInvalid, TypeOK
  <2>4. ASSUME NEW stable \in BOOLEAN, FieldValid(stable) PROVE TypeOK'
    <3>1. Advance /\ Flush
      BY <2>4 DEF FieldValid
    <3>2. userData' \subseteq Entries
      BY <2>1, <2>4, <3>1, AdvanceGrows DEF FieldValid, Updated, Entries
    <3>3. /\ iaqOutput' \in Fields \union {NoField}
          /\ iaq' \in Fields \union {NoField}
          /\ silent' \subseteq Fields
      BY <2>1, <2>4, <3>1, AdvanceGrows DEF FieldValid, ProcessData, TypeOK
    <3> QED
      BY <2>1, <2>4, <3>1, <3>2, <3>3, AdvanceGrows, GroupsAssumption
         DEF FieldValid, TypeOK
  <2>5. CASE UNCHANGED vars
    BY <2>5 DEF vars, sensor, service, history, TypeOK
  <2> QED
    BY <2>2, <2>3, <2>4, <2>5 DEF Next, NothingNew
<1> QED
  BY <1>1, <1>2, PTL DEF Spec

\* Without loss every cycle's first step, and no other, is a boundary.
LEMMA BoundaryCorrect == Spec => []BoundaryInv
<1>1. Init => BoundaryInv
  BY DEF Init, BoundaryInv
<1>2. BoundaryInv /\ TypeOK /\ [Next]_vars => BoundaryInv'
  <2> SUFFICES ASSUME BoundaryInv, TypeOK, [Next]_vars,
                      lost' = {}, ~Bsec2
               PROVE /\ gasIndex' = 0 => lastIndex' >= 1
                     /\ gasIndex' > 0 => lastIndex' = gasIndex' - 1
    BY DEF BoundaryInv
  <2>0. lost = {}
    BY DEF Next, NothingNew, FieldLost, FieldInvalid, FieldValid, vars, history
  <2>1. CASE Advance /\ lastIndex' = gasIndex
    <3>1. gasIndex' > 0 => gasIndex' = gasIndex + 1
      BY <2>1, AdvanceGrows
    <3>2. gasIndex' = 0 => gasIndex = Steps - 1
      BY <2>1, AdvanceGrows
    <3> QED
      BY <2>1, <3>1, <3>2, GroupsAssumption DEF TypeOK
  <2>2. CASE UNCHANGED vars
    BY <2>0, <2>2 DEF vars, sensor, service, BoundaryInv
  <2> QED
    BY <2>1, <2>2 DEF Next, NothingNew, FieldLost, FieldInvalid, FieldValid
<1> QED
  BY <1>1, <1>2, TypeCorrect, PTL DEF Spec

\* What a step that reads a field leaves open or publishes.
LEMMA OrderCorrect == Spec => []OrderInv
<1>1. Init => OrderInv
  BY DEF Init, OrderInv
<1>2. OrderInv /\ TypeOK /\ TypeOK' /\ [Next]_vars => OrderInv'
  <2> SUFFICES ASSUME OrderInv, TypeOK, TypeOK', [Next]_vars PROVE OrderInv'
    OBVIOUS
  <2>1. ASSUME Advance, NEW f \in Fields, Before(f, Field) \/ f = Field
        PROVE Before(f, Field')
    <3>1. Field \in Fields /\ Field' \in Fields /\ Before(Field, Field')
      BY <2>1, AdvanceGrows DEF Field, Fields
    <3> QED
      BY <2>1, <3>1, BeforeTransitive
  <2>2. ASSUME Advance, Flush
        PROVE /\ \A f \in published' : f \in Fields /\ Before(f, Field)
              /\ \A e \in Open, f \in published' : Before(f, e.field)
              /\ Open \subseteq userData
              /\ lastGroup'.sample < measureCount'
              /\ sample <= measureCount'
              /\ measureCount' >= measureCount
              /\ Open # {} => lastGroup'.sample < sample
    <3>1. CASE Boundary
      <4>1. published' \subseteq published \union FieldsOf(userData)
        BY <2>2, <3>1 DEF Flush
      <4>2. \A f \in published' : f \in Fields /\ Before(f, Field)
        BY <4>1 DEF OrderInv, FieldsOf, TypeOK, Entries
      <4>3. measureCount' = measureCount + 1 /\ Open = {}
        BY <2>2, <3>1 DEF Flush, Open
      <4>4. lastGroup'.sample \in {sample, lastGroup.sample}
        BY <2>2, <3>1 DEF Flush
      <4>5. sample < measureCount + 1 /\ lastGroup.sample < measureCount + 1
            /\ measureCount + 1 >= measureCount
        BY DEF OrderInv, TypeOK
      <4> QED
        BY <4>2, <4>3, <4>4, <4>5 DEF OrderInv, TypeOK
    <3>2. CASE ~Boundary
      BY <2>2, <3>2 DEF Flush, Open, OrderInv, TypeOK
    <3> QED
      BY <3>1, <3>2
  <2>3. CASE FieldLost
    <3>1. Advance /\ UNCHANGED <<service, received, published, lastGroup>>
      BY <2>3 DEF FieldLost
    <3>2. \A f \in received \union published : Before(f, Field')
      BY <2>1, <3>1 DEF OrderInv, TypeOK
    <3>3. \A e \in userData : Before(e.field, Field')
      BY <2>1, <3>1 DEF OrderInv, TypeOK, Entries
    <3> QED
      BY <3>1, <3>2, <3>3 DEF OrderInv, service
  <2>4. CASE FieldInvalid
    <3>1. /\ Advance /\ Flush /\ userData' = Open
          /\ UNCHANGED <<sample, received>>
      BY <2>4 DEF FieldInvalid
    <3>2. \A f \in received' \union published' : Before(f, Field')
      BY <2>1, <2>2, <3>1 DEF OrderInv, TypeOK
    <3>3. \A e \in userData' : Before(e.field, Field')
      BY <2>1, <2>2, <3>1 DEF OrderInv, TypeOK, Entries
    <3> QED
      BY <2>2, <3>1, <3>2, <3>3 DEF OrderInv
  <2>5. ASSUME NEW stable \in BOOLEAN, FieldValid(stable) PROVE OrderInv'
    <3>1. /\ Advance /\ Flush /\ userData' = Updated(stable)
          /\ sample' = measureCount'
          /\ received' = received \union {Field}
      BY <2>5 DEF FieldValid
    <3>2. Field \in Fields
      BY <3>1, AdvanceGrows
    <3>3. \A f \in received' \union published' : Before(f, Field')
      BY <2>1, <2>2, <3>1, <3>2 DEF OrderInv, TypeOK
    <3>4. \A e \in userData' : e \in Open \/ e.field = Field
      BY <3>1 DEF Updated
    <3>5. \A e \in userData' : Before(e.field, Field')
      BY <2>1, <2>2, <3>1, <3>2, <3>4 DEF OrderInv, TypeOK, Entries
    <3>6. \A e \in userData', f \in published' : Before(f, e.field)
      BY <2>2, <3>1, <3>4
    <3> QED
      BY <2>2, <3>1, <3>3, <3>5, <3>6 DEF OrderInv, TypeOK
  <2>6. CASE UNCHANGED vars
    BY <2>6 DEF vars, sensor, service, history, OrderInv, Field
  <2> QED
    BY <2>3, <2>4, <2>5, <2>6 DEF Next, NothingNew
<1> QED
  BY <1>1, <1>2, TypeCorrect, PTL DEF Spec

\* Whatever is lost, for any profile, groups are published in order.
THEOREM GroupsOrdered == Spec => GroupsInOrder
<1> DEFINE Ordered ==
      lastGroup' # lastGroup =>
        /\ lastGroup'.sample > lastGroup.sample
        /\ \A e \in lastGroup'.entries, f \in published : Before(f, e.field)
<1>1. OrderInv /\ TypeOK /\ [Next]_vars => [Ordered]_vars
  <2> SUFFICES ASSUME OrderInv, TypeOK, Next, lastGroup' # lastGroup
               PROVE /\ lastGroup'.sample > lastGroup.sample
                     /\ \A e \in lastGroup'.entries, f \in published :
                          Before(f, e.field)
    OBVIOUS
  <2>1. Flush
    BY DEF Next, NothingNew, vars, history, FieldLost, FieldInvalid,
       FieldValid
  <2>2. /\ userData # {}
        /\ lastGroup' = [entries |-> userData, sample |-> sample, iaq |-> iaq]
    BY <2>1 DEF Flush
  <2>3. lastGroup'.sample = sample /\ lastGroup'.entries = userData
    BY <2>2
  <2>4. lastGroup.sample < sample
    BY <2>2 DEF OrderInv
  <2> QED
    BY <2>3, <2>4 DEF OrderInv, TypeOK
<1> QED
  BY <1>1, OrderCorrect, TypeCorrect, PTL DEF Spec, GroupsInOrder

\* A group is never kept open across the start of a cycle that arrives.
LEMMA OpenGroupCorrect == Spec => []OpenGroupInv
<1>1. Init => OpenGroupInv
  BY DEF Init, OpenGroupInv
<1>2. OpenGroupInv /\ BoundaryInv /\ TypeOK /\ TypeOK' /\ [Next]_vars
        => OpenGroupInv'
  <2> SUFFICES ASSUME OpenGroupInv, BoundaryInv, TypeOK, TypeOK',
                      [Next]_vars, Bsec2 \/ lost' = {}
               PROVE OpenGroupInv'
    BY DEF OpenGroupInv
  <2> DEFINE Start(c) == [cycle |-> c, index |-> 0]
  <2>0. Bsec2 \/ lost = {}
    BY DEF Next, NothingNew, FieldLost, FieldInvalid, FieldValid, vars, history
  <2>1. ASSUME Advance, NEW e \in userData, NEW c \in e.field.cycle + 1..cycle',
               c < cycle' \/ gasIndex' > 0,
               c # cycle \/ gasIndex # 0
        PROVE  Start(c) \in lost
    <3>1. e.field.cycle \in Nat
      BY DEF TypeOK, Entries, Fields
    <3>2. c \in e.field.cycle + 1..cycle /\ (c < cycle \/ gasIndex > 0)
      BY <2>1, <3>1, AdvanceGrows, GroupsAssumption DEF TypeOK
    <3> QED
      BY <2>0, <3>2 DEF OpenGroupInv
  <2>2. ASSUME Advance, NEW c \in cycle + 1..cycle',
               c < cycle' \/ gasIndex' > 0
        PROVE  FALSE
    BY <2>2, AdvanceGrows, GroupsAssumption DEF TypeOK
  <2>3. gasIndex = 0 => Boundary
    BY <2>0, GroupsAssumption DEF Boundary, BoundaryInv, TypeOK
  <2>4. CASE FieldLost
    <3>1. /\ Advance /\ userData' = userData
          /\ lost' = lost \union {Field}
      BY <2>4 DEF FieldLost, service
    <3>2. Field = Start(cycle) \/ gasIndex # 0
      BY DEF Field
    <3> QED
      BY <2>1, <3>1, <3>2 DEF OpenGroupInv
  <2>5. ASSUME Advance, lost' = lost,
               \A e \in userData' : e \in Open \/ e.field = Field
        PROVE  OpenGroupInv'
    <3> SUFFICES ASSUME NEW e \in userData',
                        NEW c \in e.field.cycle + 1..cycle',
                        c < cycle' \/ gasIndex' > 0
                 PROVE  Start(c) \in lost
      BY <2>5 DEF OpenGroupInv
    <3>1. CASE e.field = Field
      BY <2>2, <2>5, <3>1 DEF Field
    <3>2. CASE e \in Open
      <4>1. e \in userData /\ ~Boundary
        BY <3>2 DEF Open
      <4> QED
        BY <2>1, <2>3, <2>5, <4>1
    <3> QED
      BY <2>5, <3>1, <3>2
  <2>6. CASE FieldInvalid
    BY <2>5, <2>6 DEF FieldInvalid
  <2>7. ASSUME NEW stable \in BOOLEAN, FieldValid(stable) PROVE OpenGroupInv'
    BY <2>5, <2>7 DEF FieldValid, Updated
  <2>8. CASE UNCHANGED vars
    BY <2>8 DEF vars, sensor, service, history, OpenGroupInv
  <2> QED
    BY <2>4, <2>6, <2>7, <2>8 DEF Next, NothingNew
<1> QED
  BY <1>1, <1>2, BoundaryCorrect, TypeCorrect, PTL DEF Spec

\* For any profile and any loss, measure_process mixes cycles only where the
\* start of the later ones was lost.
THEOREM MixedGroups == Spec => []MixedOnlyWithoutStart
<1>1. Init => MixedOnlyWithoutStart
  BY DEF Init, MixedOnlyWithoutStart
<1>2. MixedOnlyWithoutStart /\ OpenGroupInv /\ OrderInv /\ TypeOK /\ [Next]_vars
        => MixedOnlyWithoutStart'
  <2> SUFFICES ASSUME MixedOnlyWithoutStart, OpenGroupInv, OrderInv, TypeOK,
                      [Next]_vars, Bsec2,
                      NEW e \in lastGroup'.entries,
                      NEW f \in lastGroup'.entries,
                      NEW c \in e.field.cycle + 1..f.field.cycle
               PROVE  [cycle |-> c, index |-> 0] \in lost'
    BY DEF MixedOnlyWithoutStart
  <2>1. lost \subseteq lost'
    BY DEF Next, NothingNew, FieldLost, FieldInvalid, FieldValid, vars, history
  <2>2. CASE lastGroup' = lastGroup
    BY <2>1, <2>2 DEF MixedOnlyWithoutStart
  <2>3. CASE lastGroup' # lastGroup
    <3>1. Flush
      BY <2>3 DEF Next, NothingNew, vars, history, FieldLost, FieldInvalid,
         FieldValid
    <3>2. e \in userData /\ f \in userData
      BY <2>3, <3>1 DEF Flush
    <3>3. Before(f.field, Field)
      BY <3>2 DEF OrderInv
    <3>4. f.field \in Fields /\ e.field \in Fields
      BY <3>2 DEF TypeOK, Entries
    <3>5. c \in e.field.cycle + 1..cycle /\ (c < cycle \/ gasIndex > 0)
      BY <3>3, <3>4, GroupsAssumption DEF Before, Field, Fields, TypeOK
    <3> QED
      BY <2>1, <3>2, <3>5 DEF OpenGroupInv
  <2> QED
    BY <2>2, <2>3
<1> QED
  BY <1>1, <1>2, OpenGroupCorrect, OrderCorrect, TypeCorrect, PTL DEF Spec

\* Whatever was lost elsewhere, after a step of a whole cycle last_index is known.
LEMMA LastIndexCorrect == Spec => []LastIndexInv
<1>1. Init => LastIndexInv
  BY DEF Init, LastIndexInv
<1>2. LastIndexInv /\ TypeOK /\ [Next]_vars => LastIndexInv'
  <2> SUFFICES ASSUME LastIndexInv, TypeOK, [Next]_vars PROVE LastIndexInv'
    OBVIOUS
  <2>1. CASE FieldLost
    <3>1. Field \in lost' /\ Field.cycle = cycle
      BY <2>1 DEF FieldLost, Field
    <3>2. cycle' = cycle \/ (gasIndex' = 0 /\ cycle' - 1 = cycle)
      BY <2>1, AdvanceGrows DEF FieldLost, TypeOK
    <3>3. gasIndex' = 0 => cycle' - 1 = cycle
      BY <2>1, AdvanceGrows DEF FieldLost, TypeOK
    <3> QED
      BY <3>1, <3>2, <3>3, AdvanceGrows, GroupsAssumption DEF LastIndexInv, TypeOK
  <2>2. CASE Advance /\ lastIndex' = gasIndex
    <3>1. gasIndex' > 0 => lastIndex' = gasIndex' - 1
      BY <2>2, AdvanceGrows DEF TypeOK
    <3>2. gasIndex' = 0 => lastIndex' = Steps - 1
      BY <2>2, AdvanceGrows
    <3> QED
      BY <3>1, <3>2 DEF LastIndexInv
  <2>3. CASE UNCHANGED vars
    BY <2>3 DEF vars, sensor, service, history, LastIndexInv
  <2> QED
    BY <2>1, <2>2, <2>3 DEF Next, NothingNew, FieldInvalid, FieldValid
<1> QED
  BY <1>1, <1>2, TypeCorrect, PTL DEF Spec

\* In either variant the first field of a cycle, if it arrives after a whole
\* cycle, closes the group.
LEMMA OpenMixCorrect == Spec => []OpenMixInv
<1>1. Init => OpenMixInv
  BY DEF Init, OpenMixInv
<1>2. OpenMixInv /\ LastIndexInv /\ TypeOK /\ [Next]_vars => OpenMixInv'
  <2> SUFFICES ASSUME OpenMixInv, LastIndexInv, TypeOK, [Next]_vars
               PROVE  OpenMixInv'
    OBVIOUS
  <2> DEFINE Loss(b, c) == \E l \in lost : l.cycle \in b..c
  <2>1. ASSUME Advance, NEW e \in userData, NEW c \in e.field.cycle + 1..cycle',
               c < cycle' \/ gasIndex' > 0, c # cycle \/ gasIndex # 0
        PROVE  Loss(e.field.cycle, c)
    <3>1. e.field.cycle \in Nat
      BY DEF TypeOK, Entries, Fields
    <3>2. c \in e.field.cycle + 1..cycle /\ (c < cycle \/ gasIndex > 0)
      BY <2>1, <3>1, AdvanceGrows, GroupsAssumption DEF TypeOK
    <3> QED
      BY <3>2 DEF OpenMixInv
  <2>2. CASE FieldLost
    <3>1. /\ Advance /\ userData' = userData
          /\ lost' = lost \union {Field}
      BY <2>2 DEF FieldLost, service
    <3> SUFFICES ASSUME NEW e \in userData, NEW c \in e.field.cycle + 1..cycle',
                        c < cycle' \/ gasIndex' > 0
                 PROVE  \E l \in lost' : l.cycle \in e.field.cycle..c
      BY <3>1 DEF OpenMixInv
    <3>2. CASE c = cycle /\ gasIndex = 0
      <4>1. Field \in lost' /\ Field.cycle = c
        BY <3>1, <3>2 DEF Field
      <4>2. c \in e.field.cycle..c
        BY DEF TypeOK, Entries, Fields
      <4> QED
        BY <4>1, <4>2
    <3> QED
      BY <2>1, <3>1, <3>2
  <2>3. ASSUME Advance, lost' = lost,
               \A e \in userData' : e \in Open \/ e.field = Field
        PROVE  OpenMixInv'
    <3> SUFFICES ASSUME NEW e \in userData', NEW c \in e.field.cycle + 1..cycle',
                        c < cycle' \/ gasIndex' > 0
                 PROVE  Loss(e.field.cycle, c)
      BY <2>3 DEF OpenMixInv
    <3>1. CASE e.field = Field
      <4>1. c \in cycle + 1..cycle'
        BY <3>1 DEF Field
      <4> QED
        BY <2>3, <4>1, AdvanceGrows, GroupsAssumption DEF TypeOK
    <3>2. CASE e \in Open /\ c = cycle /\ gasIndex = 0
      <4>1. e \in userData /\ ~Boundary
        BY <3>2 DEF Open
      <4>2. ~Bsec2 /\ Steps > 1 /\ lastIndex # Steps - 1
        BY <3>2, <4>1, GroupsAssumption DEF Boundary, TypeOK
      <4>3. e.field.cycle \in Nat
        BY <4>1 DEF TypeOK, Entries, Fields
      <4>4. cycle > 0 /\ cycle - 1 \in e.field.cycle..c
        BY <3>2, <4>3 DEF TypeOK
      <4>5. PICK l \in lost : l.cycle = cycle - 1
        BY <3>2, <4>2, <4>4 DEF LastIndexInv
      <4> QED
        BY <4>4, <4>5
    <3>3. CASE e \in Open /\ ~(c = cycle /\ gasIndex = 0)
      <4>1. e \in userData
        BY <3>3 DEF Open
      <4> QED
        BY <2>1, <2>3, <3>3, <4>1
    <3> QED
      BY <2>3, <3>1, <3>2, <3>3
  <2>4. CASE FieldInvalid
    BY <2>3, <2>4 DEF FieldInvalid
  <2>5. ASSUME NEW stable \in BOOLEAN, FieldValid(stable) PROVE OpenMixInv'
    BY <2>3, <2>5 DEF FieldValid, Updated
  <2>6. CASE UNCHANGED vars
    BY <2>6 DEF vars, sensor, service, history, OpenMixInv
  <2> QED
    BY <2>2, <2>4, <2>5, <2>6 DEF Next, NothingNew
<1> QED
  BY <1>1, <1>2, LastIndexCorrect, TypeCorrect, PTL DEF Spec

\* For any profile and either variant, a group mixes two cycles only if a field
\* of these or of one between them was lost.
THEOREM MixedGroupsLost == Spec => []MixedOnlyAfterLoss
<1>1. Init => MixedOnlyAfterLoss
  BY DEF Init, MixedOnlyAfterLoss
<1>2. MixedOnlyAfterLoss /\ OpenMixInv /\ OrderInv /\ TypeOK /\ [Next]_vars
        => MixedOnlyAfterLoss'
  <2> SUFFICES ASSUME MixedOnlyAfterLoss, OpenMixInv, OrderInv, TypeOK,
                      [Next]_vars,
                      NEW e \in lastGroup'.entries,
                      NEW f \in lastGroup'.entries,
                      e.field.cycle < f.field.cycle
               PROVE  \E l \in lost' : l.cycle \in e.field.cycle..f.field.cycle
    BY DEF MixedOnlyAfterLoss
  <2>1. lost \subseteq lost'
    BY DEF Next, NothingNew, FieldLost, FieldInvalid, FieldValid, vars, history
  <2>2. CASE lastGroup' = lastGroup
    BY <2>1, <2>2 DEF MixedOnlyAfterLoss
  <2>3. CASE lastGroup' # lastGroup
    <3>1. Flush
      BY <2>3 DEF Next, NothingNew, vars, history, FieldLost, FieldInvalid,
         FieldValid
    <3>2. e \in userData /\ f \in userData
      BY <2>3, <3>1 DEF Flush
    <3>3. Before(f.field, Field)
      BY <3>2 DEF OrderInv
    <3>4. f.field \in Fields /\ e.field \in Fields
      BY <3>2 DEF TypeOK, Entries
    <3>5. /\ f.field.cycle \in e.field.cycle + 1..cycle
          /\ f.field.cycle < cycle \/ gasIndex > 0
      BY <3>3, <3>4, GroupsAssumption DEF Before, Field, Fields, TypeOK
    <3> QED
      BY <2>1, <3>2, <3>5 DEF OpenMixInv
  <2> QED
    BY <2>2, <2>3
<1> QED
  BY <1>1, <1>2, OpenMixCorrect, OrderCorrect, TypeCorrect, PTL DEF Spec

\* Without loss nothing in the open group is overwritten.
LEMMA DropCorrect == Spec => []DropInv
<1>1. Init => DropInv
  BY DEF Init, DropInv, FieldsOf
<1>2. DropInv /\ OpenGroupInv /\ BoundaryInv /\ OrderInv /\ TypeOK /\ [Next]_vars
        => DropInv'
  <2> SUFFICES ASSUME DropInv, OpenGroupInv, BoundaryInv, OrderInv, TypeOK,
                      [Next]_vars, lost' = {}
               PROVE  DropInv'
    BY DEF DropInv
  <2>1. lost = {}
    BY DEF Next, NothingNew, FieldLost, FieldInvalid, FieldValid, vars, history
  <2>2. ASSUME NEW e \in Open PROVE e.field.index # gasIndex
    <3>1. e \in userData /\ ~Boundary
      BY <2>2 DEF Open
    <3>2. e.field \in Fields /\ Before(e.field, Field)
      BY <3>1 DEF OrderInv, TypeOK, Entries
    <3>3. gasIndex > 0
      BY <2>1, <3>1, GroupsAssumption DEF Boundary, BoundaryInv, TypeOK
    <3>4. e.field.cycle + 1 > cycle
      BY <2>1, <3>1, <3>2, <3>3 DEF OpenGroupInv, TypeOK, Fields
    <3> QED
      BY <3>2, <3>4, GroupsAssumption DEF Before, Field, Fields, TypeOK
  <2>3. ASSUME Flush
        PROVE  published' \union FieldsOf(Open)
                 = published \union FieldsOf(userData)
    <3>1. CASE Boundary
      BY <2>3, <3>1 DEF Flush, Open, FieldsOf
    <3>2. CASE ~Boundary
      BY <2>3, <3>2 DEF Flush, Open
    <3> QED
      BY <3>1, <3>2
  <2>4. OpenIaq # NoField /\ FieldsOf(Open) \intersect silent = {} =>
          OpenIaq \in FieldsOf(Open)
    BY <2>1 DEF DropInv, OpenIaq, Open
  <2>5. CASE FieldInvalid
    BY <2>1, <2>3, <2>4, <2>5 DEF FieldInvalid, DropInv
  <2>6. ASSUME NEW stable \in BOOLEAN, FieldValid(stable) PROVE DropInv'
    <3>1. Updated(stable) = Open \union {[field |-> Field, stable |-> stable]}
      BY <2>2 DEF Updated
    <3>2. FieldsOf(Updated(stable)) = FieldsOf(Open) \union {Field}
      <4> DEFINE new == [field |-> Field, stable |-> stable]
      <4>1. new.field = Field
        OBVIOUS
      <4>2. Updated(stable) = Open \union {new}
        BY <3>1
      <4> HIDE DEF new
      <4>3. FieldsOf({new}) = {Field}
        BY <4>1 DEF FieldsOf
      <4>4. FieldsOf(Updated(stable)) = FieldsOf(Open) \union FieldsOf({new})
        BY <4>2 DEF FieldsOf
      <4> QED
        BY <4>3, <4>4
    <3>3. published' \union FieldsOf(userData') = received'
      BY <2>1, <2>3, <2>6, <3>2 DEF FieldValid, DropInv
    <3>4. iaq' # NoField /\ FieldsOf(userData') \intersect silent' = {} =>
            iaq' \in FieldsOf(userData')
      BY <2>4, <2>6, <3>2 DEF FieldValid, ProcessData
    <3> QED
      BY <3>3, <3>4 DEF DropInv
  <2>7. CASE UNCHANGED vars
    BY <2>7 DEF vars, service, history, DropInv
  <2>8. ~FieldLost
    BY DEF FieldLost
  <2> QED
    BY <2>5, <2>6, <2>7, <2>8 DEF Next, NothingNew
<1> QED
  BY <1>1, <1>2, OpenGroupCorrect, BoundaryCorrect, OrderCorrect, TypeCorrect,
     PTL DEF Spec

\* For any profile and either variant, as long as no field is lost each valid
\* one is published once.
THEOREM EveryFieldPublished == Spec => []NoneDropped
<1>1. DropInv /\ OrderInv /\ TypeOK => NoneDropped
  <2> SUFFICES ASSUME DropInv, OrderInv, TypeOK, lost = {}
               PROVE  published \intersect FieldsOf(userData) = {}
    BY DEF NoneDropped, DropInv
  <2>1. ASSUME NEW e \in userData, e.field \in published PROVE FALSE
    <3>1. Before(e.field, e.field) /\ e.field \in Fields
      BY <2>1 DEF OrderInv, TypeOK, Entries
    <3> QED
      BY <3>1 DEF Before, Fields
  <2> QED
    BY <2>1 DEF FieldsOf
<1> QED
  BY <1>1, DropCorrect, OrderCorrect, TypeCorrect, PTL

\* As long as no field is lost, the air quality published with a group is of
\* one of its fields, unless the library was silent for one.
THEOREM AirQualityOfGroup == Spec => []IaqOfGroup
<1>1. Init => IaqOfGroup
  BY DEF Init, IaqOfGroup
<1>2. IaqOfGroup /\ DropInv /\ [Next]_vars => IaqOfGroup'
  <2> SUFFICES ASSUME IaqOfGroup, DropInv, [Next]_vars, lost' = {}
               PROVE IaqOfGroup'
    BY DEF IaqOfGroup
  <2>1. lost = {} /\ silent \subseteq silent'
    BY DEF Next, NothingNew, FieldLost, FieldInvalid, FieldValid, ProcessData,
       vars, history
  <2>2. CASE lastGroup' = lastGroup
    BY <2>1, <2>2 DEF IaqOfGroup
  <2>3. CASE lastGroup' # lastGroup
    <3>1. Flush
      BY <2>3 DEF Next, NothingNew, vars, history, FieldLost, FieldInvalid,
         FieldValid
    <3>2. lastGroup' = [entries |-> userData, sample |-> sample, iaq |-> iaq]
      BY <2>3, <3>1 DEF Flush
    <3>3. lastGroup'.entries = userData /\ lastGroup'.iaq = iaq
      BY <3>2
    <3> QED
      BY <2>1, <3>3 DEF IaqOfGroup, DropInv
  <2> QED
    BY <2>2, <2>3
<1> QED
  BY <1>1, <1>2, DropCorrect, PTL DEF Spec

-----------------------------------------------------------------------------
(* Air quality, whatever is lost and whatever the library leaves out       *)

\* iaq_output and what user_data got from it are of a field that was received,
\* and of none behind the newest of the group.
IaqInv ==
  /\ iaqOutput # NoField => iaqOutput \in received
  /\ iaq # NoField => /\ iaq = iaqOutput
                      /\ \E e \in userData : ~Before(e.field, iaq)
  /\ lastGroup.iaq # NoField =>
       /\ lastGroup.iaq \in received /\ iaqOutput # NoField
       /\ ~Before(iaqOutput, lastGroup.iaq)
       /\ \E e \in lastGroup.entries : ~Before(e.field, lastGroup.iaq)

LEMMA NotBeforeItself ==
  ASSUME NEW f \in Fields
  PROVE  ~Before(f, f)
BY DEF Before, Fields

LEMMA BeforeOneWay ==
  ASSUME NEW f \in Fields, NEW g \in Fields, Before(f, g)
  PROVE  ~Before(g, f)
BY DEF Before, Fields

LEMMA IaqCorrect == Spec => []IaqInv
<1>1. Init => IaqInv
  BY DEF Init, IaqInv
<1>2. IaqInv /\ OrderInv /\ TypeOK /\ [Next]_vars => IaqInv'
  <2> SUFFICES ASSUME IaqInv, OrderInv, TypeOK, [Next]_vars PROVE IaqInv'
    OBVIOUS
  <2>1. ASSUME Flush, received \subseteq received', iaqOutput' = iaqOutput
        PROVE  lastGroup'.iaq # NoField =>
                 /\ lastGroup'.iaq \in received' /\ iaqOutput # NoField
                 /\ ~Before(iaqOutput, lastGroup'.iaq)
                 /\ \E e \in lastGroup'.entries : ~Before(e.field, lastGroup'.iaq)
    <3>1. CASE lastGroup' = lastGroup
      BY <2>1, <3>1 DEF IaqInv
    <3>2. CASE lastGroup' # lastGroup
      <4>1. lastGroup' = [entries |-> userData, sample |-> sample, iaq |-> iaq]
        BY <2>1, <3>2 DEF Flush
      <4>2. lastGroup'.entries = userData /\ lastGroup'.iaq = iaq
        BY <4>1
      <4>3. ASSUME iaq # NoField
            PROVE  /\ iaq \in received' /\ iaqOutput # NoField
                   /\ ~Before(iaqOutput, iaq)
        <5>1. iaq = iaqOutput /\ iaqOutput \in received
          BY <4>3 DEF IaqInv
        <5>2. iaqOutput \in Fields
          BY <5>1 DEF TypeOK
        <5> QED
          BY <2>1, <4>3, <5>1, <5>2, NotBeforeItself
      <4> QED
        BY <4>2, <4>3 DEF IaqInv
    <3> QED
      BY <3>1, <3>2
  <2>2. CASE FieldLost
    BY <2>2 DEF FieldLost, service, IaqInv
  <2>3. CASE FieldInvalid
    <3>1. /\ Flush /\ userData' = Open /\ iaq' = OpenIaq
          /\ UNCHANGED <<iaqOutput, received>>
      BY <2>3 DEF FieldInvalid
    <3>2. iaq' # NoField => /\ iaq' = iaqOutput'
                            /\ \E e \in userData' : ~Before(e.field, iaq')
      BY <3>1 DEF OpenIaq, Open, IaqInv
    <3> QED
      BY <2>1, <3>1, <3>2 DEF IaqInv
  <2>4. ASSUME NEW stable \in BOOLEAN, FieldValid(stable) PROVE IaqInv'
    <3> DEFINE new == [field |-> Field, stable |-> stable]
    <3>1. /\ Advance /\ Flush /\ ProcessData /\ userData' = Updated(stable)
          /\ received' = received \union {Field}
      BY <2>4 DEF FieldValid
    <3>2. new \in userData' /\ new.field = Field /\ Field \in Fields
      BY <3>1, AdvanceGrows DEF Updated
    <3>3. \A f \in received : f \in Fields /\ Before(f, Field) /\ ~Before(Field, f)
      BY <3>2, BeforeOneWay DEF OrderInv, TypeOK
    <3>4. iaqOutput' \in {iaqOutput, Field}
      BY <3>1 DEF ProcessData
    <3>5. iaqOutput' # NoField => iaqOutput' \in received'
      BY <3>1, <3>4 DEF IaqInv
    <3>6. iaq' # NoField => iaq' = iaqOutput'
      BY <3>1 DEF ProcessData, OpenIaq, IaqInv
    <3>7. iaq' # NoField => ~Before(new.field, iaq')
      <4>1. ASSUME NEW f \in received' PROVE ~Before(Field, f)
        BY <3>1, <3>2, <3>3, <4>1, NotBeforeItself
      <4> QED
        BY <3>2, <3>5, <3>6, <4>1
    <3> HIDE DEF new
    <3>8. iaq' # NoField => /\ iaq' = iaqOutput'
                            /\ \E e \in userData' : ~Before(e.field, iaq')
      BY <3>2, <3>6, <3>7
    <3>9. lastGroup'.iaq # NoField =>
            /\ lastGroup'.iaq \in received' /\ iaqOutput' # NoField
            /\ ~Before(iaqOutput', lastGroup'.iaq)
            /\ \E e \in lastGroup'.entries : ~Before(e.field, lastGroup'.iaq)
      <4>1. CASE iaqOutput' = iaqOutput
        BY <2>1, <3>1, <4>1
      <4>2. CASE iaqOutput' = Field
        <5>1. lastGroup' = lastGroup
              \/ (lastGroup'.entries = userData /\ lastGroup'.iaq = iaq)
          BY <3>1 DEF Flush
        <5>2. lastGroup'.iaq # NoField =>
                /\ lastGroup'.iaq \in received
                /\ \E e \in lastGroup'.entries : ~Before(e.field, lastGroup'.iaq)
          BY <5>1 DEF IaqInv
        <5>3. iaqOutput' # NoField
          BY <3>2, <4>2 DEF NoField, Fields
        <5> QED
          BY <3>1, <3>3, <4>2, <5>2, <5>3
      <4> QED
        BY <3>4, <4>1, <4>2
    <3> QED
      BY <3>5, <3>8, <3>9 DEF IaqInv
  <2>5. CASE UNCHANGED vars
    BY <2>5 DEF vars, service, history, IaqInv
  <2> QED
    BY <2>2, <2>3, <2>4, <2>5 DEF Next, NothingNew
<1> QED
  BY <1>1, <1>2, OrderCorrect, TypeCorrect, PTL DEF Spec

\* The air quality of a group is of a field that was received, and of none
\* behind the newest of the group.
IaqNotAhead ==
  lastGroup.iaq # NoField =>
    /\ lastGroup.iaq \in received
    /\ \E e \in lastGroup.entries : ~Before(e.field, lastGroup.iaq)

\* From one group to the next the air quality may stay the same, but does not go
\* back to an earlier field.
IaqNeverBack ==
  [][lastGroup.iaq # NoField /\ lastGroup'.iaq # NoField =>
       ~Before(lastGroup'.iaq, lastGroup.iaq)]_vars

\* What is left of IaqOfGroup when fields are lost or the library gives no
\* outputs (processData returns true without them): the air quality of a group
\* may be of an earlier group, but never ahead of the fields it comes with, and
\* never older than that of the group before.
THEOREM AirQualityStale == Spec => []IaqNotAhead /\ IaqNeverBack
<1> DEFINE Rule == (lastGroup.iaq # NoField /\ lastGroup'.iaq # NoField) =>
                     ~Before(lastGroup'.iaq, lastGroup.iaq)
<1>1. IaqInv => IaqNotAhead
  BY DEF IaqInv, IaqNotAhead
<1>2. IaqInv /\ TypeOK /\ [Next]_vars => [Rule]_vars
  <2> SUFFICES ASSUME IaqInv, TypeOK, Next, lastGroup.iaq # NoField,
                      lastGroup'.iaq # NoField
               PROVE  ~Before(lastGroup'.iaq, lastGroup.iaq)
    OBVIOUS
  <2>1. CASE lastGroup' = lastGroup
    <3>1. lastGroup.iaq \in Fields
      BY DEF IaqInv, TypeOK
    <3> QED
      BY <2>1, <3>1, NotBeforeItself
  <2>2. CASE lastGroup' # lastGroup
    <3>1. Flush
      BY <2>2 DEF Next, NothingNew, vars, history, FieldLost, FieldInvalid,
         FieldValid
    <3>2. lastGroup' = [entries |-> userData, sample |-> sample, iaq |-> iaq]
      BY <2>2, <3>1 DEF Flush
    <3>3. lastGroup'.iaq = iaq
      BY <3>2
    <3> QED
      BY <3>3 DEF IaqInv
  <2> QED
    BY <2>1, <2>2
<1> QED
  BY <1>1, <1>2, IaqCorrect, TypeCorrect, PTL DEF Spec, IaqNeverBack
=============================================================================
