------------------------- MODULE Bme688DriverProofs -------------------------
(***************************************************************************)
(* Proofs about Bme688Driver, for any lengths of heater profiles: it       *)
(* writes registers only while the sensor sleeps, what it configured holds,*)
(* the sensor is read the way it was told to measure and a forced pass     *)
(* brings the field it asked for; what long profiles lose, and that short  *)
(* ones lose nothing; that a mode which failed to start is not retried.    *)
(***************************************************************************)
EXTENDS Bme688Driver, TLAPS

AppliedPcs == {"ready", "trigger", "wait", "field", "settings"}

HeaterPcs == {"shared", "resHeat", "resHeat2", "gasWait", "gasWait2",
              "ctrlRead", "ctrlWrite"}

-----------------------------------------------------------------------------
(* The inductive invariant                                                 *)

\* Between the command to sleep and the last write nothing wakes the sensor.
Asleep == pc \in HeaterPcs \union {"confRead", "confWrite"} => chipMode = "sleep"

\* How far a configuration has got.
JobInv ==
  /\ pc = "reset" => inits = 0
  /\ pc = "field" => tries > 0
  /\ job.op = "parallel" => job.len \in 1..10
  /\ pc = "switch" => job.switch
  /\ pc \in HeaterPcs \union {"heaterSleep"} => job.op # "sleep"
  /\ pc = "shared" => job.op = "parallel"
  /\ pc \in {"resHeat2", "gasWait2"} => Long(job)

\* The modes of the driver, its user and the configuration.
ModesInv ==
  /\ pc \in AppliedPcs => mode = job.op
  /\ ~job.switch => job.op = "forced" /\ mode = "forced"
  /\ inits < 2 => ~job.switch
  /\ user = "bsec2" /\ job.switch => bme688Mode = job.op
  /\ user = "bsec2" /\ ~job.switch => bme688Mode = "sleep"
  /\ user = "bsec2" /\ pc \in {"wait", "field", "settings"} => job.switch
  /\ pc = "trigger" => mode = "forced" /\ user # "bsec2"

HeatRegs(j) == ResHeat0..ResHeat0 + HeaterLen(j) - 1
WaitRegs(j) == GasWait0..GasWait0 + HeaterLen(j) - 1

\* The registers written so far when the transfer at comes next.
Written(at, j) ==
  (IF at \in HeaterPcs \union AppliedPcs \union {"restore", "heaterSleep", "switch"}
   THEN {CtrlHum} ELSE {})
  \union
  (IF /\ j.op = "parallel" /\ ~Long(j)
      /\ at \in (HeaterPcs \ {"shared"}) \union AppliedPcs \union {"switch"}
   THEN {SharedDur} ELSE {})
  \union
  (IF at = "resHeat2" THEN ResHeat0..ResHeat0 + PairsInBurst - 1 ELSE {})
  \union
  (IF /\ j.op # "sleep"
      /\ at \in {"gasWait", "gasWait2", "ctrlRead", "ctrlWrite", "switch"}
                  \union AppliedPcs
   THEN HeatRegs(j) \ LostRegs(j) ELSE {})
  \union
  (IF at = "gasWait2" THEN GasWait0..GasWait0 + PairsInBurst - 1 ELSE {})
  \union
  (IF j.op # "sleep" /\ at \in {"ctrlRead", "ctrlWrite", "switch"} \union AppliedPcs
   THEN WaitRegs(j) \ LostRegs(j) ELSE {})
  \union
  (IF j.op # "sleep" /\ at \in {"switch"} \union AppliedPcs THEN {CtrlGas} ELSE {})

RegsInv == ~configFailed => \A a \in Written(pc, job) : regs[a] = a

ChipInv == ~configFailed /\ pc \in AppliedPcs => chipMode \in AskedModes(job)

IInv == TypeOK /\ Asleep /\ JobInv /\ ModesInv /\ RegsInv /\ ChipInv

LEMMA InitIInv == Init => IInv
<1> SUFFICES ASSUME Init PROVE IInv
  OBVIOUS
<1>1. TypeOK
  <2>1. job \in Jobs
    BY DEF Init, Jobs, Modes
  <2>2. trigger \in BOOLEAN /\ configFailed \in BOOLEAN /\ passFailed \in BOOLEAN
    BY DEF Init
  <2>3. regs \in [Addresses -> Values] /\ slot \in Fields \union {NoField}
    BY DEF Init, Values
  <2>4. inits \in 0..2 /\ tries \in 0..5 /\ nFields \in 0..1
    BY DEF Init
  <2> QED
    BY <2>1, <2>2, <2>3, <2>4 DEF Init, TypeOK, Modes, Users, Fields
<1>2. Asleep /\ JobInv /\ ModesInv /\ ChipInv
  BY DEF Init, Asleep, JobInv, ModesInv, ChipInv, HeaterPcs, AppliedPcs, Modes
<1>3. RegsInv
  BY DEF Init, RegsInv, Written, HeaterPcs, AppliedPcs
<1> QED
  BY <1>1, <1>2, <1>3 DEF IInv

-----------------------------------------------------------------------------
(* Types                                                                   *)

Pcs == {"reset", "getConf", "opMode", "confSleep", "confRead", "confWrite",
        "restore", "heaterSleep", "shared", "resHeat", "resHeat2",
        "gasWait", "gasWait2", "ctrlRead", "ctrlWrite", "switch",
        "ready", "trigger", "wait", "field", "settings"}

LEMMA NextPcs ==
  AfterConf \in Pcs /\ AfterHeater \in Pcs /\ AfterSwitch \in Pcs
  BY DEF AfterConf, AfterHeater, AfterSwitch, Pcs

LEMMA Bursts ==
  ASSUME regs \in [Addresses -> Values], NEW n \in 1..10,
         NEW first \in {ResHeat0, GasWait0}
  PROVE  /\ FirstBurst(first, n) \in [Addresses -> Values]
         /\ SecondBurst(first, n) \in [Addresses -> Values]
<1>1. first + PairsInBurst \in Addresses
  BY DEF ResHeat0, GasWait0, PairsInBurst, Addresses, SharedDur
<1> QED
  BY <1>1 DEF FirstBurst, SecondBurst, Values

LEMMA ReadsType ==
  ASSUME TypeOK, NEW at, NEW next \in Pcs, NEW onError \in Pcs,
         Reads(at, next, onError)
  PROVE  TypeOK'
<1>1. pc' \in Pcs
  BY DEF Reads, Goes, Fails
<1>2. configFailed' \in BOOLEAN
  BY DEF Reads, Goes, Fails, TypeOK
<1> QED
  BY <1>1, <1>2 DEF Reads, TypeOK, Pcs, chip, config, service, reading

LEMMA WritesType ==
  ASSUME TypeOK, NEW at, NEW new \in [Addresses -> Values], NEW next \in Pcs,
         NEW onError \in Pcs, Writes(at, new, next, onError)
  PROVE  TypeOK'
<1>1. pc' \in Pcs
  BY DEF Writes, Goes, Fails
<1>2. configFailed' \in BOOLEAN
  BY DEF Writes, Goes, Fails, TypeOK
<1>3. regs' \in [Addresses -> Values]
  BY DEF Writes, TypeOK
<1> QED
  BY <1>1, <1>2, <1>3 DEF Writes, TypeOK, Pcs, config, service, reading

\* What every action leaves alone is not mentioned where a type is shown.
ChipType == chipMode \in Modes /\ regs \in [Addresses -> Values]
FieldType ==
  /\ slot \in Fields \union {NoField} /\ got \in Fields /\ dataOf \in Fields
  /\ tries \in 0..5 /\ nFields \in 0..1
ServiceType ==
  /\ user \in Users /\ inits \in 0..2 /\ job \in Jobs
  /\ mode \in Modes /\ bme688Mode \in Modes /\ opMode \in Modes
FlagType ==
  trigger \in BOOLEAN /\ configFailed \in BOOLEAN /\ passFailed \in BOOLEAN

LEMMA TypeParts ==
  /\ TypeOK <=> ChipType /\ FieldType /\ ServiceType /\ FlagType /\ pc \in Pcs
  /\ TypeOK' <=> ChipType' /\ FieldType' /\ ServiceType' /\ FlagType' /\ pc' \in Pcs
  BY DEF TypeOK, ChipType, FieldType, ServiceType, FlagType, Pcs

LEMMA AgeType ==
  ASSUME FieldType, FieldsAge
  PROVE  /\ slot' \in Fields \union {NoField}
         /\ got' \in Fields /\ dataOf' \in Fields
  BY DEF FieldType, FieldsAge, Older, Fields

LEMMA BeginType ==
  ASSUME FieldType, NEW op \in Modes, NEW len \in 0..10, NEW at \in Pcs,
         NEW s \in BOOLEAN, Begin(op, len, s, at)
  PROVE  /\ job' \in Jobs /\ pc' \in Pcs /\ configFailed' \in BOOLEAN
         /\ regs' \in [Addresses -> Values]
         /\ slot' \in Fields \union {NoField}
         /\ got' \in Fields /\ dataOf' \in Fields
<1>1. job' \in Jobs
  BY DEF Begin, Jobs
<1>2. configFailed' \in BOOLEAN
  BY DEF Begin
<1>3. regs' \in [Addresses -> Values] /\ pc' \in Pcs
  BY DEF Begin, Values
<1>4. FieldsAge
  BY DEF Begin
<1> QED
  BY <1>1, <1>2, <1>3, <1>4, AgeType

LEMMA ModeType ==
  ASSUME TypeOK, NEW m \in Modes, NEW next \in Pcs, NEW onError \in Pcs,
         SetsOpMode(m, next, onError)
  PROVE  chipMode' \in Modes /\ pc' \in Pcs /\ configFailed' \in BOOLEAN
<1>1. chipMode' \in Modes /\ pc' \in Pcs
  BY DEF SetsOpMode, Goes, Fails, TypeOK, Modes
<1>2. configFailed' \in BOOLEAN
  BY DEF SetsOpMode, Goes, Fails, TypeOK
<1> QED
  BY <1>1, <1>2

LEMMA StepType == TypeOK /\ JobInv /\ [Next]_vars => TypeOK'
<1> SUFFICES ASSUME TypeOK, JobInv, [Next]_vars PROVE TypeOK'
  OBVIOUS
<1>0. ChipType /\ FieldType /\ ServiceType /\ FlagType /\ pc \in Pcs
  BY TypeParts
<1>p. {"opMode", "confRead", "confWrite", "restore", "shared", "resHeat",
       "resHeat2", "gasWait", "gasWait2", "ctrlRead", "ctrlWrite", "ready",
       "trigger", "wait", "field", "settings", "getConf", "confSleep"} \subseteq Pcs
  BY DEF Pcs
<1>h. HeaterLen(job) \in 1..10
  <2>1. CASE job.op = "parallel"
    BY <2>1 DEF JobInv, HeaterLen
  <2>2. CASE job.op # "parallel"
    BY <2>2 DEF HeaterLen
  <2> QED
    BY <2>1, <2>2
<1>1. CASE MeasureForced \/ MeasureParallel
  <2>1. MeasuredWith \in Fields
    BY DEF MeasuredWith, Fields
  <2>2. UNCHANGED <<regs, service, pc, mode, opMode, reading, configFailed, passFailed>>
        /\ chipMode' \in {"sleep", chipMode} /\ slot' = MeasuredWith
    BY <1>1 DEF MeasureForced, MeasureParallel
  <2> QED
    BY <1>0, <2>1, <2>2, TypeParts
       DEF ChipType, FieldType, ServiceType, FlagType, service, reading, Modes
<1>2. CASE Bme688Init
  <2>1. Begin("forced", 1, FALSE, "opMode") /\ mode' = "forced"
        /\ inits' = inits + 1 /\ (pc = "reset" \/ inits < 2)
        /\ UNCHANGED <<user, bme688Mode, trigger, opMode, tries, nFields, passFailed>>
        /\ chipMode' \in {chipMode, "sleep"}
    BY <1>2 DEF Bme688Init
  <2>2. inits \in 0..2 /\ inits' \in 0..2
    BY <1>0, <2>1 DEF ServiceType, JobInv
  <2>3. /\ job' \in Jobs /\ pc' \in Pcs /\ configFailed' \in BOOLEAN
        /\ regs' \in [Addresses -> Values] /\ slot' \in Fields \union {NoField}
        /\ got' \in Fields /\ dataOf' \in Fields
    <3>1. "forced" \in Modes /\ 1 \in 0..10 /\ FALSE \in BOOLEAN /\ "opMode" \in Pcs
      BY <1>p DEF Modes
    <3> QED
      BY ONLY <1>0, <2>1, <3>1, BeginType, Zenon
  <2>4. FlagType'
    BY <1>0, <2>1, <2>3 DEF FlagType
  <2> QED
    BY <1>0, <2>1, <2>2, <2>3, <2>4, TypeParts
       DEF ChipType, FieldType, ServiceType, Modes
<1>3. CASE SetModeParallel
  <2>1. Begin("parallel", NbSteps, TRUE, "opMode") /\ mode' = "parallel"
        /\ UNCHANGED <<chipMode, user, inits, bme688Mode, trigger, opMode, tries,
                       nFields, passFailed>>
    BY <1>3 DEF SetModeParallel
  <2>2. NbSteps \in 0..10
    BY DriverAssumption DEF DriverAssumption
  <2>3. /\ job' \in Jobs /\ pc' \in Pcs /\ configFailed' \in BOOLEAN
        /\ regs' \in [Addresses -> Values] /\ slot' \in Fields \union {NoField}
        /\ got' \in Fields /\ dataOf' \in Fields
    <3>1. "parallel" \in Modes /\ TRUE \in BOOLEAN /\ "opMode" \in Pcs
      BY <1>p DEF Modes
    <3> QED
      BY ONLY <1>0, <2>1, <2>2, <3>1, BeginType, Zenon
  <2>4. FlagType'
    BY <1>0, <2>1, <2>3 DEF FlagType
  <2> QED
    BY <1>0, <2>1, <2>3, <2>4, TypeParts
       DEF ChipType, FieldType, ServiceType, Modes
<1>4. CASE GetConf \/ ConfRead \/ CtrlRead
  BY <1>4, <1>p, NextPcs, ReadsType DEF GetConf, ConfRead, CtrlRead
<1>5. CASE GetOpMode
  <2>1. pc' \in Pcs /\ opMode' \in Modes
    BY <1>0, <1>5, <1>p, NextPcs
       DEF GetOpMode, Goes, Fails, ChipType, ServiceType
  <2>2. configFailed' \in BOOLEAN
    BY <1>0, <1>5 DEF GetOpMode, Goes, Fails, FlagType
  <2>3. UNCHANGED <<chipMode, regs, slot, user, inits, job, bme688Mode, trigger,
                    mode, tries, got, nFields, dataOf, passFailed>>
    BY <1>5 DEF GetOpMode, chip, service, reading
  <2>4. FlagType'
    BY <1>0, <2>2, <2>3 DEF FlagType
  <2> QED
    BY <1>0, <2>1, <2>3, <2>4, TypeParts DEF ChipType, FieldType, ServiceType
<1>6. CASE ConfSleep \/ Restore \/ HeaterSleep
  <2>1. UNCHANGED <<regs, slot, user, inits, job, bme688Mode, trigger,
                    mode, opMode, tries, got, nFields, dataOf, passFailed>>
    BY <1>6 DEF ConfSleep, Restore, HeaterSleep, config, service, reading
  <2>2. chipMode' \in Modes /\ pc' \in Pcs /\ configFailed' \in BOOLEAN
    <3>1. "sleep" \in Modes /\ opMode \in Modes
      BY <1>0 DEF Modes, ServiceType
    <3>2. (IF job.op = "parallel" THEN "shared" ELSE "resHeat") \in Pcs
      BY DEF Pcs
    <3> QED
      BY <1>6, <1>p, <3>1, <3>2, NextPcs, ModeType
         DEF ConfSleep, Restore, HeaterSleep
  <2>3. FlagType'
    BY <1>0, <2>1, <2>2 DEF FlagType
  <2> QED
    BY <1>0, <2>1, <2>2, <2>3, TypeParts DEF ChipType, FieldType, ServiceType
<1>7. CASE Switch
  <2>1. UNCHANGED <<regs, slot, user, inits, job, bme688Mode, trigger,
                    opMode, tries, got, nFields, dataOf, passFailed>>
        /\ mode' = job.op
    BY <1>7 DEF Switch, service, reading
  <2>2. job.op \in Modes
    BY <1>0 DEF ServiceType, Jobs
  <2>3. chipMode' \in Modes /\ pc' \in Pcs /\ configFailed' \in BOOLEAN
    BY <1>7, <2>2, NextPcs, ModeType DEF Switch
  <2>4. FlagType'
    BY <1>0, <2>1, <2>3 DEF FlagType
  <2> QED
    BY <1>0, <2>1, <2>2, <2>3, <2>4, TypeParts
       DEF ChipType, FieldType, ServiceType
<1>8. CASE ConfWrite \/ SetShared \/ CtrlWrite
  <2>1. \A a \in {CtrlHum, SharedDur, CtrlGas} :
          [regs EXCEPT ![a] = a] \in [Addresses -> Values]
    BY <1>0 DEF ChipType, Values, Addresses, CtrlHum, CtrlGas, SharedDur,
                ResHeat0
  <2>2. (IF opMode = "sleep" THEN AfterConf ELSE "restore") \in Pcs
    BY <1>p, NextPcs
  <2> QED
    BY <1>8, <1>p, <2>1, <2>2, NextPcs, WritesType
       DEF ConfWrite, SetShared, CtrlWrite
<1>9. CASE SetResHeat \/ SetResHeat2 \/ SetGasWait \/ SetGasWait2
  <2>1. \A first \in {ResHeat0, GasWait0} :
          /\ FirstBurst(first, HeaterLen(job)) \in [Addresses -> Values]
          /\ SecondBurst(first, HeaterLen(job)) \in [Addresses -> Values]
    BY <1>0, <1>h, Bursts DEF ChipType
  <2>2. /\ (IF Long(job) THEN "resHeat2" ELSE "gasWait") \in Pcs
        /\ (IF Long(job) THEN "gasWait2" ELSE "ctrlRead") \in Pcs
    BY <1>p
  <2> QED
    BY <1>9, <1>p, <2>1, <2>2, NextPcs, WritesType
       DEF SetResHeat, SetResHeat2, SetGasWait, SetGasWait2
<1>10. CASE ServicePass
  <2>1. PICK op \in Modes, len \in Lens, t \in BOOLEAN :
          /\ trigger' = t /\ bme688Mode' = op
          /\ IF op = "forced" \/ op # bme688Mode
             THEN Begin(op, len, TRUE, "getConf")
             ELSE /\ pc' = IF t /\ op # "sleep" THEN "wait" ELSE "ready"
                  /\ UNCHANGED <<job, configFailed, regs, slot, got, dataOf>>
    BY <1>10 DEF ServicePass
  <2>2. /\ passFailed' = FALSE
        /\ UNCHANGED <<chipMode, user, inits, mode, opMode, tries, nFields>>
    BY <1>10 DEF ServicePass
  <2>3. len \in 0..10
    BY DriverAssumption DEF DriverAssumption
  <2>4. /\ job' \in Jobs /\ pc' \in Pcs /\ configFailed' \in BOOLEAN
        /\ regs' \in [Addresses -> Values] /\ slot' \in Fields \union {NoField}
        /\ got' \in Fields /\ dataOf' \in Fields
    <3>1. CASE op = "forced" \/ op # bme688Mode
      <4>1. Begin(op, len, TRUE, "getConf")
        BY <2>1, <3>1
      <4>2. TRUE \in BOOLEAN /\ "getConf" \in Pcs
        BY <1>p
      <4> QED
        BY ONLY <1>0, <2>3, <4>1, <4>2, op \in Modes, BeginType, Zenon
    <3>2. CASE ~(op = "forced" \/ op # bme688Mode)
      <4>1. /\ pc' \in {"wait", "ready"}
            /\ UNCHANGED <<job, configFailed, regs, slot, got, dataOf>>
        BY <2>1, <3>2
      <4> QED
        BY <1>0, <1>p, <4>1 DEF ChipType, FieldType, ServiceType, FlagType
    <3> QED
      BY <3>1, <3>2
  <2>5. FlagType'
    BY <2>1, <2>2, <2>4 DEF FlagType
  <2> QED
    BY <1>0, <2>1, <2>2, <2>4, <2>5, TypeParts
       DEF ChipType, FieldType, ServiceType
<1>11. CASE SampleFetch
  <2>1. /\ pc' \in {"trigger", "wait"} /\ FieldsAge /\ passFailed' = FALSE
        /\ UNCHANGED <<chipMode, regs, user, inits, job, bme688Mode, trigger, mode,
                       opMode, tries, nFields, configFailed>>
    BY <1>11 DEF SampleFetch, service
  <2>2. FlagType'
    BY <1>0, <2>1 DEF FlagType
  <2>3. FieldType'
    BY <1>0, <2>1, AgeType DEF FieldType
  <2> QED
    BY <1>0, <1>p, <2>1, <2>2, <2>3, TypeParts DEF ChipType, ServiceType
<1>12. CASE Trigger
  <2>1. /\ pc' = "wait" /\ chipMode' \in {chipMode, "sleep", "forced"}
        /\ UNCHANGED <<regs, slot, user, inits, job, bme688Mode, trigger, mode,
                       opMode, tries, got, nFields, dataOf, configFailed>>
    BY <1>12 DEF Trigger, service, reading
  <2>2. passFailed' \in BOOLEAN
    BY <1>0, <1>12 DEF Trigger, FlagType
  <2>3. FlagType'
    BY <1>0, <2>1, <2>2 DEF FlagType
  <2> QED
    BY <1>0, <1>p, <2>1, <2>3, TypeParts
       DEF ChipType, FieldType, ServiceType, Modes
<1>13. CASE WaitForMeasure
  <2>1. /\ pc' = "field" /\ tries' \in {1, 5}
        /\ UNCHANGED <<chipMode, regs, slot, user, inits, job, bme688Mode, trigger,
                       mode, opMode, got, nFields, dataOf, configFailed, passFailed>>
    BY <1>13 DEF WaitForMeasure, service, chip
  <2>2. FlagType'
    BY <1>0, <2>1 DEF FlagType
  <2> QED
    BY <1>0, <1>p, <2>1, <2>2, TypeParts DEF ChipType, FieldType, ServiceType
<1>14. CASE ReadField
  <2>1. UNCHANGED <<chipMode, regs, user, inits, job, bme688Mode, trigger, mode,
                    opMode, dataOf, configFailed, passFailed>>
    BY <1>14 DEF ReadField, service
  <2>2. FlagType'
    BY <1>0, <2>1 DEF FlagType
  <2>3. FieldType' /\ pc' \in Pcs
    <3>1. CASE slot # NoField
      <4>1. pc' = "settings" /\ got' = slot /\ slot' = NoField
            /\ UNCHANGED <<tries, nFields>>
        BY <1>14, <3>1 DEF ReadField
      <4> QED
        BY <1>0, <1>p, <2>1, <3>1, <4>1 DEF FieldType
    <3>2. CASE slot = NoField
      <4>1. tries' = tries - 1 /\ tries > 0 /\ UNCHANGED <<slot, got>>
        BY <1>14, <3>2 DEF ReadField, JobInv
      <4>2. pc' \in {pc, "ready"} /\ nFields' \in {nFields, 0}
        BY <1>14, <3>2 DEF ReadField, NoData
      <4> QED
        BY <1>0, <1>p, <2>1, <4>1, <4>2 DEF FieldType
    <3> QED
      BY <3>1, <3>2
  <2> QED
    BY <1>0, <2>1, <2>2, <2>3, TypeParts DEF ChipType, ServiceType
<1>15. CASE ReadFieldFails \/ ReadSettingsFails
  <2>1. /\ pc' = "ready" /\ nFields' = 0 /\ slot' \in {slot, NoField}
        /\ passFailed' = TRUE
        /\ UNCHANGED <<chipMode, regs, user, inits, job, bme688Mode, trigger, mode,
                       opMode, tries, got, dataOf, configFailed>>
    BY <1>15 DEF ReadFieldFails, ReadSettingsFails, NoData, service, chip
  <2>2. FlagType'
    BY <1>0, <2>1 DEF FlagType
  <2> QED
    BY <1>0, <1>p, <2>1, <2>2, TypeParts DEF ChipType, FieldType, ServiceType
<1>16. CASE ReadSettings
  <2>1. /\ pc' = "ready" /\ nFields' = 1 /\ dataOf' = got
        /\ UNCHANGED <<chipMode, regs, slot, user, inits, job, bme688Mode, trigger,
                       mode, opMode, tries, got, configFailed, passFailed>>
    BY <1>16 DEF ReadSettings, service, chip
  <2>2. FlagType'
    BY <1>0, <2>1 DEF FlagType
  <2> QED
    BY <1>0, <1>p, <2>1, <2>2, TypeParts DEF ChipType, FieldType, ServiceType
<1>17. CASE UNCHANGED vars
  BY <1>0, <1>17, TypeParts
     DEF vars, chip, service, reading, ChipType, FieldType, ServiceType,
         FlagType
<1> QED
  BY <1>1, <1>2, <1>3, <1>4, <1>5, <1>6, <1>7, <1>8, <1>9, <1>10, <1>11, <1>12,
     <1>13, <1>14, <1>15, <1>16, <1>17 DEF Next

-----------------------------------------------------------------------------
(* The sensor sleeps while it is configured                                *)

LEMMA Routes ==
  /\ AfterConf \in {"switch", "heaterSleep"}
  /\ AfterHeater \in {"switch", "ready"}
  /\ AfterSwitch \in {"wait", "ready"}
  BY DEF AfterConf, AfterHeater, AfterSwitch

LEMMA StepAsleep == Asleep /\ [Next]_vars => Asleep'
<1> SUFFICES ASSUME Asleep, [Next]_vars PROVE Asleep'
  OBVIOUS
<1> USE DEF Asleep, HeaterPcs
<1>1. CASE MeasureForced \/ MeasureParallel
  BY <1>1 DEF MeasureForced, MeasureParallel
<1>2. CASE Bme688Init \/ SetModeParallel
  BY <1>2 DEF Bme688Init, SetModeParallel, Begin
<1>3. CASE GetConf \/ ConfRead \/ CtrlRead
  BY <1>3, Routes DEF GetConf, ConfRead, CtrlRead, Reads, Goes, Fails, chip
<1>4. CASE GetOpMode
  BY <1>4, Routes DEF GetOpMode, Goes, Fails, chip
<1>5. CASE ConfSleep \/ Restore \/ HeaterSleep
  BY <1>5, Routes DEF ConfSleep, Restore, HeaterSleep, SetsOpMode, Goes, Fails
<1>6. CASE ConfWrite \/ SetShared \/ CtrlWrite
  BY <1>6, Routes DEF ConfWrite, SetShared, CtrlWrite, Writes, Goes, Fails
<1>7. CASE SetResHeat \/ SetResHeat2 \/ SetGasWait \/ SetGasWait2
  BY <1>7, Routes
     DEF SetResHeat, SetResHeat2, SetGasWait, SetGasWait2, Writes, Goes, Fails
<1>8. CASE Switch
  BY <1>8, Routes DEF Switch, SetsOpMode, Goes, Fails
<1>9. CASE ServicePass
  BY <1>9 DEF ServicePass, Begin
<1>10. CASE SampleFetch \/ Trigger \/ WaitForMeasure
  BY <1>10 DEF SampleFetch, Trigger, WaitForMeasure
<1>11. CASE ReadField \/ ReadFieldFails \/ ReadSettings \/ ReadSettingsFails
  BY <1>11
     DEF ReadField, ReadFieldFails, ReadSettings, ReadSettingsFails, NoData
<1>12. CASE UNCHANGED vars
  BY <1>12 DEF vars, chip
<1> QED
  BY <1>1, <1>2, <1>3, <1>4, <1>5, <1>6, <1>7, <1>8, <1>9, <1>10, <1>11, <1>12
     DEF Next

-----------------------------------------------------------------------------
(* The course of a configuration                                           *)

LEMMA StepJob == TypeOK /\ JobInv /\ ModesInv /\ [Next]_vars => JobInv'
<1> SUFFICES ASSUME TypeOK, JobInv, ModesInv, [Next]_vars PROVE JobInv'
  OBVIOUS
<1>0. /\ AfterConf = "switch" => job.op = "sleep"
      /\ AfterConf = "heaterSleep" => job.op # "sleep"
      /\ AfterHeater = "switch" => job.switch
      /\ job.op = "sleep" => job.switch
      /\ job.op \in Modes
  BY DEF AfterConf, AfterHeater, ModesInv, TypeOK, Jobs
<1> USE DEF JobInv, HeaterPcs
<1>1. CASE MeasureForced \/ MeasureParallel
  BY <1>1 DEF MeasureForced, MeasureParallel, service, reading
<1>2. CASE Bme688Init
  BY <1>2 DEF Bme688Init, Begin
<1>3. CASE SetModeParallel
  BY <1>3, DriverAssumption DEF SetModeParallel, Begin, DriverAssumption
<1>4. CASE GetConf \/ ConfRead \/ CtrlRead
  BY <1>0, <1>4, Routes
     DEF GetConf, ConfRead, CtrlRead, Reads, Goes, Fails, config, service,
         reading
<1>5. CASE GetOpMode
  BY <1>0, <1>5, Routes DEF GetOpMode, Goes, Fails, service, reading
<1>6. CASE ConfSleep \/ Restore \/ HeaterSleep
  BY <1>0, <1>6, Routes
     DEF ConfSleep, Restore, HeaterSleep, SetsOpMode, Goes, Fails, config,
         service,
         reading
<1>7. CASE ConfWrite \/ SetShared \/ CtrlWrite
  BY <1>0, <1>7, Routes
     DEF ConfWrite, SetShared, CtrlWrite, Writes, Goes, Fails, config, service,
         reading
<1>8. CASE SetResHeat \/ SetResHeat2 \/ SetGasWait \/ SetGasWait2
  BY <1>0, <1>8, Routes
     DEF SetResHeat, SetResHeat2, SetGasWait, SetGasWait2, Writes, Goes, Fails,
         config, service, reading, Long, HeaterLen
<1>9. CASE Switch
  BY <1>9, Routes DEF Switch, SetsOpMode, Goes, Fails, service, reading
<1>10. CASE ServicePass
  BY <1>10, DriverAssumption DEF ServicePass, Begin, DriverAssumption
<1>11. CASE SampleFetch \/ Trigger \/ WaitForMeasure
  BY <1>11 DEF SampleFetch, Trigger, WaitForMeasure, service, reading
<1>12. CASE ReadField \/ ReadFieldFails \/ ReadSettings \/ ReadSettingsFails
  BY <1>12
     DEF ReadField, ReadFieldFails, ReadSettings, ReadSettingsFails, NoData,
               service, TypeOK
<1>13. CASE UNCHANGED vars
  BY <1>13 DEF vars, service, reading
<1> QED
  BY <1>1, <1>2, <1>3, <1>4, <1>5, <1>6, <1>7, <1>8, <1>9, <1>10, <1>11, <1>12,
     <1>13 DEF Next

-----------------------------------------------------------------------------
(* Driver, user and configuration agree on the mode                        *)

LEMMA StepModes == TypeOK /\ JobInv /\ ModesInv /\ [Next]_vars => ModesInv'
<1> SUFFICES ASSUME TypeOK, JobInv, ModesInv, [Next]_vars PROVE ModesInv'
  OBVIOUS
<1>0. /\ AfterHeater = "ready" => ~job.switch
      /\ AfterSwitch = "wait" => user = "bsec2"
      /\ job.switch \in BOOLEAN
  BY DEF AfterHeater, AfterSwitch, TypeOK, Jobs
<1> USE DEF ModesInv, AppliedPcs
<1>1. CASE MeasureForced \/ MeasureParallel
  BY <1>1 DEF MeasureForced, MeasureParallel, service
<1>2. CASE Bme688Init
  BY <1>2 DEF Bme688Init, Begin, JobInv
<1>3. CASE SetModeParallel
  BY <1>3 DEF SetModeParallel, Begin
<1>4. CASE GetConf \/ ConfRead \/ CtrlRead
  BY <1>0, <1>4, Routes
     DEF GetConf, ConfRead, CtrlRead, Reads, Goes, Fails, config, service
<1>5. CASE GetOpMode
  BY <1>0, <1>5, Routes DEF GetOpMode, Goes, Fails, service
<1>6. CASE ConfSleep \/ Restore \/ HeaterSleep
  BY <1>0, <1>6, Routes
     DEF ConfSleep, Restore, HeaterSleep, SetsOpMode, Goes, Fails, config,
         service
<1>7. CASE ConfWrite \/ SetShared \/ CtrlWrite
  BY <1>0, <1>7, Routes
     DEF ConfWrite, SetShared, CtrlWrite, Writes, Goes, Fails, config, service
<1>8. CASE SetResHeat \/ SetResHeat2 \/ SetGasWait \/ SetGasWait2
  BY <1>0, <1>8, Routes
     DEF SetResHeat, SetResHeat2, SetGasWait, SetGasWait2, Writes, Goes, Fails,
         config, service
<1>9. CASE Switch
  BY <1>0, <1>9, Routes DEF Switch, SetsOpMode, Goes, Fails, service, JobInv
<1>10. CASE ServicePass
  BY <1>10 DEF ServicePass, Begin
<1>11. CASE SampleFetch \/ Trigger \/ WaitForMeasure
  BY <1>11 DEF SampleFetch, Trigger, WaitForMeasure, service
<1>12. CASE ReadField \/ ReadFieldFails \/ ReadSettings \/ ReadSettingsFails
  BY <1>12
     DEF ReadField, ReadFieldFails, ReadSettings, ReadSettingsFails, NoData,
               service
<1>13. CASE UNCHANGED vars
  BY <1>13 DEF vars, service
<1> QED
  BY <1>1, <1>2, <1>3, <1>4, <1>5, <1>6, <1>7, <1>8, <1>9, <1>10, <1>11, <1>12,
     <1>13 DEF Next

-----------------------------------------------------------------------------
(* The sensor does what it was told                                        *)

LEMMA StepChip == IInv /\ [Next]_vars => ChipInv'
<1> SUFFICES ASSUME IInv, [Next]_vars PROVE ChipInv'
  OBVIOUS
<1>0. /\ AfterHeater = "ready" => job.op = "forced"
      /\ chipMode \in Modes /\ job.op \in Modes /\ mode \in Modes
      /\ pc \in AppliedPcs => mode = job.op
      /\ pc = "trigger" => mode = "forced"
      /\ pc \in HeaterPcs => chipMode = "sleep"
      /\ ~configFailed /\ pc \in AppliedPcs => chipMode \in AskedModes(job)
  BY DEF AfterHeater, IInv, TypeOK, Jobs, ModesInv, Asleep, ChipInv
<1>r. AfterConf \notin AppliedPcs
  BY Routes DEF AppliedPcs
<1> USE DEF ChipInv, AppliedPcs, AskedModes
<1>1. CASE MeasureForced \/ MeasureParallel
  BY <1>0, <1>1 DEF MeasureForced, MeasureParallel, service
<1>2. CASE Bme688Init \/ SetModeParallel
  BY <1>2 DEF Bme688Init, SetModeParallel, Begin
<1>3. CASE GetConf \/ ConfRead \/ CtrlRead
  BY <1>r, <1>3 DEF GetConf, ConfRead, CtrlRead, Reads, Goes, Fails
<1>4. CASE GetOpMode
  BY <1>r, <1>4 DEF GetOpMode, Goes, Fails
<1>5. CASE ConfSleep \/ Restore \/ HeaterSleep
  BY <1>r, <1>5 DEF ConfSleep, Restore, HeaterSleep, SetsOpMode, Goes, Fails
<1>6. CASE ConfWrite \/ SetShared
  BY <1>r, <1>6 DEF ConfWrite, SetShared, Writes, Goes, Fails
<1>7. CASE SetResHeat \/ SetResHeat2 \/ SetGasWait \/ SetGasWait2
  BY <1>7
     DEF SetResHeat, SetResHeat2, SetGasWait, SetGasWait2, Writes, Goes, Fails
<1>8. CASE CtrlWrite
  BY <1>0, <1>8, Routes
     DEF CtrlWrite, Writes, Goes, Fails, config, service, HeaterPcs
<1>9. CASE Switch
  BY <1>0, <1>9, Routes DEF Switch, SetsOpMode, Goes, Fails, service
<1>10. CASE ServicePass
  <2>1. CASE UNCHANGED <<job, configFailed>>
    BY <1>0, <1>10, <2>1 DEF ServicePass
  <2>2. CASE pc' = "getConf"
    BY <2>2
  <2> QED
    BY <1>10, <2>1, <2>2 DEF ServicePass, Begin
<1>11. CASE SampleFetch \/ Trigger \/ WaitForMeasure
  BY <1>0, <1>11 DEF SampleFetch, Trigger, WaitForMeasure, service, chip
<1>12. CASE ReadField \/ ReadFieldFails \/ ReadSettings \/ ReadSettingsFails
  BY <1>0, <1>12 DEF ReadField, ReadFieldFails, ReadSettings, ReadSettingsFails,
                     NoData, service, chip
<1>13. CASE UNCHANGED vars
  BY <1>0, <1>13 DEF vars, service, chip
<1> QED
  BY <1>1, <1>2, <1>3, <1>4, <1>5, <1>6, <1>7, <1>8, <1>9, <1>10, <1>11, <1>12,
     <1>13 DEF Next

-----------------------------------------------------------------------------
(* The registers hold what was written                                     *)

\* Steps that leave registers and configuration alone.
LEMMA KeepRegs ==
  ASSUME RegsInv, UNCHANGED <<regs, job>>,
         ~configFailed' => ~configFailed /\ Written(pc', job) \subseteq Written(pc, job)
  PROVE  RegsInv'
  BY DEF RegsInv

\* The registers written at the transfers of the heater, one by one.
Shared(j) == IF j.op = "parallel" /\ ~Long(j) THEN {SharedDur} ELSE {}
Heat(j)   == HeatRegs(j) \ LostRegs(j)
Wait(j)   == WaitRegs(j) \ LostRegs(j)

LEMMA WrittenAt ==
  ASSUME NEW j, j.op # "sleep"
  PROVE  /\ Written("resHeat", j) = {CtrlHum} \union Shared(j)
         /\ Written("resHeat2", j) = {CtrlHum} \union Shared(j)
                                      \union ResHeat0..ResHeat0 + PairsInBurst - 1
         /\ Written("gasWait", j) = {CtrlHum} \union Shared(j) \union Heat(j)
         /\ Written("gasWait2", j) = {CtrlHum} \union Shared(j) \union Heat(j)
                                      \union GasWait0..GasWait0 + PairsInBurst - 1
         /\ Written("ctrlRead", j) =
               {CtrlHum} \union Shared(j) \union Heat(j) \union Wait(j)
         /\ Written("ctrlWrite", j) = Written("ctrlRead", j)
         /\ \A at \in {"switch", "ready"} :
               Written(at, j) = Written("ctrlRead", j) \union {CtrlGas}
  BY DEF Written, HeaterPcs, AppliedPcs, Shared, Heat, Wait

LEMMA StepRegs == IInv /\ [Next]_vars => RegsInv'
<1> SUFFICES ASSUME IInv, [Next]_vars PROVE RegsInv'
  OBVIOUS
<1>0. RegsInv /\ JobInv /\ ModesInv /\ regs \in [Addresses -> Values] /\ job.op \in Modes
  BY DEF IInv, TypeOK, Jobs
<1>h. HeaterLen(job) \in 1..10 /\ (Long(job) => HeaterLen(job) > 5)
  BY <1>0 DEF JobInv, HeaterLen, Long, PairsInBurst
<1>1. CASE MeasureForced \/ MeasureParallel
  BY <1>0, <1>1, KeepRegs DEF MeasureForced, MeasureParallel, service
<1>2. CASE Bme688Init \/ SetModeParallel
  BY <1>2
     DEF Bme688Init, SetModeParallel, Begin, RegsInv, Written, HeaterPcs,
         AppliedPcs
<1>3. CASE GetConf \/ ConfRead \/ CtrlRead
  <2>1. UNCHANGED <<regs, job>>
    BY <1>3 DEF GetConf, ConfRead, CtrlRead, Reads, chip, config, service
  <2>2. /\ ~configFailed' => ~configFailed
        /\ ~configFailed' =>
              \/ pc = "getConf" /\ pc' = "opMode"
              \/ pc = "confRead" /\ pc' = "confWrite"
              \/ pc = "ctrlRead" /\ pc' = "ctrlWrite"
    BY <1>3 DEF GetConf, ConfRead, CtrlRead, Reads, Goes, Fails
  <2>3. ~configFailed' => Written(pc', job) \subseteq Written(pc, job)
    BY <2>2 DEF Written, HeaterPcs, AppliedPcs
  <2> QED
    BY <1>0, <2>1, <2>2, <2>3, KeepRegs
<1>4. CASE GetOpMode
  <2>1. UNCHANGED <<regs, job>>
    BY <1>4 DEF GetOpMode, chip, service
  <2>2. ~configFailed' => ~configFailed /\ pc = "opMode" /\ pc' = "confSleep"
    BY <1>4 DEF GetOpMode, Goes, Fails
  <2>3. ~configFailed' => Written(pc', job) \subseteq Written(pc, job)
    BY <2>2 DEF Written, HeaterPcs, AppliedPcs
  <2> QED
    BY <1>0, <2>1, <2>2, <2>3, KeepRegs
<1>5. CASE ConfSleep \/ Restore \/ HeaterSleep
  <2>1. UNCHANGED <<regs, job>>
    BY <1>5 DEF ConfSleep, Restore, HeaterSleep, config, service
  <2>2. ~configFailed' =>
          /\ ~configFailed
          /\ \/ pc = "confSleep" /\ pc' = "confRead"
             \/ pc = "restore" /\ pc' = AfterConf
             \/ pc = "heaterSleep" /\ pc' = "shared"
             \/ pc = "heaterSleep" /\ pc' = "resHeat" /\ job.op # "parallel"
    BY <1>5 DEF ConfSleep, Restore, HeaterSleep, SetsOpMode, Goes, Fails
  <2>3. ~configFailed' => Written(pc', job) \subseteq Written(pc, job)
    BY <2>2 DEF Written, HeaterPcs, AppliedPcs, AfterConf
  <2> QED
    BY <1>0, <2>1, <2>2, <2>3, KeepRegs
<1>6. CASE Switch
  <2>1. UNCHANGED <<regs, job>>
    BY <1>6 DEF Switch, service
  <2>2. ~configFailed' => ~configFailed /\ pc = "switch" /\ pc' \in AppliedPcs
    BY <1>6, Routes DEF Switch, SetsOpMode, Goes, Fails, AppliedPcs
  <2>3. ~configFailed' => Written(pc', job) \subseteq Written(pc, job)
    BY <2>2 DEF Written, HeaterPcs, AppliedPcs
  <2> QED
    BY <1>0, <2>1, <2>2, <2>3, KeepRegs
<1>7. CASE ServicePass
  <2>1. CASE UNCHANGED <<job, configFailed, regs>>
    <3>1. pc \in AppliedPcs /\ (pc' \in AppliedPcs \/ pc' = "getConf")
      BY <1>7 DEF ServicePass, Begin, AppliedPcs
    <3>2. Written(pc', job) \subseteq Written(pc, job)
      BY <3>1 DEF Written, HeaterPcs, AppliedPcs
    <3> QED
      BY <1>0, <2>1, <3>2, KeepRegs
  <2>2. CASE pc' = "getConf"
    BY <2>2 DEF RegsInv, Written, HeaterPcs, AppliedPcs
  <2> QED
    BY <1>7, <2>1, <2>2 DEF ServicePass, Begin
<1>8. CASE SampleFetch \/ Trigger \/ WaitForMeasure
  <2>1. UNCHANGED <<regs, job, configFailed>>
    BY <1>8 DEF SampleFetch, Trigger, WaitForMeasure, service, chip
  <2>2. pc \in AppliedPcs /\ pc' \in AppliedPcs
    BY <1>8 DEF SampleFetch, Trigger, WaitForMeasure, AppliedPcs
  <2>3. Written(pc', job) \subseteq Written(pc, job)
    BY <2>2 DEF Written, HeaterPcs, AppliedPcs
  <2> QED
    BY <1>0, <2>1, <2>3, KeepRegs
<1>9. CASE ReadField \/ ReadFieldFails \/ ReadSettings \/ ReadSettingsFails
  <2>1. UNCHANGED <<regs, job, configFailed>>
    BY <1>9
       DEF ReadField, ReadFieldFails, ReadSettings, ReadSettingsFails, service,
           chip
  <2>2. pc \in AppliedPcs /\ pc' \in AppliedPcs
    BY <1>9
       DEF ReadField, ReadFieldFails, ReadSettings, ReadSettingsFails, NoData,
                AppliedPcs
  <2>3. Written(pc', job) \subseteq Written(pc, job)
    BY <2>2 DEF Written, HeaterPcs, AppliedPcs
  <2> QED
    BY <1>0, <2>1, <2>3, KeepRegs
<1>10. CASE UNCHANGED vars
  BY <1>0, <1>10, KeepRegs DEF vars, chip, service
<1>a. /\ CtrlHum \in Addresses /\ CtrlGas \in Addresses /\ SharedDur \in Addresses
      /\ CtrlHum = 114 /\ CtrlGas = 113 /\ SharedDur = 110
      /\ ResHeat0 = 90 /\ GasWait0 = 100 /\ PairsInBurst = 5
      /\ \A a \in 90..110 : a \in Addresses
  BY DEF CtrlHum, CtrlGas, SharedDur, ResHeat0, GasWait0, PairsInBurst,
     Addresses
<1>11. CASE ConfWrite
  <2> SUFFICES ASSUME ~configFailed' PROVE \A a \in Written(pc', job') : regs'[a] = a
    BY DEF RegsInv
  <2>1. /\ regs' = [regs EXCEPT ![CtrlHum] = CtrlHum] /\ job' = job
        /\ pc' \in {AfterConf, "restore"}
    BY <1>11 DEF ConfWrite, Writes, Goes, Fails, config, service
  <2>2. Written(pc', job') = {CtrlHum}
    BY <2>1 DEF Written, HeaterPcs, AppliedPcs, AfterConf
  <2> QED
    BY <1>0, <1>a, <2>1, <2>2
<1>12. CASE SetShared
  <2> SUFFICES ASSUME ~configFailed' PROVE \A a \in Written(pc', job') : regs'[a] = a
    BY DEF RegsInv
  <2>1. /\ regs' = [regs EXCEPT ![SharedDur] = SharedDur] /\ job' = job
        /\ pc = "shared" /\ pc' = "resHeat" /\ ~configFailed
    BY <1>12 DEF SetShared, Writes, Goes, Fails, config, service
  <2>2. Written(pc', job') \subseteq {CtrlHum, SharedDur} /\ CtrlHum \in Written(pc, job)
    BY <2>1 DEF Written, HeaterPcs, AppliedPcs
  <2> QED
    BY <1>0, <1>a, <2>1, <2>2 DEF RegsInv
<1>n. PICK n \in 1..10 : n = HeaterLen(job)
  BY <1>h
<1>l. /\ Long(job) <=> n > 5
      /\ \A a \in Shared(job) : a = 110 /\ n <= 5
      /\ \A a \in Heat(job) : a \in 90..89 + n /\ (n > 5 => a # 95)
      /\ \A a \in Wait(job) : a \in 100..99 + n /\ (n > 5 => a # 105)
  <2>1. Long(job) <=> n > 5
    BY <1>a, <1>n DEF Long
  <2>2. \A a \in Shared(job) : a = 110 /\ n <= 5
    BY <1>a, <2>1 DEF Shared
  <2>3. HeatRegs(job) = 90..89 + n /\ WaitRegs(job) = 100..99 + n
    <3>1. HeatRegs(job) = 90..(90 + n) - 1 /\ WaitRegs(job) = 100..(100 + n) - 1
      BY <1>a, <1>n DEF HeatRegs, WaitRegs
    <3>2. (90 + n) - 1 = 89 + n /\ (100 + n) - 1 = 99 + n
      OBVIOUS
    <3> QED
      BY <3>1, <3>2
  <2>4. n > 5 => LostRegs(job) = {95, 105, 110}
    BY <1>a, <2>1 DEF LostRegs
  <2> QED
    BY <2>1, <2>2, <2>3, <2>4 DEF Heat, Wait
<1>f. ASSUME NEW first \in {90, 100}, NEW a \in Addresses
      PROVE  FirstBurst(first, n)[a] =
                  IF a \in first..first + n - 1 /\ (n <= 5 \/ a < first + 5)
                  THEN a ELSE regs[a]
  BY <1>a DEF FirstBurst
<1>s. ASSUME NEW first \in {90, 100}, NEW a \in Addresses
      PROVE  SecondBurst(first, n)[a] =
                  IF a \in first + 6..first + n - 1 THEN a
                  ELSE IF a = first + 10 THEN first + 5 ELSE regs[a]
  <2>1. first + PairsInBurst + 1 = first + 6 /\ first + PairsInBurst = first + 5
    BY <1>a
  <2> QED
    BY <2>1 DEF SecondBurst
<1>w. pc \in HeaterPcs => job.op # "sleep"
  BY <1>0 DEF JobInv
<1>13. CASE SetResHeat
  <2>1. \/ /\ regs' = FirstBurst(90, n) /\ job' = job /\ pc = "resHeat"
           /\ ~configFailed /\ pc' = IF Long(job) THEN "resHeat2" ELSE "gasWait"
        \/ configFailed'
    BY <1>a, <1>n, <1>13
       DEF SetResHeat, Writes, Goes, Fails, config, service
  <2>w. job.op # "sleep"
    BY <1>w, <1>13 DEF SetResHeat, Writes, HeaterPcs
  <2> SUFFICES ASSUME ~configFailed', NEW a \in Written(pc', job')
               PROVE  regs'[a] = a
    BY DEF RegsInv
  <2>2. \/ a \in {CtrlHum} \union Shared(job)
        \/ n > 5 /\ a \in 90..94
        \/ n <= 5 /\ a \in Heat(job)
    <3>1. 90..(90 + 5) - 1 = 90..94
      OBVIOUS
    <3> QED
      BY <1>a, <1>l, <2>1, <2>w, <3>1, WrittenAt
  <2>3. CASE a \in {CtrlHum} \union Shared(job)
    <3>1. a \in Written(pc, job)
      BY <2>1, <2>3, <2>w, WrittenAt
    <3>2. a \in Addresses /\ a \notin 90..90 + n - 1
      BY <1>a, <1>l, <2>3
    <3> QED
      BY <1>0, <1>f, <2>1, <3>1, <3>2 DEF RegsInv
  <2>4. CASE (n > 5 /\ a \in 90..94) \/ (n <= 5 /\ a \in Heat(job))
    <3>1. a \in Addresses /\ a \in 90..90 + n - 1 /\ (n <= 5 \/ a < 95)
      BY <1>a, <1>l, <2>4
    <3> QED
      BY <1>f, <2>1, <3>1
  <2> QED
    BY <2>2, <2>3, <2>4
<1>14. CASE SetResHeat2
  <2>1. \/ /\ regs' = SecondBurst(90, n) /\ job' = job /\ pc = "resHeat2"
           /\ ~configFailed /\ pc' = "gasWait"
        \/ configFailed'
    BY <1>a, <1>n, <1>14
       DEF SetResHeat2, Writes, Goes, Fails, config, service
  <2>w. job.op # "sleep" /\ n > 5
    BY <1>0, <1>l, <1>w, <1>14 DEF SetResHeat2, Writes, HeaterPcs, JobInv
  <2> SUFFICES ASSUME ~configFailed', NEW a \in Written(pc', job')
               PROVE  regs'[a] = a
    BY DEF RegsInv
  <2>2. a \in {CtrlHum} \union Shared(job) \union Heat(job)
    BY <2>1, <2>w, WrittenAt
  <2>3. a = 114 \/ a \in 90..94 \/ a \in 96..89 + n
    BY <1>a, <1>l, <2>2, <2>w
  <2>4. CASE a = 114 \/ a \in 90..94
    <3>1. 90..(90 + 5) - 1 = 90..94
      OBVIOUS
    <3>2. a \in Written(pc, job)
      BY <1>a, <2>1, <2>4, <2>w, <3>1, WrittenAt
    <3>3. a \in Addresses /\ a \notin 90 + 6..90 + n - 1 /\ a # 90 + 10
      BY <1>a, <2>4
    <3> QED
      BY <1>0, <1>s, <2>1, <3>2, <3>3 DEF RegsInv
  <2>5. CASE a \in 96..89 + n
    <3>1. a \in Addresses /\ a \in 90 + 6..90 + n - 1
      BY <1>a, <2>5
    <3> QED
      BY <1>s, <2>1, <3>1
  <2> QED
    BY <2>3, <2>4, <2>5
<1>15. CASE SetGasWait
  <2>1. \/ /\ regs' = FirstBurst(100, n) /\ job' = job /\ pc = "gasWait"
           /\ ~configFailed /\ pc' = IF Long(job) THEN "gasWait2" ELSE "ctrlRead"
        \/ configFailed'
    BY <1>a, <1>n, <1>15
       DEF SetGasWait, Writes, Goes, Fails, config, service
  <2>w. job.op # "sleep"
    BY <1>w, <1>15 DEF SetGasWait, Writes, HeaterPcs
  <2> SUFFICES ASSUME ~configFailed', NEW a \in Written(pc', job')
               PROVE  regs'[a] = a
    BY DEF RegsInv
  <2>2. \/ a \in {CtrlHum} \union Shared(job) \union Heat(job)
        \/ n > 5 /\ a \in 100..104
        \/ n <= 5 /\ a \in Wait(job)
    <3>1. 100..(100 + 5) - 1 = 100..104
      OBVIOUS
    <3> QED
      BY <1>a, <1>l, <2>1, <2>w, <3>1, WrittenAt
  <2>3. CASE a \in {CtrlHum} \union Shared(job) \union Heat(job)
    <3>1. a \in Written(pc, job)
      BY <2>1, <2>3, <2>w, WrittenAt
    <3>2. a \in Addresses /\ ~(a \in 100..100 + n - 1 /\ (n <= 5 \/ a < 100 + 5))
      BY <1>a, <1>l, <2>3
    <3> QED
      BY <1>0, <1>f, <2>1, <3>1, <3>2 DEF RegsInv
  <2>4. CASE (n > 5 /\ a \in 100..104) \/ (n <= 5 /\ a \in Wait(job))
    <3>1. a \in Addresses /\ a \in 100..100 + n - 1 /\ (n <= 5 \/ a < 100 + 5)
      BY <1>a, <1>l, <2>4
    <3> QED
      BY <1>f, <2>1, <3>1
  <2> QED
    BY <2>2, <2>3, <2>4
<1>16. CASE SetGasWait2
  <2>1. \/ /\ regs' = SecondBurst(100, n) /\ job' = job /\ pc = "gasWait2"
           /\ ~configFailed /\ pc' = "ctrlRead"
        \/ configFailed'
    BY <1>a, <1>n, <1>16
       DEF SetGasWait2, Writes, Goes, Fails, config, service
  <2>w. job.op # "sleep" /\ n > 5
    BY <1>0, <1>l, <1>w, <1>16 DEF SetGasWait2, Writes, HeaterPcs, JobInv
  <2> SUFFICES ASSUME ~configFailed', NEW a \in Written(pc', job')
               PROVE  regs'[a] = a
    BY DEF RegsInv
  <2>2. a \in {CtrlHum} \union Shared(job) \union Heat(job) \union Wait(job)
    BY <2>1, <2>w, WrittenAt
  <2>3. \/ a = 114 \/ (a \in Heat(job) /\ a \in 90..99)
        \/ a \in 100..104 \/ a \in 106..99 + n
    BY <1>a, <1>l, <2>2, <2>w
  <2>4. CASE a = 114 \/ (a \in Heat(job) /\ a \in 90..99) \/ a \in 100..104
    <3>1. 100..(100 + 5) - 1 = 100..104
      OBVIOUS
    <3>2. a \in Written(pc, job)
      BY <1>a, <2>1, <2>4, <2>w, <3>1, WrittenAt
    <3>3. a \in Addresses /\ a \notin 100 + 6..100 + n - 1 /\ a # 100 + 10
      BY <1>a, <2>4
    <3> QED
      BY <1>0, <1>s, <2>1, <3>2, <3>3 DEF RegsInv
  <2>5. CASE a \in 106..99 + n
    <3>1. a \in Addresses /\ a \in 100 + 6..100 + n - 1
      BY <1>a, <2>5
    <3> QED
      BY <1>s, <2>1, <3>1
  <2> QED
    BY <2>3, <2>4, <2>5
<1>17. CASE CtrlWrite
  <2>1. \/ /\ regs' = [regs EXCEPT ![CtrlGas] = CtrlGas] /\ job' = job
           /\ pc = "ctrlWrite" /\ pc' \in {"switch", "ready"} /\ ~configFailed
        \/ configFailed'
    BY <1>17, Routes DEF CtrlWrite, Writes, Goes, Fails, config, service
  <2>w. job.op # "sleep"
    BY <1>w, <1>17 DEF CtrlWrite, Writes, HeaterPcs
  <2> SUFFICES ASSUME ~configFailed', NEW a \in Written(pc', job')
               PROVE  regs'[a] = a
    BY DEF RegsInv
  <2>2. a \in Written(pc, job) \/ a = CtrlGas
    BY <2>1, <2>w, WrittenAt
  <2>3. a \in Written(pc, job) => a \in Addresses
    <3>1. a \in Written(pc, job) =>
            a \in {CtrlHum} \union Shared(job) \union Heat(job) \union Wait(job)
      BY <2>1, <2>w, WrittenAt
    <3> QED
      BY <1>a, <1>l, <3>1
  <2>4. a \in Addresses /\ regs \in [Addresses -> Values]
    BY <1>0, <1>a, <2>2, <2>3
  <2>5. a # CtrlGas => regs[a] = a
    BY <1>0, <2>1, <2>2 DEF RegsInv
  <2> QED
    BY <2>1, <2>4, <2>5
<1> QED
  BY <1>1, <1>2, <1>3, <1>4, <1>5, <1>6, <1>7, <1>8, <1>9, <1>10, <1>11, <1>12,
     <1>13, <1>14, <1>15, <1>16, <1>17 DEF Next

-----------------------------------------------------------------------------
(* Theorems                                                                *)

LEMMA StepIInv == IInv /\ [Next]_vars => IInv'
  BY StepType, StepAsleep, StepJob, StepModes, StepChip, StepRegs DEF IInv

\* The inductive invariant holds of every behaviour of the driver.
THEOREM Invariant == Spec => []IInv
<1> QED
  BY InitIInv, StepIInv, PTL DEF Spec

\* The type invariant: above all, the tries of bme68x_get_data never run out
\* below zero and a profile never has more steps than the sensor has.
THEOREM TypeCorrect == Spec => []TypeOK
<1>1. IInv => TypeOK
  BY DEF IInv
<1> QED
  BY <1>1, Invariant, PTL

\* bme68x_set_conf and bme68x_set_heatr_conf write while the sensor sleeps.
THEOREM ConfiguredAsleep == Spec => ConfigureOnlyAsleep
<1> DEFINE Rule == \A a \in Addresses :
                     regs'[a] # regs[a] /\ regs'[a] # Old => chipMode = "sleep"
<1>1. IInv /\ [Next]_vars => [Rule]_vars
  <2> SUFFICES ASSUME IInv, [Next]_vars, NEW a \in Addresses,
                      regs'[a] # regs[a], regs'[a] # Old
               PROVE  chipMode = "sleep"
    OBVIOUS
  <2>1. pc \in HeaterPcs \union {"confRead", "confWrite"}
    <3>1. CASE regs' = regs
      BY <3>1
    <3>2. CASE regs' = [b \in Addresses |-> Old]
      BY <3>2
    <3>3. CASE ConfWrite \/ SetShared \/ SetResHeat \/ SetResHeat2
                 \/ SetGasWait \/ SetGasWait2 \/ CtrlWrite
      BY <3>3 DEF ConfWrite, SetShared, SetResHeat, SetResHeat2, SetGasWait,
                  SetGasWait2, CtrlWrite, Writes, HeaterPcs
    <3>4. CASE MeasureForced \/ MeasureParallel \/ GetConf \/ GetOpMode
                 \/ ConfSleep \/ ConfRead \/ Restore \/ HeaterSleep
                 \/ CtrlRead \/ Switch
      BY <3>1, <3>4
         DEF MeasureForced, MeasureParallel, GetConf, GetOpMode, ConfSleep,
             ConfRead, Restore, HeaterSleep, CtrlRead, Switch, Reads, chip
    <3>5. CASE Bme688Init \/ SetModeParallel \/ ServicePass
      BY <3>1, <3>2, <3>5 DEF Bme688Init, SetModeParallel, ServicePass, Begin
    <3>6. CASE SampleFetch \/ Trigger \/ WaitForMeasure \/ ReadField
                 \/ ReadFieldFails \/ ReadSettings \/ ReadSettingsFails
      BY <3>1, <3>6
         DEF SampleFetch, Trigger, WaitForMeasure, ReadField, ReadFieldFails,
             ReadSettings, ReadSettingsFails, chip
    <3>7. CASE UNCHANGED vars
      BY <3>1, <3>7 DEF vars, chip
    <3> QED
      BY <3>3, <3>4, <3>5, <3>6, <3>7 DEF Next
  <2> QED
    BY <2>1 DEF IInv, Asleep
<1> QED
  BY <1>1, Invariant, PTL DEF Spec, ConfigureOnlyAsleep

\* After a configuration in which no transfer failed, the sensor keeps its
\* mode and every register but those the split of long bursts loses.
THEOREM ConfigurationKept == Spec => []ConfigurationHolds
<1>1. IInv => ConfigurationHolds
  <2> SUFFICES ASSUME IInv, Applied, ~configFailed
               PROVE  /\ chipMode \in AskedModes(job)
                      /\ \A a \in AskedRegs(job) \ LostRegs(job) : regs[a] = a
    BY DEF ConfigurationHolds
  <2>1. pc \in AppliedPcs
    BY DEF Applied, AppliedPcs
  <2>2. AskedRegs(job) \ LostRegs(job) \subseteq Written(pc, job)
    BY <2>1 DEF AskedRegs, Written, HeatRegs, WaitRegs, LostRegs
  <2> QED
    BY <2>1, <2>2 DEF IInv, RegsInv, ChipInv
<1> QED
  BY <1>1, Invariant, PTL

\* bme688_wait_for_measure and bme688_data_get take the branch of the mode the
\* sensor was told last.
THEOREM ReadCorrect == Spec => []ReadAsAsked
<1>1. IInv => ReadAsAsked
  BY DEF IInv, ModesInv, ReadAsAsked, AppliedPcs
<1> QED
  BY <1>1, Invariant, PTL

-----------------------------------------------------------------------------
(* The field of a forced pass                                              *)

\* Where the field of a forced pass is, as long as nothing failed: it is being
\* measured, waits in the sensor or has been read.
DeliverInv ==
  mode = "forced" /\ ~configFailed /\ ~passFailed =>
    /\ pc = "wait" =>
         chipMode = "forced" \/ (chipMode = "sleep" /\ slot = "asked")
    /\ pc = "field" => chipMode = "sleep" /\ slot = "asked"
    /\ pc = "settings" => got = "asked"

ReadPcs == {"wait", "field", "settings"}

\* A forced measurement uses registers that a configuration never loses.
LEMMA ForcedMeasures ==
  ASSUME IInv, pc \in AppliedPcs, mode = "forced", ~configFailed,
         chipMode = "forced"
  PROVE  MeasuredWith = "asked"
<1>1. job.op = "forced" /\ HeaterLen(job) = 1
  BY DEF IInv, ModesInv, HeaterLen
<1>2. ~Long(job) /\ LostRegs(job) = {}
  BY <1>1 DEF Long, LostRegs, PairsInBurst
<1>3. ResHeat0 \in HeatRegs(job) /\ GasWait0 \in WaitRegs(job)
  BY <1>1 DEF HeatRegs, WaitRegs, ResHeat0, GasWait0
<1>4. {ResHeat0, GasWait0, CtrlGas, CtrlHum} \subseteq Written(pc, job)
  BY <1>1, <1>2, <1>3 DEF Written, AppliedPcs
<1>5. \A a \in {ResHeat0, GasWait0, CtrlGas, CtrlHum} : regs[a] = a
  BY <1>4 DEF IInv, RegsInv
<1> QED
  BY <1>5 DEF MeasuredWith

\* The wait is reached by a trigger or at the end of a configuration, and the
\* sensor measures once in it.
LEMMA StepDeliver == IInv /\ DeliverInv /\ [Next]_vars => DeliverInv'
<1> SUFFICES ASSUME IInv, DeliverInv, [Next]_vars,
                    mode' = "forced", ~configFailed', ~passFailed',
                    pc' \in ReadPcs
             PROVE  /\ pc' = "wait" =>
                         \/ chipMode' = "forced"
                         \/ chipMode' = "sleep" /\ slot' = "asked"
                    /\ pc' = "field" => chipMode' = "sleep" /\ slot' = "asked"
                    /\ pc' = "settings" => got' = "asked"
  BY DEF DeliverInv, ReadPcs
<1>1. CASE MeasureForced
  <2>1. /\ UNCHANGED <<pc, mode, configFailed, passFailed, got>>
        /\ chipMode = "forced" /\ chipMode' = "sleep" /\ slot' = MeasuredWith
    BY <1>1 DEF MeasureForced, reading
  <2>2. MeasuredWith = "asked"
    BY <2>1, ForcedMeasures DEF ReadPcs, AppliedPcs
  <2> QED
    BY <2>1, <2>2 DEF DeliverInv
<1>2. CASE MeasureParallel
  <2>1. UNCHANGED <<pc, mode, job, configFailed>> /\ chipMode = "parallel"
    BY <1>2 DEF MeasureParallel, service
  <2>2. pc \in AppliedPcs /\ job.op = "forced"
    BY <2>1 DEF IInv, ModesInv, ReadPcs, AppliedPcs
  <2> QED
    BY <2>1, <2>2 DEF IInv, ChipInv, AskedModes
<1>3. CASE Bme688Init \/ SetModeParallel
  BY <1>3 DEF Bme688Init, SetModeParallel, Begin, ReadPcs
<1>4. CASE GetConf \/ GetOpMode \/ ConfSleep \/ ConfRead \/ ConfWrite
             \/ Restore \/ HeaterSleep \/ SetShared \/ SetResHeat
             \/ SetResHeat2 \/ SetGasWait \/ SetGasWait2 \/ CtrlRead
             \/ CtrlWrite
  BY <1>4
     DEF GetConf, GetOpMode, ConfSleep, ConfRead, ConfWrite, Restore,
         HeaterSleep, SetShared, SetResHeat, SetResHeat2, SetGasWait,
         SetGasWait2, CtrlRead, CtrlWrite, Reads, Writes, SetsOpMode, Goes,
         Fails, AfterConf, AfterHeater, ReadPcs
<1>5. CASE Switch
  BY <1>5 DEF Switch, SetsOpMode, Goes, Fails, AfterSwitch, ReadPcs
<1>6. CASE ServicePass
  <2>1. PICK op \in Modes : /\ bme688Mode' = op
                            /\ \/ pc' = "getConf"
                               \/ op # "forced" /\ op = bme688Mode
                            /\ pc' = "wait" => op # "sleep"
    BY <1>6 DEF ServicePass, Begin
  <2>2. bme688Mode \notin {"forced", "sleep"} /\ user = "bsec2" /\ pc = "ready"
        /\ mode = "forced"
    BY <1>6, <2>1 DEF ServicePass, ReadPcs, Begin
  <2>3. job.switch => mode = bme688Mode
    BY <2>2 DEF IInv, ModesInv, AppliedPcs
  <2> QED
    BY <2>2, <2>3 DEF IInv, ModesInv
<1>7. CASE SampleFetch
  BY <1>7 DEF SampleFetch, ReadPcs
<1>8. CASE Trigger
  BY <1>8 DEF Trigger
<1>9. CASE WaitForMeasure
  BY <1>9 DEF WaitForMeasure, DeliverInv, chip
<1>10. CASE ReadField \/ ReadFieldFails
  BY <1>10 DEF ReadField, ReadFieldFails, NoData, DeliverInv, ReadPcs
<1>11. CASE ReadSettings \/ ReadSettingsFails
  BY <1>11 DEF ReadSettings, ReadSettingsFails, NoData, ReadPcs
<1>12. CASE UNCHANGED vars
  BY <1>12 DEF vars, chip, reading, DeliverInv
<1> QED
  BY <1>1, <1>2, <1>3, <1>4, <1>5, <1>6, <1>7, <1>8, <1>9, <1>10, <1>11, <1>12
     DEF Next

\* A pass in forced mode in which nothing fails brings exactly one field, of
\* the configuration of this very pass (bme688_data_get).
THEOREM ForcedDelivers == Spec => ForcedPassDelivers
<1> DEFINE Rule == (mode = "forced" /\ pc \in {"field", "settings"} /\ pc' = "ready"
                      /\ ~configFailed /\ ~passFailed') =>
                     nFields' = 1 /\ dataOf' = "asked"
<1>1. Init => DeliverInv
  BY DEF Init, DeliverInv
<1>2. Spec => []DeliverInv
  BY <1>1, Invariant, StepDeliver, PTL DEF Spec
<1>3. DeliverInv /\ [Next]_vars => [Rule]_vars
  <2> SUFFICES ASSUME DeliverInv, Next, mode = "forced",
                      pc \in {"field", "settings"}, pc' = "ready",
                      ~configFailed, ~passFailed'
               PROVE  nFields' = 1 /\ dataOf' = "asked"
    BY DEF vars
  <2>1. ReadField \/ ReadFieldFails \/ ReadSettings \/ ReadSettingsFails
    BY DEF Next, MeasureForced, MeasureParallel, Bme688Init, SetModeParallel,
           GetConf, GetOpMode, ConfSleep, ConfRead, ConfWrite, Restore,
           HeaterSleep, SetShared, SetResHeat, SetResHeat2, SetGasWait,
           SetGasWait2, CtrlRead, CtrlWrite, Switch, Reads, Writes,
           ServicePass, SampleFetch, Trigger, WaitForMeasure
  <2>2. CASE ReadField
    BY <2>2 DEF ReadField, DeliverInv, NoField
  <2>3. CASE ReadSettings
    BY <2>3 DEF ReadSettings, DeliverInv
  <2> QED
    BY <2>1, <2>2, <2>3 DEF ReadFieldFails, ReadSettingsFails
<1> QED
  BY <1>2, <1>3, PTL DEF Spec, ForcedPassDelivers

-----------------------------------------------------------------------------
(* Which registers the split of long bursts loses                          *)

\* The lengths a profile in parallel mode can have.
LenInv == job.op = "parallel" => job.len \in Lens \union {NbSteps}

LEMMA LenCorrect == Spec => []LenInv
<1>1. Init => LenInv
  BY DEF Init, LenInv
<1>2. LenInv /\ [Next]_vars => LenInv'
  <2> SUFFICES ASSUME LenInv, [Next]_vars, job' # job PROVE LenInv'
    BY DEF LenInv
  <2>1. Bme688Init \/ SetModeParallel \/ ServicePass
    BY DEF Next, vars, MeasureForced, MeasureParallel, GetConf, GetOpMode,
           ConfSleep, ConfRead, ConfWrite, Restore, HeaterSleep, SetShared,
           SetResHeat, SetResHeat2, SetGasWait, SetGasWait2, CtrlRead,
           CtrlWrite, Switch, SampleFetch, Trigger, WaitForMeasure, ReadField,
           ReadFieldFails, ReadSettings, ReadSettingsFails, Reads, Writes,
           config, service
  <2> QED
    BY <2>1 DEF Bme688Init, SetModeParallel, ServicePass, Begin, LenInv
<1> QED
  BY <1>1, <1>2, PTL DEF Spec

\* What bme68x_set_regs says of itself is true of every profile of up to five
\* steps: then no burst is split and after a configuration in which no transfer
\* failed the registers hold its values.
THEOREM DocumentedIfShort ==
  ASSUME \A l \in Lens : l <= PairsInBurst, NbSteps <= PairsInBurst
  PROVE  Spec => []AsDocumented
<1>1. LenInv /\ TypeOK => LostRegs(job) = {}
  BY DEF LenInv, TypeOK, Jobs, LostRegs, Long, HeaterLen, PairsInBurst
<1>2. LenInv /\ TypeOK /\ ConfigurationHolds => AsDocumented
  BY <1>1 DEF ConfigurationHolds, AsDocumented
<1> QED
  BY <1>2, LenCorrect, TypeCorrect, ConfigurationKept, PTL

SixthHeat == ResHeat0 + PairsInBurst
SixthWait == GasWait0 + PairsInBurst

\* The registers of the sixth step are never written, and what a long burst
\* writes in place of the shared duration is there when the number of steps is.
LostInv ==
  /\ regs[SixthHeat] = Old /\ regs[SixthWait] = Old
  /\ regs[CtrlGas] # Old => pc \in AppliedPcs \union {"switch"}
  /\ job.op = "parallel" /\ Long(job) =>
       (pc \in {"ctrlRead", "ctrlWrite"} \/ regs[CtrlGas] # Old =>
          regs[SharedDur] = SixthWait)

\* The registers a burst may write.
LEMMA BurstRegs ==
  ASSUME regs \in [Addresses -> Values], NEW n \in 1..10
  PROVE  /\ \A first \in {ResHeat0, GasWait0} :
              \A a \in {SixthHeat, SixthWait, CtrlGas} :
                 /\ FirstBurst(first, n)[a] = regs[a]
                 /\ SecondBurst(first, n)[a] = regs[a]
         /\ SecondBurst(GasWait0, n)[SharedDur] = SixthWait
<1> USE DEF ResHeat0, GasWait0, SharedDur, CtrlGas, PairsInBurst
<1>1. {SixthHeat, SixthWait, CtrlGas, SharedDur} \subseteq Addresses
  BY DEF Addresses, SixthHeat, SixthWait
<1>2. ASSUME NEW first \in {ResHeat0, GasWait0},
             NEW a \in {SixthHeat, SixthWait, CtrlGas}
      PROVE  FirstBurst(first, n)[a] = regs[a]
  BY <1>1 DEF FirstBurst, SixthHeat, SixthWait
<1>3. ASSUME NEW first \in {ResHeat0, GasWait0},
             NEW a \in {SixthHeat, SixthWait, CtrlGas}
      PROVE  SecondBurst(first, n)[a] = regs[a]
  BY <1>1 DEF SecondBurst, SixthHeat, SixthWait
<1>4. SecondBurst(GasWait0, n)[SharedDur] = SixthWait
  BY <1>1 DEF SecondBurst, SixthWait
<1> QED
  BY <1>2, <1>3, <1>4

LEMMA StepLost == TypeOK /\ JobInv /\ LostInv /\ [Next]_vars => LostInv'
<1> SUFFICES ASSUME TypeOK, JobInv, LostInv, [Next]_vars PROVE LostInv'
  OBVIOUS
<1>0. regs \in [Addresses -> Values] /\ HeaterLen(job) \in 1..10
  BY DEF TypeOK, Jobs, JobInv, HeaterLen
<1>a. /\ {SixthHeat, SixthWait, CtrlGas, CtrlHum, SharedDur} \subseteq Addresses
      /\ CtrlGas \notin {SixthHeat, SixthWait, CtrlHum, SharedDur}
      /\ SixthHeat \notin {CtrlHum, SharedDur}
      /\ SixthWait \notin {CtrlHum, SharedDur}
  BY DEF Addresses, SixthHeat, SixthWait, ResHeat0, GasWait0, SharedDur,
         CtrlGas, CtrlHum, PairsInBurst
<1> USE DEF AppliedPcs
<1>1. CASE Bme688Init \/ SetModeParallel
  BY <1>1, <1>a DEF Bme688Init, SetModeParallel, Begin, LostInv
<1>2. CASE ServicePass
  BY <1>2, <1>a DEF ServicePass, Begin, LostInv
<1>3. CASE MeasureForced \/ MeasureParallel
  BY <1>3 DEF MeasureForced, MeasureParallel, service, LostInv
<1>4. CASE GetConf \/ ConfRead \/ CtrlRead
  BY <1>4, Routes
     DEF GetConf, ConfRead, CtrlRead, Reads, Goes, Fails, chip, config, service,
         LostInv
<1>5. CASE GetOpMode
  BY <1>5, Routes DEF GetOpMode, Goes, Fails, chip, service, LostInv
<1>6. CASE ConfSleep \/ Restore \/ HeaterSleep
  BY <1>6, Routes
     DEF ConfSleep, Restore, HeaterSleep, SetsOpMode, Goes, Fails, config,
         service, LostInv
<1>7. CASE ConfWrite \/ SetShared
  BY <1>0, <1>7, <1>a, Routes
     DEF ConfWrite, SetShared, Writes, Goes, Fails, config, service, LostInv
<1>8. CASE SetResHeat \/ SetResHeat2
  BY <1>0, <1>8, BurstRegs, Routes
     DEF SetResHeat, SetResHeat2, Writes, Goes, Fails, config, service, LostInv
<1>9. CASE SetGasWait
  BY <1>0, <1>9, BurstRegs, Routes
     DEF SetGasWait, Writes, Goes, Fails, config, service, LostInv
<1>10. CASE SetGasWait2
  BY <1>0, <1>10, BurstRegs, Routes
     DEF SetGasWait2, Writes, Goes, Fails, config, service, LostInv
<1>11. CASE CtrlWrite
  BY <1>0, <1>11, <1>a, Routes
     DEF CtrlWrite, Writes, Goes, Fails, config, service, LostInv
<1>12. CASE Switch
  BY <1>12, Routes DEF Switch, SetsOpMode, Goes, Fails, service, LostInv
<1>13. CASE SampleFetch \/ Trigger \/ WaitForMeasure
  BY <1>13 DEF SampleFetch, Trigger, WaitForMeasure, chip, service, LostInv
<1>14. CASE ReadField \/ ReadFieldFails \/ ReadSettings \/ ReadSettingsFails
  BY <1>14
     DEF ReadField, ReadFieldFails, ReadSettings, ReadSettingsFails, NoData,
         chip, service, LostInv
<1>15. CASE UNCHANGED vars
  BY <1>15 DEF vars, chip, service, LostInv
<1> QED
  BY <1>1, <1>2, <1>3, <1>4, <1>5, <1>6, <1>7, <1>8, <1>9, <1>10, <1>11, <1>12,
     <1>13, <1>14, <1>15 DEF Next

LEMMA LostCorrect == Spec => []LostInv
<1>1. Init => LostInv
  BY DEF Init, LostInv, SixthHeat, SixthWait, ResHeat0, GasWait0, SharedDur,
         CtrlGas, CtrlHum, PairsInBurst, Addresses
<1>2. IInv => TypeOK /\ JobInv
  BY DEF IInv
<1> QED
  BY <1>1, <1>2, StepLost, Invariant, PTL DEF Spec

\* What the split costs, for any profile and whatever fails: the heater's
\* temperature and wait of a sixth step never reach the sensor; a long profile
\* that was configured without a failure has the sixth step's wait in place of
\* the duration shared by all steps; and so no field of a long profile is ever
\* measured with what was asked for.
SixthStepLost ==
  /\ [](regs[SixthHeat] = Old /\ regs[SixthWait] = Old)
  /\ [](Applied /\ ~configFailed /\ job.op = "parallel" /\ Long(job) =>
          regs[SharedDur] = SixthWait)
  /\ [][MeasureParallel /\ job.op = "parallel" /\ Long(job) =>
          slot' = "other"]_vars

\* SixthStepLost holds for any lengths of profiles and any failures.
THEOREM LongProfiles == Spec => SixthStepLost
<1> DEFINE Sixth == regs[SixthHeat] = Old /\ regs[SixthWait] = Old
           Dur   == Applied /\ ~configFailed /\ job.op = "parallel" /\ Long(job)
                      => regs[SharedDur] = SixthWait
           Rule  == MeasureParallel /\ job.op = "parallel" /\ Long(job)
                      => slot' = "other"
<1>1. LostInv => Sixth
  BY DEF LostInv
<1>2. IInv /\ LostInv => Dur
  <2> SUFFICES ASSUME IInv, LostInv, Applied, ~configFailed,
                      job.op = "parallel", Long(job)
               PROVE  regs[SharedDur] = SixthWait
    OBVIOUS
  <2>1. CtrlGas \in Written(pc, job)
    BY DEF Applied, AppliedPcs, Written
  <2>2. regs[CtrlGas] # Old
    BY <2>1 DEF IInv, RegsInv, CtrlGas, Old
  <2> QED
    BY <2>2 DEF LostInv
<1>3. LostInv => Rule
  <2> SUFFICES ASSUME LostInv, MeasureParallel, job.op = "parallel", Long(job)
               PROVE  MeasuredWith = "other"
    BY DEF MeasureParallel
  <2>1. CASE regs[CtrlGas] = Old
    BY <2>1 DEF MeasuredWith, CtrlGas, Old
  <2>2. CASE regs[CtrlGas] # Old
    <3>1. regs[SharedDur] # SharedDur
      BY <2>2 DEF LostInv, SixthWait, SharedDur, GasWait0, PairsInBurst
    <3> QED
      BY <3>1 DEF MeasuredWith, MeasureParallel
  <2> QED
    BY <2>1, <2>2
<1> QED
  BY <1>1, <1>2, <1>3, Invariant, LostCorrect, PTL DEF Spec, SixthStepLost

-----------------------------------------------------------------------------
(* A failed configuration is not repeated                                  *)

\* The service remembers the mode it asked for, not whether the sensor took it:
\* once applying a parallel mode failed, it stays failed, pass after pass,
\* until BSEC2 asks for another mode.
FailureSticks ==
  [][user = "bsec2" /\ job.op = "parallel" /\ configFailed =>
       configFailed' \/ job'.op # "parallel"]_vars

\* FailureSticks holds for any lengths of profiles and any failures.
THEOREM FailedModeStays == Spec => FailureSticks
<1> DEFINE Rule == user = "bsec2" /\ job.op = "parallel" /\ configFailed =>
                     configFailed' \/ job'.op # "parallel"
<1>1. IInv /\ [Next]_vars => [Rule]_vars
  <2> SUFFICES ASSUME IInv, Next, user = "bsec2", job.op = "parallel",
                      configFailed, ~configFailed'
               PROVE  job'.op # "parallel"
    OBVIOUS
  <2>1. Bme688Init \/ SetModeParallel \/ ServicePass
    <3>1. CASE GetConf \/ ConfRead \/ CtrlRead
      BY <3>1 DEF GetConf, ConfRead, CtrlRead, Reads, Goes, Fails
    <3>2. CASE GetOpMode \/ ConfSleep \/ Restore \/ HeaterSleep \/ Switch
      BY <3>2 DEF GetOpMode, ConfSleep, Restore, HeaterSleep, Switch,
         SetsOpMode, Goes, Fails
    <3>3. CASE ConfWrite \/ SetShared \/ SetResHeat \/ SetResHeat2
                 \/ SetGasWait \/ SetGasWait2 \/ CtrlWrite
      BY <3>3 DEF ConfWrite, SetShared, SetResHeat, SetResHeat2, SetGasWait,
         SetGasWait2, CtrlWrite, Writes, Goes, Fails
    <3>4. CASE MeasureForced \/ MeasureParallel \/ SampleFetch \/ Trigger
                 \/ WaitForMeasure
      BY <3>4 DEF MeasureForced, MeasureParallel, SampleFetch, Trigger,
         WaitForMeasure
    <3>5. CASE ReadField \/ ReadFieldFails \/ ReadSettings \/ ReadSettingsFails
      BY <3>5 DEF ReadField, ReadFieldFails, ReadSettings, ReadSettingsFails
    <3> QED
      BY <3>1, <3>2, <3>3, <3>4, <3>5 DEF Next
  <2>2. bme688Mode = "parallel"
    BY DEF IInv, ModesInv
  <2>3. CASE Bme688Init
    BY <2>3 DEF Bme688Init, Begin
  <2>4. CASE SetModeParallel
    BY <2>4 DEF SetModeParallel
  <2>5. CASE ServicePass
    <3>1. PICK op \in Modes, len \in Lens :
            IF op = "forced" \/ op # bme688Mode
            THEN Begin(op, len, TRUE, "getConf") ELSE UNCHANGED configFailed
      BY <2>5 DEF ServicePass
    <3>2. Begin(op, len, TRUE, "getConf") /\ (op = "forced" \/ op # bme688Mode)
      BY <3>1
    <3> QED
      BY <2>2, <3>2 DEF Begin
  <2> QED
    BY <2>1, <2>3, <2>4, <2>5
<1> QED
  BY <1>1, Invariant, PTL DEF Spec, FailureSticks
=============================================================================
