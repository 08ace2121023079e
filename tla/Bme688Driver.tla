---------------------------- MODULE Bme688Driver ----------------------------
(***************************************************************************)
(* How the BME688 is configured and read: drivers/sensor/bme688 (bme688.c  *)
(* and the Bosch API bme68x.c under it) and the users above it, which are  *)
(* samples/05 and the like (forced mode), bme688_service (parallel mode)   *)
(* and bme688_service_bsec2 (whatever BSEC2 asks for).  Every I2C transfer *)
(* is a step and may fail, the sensor measures in between.                 *)
(*                                                                         *)
(* The values written are abstracted to the register they were computed    *)
(* for and whether they are of the configuration asked for last: Begin     *)
(* makes everything older Old.                                             *)
(***************************************************************************)
EXTENDS Integers

CONSTANTS
  Lens,     \* heater_profile_len BSEC2 may ask for, up to 10
  NbSteps   \* nb_steps, the profile of the default parallel mode: 10

DriverAssumption == Lens \subseteq 1..10 /\ NbSteps \in 1..10

ASSUME DriverAssumption

VARIABLES
  \* the sensor
  chipMode,   \* its mode; it leaves "forced" for "sleep" by itself
  regs,       \* its configuration registers
  slot,       \* its newest field, by what it was measured with
  \* the driver and its user
  user,       \* who uses the driver
  pc,         \* the transfer that comes next
  inits,      \* how often bme688_init was called
  job,        \* the configuration that is or was last applied
  mode,       \* bme688.c: mode
  bme688Mode, \* bme688_server.cpp: bme688_mode, the last conf.op_mode
  trigger,    \* conf.trigger_measurement
  opMode,     \* current_op_mode in bme68x_set_conf
  tries,      \* tries in read_field_data
  got,        \* the field read, before its settings are
  nFields,    \* bme688.c: n_fields
  dataOf,     \* data[0], by what it was measured with
  \* history
  configFailed,  \* a transfer of the last configuration failed
  passFailed     \* a transfer of this pass failed

chip    == <<chipMode, regs, slot>>
service == <<user, inits, job, bme688Mode, trigger>>
reading == <<tries, got, nFields, dataOf>>
vars    == <<chip, service, pc, mode, opMode, reading, configFailed, passFailed>>

Modes == {"sleep", "forced", "parallel"}
Users == {"forced", "parallel", "bsec2"}

-----------------------------------------------------------------------------
(* The registers                                                           *)

ResHeat0  == 90    \* BME68X_REG_RES_HEAT0, 0x5a
GasWait0  == 100   \* BME68X_REG_GAS_WAIT0, 0x64
SharedDur == 110   \* BME68X_REG_SHD_HEATR_DUR, 0x6e
CtrlGas   == 113   \* BME68X_REG_CTRL_GAS_1, 0x71: number of heater steps
CtrlHum   == 114   \* BME68X_REG_CTRL_HUM, 0x72, standing for 0x72-0x75
Addresses == ResHeat0..SharedDur \union {CtrlGas, CtrlHum}

\* What a register holds: the value the last configuration has for this
\* register or for another one, or an older value.
Old    == 0
Values == Addresses \union {Old}

\* Fields, by what they were measured with: the configuration asked for last,
\* all of it, or another one or a mixture.  A forced pass of SampleFetch asks
\* again, so that the fields of earlier passes are other ones.
Fields  == {"asked", "other"}
NoField == "none"

MeasuredWith ==
  LET used == {ResHeat0, GasWait0, CtrlGas, CtrlHum}
                \union (IF chipMode = "parallel" THEN {SharedDur} ELSE {})
  IN  IF \A a \in used : regs[a] = a THEN "asked" ELSE "other"

\* bme68x_set_regs sends one register with its value and the following ones as
\* pairs of address and value.  bme68x_i2c_write splits what has ten bytes or
\* more after the tenth: five values and the address of the sixth.  The rest
\* goes out as another burst, to the register ten after the first, and starts
\* with the value of the sixth.  Values are written in place otherwise.
PairsInBurst == 5

FirstBurst(first, n) ==
  [a \in Addresses |->
     IF a \in first..first + n - 1 /\ (n <= PairsInBurst \/ a < first + PairsInBurst)
     THEN a ELSE regs[a]]

\* The rest is taken one pair too late: bug.
SecondBurstLate(first, n) ==
  [a \in Addresses |->
     IF a \in first + PairsInBurst + 2..first + n - 1 THEN a
     ELSE IF a = first + 10 THEN first + PairsInBurst
     ELSE regs[a]]

SecondBurst(first, n) ==
  [a \in Addresses |->
     IF a \in first + PairsInBurst + 1..first + n - 1 THEN a
     ELSE IF a = first + 10 THEN first + PairsInBurst
     ELSE regs[a]]

-----------------------------------------------------------------------------
(* What is asked for                                                       *)

\* switch tells whether the mode of the sensor is set at the end.
Jobs == [op : Modes, len : 0..10, switch : BOOLEAN]

HeaterLen(j) == IF j.op = "parallel" THEN j.len ELSE 1

TypeOK ==
  /\ chipMode \in Modes
  /\ regs \in [Addresses -> Values]
  /\ slot \in Fields \union {NoField}
  /\ user \in Users
  /\ pc \in {"reset", "getConf", "opMode", "confSleep", "confRead", "confWrite",
             "restore", "heaterSleep", "shared", "resHeat", "resHeat2",
             "gasWait", "gasWait2", "ctrlRead", "ctrlWrite", "switch",
             "ready", "trigger", "wait", "field", "settings"}
  /\ inits \in 0..2
  /\ job \in Jobs
  /\ mode \in Modes /\ bme688Mode \in Modes
  /\ trigger \in BOOLEAN
  /\ opMode \in Modes
  /\ tries \in 0..5
  /\ got \in Fields /\ nFields \in 0..1 /\ dataOf \in Fields
  /\ configFailed \in BOOLEAN /\ passFailed \in BOOLEAN

\* The device may have restarted without the sensor: it does whatever it did.
Init ==
  /\ chipMode \in Modes /\ regs = [a \in Addresses |-> Old] /\ slot = NoField
  /\ user \in Users /\ pc = "reset" /\ inits = 0
  /\ job = [op |-> "forced", len |-> 1, switch |-> FALSE]
  /\ mode = "forced" /\ bme688Mode = "sleep" /\ trigger = FALSE
  /\ opMode = "sleep" /\ tries = 0 /\ got = "other" /\ nFields = 0
  /\ dataOf = "other"
  /\ configFailed = FALSE /\ passFailed = FALSE

-----------------------------------------------------------------------------
(* The sensor measures                                                     *)

MeasureForced ==
  /\ chipMode = "forced" /\ chipMode' = "sleep"
  /\ slot' = MeasuredWith
  /\ UNCHANGED <<regs, service, pc, mode, opMode, reading, configFailed, passFailed>>

MeasureParallel ==
  /\ chipMode = "parallel"
  /\ slot' = MeasuredWith
  /\ UNCHANGED <<chipMode, regs, service, pc, mode, opMode, reading,
                 configFailed, passFailed>>

-----------------------------------------------------------------------------
(* Transfers                                                               *)

\* After bme688_set_oversampling or bme68x_set_conf, whatever they returned:
\* the heater, which has no configuration for the sleep mode.
AfterConf == IF job.op = "sleep" THEN "switch" ELSE "heaterSleep"

\* After bme688_set_heater_config or bme68x_set_heatr_conf.
AfterHeater == IF job.switch THEN "switch" ELSE "ready"

\* After bme688_set_mode: the end of bme688_set_mode_parallel or of set_conf.
AfterSwitch ==
  IF user = "bsec2" /\ trigger /\ job.op # "sleep" THEN "wait" ELSE "ready"

Goes(next)  == pc' = next /\ UNCHANGED configFailed
Fails(next) == pc' = next /\ configFailed' = TRUE

config == <<service, mode, opMode, reading, passFailed>>

\* A transfer that only reads.
Reads(at, next, onError) ==
  /\ pc = at /\ (Goes(next) \/ Fails(onError))
  /\ UNCHANGED <<chip, config>>

\* A transfer that writes registers; if it fails the sensor may have got it.
Writes(at, new, next, onError) ==
  /\ pc = at
  /\ \/ regs' = new /\ Goes(next)
     \/ regs' \in {regs, new} /\ Fails(onError)
  /\ UNCHANGED <<chipMode, slot, config>>

\* bme68x_set_op_mode: first to sleep, then to the mode; it may fail anywhere.
SetsOpMode(m, next, onError) ==
  \/ chipMode' = m /\ Goes(next)
  \/ chipMode' \in {chipMode, "sleep", m} /\ Fails(onError)

-----------------------------------------------------------------------------
(* bme688_init: soft reset, which may fail, then bme688_set_mode_forced.   *)
(* The kernel calls it and the application calls it again.  Whether a      *)
(* reset drops a waiting field makes no difference: it is an old one.      *)

Older(f) == IF f = "asked" THEN "other" ELSE f

FieldsAge ==
  slot' = Older(slot) /\ got' = Older(got) /\ dataOf' = Older(dataOf)

\* Another configuration is asked for.
Begin(op, len, switch, at) ==
  /\ job' = [op |-> op, len |-> len, switch |-> switch]
  /\ configFailed' = FALSE
  /\ pc' = at
  /\ regs' = [a \in Addresses |-> Old]
  /\ FieldsAge

Bme688Init ==
  /\ pc = "reset" \/ (pc = "ready" /\ inits < 2)
  /\ inits' = inits + 1
  /\ chipMode' \in {chipMode, "sleep"}
  /\ mode' = "forced"
  /\ Begin("forced", 1, FALSE, "opMode")
  /\ UNCHANGED <<user, bme688Mode, trigger, opMode, tries, nFields, passFailed>>

\* bme688_set_mode_default_conf(bme688_mode_parallel).
SetModeParallel ==
  /\ pc = "ready" /\ inits = 2 /\ user = "parallel" /\ mode = "forced"
  /\ mode' = "parallel"
  /\ Begin("parallel", NbSteps, TRUE, "opMode")
  /\ UNCHANGED <<chipMode, user, inits, bme688Mode, trigger, opMode, tries,
                 nFields, passFailed>>

-----------------------------------------------------------------------------
(* bme68x_get_conf and bme68x_set_conf: the oversampling                   *)

GetConf == Reads("getConf", "opMode", AfterConf)

GetOpMode ==
  /\ pc = "opMode"
  /\ \/ Goes("confSleep") /\ opMode' = chipMode
     \/ Fails(AfterConf) /\ UNCHANGED opMode
  /\ UNCHANGED <<chip, service, mode, reading, passFailed>>

ConfSleep ==
  /\ pc = "confSleep"
  /\ SetsOpMode("sleep", "confRead", AfterConf)
  /\ UNCHANGED <<regs, slot, config>>

ConfRead == Reads("confRead", "confWrite", AfterConf)

ConfWrite ==
  Writes("confWrite", [regs EXCEPT ![CtrlHum] = CtrlHum],
         IF opMode = "sleep" THEN AfterConf ELSE "restore", AfterConf)

Restore ==
  /\ pc = "restore"
  /\ SetsOpMode(opMode, AfterConf, AfterConf)
  /\ UNCHANGED <<regs, slot, config>>

-----------------------------------------------------------------------------
(* bme68x_set_heatr_conf: the heater                                       *)

\* The mode left by bme68x_set_conf is relied on: bug.
HeaterNoSleep ==
  /\ pc = "heaterSleep"
  /\ Goes(IF job.op = "parallel" THEN "shared" ELSE "resHeat")
  /\ UNCHANGED <<chip, config>>

HeaterSleep ==
  /\ pc = "heaterSleep"
  /\ SetsOpMode("sleep", IF job.op = "parallel" THEN "shared" ELSE "resHeat",
                AfterHeater)
  /\ UNCHANGED <<regs, slot, config>>

SetShared ==
  Writes("shared", [regs EXCEPT ![SharedDur] = SharedDur],
         "resHeat", AfterHeater)

Long(j) == HeaterLen(j) > PairsInBurst

SetResHeat ==
  Writes("resHeat", FirstBurst(ResHeat0, HeaterLen(job)),
         IF Long(job) THEN "resHeat2" ELSE "gasWait", AfterHeater)

SetResHeat2 ==
  Writes("resHeat2", SecondBurst(ResHeat0, HeaterLen(job)),
         "gasWait", AfterHeater)

SetGasWait ==
  Writes("gasWait", FirstBurst(GasWait0, HeaterLen(job)),
         IF Long(job) THEN "gasWait2" ELSE "ctrlRead", AfterHeater)

SetGasWait2 ==
  Writes("gasWait2", SecondBurst(GasWait0, HeaterLen(job)),
         "ctrlRead", AfterHeater)

CtrlRead == Reads("ctrlRead", "ctrlWrite", AfterHeater)

CtrlWrite ==
  Writes("ctrlWrite", [regs EXCEPT ![CtrlGas] = CtrlGas],
         AfterHeater, AfterHeater)

\* The driver's mode follows a success only: bug.
SwitchIfDone ==
  /\ pc = "switch"
  /\ \/ mode' = job.op /\ chipMode' = job.op /\ Goes(AfterSwitch)
     \/ mode' = mode /\ UNCHANGED chipMode /\ Fails(AfterSwitch)
  /\ UNCHANGED <<regs, slot, service, opMode, reading, passFailed>>

\* bme688_set_mode: the driver's mode changes whether the sensor's does or not.
Switch ==
  /\ pc = "switch"
  /\ mode' = job.op
  /\ SetsOpMode(job.op, AfterSwitch, AfterSwitch)
  /\ UNCHANGED <<regs, slot, service, opMode, reading, passFailed>>

-----------------------------------------------------------------------------
(* The users                                                               *)

\* A forced measurement is started only when the mode is new: bug.
ServicePassNewOnly ==
  /\ pc = "ready" /\ inits = 2 /\ user = "bsec2"
  /\ \E op \in Modes, len \in Lens, t \in BOOLEAN :
       /\ trigger' = t
       /\ bme688Mode' = op
       /\ IF op # bme688Mode
          THEN Begin(op, len, TRUE, "getConf")
          ELSE /\ pc' = IF t /\ op # "sleep" THEN "wait" ELSE "ready"
               /\ UNCHANGED <<job, configFailed, regs, slot, got, dataOf>>
  /\ passFailed' = FALSE
  /\ UNCHANGED <<chipMode, user, inits, mode, opMode, tries, nFields>>

\* bme688_service_bsec2: a pass with what BSEC2 asks for, configured only if
\* the mode is forced or another than before.
ServicePass ==
  /\ pc = "ready" /\ inits = 2 /\ user = "bsec2"
  /\ \E op \in Modes, len \in Lens, t \in BOOLEAN :
       /\ trigger' = t
       /\ bme688Mode' = op
       /\ IF op = "forced" \/ op # bme688Mode
          THEN Begin(op, len, TRUE, "getConf")
          ELSE /\ pc' = IF t /\ op # "sleep" THEN "wait" ELSE "ready"
               /\ UNCHANGED <<job, configFailed, regs, slot, got, dataOf>>
  /\ passFailed' = FALSE
  /\ UNCHANGED <<chipMode, user, inits, mode, opMode, tries, nFields>>

\* bme688_sample_fetch, called by the samples and bme688_service.
SampleFetch ==
  /\ pc = "ready" /\ inits = 2 /\ user # "bsec2" /\ mode = user
  /\ pc' = IF mode = "forced" THEN "trigger" ELSE "wait"
  /\ passFailed' = FALSE
  /\ FieldsAge
  /\ UNCHANGED <<chipMode, regs, service, mode, opMode, tries, nFields,
                 configFailed>>

Trigger ==
  /\ pc = "trigger" /\ pc' = "wait"
  /\ \/ chipMode' = "forced" /\ UNCHANGED passFailed
     \/ chipMode' \in {chipMode, "sleep", "forced"} /\ passFailed' = TRUE
  /\ UNCHANGED <<regs, slot, service, mode, opMode, reading, configFailed>>

\* bme688_wait_for_measure sleeps as long as a forced measurement takes with
\* the configuration of the driver, so it is over if the sensor has that one.
WaitForMeasure ==
  /\ pc = "wait" /\ pc' = "field"
  /\ mode = "forced" /\ ~configFailed => chipMode # "forced"
  /\ tries' = IF mode = "forced" THEN 5 ELSE 1
  /\ UNCHANGED <<chip, service, mode, opMode, got, nFields, dataOf,
                 configFailed, passFailed>>

-----------------------------------------------------------------------------
(* bme688_data_get, bme68x_get_data: in forced mode up to five tries       *)

NoData == pc' = "ready" /\ nFields' = 0

\* The tries are counted but not limited: bug.
ReadFieldForever ==
  /\ pc = "field"
  /\ IF slot # NoField
     THEN /\ pc' = "settings" /\ got' = slot /\ slot' = NoField
          /\ UNCHANGED <<tries, nFields>>
     ELSE tries' = tries - 1 /\ UNCHANGED <<pc, nFields, slot, got>>
  /\ UNCHANGED <<chipMode, regs, service, mode, opMode, dataOf,
                 configFailed, passFailed>>

ReadField ==
  /\ pc = "field"
  /\ IF slot # NoField
     THEN /\ pc' = "settings" /\ got' = slot /\ slot' = NoField
          /\ UNCHANGED <<tries, nFields>>
     ELSE /\ tries' = tries - 1
          /\ IF tries' = 0 THEN NoData ELSE UNCHANGED <<pc, nFields>>
          /\ UNCHANGED <<slot, got>>
  /\ UNCHANGED <<chipMode, regs, service, mode, opMode, dataOf,
                 configFailed, passFailed>>

ReadFieldFails ==
  /\ pc = "field" /\ NoData
  /\ slot' \in {slot, NoField}
  /\ passFailed' = TRUE
  /\ UNCHANGED <<chipMode, regs, service, mode, opMode, tries, got, dataOf,
                 configFailed>>

ReadSettings ==
  /\ pc = "settings" /\ pc' = "ready"
  /\ nFields' = 1 /\ dataOf' = got
  /\ UNCHANGED <<chip, service, mode, opMode, tries, got, configFailed, passFailed>>

ReadSettingsFails ==
  /\ pc = "settings" /\ NoData
  /\ passFailed' = TRUE
  /\ UNCHANGED <<chip, service, mode, opMode, tries, got, dataOf, configFailed>>

-----------------------------------------------------------------------------
Next ==
  \/ MeasureForced \/ MeasureParallel
  \/ Bme688Init \/ SetModeParallel
  \/ GetConf \/ GetOpMode \/ ConfSleep \/ ConfRead \/ ConfWrite \/ Restore
  \/ HeaterSleep \/ SetShared \/ SetResHeat \/ SetResHeat2
  \/ SetGasWait \/ SetGasWait2 \/ CtrlRead \/ CtrlWrite \/ Switch
  \/ ServicePass \/ SampleFetch \/ Trigger \/ WaitForMeasure
  \/ ReadField \/ ReadFieldFails \/ ReadSettings \/ ReadSettingsFails

Spec == Init /\ [][Next]_vars

-----------------------------------------------------------------------------
(* Properties                                                              *)

\* "Configure only in the sleep mode" (bme68x_set_conf): a register is never
\* written while the sensor measures, whatever transfer failed before.
ConfigureOnlyAsleep ==
  [][\A a \in Addresses : regs'[a] # regs[a] /\ regs'[a] # Old =>
       chipMode = "sleep"]_vars

\* The states in which a configuration is not being applied.
Applied == pc \in {"ready", "trigger", "wait", "field", "settings"}

\* The registers of a configuration.  In a profile of more than five steps
\* those of the sixth and the shared duration do not get their values: see
\* AsDocumented.
AskedRegs(j) ==
  {CtrlHum} \union
    (IF j.op = "sleep" THEN {} ELSE
       ResHeat0..ResHeat0 + HeaterLen(j) - 1
         \union GasWait0..GasWait0 + HeaterLen(j) - 1 \union {CtrlGas}
         \union (IF j.op = "parallel" THEN {SharedDur} ELSE {}))

LostRegs(j) ==
  IF Long(j) THEN {ResHeat0 + PairsInBurst, GasWait0 + PairsInBurst, SharedDur}
             ELSE {}

AskedModes(j) ==
  IF j.op = "forced" THEN {"forced", "sleep"} ELSE {j.op}

\* If no transfer of a configuration failed, the sensor keeps it until the
\* next one is asked for: mode and registers (set_conf, bme688_set_mode).
ConfigurationHolds ==
  Applied /\ ~configFailed =>
    /\ chipMode \in AskedModes(job)
    /\ \A a \in AskedRegs(job) \ LostRegs(job) : regs[a] = a

\* The sensor is read the way of the mode it was last told to take, by the
\* driver as by the service, even if the telling failed.
ReadAsAsked ==
  pc \in {"wait", "field", "settings"} =>
    mode = job.op /\ (user = "bsec2" => bme688Mode = job.op)

\* A pass in forced mode in which nothing fails brings exactly one field, and
\* it was measured with the configuration of this very pass, never one left
\* over from a pass that failed (bme688_data_get).
ForcedPassDelivers ==
  [][(mode = "forced" /\ pc \in {"field", "settings"} /\ pc' = "ready"
        /\ ~configFailed /\ ~passFailed') =>
       nFields' = 1 /\ dataOf' = "asked"]_vars

\* "This API writes the given data to the register address of the sensor"
\* (bme68x_set_regs): after a configuration in which no transfer failed, its
\* registers hold its values.  Not so for profiles of more than five steps.
AsDocumented ==
  Applied /\ ~configFailed =>
    \A a \in AskedRegs(job) : regs[a] = a
=============================================================================
