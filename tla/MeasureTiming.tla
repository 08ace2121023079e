---------------------------- MODULE MeasureTiming ----------------------------
(***************************************************************************)
(* How long the BME688 measures and how long the driver waits for it.  The *)
(* driver (bme688.c) waits by what it asked for, kept in conf and          *)
(* heatr_conf; the sensor measures by its registers, which hold durations  *)
(* as a value of six bits and a factor of two (bme68x.c).  Bme688Driver    *)
(* assumes that the wait is long enough; here is why.                      *)
(*                                                                         *)
(* An action is a call with all its transfers; any of them may fail, and   *)
(* one that fails may have reached the sensor.                             *)
(***************************************************************************)
EXTENDS Integers

CONSTANTS
  Oversamplings,   \* what os_temp, os_pres and os_hum may be asked for
  Durations,       \* heater durations in ms of the forced mode
  Multipliers      \* durations of a parallel profile, in steps

Byte == 0..255
Word == 0..65535

TimingAssumption ==
  /\ Oversamplings \subseteq [temp : Byte, pres : Byte, hum : Byte]
  /\ Durations \subseteq Word /\ Multipliers \subseteq Word

ASSUME TimingAssumption

VARIABLES
  \* the sensor
  chipOs,         \* oversampling registers
  gasWait0,       \* BME68X_REG_GAS_WAIT0
  sharedReg,      \* BME68X_REG_SHD_HEATR_DUR
  \* the driver
  conf,           \* conf: os_temp, os_pres, os_hum
  heatrDur,       \* heatr_conf.heatr_dur
  sharedDur,      \* heatr_conf.shared_heatr_dur
  mode,           \* mode
  pc, job,        \* the call that comes next, the configuration asked for
  \* history
  confInDoubt,    \* the last bme68x_set_conf failed, or nothing is known yet
  heaterInDoubt   \* the last bme68x_set_heatr_conf failed, likewise

sensor == <<chipOs, gasWait0, sharedReg>>
heater == <<gasWait0, sharedReg, heatrDur, sharedDur, heaterInDoubt>>
vars == <<sensor, conf, heatrDur, sharedDur, mode, pc, job, confInDoubt,
          heaterInDoubt>>

-----------------------------------------------------------------------------
(* bme68x_get_meas_dur, in us                                              *)

\* boundary_check: above BME68X_OS_16X is as much as that.
Cap(os) == IF os > 5 THEN 5 ELSE os

Capped(o) == [temp |-> Cap(o.temp), pres |-> Cap(o.pres), hum |-> Cap(o.hum)]

\* os_to_meas_cycles.
Cycles(os) ==
  IF os <= 2 THEN os ELSE IF os = 3 THEN 4 ELSE IF os = 4 THEN 8 ELSE 16

MeasDur(op, o) ==
  (Cycles(Cap(o.temp)) + Cycles(Cap(o.pres)) + Cycles(Cap(o.hum))) * 1963
    + 477 * 4 + 477 * 5 + (IF op = "parallel" THEN 0 ELSE 1000)

-----------------------------------------------------------------------------
(* calc_gas_wait and calc_heatr_dur_shared                                 *)

\* The loop of both: a quarter until it fits, 64 more for each time.
Encode(dur) ==
  IF dur <= 63 THEN dur
  ELSE IF dur \div 4 <= 63 THEN dur \div 4 + 64
  ELSE IF dur \div 16 <= 63 THEN dur \div 16 + 2 * 64
  ELSE dur \div 64 + 3 * 64

\* What the sensor makes of it.
Factor(code) ==
  IF code < 64 THEN 1 ELSE IF code < 128 THEN 4 ELSE IF code < 192 THEN 16 ELSE 64

Decode(code) == (code % 64) * Factor(code)

\* MUTANT of GasWait: no maximum, the result is cut to a byte.
GasWaitUnlimited(dur) == Encode(dur) % 256

\* In ms.
GasWait(dur) == IF dur >= 4032 THEN 255 ELSE Encode(dur)

\* In steps of 0.477 ms.
SharedCode(dur) == IF dur >= 1923 THEN 255 ELSE Encode((dur * 1000) \div 477)

-----------------------------------------------------------------------------
(* The calls                                                               *)

Modes == {"sleep", "forced", "parallel"}

\* inService: asked for by set_conf of the service; long: more than five steps;
\* first, sixth: the waits of these steps.
Jobs == [op : Modes, os : [temp : Byte, pres : Byte, hum : Byte], dur : Word,
         long : BOOLEAN, first : Word, sixth : Word, inService : BOOLEAN]

TypeOK ==
  /\ chipOs \in [temp : 0..5, pres : 0..5, hum : 0..5]
  /\ gasWait0 \in Byte /\ sharedReg \in Byte
  /\ conf \in [temp : Byte, pres : Byte, hum : Byte]
  /\ heatrDur \in Word /\ sharedDur \in 0..140
  /\ mode \in Modes /\ pc \in {"ready", "conf", "heater", "switch"}
  /\ job \in Jobs
  /\ confInDoubt \in BOOLEAN /\ heaterInDoubt \in BOOLEAN

\* bme688_set_mode_forced: 16x humidity, 1x pressure, 2x temperature, 100 ms.
DefaultForced ==
  [op |-> "forced", os |-> [temp |-> 2, pres |-> 1, hum |-> 5], dur |-> 100,
   long |-> FALSE, first |-> 5, sixth |-> 5, inService |-> FALSE]

\* bme688_set_mode_parallel: 1x humidity, 16x pressure, 2x temperature and the
\* ten steps of mul_prof.
DefaultParallel ==
  [op |-> "parallel", os |-> [temp |-> 2, pres |-> 5, hum |-> 1], dur |-> 100,
   long |-> TRUE, first |-> 5, sixth |-> 5, inService |-> FALSE]

\* The registers are what an earlier run left; bme688_init comes first.
Init ==
  /\ chipOs \in {[temp |-> n, pres |-> n, hum |-> n] : n \in {0, 5}}
  /\ gasWait0 \in {0, 255} /\ sharedReg \in {0, 255}
  /\ conf = [temp |-> 0, pres |-> 0, hum |-> 0] /\ heatrDur = 0 /\ sharedDur = 0
  /\ mode = "forced" /\ pc = "conf" /\ job = DefaultForced
  /\ confInDoubt = TRUE /\ heaterInDoubt = TRUE

Ask(j) ==
  /\ pc = "ready" /\ pc' = "conf" /\ job' = j
  /\ mode' = IF j.inService THEN mode ELSE j.op
  /\ UNCHANGED <<conf, heatrDur, sharedDur>>

\* bme688_init once more: a soft reset, which may fail, and the default mode.
Bme688Init ==
  /\ Ask(DefaultForced)
  /\ \/ UNCHANGED <<sensor, confInDoubt, heaterInDoubt>>
     \/ /\ chipOs' = [temp |-> 0, pres |-> 0, hum |-> 0]
        /\ gasWait0' = 0 /\ sharedReg' = 0
        /\ confInDoubt' = TRUE /\ heaterInDoubt' = TRUE

\* bme688_set_mode_default_conf(bme688_mode_parallel).
SetModeParallel ==
  Ask(DefaultParallel) /\ UNCHANGED <<sensor, confInDoubt, heaterInDoubt>>

FromBsec(op, o, dur, long, first, sixth) ==
  [op |-> op, os |-> o, dur |-> dur, long |-> long, first |-> first,
   sixth |-> sixth, inService |-> TRUE]

\* set_conf with what BSEC2 asks for.
ServiceConf ==
  /\ \E o \in Oversamplings :
       \/ Ask(FromBsec("sleep", o, 0, FALSE, 0, 0))
       \/ \E dur \in Durations : Ask(FromBsec("forced", o, dur, FALSE, 0, 0))
       \/ \E first, sixth \in Multipliers, long \in BOOLEAN :
            Ask(FromBsec("parallel", o, 0, long, first, sixth))
  /\ UNCHANGED <<sensor, confInDoubt, heaterInDoubt>>

\* bme68x_set_conf.
Sets(o) ==
  /\ conf' = o
  /\ \/ chipOs' = Capped(o) /\ confInDoubt' = FALSE
     \/ chipOs' \in {chipOs, Capped(o)} /\ confInDoubt' = TRUE

\* MUTANT of SetConf: bme688_set_oversampling takes the values into conf before
\* it knows whether the current ones could be read.
SetConfEarly ==
  /\ pc = "conf" /\ pc' = "heater"
  /\ \/ Sets(job.os)
     \/ job.inService /\ conf' = job.os /\ UNCHANGED <<chipOs, confInDoubt>>
  /\ UNCHANGED <<heater, mode, job>>

\* bme688_set_oversampling of the service does nothing if bme68x_get_conf
\* fails; the default modes call bme68x_set_conf at once.
SetConf ==
  /\ pc = "conf" /\ pc' = "heater"
  /\ \/ Sets(job.os)
     \/ job.inService /\ UNCHANGED <<conf, chipOs, confInDoubt>>
  /\ UNCHANGED <<heater, mode, job>>

AfterHeater == IF job.inService THEN "switch" ELSE "ready"

\* bme688_set_heater_config and bme68x_set_heatr_conf, which knows three modes.
SetHeaterForced ==
  /\ pc = "heater" /\ job.op = "forced" /\ pc' = AfterHeater
  /\ heatrDur' = job.dur
  /\ \/ gasWait0' = GasWait(job.dur) /\ heaterInDoubt' = FALSE
     \/ gasWait0' \in {gasWait0, GasWait(job.dur)} /\ heaterInDoubt' = TRUE
  /\ UNCHANGED <<chipOs, sharedReg, conf, sharedDur, mode, job, confInDoubt>>

\* The shared duration is what the measurement leaves of 140 ms.  The waits are
\* multiples of it, cut to a byte.  With more than five steps the sixth lands
\* in the register of the shared duration (see SecondBurst of Bme688Driver).
SetHeaterParallel ==
  /\ pc = "heater" /\ job.op = "parallel" /\ pc' = AfterHeater
  /\ sharedDur' = 140 - MeasDur("parallel", conf) \div 1000
  /\ LET code  == SharedCode(sharedDur')
         first == job.first % 256
         left  == IF job.long THEN job.sixth % 256 ELSE code
     IN  \/ gasWait0' = first /\ sharedReg' = left /\ heaterInDoubt' = FALSE
         \/ /\ gasWait0' \in {gasWait0, first} /\ sharedReg' \in {sharedReg, code, left}
            /\ heaterInDoubt' = TRUE
  /\ UNCHANGED <<chipOs, conf, heatrDur, mode, job, confInDoubt>>

\* There is nothing to heat in sleep mode.
SetHeaterNot ==
  /\ pc = "heater" /\ job.op = "sleep" /\ pc' = AfterHeater
  /\ UNCHANGED <<sensor, conf, heatrDur, sharedDur, mode, job, confInDoubt,
                 heaterInDoubt>>

\* bme688_set_mode, at the end of set_conf.
Switch ==
  /\ pc = "switch" /\ pc' = "ready"
  /\ mode' = job.op
  /\ UNCHANGED <<sensor, conf, heatrDur, sharedDur, job, confInDoubt, heaterInDoubt>>

Next ==
  \/ Bme688Init \/ SetModeParallel \/ ServiceConf
  \/ SetConf
  \/ SetHeaterForced \/ SetHeaterParallel \/ SetHeaterNot
  \/ Switch

Spec == Init /\ [][Next]_vars

-----------------------------------------------------------------------------
(* Waiting: bme688_wait_for_measure, in us                                 *)

WaitForForced   == MeasDur("forced", conf) + heatrDur * 1000
WaitForParallel == MeasDur("parallel", conf) + sharedDur * 1000

\* What the sensor takes, by its registers: a forced measurement, and a step of
\* the parallel mode.
ForcedTakes == MeasDur("forced", chipOs) + Decode(gasWait0) * 1000
StepTakes   == MeasDur("parallel", chipOs) + Decode(sharedReg) * 477

-----------------------------------------------------------------------------
(* Properties.                                                             *)

\* Between the calls, after a configuration none of whose parts is in doubt.
Settled == pc = "ready" /\ ~confInDoubt /\ ~heaterInDoubt

\* The driver never reads before the measurement is over, whatever oversampling
\* and durations are asked for in whatever order and whichever calls have
\* failed in between: the wait covers a forced measurement, and a step of a
\* parallel profile of up to five steps.
WaitCoversMeasurement ==
  Settled =>
    /\ mode = "forced" => ForcedTakes <= WaitForForced
    /\ mode = "parallel" /\ ~job.long => StepTakes <= WaitForParallel

\* Little is lost in the registers: in forced mode the heater is on for what is
\* asked, or the longest there is, less a sixteenth; a parallel step takes the
\* 140 ms of BSEC_TOTAL_HEAT_DUR, at most a millisecond more and eight less.
HeatsAsAsked ==
  Settled =>
    /\ mode = "forced" =>
         LET most == IF heatrDur > 4032 THEN 4032 ELSE heatrDur
         IN  16 * Decode(gasWait0) >= 15 * most
    /\ mode = "parallel" /\ ~job.long => StepTakes > 132000 /\ StepTakes < 141000

\* What these rest on: what is not in doubt agrees.
ModeInv == pc = "ready" \/ ~job.inService => mode = job.op

ConfInv == ~confInDoubt => chipOs = Capped(conf)

HeaterInv ==
  pc \in {"switch", "ready"} /\ ~heaterInDoubt =>
    /\ job.op = "forced" => gasWait0 = GasWait(heatrDur)
    /\ job.op = "parallel" =>
         /\ sharedDur = 140 - MeasDur("parallel", conf) \div 1000
         /\ ~job.long => sharedReg = SharedCode(sharedDur)

TimingInv == ModeInv /\ ConfInv /\ HeaterInv
=============================================================================
