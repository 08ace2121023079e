------------------------- MODULE MeasureTimingProofs -------------------------
(***************************************************************************)
(* The wait covers the measurement and little more, for any oversampling   *)
(* and durations, and the encodings are what the code's loop makes.        *)
(***************************************************************************)
EXTENDS MeasureTiming, TLAPS

Oversampling == [temp : Byte, pres : Byte, hum : Byte]

-----------------------------------------------------------------------------
(* The encodings                                                           *)

\* A quarter, a sixteenth and a sixty-fourth of what is larger than 63 loses
\* less than a sixteenth of it.
LEMMA Quarters ==
  ASSUME NEW d \in Nat, d <= 4095
  PROVE  /\ d > 63 => 4 * (d \div 4) <= d /\ 64 * (d \div 4) >= 15 * d
         /\ d > 255 => 16 * (d \div 16) <= d /\ 256 * (d \div 16) >= 15 * d
         /\ d > 1023 => 64 * (d \div 64) <= d /\ 1024 * (d \div 64) >= 15 * d
         /\ d \div 64 <= 63
OBVIOUS

\* What is encoded is a byte, and decoded it is at most what was encoded and
\* at least fifteen sixteenths of it.
LEMMA EncodeBounds ==
  ASSUME NEW d \in Nat, d <= 4095
  PROVE  /\ Encode(d) \in Byte
         /\ Decode(Encode(d)) \in Nat
         /\ Decode(Encode(d)) <= d
         /\ 16 * Decode(Encode(d)) >= 15 * d
<1>1. CASE d <= 63
  <2>1. Encode(d) = d /\ d % 64 = d /\ Factor(d) = 1
    BY <1>1 DEF Encode, Factor
  <2> QED
    BY <1>1, <2>1 DEF Decode, Byte
<1>2. CASE d > 63 /\ d \div 4 <= 63
  <2> DEFINE q == d \div 4
  <2>1. q \in 0..63 /\ Encode(d) = q + 64
    BY <1>2 DEF Encode
  <2>2. (q + 64) % 64 = q /\ Factor(q + 64) = 4
    BY <2>1 DEF Factor
  <2>3. Encode(d) % 64 = q /\ Factor(Encode(d)) = 4
    BY <2>1, <2>2
  <2>4. Decode(Encode(d)) = q * 4
    BY <2>3 DEF Decode
  <2> QED
    BY <1>2, <2>1, <2>4, Quarters DEF Byte
<1>3. CASE d \div 4 > 63 /\ d \div 16 <= 63
  <2> DEFINE q == d \div 16
  <2>0. d > 255
    BY <1>3
  <2>1. q \in 0..63 /\ Encode(d) = q + 128
    BY <1>3, <2>0 DEF Encode
  <2>2. (q + 128) % 64 = q /\ Factor(q + 128) = 16
    BY <2>1 DEF Factor
  <2>3. Encode(d) % 64 = q /\ Factor(Encode(d)) = 16
    BY <2>1, <2>2
  <2>4. Decode(Encode(d)) = q * 16
    BY <2>3 DEF Decode
  <2> QED
    BY <2>0, <2>1, <2>4, Quarters DEF Byte
<1>4. CASE d \div 16 > 63
  <2> DEFINE q == d \div 64
  <2>0. d > 1023
    BY <1>4
  <2>1. q \in 0..63 /\ Encode(d) = q + 192
    BY <1>4, <2>0, Quarters DEF Encode
  <2>2. (q + 192) % 64 = q /\ Factor(q + 192) = 64
    BY <2>1 DEF Factor
  <2>3. Encode(d) % 64 = q /\ Factor(Encode(d)) = 64
    BY <2>1, <2>2
  <2>4. Decode(Encode(d)) = q * 64
    BY <2>3 DEF Decode
  <2> QED
    BY <2>0, <2>1, <2>4, Quarters DEF Byte
<1> QED
  BY <1>1, <1>2, <1>3, <1>4

\* Shifting twice by two is shifting by four, and so on.
LEMMA ShiftAgain ==
  ASSUME NEW d \in Nat
  PROVE  /\ (d \div 4) \div 4 = d \div 16
         /\ (d \div 16) \div 4 = d \div 64
OBVIOUS

\* The loop of calc_gas_wait and calc_heatr_dur_shared with all its turns: it
\* starts from d, takes a quarter as long as there are more than six bits, and
\* ends after k turns with a code of that many times 64 more.
LoopGives(d, code) ==
  \E k \in 0..3 : \E dur \in [0..3 -> Nat] :
    /\ dur[0] = d
    /\ \A i \in 0..2 : dur[i + 1] = dur[i] \div 4
    /\ \A i \in 0..3 : i < k => dur[i] > 63
    /\ dur[k] <= 63
    /\ code = dur[k] + 64 * k

\* Encode is what the loop gives, in at most three turns, for whatever passes
\* the limits of the two functions; so the factor never spills into a ninth
\* bit.
THEOREM LoopEncodes ==
  ASSUME NEW d \in Nat, d <= 4095
  PROVE  LoopGives(d, Encode(d)) /\ Encode(d) \in Byte
<1> DEFINE dur == [i \in 0..3 |-> IF i = 0 THEN d ELSE IF i = 1 THEN d \div 4
                                  ELSE IF i = 2 THEN d \div 16 ELSE d \div 64]
<1>1. /\ d \div 4 \in Nat /\ d \div 16 \in Nat /\ d \div 64 \in Nat
      /\ (d \div 4) \div 4 = d \div 16 /\ (d \div 16) \div 4 = d \div 64
  BY ShiftAgain
<1>2. /\ dur \in [0..3 -> Nat]
      /\ dur[0] = d /\ dur[1] = d \div 4 /\ dur[2] = d \div 16 /\ dur[3] = d \div 64
  BY <1>1
<1> HIDE DEF dur
<1>3. \A i \in 0..2 : dur[i + 1] = dur[i] \div 4
  <2>1. dur[0 + 1] = dur[0] \div 4 /\ dur[1 + 1] = dur[1] \div 4
        /\ dur[2 + 1] = dur[2] \div 4
    BY <1>1, <1>2
  <2> QED
    BY <2>1
<1>4. \E k \in 0..3 : /\ \A i \in 0..3 : i < k => dur[i] > 63
                      /\ dur[k] <= 63
                      /\ Encode(d) = dur[k] + 64 * k
  <2>1. CASE d <= 63
    <3>1. Encode(d) = dur[0] + 64 * 0 /\ dur[0] <= 63
      BY <1>2, <2>1 DEF Encode
    <3> QED
      BY <3>1
  <2>2. CASE d > 63 /\ d \div 4 <= 63
    <3>1. Encode(d) = dur[1] + 64 * 1 /\ dur[1] <= 63 /\ dur[0] > 63
      BY <1>2, <2>2 DEF Encode
    <3> QED
      BY <3>1
  <2>3. CASE d \div 4 > 63 /\ d \div 16 <= 63
    <3>1. /\ Encode(d) = dur[2] + 64 * 2 /\ dur[2] <= 63
          /\ dur[0] > 63 /\ dur[1] > 63
      BY <1>2, <2>3 DEF Encode
    <3> QED
      BY <3>1
  <2>4. CASE d \div 16 > 63
    <3>1. /\ Encode(d) = dur[3] + 64 * 3 /\ dur[3] <= 63
          /\ dur[0] > 63 /\ dur[1] > 63 /\ dur[2] > 63
      BY <1>2, <2>4 DEF Encode
    <3> QED
      BY <3>1
  <2> QED
    BY <2>1, <2>2, <2>3, <2>4
<1>5. LoopGives(d, Encode(d))
  BY <1>2, <1>3, <1>4 DEF LoopGives
<1> QED
  BY <1>5, EncodeBounds

\* A word is a natural number below 2^16.
LEMMA WordBounds ==
  ASSUME NEW d \in Word
  PROVE  d \in Nat /\ d <= 65535
BY SMT DEF Word

\* A gas wait is a byte, no longer than asked and at least fifteen sixteenths of
\* that or of the longest there is.
LEMMA GasWaitBounds ==
  ASSUME NEW dur \in Word
  PROVE  /\ GasWait(dur) \in Byte
         /\ Decode(GasWait(dur)) \in Nat
         /\ Decode(GasWait(dur)) <= dur
         /\ 16 * Decode(GasWait(dur)) >= 15 * (IF dur > 4032 THEN 4032 ELSE dur)
<1>1. CASE dur >= 4032
  <2>1. GasWait(dur) = 255 /\ Decode(255) = 4032
    BY <1>1 DEF GasWait, Decode, Factor
  <2> QED
    BY <1>1, <2>1, WordBounds DEF Byte
<1>2. CASE dur < 4032
  <2>1. GasWait(dur) = Encode(dur) /\ dur \in Nat /\ dur <= 4095
    BY <1>2, WordBounds DEF GasWait
  <2> QED
    BY <1>2, <2>1, EncodeBounds
<1> QED
  BY <1>1, <1>2, WordBounds

-----------------------------------------------------------------------------
(* The duration of a measurement                                           *)

\* A TPH measurement takes 4 to 99 ms, and no longer or shorter if the
\* oversampling has been capped before.
LEMMA MeasDurBounds ==
  ASSUME NEW o \in Oversampling
  PROVE  /\ MeasDur("parallel", o) \in Nat
         /\ 4293 <= MeasDur("parallel", o) /\ MeasDur("parallel", o) <= 98517
         /\ MeasDur("forced", o) = MeasDur("parallel", o) + 1000
         /\ Capped(o) \in [temp : 0..5, pres : 0..5, hum : 0..5]
         /\ \A op : MeasDur(op, Capped(o)) = MeasDur(op, o)
<1>1. \A os \in Byte : Cap(os) \in 0..5 /\ Cap(Cap(os)) = Cap(os)
                       /\ Cycles(Cap(os)) \in 0..16
  BY DEF Cap, Cycles, Byte
<1>2. /\ o.temp \in Byte /\ o.pres \in Byte /\ o.hum \in Byte
      /\ Capped(o).temp = Cap(o.temp) /\ Capped(o).pres = Cap(o.pres)
      /\ Capped(o).hum = Cap(o.hum)
  BY DEF Oversampling, Capped
<1>3. Capped(o) \in [temp : 0..5, pres : 0..5, hum : 0..5]
  BY <1>1, <1>2 DEF Capped
<1>4. \A op : MeasDur(op, Capped(o)) = MeasDur(op, o)
  BY <1>1, <1>2 DEF MeasDur
<1>5. Cycles(Cap(o.temp)) \in 0..16 /\ Cycles(Cap(o.pres)) \in 0..16
      /\ Cycles(Cap(o.hum)) \in 0..16
  BY <1>1, <1>2
<1>6. MeasDur("parallel", o) \in Nat
      /\ 4293 <= MeasDur("parallel", o) /\ MeasDur("parallel", o) <= 98517
      /\ MeasDur("forced", o) = MeasDur("parallel", o) + 1000
  <2>1. MeasDur("parallel", o)
          = (Cycles(Cap(o.temp)) + Cycles(Cap(o.pres)) + Cycles(Cap(o.hum))) * 1963 + 4293
    BY <1>5, SMT DEF MeasDur
  <2>2. MeasDur("forced", o)
          = (Cycles(Cap(o.temp)) + Cycles(Cap(o.pres)) + Cycles(Cap(o.hum))) * 1963 + 5293
    BY <1>5, SMT DEF MeasDur
  <2> QED
    BY <1>5, <2>1, <2>2, SMT
<1> QED
  BY <1>3, <1>4, <1>6

\* What is left of 140 ms: never nothing, and with the measurement between 132
\* and 141 ms, however it is encoded.
LEMMA StepBounds ==
  ASSUME NEW m \in Nat, 4293 <= m, m <= 98517,
         NEW s \in Int, s = 140 - m \div 1000
  PROVE  /\ s \in 42..136
         /\ SharedCode(s) \in Byte
         /\ m + Decode(SharedCode(s)) * 477 <= m + s * 1000
         /\ m + Decode(SharedCode(s)) * 477 > 132000
         /\ m + Decode(SharedCode(s)) * 477 < 141000
<1> DEFINE u == (s * 1000) \div 477
           c == Decode(Encode(u))
<1>0. m \div 1000 \in 4..98 /\ 1000 * (m \div 1000) <= m
      /\ m < 1000 * (m \div 1000) + 1000
  BY SMT
<1>1. s \in 42..136 /\ m + s * 1000 >= 140000 /\ m + s * 1000 < 141000
  BY <1>0, SMT
<1>2. u \in 64..285 /\ 477 * u <= s * 1000 /\ 477 * u > s * 1000 - 477
  BY <1>1, SMT
<1>3. SharedCode(s) = Encode(u)
  BY <1>1 DEF SharedCode
<1>4. Encode(u) \in Byte /\ c \in Nat /\ c <= u
  BY <1>2, EncodeBounds
<1>5. c >= u - 15
  <2> HIDE DEF u
  <2>1. CASE u <= 255
    <3> DEFINE q == u \div 4
    <3>1. q \in 16..63 /\ 4 * q >= u - 3
      BY <1>2, <2>1
    <3>2. Encode(u) = q + 64
      BY <1>2, <2>1 DEF Encode
    <3>3. Encode(u) % 64 = q /\ Factor(Encode(u)) = 4
      BY <3>1, <3>2 DEF Factor
    <3>4. c = q * 4
      BY <3>3 DEF Decode
    <3> QED
      BY <1>2, <3>1, <3>4
  <2>2. CASE u > 255
    <3> DEFINE q == u \div 16
    <3>1. q \in 16..17 /\ 16 * q >= u - 15
      BY <1>2, <2>2
    <3>2. Encode(u) = q + 128
      BY <1>2, <2>2 DEF Encode
    <3>3. Encode(u) % 64 = q /\ Factor(Encode(u)) = 16
      BY <3>1, <3>2 DEF Factor
    <3>4. c = q * 16
      BY <3>3 DEF Decode
    <3> QED
      BY <1>2, <3>1, <3>4
  <2> QED
    BY <1>2, <2>1, <2>2
<1> HIDE DEF u, c
<1> QED
  <2>1. Decode(SharedCode(s)) = c /\ SharedCode(s) \in Byte
    BY <1>3, <1>4 DEF c
  <2> QED
    BY <1>1, <1>2, <1>4, <1>5, <2>1

-----------------------------------------------------------------------------
(* Types and agreement                                                     *)

\* What a configuration may ask for.
LEMMA JobTypes ==
  /\ DefaultForced \in Jobs /\ DefaultParallel \in Jobs
  /\ \A o \in Oversamplings, dur \in Durations :
       FromBsec("forced", o, dur, FALSE, 0, 0) \in Jobs
  /\ \A o \in Oversamplings, first, sixth \in Multipliers, long \in BOOLEAN :
       FromBsec("parallel", o, 0, long, first, sixth) \in Jobs
  /\ \A o \in Oversamplings : FromBsec("sleep", o, 0, FALSE, 0, 0) \in Jobs
<1>1. 0 \in Word /\ 5 \in Word /\ 100 \in Word
  BY SMT DEF Word
<1>2. {1, 2, 5} \subseteq Byte
  BY DEF Byte
<1>3. DefaultForced \in Jobs /\ DefaultParallel \in Jobs
  BY <1>1, <1>2 DEF DefaultForced, DefaultParallel, Jobs, Modes
<1>4. /\ Oversamplings \subseteq [temp : Byte, pres : Byte, hum : Byte]
      /\ Durations \subseteq Word /\ Multipliers \subseteq Word
  BY TimingAssumption DEF TimingAssumption
<1>5. ASSUME NEW o \in Oversamplings
      PROVE  /\ FromBsec("sleep", o, 0, FALSE, 0, 0) \in Jobs
             /\ \A dur \in Durations : FromBsec("forced", o, dur, FALSE, 0, 0) \in Jobs
             /\ \A first, sixth \in Multipliers, long \in BOOLEAN :
                  FromBsec("parallel", o, 0, long, first, sixth) \in Jobs
  BY <1>1, <1>4, <1>5 DEF FromBsec, Jobs, Modes
<1> QED
  BY <1>3, <1>5

\* Every configuration that is asked for is one of Jobs.
LEMMA AskedJobs ==
  ASSUME Bme688Init \/ SetModeParallel \/ ServiceConf
  PROVE  job' \in Jobs /\ Ask(job')
<1>1. ASSUME NEW j \in Jobs, Ask(j) PROVE job' \in Jobs /\ Ask(job')
  BY <1>1 DEF Ask
<1>2. CASE Bme688Init \/ SetModeParallel
  BY <1>1, <1>2, JobTypes DEF Bme688Init, SetModeParallel
<1>3. CASE ServiceConf
  <2>1. PICK o \in Oversamplings :
          \/ Ask(FromBsec("sleep", o, 0, FALSE, 0, 0))
          \/ \E dur \in Durations : Ask(FromBsec("forced", o, dur, FALSE, 0, 0))
          \/ \E first, sixth \in Multipliers, long \in BOOLEAN :
               Ask(FromBsec("parallel", o, 0, long, first, sixth))
    BY <1>3 DEF ServiceConf
  <2> QED
    BY <1>1, <2>1, JobTypes
<1> QED
  BY <1>2, <1>3

\* Every variable keeps its type.
THEOREM TypeCorrect == Spec => []TypeOK
<1>0. 0 \in Byte /\ 255 \in Byte /\ 0 \in Word
  <2>1. 0 \in Byte /\ 255 \in Byte
    BY DEF Byte
  <2>2. 0 \in Word
    BY SMT DEF Word
  <2> QED
    BY <2>1, <2>2
<1>1. Init => TypeOK
  BY <1>0, JobTypes DEF Init, TypeOK, Modes
<1>2. TypeOK /\ [Next]_vars => TypeOK'
  <2> SUFFICES ASSUME TypeOK, [Next]_vars
               PROVE TypeOK'
    OBVIOUS
  <2>j. /\ job.op \in Modes /\ job.os \in Oversampling /\ job.dur \in Word
        /\ job.first \in Word /\ job.sixth \in Word
    BY DEF TypeOK, Jobs, Oversampling
  <2>1. CASE Bme688Init \/ SetModeParallel \/ ServiceConf
    <3>1. job' \in Jobs /\ Ask(job')
      BY <2>1, AskedJobs
    <3>2. mode' \in Modes /\ pc' = "conf" /\ UNCHANGED <<conf, heatrDur, sharedDur>>
      BY <3>1 DEF Ask, TypeOK, Jobs
    <3>3. /\ chipOs' \in [temp : 0..5, pres : 0..5, hum : 0..5]
          /\ gasWait0' \in Byte /\ sharedReg' \in Byte
          /\ confInDoubt' \in BOOLEAN /\ heaterInDoubt' \in BOOLEAN
      <4>1. CASE UNCHANGED <<sensor, confInDoubt, heaterInDoubt>>
        BY <4>1 DEF sensor, TypeOK
      <4>2. CASE /\ chipOs' = [temp |-> 0, pres |-> 0, hum |-> 0]
                 /\ gasWait0' = 0 /\ sharedReg' = 0
                 /\ confInDoubt' = TRUE /\ heaterInDoubt' = TRUE
        BY <1>0, <4>2
      <4> QED
        BY <2>1, <4>1, <4>2 DEF Bme688Init, SetModeParallel, ServiceConf
    <3> QED
      BY <3>1, <3>2, <3>3 DEF TypeOK
  <2>2. CASE SetConf
    <3>1. Capped(job.os) \in [temp : 0..5, pres : 0..5, hum : 0..5]
      BY <2>j, MeasDurBounds
    <3>2. /\ chipOs' \in [temp : 0..5, pres : 0..5, hum : 0..5]
          /\ conf' \in [temp : Byte, pres : Byte, hum : Byte]
          /\ confInDoubt' \in BOOLEAN /\ pc' = "heater"
      BY <2>2, <2>j, <3>1 DEF SetConf, Sets, TypeOK, Oversampling
    <3>3. UNCHANGED <<gasWait0, sharedReg, heatrDur, sharedDur, heaterInDoubt, mode, job>>
      BY <2>2 DEF SetConf, heater
    <3> QED
      BY <3>2, <3>3 DEF TypeOK
  <2>3. CASE SetHeaterForced
    <3>1. GasWait(job.dur) \in Byte
      BY <2>j, GasWaitBounds
    <3>2. gasWait0' \in Byte /\ heaterInDoubt' \in BOOLEAN /\ heatrDur' \in Word
          /\ pc' \in {"switch", "ready"}
      BY <2>3, <2>j, <3>1 DEF SetHeaterForced, TypeOK, AfterHeater
    <3>3. UNCHANGED <<chipOs, sharedReg, conf, sharedDur, mode, job, confInDoubt>>
      BY <2>3 DEF SetHeaterForced
    <3> QED
      BY <3>2, <3>3 DEF TypeOK
  <2>4. CASE SetHeaterParallel
    <3>1. sharedDur' \in 42..136 /\ SharedCode(sharedDur') \in Byte
      <4>1. conf \in Oversampling
        BY DEF TypeOK, Oversampling
      <4>2. sharedDur' = 140 - MeasDur("parallel", conf) \div 1000
        BY <2>4 DEF SetHeaterParallel
      <4>3. sharedDur' \in Int
        BY <4>1, <4>2, MeasDurBounds
      <4> QED
        BY <4>1, <4>2, <4>3, MeasDurBounds, StepBounds
    <3>2. job.first % 256 \in Byte /\ job.sixth % 256 \in Byte
      BY <2>j, WordBounds DEF Byte
    <3>3. gasWait0' \in Byte /\ sharedReg' \in Byte /\ heaterInDoubt' \in BOOLEAN
          /\ pc' \in {"switch", "ready"}
      <4> DEFINE code == SharedCode(sharedDur')
                 first == job.first % 256
                 left == IF job.long THEN job.sixth % 256 ELSE code
      <4>1. code \in Byte /\ first \in Byte /\ left \in Byte
        BY <3>1, <3>2
      <4>2. gasWait0 \in Byte /\ sharedReg \in Byte
        BY DEF TypeOK
      <4>3. /\ gasWait0' \in {gasWait0, first} /\ sharedReg' \in {sharedReg, code, left}
            /\ heaterInDoubt' \in BOOLEAN
        BY <2>4 DEF SetHeaterParallel
      <4>4. pc' \in {"switch", "ready"}
        BY <2>4 DEF SetHeaterParallel, AfterHeater
      <4> HIDE DEF code, first, left
      <4> QED
        BY <4>1, <4>2, <4>3, <4>4
    <3>4. UNCHANGED <<chipOs, conf, heatrDur, mode, job, confInDoubt>>
      BY <2>4 DEF SetHeaterParallel
    <3>5. sharedDur' \in 0..140
      BY <3>1
    <3> QED
      BY <3>3, <3>4, <3>5 DEF TypeOK
  <2>5. CASE SetHeaterNot
    BY <2>5 DEF SetHeaterNot, AfterHeater, sensor, TypeOK
  <2>6. CASE Switch
    BY <2>6, <2>j DEF Switch, sensor, TypeOK
  <2>7. CASE UNCHANGED vars
    BY <2>7 DEF vars, sensor, TypeOK
  <2> QED
    BY <2>1, <2>2, <2>3, <2>4, <2>5, <2>6, <2>7 DEF Next
<1> QED
  BY <1>1, <1>2, PTL DEF Spec

\* What is not in doubt agrees: the mode with what was asked for, the registers
\* with what the driver waits by.
LEMMA TimingCorrect == Spec => []TimingInv
<1>1. Init => TimingInv
  BY DEF Init, TimingInv, ModeInv, ConfInv, HeaterInv, DefaultForced
<1>2. TimingInv /\ [Next]_vars => TimingInv'
  <2> SUFFICES ASSUME TimingInv, [Next]_vars
               PROVE TimingInv'
    OBVIOUS
  <2> USE DEF TimingInv, ModeInv, ConfInv, HeaterInv
  <2>1. CASE Bme688Init \/ SetModeParallel \/ ServiceConf
    <3>1. Ask(job')
      BY <2>1, AskedJobs
    <3>2. ModeInv' /\ HeaterInv' /\ conf' = conf
      BY <3>1 DEF Ask
    <3>3. confInDoubt' \/ (chipOs' = chipOs /\ confInDoubt' = confInDoubt)
      BY <2>1 DEF Bme688Init, SetModeParallel, ServiceConf, sensor
    <3> QED
      BY <3>2, <3>3
  <2>2. CASE SetConf
    BY <2>2 DEF SetConf, Sets, heater
  <2>3. CASE SetHeaterForced
    BY <2>3 DEF SetHeaterForced, AfterHeater
  <2>4. CASE SetHeaterParallel
    BY <2>4 DEF SetHeaterParallel, AfterHeater
  <2>5. CASE SetHeaterNot
    BY <2>5 DEF SetHeaterNot, AfterHeater, sensor
  <2>6. CASE Switch
    BY <2>6 DEF Switch, sensor
  <2>7. CASE UNCHANGED vars
    BY <2>7 DEF vars, sensor
  <2> QED
    BY <2>1, <2>2, <2>3, <2>4, <2>5, <2>6, <2>7 DEF Next
<1> QED
  BY <1>1, <1>2, PTL DEF Spec

-----------------------------------------------------------------------------
(* The properties                                                          *)

\* The sensor takes as long for its registers as for what the driver has.
LEMMA SameMeasDur ==
  ASSUME TypeOK, TimingInv, Settled, NEW op
  PROVE  MeasDur(op, chipOs) = MeasDur(op, conf)
<1>1. conf \in Oversampling /\ chipOs = Capped(conf)
  BY DEF TypeOK, Oversampling, TimingInv, ConfInv, Settled
<1> QED
  BY <1>1, MeasDurBounds

\* A settled parallel step, by StepBounds.
LEMMA SettledStep ==
  ASSUME TypeOK, TimingInv, Settled, mode = "parallel", ~job.long
  PROVE  /\ StepTakes <= WaitForParallel
         /\ StepTakes > 132000 /\ StepTakes < 141000
<1> DEFINE m == MeasDur("parallel", conf)
<1>1. conf \in Oversampling /\ sharedDur \in Int
  BY DEF TypeOK, Oversampling
<1>2. job.op = "parallel"
  BY DEF TimingInv, ModeInv, Settled
<1>3. sharedDur = 140 - m \div 1000 /\ sharedReg = SharedCode(sharedDur)
  BY <1>2 DEF TimingInv, HeaterInv, Settled
<1>4. m \in Nat /\ 4293 <= m /\ m <= 98517
  BY <1>1, MeasDurBounds
<1>5. MeasDur("parallel", chipOs) = m
  BY SameMeasDur
<1> HIDE DEF m
<1>6. /\ m + Decode(SharedCode(sharedDur)) * 477 <= m + sharedDur * 1000
      /\ m + Decode(SharedCode(sharedDur)) * 477 > 132000
      /\ m + Decode(SharedCode(sharedDur)) * 477 < 141000
  BY <1>1, <1>3, <1>4, StepBounds
<1>7. /\ StepTakes = m + Decode(SharedCode(sharedDur)) * 477
      /\ WaitForParallel = m + sharedDur * 1000
  BY <1>3, <1>5 DEF StepTakes, WaitForParallel, m
<1> QED
  BY <1>6, <1>7

\* For any oversampling and durations and after any failures, the driver never
\* reads before the measurement it waits for is over.
THEOREM WaitCovers == Spec => []WaitCoversMeasurement
<1>1. TypeOK /\ TimingInv => WaitCoversMeasurement
  <2> SUFFICES ASSUME TypeOK, TimingInv, Settled
               PROVE  /\ mode = "forced" => ForcedTakes <= WaitForForced
                      /\ mode = "parallel" /\ ~job.long => StepTakes <= WaitForParallel
    BY DEF WaitCoversMeasurement
  <2>1. ASSUME mode = "forced" PROVE ForcedTakes <= WaitForForced
    <3> DEFINE m == MeasDur("forced", conf)
    <3>1. gasWait0 = GasWait(heatrDur)
      BY <2>1 DEF TimingInv, ModeInv, HeaterInv, Settled
    <3>2. conf \in Oversampling /\ heatrDur \in Word
      BY DEF TypeOK, Oversampling
    <3>3. m \in Nat
      BY <3>2, MeasDurBounds
    <3>4. Decode(gasWait0) \in Nat /\ Decode(gasWait0) <= heatrDur /\ heatrDur \in Nat
      BY <3>1, <3>2, GasWaitBounds, WordBounds
    <3>5. MeasDur("forced", chipOs) = m
      BY SameMeasDur
    <3> HIDE DEF m
    <3>6. ForcedTakes = m + Decode(gasWait0) * 1000
          /\ WaitForForced = m + heatrDur * 1000
      BY <3>5 DEF ForcedTakes, WaitForForced, m
    <3> QED
      BY <3>3, <3>4, <3>6
  <2> QED
    BY <2>1, SettledStep
<1> QED
  BY <1>1, TypeCorrect, TimingCorrect, PTL

\* For any oversampling and durations, the heater is on for nearly what was asked
\* and a parallel step takes its 140 ms.
THEOREM HeatsLongEnough == Spec => []HeatsAsAsked
<1>1. TypeOK /\ TimingInv => HeatsAsAsked
  <2> SUFFICES ASSUME TypeOK, TimingInv, Settled
               PROVE  HeatsAsAsked
    BY DEF HeatsAsAsked
  <2>1. ASSUME mode = "forced"
        PROVE  16 * Decode(gasWait0) >= 15 * (IF heatrDur > 4032 THEN 4032 ELSE heatrDur)
    <3>1. gasWait0 = GasWait(heatrDur)
      BY <2>1 DEF TimingInv, ModeInv, HeaterInv, Settled
    <3>2. heatrDur \in Word
      BY DEF TypeOK
    <3> QED
      BY <3>1, <3>2, GasWaitBounds
  <2> QED
    BY <2>1, SettledStep DEF HeatsAsAsked
<1> QED
  BY <1>1, TypeCorrect, TimingCorrect, PTL

\* How much longer than the measurement the driver waits: in forced mode at most
\* a sixteenth of the heating, unless that is above the 4032 ms the register
\* can hold, in parallel mode less than nine milliseconds.
WaitsLittleLonger ==
  Settled =>
    /\ mode = "forced" /\ heatrDur <= 4032 =>
         16 * (WaitForForced - ForcedTakes) <= heatrDur * 1000
    /\ mode = "parallel" /\ ~job.long => WaitForParallel - StepTakes < 9000

\* The wait is not only long enough: whatever is asked for in whatever order
\* and whichever calls have failed in between, bme688_wait_for_measure waits
\* little longer than the sensor takes.
THEOREM LittleWaitedInVain == Spec => []WaitsLittleLonger
<1>1. TypeOK /\ TimingInv => WaitsLittleLonger
  <2> SUFFICES ASSUME TypeOK, TimingInv, Settled
               PROVE  WaitsLittleLonger
    BY DEF WaitsLittleLonger
  <2>1. ASSUME mode = "forced", heatrDur <= 4032
        PROVE  16 * (WaitForForced - ForcedTakes) <= heatrDur * 1000
    <3> DEFINE m == MeasDur("forced", conf)
    <3>1. gasWait0 = GasWait(heatrDur)
      BY <2>1 DEF TimingInv, ModeInv, HeaterInv, Settled
    <3>2. conf \in Oversampling /\ heatrDur \in Word
      BY DEF TypeOK, Oversampling
    <3>3. m \in Nat
      BY <3>2, MeasDurBounds
    <3>4. Decode(gasWait0) \in Nat /\ 16 * Decode(gasWait0) >= 15 * heatrDur
          /\ heatrDur \in Nat
      BY <2>1, <3>1, <3>2, GasWaitBounds, WordBounds
    <3>5. MeasDur("forced", chipOs) = m
      BY SameMeasDur
    <3> HIDE DEF m
    <3>6. ForcedTakes = m + Decode(gasWait0) * 1000
          /\ WaitForForced = m + heatrDur * 1000
      BY <3>5 DEF ForcedTakes, WaitForForced, m
    <3> QED
      BY <3>3, <3>4, <3>6
  <2>2. ASSUME mode = "parallel", ~job.long
        PROVE  WaitForParallel - StepTakes < 9000
    <3> DEFINE m == MeasDur("parallel", conf)
    <3>1. StepTakes > 132000
      BY <2>2, SettledStep
    <3>2. job.op = "parallel"
      BY <2>2 DEF TimingInv, ModeInv, Settled
    <3>3. sharedDur = 140 - m \div 1000
      BY <3>2 DEF TimingInv, HeaterInv, Settled
    <3>4. conf \in Oversampling
      BY DEF TypeOK, Oversampling
    <3>5. m \in Nat
      BY <3>4, MeasDurBounds
    <3>6. chipOs \in Oversampling /\ sharedReg \in Byte
      BY DEF TypeOK, Oversampling, Byte
    <3>7. StepTakes \in Int
      BY <3>6, MeasDurBounds DEF StepTakes, Decode, Factor, Byte
    <3>8. WaitForParallel = m + sharedDur * 1000
      BY DEF WaitForParallel
    <3> HIDE DEF m
    <3>9. WaitForParallel \in Int /\ WaitForParallel < 141000
      BY <3>3, <3>5, <3>8
    <3> QED
      BY <3>1, <3>7, <3>9
  <2> QED
    BY <2>1, <2>2 DEF WaitsLittleLonger
<1> QED
  BY <1>1, TypeCorrect, TimingCorrect, PTL
=============================================================================
