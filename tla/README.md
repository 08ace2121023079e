# Formal model of sdk-hsm-thingy53

TLA+ modules, TLC configurations and TLAPS proofs for the firmware SDK of the
Thingy:53 (Zephyr RTOS, C and C++). Paths are relative to the repository.

## 1. The system

One firmware image runs on one core. Its contexts are the main thread, a thread
per service, the system work queue and interrupts; they share static variables,
without locks. A restart (button click, factory reset, power, fatal error) clears
the RAM and keeps the flash.

| Part | State | Operations | Interacts with |
|---|---|---|---|
| Button and restart: `subsys/app_ot` | `pressed`, `booting`, `triggered`, `press_time`, a delayable work item, two callbacks | init, pin interrupt, hold timeout, click (warm reboot), long press (factory reset, cold reboot) | GPIO interrupt, work queue, OpenThread settings |
| Sensor service: `subsys/bme688_server` | `started`, handler, `sensor_config`, pending `user_data`, `next_save_sec`, `measure_count` | start, load state, set configuration, measure and publish, save state | BME688 driver, BSEC2 library, flash storage, the application's handler |
| BSEC2 wrapper: `bsec2/bsec2.cpp` | none of its own | process, subscribe, get and set state | the closed BSEC2 library |
| Flash storage: `subsys/app_flash` | one flash page | erase and write, read | sensor service; loses power or is rebooted at any point |
| UDP broadcast: `subsys/udp_broadcast` | `udp_bcast_started`, `sock` | start on first use, send | called by the main thread and the sensor service |
| JSON endpoint: `subsys/json_endpoint` | `sock`, handler, `recv_buf`, global `request` and `response` | start the socket, receive, parse, handle, reply, set the handler | its own thread, the application's handler, the network |
| LED: `subsys/app_led`, samples' `led_notify_ot_role` | PWM levels | blink a colour, show the Thread role | main thread |
| Battery: `subsys/app_battery` | ADC and divider state | init, measure | main thread |
| BME688 driver: `drivers/sensor/bme688`, vendored `bme68x.c` | operation mode, heater profile, field buffer | init, set mode, fetch, get data | sensor service, I2C |
| BH1749 driver: `drivers/sensor/bh1749` | initialisation step, `ready`, error | asynchronous initialisation chain, fetch | built only for sample 10; the others use the driver of the nRF Connect SDK |
| Applications: `samples/20_sensors_server`, `samples/30_usb_dongle_router` | `uid_text` | start-up order, the publishing loop | everything above |

What is hard here:

* interrupts, the work queue and threads interleave on unprotected variables
  (button, UDP start);
* the reboot of a click can fall between any two steps, in particular between
  the erasing and the writing of the flash page;
* errors of I2C, flash and sockets are mostly logged and then ignored, so the
  next step works on what an earlier one left;
* results arrive one measurement late or grouped, and loss changes the grouping;
* things that are tried once and never again (UDP start, sensor initialisation);
* threads that the kernel starts before `main` has set what they use, and globals
  that one request leaves to the next;
* what the driver believes (`conf`, `heatr_conf`, `mode`) against what the sensor has
  taken, when calls in between have failed.

## 2. Components, what makes them correct

**Button.** `button_interrupt` decides from the pin and three flags whether an
edge is a press or a release; a press schedules `long_press_work`, a release in
time reboots. It is correct if only a contact held for the whole time resets to
factory settings, if a restart always comes from a new press, and if a long press
always ends in the erasing and then in a reboot, under bounce, a late work queue,
a button held through the boot and a start in the middle of all that.

**Saved state.** `save_state` reads the state from the library and rewrites the
page; `load_state` takes it back. Correct: whatever was interrupted, a restart
continues from one whole state, the last a save has completed, or from nothing; a
save that got its state leaves that or nothing, never an older one; a save that
failed is made good by the next; the page wears at the rate the code says; a
restart loop does not endanger it.

**Measurement groups.** The fields of a heater profile are collected into one
JSON object that goes to the handler when the next cycle begins. Correct: each
field is in one group, groups are in order, cycles are not mixed unless fields
were lost, the air quality is of the group.

**UDP broadcast.** The first sender creates and connects the socket; two threads
send. Correct: their race leaves a connected socket.

**BME688 driver.** A configuration is a dozen I2C transfers, any of which may
fail; the callers print the error and go on. Correct: the sensor is configured
only asleep, keeps what it was given, is read the way it was told to measure,
and a forced pass delivers its own measurement. In parallel mode three fields
with a wrapping index become an ordered stream. The driver waits for a
measurement by its own variables and the sensor measures by its registers, which
hold durations in six bits and a factor. Correct: the wait is never too short,
and the heater gets nearly what was asked.

**JSON endpoint.** A thread receives a topic and a JSON object, lets a handler
answer and replies. Buffer, request and response are globals, the handler is set
by another thread, errors are logged, and all exceptions but one are not caught.
Correct: a reply is about one request, to its sender, once; a request that comes
while nothing has failed is answered.

**Sensors server.** `main` starts everything, beside two threads that run already.
Correct: nobody is let into a part before it is ready.

**LED, battery, BH1749.** Not modelled, see section 8.

## 3. Modules

| Module | Models | Extends / used by |
|---|---|---|
| `Button` | `app_button.c`, `app_ot.c` | `MCButton`, `ButtonProofs` |
| `SavedState` | what saving promises (abstract) | instantiated by `BsecStore` |
| `BsecStore` | `load_state`, `save_state`, `app_flash`, restarts | `MCBsecStore`, `BsecStoreProofs` |
| `UdpBroadcast` | `udp_broadcast.cpp` | `MCUdpBroadcast`, `UdpBroadcastProofs` |
| `MeasureGroups` | `bme688_service`, `measure_process`, `processData` | `MCMeasureGroups`, `MeasureGroupsProofs` |
| `Bme688Driver` | configuration and forced reading: `bme688.c`, `bme68x.c`, `set_conf` and loop of the service | `MCBme688Driver`, `Bme688DriverProofs` |
| `FieldStream` | what reading fields promises (abstract) | instantiated by `FieldReader` |
| `FieldReader` | `bme68x_get_data` in parallel mode | `MCFieldReader`, `FieldReaderProofs` |
| `MeasureTiming` | `bme68x_get_meas_dur`, the encodings of durations, the waits: `bme68x.c`, `bme688.c` | `MCMeasureTiming`, `MeasureTimingProofs` |
| `RequestReply` | what the endpoint promises its clients (abstract) | instantiated by `JsonEndpoint` |
| `JsonEndpoint` | `json_endpoint.cpp` | `SensorsServer` |
| `SensorsServer` | `main` of `samples/20_sensors_server`, `start_bme688` and the service loop at the level of calls, with the endpoint | `MCSensorsServer`, `SensorsServerProofs` |

`MC...` modules hold only the values of constants. Operators marked as a bug or
as a mutant (`ReadFieldForever`, `SaveDueEarly`, ...) stand beside the definition
they deform; no specification uses them. They show that the properties notice.

How the modules fit together: `Bme688Driver` says what configuration the sensor
measures with, `FieldReader` that the measurements reach the service as a
`FieldStream` (in order, none twice, some missing), and `MeasureGroups` starts
from exactly such a stream: its `Advance` never repeats or reorders fields, and
its `FieldLost` covers the gaps. `BsecStore` is the same service's other duty.
`Bme688Driver` assumes that its wait covers a forced measurement, if the sensor
has the configuration the wait is computed from; `MeasureTiming` shows it.
`SensorsServer` extends `JsonEndpoint` by the other threads of the application,
which share its start-up and its restarts.

### Button

State: `level`/`settled`/`irq` are the contact and the latched edge; `pressed`,
`booting`, `triggered`, `pressAge` the variables of `app_button.c`; `timer`,
`queued`, `handler`, `canceling` a Zephyr delayable work item; `dataset` the
credentials. Actions: `Edge` (the user, or bounce), `Tick` (time), one action
per statement of `app_ot_init` that matters to an interrupt, the interrupt, the
expiry of the timeout, and the work handler in the steps between which an
interrupt may come. A click reboots at once, in the interrupt. Interrupts and
due timeouts are served before the next tick (microseconds against a tick of
hundreds of milliseconds), the work queue and the main thread lag at will.

### BsecStore

The page is a sequence of words, an erase or a word's write may be cut, reads
may fail, the library may refuse its state. Both `save_state` and `load_state` work
on a buffer they do not initialise. If `bsec2_get_state` fails, the buffer is
saved all the same: `GetStateFails` lets each of its words be of any state taken so
far, in this boot or an earlier one, or of none, so that an older state can be
saved whole over a newer one, or be mixed with what an erase left. If the read
fails, `load_state` may likewise restore any state (`LoadStateReadFails`).
`SavedState` tells the two kinds of saves apart: one whose buffer holds the last
state taken (`saving`) and a `blind` one.

`complete` is a history variable, the last state that was in the page in full;
`failed` speaks of the last save (before the first, of the boot). A restart may
come anywhere. Time is the uptime; `late` bounds how long one pass of the service
loop takes. Assumed: the library accepts a state only whole
(`BSEC_E_CONFIG_CRCMISMATCH`, `bsec_datatypes.h:331`), and a mixture of two states
is not by chance a third; flash is written in parts of a byte or more
(`CONFIG_SOC_FLASH_NRF_EMULATE_ONE_BYTE_WRITE_ACCESS`).

### UdpBroadcast

A step is one access to a global variable or one socket call of one thread. In
the sensors server the threads start far enough apart that the race is unlikely;
nothing in the subsystem prevents it. After `sock = socket(...)` the code reads `sock`
twice more, in `sock < 0` and for `connect`; no call lies between, so each read may
give the global or what the compiler kept in a register (`SockRead`).

### MeasureGroups

A field is its cycle and its index in the heater profile; entries are fields
with the stability mark that is part of their name. One action per outcome of a
field: lost, invalid, valid. The library may refuse a field or be silent.
`iaq_output` is of one field as a whole: that `handle_outputs` sets its members one
by one, and only those the library has an output for, is left out.

### Bme688Driver

A register's value is abstracted to "the value the last configuration has for
register r" or `Old`; a value that lands in a wrong register is thus seen. Each
transfer is an action that succeeds or fails; one that fails may or may not have
reached the sensor. Only `bme68x_set_op_mode` is one step (`SetsOpMode`), although
it reads and writes the mode until the sensor sleeps and then writes the mode asked
for: it succeeds, or fails and leaves the sensor in its old mode, asleep or in the
new one; nothing else uses the bus meanwhile. `chipMode` and `slot` are the sensor, which measures in
between. Three users: forced samples, the parallel service, the BSEC2 service
with any sequence of modes, profile lengths and triggers. Assumed: a forced
measurement is over when the driver has waited for it, if the sensor has the
configuration the wait is computed from (see MeasureTiming). Sequential mode,
which no caller reaches, is left out.

### FieldReader

The sensor writes measurement n to field n mod 3, with the index n mod
`IndexSize`. Reading takes two transfers; each may fail, the first also in the
middle. Then the flags are counted and the fields sorted, with the code's
comparison.

### MeasureTiming

`chipOs`, `gasWait0`, `sharedReg` are registers; `conf`, `heatrDur`, `sharedDur`,
`mode` the variables of `bme688.c`. One action per call (`SetConf`,
`SetHeaterForced`, `SetHeaterParallel`, `Switch`), with all its transfers: it works,
or fails and has reached the sensor or not. `bme688_set_oversampling` may
fail before it touches anything. The order of transfers within a call is the
matter of `Bme688Driver`. `confInDoubt` and `heaterInDoubt` remember that a call
has failed; the properties speak of the states in which none of the last ones has.
Assumed: a measurement takes what `bme68x_get_meas_dur` says for the sensor's own
registers, and a heater register stands for its six bits times its factor, in ms or in
steps of 0.477 ms, as the driver encodes it. The properties leave out profiles of more than five
steps: there the wait of the sixth step lands in the register of the shared
duration (section 7), so that a step is not the 140 ms the driver computes with.
That includes the default parallel mode.

### JsonEndpoint

`fate` is where a datagram is, `pc` which call of `udp_rx_handler` comes next; the
others are the globals of the file and what a turn of the loop keeps. What
parsing makes of a datagram (`Kinds`) is chosen at the start: no map, a
`parse_error`, another exception, an object. Only `parse_error` is caught in
`safe_json_topic_paload_parse`; another exception ends the thread, and so
does the payload of -1 bytes that a failed `recvfrom` leads to when there is a
handler. Sockets, `recvfrom` and `sendto` fail at will. `trouble` remembers a
failure or an exception since the start; it is only there for `Answered`. The
response is named after the request it answers, so the leftover of an earlier one
is seen. Assumed: a datagram is shorter than the buffer, which has the size of
the largest packet on the network (1280 bytes, headers included).

### SensorsServer

`main` and `service` name the call their thread is in. `started`, `bmeHandler`,
`uidSet` are the globals by which the threads agree; `bmeReady` is the outcome of the
kernel's own start of the sensor. The service's loop is here only who calls what; its
data are in the other modules. `Restart` clears the RAM at any point: the click
and the long press of `Button`, a fatal error, the power.

## 4. Runs

| Run | Bounds | Distinct states | Shows |
|---|---|---|---|
| `button` | short press 2 ticks, long press 8 (a tick of 500 ms: 1 s and 4 s as in the code) | 60995 | no factory reset without an unbroken long contact; no restart loop while the button is held; the release of a long press does not cut the erasing; a click is short; a hold leads to the erasing and that to a reboot |
| `button_documented` | same | violation | the documented 3 s are not enough, see section 7 |
| `store_impl` | 2 words, 3 saved states, uptime 6 | 287153 | the store implements `SavedState`, with whatever a failing `bsec2_get_state` leaves to be saved; the inductive invariant holds |
| `store_times` | 1 word, uptime 16, four periods, every fault | 200697 | wear, distance of saves, silence before the first save, age of what is stored, also after saves that failed |
| `udp` | 3 threads | 109928 | at most one start each, a connected socket in the end, failures only while another thread connects |
| `groups_bsec` | profile of 2 steps, 3 cycles | 123789 | order of groups, when they mix cycles, whose air quality they carry |
| `groups_plain` | profile of 3 steps, 3 cycles | 213295 | the variant without BSEC2: mixing only around a loss, no field dropped or doubled |
| `driver` | profiles of 5, 6 and 10 steps | 138844 | no write while the sensor measures, configurations are kept, reading follows the mode, a forced pass delivers its own field |
| `driver_documented` | profiles of 5 and 10 steps | violation | see section 7 |
| `fields` | index of 5 values, 11 measurements | 61231 | the reader implements `FieldStream`; gaps come from overwriting only |
| `timing` | three oversamplings, durations 255, 4031, 65535 | 3334294 | the wait covers the measurement; the heater gets what was asked |
| `server` | two datagrams of two clients | 144282 | the endpoint implements `RequestReply` and answers; nobody is let in too early |

Why these bounds: ratios matter to the button, and 2 and 8 are the code's
one and four seconds; ages beyond the long press are not told apart. Two words
are the fewest a torn state can be mixed of, three saved states the fewest that
let an old one resurface between two others. A third UDP thread races with a
socket two others have already replaced. Two steps a cycle tell "first" from
"other", three also "middle", and three cycles let a group span a whole lost
one. Profiles of 5, 6 and 10 steps are the longest burst in one piece, the
shortest in two, and the longest. Eleven measurements wrap an index of five
values twice; five is the least for which the code's comparison works, so every
boundary of it is met. The oversamplings include none, the largest and one above it,
which the code corrects; the durations are the last with a factor of 4 and of 64
and the largest there is, which the code limits; the others are for the proof, and the
encoding itself is compared with the code's loop for every value below 4032
(`EncodeIsTheLoop`). Two datagrams of two clients are the fewest of which one can
leave its request, its address or its buffer to the other; they are of every
pair of kinds. All of these but the bounds on ticks and ages are
parameters of the proofs.

Deadlock is checked in every run.

## 5. Fairness

* `Button`: time passes, interrupts and due timeouts are served, the main thread
  and the system work queue run: the threads of the
  image sleep or block between their steps, and nothing in the repository occupies
  the work queue for good. The contact is
  under no fairness: the user may do nothing.
* `UdpBroadcast`: a thread inside `send_udp` gets on with it (no call blocks for
  ever); none has to call it.
* `SensorsServer`: the endpoint's thread gets on (`EndpointProceeds`): the main
  thread, whose priority is higher, sleeps or blocks between its steps, and so do
  the kernel's own. No client has to send, `ReceiveFails` need not happen, and nothing
  is asked of the other threads.
* The other specifications state safety only.

## 6. Proofs

Each `...Proofs` module shows an invariant to be inductive, one step per
action, and derives the properties from it. Constants are arbitrary within the
named assumptions; nothing else is assumed but what a theorem's own `ASSUME` says.
Every safety property of the passing runs is proved. The theorems beyond them say
what is left of a property where its hypothesis fails, or what a liveness property
rests on.

* **ButtonProofs** (`PressAssumption`): `TypeOK`, `PinIsKnown` and the four
  action properties. `StartInv` (nothing runs before the callback is attached)
  supports the others: `PressInv`, every armed timer, queued work and running
  handler comes from a press of this boot; `HoldInv`, contact time plus time left
  is at least the long press; `WipeInv`, beside a running handler a young press
  is new; `AgeInv`, without bounce the firmware's age of a press is the contact's.
  `HeldPressServed` is the safety half of `HoldLeadsToWipe`: the timeout of a press
  that counts is never lost, and runs out exactly when the press is `LongPress` old;
  from then on the hold is recognised, or its handler waits in the work queue or
  runs. Its invariant `HeldInv` needs that a work item is being cancelled only while
  its handler runs: the kernel would not queue it then.
* **BsecStoreProofs** (`StoreAssumption`): the type invariant, `StoreInv`,
  `WearBound`, `SavesSpaced`, `QuietUntilFirstSave`, `StoredIsRecent`, and the
  refinement of `SavedState`. `KeptInv` is the heart of it: the page is never a state
  in full but the last completed one. An erase that stops or a restart makes no
  page whole (`CutWhole`), and a word that makes it whole is a word of the state in
  `save_state`'s buffer (`NewlyWhole`): the last state taken, unless
  `bsec2_get_state` failed. The refinement comes in three
  strengths. `ImplementsButForReads`, without any condition: each step is one of
  `SavedState` or `Misread`, a `load_state` that could not read the page and
  goes on with a buffer it did not initialise, which changes the base of this boot
  and nothing of what is kept. `ImplementsWhenRead`: a behaviour in which no read fails
  implements `SavedState`, even where reads may fail. `ImplementsSavedState`:
  the case of the run, in which they cannot. They all rest on `PageInv`: the types,
  the numbering of the states and `KeptInv`, which hold whatever fails.
  Two theorems say what this is worth. `RestoresTheLast`: whoever can read
  the page gets the last completed state or nothing, and that becomes an older one
  only in a save whose buffer `bsec2_get_state` did not fill. `NeverOlder`: where
  `bsec2_get_state` always works, it never does, whatever else fails. There is no
  stronger promise: the run reaches states in which a save that did not get its
  state has put an older one in the place of a newer. `StoredIsRecent` bounds that
  damage, like that of a failed erase or write, by the next save in which nothing
  fails.
* **UdpBroadcastProofs** (no assumption): types, `OneStartEach`,
  `SettledConnected`, `SendFailsOnlyInRace` for any set of threads. `ConnectInv`:
  either the stored socket is connected, or the thread that opened it still will
  connect, that one or the one stored by then.
  `NoSecondStart`: once the flag is set and everybody has left the start, a
  connected socket stays connected and an unconnected one is never connected, so
  a failed start is for good. `NoMoreSocketsThanThreads` (for finitely many threads):
  sockets that a race left behind are never closed, but there are never more than
  threads, since `SocketInv` maps each to the thread that opened it.
* **MeasureGroupsProofs** (a profile of at least one step, two without BSEC2): types, order, no loss or
  repetition, mixing in both variants, origin of the air quality, for any
  number of steps and cycles. Without BSEC2 the index of the last field is what
  ends a group: `LastIndexInv` says of which field it is, and `OpenMixInv` carries
  the property to the group still open, so that two cycles meet in one only if a
  field of these or between them was lost. `IaqOfGroup` speaks of groups for whose
  fields the library gave outputs; `AirQualityStale` says what `IaqInv` leaves of it
  for the others: `iaq_output`, which `processData` then attaches again, is of an
  earlier field, but never ahead of the group and never older than that of the
  group before.
* **Bme688DriverProofs** (profiles of 1 to 10 steps): types, `ConfigureOnlyAsleep`,
  `ConfigurationHolds`, `ReadAsAsked`, `ForcedPassDelivers`. `RegsInv` says which registers have been
  written when a given transfer comes next; `ModesInv` relates the three places
  the mode is remembered; `Asleep` spans the writes. `DeliverInv` follows the
  field of a forced pass from the measurement to the data: an older one left in
  the sensor cannot survive the configuration or the trigger, because the wait is
  only over when the sensor has measured again. `DocumentedIfShort` and `LongProfiles`
  settle the divergence of section 7 for every profile: up to five steps the
  documented behaviour holds, above that the sixth step is lost, its wait takes the place of the
  shared duration (`LostInv`), and no field is ever measured with what was
  asked for. `FailedModeStays`: a parallel mode whose configuration failed is not
  configured again by any later pass, until another mode is asked for.
* **FieldReaderProofs** (an index of at least five values): types,
  the implementation of `FieldStream` and `GapsOnlyByOverwriting`. New measurements in the three fields lie
  within two of each other, so comparing indices is comparing measurements
  (`ModClose`), three comparisons sort three fields, and what was in the buffer
  is older than what the fields hold now. `GapInv`: as long as no transfer
  fails, the last three of the measurements not handed over are still new, in the
  fields or, up to the moment of the burst, in the buffer. `HandedOverOnce`
  draws from the abstract stream alone what its users need: each
  measurement is newer than all handed over before.
* **SensorsServerProofs** (`EndpointAssumption`: every datagram has a sender): types,
  `StartedInOrder` and the implementation of `RequestReply`, for any number of
  datagrams and clients. `HoldInv`, the thread has taken exactly the datagram in its
  buffer and knows whose it is, and `RequestInv`, request and response are of this
  datagram where they are used, make each step of the endpoint an `Answer`, a
  `Lose` or a stutter. `StartInv` says how far `main` is when a global is set.
  `PromiseGivesOneReply` shows that the abstract promise is worth keeping: from
  it alone, no client gets a second reply or one meant for another; `OneReplyEach`
  carries that to the server. `NothingDroppedSilently` is the safety half of
  `Answered`: while nothing has failed and a handler is set, a datagram leaves the
  queue only with its reply or with a restart.
* **MeasureTimingProofs** (`TimingAssumption`: oversamplings of a byte, durations of
  16 bits): `WaitCoversMeasurement` and `HeatsAsAsked`, for every value. `ConfInv` and
  `HeaterInv` say that what is not in doubt agrees; the rest is arithmetic
  (`EncodeBounds`: what the register stands for is at most the duration, and
  at least 15/16 of it; `StepBounds`). `LoopEncodes`: the closed form in the module is what
  the loop gives, for every duration that gets to it. `LittleWaitedInVain` bounds
  the wait from above.

Only model-checked: liveness (`HoldLeadsToWipe`, `WipeLeadsToReboot`,
`CallLeadsToConnected`, `Answered`), which the prover does not do under fairness.
What three of them rest on is proved, as said above: `HeldPressServed` for
the first, `SettledSocket` and `NoSecondStart` for the third, `NothingDroppedSilently` for
the last.
The comparison of the encoding with the code's loop as a recursive operator
(`EncodeIsTheLoop`) is TLC's; the proof unrolls the loop to its three turns.
What a boot goes on from after a failed read, and which state a save completes that
did not get its own, is not restricted by anything but that it was taken once: both
functions then pass on a buffer they did not initialise.

## 7. Where code and documentation disagree

* `samples/30_usb_dongle_router/readme.md` promises a factory reset after more
  than 3 s; `app_button.c` waits for 4 s, and a press between the two does
  nothing: it is too long for a click and too short for a reset
  (`button_documented`).
* `bme68x_i2c_write` (`bme688.c:84`) splits bursts of ten bytes or more and
  continues ten registers on, but `bme68x_set_regs` sends pairs of address and
  value. In profiles of more than five steps the sixth resistance and wait are
  never written and the shared duration is overwritten by the sixth wait
  (`driver_documented`). `ConfigurationHolds` says what such a configuration does
  keep, `LongProfiles` what is lost in every profile of more than five steps, and
  `DocumentedIfShort` that shorter ones are as documented. The default parallel mode has ten steps.
* Not run, met while reading: `samples/30_usb_dongle_router` shows its role every
  10 s (`SLEEP_CYCLE_SEC`), its readme says 20.

## 8. Not modelled, and the plan

| Step | Module | Content |
|---|---|---|
| 1 (done) | `Button` | restart and factory reset |
| 2 (done) | `SavedState`, `BsecStore` | the saved state across restarts |
| 3 (done) | `UdpBroadcast` | the start race |
| 4 (done) | `MeasureGroups` | groups of fields |
| 5 (done) | `FieldStream`, `FieldReader` | reading and sorting fields |
| 6 (done) | `Bme688Driver` | configuration and forced reading |
| 7 (done) | `RequestReply`, `JsonEndpoint` | receive thread, late handler, failures, replies to the right peer |
| 8 (done) | `SensorsServer` | start-up of the application beside its threads |
| 9 (done) | `MeasureTiming` | durations, encodings and waits |
| 10 (done) | proofs | every safety property of the passing runs |
| 11 (done) | proofs | what is left of a property when its hypothesis fails; the safety halves of the liveness properties; what the abstract promises are worth |

Left out for good: the Bosch compensation formulas (floating point arithmetic),
the BH1749 driver of the repository (only sample 10 builds it, and calls a stub;
the sensors server fetches the light from the SDK's driver, and publishes
uninitialised values if that fails),
the closed BSEC2 library and `json.hpp` (third party; modelled as anything they
may answer), LED and battery (one caller, no shared state), the Python harness,
samples 13 to 15 (older copies of `subsys/`), sequential mode and the self test
(no caller), and `set_bme688_config`, whose pointers are never set: its first
call is undefined (`README.md:157` calls its sample crashing).
