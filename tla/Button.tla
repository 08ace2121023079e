------------------------------- MODULE Button -------------------------------
(***************************************************************************)
(* The user button of subsys/app_ot: app_button.c decides between a short  *)
(* and a long press, app_ot.c reboots on the first and factory-resets on   *)
(* the second.  Three contexts share the static variables of app_button.c: *)
(* the main thread (app_ot_init), the GPIO interrupt (button_interrupt)    *)
(* and the system work queue (button_hold_timeout).                        *)
(*                                                                         *)
(* Time advances in ticks.  An interrupt that is pending, or a kernel      *)
(* timeout that is due, is served before the next tick: the tick stands    *)
(* for some hundred milliseconds, those latencies for microseconds.  The   *)
(* work queue may lag behind by any number of ticks; so may the main       *)
(* thread, which is 'stalled' if a tick passes between app_button_init's   *)
(* sampling of the pin and the last callback that app_ot_init sets.        *)
(***************************************************************************)
EXTENDS Integers

CONSTANTS
  ShortPress,  \* SHORT_PRESS_TIMEOUT_MSEC, in ticks
  LongPress    \* LONG_PRESS_TIMEOUT, in ticks

ASSUME PressAssumption ==
  /\ ShortPress \in Nat \ {0}
  /\ LongPress \in Nat
  /\ ShortPress <= LongPress

VARIABLES
  \* the contact
  level,       \* is the button physically down?
  settled,     \* has a tick passed since the contact last changed?
  irq,         \* an edge was latched and button_interrupt has not run yet
  \* app_button.c
  pc,          \* where app_ot_init is
  attached,    \* gpio_add_callback was reached
  pressed, booting, triggered,
  pressAge,    \* k_uptime_get() - press_time, up to AgeCap
  \* long_press_work
  timer,       \* ticks until the delayable work is due, NotDelayed if none
  queued,      \* the work item waits in the system work queue
  handler,     \* where button_hold_timeout is
  canceling,   \* cancelled while its handler was running
  \* the OpenThread settings in flash
  dataset,
  \* history: the tick counts and edges the properties talk about
  down,        \* ticks the contact has been down without a break, up to AgeCap
  pressSinceBoot, pressSinceHold,
  bounced,     \* in this press the contact changed twice within a tick
  stalled      \* in this boot the main thread stalled

contact == <<level, settled>>
ram     == <<pc, attached, pressed, booting, triggered, pressAge>>
work    == <<timer, queued, handler, canceling>>
history == <<down, pressSinceBoot, pressSinceHold, bounced, stalled>>
vars    == <<contact, irq, ram, work, dataset, history>>

NotDelayed == -1
AgeCap     == LongPress + 1       \* bound: ages beyond it are not told apart
Capped(n)  == IF n < AgeCap THEN n ELSE AgeCap

EdgesOK ==
  /\ level \in BOOLEAN /\ settled \in BOOLEAN /\ irq \in BOOLEAN
  /\ pressSinceBoot \in BOOLEAN /\ pressSinceHold \in BOOLEAN
  /\ bounced \in BOOLEAN /\ stalled \in BOOLEAN

RamOK ==
  /\ pc \in {"boot", "sampled", "attached", "shortSet", "ready"}
  /\ attached \in BOOLEAN
  /\ pressed \in BOOLEAN /\ booting \in BOOLEAN /\ triggered \in BOOLEAN

WorkOK ==
  /\ queued \in BOOLEAN
  /\ handler \in {"idle", "entered", "wiping", "wiped"}
  /\ canceling \in BOOLEAN
  /\ dataset \in {"stored", "partial", "erased"}

FlagsOK == EdgesOK /\ RamOK /\ WorkOK

CountersOK ==
  /\ pressAge \in 0..AgeCap
  /\ timer \in NotDelayed..LongPress
  /\ down \in 0..AgeCap

TypeOK == FlagsOK /\ CountersOK

Init ==
  /\ level \in BOOLEAN
  /\ settled = TRUE
  /\ irq = FALSE
  /\ pc = "boot" /\ attached = FALSE
  /\ pressed = FALSE /\ booting = FALSE /\ triggered = FALSE
  /\ pressAge = 0
  /\ timer = NotDelayed /\ queued = FALSE /\ handler = "idle" /\ canceling = FALSE
  /\ dataset \in {"stored", "erased"}
  /\ down = 0
  /\ pressSinceBoot = FALSE /\ pressSinceHold = FALSE
  /\ bounced = FALSE /\ stalled = FALSE

-----------------------------------------------------------------------------
(* The world outside the firmware.                                         *)

\* The contact changes.  Until the callback is attached the edge finds none.
Edge ==
  /\ level' = ~level
  /\ settled' = FALSE
  /\ irq' = attached
  /\ pressSinceBoot' = (pressSinceBoot \/ level')
  /\ pressSinceHold' = (pressSinceHold \/ level')
  /\ bounced' = (bounced \/ ~settled)
  /\ UNCHANGED <<ram, work, dataset, down, stalled>>

Tick ==
  /\ ~irq
  /\ timer # 0
  /\ settled' = TRUE
  /\ down' = IF level THEN Capped(down + 1) ELSE 0
  /\ bounced' = (bounced /\ level)
  /\ stalled' = (stalled \/ pc \notin {"boot", "ready"})
  /\ pressAge' = Capped(pressAge + 1)
  /\ timer' = IF timer = NotDelayed THEN NotDelayed ELSE timer - 1
  /\ UNCHANGED <<level, irq, pc, attached, pressed, booting, triggered,
                 queued, handler, canceling, dataset,
                 pressSinceBoot, pressSinceHold>>

\* A commissioner hands the device its network credentials (OpenThread).
Commission ==
  /\ pc = "ready" /\ handler = "idle"
  /\ dataset # "stored"
  /\ dataset' = "stored"
  /\ UNCHANGED <<contact, irq, ram, work, history>>

\* sys_reboot: every static variable and kernel object is as at power-on.
Reboot ==
  /\ pc' = "boot" /\ attached' = FALSE
  /\ pressed' = FALSE /\ booting' = FALSE /\ triggered' = FALSE
  /\ pressAge' = 0
  /\ irq' = FALSE
  /\ timer' = NotDelayed /\ queued' = FALSE /\ handler' = "idle" /\ canceling' = FALSE
  /\ pressSinceBoot' = FALSE /\ pressSinceHold' = FALSE /\ stalled' = FALSE
  /\ UNCHANGED <<contact, dataset, down, bounced>>

-----------------------------------------------------------------------------
(* The main thread: app_ot_init and app_button_init.                       *)

\* Mutant: 'booting' is left FALSE.
SampleNotBooting ==
  /\ pc = "boot"
  /\ pc' = "sampled"
  /\ pressed' = level
  /\ pressAge' = 0
  /\ UNCHANGED <<contact, irq, attached, booting, triggered, work, dataset, history>>

\* app_button_init up to the sampling of the pin.
SampleButton ==
  /\ pc = "boot"
  /\ pc' = "sampled"
  /\ booting' = TRUE
  /\ pressed' = level
  /\ triggered' = FALSE
  /\ pressAge' = 0
  /\ UNCHANGED <<contact, irq, attached, work, dataset, history>>

\* The port is not ready or cannot be configured: app_button_init returns
\* early and app_ot_init goes on as if it had not.
InitFails ==
  /\ pc = "boot"
  /\ pc' = "attached"
  /\ UNCHANGED <<contact, irq, attached, pressed, booting, triggered, pressAge,
                 work, dataset, history>>

AddCallback ==
  /\ pc = "sampled"
  /\ pc' = "attached"
  /\ attached' = TRUE
  /\ UNCHANGED <<contact, irq, pressed, booting, triggered, pressAge,
                 work, dataset, history>>

\* app_button_set_short_callback, then app_button_set_long_callback.
SetCallbacks ==
  /\ \/ pc = "attached" /\ pc' = "shortSet"
     \/ pc = "shortSet" /\ pc' = "ready"
  /\ UNCHANGED <<contact, irq, attached, pressed, booting, triggered, pressAge,
                 work, dataset, history>>

ShortCallbackSet == pc \in {"shortSet", "ready"}
LongCallbackSet  == pc = "ready"

-----------------------------------------------------------------------------
(* The delayable work item, as the code uses it (Zephyr's k_work).         *)

\* Mutants: a hold time one unit too long; a press that forgets to arm it.
RescheduleLate  == timer' = LongPress + 1 /\ UNCHANGED <<queued, handler, canceling>>
RescheduleNever == UNCHANGED work

Reschedule == timer' = LongPress /\ UNCHANGED <<queued, handler, canceling>>

\* k_work_cancel_delayable: a handler that already runs is not stopped.
CancelDelayable ==
  /\ timer' = NotDelayed
  /\ queued' = FALSE
  /\ canceling' = (handler # "idle")
  /\ UNCHANGED handler

\* The timeout is due.  A work item being cancelled is not submitted.
TimerExpires ==
  /\ timer = 0
  /\ timer' = NotDelayed
  /\ queued' = (queued \/ ~canceling)
  /\ UNCHANGED <<contact, irq, ram, handler, canceling, dataset, history>>

-----------------------------------------------------------------------------
(* button_interrupt, one action per path.  The callback is attached, the   *)
(* latched edge is consumed and the pin is read once.                      *)

Serve == irq /\ attached /\ irq' = FALSE

\* The level is the one already known: both edges of a jitter were merged.
InterruptDebounced ==
  /\ Serve
  /\ level = pressed
  /\ UNCHANGED <<contact, ram, work, dataset, history>>

InterruptPress ==
  /\ Serve
  /\ level # pressed
  /\ ~pressed
  /\ pressed' = TRUE
  /\ pressAge' = 0
  /\ triggered' = FALSE
  /\ booting' = FALSE
  /\ Reschedule
  /\ UNCHANGED <<contact, pc, attached, dataset, history>>

InterruptReleaseAfterBoot ==
  /\ Serve
  /\ level # pressed
  /\ pressed /\ booting
  /\ pressed' = FALSE
  /\ booting' = FALSE
  /\ UNCHANGED <<contact, pc, attached, triggered, pressAge, work, dataset, history>>

InterruptReleaseAfterTrigger ==
  /\ Serve
  /\ level # pressed
  /\ pressed /\ ~booting /\ triggered
  /\ pressed' = FALSE
  /\ UNCHANGED <<contact, pc, attached, booting, triggered, pressAge,
                 work, dataset, history>>

\* Mutants: the duration is compared with <=; it is not compared at all.
IsClickInclusive == pressAge <= ShortPress /\ ShortCallbackSet
IsClickAlways    == ShortCallbackSet

\* Is the press that ends now to be taken for a click?
IsClick == pressAge < ShortPress /\ ShortCallbackSet

\* Mutant: the release that follows a boot is not told from the others.
ClickAfterBoot ==
  /\ irq /\ attached
  /\ level # pressed
  /\ pressed /\ ~triggered
  /\ IsClick
  /\ Reboot

\* click() does not return: nothing after the callback is reached.
InterruptClick ==
  /\ irq /\ attached
  /\ level # pressed
  /\ pressed /\ ~booting /\ ~triggered
  /\ IsClick
  /\ Reboot

\* Mutant: the hold timeout of the ended press is left running.
ReleaseWithoutCancel ==
  /\ Serve
  /\ level # pressed
  /\ pressed /\ ~booting /\ ~triggered
  /\ ~IsClick
  /\ pressed' = FALSE
  /\ pressAge' = 0
  /\ UNCHANGED <<contact, pc, attached, booting, triggered, work, dataset, history>>

\* Not short, or nobody to tell.  k_uptime_delta moves press_time to now.
InterruptReleaseNoClick ==
  /\ Serve
  /\ level # pressed
  /\ pressed /\ ~booting /\ ~triggered
  /\ ~IsClick
  /\ pressed' = FALSE
  /\ pressAge' = 0
  /\ CancelDelayable
  /\ UNCHANGED <<contact, pc, attached, booting, triggered, dataset, history>>

ButtonInterrupt ==
  \/ InterruptDebounced
  \/ InterruptPress
  \/ InterruptReleaseAfterBoot
  \/ InterruptReleaseAfterTrigger
  \/ InterruptClick
  \/ InterruptReleaseNoClick

-----------------------------------------------------------------------------
(* button_hold_timeout on the work queue; interrupts preempt it anywhere.  *)

HoldDequeued ==
  /\ queued /\ handler = "idle"
  /\ queued' = FALSE
  /\ handler' = "entered"
  /\ pressSinceHold' = FALSE
  /\ UNCHANGED <<contact, irq, ram, timer, canceling, dataset, down, pressSinceBoot,
                 bounced, stalled>>

\* triggered = true; then long_press starts to erase, if the callback is set.
HoldTriggers ==
  /\ handler = "entered"
  /\ triggered' = TRUE
  /\ \/ /\ LongCallbackSet
        /\ handler' = "wiping"
        /\ dataset' = "partial"
        /\ UNCHANGED canceling
     \/ /\ ~LongCallbackSet
        /\ handler' = "idle"
        /\ canceling' = FALSE
        /\ UNCHANGED dataset
  /\ UNCHANGED <<contact, irq, pc, attached, pressed, booting, pressAge,
                 timer, queued, history>>

\* otInstanceFactoryReset has erased the settings.
FactoryResetDone ==
  /\ handler = "wiping"
  /\ handler' = "wiped"
  /\ dataset' = "erased"
  /\ UNCHANGED <<contact, irq, ram, timer, queued, canceling, history>>

\* Mutant: long_press returns without restarting.
NoRebootAfterReset ==
  /\ handler = "wiped"
  /\ handler' = "idle"
  /\ UNCHANGED <<contact, irq, ram, timer, queued, canceling, dataset, history>>

RebootCold == handler = "wiped" /\ Reboot

HoldTimeout == HoldDequeued \/ HoldTriggers \/ FactoryResetDone \/ RebootCold

MainThread == SampleButton \/ InitFails \/ AddCallback \/ SetCallbacks

Next ==
  \/ Edge \/ Tick \/ Commission
  \/ MainThread
  \/ TimerExpires
  \/ ButtonInterrupt
  \/ HoldTimeout

Spec == Init /\ [][Next]_vars

\* The clock runs, interrupts and due timeouts are served, and the main
\* thread and the work queue are not starved for ever.
FairSpec ==
  /\ Spec
  /\ WF_vars(Tick)
  /\ WF_vars(MainThread)
  /\ WF_vars(TimerExpires)
  /\ WF_vars(ButtonInterrupt)
  /\ WF_vars(HoldTimeout)

-----------------------------------------------------------------------------
(* Properties.                                                             *)

Restarts == pc # "boot" /\ pc' = "boot"

\* Once the interrupt is attached and served, the firmware's idea of the pin
\* is the pin, unless it still waits for the first edge after the boot: a
\* change missed between the sampling and gpio_add_callback leaves 'pressed'
\* wrong only while 'booting' keeps it harmless.
PinIsKnown == attached /\ ~irq /\ ~booting => pressed = level

\* A factory reset starts only when the contact has been down without a break
\* for the whole long-press time, however the presses before it, the work
\* queue's delay, jitter and a press held through boot fell together (in a boot
\* whose start did not stall).
HoldStartsOnlyAfterLongPress ==
  [][~stalled /\ handler = "idle" /\ handler' = "entered" =>
       down >= LongPress]_vars

\* The device restarts only after the button went down since the last start:
\* releasing a button held through a reboot or a factory reset is no click,
\* and holding it on is no second long press.
RebootNeedsNewPress == [][Restarts => pressSinceBoot]_vars

\* Once the hold was recognised, erasing the credentials is cut short only
\* by a further press; the release that ends the hold never cuts it.
WipeCutOnlyByNewPress ==
  [][~stalled /\ Restarts /\ handler \in {"entered", "wiping"} => pressSinceHold]_vars

\* A press in which the contact does not bounce is a click only when it was
\* down for less than the short-press time.
ClickOnlyIfShort ==
  [][~bounced /\ Restarts /\ handler # "wiped" => down < ShortPress]_vars

\* A press the firmware saw, held on, ends in the erasing of the credentials
\* (or the device restarts on the way).
HoldLeadsToWipe ==
  (pc = "ready" /\ ~stalled /\ attached /\ pressed /\ ~booting /\ level)
    ~> (~level \/ handler = "wiping" \/ pc = "boot")

\* An erasing that has begun always ends in a restart.
WipeLeadsToReboot == handler = "wiping" ~> pc = "boot"

\* samples/30_usb_dongle_router/readme.md: "Long press > 3 sec : Openthread
\* factory reset".  A button seen down for more than three quarters of the
\* firmware's long-press time is not let go without one.
DocumentedLongPress ==
  [][pressed /\ ~booting /\ attached /\ pc = "ready" /\ ~pressed' /\ ~level
        /\ 4 * pressAge > 3 * LongPress => triggered]_vars
-----------------------------------------------------------------------------
(* What each safety property needs to be inductive (see ButtonProofs).     *)

\* Nothing runs before the callback is attached, and 'booting' covers the
\* window between the sampling of the pin and the attaching.
StartInv ==
  /\ attached => pc \in {"attached", "shortSet", "ready"}
  /\ pc \in {"boot", "sampled"} => ~attached
  /\ ~attached => ~irq /\ timer = NotDelayed /\ ~queued /\ handler = "idle"
  /\ pc = "sampled" => booting

\* Whatever can lead to a restart comes from an edge after the boot.
PressInv ==
  /\ (attached \/ pc = "sampled") /\ level /\ ~pressed => pressSinceBoot
  /\ attached /\ pressed /\ ~booting => pressSinceBoot
  /\ timer # NotDelayed \/ queued \/ handler # "idle" => pressSinceBoot

\* A hold timeout that can still start the handler belongs to the press in
\* progress, and the contact has been down since that press began.
HoldInv ==
  ~stalled =>
    /\ pc # "ready" =>
         timer \in {NotDelayed, LongPress} /\ ~queued /\ handler = "idle"
    /\ handler = "idle" /\ (timer # NotDelayed \/ queued) =>
         attached /\ pressed /\ ~booting /\ ~triggered
    /\ handler = "idle" /\ timer # NotDelayed =>
         down + timer >= LongPress /\ pressAge + timer >= LongPress
    /\ handler = "idle" /\ queued => down >= LongPress /\ pressAge >= LongPress

\* Beside a running handler, a young press is one that began after it.
WipeInv ==
  ~stalled /\ handler # "idle" =>
    /\ level /\ ~pressed => pressSinceHold
    /\ pressed /\ ~triggered /\ pressAge < ShortPress => pressSinceHold

\* Without bounce the firmware's measure of a press is the contact's own.
AgeInv ==
  /\ irq => ~settled
  /\ ~bounced => /\ settled /\ ~level => down = 0
                 /\ irq /\ level => down = 0
                 /\ attached /\ pressed /\ ~booting => down <= pressAge
=============================================================================
