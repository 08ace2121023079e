---------------------------- MODULE ButtonProofs ----------------------------
(***************************************************************************)
(* The safety properties of Button, for every short and long press time.   *)
(* One lemma per part of the inductive invariant, each with one step per   *)
(* action; the theorems follow from the parts they need.                   *)
(***************************************************************************)
EXTENDS Button, TLAPS

\* Flags and program counters keep their types.
LEMMA FlagsCorrect == Spec => []FlagsOK
<1>1. Init => FlagsOK
  BY DEF Init, FlagsOK, EdgesOK, RamOK, WorkOK
<1>2. FlagsOK /\ [Next]_vars => FlagsOK'
  <2> USE DEF FlagsOK
  <2> SUFFICES ASSUME FlagsOK, [Next]_vars PROVE FlagsOK'
    OBVIOUS
  <2>1. CASE Edge
    <3>1. EdgesOK'
      BY <2>1 DEF EdgesOK, RamOK, WorkOK, Edge, contact, ram, work, history
    <3>2. RamOK'
      BY <2>1 DEF EdgesOK, RamOK, WorkOK, Edge, contact, ram, work, history
    <3>3. WorkOK'
      BY <2>1 DEF EdgesOK, RamOK, WorkOK, Edge, contact, ram, work, history
    <3> QED
      BY <3>1, <3>2, <3>3
  <2>2. CASE Tick
    <3>1. EdgesOK'
      <4>1. settled' \in BOOLEAN /\ UNCHANGED <<level, irq>>
        BY <2>2 DEF Tick
      <4>2. UNCHANGED <<pressSinceBoot, pressSinceHold>>
        BY <2>2 DEF Tick
      <4>3. bounced' \in BOOLEAN
        BY <2>2 DEF Tick
      <4>4. stalled' \in BOOLEAN
        BY <2>2 DEF Tick
      <4> QED
        BY <4>1, <4>2, <4>3, <4>4 DEF EdgesOK
    <3>2. RamOK'
      <4>1. UNCHANGED <<pc, attached, pressed, booting, triggered>>
        BY <2>2 DEF Tick
      <4> QED
        BY <4>1 DEF RamOK
    <3>3. WorkOK'
      <4>1. UNCHANGED <<queued, handler, canceling, dataset>>
        BY <2>2 DEF Tick
      <4> QED
        BY <4>1 DEF WorkOK
    <3> QED
      BY <3>1, <3>2, <3>3
  <2>3. CASE Commission
    <3>1. EdgesOK'
      BY <2>3 DEF EdgesOK, Commission, contact, ram, work, history
    <3>2. RamOK'
      BY <2>3 DEF RamOK, Commission, contact, ram, work, history
    <3>3. WorkOK'
      BY <2>3 DEF WorkOK, Commission, contact, ram, work, history
    <3> QED
      BY <3>1, <3>2, <3>3
  <2>4. CASE SampleButton
    <3>1. EdgesOK'
      BY <2>4 DEF EdgesOK, SampleButton, contact, ram, work, history
    <3>2. RamOK'
      BY <2>4 DEF EdgesOK, RamOK, SampleButton, contact, ram, work, history
    <3>3. WorkOK'
      BY <2>4 DEF WorkOK, SampleButton, contact, ram, work, history
    <3> QED
      BY <3>1, <3>2, <3>3
  <2>5. CASE InitFails
    <3>1. EdgesOK'
      BY <2>5 DEF EdgesOK, InitFails, contact, ram, work, history
    <3>2. RamOK'
      BY <2>5 DEF RamOK, InitFails, contact, ram, work, history
    <3>3. WorkOK'
      BY <2>5 DEF WorkOK, InitFails, contact, ram, work, history
    <3> QED
      BY <3>1, <3>2, <3>3
  <2>6. CASE AddCallback
    <3>1. EdgesOK'
      BY <2>6 DEF EdgesOK, AddCallback, contact, ram, work, history
    <3>2. RamOK'
      BY <2>6 DEF RamOK, AddCallback, contact, ram, work, history
    <3>3. WorkOK'
      BY <2>6 DEF WorkOK, AddCallback, contact, ram, work, history
    <3> QED
      BY <3>1, <3>2, <3>3
  <2>7. CASE SetCallbacks
    <3>1. EdgesOK'
      BY <2>7 DEF EdgesOK, SetCallbacks, contact, ram, work, history
    <3>2. RamOK'
      BY <2>7 DEF RamOK, SetCallbacks, contact, ram, work, history
    <3>3. WorkOK'
      BY <2>7 DEF WorkOK, SetCallbacks, contact, ram, work, history
    <3> QED
      BY <3>1, <3>2, <3>3
  <2>8. CASE TimerExpires
    <3>1. EdgesOK'
      BY <2>8 DEF EdgesOK, TimerExpires, contact, ram, work, history
    <3>2. RamOK'
      BY <2>8 DEF RamOK, TimerExpires, contact, ram, work, history
    <3>3. WorkOK'
      BY <2>8 DEF WorkOK, TimerExpires, contact, ram, work, history
    <3> QED
      BY <3>1, <3>2, <3>3
  <2>9. CASE InterruptDebounced
    <3>1. EdgesOK'
      BY <2>9 DEF EdgesOK, RamOK, WorkOK, InterruptDebounced, Serve,
           contact, ram, work, history
    <3>2. RamOK'
      BY <2>9 DEF EdgesOK, RamOK, WorkOK, InterruptDebounced, Serve,
           contact, ram, work, history
    <3>3. WorkOK'
      BY <2>9 DEF EdgesOK, RamOK, WorkOK, InterruptDebounced, Serve,
           contact, ram, work, history
    <3> QED
      BY <3>1, <3>2, <3>3
  <2>10. CASE InterruptPress
    <3>1. EdgesOK'
      BY <2>10 DEF EdgesOK, RamOK, WorkOK, InterruptPress,
           Serve, Reschedule, contact, ram, work, history
    <3>2. RamOK'
      BY <2>10 DEF EdgesOK, RamOK, WorkOK, InterruptPress,
           Serve, Reschedule, contact, ram, work, history
    <3>3. WorkOK'
      BY <2>10 DEF EdgesOK, RamOK, WorkOK, InterruptPress,
           Serve, Reschedule, contact, ram, work, history
    <3> QED
      BY <3>1, <3>2, <3>3
  <2>11. CASE InterruptReleaseAfterBoot
    <3>1. EdgesOK'
      BY <2>11 DEF EdgesOK, RamOK, WorkOK, InterruptReleaseAfterBoot,
           Serve, contact, ram, work, history
    <3>2. RamOK'
      BY <2>11 DEF EdgesOK, RamOK, WorkOK, InterruptReleaseAfterBoot,
           Serve, contact, ram, work, history
    <3>3. WorkOK'
      BY <2>11 DEF EdgesOK, RamOK, WorkOK, InterruptReleaseAfterBoot,
           Serve, contact, ram, work, history
    <3> QED
      BY <3>1, <3>2, <3>3
  <2>12. CASE InterruptReleaseAfterTrigger
    <3>1. EdgesOK'
      BY <2>12 DEF EdgesOK, RamOK, WorkOK, InterruptReleaseAfterTrigger,
           Serve, contact, ram, work, history
    <3>2. RamOK'
      BY <2>12 DEF EdgesOK, RamOK, WorkOK, InterruptReleaseAfterTrigger,
           Serve, contact, ram, work, history
    <3>3. WorkOK'
      BY <2>12 DEF EdgesOK, RamOK, WorkOK, InterruptReleaseAfterTrigger,
           Serve, contact, ram, work, history
    <3> QED
      BY <3>1, <3>2, <3>3
  <2>13. CASE InterruptClick
    <3>1. EdgesOK'
      BY <2>13 DEF EdgesOK, InterruptClick, Reboot, contact, ram, work,
           history
    <3>2. RamOK'
      BY <2>13 DEF RamOK, InterruptClick, Reboot, contact, ram, work, history
    <3>3. WorkOK'
      BY <2>13 DEF WorkOK, InterruptClick, Reboot, contact, ram, work, history
    <3> QED
      BY <3>1, <3>2, <3>3
  <2>14. CASE InterruptReleaseNoClick
    <3>1. EdgesOK'
      BY <2>14 DEF EdgesOK, InterruptReleaseNoClick, Serve,
           CancelDelayable, contact, ram, work, history
    <3>2. RamOK'
      BY <2>14 DEF RamOK, InterruptReleaseNoClick, Serve, CancelDelayable,
           contact, ram, work, history
    <3>3. WorkOK'
      BY <2>14 DEF WorkOK, InterruptReleaseNoClick, Serve, CancelDelayable,
           contact, ram, work, history
    <3> QED
      BY <3>1, <3>2, <3>3
  <2>15. CASE HoldDequeued
    <3>1. EdgesOK'
      BY <2>15 DEF EdgesOK, RamOK, WorkOK, HoldDequeued, contact, ram,
           work, history
    <3>2. RamOK'
      BY <2>15 DEF EdgesOK, RamOK, WorkOK, HoldDequeued, contact, ram,
           work, history
    <3>3. WorkOK'
      BY <2>15 DEF EdgesOK, RamOK, WorkOK, HoldDequeued, contact, ram,
           work, history
    <3> QED
      BY <3>1, <3>2, <3>3
  <2>16. CASE HoldTriggers
    <3>1. EdgesOK'
      BY <2>16 DEF EdgesOK, RamOK, WorkOK, HoldTriggers,
           LongCallbackSet, contact, ram, work, history
    <3>2. RamOK'
      BY <2>16 DEF EdgesOK, RamOK, WorkOK, HoldTriggers,
           LongCallbackSet, contact, ram, work, history
    <3>3. WorkOK'
      BY <2>16 DEF EdgesOK, RamOK, WorkOK, HoldTriggers,
           LongCallbackSet, contact, ram, work, history
    <3> QED
      BY <3>1, <3>2, <3>3
  <2>17. CASE FactoryResetDone
    <3>1. EdgesOK'
      BY <2>17 DEF EdgesOK, FactoryResetDone, contact, ram, work, history
    <3>2. RamOK'
      BY <2>17 DEF RamOK, FactoryResetDone, contact, ram, work, history
    <3>3. WorkOK'
      BY <2>17 DEF WorkOK, FactoryResetDone, contact, ram, work, history
    <3> QED
      BY <3>1, <3>2, <3>3
  <2>18. CASE RebootCold
    <3>1. EdgesOK'
      BY <2>18 DEF EdgesOK, RebootCold, Reboot, contact, ram, work, history
    <3>2. RamOK'
      BY <2>18 DEF RamOK, RebootCold, Reboot, contact, ram, work, history
    <3>3. WorkOK'
      BY <2>18 DEF WorkOK, RebootCold, Reboot, contact, ram, work, history
    <3> QED
      BY <3>1, <3>2, <3>3
  <2>19. CASE UNCHANGED vars
    <3>1. EdgesOK'
      BY <2>19 DEF EdgesOK, vars, contact, ram, work, history
    <3>2. RamOK'
      BY <2>19 DEF RamOK, vars, contact, ram, work, history
    <3>3. WorkOK'
      BY <2>19 DEF WorkOK, vars, contact, ram, work, history
    <3> QED
      BY <3>1, <3>2, <3>3
  <2> QED
    BY <2>1, <2>2, <2>3, <2>4, <2>5, <2>6, <2>7, <2>8, <2>9, <2>10, <2>11,
         <2>12, <2>13, <2>14, <2>15, <2>16, <2>17, <2>18, <2>19
       DEF Next, MainThread, ButtonInterrupt, HoldTimeout
<1> QED
  BY <1>1, <1>2, PTL DEF Spec

\* The timer and the two ages stay within their bounds.
LEMMA CountersCorrect == Spec => []CountersOK
<1> USE PressAssumption
<1>1. Init => CountersOK
  BY DEF Init, CountersOK, NotDelayed, AgeCap
<1>2. CountersOK /\ [Next]_vars => CountersOK'
  <2> USE DEF CountersOK, NotDelayed, AgeCap
  <2> SUFFICES ASSUME CountersOK, [Next]_vars PROVE CountersOK'
    OBVIOUS
  <2>1. CASE Edge
    BY <2>1 DEF Edge, contact, ram, work, history
  <2>2. CASE Tick
    BY <2>2 DEF Tick, Capped, contact, ram, work, history
  <2>3. CASE Commission
    BY <2>3 DEF Commission, contact, ram, work, history
  <2>4. CASE SampleButton
    BY <2>4 DEF SampleButton, contact, ram, work, history
  <2>5. CASE InitFails
    BY <2>5 DEF InitFails, contact, ram, work, history
  <2>6. CASE AddCallback
    BY <2>6 DEF AddCallback, contact, ram, work, history
  <2>7. CASE SetCallbacks
    BY <2>7 DEF SetCallbacks, contact, ram, work, history
  <2>8. CASE TimerExpires
    BY <2>8 DEF TimerExpires, contact, ram, work, history
  <2>9. CASE InterruptDebounced
    BY <2>9 DEF InterruptDebounced, Serve, contact, ram, work, history
  <2>10. CASE InterruptPress
    BY <2>10 DEF InterruptPress, Serve, Reschedule, contact, ram, work, history
  <2>11. CASE InterruptReleaseAfterBoot
    BY <2>11 DEF InterruptReleaseAfterBoot, Serve, contact, ram, work, history
  <2>12. CASE InterruptReleaseAfterTrigger
    BY <2>12 DEF InterruptReleaseAfterTrigger, Serve, contact, ram, work,
         history
  <2>13. CASE InterruptClick
    BY <2>13 DEF InterruptClick, Reboot, contact, ram, work, history
  <2>14. CASE InterruptReleaseNoClick
    BY <2>14 DEF InterruptReleaseNoClick, Serve, CancelDelayable, contact,
         ram, work, history
  <2>15. CASE HoldDequeued
    BY <2>15 DEF HoldDequeued, contact, ram, work, history
  <2>16. CASE HoldTriggers
    BY <2>16 DEF HoldTriggers, LongCallbackSet, contact, ram, work, history
  <2>17. CASE FactoryResetDone
    BY <2>17 DEF FactoryResetDone, contact, ram, work, history
  <2>18. CASE RebootCold
    BY <2>18 DEF RebootCold, Reboot, contact, ram, work, history
  <2>19. CASE UNCHANGED vars
    BY <2>19 DEF vars, contact, ram, work, history
  <2> QED
    BY <2>1, <2>2, <2>3, <2>4, <2>5, <2>6, <2>7, <2>8, <2>9, <2>10, <2>11,
         <2>12, <2>13, <2>14, <2>15, <2>16, <2>17, <2>18, <2>19
       DEF Next, MainThread, ButtonInterrupt, HoldTimeout
<1> QED
  BY <1>1, <1>2, PTL DEF Spec

\* Every variable keeps its type; the counters stay within their bounds.
THEOREM TypeCorrect == Spec => []TypeOK
BY FlagsCorrect, CountersCorrect, PTL DEF TypeOK

\* Before the callback is attached nothing is armed, pending or running.
LEMMA StartCorrect == Spec => []StartInv
<1>1. Init => StartInv
  BY PressAssumption DEF Init, TypeOK, NotDelayed, AgeCap, StartInv
<1>2. TypeOK /\ StartInv /\ [Next]_vars => StartInv'
  <2> USE PressAssumption DEF TypeOK, FlagsOK, EdgesOK, RamOK, WorkOK,
       CountersOK, NotDelayed, AgeCap, StartInv
  <2> SUFFICES ASSUME TypeOK, StartInv, [Next]_vars PROVE StartInv'
    OBVIOUS
  <2>1. CASE Edge
    BY <2>1 DEF Edge, contact, ram, work, history
  <2>2. CASE Tick
    BY <2>2 DEF Tick, Capped, AgeCap, NotDelayed, contact, ram, work, history
  <2>3. CASE Commission
    BY <2>3 DEF Commission, contact, ram, work, history
  <2>4. CASE SampleButton
    BY <2>4 DEF SampleButton, contact, ram, work, history
  <2>5. CASE InitFails
    BY <2>5 DEF InitFails, contact, ram, work, history
  <2>6. CASE AddCallback
    BY <2>6 DEF AddCallback, contact, ram, work, history
  <2>7. CASE SetCallbacks
    BY <2>7 DEF SetCallbacks, contact, ram, work, history
  <2>8. CASE TimerExpires
    BY <2>8 DEF TimerExpires, NotDelayed, contact, ram, work, history
  <2>9. CASE InterruptDebounced
    BY <2>9 DEF InterruptDebounced, Serve, contact, ram, work, history
  <2>10. CASE InterruptPress
    BY <2>10 DEF InterruptPress, Serve, Reschedule, contact, ram, work, history
  <2>11. CASE InterruptReleaseAfterBoot
    BY <2>11 DEF InterruptReleaseAfterBoot, Serve, contact, ram, work, history
  <2>12. CASE InterruptReleaseAfterTrigger
    BY <2>12 DEF InterruptReleaseAfterTrigger, Serve, contact, ram, work,
         history
  <2>13. CASE InterruptClick
    BY <2>13 DEF InterruptClick, Reboot, contact, ram, work, history
  <2>14. CASE InterruptReleaseNoClick
    BY <2>14 DEF InterruptReleaseNoClick, Serve, CancelDelayable, contact,
         ram, work, history
  <2>15. CASE HoldDequeued
    BY <2>15 DEF HoldDequeued, contact, ram, work, history
  <2>16. CASE HoldTriggers
    BY <2>16 DEF HoldTriggers, LongCallbackSet, contact, ram, work, history
  <2>17. CASE FactoryResetDone
    BY <2>17 DEF FactoryResetDone, contact, ram, work, history
  <2>18. CASE RebootCold
    BY <2>18 DEF RebootCold, Reboot, contact, ram, work, history
  <2>19. CASE UNCHANGED vars
    BY <2>19 DEF vars, contact, ram, work, history
  <2> QED
    BY <2>1, <2>2, <2>3, <2>4, <2>5, <2>6, <2>7, <2>8, <2>9, <2>10, <2>11,
         <2>12, <2>13, <2>14, <2>15, <2>16, <2>17, <2>18, <2>19
       DEF Next, MainThread, ButtonInterrupt, HoldTimeout
<1> QED
  BY <1>1, <1>2, TypeCorrect, PTL DEF Spec

\* The firmware knows the pin, or still waits for its first edge after the boot.
THEOREM PinKnown == Spec => []PinIsKnown
<1>1. Init => PinIsKnown
  BY PressAssumption DEF Init, TypeOK, NotDelayed, AgeCap, PinIsKnown, StartInv
<1>2. TypeOK /\ StartInv /\ PinIsKnown /\ [Next]_vars => PinIsKnown'
  <2> USE PressAssumption DEF TypeOK, FlagsOK, EdgesOK, RamOK, WorkOK,
       CountersOK, NotDelayed, AgeCap, PinIsKnown, StartInv
  <2> SUFFICES ASSUME TypeOK, StartInv, PinIsKnown, [Next]_vars PROVE PinIsKnown'
    OBVIOUS
  <2>1. CASE Edge
    BY <2>1 DEF Edge, contact, ram, work, history
  <2>2. CASE Tick
    BY <2>2 DEF Tick, Capped, AgeCap, NotDelayed, contact, ram, work, history
  <2>3. CASE Commission
    BY <2>3 DEF Commission, contact, ram, work, history
  <2>4. CASE SampleButton
    BY <2>4 DEF SampleButton, contact, ram, work, history
  <2>5. CASE InitFails
    BY <2>5 DEF InitFails, contact, ram, work, history
  <2>6. CASE AddCallback
    BY <2>6 DEF AddCallback, contact, ram, work, history
  <2>7. CASE SetCallbacks
    BY <2>7 DEF SetCallbacks, contact, ram, work, history
  <2>8. CASE TimerExpires
    BY <2>8 DEF TimerExpires, NotDelayed, contact, ram, work, history
  <2>9. CASE InterruptDebounced
    BY <2>9 DEF InterruptDebounced, Serve, contact, ram, work, history
  <2>10. CASE InterruptPress
    BY <2>10 DEF InterruptPress, Serve, Reschedule, contact, ram, work, history
  <2>11. CASE InterruptReleaseAfterBoot
    BY <2>11 DEF InterruptReleaseAfterBoot, Serve, contact, ram, work, history
  <2>12. CASE InterruptReleaseAfterTrigger
    BY <2>12 DEF InterruptReleaseAfterTrigger, Serve, contact, ram, work,
         history
  <2>13. CASE InterruptClick
    BY <2>13 DEF InterruptClick, Reboot, contact, ram, work, history
  <2>14. CASE InterruptReleaseNoClick
    BY <2>14 DEF InterruptReleaseNoClick, Serve, CancelDelayable, contact,
         ram, work, history
  <2>15. CASE HoldDequeued
    BY <2>15 DEF HoldDequeued, contact, ram, work, history
  <2>16. CASE HoldTriggers
    BY <2>16 DEF HoldTriggers, LongCallbackSet, contact, ram, work, history
  <2>17. CASE FactoryResetDone
    BY <2>17 DEF FactoryResetDone, contact, ram, work, history
  <2>18. CASE RebootCold
    BY <2>18 DEF RebootCold, Reboot, contact, ram, work, history
  <2>19. CASE UNCHANGED vars
    BY <2>19 DEF vars, contact, ram, work, history
  <2> QED
    BY <2>1, <2>2, <2>3, <2>4, <2>5, <2>6, <2>7, <2>8, <2>9, <2>10, <2>11,
         <2>12, <2>13, <2>14, <2>15, <2>16, <2>17, <2>18, <2>19
       DEF Next, MainThread, ButtonInterrupt, HoldTimeout
<1> QED
  BY <1>1, <1>2, TypeCorrect, StartCorrect, PTL DEF Spec

\* What can restart the device comes from an edge after the boot.
LEMMA PressCorrect == Spec => []PressInv
<1>1. Init => PressInv
  BY PressAssumption DEF Init, TypeOK, NotDelayed, AgeCap, PressInv,
       StartInv, PinIsKnown
<1>2. TypeOK /\ StartInv /\ PinIsKnown /\ PressInv /\ [Next]_vars => PressInv'
  <2> USE PressAssumption DEF TypeOK, FlagsOK, EdgesOK, RamOK, WorkOK,
       CountersOK, NotDelayed, AgeCap, PressInv, StartInv, PinIsKnown
  <2> SUFFICES ASSUME TypeOK, StartInv, PinIsKnown, PressInv, [Next]_vars PROVE PressInv'
    OBVIOUS
  <2>1. CASE Edge
    BY <2>1 DEF Edge, contact, ram, work, history
  <2>2. CASE Tick
    BY <2>2 DEF Tick, Capped, AgeCap, NotDelayed, contact, ram, work, history
  <2>3. CASE Commission
    BY <2>3 DEF Commission, contact, ram, work, history
  <2>4. CASE SampleButton
    BY <2>4 DEF SampleButton, contact, ram, work, history
  <2>5. CASE InitFails
    BY <2>5 DEF InitFails, contact, ram, work, history
  <2>6. CASE AddCallback
    BY <2>6 DEF AddCallback, contact, ram, work, history
  <2>7. CASE SetCallbacks
    BY <2>7 DEF SetCallbacks, contact, ram, work, history
  <2>8. CASE TimerExpires
    BY <2>8 DEF TimerExpires, NotDelayed, contact, ram, work, history
  <2>9. CASE InterruptDebounced
    BY <2>9 DEF InterruptDebounced, Serve, contact, ram, work, history
  <2>10. CASE InterruptPress
    BY <2>10 DEF InterruptPress, Serve, Reschedule, contact, ram, work, history
  <2>11. CASE InterruptReleaseAfterBoot
    BY <2>11 DEF InterruptReleaseAfterBoot, Serve, contact, ram, work, history
  <2>12. CASE InterruptReleaseAfterTrigger
    BY <2>12 DEF InterruptReleaseAfterTrigger, Serve, contact, ram, work,
         history
  <2>13. CASE InterruptClick
    BY <2>13 DEF InterruptClick, Reboot, contact, ram, work, history
  <2>14. CASE InterruptReleaseNoClick
    BY <2>14 DEF InterruptReleaseNoClick, Serve, CancelDelayable, contact,
         ram, work, history
  <2>15. CASE HoldDequeued
    BY <2>15 DEF HoldDequeued, contact, ram, work, history
  <2>16. CASE HoldTriggers
    BY <2>16 DEF HoldTriggers, LongCallbackSet, contact, ram, work, history
  <2>17. CASE FactoryResetDone
    BY <2>17 DEF FactoryResetDone, contact, ram, work, history
  <2>18. CASE RebootCold
    BY <2>18 DEF RebootCold, Reboot, contact, ram, work, history
  <2>19. CASE UNCHANGED vars
    BY <2>19 DEF vars, contact, ram, work, history
  <2> QED
    BY <2>1, <2>2, <2>3, <2>4, <2>5, <2>6, <2>7, <2>8, <2>9, <2>10, <2>11,
         <2>12, <2>13, <2>14, <2>15, <2>16, <2>17, <2>18, <2>19
       DEF Next, MainThread, ButtonInterrupt, HoldTimeout
<1> QED
  BY <1>1, <1>2, TypeCorrect, StartCorrect, PinKnown, PTL DEF Spec

\* A hold timeout that can fire belongs to the press in progress.
LEMMA HoldCorrect == Spec => []HoldInv
<1>1. Init => HoldInv
  BY PressAssumption DEF Init, TypeOK, NotDelayed, AgeCap, HoldInv,
       StartInv, PinIsKnown
<1>2. TypeOK /\ StartInv /\ PinIsKnown /\ HoldInv /\ [Next]_vars => HoldInv'
  <2> USE PressAssumption DEF TypeOK, FlagsOK, EdgesOK, RamOK, WorkOK,
       CountersOK, NotDelayed, AgeCap, HoldInv, StartInv, PinIsKnown
  <2> SUFFICES ASSUME TypeOK, StartInv, PinIsKnown, HoldInv, [Next]_vars PROVE HoldInv'
    OBVIOUS
  <2>1. CASE Edge
    BY <2>1 DEF Edge, contact, ram, work, history
  <2>2. CASE Tick
    BY <2>2 DEF Tick, Capped, AgeCap, NotDelayed, contact, ram, work, history
  <2>3. CASE Commission
    BY <2>3 DEF Commission, contact, ram, work, history
  <2>4. CASE SampleButton
    BY <2>4 DEF SampleButton, contact, ram, work, history
  <2>5. CASE InitFails
    BY <2>5 DEF InitFails, contact, ram, work, history
  <2>6. CASE AddCallback
    BY <2>6 DEF AddCallback, contact, ram, work, history
  <2>7. CASE SetCallbacks
    BY <2>7 DEF SetCallbacks, contact, ram, work, history
  <2>8. CASE TimerExpires
    BY <2>8 DEF TimerExpires, NotDelayed, contact, ram, work, history
  <2>9. CASE InterruptDebounced
    BY <2>9 DEF InterruptDebounced, Serve, contact, ram, work, history
  <2>10. CASE InterruptPress
    BY <2>10 DEF InterruptPress, Serve, Reschedule, contact, ram, work, history
  <2>11. CASE InterruptReleaseAfterBoot
    BY <2>11 DEF InterruptReleaseAfterBoot, Serve, contact, ram, work, history
  <2>12. CASE InterruptReleaseAfterTrigger
    BY <2>12 DEF InterruptReleaseAfterTrigger, Serve, contact, ram, work,
         history
  <2>13. CASE InterruptClick
    BY <2>13 DEF InterruptClick, Reboot, contact, ram, work, history
  <2>14. CASE InterruptReleaseNoClick
    BY <2>14 DEF InterruptReleaseNoClick, Serve, CancelDelayable, contact,
         ram, work, history
  <2>15. CASE HoldDequeued
    BY <2>15 DEF HoldDequeued, contact, ram, work, history
  <2>16. CASE HoldTriggers
    BY <2>16 DEF HoldTriggers, LongCallbackSet, contact, ram, work, history
  <2>17. CASE FactoryResetDone
    BY <2>17 DEF FactoryResetDone, contact, ram, work, history
  <2>18. CASE RebootCold
    BY <2>18 DEF RebootCold, Reboot, contact, ram, work, history
  <2>19. CASE UNCHANGED vars
    BY <2>19 DEF vars, contact, ram, work, history
  <2> QED
    BY <2>1, <2>2, <2>3, <2>4, <2>5, <2>6, <2>7, <2>8, <2>9, <2>10, <2>11,
         <2>12, <2>13, <2>14, <2>15, <2>16, <2>17, <2>18, <2>19
       DEF Next, MainThread, ButtonInterrupt, HoldTimeout
<1> QED
  BY <1>1, <1>2, TypeCorrect, StartCorrect, PinKnown, PTL DEF Spec

\* A young press beside a running hold handler began after it.
LEMMA WipeCorrect == Spec => []WipeInv
<1>1. Init => WipeInv
  BY PressAssumption DEF Init, TypeOK, NotDelayed, AgeCap, WipeInv, HoldInv,
       StartInv, PinIsKnown
<1>2. TypeOK /\ StartInv /\ PinIsKnown /\ HoldInv /\ WipeInv /\ [Next]_vars => WipeInv'
  <2> USE PressAssumption DEF TypeOK, FlagsOK, EdgesOK, RamOK, WorkOK,
       CountersOK, NotDelayed, AgeCap, WipeInv, HoldInv, StartInv,
       PinIsKnown
  <2> SUFFICES ASSUME TypeOK, StartInv, PinIsKnown, HoldInv, WipeInv, [Next]_vars PROVE WipeInv'
    OBVIOUS
  <2>1. CASE Edge
    BY <2>1 DEF Edge, contact, ram, work, history
  <2>2. CASE Tick
    BY <2>2 DEF Tick, Capped, AgeCap, NotDelayed, contact, ram, work, history
  <2>3. CASE Commission
    BY <2>3 DEF Commission, contact, ram, work, history
  <2>4. CASE SampleButton
    BY <2>4 DEF SampleButton, contact, ram, work, history
  <2>5. CASE InitFails
    BY <2>5 DEF InitFails, contact, ram, work, history
  <2>6. CASE AddCallback
    BY <2>6 DEF AddCallback, contact, ram, work, history
  <2>7. CASE SetCallbacks
    BY <2>7 DEF SetCallbacks, contact, ram, work, history
  <2>8. CASE TimerExpires
    BY <2>8 DEF TimerExpires, NotDelayed, contact, ram, work, history
  <2>9. CASE InterruptDebounced
    BY <2>9 DEF InterruptDebounced, Serve, contact, ram, work, history
  <2>10. CASE InterruptPress
    BY <2>10 DEF InterruptPress, Serve, Reschedule, contact, ram, work, history
  <2>11. CASE InterruptReleaseAfterBoot
    BY <2>11 DEF InterruptReleaseAfterBoot, Serve, contact, ram, work, history
  <2>12. CASE InterruptReleaseAfterTrigger
    BY <2>12 DEF InterruptReleaseAfterTrigger, Serve, contact, ram, work,
         history
  <2>13. CASE InterruptClick
    BY <2>13 DEF InterruptClick, Reboot, contact, ram, work, history
  <2>14. CASE InterruptReleaseNoClick
    BY <2>14 DEF InterruptReleaseNoClick, Serve, CancelDelayable, contact,
         ram, work, history
  <2>15. CASE HoldDequeued
    BY <2>15 DEF HoldDequeued, contact, ram, work, history
  <2>16. CASE HoldTriggers
    BY <2>16 DEF HoldTriggers, LongCallbackSet, contact, ram, work, history
  <2>17. CASE FactoryResetDone
    BY <2>17 DEF FactoryResetDone, contact, ram, work, history
  <2>18. CASE RebootCold
    BY <2>18 DEF RebootCold, Reboot, contact, ram, work, history
  <2>19. CASE UNCHANGED vars
    BY <2>19 DEF vars, contact, ram, work, history
  <2> QED
    BY <2>1, <2>2, <2>3, <2>4, <2>5, <2>6, <2>7, <2>8, <2>9, <2>10, <2>11,
         <2>12, <2>13, <2>14, <2>15, <2>16, <2>17, <2>18, <2>19
       DEF Next, MainThread, ButtonInterrupt, HoldTimeout
<1> QED
  BY <1>1, <1>2, TypeCorrect, StartCorrect, PinKnown, HoldCorrect, PTL DEF Spec

\* The measured age of a press is the time the contact was down.
LEMMA AgeCorrect == Spec => []AgeInv
<1>1. Init => AgeInv
  BY PressAssumption DEF Init, TypeOK, NotDelayed, AgeCap, AgeInv, StartInv,
       PinIsKnown
<1>2. TypeOK /\ StartInv /\ PinIsKnown /\ AgeInv /\ [Next]_vars => AgeInv'
  <2> USE PressAssumption DEF TypeOK, FlagsOK, EdgesOK, RamOK, WorkOK,
       CountersOK, NotDelayed, AgeCap, AgeInv, StartInv, PinIsKnown
  <2> SUFFICES ASSUME TypeOK, StartInv, PinIsKnown, AgeInv, [Next]_vars PROVE AgeInv'
    OBVIOUS
  <2>1. CASE Edge
    BY <2>1 DEF Edge, contact, ram, work, history
  <2>2. CASE Tick
    BY <2>2 DEF Tick, Capped, AgeCap, NotDelayed, contact, ram, work, history
  <2>3. CASE Commission
    BY <2>3 DEF Commission, contact, ram, work, history
  <2>4. CASE SampleButton
    BY <2>4 DEF SampleButton, contact, ram, work, history
  <2>5. CASE InitFails
    BY <2>5 DEF InitFails, contact, ram, work, history
  <2>6. CASE AddCallback
    BY <2>6 DEF AddCallback, contact, ram, work, history
  <2>7. CASE SetCallbacks
    BY <2>7 DEF SetCallbacks, contact, ram, work, history
  <2>8. CASE TimerExpires
    BY <2>8 DEF TimerExpires, NotDelayed, contact, ram, work, history
  <2>9. CASE InterruptDebounced
    BY <2>9 DEF InterruptDebounced, Serve, contact, ram, work, history
  <2>10. CASE InterruptPress
    BY <2>10 DEF InterruptPress, Serve, Reschedule, contact, ram, work, history
  <2>11. CASE InterruptReleaseAfterBoot
    BY <2>11 DEF InterruptReleaseAfterBoot, Serve, contact, ram, work, history
  <2>12. CASE InterruptReleaseAfterTrigger
    BY <2>12 DEF InterruptReleaseAfterTrigger, Serve, contact, ram, work,
         history
  <2>13. CASE InterruptClick
    BY <2>13 DEF InterruptClick, Reboot, contact, ram, work, history
  <2>14. CASE InterruptReleaseNoClick
    BY <2>14 DEF InterruptReleaseNoClick, Serve, CancelDelayable, contact,
         ram, work, history
  <2>15. CASE HoldDequeued
    BY <2>15 DEF HoldDequeued, contact, ram, work, history
  <2>16. CASE HoldTriggers
    BY <2>16 DEF HoldTriggers, LongCallbackSet, contact, ram, work, history
  <2>17. CASE FactoryResetDone
    BY <2>17 DEF FactoryResetDone, contact, ram, work, history
  <2>18. CASE RebootCold
    BY <2>18 DEF RebootCold, Reboot, contact, ram, work, history
  <2>19. CASE UNCHANGED vars
    BY <2>19 DEF vars, contact, ram, work, history
  <2> QED
    BY <2>1, <2>2, <2>3, <2>4, <2>5, <2>6, <2>7, <2>8, <2>9, <2>10, <2>11,
         <2>12, <2>13, <2>14, <2>15, <2>16, <2>17, <2>18, <2>19
       DEF Next, MainThread, ButtonInterrupt, HoldTimeout
<1> QED
  BY <1>1, <1>2, TypeCorrect, StartCorrect, PinKnown, PTL DEF Spec

-----------------------------------------------------------------------------
\* A factory reset starts only after an unbroken long press: the delayed work
\* that starts button_hold_timeout is never left over from an earlier press.
THEOREM LongPressSafe == Spec => HoldStartsOnlyAfterLongPress
<1>1. TypeOK /\ HoldInv /\ [Next]_vars =>
        [~stalled /\ handler = "idle" /\ handler' = "entered" =>
           down >= LongPress]_vars
  BY DEF HoldInv, Next, vars, MainThread, ButtonInterrupt, HoldTimeout,
         contact, ram, work, history, Edge, Tick, Commission,
         SampleButton, InitFails, AddCallback, SetCallbacks, TimerExpires,
         InterruptDebounced, InterruptPress, InterruptReleaseAfterBoot,
         InterruptReleaseAfterTrigger, InterruptClick, InterruptReleaseNoClick,
         Reschedule, CancelDelayable, Reboot,
         HoldDequeued, HoldTriggers, FactoryResetDone, RebootCold
<1> QED
  BY <1>1, TypeCorrect, HoldCorrect, PTL DEF Spec, HoldStartsOnlyAfterLongPress

\* Only two actions restart the device.
LEMMA RestartCases ==
  ASSUME [Next]_vars, Restarts PROVE InterruptClick \/ RebootCold
BY DEF Restarts, Next, vars, MainThread, ButtonInterrupt, HoldTimeout,
       contact, ram, work, history, Edge, Tick, Commission,
       SampleButton, InitFails, AddCallback, SetCallbacks, TimerExpires,
       InterruptDebounced, InterruptPress, InterruptReleaseAfterBoot,
       InterruptReleaseAfterTrigger, InterruptReleaseNoClick,
       HoldDequeued, HoldTriggers, FactoryResetDone

\* The device never restarts without a press made since its last start:
\* the 'booting' flag breaks the loop of a button held through a restart.
THEOREM NoRestartLoop == Spec => RebootNeedsNewPress
<1>1. PressInv /\ [Next]_vars => [Restarts => pressSinceBoot]_vars
  BY RestartCases DEF PressInv, InterruptClick, RebootCold
<1> QED
  BY <1>1, PressCorrect, PTL DEF Spec, RebootNeedsNewPress

\* The release that ends a long press never reboots into a half-erased flash.
THEOREM WipeSafe == Spec => WipeCutOnlyByNewPress
<1>1. WipeInv /\ [Next]_vars =>
        [~stalled /\ Restarts /\ handler \in {"entered", "wiping"} =>
           pressSinceHold]_vars
  BY RestartCases DEF WipeInv, InterruptClick, RebootCold, IsClick
<1> QED
  BY <1>1, WipeCorrect, PTL DEF Spec, WipeCutOnlyByNewPress

\* Without contact bounce only a short press is a click.
THEOREM ClickSafe == Spec => ClickOnlyIfShort
<1>1. TypeOK /\ AgeInv /\ [Next]_vars =>
        [~bounced /\ Restarts /\ handler # "wiped" => down < ShortPress]_vars
  BY RestartCases, PressAssumption
     DEF TypeOK, CountersOK, AgeCap, AgeInv, InterruptClick, RebootCold, IsClick
<1> QED
  BY <1>1, TypeCorrect, AgeCorrect, PTL DEF Spec, ClickOnlyIfShort

-----------------------------------------------------------------------------
(* A press that is held is never forgotten.                                *)

\* A press the firmware counts and has not recognised as held is in somebody's
\* hand: its timeout is running, and then due exactly LongPress after
\* the press was seen, or button_hold_timeout waits in the work queue or runs.
\* A work item is being cancelled only while its handler runs.
HeldInv ==
  /\ canceling => handler # "idle"
  /\ pressed /\ ~booting /\ ~triggered =>
       \/ timer # NotDelayed /\ pressAge + timer = LongPress
       \/ queued
       \/ handler # "idle"

\* No step loses the timeout of the press in progress: only the release that
\* ends the press cancels it, and a work item that is being cancelled, which
\* the kernel would not queue again, has a handler that still runs.
LEMMA HeldCorrect == Spec => []HeldInv
<1>1. Init => HeldInv
  BY DEF Init, HeldInv
<1>2. CountersOK /\ HeldInv /\ [Next]_vars => HeldInv'
  <2> USE PressAssumption DEF CountersOK, HeldInv, NotDelayed, AgeCap
  <2> SUFFICES ASSUME CountersOK, HeldInv, [Next]_vars PROVE HeldInv'
    OBVIOUS
  <2>1. CASE Edge
    BY <2>1 DEF Edge, contact, ram, work, history
  <2>2. CASE Tick
    BY <2>2 DEF Tick, Capped, contact, ram, work, history
  <2>3. CASE Commission
    BY <2>3 DEF Commission, contact, ram, work, history
  <2>4. CASE SampleButton
    BY <2>4 DEF SampleButton, contact, ram, work, history
  <2>5. CASE InitFails
    BY <2>5 DEF InitFails, contact, ram, work, history
  <2>6. CASE AddCallback
    BY <2>6 DEF AddCallback, contact, ram, work, history
  <2>7. CASE SetCallbacks
    BY <2>7 DEF SetCallbacks, contact, ram, work, history
  <2>8. CASE TimerExpires
    BY <2>8 DEF TimerExpires, contact, ram, work, history
  <2>9. CASE InterruptDebounced
    BY <2>9 DEF InterruptDebounced, Serve, contact, ram, work, history
  <2>10. CASE InterruptPress
    BY <2>10 DEF InterruptPress, Serve, Reschedule, contact, ram, work, history
  <2>11. CASE InterruptReleaseAfterBoot
    BY <2>11 DEF InterruptReleaseAfterBoot, Serve, contact, ram, work, history
  <2>12. CASE InterruptReleaseAfterTrigger
    BY <2>12 DEF InterruptReleaseAfterTrigger, Serve, contact, ram, work, history
  <2>13. CASE InterruptClick
    BY <2>13 DEF InterruptClick, Reboot, contact, ram, work, history
  <2>14. CASE InterruptReleaseNoClick
    BY <2>14 DEF InterruptReleaseNoClick, Serve, CancelDelayable, contact, ram, work, history
  <2>15. CASE HoldDequeued
    BY <2>15 DEF HoldDequeued, contact, ram, work, history
  <2>16. CASE HoldTriggers
    BY <2>16 DEF HoldTriggers, contact, ram, work, history
  <2>17. CASE FactoryResetDone
    BY <2>17 DEF FactoryResetDone, contact, ram, work, history
  <2>18. CASE RebootCold
    BY <2>18 DEF RebootCold, Reboot, contact, ram, work, history
  <2>19. CASE UNCHANGED vars
    BY <2>19 DEF vars, contact, ram, work, history
  <2> QED
    BY <2>1, <2>2, <2>3, <2>4, <2>5, <2>6, <2>7, <2>8, <2>9, <2>10, <2>11,
         <2>12, <2>13, <2>14, <2>15, <2>16, <2>17, <2>18, <2>19
       DEF Next, MainThread, ButtonInterrupt, HoldTimeout
<1> QED
  BY <1>1, <1>2, TypeCorrect, PTL DEF Spec, TypeOK

\* The safety half of "a press held on ends in the factory reset", in any
\* boot, stalled or not: once a press is older than the long-press time, the
\* hold has been recognised, or its handler waits in the work queue or runs;
\* and as long as it is younger and nothing of this is the case, the timeout
\* is running and due when the press is LongPress old, neither before nor after.
HeldPressInHand ==
  pressed /\ ~booting =>
    /\ pressAge > LongPress => triggered \/ queued \/ handler # "idle"
    /\ ~triggered /\ ~queued /\ handler = "idle" => timer = LongPress - pressAge

\* HeldPressInHand holds for any times, in any boot.
THEOREM HeldPressServed == Spec => []HeldPressInHand
<1>1. CountersOK /\ HeldInv => HeldPressInHand
  BY PressAssumption DEF CountersOK, HeldInv, HeldPressInHand, NotDelayed, AgeCap
<1> QED
  BY <1>1, TypeCorrect, HeldCorrect, PTL DEF TypeOK
=============================================================================
