-------------------------- MODULE PcPowerHalProofs --------------------------
(***************************************************************************)
(* HalInv is an inductive invariant of PcPowerHal, for every set of alarm  *)
(* ids with room for two alarms and every set of durations.  The safety    *)
(* properties of the module follow from it.                                *)
(***************************************************************************)
EXTENDS PcPowerHal, TLAPS

-----------------------------------------------------------------------------
(* The inductive invariant behind the safety properties.                   *)

\* No two pending alarms share an id or a callback.
PoolInv ==
    /\ \A a, b \in pending : a.id = b.id => a = b
    /\ NoAlarmLeft

\* Once a pulse in flight is cancelled no pulse alarm is pending until the
\* new one is added; at any other point the line, the handle and the alarm
\* agree.
PulseInv ==
    /\ InTrigger =>
          /\ Pending("pulse") = {}
          /\ pc # "trigger_clear" => s_power_btn_alarm = NoAlarm
          /\ pc = "trigger_add" => gpio_trigger
    /\ ~InTrigger =>
          /\ ~gpio_trigger =>
                Pending("pulse") = {} /\ s_power_btn_alarm = NoAlarm
          /\ gpio_trigger =>
                \E a \in Pending("pulse") : a.id = s_power_btn_alarm
    /\ pc = "trigger_cancel" =>
          /\ gpio_trigger => loaded = s_power_btn_alarm
          /\ \A a \in Pending("boot") : a.id # loaded
    /\ pc \in {"trigger_cancel", "trigger_clear", "trigger_high",
               "trigger_add"} => arg \in PulseMs

InCancel == pc \in {"cancel_clear", "cancel_flag", "start_flag", "start_add"}

\* The same of the boot timer.
BootInv ==
    /\ s_boot_timer_expired => Pending("boot") = {}
    /\ InCancel =>
          /\ Pending("boot") = {}
          /\ pc # "cancel_clear" => s_boot_timer_alarm = NoAlarm
          /\ pc \in {"start_flag", "start_add"} =>
                ~s_boot_timer_expired /\ ~armed
    /\ ~InCancel =>
          /\ \A a \in Pending("boot") : a.id = s_boot_timer_alarm
          /\ Pending("boot") = {} => s_boot_timer_alarm = NoAlarm
          /\ armed <=> Pending("boot") # {} \/ s_boot_timer_expired
    /\ pc = "cancel_alarm" =>
          /\ Pending("boot") # {} => loaded = s_boot_timer_alarm
          /\ \A a \in Pending("pulse") : a.id # loaded
    /\ pc \in {"start_flag", "start_add"} => starting
    /\ pc \in {"cancel_alarm", "cancel_clear", "cancel_flag", "start_flag",
               "start_add"} /\ starting => arg \in TimeoutMs
    /\ pc = "expired_clear" => s_boot_timer_expired

HalInv == TypeOK /\ PoolInv /\ PulseInv /\ BootInv

\* The invariant holds after pc_power_hal_init.
LEMMA InitInv == Init => HalInv
  BY DurationAssumption
     DEF Init, HalInv, TypeOK, PoolInv, NoAlarmLeft, PulseInv, BootInv,
         InTrigger, InCancel, Pending, Handle, NoAlarm, NoSlot, Alarm

\* With at most one alarm pending there is a free slot: add_alarm_in_ms does
\* not fail.
LEMMA RoomForAnother ==
  ASSUME NEW cb, TypeOK, PoolInv, pending = Pending(cb)
  PROVE  FreeId # {}
<1>1. CASE pending = {}
  BY <1>1, AlarmIdAssumption DEF FreeId
<1>2. CASE pending # {}
  <2>1. PICK a \in pending : TRUE
    BY <1>2
  <2>2. pending = {a}
    BY <2>1 DEF PoolInv, NoAlarmLeft, Pending
  <2>3. PICK b \in AlarmId : b # a.id
    BY <2>1, AlarmIdAssumption DEF TypeOK, Alarm
  <2> QED
    BY <2>2, <2>3 DEF FreeId
<1> QED
  BY <1>1, <1>2

\* The passing of time changes neither which alarms are pending nor whose
\* they are.
LEMMA TickKeepsAlarms ==
  ASSUME TypeOK, Tick
  PROVE  /\ \A b \in pending' : /\ b \in Alarm
                               /\ \E a \in pending :
                                     /\ b = [a EXCEPT !.left = a.left - 1]
                                     /\ b.id = a.id
                                     /\ b.cb = a.cb
         /\ \A a \in pending : \E b \in pending' : b.id = a.id /\ b.cb = a.cb
         /\ \A cb : Pending(cb) = {} <=> Pending(cb)' = {}
<1> DEFINE Nearer(a) == [a EXCEPT !.left = a.left - 1]
<1>1. pending' = {Nearer(a) : a \in pending}
  BY DEF Tick
<1>2. ASSUME NEW a \in pending
      PROVE  Nearer(a) \in Alarm /\ Nearer(a).id = a.id /\ Nearer(a).cb = a.cb
  BY DEF Tick, Due, TypeOK, Alarm
<1>3. ASSUME NEW b \in pending'
      PROVE  /\ b \in Alarm
             /\ \E a \in pending :
                   /\ b = Nearer(a)
                   /\ b.id = a.id
                   /\ b.cb = a.cb
  <2>1. PICK a \in pending : b = Nearer(a)
    BY <1>1, <1>3
  <2> HIDE DEF Nearer
  <2> QED
    BY <1>2, <2>1
<1>4. ASSUME NEW a \in pending
      PROVE  \E b \in pending' : b.id = a.id /\ b.cb = a.cb
  <2>1. Nearer(a) \in pending'
    BY <1>1, <1>4
  <2> HIDE DEF Nearer
  <2> QED
    BY <1>2, <2>1
<1>5. ASSUME NEW cb
      PROVE  Pending(cb) = {} <=> Pending(cb)' = {}
  <2> HIDE DEF Nearer
  <2> QED
    BY <1>3, <1>4 DEF Pending
<1> QED
  BY <1>3, <1>4, <1>5

\* No statement of the HAL and no interrupt breaks the invariant.
LEMMA StepInv == HalInv /\ [Next]_vars => HalInv'
<1> SUFFICES ASSUME HalInv, [Next]_vars PROVE HalInv'
  OBVIOUS
<1> USE DEF HalInv, Handle, NoAlarm, NoSlot, Alarm, Pending, boot,
        InTrigger, InCancel

<1>1. CASE \E d \in PulseMs : trigger_power_button(d)
  <2>1. TypeOK'
    BY <1>1, DurationAssumption DEF trigger_power_button, TypeOK
  <2>2. PoolInv'
    BY <1>1 DEF trigger_power_button, TypeOK, PoolInv, NoAlarmLeft
  <2>3. PulseInv'
    BY <1>1, AlarmIdAssumption DEF trigger_power_button, TypeOK, PoolInv, NoAlarmLeft, PulseInv, BootInv
  <2>4. BootInv'
    BY <1>1, AlarmIdAssumption DEF trigger_power_button, TypeOK, PoolInv, NoAlarmLeft, BootInv, PulseInv
  <2> QED
    BY <2>1, <2>2, <2>3, <2>4
<1>2. CASE \E t \in TimeoutMs : start_boot_timer(t)
  <2>1. TypeOK'
    BY <1>2, DurationAssumption DEF start_boot_timer, cancel_call, TypeOK
  <2>2. PoolInv'
    BY <1>2 DEF start_boot_timer, cancel_call, TypeOK, PoolInv, NoAlarmLeft
  <2>3. PulseInv'
    BY <1>2, AlarmIdAssumption DEF start_boot_timer, cancel_call, TypeOK, PoolInv, NoAlarmLeft, PulseInv, BootInv
  <2>4. BootInv'
    BY <1>2, AlarmIdAssumption DEF start_boot_timer, cancel_call, TypeOK, PoolInv, NoAlarmLeft, BootInv, PulseInv
  <2> QED
    BY <2>1, <2>2, <2>3, <2>4
<1>3. CASE cancel_boot_timer
  <2>1. TypeOK'
    BY <1>3, DurationAssumption DEF cancel_boot_timer, cancel_call, TypeOK
  <2>2. PoolInv'
    BY <1>3 DEF cancel_boot_timer, cancel_call, TypeOK, PoolInv, NoAlarmLeft
  <2>3. PulseInv'
    BY <1>3, AlarmIdAssumption DEF cancel_boot_timer, cancel_call, TypeOK, PoolInv, NoAlarmLeft, PulseInv, BootInv
  <2>4. BootInv'
    BY <1>3, AlarmIdAssumption DEF cancel_boot_timer, cancel_call, TypeOK, PoolInv, NoAlarmLeft, BootInv, PulseInv
  <2> QED
    BY <2>1, <2>2, <2>3, <2>4
<1>4. CASE boot_timer_expired
  <2>1. TypeOK'
    BY <1>4, DurationAssumption DEF boot_timer_expired, TypeOK
  <2>2. PoolInv'
    BY <1>4 DEF boot_timer_expired, TypeOK, PoolInv, NoAlarmLeft
  <2>3. PulseInv'
    BY <1>4 DEF boot_timer_expired, TypeOK, PoolInv, NoAlarmLeft, PulseInv, BootInv
  <2>4. BootInv'
    BY <1>4 DEF boot_timer_expired, TypeOK, PoolInv, NoAlarmLeft, BootInv, PulseInv
  <2> QED
    BY <2>1, <2>2, <2>3, <2>4
<1>5. CASE trigger_cancel
  <2>1. TypeOK'
    BY <1>5, DurationAssumption DEF trigger_cancel, cancel_alarm, TypeOK
  <2>2. PoolInv'
    BY <1>5 DEF trigger_cancel, cancel_alarm, TypeOK, PoolInv, NoAlarmLeft
  <2>3. PulseInv'
    BY <1>5, AlarmIdAssumption DEF trigger_cancel, cancel_alarm, TypeOK, PoolInv, NoAlarmLeft, PulseInv, BootInv
  <2>4. BootInv'
    BY <1>5, AlarmIdAssumption DEF trigger_cancel, cancel_alarm, TypeOK, PoolInv, NoAlarmLeft, BootInv, PulseInv
  <2> QED
    BY <2>1, <2>2, <2>3, <2>4
<1>6. CASE trigger_clear
  <2>1. TypeOK'
    BY <1>6, DurationAssumption DEF trigger_clear, TypeOK
  <2>2. PoolInv'
    BY <1>6 DEF trigger_clear, TypeOK, PoolInv, NoAlarmLeft
  <2>3. PulseInv'
    BY <1>6 DEF trigger_clear, TypeOK, PoolInv, NoAlarmLeft, PulseInv, BootInv
  <2>4. BootInv'
    BY <1>6 DEF trigger_clear, TypeOK, PoolInv, NoAlarmLeft, BootInv, PulseInv
  <2> QED
    BY <2>1, <2>2, <2>3, <2>4
<1>7. CASE trigger_high
  <2>1. TypeOK'
    BY <1>7, DurationAssumption DEF trigger_high, TypeOK
  <2>2. PoolInv'
    BY <1>7 DEF trigger_high, TypeOK, PoolInv, NoAlarmLeft
  <2>3. PulseInv'
    BY <1>7 DEF trigger_high, TypeOK, PoolInv, NoAlarmLeft, PulseInv, BootInv
  <2>4. BootInv'
    BY <1>7 DEF trigger_high, TypeOK, PoolInv, NoAlarmLeft, BootInv, PulseInv
  <2> QED
    BY <2>1, <2>2, <2>3, <2>4
<1>8. CASE trigger_add
  <2>1. FreeId # {}
    <3>1. pending = Pending("boot")
      BY <1>8 DEF trigger_add, TypeOK, PulseInv
    <3> QED
      BY <3>1, RoomForAnother
  <2>2. PICK a \in Alarm :
          /\ a.cb = "pulse"
          /\ a.id = s_power_btn_alarm'
          /\ a.id \in FreeId
          /\ pending' = pending \cup {a}
    BY <2>1, <1>8, DurationAssumption DEF trigger_add, add_alarm, TypeOK, FreeId, PulseInv
  <2>3. \A b \in pending : b.id # a.id
    BY <2>2 DEF FreeId
  <2>4. TypeOK'
    BY <2>2, <2>3, <1>8, DurationAssumption DEF trigger_add, TypeOK
  <2>5. PoolInv'
    BY <2>2, <2>3, <1>8 DEF trigger_add, TypeOK, PoolInv, NoAlarmLeft, PulseInv, BootInv
  <2>6. PulseInv'
    BY <2>2, <2>3, <1>8 DEF trigger_add, TypeOK, PoolInv, NoAlarmLeft, PulseInv, BootInv
  <2>7. BootInv'
    BY <2>2, <2>3, <1>8 DEF trigger_add, TypeOK, PoolInv, NoAlarmLeft, BootInv, PulseInv
  <2> QED
    BY <2>4, <2>5, <2>6, <2>7
<1>9. CASE cancel_cancel
  <2>1. TypeOK'
    BY <1>9, DurationAssumption DEF cancel_cancel, cancel_alarm, TypeOK
  <2>2. PoolInv'
    BY <1>9 DEF cancel_cancel, cancel_alarm, TypeOK, PoolInv, NoAlarmLeft
  <2>3. PulseInv'
    BY <1>9, AlarmIdAssumption DEF cancel_cancel, cancel_alarm, TypeOK, PoolInv, NoAlarmLeft, PulseInv, BootInv
  <2>4. BootInv'
    BY <1>9, AlarmIdAssumption DEF cancel_cancel, cancel_alarm, TypeOK, PoolInv, NoAlarmLeft, BootInv, PulseInv
  <2> QED
    BY <2>1, <2>2, <2>3, <2>4
<1>10. CASE cancel_clear
  <2>1. TypeOK'
    BY <1>10, DurationAssumption DEF cancel_clear, TypeOK
  <2>2. PoolInv'
    BY <1>10 DEF cancel_clear, TypeOK, PoolInv, NoAlarmLeft
  <2>3. PulseInv'
    BY <1>10 DEF cancel_clear, TypeOK, PoolInv, NoAlarmLeft, PulseInv, BootInv
  <2>4. BootInv'
    BY <1>10 DEF cancel_clear, TypeOK, PoolInv, NoAlarmLeft, BootInv, PulseInv
  <2> QED
    BY <2>1, <2>2, <2>3, <2>4
<1>11. CASE cancel_flag
  <2>1. TypeOK'
    BY <1>11, DurationAssumption DEF cancel_flag, TypeOK
  <2>2. PoolInv'
    BY <1>11 DEF cancel_flag, TypeOK, PoolInv, NoAlarmLeft
  <2>3. PulseInv'
    BY <1>11 DEF cancel_flag, TypeOK, PoolInv, NoAlarmLeft, PulseInv, BootInv
  <2>4. BootInv'
    BY <1>11 DEF cancel_flag, TypeOK, PoolInv, NoAlarmLeft, BootInv, PulseInv
  <2> QED
    BY <2>1, <2>2, <2>3, <2>4
<1>12. CASE start_flag
  <2>1. TypeOK'
    BY <1>12, DurationAssumption DEF start_flag, TypeOK
  <2>2. PoolInv'
    BY <1>12 DEF start_flag, TypeOK, PoolInv, NoAlarmLeft
  <2>3. PulseInv'
    BY <1>12 DEF start_flag, TypeOK, PoolInv, NoAlarmLeft, PulseInv, BootInv
  <2>4. BootInv'
    BY <1>12 DEF start_flag, TypeOK, PoolInv, NoAlarmLeft, BootInv, PulseInv
  <2> QED
    BY <2>1, <2>2, <2>3, <2>4
<1>13. CASE start_add
  <2>1. FreeId # {}
    <3>1. pending = Pending("pulse")
      BY <1>13 DEF start_add, TypeOK, BootInv
    <3> QED
      BY <3>1, RoomForAnother
  <2>2. PICK a \in Alarm :
          /\ a.cb = "boot"
          /\ a.id = s_boot_timer_alarm'
          /\ a.id \in FreeId
          /\ pending' = pending \cup {a}
    BY <2>1, <1>13, DurationAssumption DEF start_add, add_alarm, TypeOK, FreeId, BootInv
  <2>3. \A b \in pending : b.id # a.id
    BY <2>2 DEF FreeId
  <2>4. TypeOK'
    BY <2>2, <2>3, <1>13, DurationAssumption DEF start_add, TypeOK
  <2>5. PoolInv'
    BY <2>2, <2>3, <1>13 DEF start_add, TypeOK, PoolInv, NoAlarmLeft, PulseInv, BootInv
  <2>6. PulseInv'
    BY <2>2, <2>3, <1>13 DEF start_add, TypeOK, PoolInv, NoAlarmLeft, PulseInv, BootInv
  <2>7. BootInv'
    BY <2>2, <2>3, <1>13 DEF start_add, TypeOK, PoolInv, NoAlarmLeft, BootInv, PulseInv
  <2> QED
    BY <2>4, <2>5, <2>6, <2>7
<1>14. CASE expired_clear
  <2>1. TypeOK'
    BY <1>14, DurationAssumption DEF expired_clear, TypeOK
  <2>2. PoolInv'
    BY <1>14 DEF expired_clear, TypeOK, PoolInv, NoAlarmLeft
  <2>3. PulseInv'
    BY <1>14 DEF expired_clear, TypeOK, PoolInv, NoAlarmLeft, PulseInv, BootInv
  <2>4. BootInv'
    BY <1>14 DEF expired_clear, TypeOK, PoolInv, NoAlarmLeft, BootInv, PulseInv
  <2> QED
    BY <2>1, <2>2, <2>3, <2>4
<1>15. CASE power_btn_alarm_cb
  <2>1. TypeOK'
    BY <1>15, DurationAssumption DEF power_btn_alarm_cb, Due, TypeOK
  <2>2. PoolInv'
    BY <1>15 DEF power_btn_alarm_cb, Due, TypeOK, PoolInv, NoAlarmLeft
  <2>3. PulseInv'
    BY <1>15 DEF power_btn_alarm_cb, Due, TypeOK, PoolInv, NoAlarmLeft, PulseInv, BootInv
  <2>4. BootInv'
    BY <1>15 DEF power_btn_alarm_cb, Due, TypeOK, PoolInv, NoAlarmLeft, BootInv, PulseInv
  <2> QED
    BY <2>1, <2>2, <2>3, <2>4
<1>16. CASE boot_timer_alarm_cb
  <2>1. TypeOK'
    BY <1>16, DurationAssumption DEF boot_timer_alarm_cb, Due, TypeOK
  <2>2. PoolInv'
    BY <1>16 DEF boot_timer_alarm_cb, Due, TypeOK, PoolInv, NoAlarmLeft
  <2>3. PulseInv'
    BY <1>16 DEF boot_timer_alarm_cb, Due, TypeOK, PoolInv, NoAlarmLeft, PulseInv, BootInv
  <2>4. BootInv'
    BY <1>16 DEF boot_timer_alarm_cb, Due, TypeOK, PoolInv, NoAlarmLeft, BootInv, PulseInv
  <2> QED
    BY <2>1, <2>2, <2>3, <2>4
<1>17. CASE Tick
  <2>1. TypeOK /\ Tick
    BY <1>17
  <2>2. /\ \A b \in pending' : \E a \in pending : b.id = a.id /\ b.cb = a.cb
        /\ \A cb : Pending(cb) = {} <=> Pending(cb)' = {}
    BY <2>1, TickKeepsAlarms
  <2>3. TypeOK'
    BY <2>1, TickKeepsAlarms, DurationAssumption DEF Tick, TypeOK
  <2>4. PoolInv'
    BY <2>1, TickKeepsAlarms DEF Tick, TypeOK, PoolInv, NoAlarmLeft
  <2>5. PulseInv'
    BY <2>1, TickKeepsAlarms DEF Tick, TypeOK, PoolInv, NoAlarmLeft, PulseInv, BootInv
  <2>6. BootInv'
    BY <2>1, <2>2 DEF Tick, TypeOK, PoolInv, NoAlarmLeft, BootInv, PulseInv
  <2> QED
    BY <2>3, <2>4, <2>5, <2>6
<1>18. CASE UNCHANGED vars
  BY <1>18 DEF vars, TypeOK, PoolInv, NoAlarmLeft, PulseInv, BootInv
<1> QED
  BY <1>1, <1>2, <1>3, <1>4, <1>5, <1>6, <1>7, <1>8, <1>9, <1>10, <1>11, <1>12, <1>13, <1>14, <1>15, <1>16, <1>17, <1>18 DEF Next, Call, Step, Irq

\* HalInv is inductive, and holds of every behaviour.
THEOREM InvHolds == Spec => []HalInv
<1>1. Init => HalInv
  BY InitInv
<1>2. HalInv /\ [Next]_vars => HalInv'
  BY StepInv
<1> QED
  BY <1>1, <1>2, PTL DEF Spec

\* Every reachable state is well typed (pc_power_hal.c:13-15).
THEOREM TypeCorrect == Spec => []TypeOK
<1>1. HalInv => TypeOK
  BY DEF HalInv
<1> QED
  BY <1>1, InvHolds, PTL

\* Whatever instant an alarm fires at, no call of trigger_power_button
\* (pc_power_hal.c:63-74) returns with the button pressed and nothing
\* pending to release it.
THEOREM ButtonIsReleased == Spec => []ButtonNeverStuck
<1>1. HalInv => ButtonNeverStuck
  BY DEF HalInv, PulseInv, InTrigger, ButtonNeverStuck
<1> QED
  BY <1>1, InvHolds, PTL

\* start, cancel and the expiry report leave the timer as the caller asked,
\* however the timer interrupt falls among their statements
\* (pc_power_hal.c:28-35, 81-105).
THEOREM TimerIsAsAsked == Spec => []TimerAsAsked
<1>1. HalInv => TimerAsAsked
  BY DEF HalInv, BootInv, InCancel, TimerAsAsked
<1> QED
  BY <1>1, InvHolds, PTL

\* The HAL never holds more than one alarm for the pulse and one for the
\* timer, so that it cannot exhaust the pool.
THEOREM AlarmsDoNotLeak == Spec => []NoAlarmLeft
<1>1. HalInv => NoAlarmLeft
  BY DEF HalInv, PoolInv
<1> QED
  BY <1>1, InvHolds, PTL

-----------------------------------------------------------------------------
(* PcPowerHal implements PowerHalSpec: under the refinement mapping at the *)
(* end of PcPowerHal every step, interrupts included, is an operation of   *)
(* the abstract HAL or changes nothing it can see.                         *)
(*                                                                         *)
(* The mapping looks the time that is left up in the alarm pool.  The      *)
(* lemmas LineValue and TimerValue say once what it finds there; every     *)
(* case of the step is then argued on the two halves of the abstract       *)
(* state, the line and the timer, by itself.                               *)

\* The only alarm with its id has left what LeftOf says.
LEMMA LeftOfOne ==
    ASSUME NEW alarms, NEW a \in alarms,
           \A b \in alarms : b.id = a.id => b = a
    PROVE  LeftOf(alarms, a.id) = a.left
  <1>1. {b.left : b \in {c \in alarms : c.id = a.id}} = {a.left}
    OBVIOUS
  <1>. QED
    BY <1>1 DEF LeftOf

LineFacts ==
    /\ ~gpio_trigger => line = "low" /\ pulse_left = 0
    /\ gpio_trigger => line = "high"
    /\ gpio_trigger /\ InTrigger => pulse_left = arg
    /\ gpio_trigger /\ ~InTrigger =>
          /\ Pending("pulse") # {}
          /\ \A a \in Pending("pulse") : pulse_left = a.left

LEMMA LineValue == HalInv => LineFacts
  <1>. SUFFICES ASSUME HalInv, gpio_trigger, ~InTrigger
                PROVE  /\ Pending("pulse") # {}
                       /\ \A a \in Pending("pulse") : pulse_left = a.left
    BY DEF LineFacts, line, pulse_left
  <1>1. PICK a \in Pending("pulse") : a.id = s_power_btn_alarm
    BY DEF HalInv, PulseInv
  <1>2. \A b \in Pending("pulse") : b = a
    BY DEF HalInv, PoolInv, NoAlarmLeft, Pending
  <1>3. Remaining(s_power_btn_alarm) = a.left
    BY <1>1, LeftOfOne DEF HalInv, PoolInv, Pending, Remaining
  <1>. QED
    BY <1>1, <1>2, <1>3 DEF pulse_left

TimerFacts ==
    /\ s_boot_timer_expired => timer = "expired" /\ timer_left = 0
    /\ ~s_boot_timer_expired /\ Pending("boot") = {} =>
          timer = "idle" /\ timer_left = 0
    /\ \A a \in Pending("boot") :
          ~s_boot_timer_expired /\ timer = "running" /\ timer_left = a.left

LEMMA TimerValue == HalInv => TimerFacts
  <1>. SUFFICES ASSUME HalInv, NEW a \in Pending("boot")
                PROVE  /\ ~s_boot_timer_expired
                       /\ timer = "running"
                       /\ timer_left = a.left
    BY DEF TimerFacts, timer, timer_left
  <1>1. ~s_boot_timer_expired /\ timer = "running"
    BY DEF HalInv, BootInv, timer
  <1>2. a.id = s_boot_timer_alarm
    BY DEF HalInv, BootInv, InCancel
  <1>3. Remaining(s_boot_timer_alarm) = a.left
    BY <1>2, LeftOfOne DEF HalInv, PoolInv, Pending, Remaining
  <1>. QED
    BY <1>1, <1>3 DEF timer_left

LEMMA LineValueNext == HalInv' => LineFacts'
  BY LineValue, PTL

LEMMA TimerValueNext == HalInv' => TimerFacts'
  BY TimerValue, PTL

\* Steps that leave one half alone.
LEMMA SameLine ==
    ASSUME LineFacts, LineFacts', UNCHANGED gpio_trigger,
           \/ ~gpio_trigger
           \/ InTrigger /\ InTrigger' /\ UNCHANGED arg
           \/ ~InTrigger /\ ~InTrigger' /\ UNCHANGED Pending("pulse")
    PROVE  UNCHANGED <<line, pulse_left>>
  <1>1. CASE ~gpio_trigger
    BY <1>1 DEF LineFacts
  <1>2. CASE gpio_trigger /\ InTrigger /\ InTrigger' /\ UNCHANGED arg
    BY <1>2 DEF LineFacts
  <1>3. CASE gpio_trigger /\ ~InTrigger /\ ~InTrigger'
                          /\ UNCHANGED Pending("pulse")
    BY <1>3 DEF LineFacts
  <1>. QED
    BY <1>1, <1>2, <1>3

LEMMA SameTimer ==
    ASSUME TimerFacts, TimerFacts', UNCHANGED s_boot_timer_expired,
           UNCHANGED Pending("boot")
    PROVE  UNCHANGED <<timer, timer_left>>
  <1>1. CASE s_boot_timer_expired
    BY <1>1 DEF TimerFacts
  <1>2. CASE ~s_boot_timer_expired /\ Pending("boot") = {}
    BY <1>2 DEF TimerFacts
  <1>3. CASE Pending("boot") # {}
    BY <1>3 DEF TimerFacts
  <1>. QED
    BY <1>1, <1>2, <1>3

-----------------------------------------------------------------------------
(* The interrupts.                                                         *)

LEMMA PulseEnds ==
    ASSUME HalInv, HalInv', power_btn_alarm_cb
    PROVE  Abstract!PulseEnd /\ UNCHANGED <<timer, timer_left>>
  <1>. USE LineValue, TimerValue, LineValueNext, TimerValueNext
  <1>1. PICK a \in Due :
           /\ a.cb = "pulse"
           /\ gpio_trigger' = FALSE
           /\ pending' = pending \ {a}
           /\ UNCHANGED <<boot, pc, arg>>
    BY DEF power_btn_alarm_cb
  <1>2. a \in Pending("pulse") /\ a.left = 0
    BY <1>1 DEF Due, Pending
  <1>3. gpio_trigger /\ ~InTrigger
    BY <1>2 DEF HalInv, PulseInv
  <1>4. line = "high" /\ pulse_left = 0
    BY <1>2, <1>3 DEF LineFacts
  <1>5. line' = "low" /\ pulse_left' = 0
    BY <1>1 DEF LineFacts
  <1>6. UNCHANGED Pending("boot")
    BY <1>1 DEF Pending
  <1>. QED
    BY <1>1, <1>4, <1>5, <1>6, SameTimer DEF boot, Abstract!PulseEnd

LEMMA TimerExpires ==
    ASSUME HalInv, HalInv', boot_timer_alarm_cb
    PROVE  Abstract!Expire /\ UNCHANGED <<line, pulse_left>>
  <1>. USE LineValue, TimerValue, LineValueNext, TimerValueNext
  <1>1. PICK a \in Due :
           /\ a.cb = "boot"
           /\ s_boot_timer_expired' = TRUE
           /\ pending' = pending \ {a}
           /\ UNCHANGED <<gpio_trigger, pc, arg>>
    BY DEF boot_timer_alarm_cb
  <1>2. a \in Pending("boot") /\ a.left = 0
    BY <1>1 DEF Due, Pending
  <1>3. timer = "running" /\ timer_left = 0
    BY <1>2 DEF TimerFacts
  <1>4. timer' = "expired" /\ timer_left' = 0
    BY <1>1 DEF TimerFacts
  <1>5. UNCHANGED Pending("pulse")
    BY <1>1 DEF Pending
  <1>6. InTrigger' <=> InTrigger
    BY <1>1 DEF InTrigger
  <1>. QED
    BY <1>1, <1>3, <1>4, <1>5, <1>6, SameLine DEF Abstract!Expire

\* Time: the alarm behind each half comes one unit nearer.
LEMMA TimePasses ==
    ASSUME HalInv, HalInv', Tick
    PROVE  Abstract!Tick
  <1>. USE LineValue, TimerValue, LineValueNext, TimerValueNext
  <1>0. /\ \A b \in pending' : \E a \in pending :
              b = [a EXCEPT !.left = a.left - 1] /\ b.cb = a.cb
        /\ \A cb : Pending(cb) = {} <=> Pending(cb)' = {}
    BY TickKeepsAlarms DEF HalInv
  <1>1. ~InTrigger /\ ~InTrigger'
    BY DEF Tick, InTrigger
  <1>2. UNCHANGED <<gpio_trigger, s_boot_timer_expired>>
    BY DEF Tick, boot
  <1>3. \A a \in pending : a.left \in Nat /\ a.left > 0
    BY DEF Tick, Due, HalInv, TypeOK, Alarm
  <1>4. \A cb : \A b \in Pending(cb)' : \E a \in Pending(cb) :
           b.left = a.left - 1 /\ a.left > 0 /\ a.left \in Nat
    <2>1. SUFFICES ASSUME NEW cb, NEW b \in Pending(cb)'
                   PROVE  \E a \in Pending(cb) :
                            b.left = a.left - 1 /\ a.left > 0 /\ a.left \in Nat
      OBVIOUS
    <2>2. PICK a \in pending :
             b = [a EXCEPT !.left = a.left - 1] /\ b.cb = a.cb
      BY <1>0 DEF Pending
    <2>3. a \in Pending(cb)
      BY <2>2 DEF Pending
    <2>4. b.left = a.left - 1
      BY <2>2 DEF HalInv, TypeOK, Alarm
    <2>. QED
      BY <1>3, <2>3, <2>4 DEF Pending
  <1>5. /\ line = "high" => pulse_left > 0
        /\ UNCHANGED line
        /\ pulse_left' = Abstract!Less(pulse_left)
    <2>1. CASE gpio_trigger
      <3>1. PICK b \in Pending("pulse")' : TRUE
        BY <1>1, <1>2, <2>1 DEF LineFacts
      <3>2. PICK a \in Pending("pulse") :
               b.left = a.left - 1 /\ a.left > 0 /\ a.left \in Nat
        BY <1>4, <3>1
      <3>3. pulse_left = a.left /\ pulse_left' = b.left
        BY <1>1, <1>2, <2>1, <3>1, <3>2 DEF LineFacts
      <3>. QED
        BY <1>2, <2>1, <3>2, <3>3 DEF LineFacts, Abstract!Less
    <2>2. CASE ~gpio_trigger
      BY <1>2, <2>2 DEF LineFacts, Abstract!Less
    <2>. QED
      BY <2>1, <2>2
  <1>6. /\ timer = "running" => timer_left > 0
        /\ UNCHANGED timer
        /\ timer_left' = Abstract!Less(timer_left)
    <2>1. CASE Pending("boot") # {}
      <3>1. PICK b \in Pending("boot")' : TRUE
        BY <1>0, <2>1
      <3>2. PICK a \in Pending("boot") :
               b.left = a.left - 1 /\ a.left > 0 /\ a.left \in Nat
        BY <1>4, <3>1
      <3>3. /\ timer = "running" /\ timer_left = a.left
            /\ timer' = "running" /\ timer_left' = b.left
        BY <3>1, <3>2 DEF TimerFacts
      <3>. QED
        BY <3>2, <3>3 DEF Abstract!Less
    <2>2. CASE Pending("boot") = {}
      <3>1. Pending("boot")' = {}
        BY <1>0, <2>2
      <3>. QED
        BY <1>2, <2>2, <3>1 DEF TimerFacts, Abstract!Less
    <2>. QED
      BY <2>1, <2>2
  <1>. QED
    BY <1>5, <1>6 DEF Abstract!Tick

-----------------------------------------------------------------------------
(* The calls.  Each statement is an operation on one half, or a stutter.   *)

Invisible == UNCHANGED <<line, pulse_left, timer, timer_left>>

\* A statement that touches neither the line nor the timer nor the pool.
LEMMA QuietStep ==
    ASSUME HalInv, HalInv',
           UNCHANGED <<gpio_trigger, s_boot_timer_expired, pending>>,
           ~gpio_trigger \/ (InTrigger' <=> InTrigger),
           InTrigger => UNCHANGED arg
    PROVE  Invisible
  <1>1. UNCHANGED Pending("pulse") /\ UNCHANGED Pending("boot")
    BY DEF Pending
  <1>2. UNCHANGED <<line, pulse_left>>
    BY <1>1, LineValue, LineValueNext, SameLine
  <1>3. UNCHANGED <<timer, timer_left>>
    BY <1>1, TimerValue, TimerValueNext, SameTimer
  <1>. QED
    BY <1>2, <1>3 DEF Invisible

LEMMA CallStarts == ASSUME HalInv, HalInv', Call PROVE Invisible
  <1>1. CASE \E d \in PulseMs : trigger_power_button(d)
    <2>1. pc = "idle" /\ UNCHANGED <<gpio_trigger, boot, pending>>
      BY <1>1 DEF trigger_power_button
    <2>2. ~gpio_trigger \/ ~InTrigger'
      <3>1. gpio_trigger => s_power_btn_alarm # NoAlarm
        BY <2>1, AlarmIdAssumption
           DEF HalInv, PulseInv, InTrigger, TypeOK, Alarm, Pending, NoAlarm
      <3>. QED
        BY <1>1, <3>1 DEF trigger_power_button, InTrigger
    <2>. QED
      BY <2>1, <2>2, QuietStep DEF boot, InTrigger
  <1>2. CASE (\E t \in TimeoutMs : start_boot_timer(t)) \/ cancel_boot_timer
    BY <1>2, QuietStep
       DEF start_boot_timer, cancel_boot_timer, cancel_call, boot, InTrigger
  <1>3. CASE boot_timer_expired
    BY <1>3, QuietStep DEF boot_timer_expired, boot, InTrigger
  <1>. QED
    BY <1>1, <1>2, <1>3 DEF Call

\* The pulse in flight ends as the new one begins.
LEMMA TriggerStep ==
    ASSUME HalInv, HalInv', trigger_cancel \/ trigger_high
    PROVE  /\ Abstract!Next \/ Invisible
           /\ UNCHANGED <<timer, timer_left>>
  <1>. USE LineValue, TimerValue, LineValueNext, TimerValueNext
  <1>1. UNCHANGED boot /\ UNCHANGED arg /\ InTrigger' /\ arg \in PulseMs
    BY DEF trigger_cancel, trigger_high, InTrigger, HalInv, PulseInv
  <1>2. UNCHANGED Pending("boot")
    <2>1. CASE trigger_cancel
      <3>1. PICK id \in {loaded, s_power_btn_alarm} : cancel_alarm(id)
        BY <2>1 DEF trigger_cancel
      <3>2. \A a \in Pending("boot") : a.id # id
        BY <2>1, <3>1, AlarmIdAssumption
           DEF trigger_cancel, HalInv, PulseInv, InTrigger, TypeOK, Alarm,
               Pending, NoAlarm
      <3>. QED
        BY <3>1, <3>2 DEF cancel_alarm, Pending
    <2>2. CASE trigger_high
      BY <2>2 DEF trigger_high, Pending
    <2>. QED
      BY <2>1, <2>2
  <1>3. UNCHANGED <<timer, timer_left>>
    BY <1>1, <1>2, SameTimer DEF boot
  <1>4. CASE gpio_trigger'
    <2>1. line' = "high" /\ pulse_left' = arg
      BY <1>1, <1>4 DEF LineFacts
    <2>. QED
      BY <1>1, <1>3, <2>1 DEF Abstract!Next, Abstract!Trigger,
         Abstract!timerVars
  <1>5. CASE ~gpio_trigger'
    <2>1. UNCHANGED gpio_trigger
      BY <1>5 DEF trigger_cancel, trigger_high
    <2>2. UNCHANGED <<line, pulse_left>>
      BY <1>5, <2>1, SameLine
    <2>. QED
      BY <1>3, <2>2 DEF Invisible
  <1>. QED
    BY <1>3, <1>4, <1>5

\* The alarm of the new pulse is due when the pulse is to end.
LEMMA TriggerAdds ==
    ASSUME HalInv, HalInv', trigger_add
    PROVE  Invisible
  <1>. USE LineValue, TimerValue, LineValueNext, TimerValueNext
  <1>1. /\ pc = "trigger_add" /\ pc' = "idle"
        /\ add_alarm("pulse", arg, s_power_btn_alarm')
        /\ UNCHANGED <<gpio_trigger, boot, arg>>
    BY DEF trigger_add
  <1>2. InTrigger /\ ~InTrigger' /\ gpio_trigger /\ Pending("pulse") = {}
    BY <1>1 DEF InTrigger, HalInv, PulseInv
  <1>3. FreeId # {}
    <2>1. pending = Pending("boot")
      BY <1>2 DEF HalInv, TypeOK, Alarm, Pending
    <2>. QED
      BY <2>1, RoomForAnother DEF HalInv
  <1>. DEFINE new == [id |-> s_power_btn_alarm', cb |-> "pulse", left |-> arg]
  <1>4. pending' = pending \cup {new}
    BY <1>1, <1>3 DEF add_alarm
  <1>5. new \in Pending("pulse")' /\ UNCHANGED Pending("boot")
    BY <1>4 DEF Pending
  <1>6. UNCHANGED <<line, pulse_left>>
    BY <1>1, <1>2, <1>5 DEF LineFacts
  <1>7. UNCHANGED <<timer, timer_left>>
    BY <1>1, <1>5, SameTimer DEF boot
  <1>. QED
    BY <1>6, <1>7 DEF Invisible

\* Cancelling the alarm, or clearing the flag, leaves the timer idle.
LEMMA CancelStep ==
    ASSUME HalInv, HalInv', cancel_cancel \/ cancel_flag \/ expired_clear
    PROVE  Abstract!Next \/ Invisible
  <1>. USE LineValue, TimerValue, LineValueNext, TimerValueNext
  <1>1. UNCHANGED gpio_trigger /\ ~InTrigger /\ ~InTrigger'
    BY DEF cancel_cancel, cancel_flag, expired_clear, InTrigger, boot
  <1>2. UNCHANGED Pending("pulse")
    <2>1. CASE cancel_cancel
      <3>1. PICK id \in {loaded, s_boot_timer_alarm} : cancel_alarm(id)
        BY <2>1 DEF cancel_cancel
      <3>2. \A a \in Pending("pulse") : a.id # id
        <4>1. \A a \in Pending("pulse") : a.id # loaded
          BY <2>1 DEF cancel_cancel, HalInv, BootInv
        <4>2. s_boot_timer_alarm # loaded => s_boot_timer_alarm = NoAlarm
          BY <2>1 DEF cancel_cancel, HalInv, BootInv, InCancel
        <4>3. \A a \in Pending("pulse") : a.id # NoAlarm
          BY AlarmIdAssumption DEF HalInv, TypeOK, Alarm, Pending, NoAlarm
        <4>. QED
          BY <3>1, <4>1, <4>2, <4>3
      <3>. QED
        BY <3>1, <3>2 DEF cancel_alarm, Pending
    <2>2. CASE cancel_flag \/ expired_clear
      BY <2>2 DEF cancel_flag, expired_clear, Pending
    <2>. QED
      BY <2>1, <2>2
  <1>3. UNCHANGED <<line, pulse_left>>
    BY <1>1, <1>2, SameLine
  <1>4. CASE cancel_cancel
    <2>1. UNCHANGED s_boot_timer_expired /\ Pending("boot")' = {}
      BY <1>4 DEF cancel_cancel, boot, HalInv, BootInv, InCancel
    <2>2. CASE s_boot_timer_expired
      <3>1. UNCHANGED <<timer, timer_left>>
        BY <2>1, <2>2 DEF TimerFacts
      <3>. QED
        BY <1>3, <3>1 DEF Invisible
    <2>3. CASE ~s_boot_timer_expired
      <3>1. timer' = "idle" /\ timer_left' = 0
        BY <2>1, <2>3 DEF TimerFacts
      <3>. QED
        BY <1>3, <3>1 DEF Abstract!Next, Abstract!CancelTimer,
           Abstract!lineVars
    <2>. QED
      BY <2>2, <2>3
  <1>5. CASE cancel_flag
    <2>1. ~s_boot_timer_expired' /\ Pending("boot")' = {}
      BY <1>5 DEF cancel_flag, HalInv, BootInv, InCancel, Pending
    <2>2. timer' = "idle" /\ timer_left' = 0
      BY <2>1 DEF TimerFacts
    <2>. QED
      BY <1>3, <2>2 DEF Abstract!Next, Abstract!CancelTimer, Abstract!lineVars
  <1>6. CASE expired_clear
    <2>1. s_boot_timer_expired /\ ~s_boot_timer_expired'
      BY <1>6 DEF expired_clear, HalInv, BootInv
    <2>2. Pending("boot")' = {}
      BY <1>6, <2>1 DEF expired_clear, HalInv, BootInv, Pending
    <2>3. timer = "expired" /\ timer' = "idle" /\ timer_left' = 0
      BY <2>1, <2>2 DEF TimerFacts
    <2>. QED
      BY <1>3, <2>3 DEF Abstract!Next, Abstract!ReportExpiry,
         Abstract!lineVars
  <1>. QED
    BY <1>4, <1>5, <1>6

\* The timer runs from the moment its alarm is added.
LEMMA StartAdds ==
    ASSUME HalInv, HalInv', start_add
    PROVE  Abstract!Next
  <1>. USE LineValue, TimerValue, LineValueNext, TimerValueNext
  <1>1. /\ pc = "start_add" /\ pc' = "idle"
        /\ add_alarm("boot", arg, s_boot_timer_alarm')
        /\ UNCHANGED <<gpio_trigger, s_boot_timer_expired, arg>>
    BY DEF start_add
  <1>2. /\ ~InTrigger /\ ~InTrigger'
        /\ Pending("boot") = {} /\ arg \in TimeoutMs
    BY <1>1 DEF InTrigger, InCancel, HalInv, BootInv
  <1>3. FreeId # {}
    <2>1. pending = Pending("pulse")
      BY <1>2 DEF HalInv, TypeOK, Alarm, Pending
    <2>. QED
      BY <2>1, RoomForAnother DEF HalInv
  <1>. DEFINE new == [id |-> s_boot_timer_alarm', cb |-> "boot", left |-> arg]
  <1>4. pending' = pending \cup {new}
    BY <1>1, <1>3 DEF add_alarm
  <1>5. new \in Pending("boot")' /\ UNCHANGED Pending("pulse")
    BY <1>4 DEF Pending
  <1>6. timer' = "running" /\ timer_left' = arg
    BY <1>5 DEF TimerFacts
  <1>7. UNCHANGED <<line, pulse_left>>
    BY <1>1, <1>2, <1>5, SameLine
  <1>. QED
    BY <1>2, <1>6, <1>7 DEF Abstract!Next, Abstract!StartTimer,
       Abstract!lineVars

-----------------------------------------------------------------------------
(* The refinement.                                                         *)

LEMMA InitRefines == Init => Abstract!Init
  BY DEF Init, Abstract!Init, line, pulse_left, timer, timer_left, Pending

LEMMA StepRefines ==
    HalInv /\ HalInv' /\ [Next]_vars => [Abstract!Next]_(Abstract!vars)
  <1>. SUFFICES ASSUME HalInv, HalInv', [Next]_vars
                PROVE  Abstract!Next \/ Invisible
    BY DEF Invisible, Abstract!vars
  <1>1. CASE Call
    BY <1>1, CallStarts
  <1>2. CASE trigger_cancel \/ trigger_high
    BY <1>2, TriggerStep
  <1>3. CASE trigger_clear
    BY <1>3, QuietStep DEF trigger_clear, boot, InTrigger
  <1>4. CASE trigger_add
    BY <1>4, TriggerAdds
  <1>5. CASE cancel_cancel \/ cancel_flag \/ expired_clear
    BY <1>5, CancelStep
  <1>6. CASE cancel_clear
    BY <1>6, QuietStep DEF cancel_clear, boot, InTrigger
  <1>7. CASE start_flag
    <2>1. UNCHANGED s_boot_timer_expired
      BY <1>7 DEF start_flag, HalInv, BootInv, InCancel, TypeOK
    <2>. QED
      BY <1>7, <2>1, QuietStep DEF start_flag, InTrigger
  <1>8. CASE start_add
    BY <1>8, StartAdds
  <1>9. CASE power_btn_alarm_cb
    BY <1>9, PulseEnds DEF Abstract!Next, Abstract!timerVars
  <1>10. CASE boot_timer_alarm_cb
    BY <1>10, TimerExpires DEF Abstract!Next, Abstract!lineVars
  <1>11. CASE Tick
    BY <1>11, TimePasses DEF Abstract!Next
  <1>12. CASE UNCHANGED vars
    BY <1>12, QuietStep DEF vars, boot, InTrigger
  <1>. QED
    BY <1>1, <1>2, <1>3, <1>4, <1>5, <1>6, <1>7, <1>8, <1>9, <1>10, <1>11,
       <1>12 DEF Next, Step, Irq

\* pc_power_hal.c, preempted by its alarm callbacks at any statement, does
\* what pc_power_hal.h describes.
THEOREM Refinement == Spec => ImplementsSpec
  <1>1. Init => Abstract!Init
    BY InitRefines
  <1>2. HalInv /\ HalInv' /\ [Next]_vars => [Abstract!Next]_(Abstract!vars)
    BY StepRefines
  <1>. QED
    BY <1>1, <1>2, InvHolds, PTL DEF Spec, ImplementsSpec, Abstract!Spec

=============================================================================
