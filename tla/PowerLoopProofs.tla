-------------------------- MODULE PowerLoopProofs --------------------------
(***************************************************************************)
(* Proofs of the safety properties of PowerLoop, for any clock, durations  *)
(* and bound on the USB queue.  All of them follow from LoopInv.  Every    *)
(* stage of the loop that feeds the state machine does it through deliver, *)
(* so the lemmas on deliver carry most of the argument; they rest on a     *)
(* lemma about the tables of the state machine.                            *)
(***************************************************************************)
EXTENDS PowerLoop, TLAPS

-----------------------------------------------------------------------------
(* The inductive invariant behind the safety properties.                   *)

\* While a pulse is unanswered the machine waits for the PC, and its boot
\* timer has at least as long to run.
HoldoffInv ==
    holdoff > 0 => /\ s_power_sm = "BOOTING"
                   /\ timer = "running"
                   /\ holdoff <= timer_left

\* What every event delivered to the state machine preserves.
PowerInv ==
    /\ s_power_sm \in PcState
    /\ HAL!TypeOK
    /\ holdoff \in Nat
    /\ TimerMatchesState
    /\ HoldoffInv

LoopInv == TypeOK /\ PowerInv /\ OnOnlyIfMounted

-----------------------------------------------------------------------------
(* The state machine.                                                      *)

\* What the handlers of pc_power_state.c do with the boot timer and the power
\* button: BOOTING is entered with the timer started and left by the USB host
\* or the LED with the timer cancelled, by the timeout without; the button is
\* pressed only on entering BOOTING.
LEMMA Tables ==
    ASSUME NEW state \in PcState, NEW event \in PcEvent,
           NEW r, r = pc_power_sm_process(state, event)
    PROVE  /\ r.new_state \in PcState
           /\ "CANCEL_BOOT_TIMER" \in r.actions <=>
                 state = "BOOTING" /\ event \in Evidence
           /\ "START_BOOT_TIMER" \in r.actions =>
                 state # "BOOTING" /\ r.new_state = "BOOTING"
           /\ "START_BOOT_TIMER" \notin r.actions /\ state # "BOOTING" =>
                 r.new_state # "BOOTING"
           /\ state = "BOOTING" =>
                 (r.new_state # "BOOTING" <=>
                     event \in Evidence \cup {"BOOT_TIMEOUT"})
           /\ Triggers(r.actions) => "START_BOOT_TIMER" \in r.actions
           /\ event = "BOOT_TIMEOUT" => r.actions = {}
           /\ r.new_state = "ON" =>
                 \/ event = "USB_ENUMERATED"
                 \/ state = "ON" /\ event # "USB_SUSPENDED"
  <1>1. CASE state = "OFF"
    BY <1>1 DEF pc_power_sm_process, handle_off, transition,
       no_change, PcState, PcEvent, Evidence, Triggers
  <1>2. CASE state = "BOOTING"
    BY <1>2 DEF pc_power_sm_process, handle_booting, transition,
       no_change, PcState, PcEvent, Evidence, Triggers
  <1>3. CASE state = "ON"
    BY <1>3 DEF pc_power_sm_process, handle_on, transition,
       no_change, PcState, PcEvent, Evidence, Triggers
  <1>4. CASE state = "SLEEPING"
    BY <1>4 DEF pc_power_sm_process, handle_sleeping, transition,
       no_change, PcState, PcEvent, Evidence, Triggers
  <1>. QED
    BY <1>1, <1>2, <1>3, <1>4 DEF PcState


-----------------------------------------------------------------------------
(* Delivering an event.                                                    *)

\* dispatch_actions on the result of an event: the boot timer afterwards.
LEMMA Dispatch ==
    ASSUME NEW event \in PcEvent, PowerInv,
           NEW r, r = pc_power_sm_process(s_power_sm, event),
           dispatch_actions(r.actions, TimerUnchanged)
    PROVE  /\ HAL!TypeOK'
           /\ "START_BOOT_TIMER" \in r.actions =>
                 timer' = "running" /\ timer_left' \in Nat
           /\ "CANCEL_BOOT_TIMER" \in r.actions => timer' = "idle"
           /\ /\ "START_BOOT_TIMER" \notin r.actions
              /\ "CANCEL_BOOT_TIMER" \notin r.actions
              => UNCHANGED <<timer, timer_left>>
  <1>1. ~("START_BOOT_TIMER" \in r.actions /\ "CANCEL_BOOT_TIMER" \in r.actions)
    BY Tables DEF PowerInv
  <1>2. line' \in {"low", "high"} /\ pulse_left' \in Nat
    <2>1. CASE Triggers(r.actions)
      BY <2>1, PowerAssumption DEF dispatch_actions, HAL!Trigger
    <2>2. CASE ~Triggers(r.actions)
      BY <2>2 DEF dispatch_actions, PowerInv, HAL!TypeOK
    <2>. QED
      BY <2>1, <2>2
  <1>3. CASE "CANCEL_BOOT_TIMER" \in r.actions
    <2>1. timer' = "idle" /\ timer_left' = 0
      BY <1>3 DEF dispatch_actions, HAL!CancelTimer
    <2>. QED
      BY <1>1, <1>2, <1>3, <2>1 DEF HAL!TypeOK
  <1>4. CASE /\ "CANCEL_BOOT_TIMER" \notin r.actions
             /\ "START_BOOT_TIMER" \in r.actions
    <2>1. timer' = "running" /\ timer_left' \in Nat
      BY <1>4, PowerAssumption DEF dispatch_actions, HAL!StartTimer
    <2>. QED
      BY <1>2, <1>4, <2>1 DEF HAL!TypeOK
  <1>5. CASE /\ "CANCEL_BOOT_TIMER" \notin r.actions
             /\ "START_BOOT_TIMER" \notin r.actions
    <2>1. UNCHANGED <<timer, timer_left>>
      BY <1>5 DEF dispatch_actions, TimerUnchanged
    <2>. QED
      BY <1>2, <1>5, <2>1 DEF HAL!TypeOK, PowerInv
  <1>. QED
    BY <1>3, <1>4, <1>5

\* An event of the USB bus, the LED or the controller keeps the invariant,
\* presses the button only when no pulse is unanswered, and takes the machine
\* to ON, or leaves it there, only if it says that the PC has enumerated the
\* device, or at least not that the bus is down.
LEMMA DeliverEvent ==
    ASSUME NEW event \in PcEvent \ {"BOOT_TIMEOUT"}, PowerInv,
           deliver(event, TimerUnchanged)
    PROVE  /\ PowerInv'
           /\ Press => holdoff = 0
           /\ s_power_sm' = "ON" =>
                 \/ event = "USB_ENUMERATED"
                 \/ s_power_sm = "ON" /\ event # "USB_SUSPENDED"
  <1>. DEFINE r == pc_power_sm_process(s_power_sm, event)
  <1>1. /\ s_power_sm' = r.new_state
        /\ dispatch_actions(r.actions, TimerUnchanged)
        /\ holdoff' = IF Triggers(r.actions) THEN timer_left'
                      ELSE IF event \in Evidence THEN 0 ELSE holdoff
    BY Zenon DEF deliver
  <1>2. event \in PcEvent
    OBVIOUS
  <1>3. s_power_sm \in PcState
    BY DEF PowerInv
  <1>. HIDE DEF r
  <1>4. r = pc_power_sm_process(s_power_sm, event)
    BY DEF r
  <1>5. /\ HAL!TypeOK'
        /\ "START_BOOT_TIMER" \in r.actions =>
              timer' = "running" /\ timer_left' \in Nat
        /\ "CANCEL_BOOT_TIMER" \in r.actions => timer' = "idle"
        /\ /\ "START_BOOT_TIMER" \notin r.actions
           /\ "CANCEL_BOOT_TIMER" \notin r.actions
           => UNCHANGED <<timer, timer_left>>
    BY <1>1, <1>2, <1>4, Dispatch
  <1>6. /\ r.new_state \in PcState
        /\ "CANCEL_BOOT_TIMER" \in r.actions <=>
              s_power_sm = "BOOTING" /\ event \in Evidence
        /\ "START_BOOT_TIMER" \in r.actions =>
              s_power_sm # "BOOTING" /\ r.new_state = "BOOTING"
        /\ "START_BOOT_TIMER" \notin r.actions /\ s_power_sm # "BOOTING" =>
              r.new_state # "BOOTING"
        /\ s_power_sm = "BOOTING" =>
              (r.new_state # "BOOTING" <=>
                  event \in Evidence \cup {"BOOT_TIMEOUT"})
        /\ Triggers(r.actions) => "START_BOOT_TIMER" \in r.actions
        /\ r.new_state = "ON" =>
              \/ event = "USB_ENUMERATED"
              \/ s_power_sm = "ON" /\ event # "USB_SUSPENDED"
    BY <1>2, <1>3, <1>4, Tables
  <1>7. holdoff \in Nat /\ TimerMatchesState /\ HoldoffInv
    BY DEF PowerInv
  <1>8. TimerMatchesState'
    BY <1>1, <1>5, <1>6, <1>7 DEF TimerMatchesState
  <1>9. holdoff' \in Nat /\ HoldoffInv'
    <2>1. CASE Triggers(r.actions)
      BY <1>1, <1>5, <1>6, <2>1 DEF HoldoffInv
    <2>2. CASE ~Triggers(r.actions) /\ event \in Evidence
      BY <1>1, <2>2 DEF HoldoffInv
    <2>3. CASE ~Triggers(r.actions) /\ event \notin Evidence
      <3>1. holdoff' = holdoff
        BY <1>1, <2>3
      <3>2. CASE holdoff > 0
        <4>1. s_power_sm = "BOOTING" /\ timer = "running" /\ holdoff <= timer_left
          BY <1>7, <3>2 DEF HoldoffInv
        <4>2. s_power_sm' = "BOOTING" /\ UNCHANGED <<timer, timer_left>>
          BY <1>1, <1>5, <1>6, <2>3, <4>1
        <4>. QED
          BY <1>7, <3>1, <4>1, <4>2 DEF HoldoffInv
      <3>3. CASE ~(holdoff > 0)
        BY <1>7, <3>1, <3>3 DEF HoldoffInv
      <3>. QED
        BY <3>2, <3>3
    <2>. QED
      BY <2>1, <2>2, <2>3
  <1>10. Press => holdoff = 0
    <2>1. ~Triggers(r.actions) => UNCHANGED <<line, pulse_left>>
      BY <1>1 DEF dispatch_actions
    <2>2. Press => Triggers(r.actions)
      BY <2>1 DEF Press, PowerInv, HAL!TypeOK
    <2>. QED
      BY <1>6, <1>7, <2>2 DEF HoldoffInv
  <1>. QED
    BY <1>1, <1>5, <1>6, <1>8, <1>9, <1>10 DEF PowerInv

\* The same of the boot timeout, which is delivered by the call that consumes
\* the expiry of the timer.
LEMMA DeliverTimeout ==
    ASSUME PowerInv, timer = "expired",
           deliver("BOOT_TIMEOUT", HAL!ReportExpiry)
    PROVE  /\ PowerInv'
           /\ ~Press
           /\ s_power_sm' # "ON"
  <1>. DEFINE r == pc_power_sm_process(s_power_sm, "BOOT_TIMEOUT")
  <1>1. /\ s_power_sm' = r.new_state
        /\ dispatch_actions(r.actions, HAL!ReportExpiry)
        /\ holdoff' = IF Triggers(r.actions) THEN timer_left'
                      ELSE IF "BOOT_TIMEOUT" \in Evidence THEN 0 ELSE holdoff
    BY Zenon DEF deliver
  <1>2. s_power_sm = "BOOTING"
    BY DEF PowerInv, TimerMatchesState
  <1>3. r.new_state = "OFF" /\ r.actions = {}
    BY <1>2 DEF pc_power_sm_process, handle_booting, transition
  <1>. HIDE DEF r
  <1>4. /\ s_power_sm' = "OFF"
        /\ UNCHANGED <<line, pulse_left, holdoff>>
        /\ timer' = "idle" /\ timer_left' = 0
    BY <1>1, <1>3 DEF dispatch_actions, Triggers, Evidence, HAL!ReportExpiry
  <1>5. holdoff = 0
    BY DEF PowerInv, HoldoffInv
  <1>. QED
    BY <1>4, <1>5 DEF PowerInv, HAL!TypeOK, PcState, TimerMatchesState,
       HoldoffInv, Press

\* A step that leaves the machine and the HAL alone.
LEMMA NothingDelivered ==
    ASSUME PowerInv, nothing_to_deliver
    PROVE  PowerInv' /\ ~Press
  <1>1. UNCHANGED <<s_power_sm, line, pulse_left, timer, timer_left, holdoff>>
    BY DEF nothing_to_deliver, halVars
  <1>. QED
    BY <1>1 DEF PowerInv, HAL!TypeOK, TimerMatchesState, HoldoffInv, Press

-----------------------------------------------------------------------------
(* The invariant.                                                          *)

\* Time that passes stays a time, modulo the clock.
LEMMA AdvanceType == ASSUME NEW t \in Time PROVE Advance(t) \in Time
  BY TimingAssumption DEF Time, Advance

\* Polling the LED keeps the debouncer's types.
LEMMA DebounceKeeps ==
    ASSUME DebounceTypeOK, led \in BOOLEAN, now_ms \in Time,
           poll_led(led, now_ms)
    PROVE  DebounceTypeOK'
  BY DEF DebounceTypeOK, poll_led

\* The invariant holds of the loop that has just been set up.
LEMMA InitInv == Init => LoopInv
  BY TimingAssumption DEF Init, LoopInv, TypeOK, PowerInv, OnOnlyIfMounted,
     pc_power_sm_init, PcState, HAL!Init, HAL!TypeOK, UsbState, DebounceInit,
     DebounceTypeOK, Time, TimerMatchesState, HoldoffInv

\* One pass of the interrupts and of the PC's side.
LEMMA EnvironmentKeeps ==
    ASSUME LoopInv, Alarm \/ LedChanges \/ HostEvent
    PROVE  LoopInv' /\ ~Press
  <1>. USE DEF LoopInv, TypeOK, PowerInv, HAL!TypeOK
  <1>1. CASE Alarm
    <2>1. UNCHANGED <<s_power_sm, s_state, debounceVars, envVars, clock,
                      now_ms, pc, holdoff>>
      BY <1>1 DEF Alarm
    <2>2. CASE HAL!PulseEnd /\ TimerUnchanged
      BY <2>1, <2>2 DEF HAL!PulseEnd, TimerUnchanged, debounceVars, envVars,
         DebounceTypeOK, TimerMatchesState, HoldoffInv, OnOnlyIfMounted, Press
    <2>3. CASE HAL!Expire /\ UNCHANGED <<line, pulse_left>>
      BY <2>1, <2>3 DEF HAL!Expire, debounceVars, envVars,
         DebounceTypeOK, TimerMatchesState, HoldoffInv, OnOnlyIfMounted, Press
    <2>. QED
      BY <1>1, <2>2, <2>3 DEF Alarm
  <1>2. CASE LedChanges
    BY <1>2 DEF LedChanges, halVars, debounceVars, DebounceTypeOK,
       TimerMatchesState, HoldoffInv, OnOnlyIfMounted, Press
  <1>3. CASE HostEvent
    <2>1. host' \in UsbState /\ usb_q' \in Seq(UsbEvent)
      BY <1>3 DEF HostEvent, UsbState, UsbEvent
    <2>2. UNCHANGED <<s_power_sm, halVars, s_state, debounceVars, led, clock,
                      now_ms, pc, holdoff>>
      BY <1>3 DEF HostEvent
    <2>. QED
      BY <2>1, <2>2 DEF halVars, debounceVars, DebounceTypeOK,
         TimerMatchesState, HoldoffInv, OnOnlyIfMounted, Press
  <1>. QED
    BY <1>1, <1>2, <1>3

\* The passing of a unit of time.
LEMMA TimeKeeps ==
    ASSUME LoopInv, OneUnit, pc' \in {"top", "led"}
    PROVE  LoopInv' /\ ~Press
  <1>. USE DEF LoopInv, TypeOK, PowerInv, HAL!TypeOK
  <1>1. clock' \in Time
    BY AdvanceType DEF OneUnit
  <1>2. /\ UNCHANGED <<line, timer>>
        /\ pulse_left' = HAL!Less(pulse_left)
        /\ timer_left' = HAL!Less(timer_left)
        /\ timer = "running" => timer_left > 0
        /\ holdoff' = HAL!Less(holdoff)
        /\ UNCHANGED <<s_power_sm, s_state, debounceVars, envVars, now_ms>>
    BY DEF OneUnit, HAL!Tick
  <1>3. HAL!TypeOK' /\ holdoff' \in Nat /\ ~Press
    BY <1>2 DEF HAL!Less, Press
  <1>4. TimerMatchesState' /\ HoldoffInv' /\ OnOnlyIfMounted'
    BY <1>2 DEF HAL!Less, TimerMatchesState, HoldoffInv, OnOnlyIfMounted
  <1>. QED
    BY <1>1, <1>2, <1>3, <1>4 DEF debounceVars, envVars, DebounceTypeOK

\* One stage of the loop.
LEMMA MainKeeps ==
    ASSUME LoopInv, Main \/ Lag
    PROVE  LoopInv' /\ (Press => holdoff = 0)
  <1>. USE DEF LoopInv
  <1>1. CASE read_clock
    <2>1. PowerInv' /\ ~Press
      BY <1>1, NothingDelivered DEF read_clock
    <2>. QED
      BY <1>1, <2>1 DEF read_clock, TypeOK, PowerInv, nothing_to_deliver,
         halVars, debounceVars, envVars, DebounceTypeOK, OnOnlyIfMounted
  <1>2. CASE tud_task
    <2>1. PICK event \in {"USB_ENUMERATED", "USB_SUSPENDED"} :
             /\ deliver(event, TimerUnchanged)
             /\ event = "USB_ENUMERATED" => s_state' = "MOUNTED"
      BY <1>2, Zenon DEF tud_task, on_usb_state_change
    <2>2. /\ PowerInv' /\ (Press => holdoff = 0)
          /\ s_power_sm' = "ON" => event = "USB_ENUMERATED"
      BY <2>1, DeliverEvent DEF PcEvent
    <2>3. usb_q # <<>> /\ usb_q \in Seq(UsbEvent)
      BY <1>2 DEF tud_task, TypeOK
    <2>4. s_state' \in UsbState
      BY <1>2, <2>3 DEF tud_task, tud_cb, UsbState, UsbEvent
    <2>5. usb_q' \in Seq(UsbEvent)
      BY <1>2, <2>3 DEF tud_task
    <2>6. UNCHANGED <<debounceVars, led, host, clock, now_ms, pc>>
      BY <1>2 DEF tud_task
    <2>7. TypeOK'
      BY <2>2, <2>4, <2>5, <2>6 DEF TypeOK, PowerInv, debounceVars,
         DebounceTypeOK
    <2>. QED
      BY <2>1, <2>2, <2>7 DEF OnOnlyIfMounted
  <1>3. CASE tud_task_done
    <2>1. PowerInv' /\ ~Press
      BY <1>3, NothingDelivered DEF tud_task_done
    <2>. QED
      BY <1>3, <2>1 DEF tud_task_done, TypeOK, PowerInv, nothing_to_deliver,
         halVars, debounceVars, envVars, DebounceTypeOK, OnOnlyIfMounted
  <1>4. CASE poll_hardware_led
    <2>1. DebounceTypeOK'
      BY <1>4, DebounceKeeps DEF poll_hardware_led, TypeOK
    <2>2. /\ PowerInv' /\ (Press => holdoff = 0)
          /\ s_power_sm' = "ON" => s_power_sm = "ON"
      <3>1. CASE nothing_to_deliver
        BY <3>1, NothingDelivered DEF nothing_to_deliver
      <3>2. CASE \E event \in {"POWER_LED_ON", "POWER_LED_OFF"} :
                    deliver(event, TimerUnchanged)
        BY <3>2, DeliverEvent DEF PcEvent
      <3>. QED
        BY <1>4, <3>1, <3>2, Zenon DEF poll_hardware_led
    <2>3. UNCHANGED <<s_state, envVars, clock, now_ms>> /\ pc' = "boot"
      BY <1>4 DEF poll_hardware_led
    <2>. QED
      BY <2>1, <2>2, <2>3 DEF TypeOK, PowerInv, envVars, OnOnlyIfMounted
  <1>5. CASE poll_hardware_timer
    <2>1. /\ PowerInv' /\ (Press => holdoff = 0)
          /\ s_power_sm' = "ON" => s_power_sm = "ON"
      <3>1. CASE timer = "expired"
        BY <1>5, <3>1, DeliverTimeout DEF poll_hardware_timer
      <3>2. CASE timer # "expired"
        BY <1>5, <3>2, NothingDelivered DEF poll_hardware_timer,
           nothing_to_deliver
      <3>. QED
        BY <3>1, <3>2
    <2>2. UNCHANGED <<s_state, debounceVars, envVars, clock, now_ms>>
          /\ pc' = "pad"
      BY <1>5 DEF poll_hardware_timer
    <2>. QED
      BY <2>1, <2>2 DEF TypeOK, PowerInv, debounceVars, envVars,
         DebounceTypeOK, OnOnlyIfMounted
  <1>6. CASE process_gamepad
    <2>1. /\ PowerInv' /\ (Press => holdoff = 0)
          /\ s_power_sm' = "ON" => s_power_sm = "ON"
      <3>1. CASE nothing_to_deliver
        BY <3>1, NothingDelivered DEF nothing_to_deliver
      <3>2. CASE deliver("WAKE_REQUESTED", TimerUnchanged)
        BY <3>2, DeliverEvent DEF PcEvent
      <3>. QED
        BY <1>6, <3>1, <3>2 DEF process_gamepad
    <2>2. UNCHANGED <<s_state, debounceVars, envVars, clock, now_ms>>
          /\ pc' = "sleep"
      BY <1>6 DEF process_gamepad
    <2>. QED
      BY <2>1, <2>2 DEF TypeOK, PowerInv, debounceVars, envVars,
         DebounceTypeOK, OnOnlyIfMounted
  <1>7. CASE sleep_ms
    BY <1>7, TimeKeeps DEF sleep_ms
  <1>8. CASE Lag
    BY <1>8, TimeKeeps DEF Lag
  <1>. QED
    BY <1>1, <1>2, <1>3, <1>4, <1>5, <1>6, <1>7, <1>8 DEF Main

\* A step that changes nothing keeps the invariant and is no press.
LEMMA StutterKeeps == LoopInv /\ UNCHANGED vars => LoopInv' /\ ~Press
  BY DEF LoopInv, TypeOK, PowerInv, HAL!TypeOK, vars, halVars, debounceVars,
     envVars, DebounceTypeOK, TimerMatchesState, HoldoffInv, OnOnlyIfMounted,
     Press

\* No stage of the loop, no interrupt and no event breaks the invariant, and none presses the button in a hold-off.
LEMMA StepInv == LoopInv /\ [Next]_vars => LoopInv' /\ (Press => holdoff = 0)
  BY MainKeeps, EnvironmentKeeps, StutterKeeps DEF Next

\* LoopInv is inductive, and holds of every behaviour.
THEOREM InvHolds == Spec => []LoopInv
  <1>1. LoopInv /\ [Next]_vars => LoopInv'
    BY StepInv
  <1>. QED
    BY InitInv, <1>1, PTL DEF Spec

-----------------------------------------------------------------------------
(* The theorems.                                                           *)

\* Every variable keeps its type.
THEOREM TypeCorrect == Spec => []TypeOK
  <1>1. LoopInv => TypeOK
    BY DEF LoopInv
  <1>. QED
    BY InvHolds, <1>1, PTL

\* The boot timer runs, or has an expiry to report, exactly in BOOTING
\* (handlers of pc_power_state.c, dispatch_actions).
THEOREM BootHasItsTimer == Spec => []TimerMatchesState
  <1>1. LoopInv => TimerMatchesState
    BY DEF LoopInv, PowerInv
  <1>. QED
    BY InvHolds, <1>1, PTL

\* The state is ON only while the last USB event was a mount or a resume
\* (on_usb_state_change, usb_hid_gamepad.c).
THEOREM OnMeansMounted == Spec => []OnOnlyIfMounted
  <1>1. LoopInv => OnOnlyIfMounted
    BY DEF LoopInv
  <1>. QED
    BY InvHolds, <1>1, PTL

\* No second press of the power button before the first has been answered by
\* the PC or its boot timeout has run out (handle_booting, process_gamepad).
THEOREM PulsesAreSpaced == Spec => NoPulseInHoldoff
  <1>1. LoopInv /\ [Next]_vars => [Press => holdoff = 0]_vars
    BY StepInv
  <1>. QED
    BY InvHolds, <1>1, PTL DEF Spec, NoPulseInHoldoff

=============================================================================
