----------------------------- MODULE PowerLoop -----------------------------
(***************************************************************************)
(* The power half of main() (firmware/src/main.c): the loop that carries   *)
(* USB events, debounced LED edges, boot timer expiries and presses of the *)
(* guide button to the power state machine, and the actions it returns to  *)
(* the HAL.  The state machine is PcPowerState, the debouncer LedDebounce, *)
(* the HAL the interrupt-free PowerHalSpec that PcPowerHal is shown to     *)
(* implement.                                                              *)
(*                                                                         *)
(* The environment is the PC, whose LED and USB host change at any time;   *)
(* what the controller does is one choice per pass, GamepadLoop has the    *)
(* detail.  USB events wait in TinyUSB's queue until tud_task; the alarm   *)
(* interrupts come between any two steps of a pass.  A pass takes one unit *)
(* of time, and up to MaxLag more between reading the clock and polling    *)
(* the hardware (setup commands, USB).                                     *)
(***************************************************************************)
EXTENDS PcPowerState, LedDebounce, Sequences

CONSTANTS
    PulseMs,      \* values of s_config.power_pulse_ms
    TimeoutMs,    \* values of s_config.boot_timeout_ms
    UsbQueueMax   \* bound on the events that wait for tud_task

ASSUME PowerAssumption ==
    /\ PulseMs \subseteq Nat \ {0}
    /\ TimeoutMs \subseteq Nat \ {0}
    /\ UsbQueueMax \in Nat \ {0}
    /\ MaxGap = MaxLag + 1

VARIABLES
    s_power_sm,   \* state of the power state machine
    line, pulse_left, timer, timer_left,   \* the HAL
    s_state,      \* usb_hid_gamepad.c: the state last reported
    led,          \* power LED of the PC
    host,         \* the PC's USB host, in the terms of usb_hid_state_t
    usb_q,        \* USB events not yet seen by tud_task
    clock, now_ms,
    pc,           \* where main is in its loop
    holdoff       \* history: see NoPulseInHoldoff

HAL == INSTANCE PowerHalSpec WITH
           line <- line, pulse_left <- pulse_left,
           timer <- timer, timer_left <- timer_left

halVars == <<line, pulse_left, timer, timer_left>>
envVars == <<led, host, usb_q>>
vars == <<s_power_sm, halVars, s_state, debounceVars, envVars, clock, now_ms,
          pc, holdoff>>

UsbState == {"NOT_MOUNTED", "MOUNTED", "SUSPENDED"}

UsbEvent == {"mount", "umount", "suspend", "resume"}

TypeOK ==
    /\ s_power_sm \in PcState
    /\ HAL!TypeOK
    /\ s_state \in UsbState
    /\ DebounceTypeOK
    /\ led \in BOOLEAN
    /\ host \in UsbState
    /\ usb_q \in Seq(UsbEvent)
    /\ clock \in Time
    /\ now_ms \in Time
    /\ pc \in {"top", "usb", "led", "boot", "pad", "sleep"}
    /\ holdoff \in Nat

\* main, up to its loop.  The PC may be in any condition.
Init ==
    /\ s_power_sm = pc_power_sm_init
    /\ HAL!Init
    /\ s_state = "NOT_MOUNTED"
    /\ led \in BOOLEAN
    /\ DebounceInit(led)
    /\ host = "NOT_MOUNTED"
    /\ usb_q = <<>>
    /\ clock = 0
    /\ now_ms = 0
    /\ pc = "top"
    /\ holdoff = 0

-----------------------------------------------------------------------------
(* Feeding the state machine.                                              *)

Triggers(actions) == "TRIGGER_POWER" \in actions

\* dispatch_actions, with the HAL calls in the order of the code: a later
\* call on the timer overrides what it does before, otherwise included.
dispatch_actions(actions, otherwise) ==
    /\ IF Triggers(actions)
       THEN \E d \in PulseMs : HAL!Trigger(d)
       ELSE UNCHANGED <<line, pulse_left>>
    /\ CASE "CANCEL_BOOT_TIMER" \in actions -> HAL!CancelTimer
         [] /\ "CANCEL_BOOT_TIMER" \notin actions
            /\ "START_BOOT_TIMER" \in actions ->
               \E t \in TimeoutMs : HAL!StartTimer(t)
         [] OTHER -> otherwise

\* A signal that the PC has started or has stopped.
Evidence == {"USB_ENUMERATED", "POWER_LED_OFF"}

\* pc_power_sm_process and dispatch_actions on its result.
deliver(event, otherwise) ==
    LET r == pc_power_sm_process(s_power_sm, event)
    IN  /\ s_power_sm' = r.new_state
        /\ dispatch_actions(r.actions, otherwise)
        /\ holdoff' = IF Triggers(r.actions) THEN timer_left'
                      ELSE IF event \in Evidence THEN 0 ELSE holdoff

TimerUnchanged == UNCHANGED <<timer, timer_left>>

nothing_to_deliver == UNCHANGED <<s_power_sm, halVars, holdoff>>

-----------------------------------------------------------------------------
(* One pass of the loop.                                                   *)

read_clock ==
    /\ pc = "top"
    /\ now_ms' = clock
    /\ pc' = "usb"
    /\ nothing_to_deliver
    /\ UNCHANGED <<s_state, debounceVars, envVars, clock>>

\* The state each TinyUSB callback stores and reports.
tud_cb(ev) ==
    CASE ev \in {"mount", "resume"} -> "MOUNTED"
      [] ev = "umount"              -> "NOT_MOUNTED"
      [] ev = "suspend"             -> "SUSPENDED"

\* Faulty variant: an unmount is not reported.
on_usb_state_change_no_unmount(state) ==
    IF state = "NOT_MOUNTED" THEN nothing_to_deliver
    ELSE deliver(IF state = "MOUNTED" THEN "USB_ENUMERATED"
                 ELSE "USB_SUSPENDED", TimerUnchanged)

on_usb_state_change(state) ==
    deliver(IF state = "MOUNTED" THEN "USB_ENUMERATED" ELSE "USB_SUSPENDED",
            TimerUnchanged)

\* tud_task takes the events one by one until there are none.
tud_task ==
    /\ pc = "usb"
    /\ usb_q # <<>>
    /\ s_state' = tud_cb(Head(usb_q))
    /\ on_usb_state_change(s_state')
    /\ usb_q' = Tail(usb_q)
    /\ UNCHANGED <<debounceVars, led, host, clock, now_ms, pc>>

tud_task_done ==
    /\ pc = "usb"
    /\ usb_q = <<>>
    /\ pc' = "led"
    /\ nothing_to_deliver
    /\ UNCHANGED <<s_state, debounceVars, envVars, clock, now_ms>>

\* poll_hardware, the power LED.
poll_hardware_led ==
    /\ pc = "led"
    /\ poll_led(led, now_ms)
    /\ IF s_led_debounced' # s_led_debounced
       THEN deliver(IF s_led_debounced' THEN "POWER_LED_ON"
                    ELSE "POWER_LED_OFF", TimerUnchanged)
       ELSE nothing_to_deliver
    /\ pc' = "boot"
    /\ UNCHANGED <<s_state, envVars, clock, now_ms>>

\* poll_hardware, the boot timer.
poll_hardware_timer ==
    /\ pc = "boot"
    /\ IF timer = "expired"
       THEN deliver("BOOT_TIMEOUT", HAL!ReportExpiry)
       ELSE nothing_to_deliver
    /\ pc' = "pad"
    /\ UNCHANGED <<s_state, debounceVars, envVars, clock, now_ms>>

\* process_gamepad: the guide button has or has not gone down.
process_gamepad ==
    /\ pc = "pad"
    /\ \E pressed \in BOOLEAN :
          IF pressed /\ s_power_sm \in {"OFF", "SLEEPING"}
          THEN deliver("WAKE_REQUESTED", TimerUnchanged)
          ELSE nothing_to_deliver
    /\ pc' = "sleep"
    /\ UNCHANGED <<s_state, debounceVars, envVars, clock, now_ms>>

-----------------------------------------------------------------------------
(* Time, interrupts and the PC.                                            *)

OneUnit ==
    /\ HAL!Tick
    /\ clock' = Advance(clock)
    /\ holdoff' = HAL!Less(holdoff)
    /\ UNCHANGED <<s_power_sm, s_state, debounceVars, envVars, now_ms>>

sleep_ms == pc = "sleep" /\ OneUnit /\ pc' = "top"

\* Time spent on setup commands.
Lag ==
    /\ pc = "led"
    /\ Elapsed(clock, now_ms) < MaxLag
    /\ OneUnit
    /\ UNCHANGED pc

Alarm ==
    /\ \/ HAL!PulseEnd /\ TimerUnchanged
       \/ HAL!Expire /\ UNCHANGED <<line, pulse_left>>
    /\ UNCHANGED <<s_power_sm, s_state, debounceVars, envVars, clock, now_ms,
                   pc, holdoff>>

LedChanges ==
    /\ led' = ~led
    /\ UNCHANGED <<s_power_sm, halVars, s_state, debounceVars, host, usb_q,
                   clock, now_ms, pc, holdoff>>

\* The host's side of the bus: which event follows which.
HostEvent ==
    \E step \in {<<"NOT_MOUNTED", "mount", "MOUNTED">>,
                 <<"MOUNTED", "suspend", "SUSPENDED">>,
                 <<"SUSPENDED", "resume", "MOUNTED">>,
                 <<"MOUNTED", "umount", "NOT_MOUNTED">>,
                 <<"SUSPENDED", "umount", "NOT_MOUNTED">>} :
        /\ host = step[1]
        /\ Len(usb_q) < UsbQueueMax
        /\ usb_q' = Append(usb_q, step[2])
        /\ host' = step[3]
        /\ UNCHANGED <<s_power_sm, halVars, s_state, debounceVars, led, clock,
                       now_ms, pc, holdoff>>

Main ==
    \/ read_clock \/ tud_task \/ tud_task_done
    \/ poll_hardware_led \/ poll_hardware_timer \/ process_gamepad
    \/ sleep_ms

Next == Main \/ Lag \/ Alarm \/ LedChanges \/ HostEvent

Spec == Init /\ [][Next]_vars

\* The loop runs for ever and alarms that are due are served.  The PC and
\* the player owe nothing.
Fairness == WF_vars(Main) /\ WF_vars(Alarm)

FairSpec == Spec /\ Fairness

-----------------------------------------------------------------------------
(* Properties.                                                             *)

\* The boot timer is running, or has an expiry to report, exactly while the
\* state machine is BOOTING: none is left over to end a later boot early,
\* and no boot is without its timeout (handlers of pc_power_state.c).
TimerMatchesState == s_power_sm = "BOOTING" <=> timer # "idle"

\* The device believes the PC to be on only while the last USB event it saw
\* was a mount or resume: input is forwarded in no other situation
\* (main.c:232).
OnOnlyIfMounted == s_power_sm = "ON" => s_state = "MOUNTED"

\* The button goes down, or its pulse is drawn out.
Press == line' = "high" /\ (line = "low" \/ pulse_left' > pulse_left)

\* After a pulse there is no second one before the PC has shown that it
\* started (USB) or stopped (LED), or the boot timeout of the first has run
\* its full length: a second press would switch a booting PC off.  holdoff
\* is what is left of that time.
NoPulseInHoldoff == [][Press => (holdoff = 0)]_vars

\* Booting comes to an end, whatever the PC does.
BootingEnds == s_power_sm = "BOOTING" ~> s_power_sm # "BOOTING"

\* The button is pressed only while the PC is not running: lit and with this
\* device mounted by its USB host.  main.c:213-216 wakes "when the PC is off
\* or sleeping".
WakeSparesRunningPc ==
    [][Press => ~(led /\ s_led_debounced /\ host = "MOUNTED" /\ usb_q = <<>>)]_vars

=============================================================================
