----------------------------- MODULE PcPowerHal -----------------------------
(***************************************************************************)
(* firmware/src/pc_power_hal.c at the grain at which the timer interrupt   *)
(* can preempt it.  The main loop calls one function at a time; the two    *)
(* alarm callbacks run in interrupt context between any two of its         *)
(* statements.  pc is the statement the caller is about to execute.        *)
(*                                                                         *)
(* Time is in abstract units.  An alarm that is due fires before time goes *)
(* on, and no HAL function lasts a unit: the races are those of an alarm   *)
(* that falls due just before or during a call.  add_alarm_in_ms and the   *)
(* assignment of its result are one step, because the durations are of     *)
(* tens of milliseconds at least (device_config.h) and the new alarm       *)
(* cannot fire before the assignment is made.                              *)
(***************************************************************************)
EXTENDS Integers, FiniteSets

CONSTANTS
    AlarmId,      \* alarm ids the SDK's default pool can give to the HAL
    PulseMs,      \* durations passed to pc_power_hal_trigger_power_button
    TimeoutMs     \* timeouts passed to pc_power_hal_start_boot_timer

\* An id is a positive number, 0 means "no alarm" and -1 "no free slot".
\* The pool has room for the two alarms of the HAL.
ASSUME AlarmIdAssumption ==
    /\ AlarmId \subseteq Nat \ {0}
    /\ \A a \in AlarmId : \E b \in AlarmId : b # a
    /\ \E a \in AlarmId : TRUE

ASSUME DurationAssumption ==
    /\ PulseMs \subseteq Nat \ {0}
    /\ TimeoutMs \subseteq Nat \ {0}

VARIABLES
    gpio_trigger,          \* GPIO_PWR_BTN_TRIGGER, TRUE when driven high
    s_power_btn_alarm,
    s_boot_timer_alarm,
    s_boot_timer_expired,
    pending,               \* alarms of the SDK pool that have not fired
    pc,                    \* the caller's next statement, "idle" outside
    arg,                   \* the argument of the call in progress
    loaded,                \* the handle the caller's "if" has read
    starting,              \* the cancel in progress was called by start
    armed                  \* history: the caller has started the boot timer
                           \* and neither cancelled it nor heard it expire

boot == <<s_boot_timer_alarm, s_boot_timer_expired>>
vars == <<gpio_trigger, s_power_btn_alarm, boot, pending, pc, arg, loaded,
          starting, armed>>

NoAlarm == 0
NoSlot  == -1
Handle  == AlarmId \cup {NoAlarm, NoSlot}

Alarm == [id : AlarmId, cb : {"pulse", "boot"}, left : Nat]

TypeOK ==
    /\ gpio_trigger \in BOOLEAN
    /\ s_power_btn_alarm \in Handle
    /\ s_boot_timer_alarm \in Handle
    /\ s_boot_timer_expired \in BOOLEAN
    /\ pending \subseteq Alarm
    /\ pc \in {"idle", "trigger_cancel", "trigger_clear", "trigger_high",
               "trigger_add", "cancel_alarm", "cancel_clear", "cancel_flag",
               "start_flag", "start_add", "expired_clear"}
    /\ arg \in PulseMs \cup TimeoutMs \cup {0}
    /\ loaded \in Handle
    /\ starting \in BOOLEAN
    /\ armed \in BOOLEAN

\* pc_power_hal_init
Init ==
    /\ gpio_trigger = FALSE
    /\ s_power_btn_alarm = NoAlarm
    /\ s_boot_timer_alarm = NoAlarm
    /\ s_boot_timer_expired = FALSE
    /\ pending = {}
    /\ pc = "idle"
    /\ arg = 0
    /\ loaded = NoAlarm
    /\ starting = FALSE
    /\ armed = FALSE

-----------------------------------------------------------------------------
(* The SDK's alarm pool.                                                   *)

FreeId == AlarmId \ {a.id : a \in pending}

\* add_alarm_in_ms: handle is the id of a new alarm, or the error.
add_alarm(cb, ms, handle) ==
    IF FreeId = {}
    THEN handle = NoSlot /\ UNCHANGED pending
    ELSE /\ handle \in FreeId
         /\ pending' = pending \cup {[id |-> handle, cb |-> cb, left |-> ms]}

\* cancel_alarm: an id that is no longer pending is ignored.
cancel_alarm(id) == pending' = {a \in pending : a.id # id}

Due == {a \in pending : a.left = 0}

-----------------------------------------------------------------------------
(* The alarm callbacks, in interrupt context.                              *)

\* Faulty variant: the callback forgets the handle.
power_btn_alarm_cb_keeps_handle ==
    \E a \in Due :
        /\ a.cb = "pulse"
        /\ gpio_trigger' = FALSE
        /\ pending' = pending \ {a}
        /\ UNCHANGED <<s_power_btn_alarm, boot, pc, arg, loaded, starting,
                       armed>>

power_btn_alarm_cb ==
    \E a \in Due :
        /\ a.cb = "pulse"
        /\ gpio_trigger' = FALSE
        /\ s_power_btn_alarm' = NoAlarm
        /\ pending' = pending \ {a}
        /\ UNCHANGED <<boot, pc, arg, loaded, starting, armed>>

boot_timer_alarm_cb ==
    \E a \in Due :
        /\ a.cb = "boot"
        /\ s_boot_timer_expired' = TRUE
        /\ s_boot_timer_alarm' = NoAlarm
        /\ pending' = pending \ {a}
        /\ UNCHANGED <<gpio_trigger, s_power_btn_alarm, pc, arg, loaded,
                       starting, armed>>

-----------------------------------------------------------------------------
(* pc_power_hal_trigger_power_button                                       *)

\* Faulty variant: a pulse in flight is not cancelled.
trigger_power_button_no_cancel(duration) ==
    /\ pc = "idle"
    /\ arg' = duration
    /\ pc' = "trigger_high"
    /\ UNCHANGED <<gpio_trigger, s_power_btn_alarm, boot, pending, loaded,
                   starting, armed>>

trigger_power_button(duration) ==
    /\ pc = "idle"
    /\ arg' = duration
    /\ loaded' = s_power_btn_alarm
    /\ pc' = IF s_power_btn_alarm # NoAlarm
             THEN "trigger_cancel" ELSE "trigger_high"
    /\ UNCHANGED <<gpio_trigger, s_power_btn_alarm, boot, pending, starting,
                   armed>>

\* s_power_btn_alarm is not volatile: the compiler may pass the value the
\* "if" loaded, or load it again.
trigger_cancel ==
    /\ pc = "trigger_cancel"
    /\ \E id \in {loaded, s_power_btn_alarm} : cancel_alarm(id)
    /\ pc' = "trigger_clear"
    /\ UNCHANGED <<gpio_trigger, s_power_btn_alarm, boot, arg, loaded,
                   starting, armed>>

trigger_clear ==
    /\ pc = "trigger_clear"
    /\ s_power_btn_alarm' = NoAlarm
    /\ pc' = "trigger_high"
    /\ UNCHANGED <<gpio_trigger, boot, pending, arg, loaded, starting, armed>>

trigger_high ==
    /\ pc = "trigger_high"
    /\ gpio_trigger' = TRUE
    /\ pc' = "trigger_add"
    /\ UNCHANGED <<s_power_btn_alarm, boot, pending, arg, loaded, starting,
                   armed>>

\* Faulty variant: the pulse is one unit too long.
trigger_add_too_long ==
    /\ pc = "trigger_add"
    /\ s_power_btn_alarm' \in Handle
    /\ add_alarm("pulse", arg + 1, s_power_btn_alarm')
    /\ pc' = "idle"
    /\ UNCHANGED <<gpio_trigger, boot, arg, loaded, starting, armed>>

\* Faulty variant: no alarm is added if one was in flight at the call.
trigger_add_once ==
    /\ pc = "trigger_add"
    /\ s_power_btn_alarm' \in Handle
    /\ IF loaded = NoAlarm
       THEN add_alarm("pulse", arg, s_power_btn_alarm')
       ELSE s_power_btn_alarm' = loaded /\ UNCHANGED pending
    /\ pc' = "idle"
    /\ UNCHANGED <<gpio_trigger, boot, arg, loaded, starting, armed>>

trigger_add ==
    /\ pc = "trigger_add"
    /\ s_power_btn_alarm' \in Handle
    /\ add_alarm("pulse", arg, s_power_btn_alarm')
    /\ pc' = "idle"
    /\ UNCHANGED <<gpio_trigger, boot, arg, loaded, starting, armed>>

-----------------------------------------------------------------------------
(* pc_power_hal_cancel_boot_timer, called by the main loop or by start.    *)

cancel_call(from_start, timeout) ==
    /\ pc = "idle"
    /\ starting' = from_start
    /\ arg' = timeout
    /\ loaded' = s_boot_timer_alarm
    /\ pc' = IF s_boot_timer_alarm # NoAlarm
             THEN "cancel_alarm" ELSE "cancel_flag"
    /\ UNCHANGED <<gpio_trigger, s_power_btn_alarm, boot, pending, armed>>

cancel_boot_timer == cancel_call(FALSE, 0)

cancel_cancel ==
    /\ pc = "cancel_alarm"
    /\ \E id \in {loaded, s_boot_timer_alarm} : cancel_alarm(id)
    /\ pc' = "cancel_clear"
    /\ UNCHANGED <<gpio_trigger, s_power_btn_alarm, boot, arg, loaded,
                   starting, armed>>

cancel_clear ==
    /\ pc = "cancel_clear"
    /\ s_boot_timer_alarm' = NoAlarm
    /\ pc' = "cancel_flag"
    /\ UNCHANGED <<gpio_trigger, s_power_btn_alarm, s_boot_timer_expired,
                   pending, arg, loaded, starting, armed>>

\* Faulty variant: an expiry that beat the cancellation is kept.
cancel_flag_kept ==
    /\ pc = "cancel_flag"
    /\ armed' = FALSE
    /\ pc' = IF starting THEN "start_flag" ELSE "idle"
    /\ UNCHANGED <<gpio_trigger, s_power_btn_alarm, boot, pending, arg,
                   loaded, starting>>

cancel_flag ==
    /\ pc = "cancel_flag"
    /\ s_boot_timer_expired' = FALSE
    /\ armed' = FALSE
    /\ pc' = IF starting THEN "start_flag" ELSE "idle"
    /\ UNCHANGED <<gpio_trigger, s_power_btn_alarm, s_boot_timer_alarm,
                   pending, arg, loaded, starting>>

-----------------------------------------------------------------------------
(* pc_power_hal_start_boot_timer                                           *)

start_boot_timer(timeout) == cancel_call(TRUE, timeout)

start_flag ==
    /\ pc = "start_flag"
    /\ s_boot_timer_expired' = FALSE
    /\ pc' = "start_add"
    /\ UNCHANGED <<gpio_trigger, s_power_btn_alarm, s_boot_timer_alarm,
                   pending, arg, loaded, starting, armed>>

\* Faulty variant: the timeout is stored for the handle.
start_add_wrong_handle ==
    /\ pc = "start_add"
    /\ s_boot_timer_alarm' = arg
    /\ \E id \in FreeId : add_alarm("boot", arg, id)
    /\ armed' = TRUE
    /\ pc' = "idle"
    /\ UNCHANGED <<gpio_trigger, s_power_btn_alarm, s_boot_timer_expired,
                   arg, loaded, starting>>

start_add ==
    /\ pc = "start_add"
    /\ s_boot_timer_alarm' \in Handle
    /\ add_alarm("boot", arg, s_boot_timer_alarm')
    /\ armed' = TRUE
    /\ pc' = "idle"
    /\ UNCHANGED <<gpio_trigger, s_power_btn_alarm, s_boot_timer_expired,
                   arg, loaded, starting>>

-----------------------------------------------------------------------------
(* pc_power_hal_boot_timer_expired.  A call that finds the flag clear      *)
(* returns false and changes nothing; expired_clear is the call that       *)
(* returns true.                                                           *)

boot_timer_expired ==
    /\ pc = "idle"
    /\ s_boot_timer_expired
    /\ pc' = "expired_clear"
    /\ UNCHANGED <<gpio_trigger, s_power_btn_alarm, boot, pending, arg,
                   loaded, starting, armed>>

expired_clear ==
    /\ pc = "expired_clear"
    /\ s_boot_timer_expired' = FALSE
    /\ armed' = FALSE
    /\ pc' = "idle"
    /\ UNCHANGED <<gpio_trigger, s_power_btn_alarm, s_boot_timer_alarm,
                   pending, arg, loaded, starting>>

-----------------------------------------------------------------------------
\* The system timer: every pending alarm comes one unit nearer.
Tick ==
    /\ pc = "idle"
    /\ Due = {}
    /\ pending' = {[a EXCEPT !.left = a.left - 1] : a \in pending}
    /\ UNCHANGED <<gpio_trigger, s_power_btn_alarm, boot, pc, arg, loaded,
                   starting, armed>>

Call ==
    \/ \E d \in PulseMs : trigger_power_button(d)
    \/ \E t \in TimeoutMs : start_boot_timer(t)
    \/ cancel_boot_timer
    \/ boot_timer_expired

Step ==
    \/ trigger_cancel \/ trigger_clear \/ trigger_high \/ trigger_add
    \/ cancel_cancel \/ cancel_clear \/ cancel_flag
    \/ start_flag \/ start_add
    \/ expired_clear

Irq == power_btn_alarm_cb \/ boot_timer_alarm_cb

Next == Call \/ Step \/ Irq \/ Tick

Spec == Init /\ [][Next]_vars

\* A call that is made runs to its end, the timer interrupt is served and
\* time passes.  Nobody has to make a call.
FairSpec ==
    Spec /\ WF_vars(Step) /\ WF_vars(Irq) /\ WF_vars(Tick)

-----------------------------------------------------------------------------
(* Properties.                                                             *)

Pending(cb) == {a \in pending : a.cb = cb}

\* Outside a call the button line is high exactly while the alarm that will
\* release it is pending and is the one the handle names: the button cannot
\* stay pressed for ever, whatever instant the pulse of an earlier request
\* ends at (trigger_power_button against power_btn_alarm_cb).
ButtonNeverStuck ==
    pc = "idle" =>
        IF gpio_trigger
        THEN \E a \in Pending("pulse") : a.id = s_power_btn_alarm
        ELSE Pending("pulse") = {} /\ s_power_btn_alarm = NoAlarm

\* Outside a call the boot timer is pending or expired exactly when the
\* caller has started it and has neither cancelled it nor been told of its
\* expiry, even if the alarm fires in the middle of the cancelling call.
TimerAsAsked ==
    pc = "idle" => (armed <=> Pending("boot") # {} \/ s_boot_timer_expired)

\* Restarting a pulse or the timer never leaves the alarm of the earlier one
\* behind in the pool, where it could cut the new one short.
NoAlarmLeft ==
    \A a, b \in pending : a.cb = b.cb => a = b

\* If the caller makes no more calls the button is released for good.
ButtonReleased == <>[](pc = "idle") => <>[](~gpio_trigger)

-----------------------------------------------------------------------------
(* The refinement of PowerHalSpec.  A request takes effect on the line at  *)
(* the cancellation of the pulse in flight, or at gpio_put if there is     *)
(* none; on the timer at the cancellation or at the clearing of the flag,  *)
(* whichever finds something to cancel.                                    *)

\* In trigger_power_button, past the cancellation of a pulse in flight.
InTrigger == pc \in {"trigger_clear", "trigger_high", "trigger_add"}

\* What the alarm with an id has left to run, of a set of alarms.
LeftOf(alarms, id) ==
    LET left == {a.left : a \in {b \in alarms : b.id = id}}
    IN  IF left = {} THEN 0 ELSE CHOOSE n \in left : TRUE

Remaining(id) == LeftOf(pending, id)

line == IF gpio_trigger THEN "high" ELSE "low"

pulse_left ==
    IF ~gpio_trigger THEN 0
    ELSE IF InTrigger THEN arg
    ELSE Remaining(s_power_btn_alarm)

timer ==
    IF s_boot_timer_expired THEN "expired"
    ELSE IF Pending("boot") # {} THEN "running" ELSE "idle"

timer_left == IF timer = "running" THEN Remaining(s_boot_timer_alarm) ELSE 0

Abstract == INSTANCE PowerHalSpec WITH
                line <- line, pulse_left <- pulse_left,
                timer <- timer, timer_left <- timer_left

\* The HAL implements the interrupt-free pulse and one-shot timer its header
\* describes.
ImplementsSpec == Abstract!Spec

=============================================================================
