---------------------------- MODULE PcPowerState ----------------------------
(***************************************************************************)
(* The PC power state machine of firmware/src/pc_power_state.c, as pure    *)
(* operators: an event takes a state to a result, the record of the new    *)
(* state, the set of actions the caller must dispatch and whether a        *)
(* transition was taken.  A bitmask of pc_power_action_t is the set of its *)
(* bits.  The field last_transition_ms is left out: the firmware writes    *)
(* it and never reads it.                                                  *)
(***************************************************************************)

PcState == {"OFF", "BOOTING", "ON", "SLEEPING"}

PcEvent == {"WAKE_REQUESTED", "USB_ENUMERATED", "USB_SUSPENDED",
            "POWER_LED_ON", "POWER_LED_OFF", "BOOT_TIMEOUT"}

PcAction == {"TRIGGER_POWER", "START_BOOT_TIMER", "CANCEL_BOOT_TIMER"}

PcResult == [new_state : PcState, actions : SUBSET PcAction,
             transitioned : BOOLEAN]

pc_power_sm_init == "OFF"

transition(new_state, actions) ==
    [new_state |-> new_state, actions |-> actions, transitioned |-> TRUE]

no_change(state) ==
    [new_state |-> state, actions |-> {}, transitioned |-> FALSE]

-----------------------------------------------------------------------------
(* One operator per state: the switch on the event of its handler.         *)

handle_off(event) ==
    CASE event = "WAKE_REQUESTED" ->
            transition("BOOTING", {"TRIGGER_POWER", "START_BOOT_TIMER"})
      [] event = "POWER_LED_ON"   -> transition("BOOTING", {"START_BOOT_TIMER"})
      [] event = "USB_ENUMERATED" -> transition("ON", {})
      [] OTHER                    -> no_change("OFF")

\* Faulty variant: the timer runs on when the LED goes out.
handle_booting_no_cancel(event) ==
    CASE event = "USB_ENUMERATED" -> transition("ON", {"CANCEL_BOOT_TIMER"})
      [] event = "POWER_LED_OFF"  -> transition("OFF", {})
      [] event = "BOOT_TIMEOUT"   -> transition("OFF", {})
      [] OTHER                    -> no_change("BOOTING")

\* Faulty variant: a bus suspended by the booting firmware counts as sleep.
handle_booting_suspends(event) ==
    CASE event = "USB_ENUMERATED" -> transition("ON", {"CANCEL_BOOT_TIMER"})
      [] event \in {"POWER_LED_OFF", "USB_SUSPENDED"} ->
            transition(IF event = "POWER_LED_OFF" THEN "OFF" ELSE "SLEEPING",
                       {"CANCEL_BOOT_TIMER"})
      [] event = "BOOT_TIMEOUT"   -> transition("OFF", {})
      [] OTHER                    -> no_change("BOOTING")

\* Faulty variant: the timeout starts another wait.
handle_booting_retries(event) ==
    CASE event = "USB_ENUMERATED" -> transition("ON", {"CANCEL_BOOT_TIMER"})
      [] event = "POWER_LED_OFF"  -> transition("OFF", {"CANCEL_BOOT_TIMER"})
      [] event = "BOOT_TIMEOUT"   -> transition("BOOTING", {"START_BOOT_TIMER"})
      [] OTHER                    -> no_change("BOOTING")

handle_booting(event) ==
    CASE event = "USB_ENUMERATED" -> transition("ON", {"CANCEL_BOOT_TIMER"})
      [] event = "POWER_LED_OFF"  -> transition("OFF", {"CANCEL_BOOT_TIMER"})
      [] event = "BOOT_TIMEOUT"   -> transition("OFF", {})
      [] OTHER                    -> no_change("BOOTING")

handle_on(event) ==
    CASE event = "USB_SUSPENDED" -> transition("SLEEPING", {})
      [] event = "POWER_LED_OFF" -> transition("OFF", {})
      [] OTHER                   -> no_change("ON")

handle_sleeping(event) ==
    CASE event = "WAKE_REQUESTED" ->
            transition("BOOTING", {"TRIGGER_POWER", "START_BOOT_TIMER"})
      [] event = "USB_ENUMERATED" -> transition("ON", {})
      [] event = "POWER_LED_ON"   -> transition("BOOTING", {"START_BOOT_TIMER"})
      [] event = "POWER_LED_OFF"  -> transition("OFF", {})
      [] OTHER                    -> no_change("SLEEPING")

pc_power_sm_process(state, event) ==
    CASE state = "OFF"      -> handle_off(event)
      [] state = "BOOTING"  -> handle_booting(event)
      [] state = "ON"       -> handle_on(event)
      [] state = "SLEEPING" -> handle_sleeping(event)

=============================================================================
