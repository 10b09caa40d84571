---------------------------- MODULE GamepadLoop ----------------------------
(***************************************************************************)
(* The gamepad half of PadProxy: the slot of firmware/src/bt_gamepad.c,    *)
(* filled by Bluepad32's callbacks in interrupt context, and the main loop *)
(* of main.c that reads it, detects presses of the guide button and        *)
(* forwards reports to the PC over USB.                                    *)
(*                                                                         *)
(* A callback runs on the core of the main loop and preempts it between    *)
(* any two statements, except in bt_gamepad.c's critical sections.  The    *)
(* main loop cannot preempt a callback, so a callback is one step.         *)
(*                                                                         *)
(* The LED and the boot timer feed the state machine as they like          *)
(* (PowerLoop has them), the USB bus in the order a host allows.           *)
(***************************************************************************)
EXTENDS PcPowerState, ReportConvert

CONSTANTS
    Pads,        \* the controllers in reach
    None,        \* no controller
    Sent,        \* uni_controller_t: what Bluepad32 makes of their messages
    NullWrite    \* what a store through a null pointer does: a subset of
                 \* {"ignored", "fault"}

ASSUME GamepadAssumption ==
    /\ None \notin Pads
    /\ \A c \in Sent : c.klass = "gamepad" => PadSends(c.gamepad)
    /\ NullWrite \subseteq {"ignored", "fault"}

VARIABLES
    link,                  \* Bluepad32: each pad's connection
    scanning,              \* Bluepad32: looking for new pads
    s_connected,           \* the slot: a pad is connected
    s_reports,             \* the slot: its last report
    s_prev_report, s_prev_report_valid,
    report,                \* main's copy of the slot
    s_power_sm,            \* state of the power state machine
    usb,                   \* TinyUSB: mounted, suspended or neither
    hid,                   \* the report in the HID endpoint, as a set
    host_report,           \* the last report the PC has received
    pc,                    \* main's next statement
    sender,                \* history: the pad the slot's report is from
    seen,                  \* history: the guide button in the report that
                           \* process_gamepad has had last
    fresh                  \* history: since the last wake request the loop
                           \* has read the guide button up or a pad has
                           \* connected ("press"), a pad has only gone
                           \* ("lost"), or nothing of the kind ("none")

slotVars == <<s_connected, s_reports, sender>>
prevVars == <<s_prev_report, s_prev_report_valid>>
btVars   == <<link, scanning, slotVars>>
usbVars  == <<usb, hid, host_report>>
vars == <<btVars, prevVars, report, s_power_sm, usbVars, pc, seen, fresh>>

PadReports == {convert_report(c.gamepad) : c \in {d \in Sent : d.klass = "gamepad"}}

\* What the slot can hold, and what the PC can be sent.
Slots == PadReports \cup {Neutral}
Wire  == {usb_hid_report_from_gamepad(r) : r \in Slots}

\* What main can hold while it copies: the first fields of one report, the
\* others of another.
FirstHalf == {"lx", "ly", "rx", "ry"}
Fields == FirstHalf \cup {"lt", "rt", "buttons", "dpad"}
Mix(first, second) ==
    [f \in Fields |-> IF f \in FirstHalf THEN first[f] ELSE second[f]]

TypeOK ==
    /\ link \in [Pads -> {"absent", "connecting", "ready"}]
    /\ scanning \in BOOLEAN
    /\ s_connected \in BOOLEAN
    /\ s_reports \in Slots
    /\ s_prev_report \in Slots
    /\ s_prev_report_valid \in BOOLEAN
    /\ \E first, second \in Slots : report = Mix(first, second)
    /\ s_power_sm \in PcState
    /\ usb \in {"NOT_MOUNTED", "MOUNTED", "SUSPENDED"}
    /\ hid = {} \/ \E w \in Wire : hid = {w}
    /\ host_report \in Wire
    /\ pc \in {"usb", "status", "poll", "get", "copy_first", "copy_second",
               "exit", "process", "prev", "valid", "dead"}
    /\ sender \in Pads \cup {None}
    /\ seen \in {"up", "down", "none"}
    /\ fresh \in {"press", "lost", "none"}

AtRest == usb_hid_report_from_gamepad(Neutral)

Init ==
    /\ link = [p \in Pads |-> "absent"]
    /\ scanning = TRUE                \* platform_on_init_complete
    /\ s_connected = FALSE
    /\ s_reports = Neutral
    /\ s_prev_report = Neutral
    /\ s_prev_report_valid = FALSE
    /\ report = Mix(Neutral, Neutral)
    /\ s_power_sm = pc_power_sm_init
    /\ usb = "NOT_MOUNTED"
    /\ hid = {}
    /\ host_report = AtRest
    /\ pc = "usb"
    /\ sender = None
    /\ seen = "none"
    /\ fresh = "press"

-----------------------------------------------------------------------------
(* Bluepad32's callbacks, in interrupt context.                            *)

\* Faulty variant: the lock protects the flag but not the copy.
InCriticalSection_flag_only == pc = "copy_first"

\* main is in bt_gamepad_get_report's critical section: interrupts are off.
InCriticalSection == pc \in {"copy_first", "copy_second", "exit"}

\* A pad is found while scanning; platform_on_device_connected does nothing.
PadConnects(p) ==
    /\ ~InCriticalSection
    /\ link[p] = "absent"
    /\ scanning
    /\ link' = [link EXCEPT ![p] = "connecting"]
    /\ UNCHANGED <<scanning, slotVars, prevVars, report, s_power_sm, usbVars,
                   pc, seen, fresh>>

platform_on_device_ready(p) ==
    /\ ~InCriticalSection
    /\ link[p] = "connecting"
    /\ link' = [link EXCEPT ![p] = "ready"]
    /\ s_connected' = TRUE
    /\ scanning' = FALSE
    /\ fresh' = "press"
    /\ UNCHANGED <<s_reports, sender, prevVars, report, s_power_sm, usbVars,
                   pc, seen>>

platform_on_controller_data(p) ==
    /\ ~InCriticalSection
    /\ link[p] = "ready"
    /\ \E ctl \in Sent :
          IF ctl.klass = "gamepad"
          THEN s_reports' = convert_report(ctl.gamepad) /\ sender' = p
          ELSE UNCHANGED <<s_reports, sender>>
    /\ UNCHANGED <<link, scanning, s_connected, prevVars, report, s_power_sm,
                   usbVars, pc, seen, fresh>>

\* main.c, on_bt_event for a disconnection.
on_bt_disconnected ==
    /\ s_prev_report_valid' = FALSE
    /\ UNCHANGED s_prev_report

\* Faulty variant: the slot keeps the last report.
Clear_nothing == UNCHANGED <<s_reports, sender>>

\* Faulty variant: the slot is zeroed and its d-pad not centred.
Clear_zeroes == s_reports' = [Neutral EXCEPT !.dpad = 0] /\ sender' = None

\* memset, and the d-pad centred.
Clear == s_reports' = Neutral /\ sender' = None

platform_on_device_disconnected(p) ==
    /\ ~InCriticalSection
    /\ link[p] # "absent"
    /\ link' = [link EXCEPT ![p] = "absent"]
    /\ s_connected' = FALSE
    /\ Clear
    /\ on_bt_disconnected
    /\ scanning' = TRUE
    /\ fresh' = IF fresh = "press" THEN "press" ELSE "lost"
    /\ UNCHANGED <<report, s_power_sm, usbVars, pc, seen>>

-----------------------------------------------------------------------------
(* The main loop: USB and hardware.                                        *)

\* The events a host makes: from, to, and the event the callback of
\* usb_hid_gamepad.c causes through on_usb_state_change.
BusEvents ==
    {<<"NOT_MOUNTED", "MOUNTED", "USB_ENUMERATED">>,     \* tud_mount_cb
     <<"SUSPENDED", "MOUNTED", "USB_ENUMERATED">>,       \* tud_resume_cb
     <<"MOUNTED", "SUSPENDED", "USB_SUSPENDED">>,        \* tud_suspend_cb
     <<"MOUNTED", "NOT_MOUNTED", "USB_SUSPENDED">>,      \* tud_umount_cb
     <<"SUSPENDED", "NOT_MOUNTED", "USB_SUSPENDED">>}

\* tud_task has an event.  A bus that goes takes the endpoint and what the
\* PC knew of the device with it.
usb_hid_gamepad_task ==
    /\ pc = "usb"
    /\ \E e \in BusEvents :
          /\ usb = e[1]
          /\ usb' = e[2]
          /\ s_power_sm' = pc_power_sm_process(s_power_sm, e[3]).new_state
    /\ IF usb' = "NOT_MOUNTED"
       THEN hid' = {} /\ host_report' = AtRest
       ELSE UNCHANGED <<hid, host_report>>
    /\ UNCHANGED <<btVars, prevVars, report, pc, seen, fresh>>

usb_hid_gamepad_task_done ==
    /\ pc = "usb"
    /\ pc' = "status"
    /\ UNCHANGED <<btVars, prevVars, report, s_power_sm, usbVars, seen, fresh>>

\* bt_gamepad_get_report(0, NULL), for the status string: with a pad
\* connected the report is copied to the null pointer.
status_string ==
    /\ pc = "status"
    /\ IF s_connected
       THEN \E outcome \in NullWrite :
               pc' = IF outcome = "fault" THEN "dead" ELSE "poll"
       ELSE pc' = "poll"
    /\ UNCHANGED <<btVars, prevVars, report, s_power_sm, usbVars, seen, fresh>>

\* The states that one of the events, or none, leads to.
After(state, events) ==
    {state} \cup {pc_power_sm_process(state, e).new_state : e \in events}

\* The debounced LED, then the boot timer.
poll_hardware ==
    /\ pc = "poll"
    /\ \E lit \in After(s_power_sm, {"POWER_LED_ON", "POWER_LED_OFF"}) :
          s_power_sm' \in After(lit, {"BOOT_TIMEOUT"})
    /\ pc' = "get"
    /\ UNCHANGED <<btVars, prevVars, report, usbVars, seen, fresh>>

-----------------------------------------------------------------------------
(* The main loop: bt_gamepad_get_report(0, &report), process_gamepad.      *)

get_report_enter ==
    /\ pc = "get"
    /\ pc' = IF s_connected THEN "copy_first" ELSE "usb"
    /\ UNCHANGED <<btVars, prevVars, report, s_power_sm, usbVars, seen, fresh>>

get_report_first ==
    /\ pc = "copy_first"
    /\ report' = Mix(s_reports, report)
    /\ pc' = "copy_second"
    /\ UNCHANGED <<btVars, prevVars, s_power_sm, usbVars, seen, fresh>>

get_report_second ==
    /\ pc = "copy_second"
    /\ report' = Mix(report, s_reports)
    /\ fresh' = IF gamepad_report_guide_pressed(s_reports) THEN fresh
                ELSE "press"
    /\ pc' = "exit"
    /\ UNCHANGED <<btVars, prevVars, s_power_sm, usbVars, seen>>

get_report_exit ==
    /\ pc = "exit"
    /\ pc' = "process"
    /\ UNCHANGED <<btVars, prevVars, report, s_power_sm, usbVars, seen, fresh>>

\* usb_hid_gamepad_send_report: dropped while the bus is not up or the
\* endpoint busy.
send_report(r) ==
    hid' = IF usb = "MOUNTED" /\ hid = {}
           THEN {usb_hid_report_from_gamepad(r)} ELSE hid

NotesGuide(r) == seen' = IF gamepad_report_guide_pressed(r) THEN "down" ELSE "up"

\* Faulty variant: only a report that differs from the last is sent.
Forwards_changes ==
    s_power_sm = "ON" /\ (~s_prev_report_valid \/ report # s_prev_report)

\* Every pass in ON sends the report, changed or not.
Forwards == s_power_sm = "ON"

\* process_gamepad, up to the forwarding: it acts on the power state it has
\* read before the wake request.
process_gamepad ==
    /\ pc = "process"
    /\ LET guide_now  == gamepad_report_guide_pressed(report)
           guide_prev == /\ s_prev_report_valid
                         /\ gamepad_report_guide_pressed(s_prev_report)
           wake       == /\ guide_now /\ ~guide_prev
                         /\ s_power_sm \in {"OFF", "SLEEPING"}
       IN  IF wake
           THEN /\ s_power_sm' =
                     pc_power_sm_process(s_power_sm,
                                         "WAKE_REQUESTED").new_state
                /\ fresh' = "none"
           ELSE UNCHANGED <<s_power_sm, fresh>>
    /\ IF Forwards THEN send_report(report) ELSE UNCHANGED hid
    /\ NotesGuide(report)
    /\ pc' = "prev"
    /\ UNCHANGED <<btVars, prevVars, report, usb, host_report>>

\* Faulty variant: only a forwarded report is remembered.
Remembered_if_on == IF s_power_sm = "ON" THEN report ELSE s_prev_report

\* Faulty variant: the report before the press stays remembered as pressed.
Remembered_if_pressed ==
    IF gamepad_report_guide_pressed(report) THEN report ELSE s_prev_report

\* The report to compare the next one with.
Remembered == report

\* s_prev_report = *report; s_prev_report_valid = true
save_prev ==
    /\ pc = "prev"
    /\ s_prev_report' = Remembered
    /\ pc' = "valid"
    /\ UNCHANGED <<btVars, s_prev_report_valid, report, s_power_sm, usbVars,
                   seen, fresh>>

set_valid ==
    /\ pc = "valid"
    /\ s_prev_report_valid' = TRUE
    /\ pc' = "usb"
    /\ UNCHANGED <<btVars, s_prev_report, report, s_power_sm, usbVars, seen,
                   fresh>>

\* The PC polls the HID endpoint.
HostPolls ==
    /\ usb = "MOUNTED"
    /\ host_report' \in hid
    /\ hid' = {}
    /\ UNCHANGED <<btVars, prevVars, report, s_power_sm, usb, pc, seen, fresh>>

Main ==
    \/ usb_hid_gamepad_task_done \/ status_string \/ poll_hardware
    \/ get_report_enter \/ get_report_first \/ get_report_second
    \/ get_report_exit
    \/ process_gamepad \/ save_prev \/ set_valid

Bluetooth ==
    \E p \in Pads :
        \/ PadConnects(p)
        \/ platform_on_device_ready(p)
        \/ platform_on_controller_data(p)
        \/ platform_on_device_disconnected(p)

Next == Main \/ usb_hid_gamepad_task \/ Bluetooth \/ HostPolls

Spec == Init /\ [][Next]_vars

\* The loop goes on and the PC polls a full endpoint.  The bus and the pads
\* do as they like.
FairSpec == Spec /\ WF_vars(Main) /\ WF_vars(HostPolls)

-----------------------------------------------------------------------------
(* Properties.                                                             *)

\* Every report the loop acts on is one a pad has sent, or the slot's
\* neutral one: none mixes two (bt_gamepad.h:14-16).
NoTornReport == pc \in {"exit", "process", "prev", "valid"} => report \in Slots

\* What the slot holds is from a pad that is still connected, or it is the
\* neutral report: a pad that goes leaves no button pressed, for the next one
\* or for another that stays (bt_gamepad.c:90-93).
NoGhostInput ==
    IF sender = None THEN s_reports = Neutral ELSE link[sender] = "ready"

\* What the PC has received means, by the report descriptor, what a player
\* did with a pad, or that nothing is touched (usb_hid_report.c, gamepad.h).
PcReadsPad ==
    /\ InDescriptor(host_report)
    /\ \/ host_report = AtRest
       \/ \E c \in Sent : c.klass = "gamepad" /\ Means(host_report, c.gamepad)

\* One wake request per press: a new one needs the button to have been up,
\* or the pad to have gone, since the last (main.c:217-221).
OneWakePerPress ==
    [][pc = "process" /\ s_power_sm' # s_power_sm => fresh # "none"]_vars

Asleep == s_power_sm \in {"OFF", "SLEEPING"}

\* A press that lasts wakes the PC: whatever was done to s_prev_report_valid
\* in the middle of process_gamepad, a button that was up in the last report
\* processed and is now down is seen, while a pad is connected
\* (main.c:217-237).
PressWakes ==
    (Asleep /\ s_connected /\ seen = "up" /\ gamepad_report_guide_pressed(s_reports))
        ~> \/ ~Asleep
           \/ ~s_connected
           \/ ~gamepad_report_guide_pressed(s_reports)

\* In ON, with a pad that stays connected and rests in one position, the PC
\* gets to see that position, though reports are dropped while the endpoint
\* is busy (main.c:232-234, usb_hid_gamepad.c:208-217).
HostSeesRest ==
    \A r \in Slots :
        <>[](s_power_sm = "ON" /\ s_connected /\ s_reports = r)
            => <>[](host_report = usb_hid_report_from_gamepad(r))

\* main.c:33-34: "we only want to fire a wake event on the *press* edge".
\* A disconnection is not a press.
WakeOnPressEdge ==
    [][pc = "process" /\ s_power_sm' # s_power_sm => fresh = "press"]_vars

\* bt_gamepad.h:14-16: "so the main loop can safely read it".
MainLoopSurvives == pc # "dead"

=============================================================================
