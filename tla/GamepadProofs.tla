--------------------------- MODULE GamepadProofs ---------------------------
(***************************************************************************)
(* Proofs about the way of a report: what ReportConvert makes of it, and   *)
(* GamepadLoop's handling, for any number of pads and anything they send.  *)
(***************************************************************************)
EXTENDS GamepadLoop, TLAPS

\* A stick of the pad, scaled, is proportional and in the descriptor's range;
\* in particular nothing overflows.
LEMMA StickFits ==
    ASSUME NEW v \in Int, Between(PadStick, v)
    PROVE  /\ bt_gamepad_scale_axis(v) = 64 * v
           /\ Between(Stick, bt_gamepad_scale_axis(v))
           /\ Proportional(v, PadStick, bt_gamepad_scale_axis(v), Stick)
<1>1. -512 <= v /\ v <= 511
  BY DEF Between, PadStick
<1>2. bt_gamepad_scale_axis(v) = 64 * v
  BY <1>1 DEF bt_gamepad_scale_axis, INT16_MIN, INT16_MAX
<1>3. Between(Stick, 64 * v)
  BY <1>1 DEF Between, Stick, INT16_MIN, INT16_MAX
<1>4. Proportional(v, PadStick, 64 * v, Stick)
  BY <1>1 DEF Proportional, PadStick, Stick, Span, Abs, INT16_MIN, INT16_MAX
<1> QED
  BY <1>2, <1>3, <1>4

\* A trigger, clamped and then cut to eight bits.
LEMMA TriggerFits ==
    ASSUME NEW v \in Int, Between(PadTrigger, v)
    PROVE  /\ Between(Trigger, bt_gamepad_clamp_trigger(v) \div 4)
           /\ Proportional(v, PadTrigger, bt_gamepad_clamp_trigger(v) \div 4,
                           Trigger)
<1>1. 0 <= v /\ v <= 1023
  BY DEF Between, PadTrigger, TRIGGER_MAX
<1>2. bt_gamepad_clamp_trigger(v) = v
  BY <1>1 DEF bt_gamepad_clamp_trigger, TRIGGER_MAX
<1> DEFINE q == v \div 4
<1>3. q \in Int /\ 4 * q <= v /\ v <= 4 * q + 3
  BY <1>1
<1> HIDE DEF q
<1>4. Between(Trigger, q)
  BY <1>1, <1>3 DEF Between, Trigger
<1>5. Proportional(v, PadTrigger, q, Trigger)
  BY <1>1, <1>3 DEF Proportional, PadTrigger, Trigger, Span, Abs, TRIGGER_MAX
<1> QED
  BY <1>2, <1>4, <1>5 DEF q

\* The vectors of the eight directions.
LEMMA Vectors ==
    /\ DpadVector({"UP"}) = HatVector[1]
    /\ DpadVector({"UP", "RIGHT"}) = HatVector[2]
    /\ DpadVector({"RIGHT"}) = HatVector[3]
    /\ DpadVector({"DOWN", "RIGHT"}) = HatVector[4]
    /\ DpadVector({"DOWN"}) = HatVector[5]
    /\ DpadVector({"DOWN", "LEFT"}) = HatVector[6]
    /\ DpadVector({"LEFT"}) = HatVector[7]
    /\ DpadVector({"UP", "LEFT"}) = HatVector[8]
  BY DEF DpadVector, HatVector, Sign

\* The eight are pressed one way, and no other set of directions is.
LEMMA Directions ==
    ASSUME NEW bits \in SUBSET PadDirections
    PROVE  bits = {} \/ Opposed(bits)
             <=> bits \notin {{"UP"}, {"UP", "RIGHT"}, {"RIGHT"},
                             {"DOWN", "RIGHT"}, {"DOWN"}, {"DOWN", "LEFT"},
                             {"LEFT"}, {"UP", "LEFT"}}
<1>1. \A d \in bits : d \in {"UP", "DOWN", "LEFT", "RIGHT"}
  BY DEF PadDirections
<1>2. ASSUME bits # {}, ~Opposed(bits)
      PROVE  bits \in {{"UP"}, {"UP", "RIGHT"}, {"RIGHT"}, {"DOWN", "RIGHT"},
                      {"DOWN"}, {"DOWN", "LEFT"}, {"LEFT"}, {"UP", "LEFT"}}
  <2>1. CASE "UP" \in bits
    BY <1>1, <1>2, <2>1 DEF Opposed
  <2>2. CASE "DOWN" \in bits
    BY <1>1, <1>2, <2>2 DEF Opposed
  <2>3. CASE "UP" \notin bits /\ "DOWN" \notin bits
    BY <1>1, <1>2, <2>3 DEF Opposed
  <2> QED
    BY <2>1, <2>2, <2>3
<1>3. ASSUME bits \in {{"UP"}, {"UP", "RIGHT"}, {"RIGHT"}, {"DOWN", "RIGHT"},
                      {"DOWN"}, {"DOWN", "LEFT"}, {"LEFT"}, {"UP", "LEFT"}}
      PROVE  bits # {} /\ ~Opposed(bits)
  BY <1>3 DEF Opposed
<1> QED
  BY <1>2, <1>3

\* The hat of the PC points where the d-pad does, and is centred when the
\* d-pad is at rest or pressed two opposite ways.
LEMMA HatFits ==
    ASSUME NEW bits \in SUBSET PadDirections
    PROVE  LET hat == usb_hat(gamepad_dpad_to_hat(bits))
           IN  /\ hat = 0 \/ Between(Hat, hat)
               /\ IF bits = {} \/ Opposed(bits) THEN hat = 0
                  ELSE /\ Between(Hat, hat)
                       /\ HatVector[hat] = DpadVector(bits)
<1>1. CASE bits = {} \/ Opposed(bits)
  BY <1>1 DEF Opposed, usb_hat, gamepad_dpad_to_hat, CENTERED
<1>2. CASE ~(bits = {} \/ Opposed(bits))
  <2> USE DEF usb_hat, gamepad_dpad_to_hat, CENTERED, Between, Hat
  <2>1. CASE bits \in {{"UP"}, {"UP", "RIGHT"}, {"RIGHT"}, {"DOWN", "RIGHT"}}
    BY <1>2, <2>1, Vectors
  <2>2. CASE bits \in {{"DOWN"}, {"DOWN", "LEFT"}, {"LEFT"}, {"UP", "LEFT"}}
    BY <1>2, <2>2, Vectors
  <2> QED
    BY <1>2, <2>1, <2>2, Directions
<1> QED
  BY <1>1, <1>2

\* For anything a pad sends, what the PC is sent keeps to the report
\* descriptor and means what the player does.
THEOREM ReportMeans ==
    ASSUME NEW gp, PadSends(gp)
    PROVE  LET usb_report == usb_hid_report_from_gamepad(convert_report(gp))
           IN  InDescriptor(usb_report) /\ Means(usb_report, gp)
<1> DEFINE w == usb_hid_report_from_gamepad(convert_report(gp))
<1>1. /\ w["lx"] = bt_gamepad_scale_axis(gp["axis_x"])
      /\ w["ly"] = bt_gamepad_scale_axis(gp["axis_y"])
      /\ w["rx"] = bt_gamepad_scale_axis(gp["axis_rx"])
      /\ w["ry"] = bt_gamepad_scale_axis(gp["axis_ry"])
      /\ w["lt"] = bt_gamepad_clamp_trigger(gp["brake"]) \div 4
      /\ w["rt"] = bt_gamepad_clamp_trigger(gp["throttle"]) \div 4
      /\ w["hat"] = usb_hat(gamepad_dpad_to_hat(gp["dpad"]))
  BY DEF usb_hid_report_from_gamepad, convert_report
<1> HIDE DEF w
<1>2. /\ Between(Stick, w["lx"]) /\ Proportional(gp["axis_x"], PadStick, w["lx"], Stick)
      /\ Between(Stick, w["ly"]) /\ Proportional(gp["axis_y"], PadStick, w["ly"], Stick)
      /\ Between(Stick, w["rx"]) /\ Proportional(gp["axis_rx"], PadStick, w["rx"], Stick)
      /\ Between(Stick, w["ry"]) /\ Proportional(gp["axis_ry"], PadStick, w["ry"], Stick)
  BY <1>1, StickFits DEF PadSends
<1>3. /\ Between(Trigger, w["lt"])
      /\ Proportional(gp["brake"], PadTrigger, w["lt"], Trigger)
      /\ Between(Trigger, w["rt"])
      /\ Proportional(gp["throttle"], PadTrigger, w["rt"], Trigger)
  BY <1>1, TriggerFits DEF PadSends
<1>4. /\ w["hat"] = 0 \/ Between(Hat, w["hat"])
      /\ IF gp["dpad"] = {} \/ Opposed(gp["dpad"]) THEN w["hat"] = 0
         ELSE /\ Between(Hat, w["hat"])
              /\ HatVector[w["hat"]] = DpadVector(gp["dpad"])
  <2>1. gp["dpad"] \in SUBSET PadDirections
    BY DEF PadSends
  <2> QED
    BY <1>1, <2>1, HatFits
<1>5. InDescriptor(w)
  BY <1>2, <1>3, <1>4 DEF InDescriptor
<1>6. Means(w, gp)
  BY <1>2, <1>3, <1>4 DEF Means
<1> QED
  BY <1>5, <1>6 DEF w

-----------------------------------------------------------------------------
(* The reports of the loop.                                                *)

\* A report is a function of its fields.
LEMMA SlotFields ==
    \A r \in Slots : Mix(r, r) = r
<1>1. Mix(Neutral, Neutral) = Neutral
  BY DEF Mix, Fields, FirstHalf, Neutral
<1>2. ASSUME NEW gp
      PROVE  Mix(convert_report(gp), convert_report(gp)) = convert_report(gp)
  BY DEF Mix, Fields, FirstHalf, convert_report
<1> QED
  BY <1>1, <1>2 DEF Slots, PadReports

\* Mixing takes each half from its source.
LEMMA MixOfMix ==
    ASSUME NEW a, NEW b, NEW c, NEW d
    PROVE  /\ Mix(a, Mix(b, c)) = Mix(a, c)
           /\ Mix(Mix(a, b), c) = Mix(a, c)
  BY Zenon DEF Mix, Fields, FirstHalf

\* Both are in the slot's set.
LEMMA MixTyped ==
    \A r \in Slots : \E first, second \in Slots : r = Mix(first, second)
  BY SlotFields

\* The slot's neutral report is one, and a pad's are.
LEMMA SlotsHave ==
    /\ Neutral \in Slots
    /\ \A c \in Sent : c.klass = "gamepad" => convert_report(c.gamepad) \in Slots
    /\ \A r \in Slots : usb_hid_report_from_gamepad(r) \in Wire
  BY DEF Slots, PadReports, Wire

\* A guide button that is up in the neutral report.
LEMMA NeutralUp == ~gamepad_report_guide_pressed(Neutral)
  BY DEF Neutral, gamepad_report_guide_pressed

\* The state machine stays within its states.
LEMMA StateTyped ==
    \A s \in PcState, e \in PcEvent :
        pc_power_sm_process(s, e).new_state \in PcState
  BY DEF PcState, PcEvent, pc_power_sm_process, handle_off, handle_booting,
         handle_on, handle_sleeping, transition, no_change

-----------------------------------------------------------------------------
(* The invariant.                                                          *)

\* In the middle of the copy the first half is the slot's.
CopyInv == pc = "copy_second" => report = Mix(s_reports, report)

\* Since the last wake request the guide button has been down in all that
\* was read, and is so remembered.
WakeInv ==
    fresh = "none" =>
        /\ pc \in {"exit", "process", "prev"} =>
               gamepad_report_guide_pressed(report)
        /\ pc = "valid" => gamepad_report_guide_pressed(s_prev_report)
        /\ pc \notin {"prev", "valid"} =>
               /\ s_prev_report_valid
               /\ gamepad_report_guide_pressed(s_prev_report)

LoopInv == TypeOK /\ NoTornReport /\ CopyInv /\ NoGhostInput /\ WakeInv

\* It holds when bt_gamepad_init has run.
LEMMA LoopInvInit == Init => LoopInv
<1> SUFFICES ASSUME Init PROVE LoopInv
  OBVIOUS
<1>1. TypeOK
  BY SlotsHave DEF Init, TypeOK, pc_power_sm_init, PcState, AtRest
<1>2. NoTornReport /\ CopyInv /\ NoGhostInput /\ WakeInv
  BY DEF Init, NoTornReport, CopyInv, NoGhostInput, WakeInv
<1> QED
  BY <1>1, <1>2 DEF LoopInv

\* Bluepad32's callbacks keep it.
LEMMA BluetoothKeeps ==
    ASSUME LoopInv, NEW p \in Pads,
           \/ PadConnects(p)
           \/ platform_on_device_ready(p)
           \/ platform_on_controller_data(p)
           \/ platform_on_device_disconnected(p)
    PROVE  LoopInv'
<1> USE DEF LoopInv
<1> USE SlotsHave DEF TypeOK, NoTornReport, CopyInv, NoGhostInput, WakeInv,
    slotVars, prevVars, usbVars, InCriticalSection
<1>1. CASE PadConnects(p)
  BY <1>1, GamepadAssumption DEF PadConnects
<1>2. CASE platform_on_device_ready(p)
  BY <1>2, GamepadAssumption DEF platform_on_device_ready
<1>3. CASE platform_on_controller_data(p)
  BY <1>3, GamepadAssumption DEF platform_on_controller_data
<1>4. CASE platform_on_device_disconnected(p)
  BY <1>4, GamepadAssumption
     DEF platform_on_device_disconnected, on_bt_disconnected, Clear
<1> QED
  BY <1>1, <1>2, <1>3, <1>4

\* Each statement of the loop keeps it.
LEMMA MainKeeps ==
    ASSUME LoopInv, Main
    PROVE  LoopInv'
<1> USE DEF LoopInv
<1> USE SlotsHave DEF TypeOK, NoTornReport, CopyInv, NoGhostInput, WakeInv,
    slotVars, prevVars, btVars, usbVars
<1>1. CASE usb_hid_gamepad_task_done
  BY <1>1 DEF usb_hid_gamepad_task_done
<1>2. CASE status_string
  BY <1>2, GamepadAssumption DEF status_string
<1>3. CASE poll_hardware
  BY <1>3, StateTyped DEF poll_hardware, After, PcEvent
<1>4. CASE get_report_enter
  BY <1>4 DEF get_report_enter
<1>5. CASE get_report_first
  BY <1>5, MixOfMix DEF get_report_first
<1>6. CASE get_report_second
  <2>1. report' = s_reports
    <3>1. report = Mix(s_reports, report) /\ report' = Mix(report, s_reports)
      BY <1>6 DEF get_report_second
    <3>2. report' = Mix(Mix(s_reports, report), s_reports)
      BY <3>1
    <3>3. report' = Mix(s_reports, s_reports)
      BY <3>2, MixOfMix
    <3> QED
      BY <3>3, SlotFields
  <2>2. report' \in Slots /\ \E a, b \in Slots : report' = Mix(a, b)
    BY <2>1, MixTyped
  <2> QED
    BY <1>6, <2>1, <2>2 DEF get_report_second
<1>7. CASE get_report_exit
  BY <1>7 DEF get_report_exit
<1>8. CASE process_gamepad
  BY <1>8, StateTyped DEF process_gamepad, PcEvent, send_report, NotesGuide, Forwards
<1>9. CASE save_prev
  BY <1>9 DEF save_prev, Remembered
<1>10. CASE set_valid
  BY <1>10 DEF set_valid
<1> QED
  BY <1>1, <1>2, <1>3, <1>4, <1>5, <1>6, <1>7, <1>8, <1>9, <1>10 DEF Main

\* The bus and the PC keep it.
LEMMA UsbKeeps ==
    ASSUME LoopInv, usb_hid_gamepad_task \/ HostPolls
    PROVE  LoopInv'
<1> USE DEF LoopInv
<1> USE SlotsHave DEF TypeOK, NoTornReport, CopyInv, NoGhostInput, WakeInv,
    slotVars, prevVars, btVars, usbVars
<1>1. CASE usb_hid_gamepad_task
  BY <1>1, StateTyped DEF usb_hid_gamepad_task, BusEvents, PcEvent, AtRest
<1>2. CASE HostPolls
  BY <1>2 DEF HostPolls
<1> QED
  BY <1>1, <1>2

\* Every step of the system keeps the invariant.
LEMMA LoopInvNext == LoopInv /\ [Next]_vars => LoopInv'
<1> SUFFICES ASSUME LoopInv, [Next]_vars PROVE LoopInv'
  OBVIOUS
<1>1. CASE Next
  BY <1>1, BluetoothKeeps, MainKeeps, UsbKeeps DEF Next, Bluetooth
<1>2. CASE UNCHANGED vars
  BY <1>2 DEF vars, slotVars, prevVars, btVars, usbVars, LoopInv, TypeOK,
              NoTornReport, CopyInv, NoGhostInput, WakeInv
<1> QED
  BY <1>1, <1>2

\* The invariant holds throughout.
THEOREM LoopInvariant == Spec => []LoopInv
  BY LoopInvInit, LoopInvNext, PTL DEF Spec

\* The types of GamepadLoop, whatever the pads send.
THEOREM TypeCorrect == Spec => []TypeOK
<1>1. LoopInv => TypeOK
  BY DEF LoopInv
<1> QED
  BY <1>1, LoopInvariant, PTL

\* The loop never acts on a report no pad has sent (bt_gamepad.h:14-16).
THEOREM NeverTorn == Spec => []NoTornReport
<1>1. LoopInv => NoTornReport
  BY DEF LoopInv
<1> QED
  BY <1>1, LoopInvariant, PTL

\* A pad that has gone leaves nothing in the slot (bt_gamepad.c:90-93).
THEOREM NoGhost == Spec => []NoGhostInput
<1>1. LoopInv => NoGhostInput
  BY DEF LoopInv
<1> QED
  BY <1>1, LoopInvariant, PTL

\* The PC understands what it is sent (usb_hid_report.c, gamepad.h).
THEOREM PcReads == Spec => []PcReadsPad
<1>1. InDescriptor(AtRest)
  BY DEF InDescriptor, AtRest, usb_hid_report_from_gamepad, Neutral, usb_hat,
         CENTERED, Between, Stick, Trigger, Hat, INT16_MIN, INT16_MAX
<1>2. \A c \in Sent : c.klass = "gamepad" =>
          LET w == usb_hid_report_from_gamepad(convert_report(c.gamepad))
          IN  InDescriptor(w) /\ Means(w, c.gamepad)
  BY GamepadAssumption, ReportMeans
<1>3. ASSUME host_report \in Wire PROVE PcReadsPad
  <2>1. host_report = AtRest
          \/ \E c \in Sent : /\ c.klass = "gamepad"
                             /\ host_report = usb_hid_report_from_gamepad(
                                                 convert_report(c.gamepad))
    BY <1>3 DEF Wire, Slots, PadReports, AtRest
  <2> QED
    BY <1>1, <1>2, <2>1 DEF PcReadsPad
<1>4. LoopInv => PcReadsPad
  BY <1>3 DEF LoopInv, TypeOK
<1> QED
  BY <1>4, LoopInvariant, PTL

\* A press asks for one wake (main.c:217-221).
THEOREM OneWake == Spec => OneWakePerPress
<1>1. LoopInv /\ [Next]_vars
        => [pc = "process" /\ s_power_sm' # s_power_sm => fresh # "none"]_vars
  <2> SUFFICES ASSUME LoopInv, Next, pc = "process",
                      s_power_sm' # s_power_sm, fresh = "none"
               PROVE  FALSE
    OBVIOUS
  <2>1. /\ s_prev_report_valid
        /\ gamepad_report_guide_pressed(s_prev_report)
    BY DEF LoopInv, WakeInv
  <2>2. process_gamepad
    BY DEF Next, Main, usb_hid_gamepad_task_done, status_string,
           poll_hardware, get_report_enter, get_report_first,
           get_report_second, get_report_exit, save_prev, set_valid,
           usb_hid_gamepad_task, Bluetooth, PadConnects,
           platform_on_device_ready, platform_on_controller_data,
           platform_on_device_disconnected, Clear, HostPolls
  <2> QED
    BY <2>1, <2>2 DEF process_gamepad
<1> QED
  BY <1>1, LoopInvariant, PTL DEF Spec, OneWakePerPress

=============================================================================
