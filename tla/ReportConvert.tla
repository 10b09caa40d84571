--------------------------- MODULE ReportConvert ---------------------------
(***************************************************************************)
(* A report on its way from the controller to the PC: the conversions of   *)
(* firmware/src/bt_gamepad_convert.c, bt_gamepad.c, gamepad.h and          *)
(* usb_hid_report.c, as pure operators.                                    *)
(*                                                                         *)
(* A bit mask is the set of the names of its bits.                         *)
(***************************************************************************)
EXTENDS Integers

INT16_MIN == -32768
INT16_MAX == 32767
TRIGGER_MAX == 1023

\* Bluepad32's -512 .. 511 onto an int16_t.
bt_gamepad_scale_axis(value) ==
    LET scaled == value * 64
    IN  CASE scaled > INT16_MAX -> INT16_MAX
          [] scaled < INT16_MIN -> INT16_MIN
          [] OTHER -> scaled

bt_gamepad_clamp_trigger(value) ==
    CASE value < 0 -> 0
      [] value > TRIGGER_MAX -> TRIGGER_MAX
      [] OTHER -> value

\* Bluepad32's buttons and misc_buttons, merged into GAMEPAD_BTN_*.
ButtonOf ==
    [BUTTON_A |-> "A", BUTTON_B |-> "B", BUTTON_X |-> "X", BUTTON_Y |-> "Y",
     BUTTON_SHOULDER_L |-> "L1", BUTTON_SHOULDER_R |-> "R1",
     BUTTON_THUMB_L |-> "L3", BUTTON_THUMB_R |-> "R3"]

MiscOf ==
    [MISC_BUTTON_START |-> "START", MISC_BUTTON_SELECT |-> "SELECT",
     MISC_BUTTON_SYSTEM |-> "GUIDE"]

map_buttons(buttons, misc) ==
    {ButtonOf[b] : b \in buttons \cap DOMAIN ButtonOf}
        \cup {MiscOf[b] : b \in misc \cap DOMAIN MiscOf}

\* A hat switch: 0 is up, clockwise; 8 is centred.
CENTERED == 8

gamepad_dpad_to_hat(bits) ==
    CASE bits = {"UP"}            -> 0
      [] bits = {"UP", "RIGHT"}   -> 1
      [] bits = {"RIGHT"}         -> 2
      [] bits = {"DOWN", "RIGHT"} -> 3
      [] bits = {"DOWN"}          -> 4
      [] bits = {"DOWN", "LEFT"}  -> 5
      [] bits = {"LEFT"}          -> 6
      [] bits = {"UP", "LEFT"}    -> 7
      [] OTHER                    -> CENTERED

\* gamepad_report_t, from what Bluepad32 has of the controller.
convert_report(gp) ==
    [lx |-> bt_gamepad_scale_axis(gp.axis_x),
     ly |-> bt_gamepad_scale_axis(gp.axis_y),
     rx |-> bt_gamepad_scale_axis(gp.axis_rx),
     ry |-> bt_gamepad_scale_axis(gp.axis_ry),
     lt |-> bt_gamepad_clamp_trigger(gp.brake),
     rt |-> bt_gamepad_clamp_trigger(gp.throttle),
     buttons |-> map_buttons(gp.buttons, gp.misc_buttons),
     dpad |-> gamepad_dpad_to_hat(gp.dpad)]

\* A controller that is at rest, or that has gone: memset and a centred hat.
Neutral == [lx |-> 0, ly |-> 0, rx |-> 0, ry |-> 0, lt |-> 0, rt |-> 0,
            buttons |-> {}, dpad |-> CENTERED]

gamepad_report_guide_pressed(report) == "GUIDE" \in report.buttons

\* USB counts the hat from one, and zero is centred.
usb_hat(dpad) == IF dpad = CENTERED THEN 0 ELSE dpad + 1

\* Faulty variant: a trigger keeps its lower eight bits.
usb_hid_report_from_gamepad_low_bits(in) ==
    [lx |-> in.lx, ly |-> in.ly, rx |-> in.rx, ry |-> in.ry,
     lt |-> in.lt % 256, rt |-> in.rt % 256,
     hat |-> usb_hat(in.dpad),
     buttons |-> in.buttons]

\* usb_gamepad_report_t
usb_hid_report_from_gamepad(in) ==
    [lx |-> in.lx, ly |-> in.ly, rx |-> in.rx, ry |-> in.ry,
     lt |-> in.lt \div 4, rt |-> in.rt \div 4,
     hat |-> usb_hat(in.dpad),
     buttons |-> in.buttons]

\* The logical ranges of the report descriptor; the hat has a null state
\* besides.
Stick   == [lo |-> INT16_MIN, hi |-> INT16_MAX]
Trigger == [lo |-> 0, hi |-> 255]
Hat     == [lo |-> 1, hi |-> 8]

Between(range, value) == range.lo <= value /\ value <= range.hi

InDescriptor(usb) ==
    /\ \A f \in {"lx", "ly", "rx", "ry"} : Between(Stick, usb[f])
    /\ \A f \in {"lt", "rt"} : Between(Trigger, usb[f])
    /\ usb.hat = 0 \/ Between(Hat, usb.hat)

-----------------------------------------------------------------------------
(* What a report to the PC should mean, said without the conversions.      *)

\* Bluepad32's ranges (bt_gamepad_convert.h).
PadStick   == [lo |-> -512, hi |-> 511]
PadTrigger == [lo |-> 0, hi |-> TRIGGER_MAX]

PadDirections == {"UP", "DOWN", "LEFT", "RIGHT"}

PadSends(gp) ==
    /\ \A f \in {"axis_x", "axis_y", "axis_rx", "axis_ry"} :
          gp[f] \in Int /\ Between(PadStick, gp[f])
    /\ \A f \in {"brake", "throttle"} :
          gp[f] \in Int /\ Between(PadTrigger, gp[f])
    /\ gp.dpad \subseteq PadDirections

Span(range) == range.hi - range.lo
Abs(n) == IF n < 0 THEN -n ELSE n

\* v is as far along its range as w along its own, to less than one step of
\* the coarser.
Proportional(v, from, w, to) ==
    Abs((w - to.lo) * Span(from) - (v - from.lo) * Span(to))
        < IF Span(from) > Span(to) THEN Span(from) ELSE Span(to)

\* The direction of a d-pad and of a hat in eighths of a turn, right and up
\* counted positive.
Sign(plus, minus, bits) ==
    (IF plus \in bits THEN 1 ELSE 0) - (IF minus \in bits THEN 1 ELSE 0)
DpadVector(bits) == <<Sign("RIGHT", "LEFT", bits), Sign("UP", "DOWN", bits)>>
HatVector ==
    <<<<0, 1>>, <<1, 1>>, <<1, 0>>, <<1, -1>>,
      <<0, -1>>, <<-1, -1>>, <<-1, 0>>, <<-1, 1>>>>

Opposed(bits) == {"UP", "DOWN"} \subseteq bits \/ {"LEFT", "RIGHT"} \subseteq bits

\* What the PC makes of a report is what the player does.
Means(usb, gp) ==
    /\ Proportional(gp.axis_x, PadStick, usb.lx, Stick)
    /\ Proportional(gp.axis_y, PadStick, usb.ly, Stick)
    /\ Proportional(gp.axis_rx, PadStick, usb.rx, Stick)
    /\ Proportional(gp.axis_ry, PadStick, usb.ry, Stick)
    /\ Proportional(gp.brake, PadTrigger, usb.lt, Trigger)
    /\ Proportional(gp.throttle, PadTrigger, usb.rt, Trigger)
    /\ IF gp.dpad = {} \/ Opposed(gp.dpad) THEN usb.hat = 0
       ELSE Between(Hat, usb.hat) /\ HatVector[usb.hat] = DpadVector(gp.dpad)

=============================================================================
