---------------------------- MODULE MCGamepadLoop ----------------------------
(***************************************************************************)
(* GamepadLoop with two positions of a pad that differ in both halves of a *)
(* report, from each other and from the neutral one, and a mouse, whose    *)
(* data shares its memory with a gamepad's.                                *)
(***************************************************************************)
EXTENDS GamepadLoop

\* The left stick pushed to its end, the guide button down.
MCGuide ==
    [axis_x |-> -512, axis_y |-> 511, axis_rx |-> 0, axis_ry |-> -1,
     brake |-> 1023, throttle |-> 0, buttons |-> {"BUTTON_A"},
     misc_buttons |-> {"MISC_BUTTON_SYSTEM"}, dpad |-> {"UP", "LEFT"}]

\* The right stick, a trigger and the d-pad.
MCPlay ==
    [axis_x |-> 1, axis_y |-> 0, axis_rx |-> 300, axis_ry |-> 511,
     brake |-> 3, throttle |-> 512, buttons |-> {"BUTTON_B", "BUTTON_THUMB_L"},
     misc_buttons |-> {}, dpad |-> {"DOWN"}]

MCMouse == [MCPlay EXCEPT !.axis_x = 7, !.axis_y = -3]

MCSent == {[klass |-> "gamepad", gamepad |-> MCGuide],
           [klass |-> "gamepad", gamepad |-> MCPlay],
           [klass |-> "mouse", gamepad |-> MCMouse]}

MCIgnored == {"ignored"}
MCFault   == {"ignored", "fault"}

=============================================================================
