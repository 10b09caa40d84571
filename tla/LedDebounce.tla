---------------------------- MODULE LedDebounce ----------------------------
(***************************************************************************)
(* The power LED half of poll_hardware (firmware/src/main.c), with the     *)
(* 32-bit millisecond clock it measures stability by and the main loop     *)
(* that calls it.  The loop reads the clock once, at its top, and samples  *)
(* the LED later: lag is the time spent in between, on the USB stack and   *)
(* on setup commands.                                                      *)
(***************************************************************************)
EXTENDS Integers

CONSTANTS
    ClockMod,    \* the millisecond clock wraps here: 2^32
    StableMs,    \* POWER_LED_STABLE_MS
    MaxLag,      \* longest time from reading the clock to sampling the LED
    MaxGap       \* longest time from reading the clock to reading it again

\* The clock does not wrap around between two passes of the loop while a
\* reading waits to become stable.
ASSUME TimingAssumption ==
    /\ ClockMod \in Nat
    /\ StableMs \in Nat \ {0}
    /\ MaxLag \in Nat
    /\ MaxGap \in Nat
    /\ MaxLag <= MaxGap
    /\ StableMs + MaxLag + MaxGap < ClockMod

VARIABLES
    s_led_reading,     \* latest sample
    s_led_debounced,   \* accepted level
    s_led_changed_ms   \* the loop's clock when s_led_reading last changed

debounceVars == <<s_led_reading, s_led_debounced, s_led_changed_ms>>

Time == 0 .. ClockMod - 1

\* Faulty variant: signed subtraction.
Elapsed_signed(now_ms, since) == now_ms - since

\* Unsigned subtraction and addition of two times.
Elapsed(now_ms, since) ==
    IF now_ms >= since THEN now_ms - since ELSE now_ms - since + ClockMod

\* Faulty variant: a clock wider than 32 bits.
Advance_wide(t) == t + 1

Advance(t) == IF t + 1 = ClockMod THEN 0 ELSE t + 1

DebounceTypeOK ==
    /\ s_led_reading \in BOOLEAN
    /\ s_led_debounced \in BOOLEAN
    /\ s_led_changed_ms \in Time

\* main, before the loop: the level found at start-up is taken as stable.
DebounceInit(led) ==
    /\ s_led_reading = led
    /\ s_led_debounced = led
    /\ s_led_changed_ms = 0

\* Faulty variant: the period is restarted only by a return to the accepted
\* level.
poll_led_no_restart(led, now_ms) ==
    LET since  == IF led # s_led_reading /\ led = s_led_debounced
                  THEN now_ms ELSE s_led_changed_ms
        stable == Elapsed(now_ms, since) >= StableMs
    IN  /\ s_led_reading' = led
        /\ s_led_changed_ms' = since
        /\ s_led_debounced' = IF stable THEN led ELSE s_led_debounced

\* One call of poll_hardware, up to the event: an edge is accepted if
\* s_led_debounced changes, and the event is POWER_LED_ON or POWER_LED_OFF
\* according to its new value.
poll_led(led, now_ms) ==
    LET since  == IF led # s_led_reading THEN now_ms ELSE s_led_changed_ms
        stable == Elapsed(now_ms, since) >= StableMs
    IN  /\ s_led_reading' = led
        /\ s_led_changed_ms' = since
        /\ s_led_debounced' = IF stable THEN led ELSE s_led_debounced

=============================================================================
