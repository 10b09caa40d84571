------------------------------ MODULE LedLoop ------------------------------
(***************************************************************************)
(* The debouncer of LedDebounce in the main loop that drives it, against a *)
(* power LED that changes at any time.                                     *)
(***************************************************************************)
EXTENDS LedDebounce

VARIABLES
    led,      \* the level on GPIO_PWR_LED_SENSE, TRUE when the LED is lit
    clock,    \* the millisecond clock
    now_ms,   \* main's copy, read at the top of the loop
    pc,       \* "top" or "poll"
    held      \* history: how long ago the sample was taken that first
              \* showed the level now waiting to be accepted

vars == <<s_led_reading, s_led_debounced, s_led_changed_ms, led, clock,
          now_ms, pc, held>>

\* A level has been sampled and is not accepted yet.
Waiting == s_led_reading # s_led_debounced

TypeOK ==
    /\ DebounceTypeOK
    /\ led \in BOOLEAN
    /\ clock \in Time
    /\ now_ms \in Time
    /\ pc \in {"top", "poll"}
    /\ held \in Nat

\* The clock counts from power-up and may have any value here: the firmware
\* has been through an OTA check of unknown length.
Init ==
    /\ led \in BOOLEAN
    /\ DebounceInit(led)
    /\ clock \in Time
    /\ now_ms = clock
    /\ pc = "top"
    /\ held = 0

read_clock ==
    /\ pc = "top"
    /\ now_ms' = clock
    /\ pc' = "poll"
    /\ UNCHANGED <<s_led_reading, s_led_debounced, s_led_changed_ms, led,
                   clock, held>>

poll_hardware ==
    /\ pc = "poll"
    /\ poll_led(led, now_ms)
    /\ held' = IF led # s_led_reading THEN 0 ELSE held
    /\ pc' = "top"
    /\ UNCHANGED <<led, clock, now_ms>>

LedChanges ==
    /\ led' = ~led
    /\ UNCHANGED <<s_led_reading, s_led_debounced, s_led_changed_ms, clock,
                   now_ms, pc, held>>

\* The loop is never late: MaxLag bounds the time before the sample, MaxGap
\* the whole pass.
Tick ==
    /\ Elapsed(clock, now_ms) < IF pc = "poll" THEN MaxLag ELSE MaxGap
    /\ clock' = Advance(clock)
    /\ held' = IF Waiting THEN held + 1 ELSE held
    /\ UNCHANGED <<s_led_reading, s_led_debounced, s_led_changed_ms, led,
                   now_ms, pc>>

Next == read_clock \/ poll_hardware \/ LedChanges \/ Tick

Spec == Init /\ [][Next]_vars

-----------------------------------------------------------------------------
(* Properties.                                                             *)

Edge == s_led_debounced' # s_led_debounced

\* An edge reaches the state machine only if the new level was there in all
\* samples of the last StableMs, less the lag of the pass that saw it first
\* (main.c:138-140), also across a wrap of the clock.
EdgeOnlyWhenStable == [][Edge => held >= StableMs - MaxLag]_vars

\* A level that stays is accepted by the first pass that finds it StableMs
\* old: no candidate waits longer than that and one pass.
EdgeIsTimely == Waiting => held < StableMs + MaxGap + MaxLag

=============================================================================
