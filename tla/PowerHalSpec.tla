---------------------------- MODULE PowerHalSpec ----------------------------
(***************************************************************************)
(* What pc_power_hal.h promises its caller, with no alarms, handles or     *)
(* interrupts: a button line that goes high for a given time, and a        *)
(* one-shot boot timer whose expiry is reported once.                      *)
(*                                                                         *)
(* Every operation changes one half of the state, so that a module that    *)
(* uses the HAL can conjoin an operation on the line and one on the timer  *)
(* in a single step.                                                       *)
(***************************************************************************)
EXTENDS Naturals

CONSTANTS
    PulseMs,      \* the durations a caller may ask for
    TimeoutMs     \* the boot timeouts a caller may ask for

VARIABLES
    line,         \* "high" while the power button is held pressed
    pulse_left,   \* time the line stays high, 0 when it is low
    timer,        \* "idle", "running" or "expired"
    timer_left    \* time to the expiry, 0 unless running

lineVars  == <<line, pulse_left>>
timerVars == <<timer, timer_left>>
vars      == <<line, pulse_left, timer, timer_left>>

TypeOK ==
    /\ line \in {"low", "high"}
    /\ pulse_left \in Nat
    /\ timer \in {"idle", "running", "expired"}
    /\ timer_left \in Nat

Init ==
    /\ line = "low"
    /\ pulse_left = 0
    /\ timer = "idle"
    /\ timer_left = 0

-----------------------------------------------------------------------------
(* Operations of the caller.                                               *)

\* Pulse the power button: whatever pulse was in flight, the line is high
\* for the duration asked for now.
Trigger(duration) ==
    /\ line' = "high"
    /\ pulse_left' = duration

StartTimer(timeout) ==
    /\ timer' = "running"
    /\ timer_left' = timeout

\* A cancelled timer neither runs nor has an expiry to report.
CancelTimer ==
    /\ timer' = "idle"
    /\ timer_left' = 0

\* The caller is told of an expiry, which is thereby consumed.
ReportExpiry ==
    /\ timer = "expired"
    /\ timer' = "idle"
    /\ timer_left' = 0

-----------------------------------------------------------------------------
(* The hardware.                                                           *)

PulseEnd ==
    /\ line = "high"
    /\ pulse_left = 0
    /\ line' = "low"
    /\ pulse_left' = 0

Expire ==
    /\ timer = "running"
    /\ timer_left = 0
    /\ timer' = "expired"
    /\ timer_left' = 0

Less(n) == IF n > 0 THEN n - 1 ELSE 0

\* Time passes only when no deadline is due.
Tick ==
    /\ line = "high" => pulse_left > 0
    /\ timer = "running" => timer_left > 0
    /\ pulse_left' = Less(pulse_left)
    /\ timer_left' = Less(timer_left)
    /\ UNCHANGED <<line, timer>>

Next ==
    \/ \E d \in PulseMs : Trigger(d) /\ UNCHANGED timerVars
    \/ \E t \in TimeoutMs : StartTimer(t) /\ UNCHANGED lineVars
    \/ CancelTimer /\ UNCHANGED lineVars
    \/ ReportExpiry /\ UNCHANGED lineVars
    \/ PulseEnd /\ UNCHANGED timerVars
    \/ Expire /\ UNCHANGED lineVars
    \/ Tick

Spec == Init /\ [][Next]_vars

=============================================================================
