----------------------------- MODULE MCPowerLoop -----------------------------
(***************************************************************************)
(* PowerLoop at a small scale of time: an LED level is stable after two    *)
(* units, a boot times out after three, a pulse lasts one or two.           *)
(***************************************************************************)
EXTENDS PowerLoop

MCPulseMs   == {1, 2}
MCTimeoutMs == {3}

=============================================================================
