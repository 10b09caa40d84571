---------------------------- MODULE MCPcPowerHal ----------------------------
(***************************************************************************)
(* PcPowerHal with small durations, two pulses and two timeouts of         *)
(* different lengths, so that an alarm of one call can fall due during     *)
(* another, and just the two alarm slots the HAL needs.                    *)
(***************************************************************************)
EXTENDS PcPowerHal

MCAlarmId   == {1, 2}
MCPulseMs   == {1, 2}
MCTimeoutMs == {1, 3}

=============================================================================
