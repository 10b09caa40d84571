--------------------------- MODULE MCSetupSerial ---------------------------
(***************************************************************************)
(* SetupSerial with a line buffer of ten characters, a name of two, and   *)
(* values on both sides of each limit: one character too many, a line that *)
(* does not fit into the buffer, a number of more than 16 bits.            *)
(***************************************************************************)
EXTENDS SetupSerial

MCTextMax == [wifi_ssid |-> 1, wifi_password |-> 1, device_name |-> 2]
MCDefaultName == <<"a">>
MCChar == Keys \cup {"get", "set", "list", "defaults", "save", "nonsense",
                     " ", "+", "-", "a", "b", "CR", "LF"} \cup {Digits[i] : i \in 1 .. 10}
MCCrc(body) == body

Plain(c) == [cmd |-> c, key |-> <<>>, value |-> <<>>, means |-> 0]
Get(k) == [cmd |-> "get", key |-> <<k>>, value |-> <<>>, means |-> 0]
SetText(k, v) == [cmd |-> "set", key |-> <<k>>, value |-> v, means |-> v]
SetNumber(k, v, n) == [cmd |-> "set", key |-> <<k>>, value |-> v, means |-> n]

MCRequests == {
    Plain("list"), Plain("defaults"), Plain("nonsense"), Plain("set"),
    Get("power_pulse_ms"), Get("nonsense"),
    SetText("wifi_ssid", <<>>),
    SetText("device_name", <<"b", "b">>),
    SetText("device_name", <<"a", "b", "b", "a", "b", "b", "a">>),
    SetNumber("power_pulse_ms", <<"9">>, 9),
    SetNumber("nonsense", <<"9">>, 9),
    SetNumber("power_pulse_ms", <<"6", "5", "7", "3", "6">>, 65736),
    SetNumber("power_pulse_ms", <<"-", "6", "5", "6", "8", "6">>, 50)}

MCEndings == {<<"CR", "LF">>, <<" ", "LF">>}

=============================================================================
