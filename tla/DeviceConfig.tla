---------------------------- MODULE DeviceConfig ----------------------------
(***************************************************************************)
(* The configuration and its form in flash, firmware/src/device_config.c:  *)
(* pure operators.                                                         *)
(*                                                                         *)
(* A text is the sequence of its characters before the NUL; one that is    *)
(* longer than its field allows has no NUL in it.  The checksum is an      *)
(* unspecified function: nothing here needs more of it.                    *)
(***************************************************************************)
EXTENDS Integers, Sequences

CONSTANTS
    Char,          \* the characters
    TextMax,       \* DEVICE_CONFIG_*_MAX: the length of each text
    DefaultName,   \* DEVICE_CONFIG_DEFAULT_DEVICE_NAME
    Crc(_)         \* crc32_update over header and payload

TextKeys   == {"wifi_ssid", "wifi_password", "device_name"}
NumberKeys == {"power_pulse_ms", "boot_timeout_ms"}
Keys == TextKeys \cup NumberKeys

ASSUME ConfigAssumption ==
    /\ TextMax \in [TextKeys -> Nat]
    /\ DefaultName \in Seq(Char)
    /\ Len(DefaultName) \in 1 .. TextMax["device_name"]

UINT16_MAX == 65535
U16 == 0 .. UINT16_MAX

\* DEVICE_CONFIG_POWER_PULSE_MIN and the others
POWER_PULSE_MIN  == 50
POWER_PULSE_MAX  == 2000
BOOT_TIMEOUT_MIN == 5000
BOOT_TIMEOUT_MAX == 60000

NumberRange ==
    [key \in NumberKeys |->
        IF key = "power_pulse_ms" THEN POWER_PULSE_MIN .. POWER_PULSE_MAX
        ELSE BOOT_TIMEOUT_MIN .. BOOT_TIMEOUT_MAX]

Config == [wifi_ssid : Seq(Char), wifi_password : Seq(Char),
           power_pulse_ms : U16, boot_timeout_ms : U16,
           device_name : Seq(Char)]

device_config_init ==
    [wifi_ssid |-> <<>>, wifi_password |-> <<>>,
     power_pulse_ms |-> 200, boot_timeout_ms |-> 30000,
     device_name |-> DefaultName]

device_config_validate(cfg) ==
    /\ \A key \in NumberKeys : cfg[key] \in NumberRange[key]
    /\ cfg.device_name # <<>>
    /\ \A key \in TextKeys : Len(cfg[key]) <= TextMax[key]

-----------------------------------------------------------------------------
CONFIG_MAGIC == 1346586183   \* "PCFG"
CONFIG_VERSION == 1

\* Little-endian.
put_u16(v) == <<v % 256, (v \div 256) % 256>>
get_u16(p) == p[1] + 256 * p[2]

Body(blob) == <<blob.magic, blob.version, blob.payload>>

device_config_serialize(cfg) ==
    LET payload == [cfg EXCEPT !.power_pulse_ms  = put_u16(@),
                               !.boot_timeout_ms = put_u16(@)]
    IN  [magic |-> CONFIG_MAGIC, version |-> CONFIG_VERSION,
         payload |-> payload,
         crc |-> Crc(<<CONFIG_MAGIC, CONFIG_VERSION, payload>>)]

\* The configuration after the call, which returns false if it is as before.
device_config_deserialize(cfg, blob) ==
    LET tmp == [blob.payload EXCEPT !.power_pulse_ms  = get_u16(@),
                                    !.boot_timeout_ms = get_u16(@)]
    IN  IF /\ blob.magic = CONFIG_MAGIC
           /\ blob.version = CONFIG_VERSION
           /\ blob.crc = Crc(Body(blob))
           /\ device_config_validate(tmp)
        THEN tmp ELSE cfg

=============================================================================
