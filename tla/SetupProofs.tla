---------------------------- MODULE SetupProofs ----------------------------
(***************************************************************************)
(* Proofs about SetupSerial, for every limit of a text, every default      *)
(* name, every size of a buffer, and all that a terminal may ask.          *)
(*                                                                         *)
(* First: a configuration made by any commands is one that the form in     *)
(* flash gives back, and no line leaves its buffer.  Then what a command   *)
(* means: a line in the buffer, cut at its limit or not, is carried out as *)
(* it was asked (CommandMeans).  Last, the terminal and the device stay in *)
(* step: the characters under way lead from the state of the device to the *)
(* one asked for, with the answers due (InStep), hence the configuration   *)
(* is as asked, and every answer that is read is the one due.              *)
(***************************************************************************)
EXTENDS SetupSerial, SequenceTheorems, WellFoundedInduction, FiniteSetTheorems, TLAPS

\* A configuration field by field; it has these fields and no other.
Fields(cfg) ==
    cfg = [wifi_ssid |-> cfg.wifi_ssid, wifi_password |-> cfg.wifi_password,
           power_pulse_ms |-> cfg.power_pulse_ms,
           boot_timeout_ms |-> cfg.boot_timeout_ms,
           device_name |-> cfg.device_name]

ConfigInv == Fields(s_config) /\ device_config_validate(s_config)

\* What device_config_validate asks, without its quantifiers.
LEMMA ValidateMeans ==
    ASSUME NEW cfg
    PROVE  device_config_validate(cfg) <=>
             /\ cfg["power_pulse_ms"] \in NumberRange["power_pulse_ms"]
             /\ cfg["boot_timeout_ms"] \in NumberRange["boot_timeout_ms"]
             /\ cfg.device_name # <<>>
             /\ Len(cfg["wifi_ssid"]) <= TextMax["wifi_ssid"]
             /\ Len(cfg["wifi_password"]) <= TextMax["wifi_password"]
             /\ Len(cfg["device_name"]) <= TextMax["device_name"]
  BY Zenon DEF device_config_validate, NumberKeys, TextKeys

\* How the limits of device_config.h, its defaults and sixteen bits compare.
LEMMA Limits ==
    /\ POWER_PULSE_MIN \in Int  /\ POWER_PULSE_MAX \in Int
    /\ BOOT_TIMEOUT_MIN \in Int /\ BOOT_TIMEOUT_MAX \in Int
    /\ UINT16_MAX \in Int /\ UINT16_MAX <= 65535
    /\ 0 <= POWER_PULSE_MIN  /\ POWER_PULSE_MAX <= UINT16_MAX
    /\ 0 <= BOOT_TIMEOUT_MIN /\ BOOT_TIMEOUT_MAX <= UINT16_MAX
    /\ POWER_PULSE_MIN <= 200    /\ 200 <= POWER_PULSE_MAX
    /\ BOOT_TIMEOUT_MIN <= 30000 /\ 30000 <= BOOT_TIMEOUT_MAX
  BY SMT DEF POWER_PULSE_MIN, POWER_PULSE_MAX, BOOT_TIMEOUT_MIN,
             BOOT_TIMEOUT_MAX, UINT16_MAX

\* The numbers allowed fit into sixteen bits, and the defaults are allowed.
LEMMA RangesAreU16 ==
    /\ NumberRange["power_pulse_ms"] \subseteq U16
    /\ NumberRange["boot_timeout_ms"] \subseteq U16
    /\ 200 \in NumberRange["power_pulse_ms"]
    /\ 30000 \in NumberRange["boot_timeout_ms"]
<1>1. NumberRange["power_pulse_ms"] = POWER_PULSE_MIN .. POWER_PULSE_MAX
  BY SMT DEF NumberKeys, NumberRange
<1>2. NumberRange["boot_timeout_ms"] = BOOT_TIMEOUT_MIN .. BOOT_TIMEOUT_MAX
  BY SMT DEF NumberKeys, NumberRange
<1> QED
  BY <1>1, <1>2, Limits, SMT DEF U16

\* The two bytes of a number give it back.
LEMMA BytesOfNumber ==
    ASSUME NEW v \in U16
    PROVE  get_u16(put_u16(v)) = v
<1>1. v \in Int /\ 0 <= v /\ v <= 65535
  BY Limits, SMT DEF U16
<1>2. (v % 256) + 256 * ((v \div 256) % 256) = v
  BY <1>1, SMT
<1> QED
  BY <1>2, SMT DEF get_u16, put_u16

\* The round trip through flash changes nothing in a valid configuration.
THEOREM RoundTrip ==
    ASSUME NEW cfg, Fields(cfg), device_config_validate(cfg)
    PROVE  device_config_deserialize(device_config_init,
                                     device_config_serialize(cfg)) = cfg
<1> DEFINE blob == device_config_serialize(cfg)
           tmp == [blob.payload EXCEPT !.power_pulse_ms  = get_u16(@),
                                       !.boot_timeout_ms = get_u16(@)]
<1>1. /\ cfg.power_pulse_ms \in U16
      /\ cfg.boot_timeout_ms \in U16
  <2>1. /\ cfg["power_pulse_ms"] \in U16
        /\ cfg["boot_timeout_ms"] \in U16
    BY ValidateMeans, RangesAreU16
  <2> QED
    BY <2>1
<1>2. blob.payload = [cfg EXCEPT !.power_pulse_ms  = put_u16(@),
                                 !.boot_timeout_ms = put_u16(@)]
  BY DEF device_config_serialize
<1>3. tmp.power_pulse_ms = cfg.power_pulse_ms
  BY <1>1, <1>2, BytesOfNumber DEF Fields
<1>4. tmp.boot_timeout_ms = cfg.boot_timeout_ms
  BY <1>1, <1>2, BytesOfNumber DEF Fields
<1>5. tmp = cfg
  BY <1>2, <1>3, <1>4 DEF Fields
<1>6. /\ blob.magic = CONFIG_MAGIC
      /\ blob.version = CONFIG_VERSION
      /\ blob.crc = Crc(Body(blob))
  BY DEF device_config_serialize, Body
<1>7. device_config_deserialize(device_config_init, blob) = tmp
  <2> HIDE DEF blob
  <2>1. device_config_validate(tmp)
    BY <1>5
  <2> QED
    BY <1>6, <2>1 DEF device_config_deserialize
<1> QED
  BY <1>5, <1>7

\* The defaults are valid.
LEMMA DefaultsValid ==
    Fields(device_config_init) /\ device_config_validate(device_config_init)
<1>1. Fields(device_config_init)
  BY DEF Fields, device_config_init
<1>2. /\ DefaultName \in Seq(Char)
      /\ Len(DefaultName) \in 1 .. TextMax["device_name"]
      /\ TextMax["wifi_ssid"] \in Nat
      /\ TextMax["wifi_password"] \in Nat
      /\ TextMax["device_name"] \in Nat
  BY ConfigAssumption DEF TextKeys
<1>3. DefaultName # <<>>
  BY <1>2
<1>4. device_config_validate(device_config_init)
  BY <1>2, <1>3, ValidateMeans, RangesAreU16 DEF device_config_init
<1> QED
  BY <1>1, <1>4

\* A set leaves a valid configuration valid, whatever it was asked to set.
LEMMA SetKeepsValid ==
    ASSUME NEW cfg, Fields(cfg), device_config_validate(cfg),
           NEW key \in Keys, NEW value
    PROVE  Fields(cmd_set(key, value, cfg))
        /\ device_config_validate(cmd_set(key, value, cfg))
<1> DEFINE new == cmd_set(key, value, cfg)
<1>1. CASE ~Acceptable(key, value)
  BY <1>1 DEF cmd_set
<1>2. CASE Acceptable(key, value) /\ key \in TextKeys
  <2>1. new = [cfg EXCEPT ![key] = value]
    BY <1>2 DEF cmd_set
  <2>2. Len(value) <= TextMax[key] /\ (key = "device_name" => value # <<>>)
    BY <1>2 DEF Acceptable
  <2>3. Fields(new)
    BY <2>1, <1>2 DEF Fields, TextKeys
  <2>4. device_config_validate(new)
    BY <2>1, <2>2, <1>2, ValidateMeans DEF Fields, TextKeys
  <2> QED
    BY <2>3, <2>4
<1>3. CASE Acceptable(key, value) /\ key \in NumberKeys
  <2>1. key \notin TextKeys
    BY <1>3 DEF NumberKeys, TextKeys
  <2>2. new = [cfg EXCEPT ![key] = parse_u16(value)]
    BY <1>3, <2>1 DEF cmd_set
  <2>3. parse_u16(value) \in NumberRange[key]
    BY <1>3, <2>1 DEF Acceptable
  <2>4. Fields(new)
    BY <2>2, <1>3 DEF Fields, NumberKeys
  <2>5. device_config_validate(new)
    BY <2>2, <2>3, <1>3, ValidateMeans DEF Fields, NumberKeys
  <2> QED
    BY <2>4, <2>5
<1> QED
  BY <1>1, <1>2, <1>3 DEF Keys

\* No line, however it is made up, leads to an invalid configuration.
LEMMA CommandKeepsValid ==
    ASSUME NEW line, NEW cfg, Fields(cfg), device_config_validate(cfg)
    PROVE  Fields(setup_cmd_process(line, cfg).config)
        /\ device_config_validate(setup_cmd_process(line, cfg).config)
<1> DEFINE arg == Rest[Strip[skip_ws[line]]]
           key == Word[arg]
           value == Rest[arg]
           new == setup_cmd_process(line, cfg).config
<1> DEFINE cmd == Word[Strip[skip_ws[line]]]
<1>1. \/ new = cfg
      \/ new = device_config_init
      \/ IsKey(key) /\ new = cmd_set(key[1], value, cfg)
  <2> HIDE DEF key, value, arg
  <2>1. CASE cmd = <<"set">>
    BY <2>1 DEF setup_cmd_process, key, value, arg
  <2>2. CASE cmd = <<"defaults">>
    BY <2>2 DEF setup_cmd_process
  <2>3. CASE cmd # <<"set">> /\ cmd # <<"defaults">>
    BY <2>3 DEF setup_cmd_process
  <2> QED
    BY <2>1, <2>2, <2>3
<1>2. IsKey(key) => key[1] \in Keys
  BY DEF IsKey
<1> QED
  BY <1>1, <1>2, DefaultsValid, SetKeepsValid

\* Whatever is typed, every configuration the device holds survives a round
\* trip through flash: device_config_validate refuses nothing that cmd_set
\* has accepted.
THEOREM SavedSurvives == Spec => []SavedConfigSurvives
<1>1. Init => ConfigInv
  BY DefaultsValid DEF Init, ConfigInv
<1>2. ConfigInv /\ [Next]_vars => ConfigInv'
  <2> SUFFICES ASSUME ConfigInv, [Next]_vars PROVE ConfigInv'
    OBVIOUS
  <2>1. CASE poll_cdc_setup
    <3>1. CASE execute
      BY <3>1, CommandKeepsValid DEF execute, ConfigInv
    <3>2. CASE UNCHANGED s_config
      BY <3>2 DEF ConfigInv
    <3> QED
      BY <2>1, <3>1, <3>2 DEF poll_cdc_setup
  <2>2. CASE PowerUp
    BY <2>2, DefaultsValid DEF PowerUp, ConfigInv
  <2>3. CASE UNCHANGED s_config
    BY <2>3 DEF ConfigInv
  <2> QED
    BY <2>1, <2>2, <2>3
    DEF Next, Asks, Types, Reads, Reconnects, Synced, vars
<1>3. ConfigInv => SavedConfigSurvives
  BY RoundTrip DEF ConfigInv, SavedConfigSurvives
<1> QED
  BY <1>1, <1>2, <1>3, PTL DEF Spec

\* What a request is typed as is made of characters.
LEMMA LinesAreText ==
    ASSUME NEW request \in Requests, NEW ending \in Endings
    PROVE  Line(request) \o ending \in Seq(Char)
<1>1. /\ <<request.cmd>> \in Seq(Char)
      /\ request.key \in Seq(Char)
      /\ request.value \in Seq(Char)
      /\ ending \in Seq(Char)
      /\ Blank \in Char
  BY SerialAssumption
<1>2. <<Blank>> \in Seq(Char)
  <2>1. ASSUME NEW c \in Char PROVE <<c>> \in Seq(Char)
    OBVIOUS
  <2> QED
    BY <1>1, <2>1, Zenon
<1> DEFINE Join(a, b) == IF b = <<>> THEN a ELSE a \o <<Blank>> \o b
<1>3. ASSUME NEW a \in Seq(Char), NEW b \in Seq(Char)
      PROVE  Join(a, b) \in Seq(Char)
  <2>1. a \o <<Blank>> \in Seq(Char)
    BY <1>2, ConcatProperties
  <2>2. (a \o <<Blank>>) \o b \in Seq(Char)
    BY <2>1, ConcatProperties
  <2> QED
    BY <2>2
<1>4. Join(<<request.cmd>>, request.key) \in Seq(Char)
  <2> HIDE DEF Join
  <2> QED
    BY <1>1, <1>3
<1>5. Join(Join(<<request.cmd>>, request.key), request.value) \in Seq(Char)
  <2> HIDE DEF Join
  <2> QED
    BY <1>1, <1>3, <1>4
<1>6. Line(request) \in Seq(Char)
  BY <1>5 DEF Line
<1> QED
  BY <1>1, <1>6, ConcatProperties

\* No line, however long, leaves its buffer, and the port keeps to its own.
THEOREM TypeCorrect == Spec => []TypeOK
<1>0. /\ CDC_LINE_MAX \in Nat /\ CDC_LINE_MAX > 0
      /\ RxMax \in Nat /\ RxMax > 0
      /\ "CR" \in Char
  <2>1. CDC_LINE_MAX \in Nat \ {0} /\ RxMax \in Nat \ {0} /\ "CR" \in Char
    BY SerialAssumption, Zenon
  <2> QED
    BY <2>1
<1>1. <<"CR">> \in Seq(Char)
  <2>1. ASSUME NEW c \in Char PROVE <<c>> \in Seq(Char)
    OBVIOUS
  <2> QED
    BY <1>0, <2>1, Zenon
<1>2. Init => TypeOK
  BY <1>0 DEF Init, TypeOK
<1>3. TypeOK /\ [Next]_vars => TypeOK'
  <2> SUFFICES ASSUME TypeOK, [Next]_vars PROVE TypeOK'
    OBVIOUS
  <2> USE DEF TypeOK
  <2>1. CASE poll_cdc_setup
    <3>1. /\ Tail(rx) \in Seq(Char) /\ Len(Tail(rx)) <= RxMax
          /\ Head(rx) \in Char
      BY <2>1, <1>0, HeadTailProperties DEF poll_cdc_setup
    <3>2. rx' = Tail(rx) /\ typing' = typing
      BY <2>1 DEF poll_cdc_setup, RxAfter
    <3>3. term' \in {"sync", "ready", "lost"}
      <4>1. CASE execute
        BY <4>1 DEF execute, tud_cdc_write
      <4>2. CASE UNCHANGED term
        BY <4>2
      <4> QED
        BY <2>1, <4>1, <4>2 DEF poll_cdc_setup
    <3>4. s_cdc_line' \in Seq(Char) /\ Len(s_cdc_line') < CDC_LINE_MAX
      <4>1. CASE execute
        BY <4>1, <1>0 DEF execute, Remaining
      <4>2. CASE UNCHANGED s_cdc_line
        BY <4>2
      <4>3. CASE collect(Head(rx))
        BY <4>3, <3>1, <1>0 DEF collect
      <4> QED
        BY <2>1, <4>1, <4>2, <4>3 DEF poll_cdc_setup
    <3> QED
      BY <3>1, <3>2, <3>3, <3>4
  <2>2. CASE Asks
    BY <2>2, LinesAreText DEF Asks, portVars
  <2>3. CASE Types
    <3>1. /\ Tail(typing) \in Seq(Char)
          /\ Head(typing) \in Char
      BY <2>3, HeadTailProperties DEF Types
    <3>2. /\ Append(rx, Head(typing)) \in Seq(Char)
          /\ Len(Append(rx, Head(typing))) = Len(rx) + 1
      BY <3>1
    <3> QED
      BY <2>3, <3>1, <3>2, <1>0 DEF Types
  <2>4. CASE Reads
    BY <2>4 DEF Reads
  <2>5. CASE Reconnects \/ PowerUp
    <3>1. /\ rx' = <<>> /\ term' = "sync"
          /\ s_cdc_line' = s_cdc_line \/ s_cdc_line' = <<>>
      BY <2>5 DEF Reconnects, PowerUp, Comes
    <3>2. typing' = <<"CR">>
      BY <2>5 DEF Reconnects, PowerUp, Comes
    <3>3. typing' \in Seq(Char)
      BY <3>2, <1>1, Zenon
    <3>4. /\ rx' \in Seq(Char) /\ Len(rx') <= RxMax
          /\ s_cdc_line' \in Seq(Char) /\ Len(s_cdc_line') < CDC_LINE_MAX
      <4>1. <<>> \in Seq(Char) /\ Len(<<>>) = 0
        OBVIOUS
      <4>2. CASE s_cdc_line' = s_cdc_line
        BY <3>1, <4>1, <4>2, <1>0
      <4>3. CASE s_cdc_line' = <<>>
        BY <3>1, <4>1, <4>3, <1>0
      <4> QED
        BY <3>1, <4>2, <4>3
    <3> QED
      BY <3>1, <3>3, <3>4
  <2>6. CASE Synced
    BY <2>6 DEF Synced
  <2>7. CASE UNCHANGED vars
    BY <2>7 DEF vars, portVars, termVars
  <2> QED
    BY <2>1, <2>2, <2>3, <2>4, <2>5, <2>6, <2>7 DEF Next
<1> QED
  BY <1>2, <1>3, PTL DEF Spec

-----------------------------------------------------------------------------
(* What a line in the buffer means to setup_cmd_process.                   *)

\* The least-number principle, for a set of numbers.
LEMMA LeastNumber ==
    ASSUME NEW T, T \subseteq Nat, T # {}
    PROVE  \E x \in T : \A y \in T : x <= y
<1> DEFINE R == {ss \in Nat \X Nat : ss[1] < ss[2]}
<1>1. R = OpToRel(<, Nat)
  BY DEF OpToRel
<1>2. IsWellFoundedOn(R, Nat)
  BY <1>1, NatLessThanWellFounded, Zenon
<1>3. \E x \in T : \A y \in T : ~ (<<y, x>> \in R)
  <2> HIDE DEF R
  <2> QED
    BY <1>2, WFMin, Zenon
<1>4. PICK x \in T : \A y \in T : ~ (<<y, x>> \in R)
  BY <1>3
<1>5. \A y \in T : x <= y
  <2> TAKE y \in T
  <2>1. x \in Nat /\ y \in Nat
    OBVIOUS
  <2>2. <<y, x>> \in Nat \X Nat /\ <<y, x>>[1] = y /\ <<y, x>>[2] = x
    BY <2>1
  <2>3. ~(y < x)
    BY <1>4, <2>1, <2>2
  <2> QED
    BY <2>1, <2>3
<1> QED
  BY <1>5

\* Nothing is skipped before a text that begins with no blank.
LEMMA NothingSkipped ==
    ASSUME NEW s \in Seq(Char), s # <<>> => s[1] # Blank
    PROVE  skip_ws[s] = s
<1>1. Len(s) \in Nat /\ (s = <<>> <=> Len(s) = 0)
  OBVIOUS
<1>2. /\ 0 \in 0 .. Len(s)
      /\ \A i \in 1 .. 0 : s[i] = Blank
      /\ 0 < Len(s) => s[0 + 1] # Blank
  BY <1>1
<1>3. \A n \in 0 .. Len(s) : (\A i \in 1 .. n : s[i] = Blank) => n = 0
  BY <1>1
<1>4. Blanks(s) = 0
  BY <1>2, <1>3 DEF Blanks
<1>5. skip_ws[s] = SubSeq(s, 0 + 1, Len(s))
  BY <1>4 DEF skip_ws
<1> QED
  BY <1>5, SubSeqFull

\* One blank is skipped.
LEMMA BlankSkipped ==
    ASSUME NEW s \in Seq(Char), Len(s) >= 2, s[1] = Blank, s[2] # Blank
    PROVE  skip_ws[s] = SubSeq(s, 2, Len(s))
<1>1. Len(s) \in Nat
  OBVIOUS
<1>2. /\ 1 \in 0 .. Len(s)
      /\ \A i \in 1 .. 1 : s[i] = Blank
      /\ 1 < Len(s) => s[1 + 1] # Blank
  BY <1>1
<1>3. ASSUME NEW n \in 0 .. Len(s), \A i \in 1 .. n : s[i] = Blank,
             n < Len(s) => s[n + 1] # Blank
      PROVE  n = 1
  <2>1. CASE n = 0
    BY <2>1, <1>1, <1>3
  <2>2. CASE n >= 2
    BY <2>2, <1>1, <1>3
  <2> QED
    BY <2>1, <2>2
<1>4. Blanks(s) = 1
  BY <1>2, <1>3 DEF Blanks
<1> QED
  BY <1>4 DEF skip_ws

\* A text without its last blanks ends in none, and nothing else is cut off.
LEMMA StrippedEnds ==
    ASSUME NEW s \in Seq(Char)
    PROVE  /\ Stripped(s) \in 0 .. Len(s)
           /\ \A i \in Stripped(s) + 1 .. Len(s) : s[i] = Blank
           /\ Stripped(s) > 0 => s[Stripped(s)] # Blank
<1> DEFINE T == {n \in 0 .. Len(s) : \A i \in n + 1 .. Len(s) : s[i] = Blank}
<1>1. Len(s) \in T /\ T \subseteq Nat
  OBVIOUS
<1>2. PICK n \in T : \A m \in T : n <= m
  BY <1>1, LeastNumber
<1>3. ASSUME n > 0, s[n] = Blank PROVE FALSE
  <2>1. n - 1 \in 0 .. Len(s)
    BY <1>3
  <2>2. \A i \in (n - 1) + 1 .. Len(s) : s[i] = Blank
    BY <1>3
  <2>3. n - 1 \in T
    BY <2>1, <2>2
  <2> QED
    BY <2>3, <1>2
<1>4. \E m \in 0 .. Len(s) :
         /\ \A i \in m + 1 .. Len(s) : s[i] = Blank
         /\ m > 0 => s[m] # Blank
  BY <1>3
<1> QED
  BY <1>4 DEF Stripped

\* A word alone: nothing follows it.
LEMMA WordAlone ==
    ASSUME NEW s \in Seq(Char), Len(s) = 1, s[1] # Blank
    PROVE  Word[s] = <<s[1]>> /\ Rest[s] = <<>>
<1>1. 1 \in 0 .. Len(s) /\ \A i \in 1 .. 1 : s[i] # Blank
  OBVIOUS
<1>2. ASSUME NEW n \in 0 .. Len(s), n < Len(s) => s[n + 1] = Blank
      PROVE  n = 1
  BY <1>2
<1>3. WordEnd(s) = 1
  BY <1>1, <1>2 DEF WordEnd
<1>4. Word[s] = SubSeq(s, 1, 1)
  BY <1>3 DEF Word
<1>5. SubSeq(s, 1, 1) = s /\ s = <<s[1]>>
  OBVIOUS
<1>6. SubSeq(s, 1 + 1, Len(s)) = <<>> /\ <<>> \in Seq(Char)
  OBVIOUS
<1>7. Rest[s] = skip_ws[SubSeq(s, 1 + 1, Len(s))]
  BY <1>3 DEF Rest
<1>8. Rest[s] = skip_ws[<<>>]
  BY <1>6, <1>7, Zenon
<1>9. skip_ws[<<>>] = <<>>
  BY <1>6, NothingSkipped, Zenon
<1> QED
  BY <1>4, <1>5, <1>8, <1>9

\* Nothing follows nothing.
LEMMA NothingLeft == Rest[<<>>] = <<>>
<1>1. <<>> \in Seq(Char) /\ Len(<<>>) = 0
  OBVIOUS
<1>2. WordEnd(<<>>) \in 0 .. 0
  <2>1. \E n \in 0 .. Len(<<>>) : /\ \A i \in 1 .. n : <<>>[i] # Blank
                                  /\ n < Len(<<>>) => <<>>[n + 1] = Blank
    BY <1>1
  <2> QED
    BY <1>1, <2>1 DEF WordEnd
<1>3. SubSeq(<<>>, WordEnd(<<>>) + 1, Len(<<>>)) = <<>>
  BY <1>1, <1>2
<1>4. Rest[<<>>] = skip_ws[SubSeq(<<>>, WordEnd(<<>>) + 1, Len(<<>>))]
  BY <1>1, Zenon DEF Rest
<1>5. skip_ws[<<>>] = <<>>
  BY <1>1, NothingSkipped, Zenon
<1> QED
  BY <1>3, <1>4, <1>5, Zenon

\* A word of one character, a blank and more: the blank goes.
LEMMA WordAndRest ==
    ASSUME NEW s \in Seq(Char), Len(s) >= 3,
           s[1] # Blank, s[2] = Blank, s[3] # Blank
    PROVE  /\ Word[s] = <<s[1]>>
           /\ Rest[s] = SubSeq(s, 3, Len(s))
<1>1. /\ 1 \in 0 .. Len(s)
      /\ \A i \in 1 .. 1 : s[i] # Blank
      /\ s[1 + 1] = Blank
  OBVIOUS
<1>2. ASSUME NEW n \in 0 .. Len(s), \A i \in 1 .. n : s[i] # Blank,
             n < Len(s) => s[n + 1] = Blank
      PROVE  n = 1
  <2>1. CASE n = 0
    BY <2>1, <1>2
  <2>2. CASE n >= 2
    BY <2>2, <1>2
  <2> QED
    BY <2>1, <2>2
<1>3. WordEnd(s) = 1
  BY <1>1, <1>2 DEF WordEnd
<1>4. Word[s] = <<s[1]>>
  <2>1. Word[s] = SubSeq(s, 1, 1)
    BY <1>3 DEF Word
  <2>2. /\ SubSeq(s, 1, 1) \in Seq(Char) /\ <<s[1]>> \in Seq(Char)
        /\ Len(SubSeq(s, 1, 1)) = 1 /\ Len(<<s[1]>>) = 1
        /\ SubSeq(s, 1, 1)[1] = <<s[1]>>[1]
    OBVIOUS
  <2>3. \A i \in 1 .. 1 : SubSeq(s, 1, 1)[i] = <<s[1]>>[i]
    BY <2>2
  <2>4. SubSeq(s, 1, 1) = <<s[1]>>
    BY <2>2, <2>3, SeqEqual
  <2> QED
    BY <2>1, <2>4
<1> DEFINE t == SubSeq(s, 2, Len(s))
<1>5. /\ t \in Seq(Char) /\ Len(t) = Len(s) - 1
      /\ t[1] = s[2] /\ t[2] = s[3]
  OBVIOUS
<1>6. skip_ws[t] = SubSeq(t, 2, Len(t))
  <2> HIDE DEF t
  <2> QED
    BY <1>5, BlankSkipped
<1>7. SubSeq(t, 2, Len(t)) = SubSeq(s, 3, Len(s))
  <2>1. /\ SubSeq(t, 2, Len(t)) \in Seq(Char)
        /\ SubSeq(s, 3, Len(s)) \in Seq(Char)
        /\ Len(SubSeq(t, 2, Len(t))) = Len(s) - 2
        /\ Len(SubSeq(s, 3, Len(s))) = Len(s) - 2
    BY <1>5
  <2>2. ASSUME NEW i \in 1 .. Len(s) - 2
        PROVE  SubSeq(t, 2, Len(t))[i] = SubSeq(s, 3, Len(s))[i]
    OBVIOUS
  <2> HIDE DEF t
  <2> QED
    BY <2>1, <2>2, SeqEqual
<1>8. Rest[s] = skip_ws[SubSeq(s, 1 + 1, Len(s))]
  BY <1>3 DEF Rest
<1>9. Rest[s] = skip_ws[t]
  BY <1>8
<1> QED
  BY <1>4, <1>6, <1>7, <1>9

Commands == {"get", "set", "list", "save", "defaults", "status", "version",
             "reboot", "nonsense"}

\* What may stand where a key does.
Names == {c \in Char : c # Blank /\ ~EndsLine(c)}

\* What the assumption says of one request.
LEMMA RequestShape ==
    ASSUME NEW request \in Requests
    PROVE  /\ request.cmd \in Commands
           /\ <<request.cmd>> \in Seq(Char)
           /\ request.key \in Seq(Char)
           /\ request.value \in Seq(Char)
           /\ request.key = <<>> \/ \E key \in Names : request.key = <<key>>
           /\ request.key # <<>> => request.cmd \in {"get", "set"}
           /\ request.value # <<>> => request.cmd = "set" /\ request.key # <<>>
           /\ request.cmd = "set" /\ IsKey(request.key) =>
                 request.means = IF request.key[1] \in TextKeys
                                 THEN request.value ELSE Denotes(request.value)
           /\ \A i \in 1 .. Len(request.value) :
                 /\ ~EndsLine(request.value[i])
                 /\ i \in {1, Len(request.value)} => request.value[i] # Blank
           /\ Holds(request)
<1>1. /\ <<request.cmd>> \in Seq(Char)
      /\ request.key \in Seq(Char)
      /\ request.value \in Seq(Char)
  BY SerialAssumption, Zenon
<1>2. request.key # <<>> =>
         /\ request.cmd \in {"get", "set"}
         /\ Len(request.key) = 1
         /\ request.key[1] # Blank /\ ~EndsLine(request.key[1])
  BY RequestAssumption, Zenon
<1>3. request.key = <<>> \/ \E key \in Names : request.key = <<key>>
  <2>1. ASSUME NEW s \in Seq(Char), Len(s) = 1 PROVE s[1] \in Char /\ s = <<s[1]>>
    BY <2>1
  <2>2. request.key # <<>> =>
           request.key[1] \in Char /\ request.key = <<request.key[1]>>
    BY <1>1, <1>2, <2>1, Zenon
  <2> QED
    BY <1>2, <2>2, Zenon DEF Names
<1>4. /\ request.cmd \in Commands
      /\ request.value # <<>> => request.cmd = "set" /\ request.key # <<>>
      /\ request.cmd = "set" /\ IsKey(request.key) =>
            request.means = IF request.key[1] \in TextKeys
                            THEN request.value ELSE Denotes(request.value)
      /\ \A i \in 1 .. Len(request.value) :
            /\ ~EndsLine(request.value[i])
            /\ i \in {1, Len(request.value)} => request.value[i] # Blank
      /\ Holds(request)
  BY RequestAssumption, Zenon DEF Commands
<1> QED
  BY <1>1, <1>2, <1>3, <1>4, Zenon

\* Neither a command nor what stands for a key is a blank or a line end.
LEMMA NoWordIsBlank ==
    /\ Blank \in Char
    /\ ~EndsLine(Blank)
    /\ \A c \in Commands \cup Names : c # Blank /\ ~EndsLine(c)
<1>1. Blank \in Char
  BY SerialAssumption, Zenon
<1>2. Blank # "CR" /\ Blank # "LF"
  BY Zenon DEF Blank
<1>3. ~EndsLine(Blank)
  BY <1>2, Zenon DEF EndsLine
<1>4. \A c \in Commands \cup Names : ~EndsLine(c)
  BY Zenon DEF Commands, Names, EndsLine
<1>5. Blank \notin Commands \cup Names
  BY Zenon DEF Blank, Commands, Names
<1> QED
  BY <1>1, <1>3, <1>4, <1>5, Zenon

\* A text and one character.
LEMMA OneMore ==
    ASSUME NEW s \in Seq(Char), NEW c \in Char
    PROVE  /\ s \o <<c>> \in Seq(Char)
           /\ Len(s \o <<c>>) = Len(s) + 1
           /\ \A i \in 1 .. Len(s) : (s \o <<c>>)[i] = s[i]
           /\ (s \o <<c>>)[Len(s) + 1] = c
  BY AppendProperties, AppendIsConcat

\* The line of a request, character by character.
LEMMA LineShape ==
    ASSUME NEW request \in Requests
    PROVE  /\ Line(request) \in Seq(Char)
           /\ Line(request)[1] = request.cmd
           /\ request.key = <<>> =>
                 Len(Line(request)) = 1
           /\ request.key # <<>> =>
                 /\ request.key = <<request.key[1]>> /\ request.key[1] \in Names
                 /\ Len(Line(request)) =
                       IF request.value = <<>> THEN 3 ELSE 4 + Len(request.value)
                 /\ Line(request)[2] = Blank
                 /\ Line(request)[3] = request.key[1]
           /\ request.value # <<>> =>
                 /\ request.key # <<>>
                 /\ Line(request)[4] = Blank
                 /\ \A i \in 1 .. Len(request.value) :
                       Line(request)[4 + i] = request.value[i]
<1> DEFINE Join(a, b) == IF b = <<>> THEN a ELSE a \o <<Blank>> \o b
           cmd == request.cmd
           value == request.value
           head == Join(<<cmd>>, request.key)
<1>1. /\ <<cmd>> \in Seq(Char) /\ value \in Seq(Char) /\ request.key \in Seq(Char)
  BY RequestShape
<1>2. <<Blank>> \in Seq(Char)
  <2>1. ASSUME NEW c \in Char PROVE <<c>> \in Seq(Char)
    OBVIOUS
  <2> QED
    BY NoWordIsBlank, <2>1, Zenon
<1>3. request.key = <<>> \/ \E key \in Names : request.key = <<key>>
  BY RequestShape, Zenon
<1>4. Line(request) = Join(head, value)
  BY DEF Line
<1>5. CASE request.key = <<>>
  <2>1. value = <<>>
    BY <1>5, RequestShape
  <2>2. Line(request) = <<cmd>>
    BY <1>4, <1>5, <2>1
  <2> QED
    BY <2>1, <2>2, <1>1, <1>5
<1>6. ASSUME NEW key \in Names, request.key = <<key>>
      PROVE  /\ head \in Seq(Char) /\ Len(head) = 3
             /\ head[1] = cmd /\ head[2] = Blank /\ head[3] = key
             /\ request.key # <<>> /\ request.key[1] = key
  <2>1. head = <<cmd>> \o <<Blank>> \o <<key>>
    BY <1>6
  <2> HIDE DEF head, cmd
  <2> QED
    BY <1>1, <1>2, <1>6, <2>1
<1>7. ASSUME NEW key \in Names, request.key = <<key>>, value # <<>>
      PROVE  /\ Line(request) \in Seq(Char)
             /\ Len(Line(request)) = 4 + Len(value)
             /\ \A i \in 1 .. 3 : Line(request)[i] = head[i]
             /\ Line(request)[4] = Blank
             /\ \A i \in 1 .. Len(value) : Line(request)[4 + i] = value[i]
  <2>1. Line(request) = head \o <<Blank>> \o value
    BY <1>4, <1>7
  <2>2. head \in Seq(Char) /\ Len(head) = 3
    BY <1>6, <1>7
  <2> HIDE DEF head, value
  <2>3. /\ head \o <<Blank>> \in Seq(Char)
        /\ Len(head \o <<Blank>>) = 4
        /\ \A i \in 1 .. 3 : (head \o <<Blank>>)[i] = head[i]
        /\ (head \o <<Blank>>)[4] = Blank
    <3>1. head \in Seq(Char) /\ Blank \in Char
      BY <2>2, NoWordIsBlank, Zenon
    <3>2. /\ head \o <<Blank>> \in Seq(Char)
          /\ Len(head \o <<Blank>>) = Len(head) + 1
          /\ \A i \in 1 .. Len(head) : (head \o <<Blank>>)[i] = head[i]
          /\ (head \o <<Blank>>)[Len(head) + 1] = Blank
      BY <3>1, OneMore, Zenon
    <3>3. Len(head) = 3 /\ 3 + 1 = 4
      BY <2>2
    <3> QED
      BY <3>2, <3>3, Zenon
  <2> QED
    BY <2>1, <2>3, <1>1
<1>8. ASSUME NEW key \in Names, request.key = <<key>>, value = <<>>
      PROVE  Line(request) = head
  BY <1>4, <1>8
<1> HIDE DEF head, value, cmd
<1>9. ASSUME NEW key \in Names, request.key = <<key>>
      PROVE  /\ Line(request) \in Seq(Char)
             /\ Line(request)[1] = cmd /\ Line(request)[2] = Blank
             /\ Line(request)[3] = key
             /\ Len(Line(request)) = IF value = <<>> THEN 3 ELSE 4 + Len(value)
             /\ value # <<>> =>
                  /\ Line(request)[4] = Blank
                  /\ \A i \in 1 .. Len(value) : Line(request)[4 + i] = value[i]
  <2>1. CASE value = <<>>
    BY <2>1, <1>9, <1>6, <1>8
  <2>2. CASE value # <<>>
    BY <2>2, <1>9, <1>6, <1>7
  <2> QED
    BY <2>1, <2>2
<1>10. CASE \E key \in Names : request.key = <<key>>
  <2>1. PICK key \in Names : request.key = <<key>>
    BY <1>10
  <2>2. request.key # <<>> /\ request.key[1] = key
    BY <2>1
  <2> QED
    BY <1>9, <2>1, <2>2 DEF cmd, value
<1> QED
  BY <1>3, <1>5, <1>10

\* The line that a request leaves in the buffer: itself with the blanks behind
\* it, as far as the buffer holds them.
Collected(line, request) ==
    /\ line \in Seq(Char) /\ line # <<>>
    /\ Len(line) < CDC_LINE_MAX
    /\ Len(line) >= Len(Line(request)) \/ Len(line) = CDC_LINE_MAX - 1
    /\ \A i \in 1 .. Len(line) :
          line[i] = IF i <= Len(Line(request)) THEN Line(request)[i] ELSE Blank

\* A request's line begins and ends with no blank.
LEMMA LineEndsWhole ==
    ASSUME NEW request \in Requests
    PROVE  /\ Line(request)[1] # Blank
           /\ Line(request)[Len(Line(request))] # Blank
           /\ Len(Line(request)) \in Nat \ {0}
<1>1. /\ request.cmd # Blank
      /\ request.key # <<>> => request.key[1] # Blank
  BY RequestShape, LineShape, NoWordIsBlank, Zenon
<1>2. CASE request.key = <<>>
  BY <1>1, <1>2, LineShape
<1>3. CASE request.key # <<>> /\ request.value = <<>>
  BY <1>1, <1>3, LineShape
<1>4. CASE request.key # <<>> /\ request.value # <<>>
  <2>1. request.value \in Seq(Char)
    BY RequestShape
  <2>2. Len(request.value) \in 1 .. Len(request.value)
    BY <2>1, <1>4
  <2>3. request.value[Len(request.value)] # Blank
    BY <2>2, RequestShape
  <2>4. Line(request)[4 + Len(request.value)] = request.value[Len(request.value)]
    BY <2>2, <1>4, LineShape
  <2>5. Len(Line(request)) = 4 + Len(request.value)
    BY <1>4, LineShape
  <2> QED
    BY <1>1, <2>1, <2>3, <2>4, <2>5, LineShape
<1> QED
  BY <1>2, <1>3, <1>4

\* What is left of it without blanks is the request's line, or enough of it to
\* see that its text is too long.
LEMMA Buffered ==
    ASSUME NEW request \in Requests, NEW line, Collected(line, request)
    PROVE  \E j \in 1 .. Len(Line(request)) :
             /\ Strip[skip_ws[line]] = SubSeq(Line(request), 1, j)
             /\ \/ j = Len(Line(request))
                \/ /\ request.cmd = "set" /\ request.key[1] \in TextKeys
                   /\ request.value # <<>>
                   /\ j - 4 > TextMax[request.key[1]]
                   /\ Len(request.value) > TextMax[request.key[1]]
<1> DEFINE S == Line(request)
<1>1. /\ S \in Seq(Char) /\ Len(S) \in Nat \ {0}
      /\ S[1] # Blank /\ S[Len(S)] # Blank
  BY LineShape, LineEndsWhole
<1>2. /\ line \in Seq(Char) /\ line # <<>> /\ Len(line) \in Nat \ {0}
      /\ Len(line) < CDC_LINE_MAX
      /\ Len(line) >= Len(S) \/ Len(line) = CDC_LINE_MAX - 1
      /\ \A i \in 1 .. Len(line) : line[i] = IF i <= Len(S) THEN S[i] ELSE Blank
  BY DEF Collected
<1>3. CDC_LINE_MAX \in Nat
  BY SerialAssumption, Zenon
<1> DEFINE j == Stripped(line)
<1>4. /\ j \in 0 .. Len(line)
      /\ \A i \in j + 1 .. Len(line) : line[i] = Blank
      /\ j > 0 => line[j] # Blank
  BY <1>2, StrippedEnds
<1> HIDE DEF S, j
<1>5. skip_ws[line] = line
  <2>1. line[1] # Blank
    BY <1>1, <1>2
  <2> QED
    BY <2>1, <1>2, NothingSkipped
<1>6. Strip[skip_ws[line]] = SubSeq(line, 1, j)
  BY <1>2, <1>5 DEF Strip, j
<1>7. j <= Len(S)
  BY <1>1, <1>2, <1>4
<1>8. j >= 1
  BY <1>1, <1>2, <1>4
<1>9. SubSeq(line, 1, j) = SubSeq(S, 1, j)
  <2>1. /\ SubSeq(line, 1, j) \in Seq(Char) /\ SubSeq(S, 1, j) \in Seq(Char)
        /\ Len(SubSeq(line, 1, j)) = j /\ Len(SubSeq(S, 1, j)) = j
    BY <1>1, <1>2, <1>4, <1>7, <1>8
  <2>2. ASSUME NEW i \in 1 .. j
        PROVE  SubSeq(line, 1, j)[i] = SubSeq(S, 1, j)[i]
    <3>1. SubSeq(line, 1, j)[i] = line[i]
      BY <1>2, <1>4, <1>8
    <3>2. SubSeq(S, 1, j)[i] = S[i]
      BY <1>1, <1>4, <1>7, <1>8
    <3>3. line[i] = S[i]
      BY <1>1, <1>2, <1>4, <1>7
    <3> QED
      BY <3>1, <3>2, <3>3
  <2> QED
    BY <2>1, <2>2, SeqEqual
<1>10. CASE Len(S) < CDC_LINE_MAX
  <2>1. Len(line) >= Len(S)
    BY <1>1, <1>2, <1>3, <1>10
  <2>2. j = Len(S)
    BY <2>1, <1>1, <1>2, <1>4, <1>7
  <2> QED
    BY <2>2, <1>1, <1>6, <1>9 DEF S
<1>11. CASE ~(Len(S) < CDC_LINE_MAX)
  <2>1. Holds(request)
    BY RequestShape
  <2>2. /\ request.value # <<>> /\ request.key[1] \in TextKeys
        /\ \E i \in TextMax[request.key[1]] + 1 .. Len(request.value) :
              /\ request.value[i] # Blank
              /\ Len(S) - Len(request.value) + i < CDC_LINE_MAX
    BY <2>1, <1>11 DEF Holds, S
  <2>3. PICK i \in TextMax[request.key[1]] + 1 .. Len(request.value) :
              /\ request.value[i] # Blank
              /\ Len(S) - Len(request.value) + i < CDC_LINE_MAX
    BY <2>2
  <2>4. TextMax[request.key[1]] \in Nat /\ request.value \in Seq(Char)
    BY <2>2, ConfigAssumption, RequestShape
  <2>5. request.value # <<>> /\ i \in 1 .. Len(request.value)
    BY <2>3, <2>4
  <2>6. Len(S) = 4 + Len(request.value) /\ S[4 + i] = request.value[i]
    BY <2>5, LineShape DEF S
  <2>7. 4 + i <= Len(line) /\ 4 + i <= Len(S)
    BY <2>3, <2>4, <2>5, <2>6, <1>2, <1>3
  <2>8. line[4 + i] # Blank
    BY <2>3, <2>4, <2>5, <2>6, <2>7, <1>2
  <2>9. j >= 4 + i
    BY <2>4, <2>5, <2>7, <2>8, <1>2, <1>4
  <2>10. /\ j - 4 > TextMax[request.key[1]]
         /\ Len(request.value) > TextMax[request.key[1]]
    BY <2>3, <2>4, <2>5, <2>9, <1>4
  <2>11. j \in 1 .. Len(S)
    BY <1>1, <1>4, <1>7, <1>8
  <2>12. request.cmd = "set"
    BY <2>5, RequestShape
  <2> QED
    BY <2>2, <2>5, <2>10, <2>11, <2>12, <1>6, <1>9 DEF S
<1> QED
  BY <1>10, <1>11

\* The commands one by one, given their first word and what follows it: get,
LEMMA ProcessGet ==
    ASSUME NEW line, NEW cfg, NEW arg,
           Word[Strip[skip_ws[line]]] = <<"get">>, Rest[Strip[skip_ws[line]]] = arg
    PROVE  setup_cmd_process(line, cfg) =
              [config  |-> cfg,
               replies |-> <<IF IsKey(arg) THEN cmd_get(arg[1], cfg)
                             ELSE Unknown(arg)>>]
<1> DEFINE w == Word[Strip[skip_ws[line]]]
<1>1. w = <<"get">> /\ w # <<>>
  OBVIOUS
<1> HIDE DEF w
<1> QED
  BY <1>1 DEF setup_cmd_process, w

\* set,
LEMMA ProcessSet ==
    ASSUME NEW line, NEW cfg, NEW arg,
           Word[Strip[skip_ws[line]]] = <<"set">>, Rest[Strip[skip_ws[line]]] = arg
    PROVE  setup_cmd_process(line, cfg) =
              IF Rest[arg] = <<>> THEN [config |-> cfg, replies |-> <<ERR>>]
              ELSE IF ~IsKey(Word[arg])
              THEN [config |-> cfg, replies |-> <<Unknown(Word[arg])>>]
              ELSE [config  |-> cmd_set(Word[arg][1], Rest[arg], cfg),
                    replies |-> <<IF Acceptable(Word[arg][1], Rest[arg])
                                  THEN OK ELSE ERR>>]
<1> DEFINE w == Word[Strip[skip_ws[line]]]
<1>1. w = <<"set">> /\ w # <<>> /\ w # <<"get">>
  OBVIOUS
<1> HIDE DEF w
<1> QED
  BY <1>1 DEF setup_cmd_process, w

\* and the rest.
LEMMA ProcessOther ==
    ASSUME NEW line, NEW cfg, NEW c, Word[Strip[skip_ws[line]]] = <<c>>
    PROVE  /\ c = "list" =>
                 setup_cmd_process(line, cfg) =
                    [config |-> cfg, replies |-> <<cmd_list(cfg)>>]
           /\ c = "defaults" =>
                 setup_cmd_process(line, cfg) =
                    [config |-> device_config_init, replies |-> <<OK>>]
           /\ c \in {"save", "reboot", "version", "status"} =>
                 setup_cmd_process(line, cfg) = [config |-> cfg, replies |-> <<OK>>]
           /\ c = "nonsense" =>
                 setup_cmd_process(line, cfg) =
                    [config |-> cfg, replies |-> <<Unknown(<<c>>)>>]
<1> DEFINE w == Word[Strip[skip_ws[line]]]
<1>1. /\ w # <<>> /\ w = <<c>>
      /\ \A d : w = <<d>> <=> c = d
  OBVIOUS
<1> HIDE DEF w
<1>2. CASE c = "list"
  BY <1>1, <1>2 DEF setup_cmd_process, w
<1>3. CASE c = "defaults"
  BY <1>1, <1>3 DEF setup_cmd_process, w
<1>4. CASE c \in {"save", "reboot", "version", "status"}
  BY <1>1, <1>4 DEF setup_cmd_process, w
<1>5. CASE c = "nonsense"
  BY <1>1, <1>5 DEF setup_cmd_process, w
<1> QED
  BY <1>2, <1>3, <1>4, <1>5

\* A function that goes on from each value to the next exists, and its values
\* are natural numbers.
LEMMA StepByStep ==
    ASSUME NEW L \in Nat, NEW c \in Nat, NEW d \in [1 .. L -> Nat]
    PROVE  \E f \in [0 .. L -> Nat] :
              f = [n \in 0 .. L |-> IF n = 0 THEN 0 ELSE c * f[n - 1] + d[n]]
<1> DEFINE Goes(f, k) == /\ f \in [0 .. k -> Nat]
                         /\ f[0] = 0
                         /\ \A n \in 1 .. k : f[n] = c * f[n - 1] + d[n]
           T == {k \in 0 .. L : ~\E f : Goes(f, k)}
<1>1. T = {}
  <2>1. SUFFICES ASSUME T # {} PROVE FALSE
    OBVIOUS
  <2>2. T \subseteq Nat
    OBVIOUS
  <2>3. PICK k \in T : \A m \in T : k <= m
    BY <2>1, <2>2, LeastNumber, Zenon
  <2>4. k \in 0 .. L /\ ~\E f : Goes(f, k)
    BY <2>3
  <2>5. CASE k = 0
    <3>1. Goes([n \in 0 .. 0 |-> 0], 0)
      OBVIOUS
    <3> QED
      BY <3>1, <2>4, <2>5
  <2>6. CASE k > 0
    <3>1. k - 1 \in 0 .. L /\ k - 1 \notin T
      <4> HIDE DEF T
      <4> QED
        BY <2>3, <2>4, <2>6
    <3>2. PICK f : Goes(f, k - 1)
      <4> HIDE DEF Goes
      <4> QED
        BY <3>1
    <3>3. f \in [0 .. k - 1 -> Nat] /\ f[0] = 0
          /\ \A n \in 1 .. k - 1 : f[n] = c * f[n - 1] + d[n]
      BY <3>2
    <3> DEFINE last == c * f[k - 1] + d[k]
               g == [n \in 0 .. k |-> IF n = k THEN last ELSE f[n]]
    <3>4. last \in Nat
      <4>1. f[k - 1] \in Nat /\ d[k] \in Nat
        BY <3>3, <2>4, <2>6
      <4>2. ASSUME NEW a \in Nat, NEW b \in Nat, NEW e \in Nat PROVE a * b + e \in Nat
        OBVIOUS
      <4> QED
        BY <4>1, <4>2
    <3>5. g \in [0 .. k -> Nat]
      <4> HIDE DEF last
      <4> QED
        BY <3>3, <3>4, <2>4
    <3>6. g[0] = 0
      BY <3>3, <2>4, <2>6
    <3>7. ASSUME NEW n \in 1 .. k PROVE g[n] = c * g[n - 1] + d[n]
      <4>1. CASE n = k
        <5>1. g[n] = last /\ g[n - 1] = f[k - 1]
          BY <4>1, <2>4, <2>6
        <5> QED
          BY <4>1, <5>1
      <4>2. CASE n # k
        <5>1. n \in 1 .. k - 1
          BY <4>2, <2>4
        <5>2. g[n] = f[n] /\ g[n - 1] = f[n - 1]
          BY <4>2, <5>1, <2>4
        <5> QED
          BY <3>3, <5>1, <5>2
      <4> QED
        BY <4>1, <4>2
    <3>8. Goes(g, k)
      <4> HIDE DEF g
      <4> QED
        BY <3>5, <3>6, <3>7
    <3> QED
      BY <3>8, <2>4
  <2> QED
    BY <2>4, <2>5, <2>6
<1>2. PICK f : Goes(f, L)
  <2> HIDE DEF Goes
  <2>1. L \in 0 .. L
    OBVIOUS
  <2> QED
    BY <1>1, <2>1
<1>3. /\ f \in [0 .. L -> Nat] /\ f[0] = 0
      /\ \A n \in 1 .. L : f[n] = c * f[n - 1] + d[n]
  BY <1>2
<1>4. ASSUME NEW n \in 0 .. L
      PROVE  f[n] = IF n = 0 THEN 0 ELSE c * f[n - 1] + d[n]
  BY <1>3
<1>5. f = [n \in 0 .. L |-> IF n = 0 THEN 0 ELSE c * f[n - 1] + d[n]]
  BY <1>3, <1>4
<1> QED
  BY <1>3, <1>5

\* The value of digits is a natural number.
LEMMA NumberOfIsNat ==
    ASSUME NEW value \in Seq(Char), IsNumber(value)
    PROVE  NumberOf(Magnitude(value)) \in Nat
<1> DEFINE m == Magnitude(value)
<1>1. m \in Seq(Char) /\ m # <<>>
  BY DEF IsNumber, Magnitude, Signed
<1>2. ASSUME NEW i \in 1 .. Len(m) PROVE DigitValue(m[i]) \in 0 .. 9
  <2>1. m[i] \in Range(m)
    BY <1>1, <1>2 DEF Range
  <2>2. m[i] \in Range(Digits)
    BY <2>1 DEF IsNumber
  <2>3. \E n \in 0 .. 9 : Digits[n + 1] = m[i]
    <3>1. PICK k \in DOMAIN Digits : Digits[k] = m[i]
      BY <2>2 DEF Range
    <3>2. k \in 1 .. 10
      BY <3>1 DEF Digits
    <3>3. k - 1 \in 0 .. 9 /\ (k - 1) + 1 = k
      BY <3>2
    <3> QED
      BY <3>1, <3>3
  <2> QED
    BY <2>3 DEF DigitValue
<1> HIDE DEF m
<1> DEFINE d == [i \in 1 .. Len(m) |-> DigitValue(m[i])]
<1>3. Len(m) \in Nat /\ d \in [1 .. Len(m) -> Nat]
  BY <1>1, <1>2
<1>4. PICK f \in [0 .. Len(m) -> Nat] :
         f = [n \in 0 .. Len(m) |-> IF n = 0 THEN 0 ELSE 10 * f[n - 1] + d[n]]
  <2> HIDE DEF d
  <2>1. 10 \in Nat
    OBVIOUS
  <2> QED
    BY <1>3, <2>1, StepByStep, Zenon
<1> DEFINE Upto(g) == g = [n \in 0 .. Len(m) |->
                              IF n = 0 THEN 0 ELSE 10 * g[n - 1] + DigitValue(m[n])]
<1>5. Upto(f)
  <2>1. ASSUME NEW n \in 0 .. Len(m)
        PROVE  f[n] = IF n = 0 THEN 0 ELSE 10 * f[n - 1] + DigitValue(m[n])
    <3>1. f[n] = IF n = 0 THEN 0 ELSE 10 * f[n - 1] + d[n]
      <4> HIDE DEF d
      <4> QED
        BY <1>4
    <3>2. n # 0 => d[n] = DigitValue(m[n])
      BY <1>3
    <3> QED
      BY <3>1, <3>2
  <2> QED
    BY <1>4, <2>1
<1> DEFINE F == CHOOSE g : Upto(g)
<1>6. Upto(F)
  <2> HIDE DEF Upto
  <2> QED
    BY <1>5
<1>7. NumberOf(m) = F[Len(m)]
  BY Zenon DEF NumberOf
<1> HIDE DEF F
<1>8. F[0] = 0 /\ \A n \in 1 .. Len(m) : F[n] = 10 * F[n - 1] + DigitValue(m[n])
  BY <1>3, <1>6
<1> DEFINE T == {n \in 0 .. Len(m) : F[n] \notin Nat}
<1>9. T = {}
  <2>1. SUFFICES ASSUME T # {} PROVE FALSE
    OBVIOUS
  <2>2. T \subseteq Nat
    BY <1>3
  <2>3. PICK n \in T : \A k \in T : n <= k
    BY <2>1, <2>2, LeastNumber, Zenon
  <2>4. n \in 0 .. Len(m) /\ F[n] \notin Nat
    BY <2>3
  <2>5. n # 0
    BY <2>4, <1>8
  <2>6. n \in 1 .. Len(m) /\ n - 1 \in 0 .. Len(m) /\ n - 1 \notin T
    BY <2>3, <2>4, <2>5, <1>3
  <2>7. F[n - 1] \in Nat /\ DigitValue(m[n]) \in 0 .. 9
    BY <2>6, <1>2
  <2>8. F[n] = 10 * F[n - 1] + DigitValue(m[n])
    BY <2>6, <1>8
  <2>9. ASSUME NEW a \in Nat, NEW b \in 0 .. 9 PROVE 10 * a + b \in Nat
    OBVIOUS
  <2> QED
    BY <2>4, <2>7, <2>8, <2>9
<1> QED
  BY <1>3, <1>7, <1>9 DEF m

\* What the text of a number comes to is what it means, if that is allowed.
LEMMA NumberMeans ==
    ASSUME NEW value \in Seq(Char), NEW key \in NumberKeys
    PROVE  /\ parse_u16(value) \in NumberRange[key] <=>
                 Denotes(value) \in NumberRange[key]
           /\ Denotes(value) \in NumberRange[key] => parse_u16(value) = Denotes(value)
<1> DEFINE n == NumberOf(Magnitude(value))
<1>1. /\ NumberRange[key] \subseteq U16
      /\ NotANumber \notin U16 /\ U16 \subseteq Int
      /\ ULONG_MAX \in Nat /\ ULONG_MAX > UINT16_MAX
  <2>1. NumberRange[key] \subseteq U16
    BY RangesAreU16 DEF NumberKeys
  <2>2. ULONG_MAX \in Nat /\ ULONG_MAX > UINT16_MAX
    BY SerialAssumption, Zenon
  <2>3. NotANumber \notin U16 /\ U16 \subseteq Int
    BY Limits DEF U16, NotANumber
  <2> QED
    BY <2>1, <2>2, <2>3, Zenon
<1>2. CASE ~IsNumber(value)
  <2>1. Denotes(value) = NotANumber /\ parse_u16(value) = NotANumber
    BY <1>2 DEF Denotes, parse_u16
  <2> QED
    BY <2>1, <1>1
<1>3. CASE IsNumber(value)
  <2>1. n \in Nat
    BY <1>3, NumberOfIsNat
  <2>2. value # <<>> /\ Head(value) = value[1]
    BY <1>3 DEF IsNumber, Magnitude, Signed
  <2>3. Denotes(value) =
           IF value[1] = "-" /\ n \in 1 .. ULONG_MAX THEN ULONG_MAX + 1 - n ELSE n
    BY <1>3 DEF Denotes
  <2>4. strtoul(value) =
           IF n > ULONG_MAX THEN ULONG_MAX
           ELSE IF value[1] = "-" /\ n # 0 THEN ULONG_MAX + 1 - n ELSE n
    BY <2>2 DEF strtoul
  <2>5. parse_u16(value) =
           IF strtoul(value) \in U16 THEN strtoul(value) ELSE NotANumber
    BY <1>3 DEF parse_u16
  <2> HIDE DEF n
  <2>6. CASE n > ULONG_MAX
    <3>1. strtoul(value) = ULONG_MAX /\ Denotes(value) = n
      BY <2>1, <2>3, <2>4, <2>6, <1>1
    <3>2. n \notin U16 /\ ULONG_MAX \notin U16
      BY <2>1, <2>6, <1>1, Limits DEF U16
    <3> QED
      BY <3>1, <3>2, <2>5, <1>1
  <2>7. CASE ~(n > ULONG_MAX)
    <3>1. strtoul(value) = Denotes(value)
      BY <2>1, <2>3, <2>4, <2>7, <1>1
    <3> QED
      BY <3>1, <2>5, <1>1
  <2> QED
    BY <2>6, <2>7
<1> QED
  BY <1>2, <1>3

\* A set accepts what is allowed, and sets what it means.
LEMMA SetMeans ==
    ASSUME NEW request \in Requests, request.cmd = "set",
           IsKey(request.key),
           NEW text \in Seq(Char), text # <<>>, request.value # <<>>,
           \/ text = request.value
           \/ /\ request.key[1] \in TextKeys
              /\ Len(text) > TextMax[request.key[1]]
              /\ Len(request.value) > TextMax[request.key[1]],
           NEW cfg
    PROVE  /\ Acceptable(request.key[1], text) <=> Allowed(request)
           /\ cmd_set(request.key[1], text, cfg) = Meant(request, cfg)
<1> DEFINE key == request.key[1]
<1>1. key \in Keys
  BY DEF IsKey
<1>2. /\ request.value \in Seq(Char)
      /\ request.means = IF key \in TextKeys THEN request.value ELSE Denotes(request.value)
  BY RequestShape
<1>3. Meant(request, cfg) =
         IF Allowed(request) THEN [cfg EXCEPT ![key] = request.means] ELSE cfg
  BY DEF Meant
<1>4. CASE key \in TextKeys
  <2>1. TextMax[key] \in Nat
    BY <1>4, ConfigAssumption
  <2>2. Len(request.value) \in Nat \ {0} /\ Len(text) \in Nat
    BY <1>2
  <2>3. Allowed(request) <=> Len(request.value) <= TextMax[key]
    <3>1. key # "power_pulse_ms" /\ key # "boot_timeout_ms"
      BY <1>4 DEF TextKeys
    <3> QED
      BY <1>4, <2>1, <2>2, <3>1 DEF Allowed
  <2>4. Acceptable(key, text) <=> Len(text) <= TextMax[key]
    BY <1>4 DEF Acceptable
  <2>5. Acceptable(key, text) <=> Allowed(request)
    BY <2>1, <2>2, <2>3, <2>4
  <2>6. Acceptable(key, text) => text = request.means
    BY <2>1, <2>2, <2>4, <1>2, <1>4
  <2> QED
    BY <2>5, <2>6, <1>3, <1>4 DEF cmd_set
<1>5. CASE key \in NumberKeys
  <2>1. key \notin TextKeys
    BY <1>5 DEF TextKeys, NumberKeys
  <2>2. text = request.value /\ request.means = Denotes(text)
    BY <2>1, <1>2
  <2>3. Allowed(request) <=> request.means \in NumberRange[key]
    <3>1. CASE key = "power_pulse_ms"
      BY <3>1, <2>1 DEF Allowed, NumberRange, NumberKeys, TextKeys,
                        PulseRange, TimeoutRange,
                        POWER_PULSE_MIN, POWER_PULSE_MAX
    <3>2. CASE key = "boot_timeout_ms"
      BY <3>2, <2>1 DEF Allowed, NumberRange, NumberKeys, TextKeys,
                        PulseRange, TimeoutRange,
                        BOOT_TIMEOUT_MIN, BOOT_TIMEOUT_MAX
    <3> QED
      BY <3>1, <3>2, <1>5 DEF NumberKeys
  <2>4. Acceptable(key, text) <=> parse_u16(text) \in NumberRange[key]
    BY <2>1 DEF Acceptable
  <2>5. /\ Acceptable(key, text) <=> Allowed(request)
        /\ Acceptable(key, text) => parse_u16(text) = request.means
    BY <2>2, <2>3, <2>4, <1>5, NumberMeans
  <2> QED
    BY <2>1, <2>5, <1>3 DEF cmd_set
<1> QED
  BY <1>1, <1>4, <1>5 DEF Keys

\* A piece of a text, character by character.
LEMMA Piece ==
    ASSUME NEW s \in Seq(Char), NEW m \in 1 .. Len(s), NEW n \in m .. Len(s)
    PROVE  /\ SubSeq(s, m, n) \in Seq(Char)
           /\ Len(SubSeq(s, m, n)) = n - m + 1
           /\ \A i \in 1 .. n - m + 1 : SubSeq(s, m, n)[i] = s[m + i - 1]
<1>1. m \in Int /\ n \in Int /\ m <= n /\ \A i \in m .. n : s[i] \in Char
  OBVIOUS
<1> QED
  BY <1>1, SubSeqProperties

\* Only a key can be set.
LEMMA KeyAllowed ==
    ASSUME NEW request, Allowed(request) PROVE IsKey(request.key)
  BY Zenon DEF Allowed

\* A set without a value is refused, and so it should be.
LEMMA NothingSet ==
    ASSUME NEW request \in Requests, request.cmd = "set", request.value = <<>>
    PROVE  ~Allowed(request)
<1> SUFFICES ASSUME IsKey(request.key) PROVE ~Allowed(request)
  BY KeyAllowed
<1> DEFINE key == request.key[1]
<1>1. key \in TextKeys \cup NumberKeys
  BY DEF IsKey, Keys
<1>2. CASE key \in TextKeys
  <2>1. key # "power_pulse_ms" /\ key # "boot_timeout_ms"
    BY <1>2 DEF TextKeys
  <2>2. Len(request.value) = 0 /\ TextMax[key] \in Nat
    BY <1>2, ConfigAssumption
  <2>3. Len(request.value) \notin 1 .. TextMax[key]
    BY <2>2
  <2> QED
    BY <2>1, <2>3 DEF Allowed
<1>3. CASE key \in NumberKeys
  <2>1. key \notin TextKeys
    BY <1>3 DEF TextKeys, NumberKeys
  <2>2. request.means = Denotes(request.value)
    BY <2>1, RequestShape
  <2>3. ~IsNumber(request.value)
    BY DEF IsNumber, Magnitude, Signed
  <2>4. request.means = -1
    BY <2>2, <2>3 DEF Denotes, NotANumber
  <2> QED
    BY <2>1, <2>4 DEF Allowed, PulseRange, TimeoutRange
<1> QED
  BY <1>1, <1>2, <1>3

\* Every request that has come whole, or too long, does what it asks for and
\* gets the answer that is due to it.
THEOREM CommandMeans ==
    ASSUME NEW request \in Requests, NEW line, Collected(line, request), NEW cfg
    PROVE  setup_cmd_process(line, cfg) =
              [config  |-> Meant(request, cfg),
               replies |-> <<Expected(request, cfg)>>]
<1> DEFINE S == Line(request)
<1>1. PICK j \in 1 .. Len(S) :
         /\ Strip[skip_ws[line]] = SubSeq(S, 1, j)
         /\ \/ j = Len(S)
            \/ /\ request.cmd = "set" /\ request.key[1] \in TextKeys
               /\ request.value # <<>>
               /\ j - 4 > TextMax[request.key[1]]
               /\ Len(request.value) > TextMax[request.key[1]]
  BY Buffered
<1>2. S \in Seq(Char) /\ Len(S) \in Nat /\ S[1] = request.cmd /\ S[1] # Blank
  BY LineShape, LineEndsWhole
<1> DEFINE buf == SubSeq(S, 1, j)
<1>3. /\ buf \in Seq(Char) /\ Len(buf) = j
      /\ \A i \in 1 .. j : buf[i] = S[i]
  <2> HIDE DEF S
  <2>1. 1 \in 1 .. Len(S) /\ j \in 1 .. Len(S)
    BY <1>1, <1>2
  <2>2. /\ buf \in Seq(Char) /\ Len(buf) = j - 1 + 1
        /\ \A i \in 1 .. j - 1 + 1 : buf[i] = S[1 + i - 1]
    BY <1>2, <2>1, Piece
  <2> HIDE DEF buf
  <2>3. j - 1 + 1 = j /\ \A i \in 1 .. j : 1 + i - 1 = i
    BY <1>1
  <2> QED
    BY <2>2, <2>3
<1>4. Strip[skip_ws[line]] = buf
  BY <1>1
<1> HIDE DEF S, buf
<1>5. CASE request.key = <<>>
  <2>1. request.cmd \in Commands /\ ~IsKey(request.key) /\ ~IsKey(<<>>)
    <3>1. Len(<<>>) # 1
      OBVIOUS
    <3> QED
      BY <3>1, <1>5, RequestShape DEF IsKey
  <2>2. Len(S) = 1
    BY <1>5, LineShape DEF S
  <2>3. j = 1
    BY <1>1, <2>2
  <2>4. Word[buf] = <<buf[1]>> /\ Rest[buf] = <<>> /\ buf[1] = request.cmd
    BY <1>2, <1>3, <2>3, WordAlone
  <2>5. Word[Strip[skip_ws[line]]] = <<request.cmd>>
    BY <1>4, <2>4
  <2>6. CASE request.cmd = "list"
    <3>1. setup_cmd_process(line, cfg) = [config |-> cfg, replies |-> <<cmd_list(cfg)>>]
      BY <2>5, <2>6, ProcessOther
    <3>2. Meant(request, cfg) = cfg /\ Expected(request, cfg) = cmd_list(cfg)
      BY <2>6 DEF Meant, Expected, cmd_list
    <3> QED
      BY <3>1, <3>2
  <2>7. CASE request.cmd = "defaults"
    <3>1. setup_cmd_process(line, cfg) = [config |-> device_config_init, replies |-> <<OK>>]
      BY <2>5, <2>7, ProcessOther
    <3>2. Meant(request, cfg) = device_config_init /\ Expected(request, cfg) = OK
      BY <2>7 DEF Meant, Expected
    <3> QED
      BY <3>1, <3>2
  <2>8. CASE request.cmd \in {"save", "reboot", "version", "status"}
    BY <2>5, <2>8, ProcessOther DEF Meant, Expected
  <2>9. CASE request.cmd = "nonsense"
    BY <2>5, <2>9, ProcessOther DEF Meant, Expected
  <2>10. CASE request.cmd = "get"
    <3>1. setup_cmd_process(line, cfg) = [config |-> cfg, replies |-> <<Unknown(<<>>)>>]
      BY <1>4, <2>1, <2>4, <2>5, <2>10, ProcessGet
    <3>2. Meant(request, cfg) = cfg /\ Expected(request, cfg) = Unknown(<<>>)
      BY <1>5, <2>1, <2>10 DEF Meant, Expected
    <3> QED
      BY <3>1, <3>2
  <2>11. CASE request.cmd = "set"
    <3>1. Rest[<<>>] = <<>>
      BY NothingLeft
    <3>2. setup_cmd_process(line, cfg) = [config |-> cfg, replies |-> <<ERR>>]
      BY <1>4, <2>4, <2>5, <2>11, <3>1, ProcessSet
    <3>3. ~Allowed(request) /\ request.value = <<>>
      BY <1>5, <2>1, KeyAllowed, RequestShape
    <3> QED
      BY <2>11, <3>2, <3>3 DEF Meant, Expected
  <2> QED
    BY <2>1, <2>6, <2>7, <2>8, <2>9, <2>10, <2>11 DEF Commands
<1>6. CASE request.key # <<>> /\ request.value = <<>>
  <2> DEFINE key == request.key[1]
  <2>1. /\ request.cmd \in {"get", "set"} /\ key \in Names
        /\ Len(S) = 3 /\ S[2] = Blank /\ S[3] = key /\ key # Blank
    BY <1>6, RequestShape, LineShape, NoWordIsBlank, Zenon DEF S
  <2>2. j = 3
    BY <1>1, <1>6, <2>1
  <2> HIDE DEF key
  <2>3. Word[buf] = <<request.cmd>> /\ Rest[buf] = SubSeq(buf, 3, Len(buf))
    <3>1. /\ Len(buf) >= 3 /\ buf[1] # Blank /\ buf[2] = Blank /\ buf[3] # Blank
          /\ buf[1] = request.cmd
      BY <1>2, <1>3, <2>1, <2>2
    <3> QED
      BY <3>1, <1>3, WordAndRest
  <2> DEFINE arg == SubSeq(buf, 3, Len(buf))
  <2>4. arg \in Seq(Char) /\ Len(arg) = 1 /\ arg[1] = key
    <3>1. 3 \in 1 .. Len(buf) /\ Len(buf) \in 3 .. Len(buf) /\ Len(buf) = 3
      BY <1>3, <2>2
    <3>2. /\ arg \in Seq(Char) /\ Len(arg) = Len(buf) - 3 + 1
          /\ \A i \in 1 .. Len(buf) - 3 + 1 : arg[i] = buf[3 + i - 1]
      BY <1>3, <3>1, Piece
    <3> HIDE DEF arg
    <3>3. 1 \in 1 .. Len(buf) - 3 + 1 /\ 3 + 1 - 1 = 3 /\ Len(buf) - 3 + 1 = 1
      BY <3>1
    <3>4. arg[1] = buf[3]
      BY <3>2, <3>3
    <3> QED
      BY <1>3, <2>1, <2>2, <3>2, <3>3, <3>4
  <2>5. Word[Strip[skip_ws[line]]] = <<request.cmd>> /\ Rest[Strip[skip_ws[line]]] = arg
    BY <1>4, <2>3
  <2> HIDE DEF arg
  <2>6. CASE request.cmd = "get"
    <3>1. arg = request.key
      <4>1. request.key = <<key>>
        BY <1>6, LineShape DEF key
      <4> QED
        BY <2>4, <4>1
    <3>2. setup_cmd_process(line, cfg) =
             [config  |-> cfg,
              replies |-> <<IF IsKey(request.key) THEN cmd_get(key, cfg)
                            ELSE Unknown(request.key)>>]
      BY <2>4, <2>5, <2>6, <3>1, ProcessGet
    <3>3. Expected(request, cfg) =
             IF IsKey(request.key) THEN cmd_get(key, cfg) ELSE Unknown(request.key)
      BY <2>6 DEF Expected, cmd_get, key
    <3>4. Meant(request, cfg) = cfg
      BY <2>6 DEF Meant
    <3> QED
      BY <3>2, <3>3, <3>4
  <2>7. CASE request.cmd = "set"
    <3>1. Rest[arg] = <<>>
      BY <2>1, <2>4, WordAlone
    <3>2. setup_cmd_process(line, cfg) = [config |-> cfg, replies |-> <<ERR>>]
      BY <2>5, <2>7, <3>1, ProcessSet
    <3>3. ~Allowed(request)
      BY <1>6, <2>7, NothingSet
    <3>4. Expected(request, cfg) = ERR /\ Meant(request, cfg) = cfg
      BY <1>6, <2>7, <3>3 DEF Expected, Meant
    <3> QED
      BY <3>2, <3>4
  <2> QED
    BY <2>1, <2>6, <2>7
<1>7. CASE request.value # <<>>
  <2> DEFINE key == request.key[1]
             value == request.value
  <2>1. /\ request.cmd = "set" /\ request.key = <<key>> /\ key # Blank
        /\ value \in Seq(Char) /\ Len(value) \in Nat \ {0}
    <3>1. /\ request.cmd = "set" /\ request.key # <<>> /\ value \in Seq(Char)
      BY <1>7, RequestShape, LineShape, Zenon
    <3>2. request.key = <<key>> /\ key # Blank
      BY <3>1, LineShape, NoWordIsBlank, Zenon
    <3> QED
      BY <1>7, <3>1, <3>2
  <2>2. /\ Len(S) = 4 + Len(value)
        /\ S[2] = Blank /\ S[3] = key /\ S[4] = Blank
        /\ \A i \in 1 .. Len(value) : S[4 + i] = value[i]
        /\ value[1] # Blank
    <3>1. 1 \in 1 .. Len(value)
      BY <2>1
    <3>2. value[1] # Blank
      BY <3>1, RequestShape
    <3>3. /\ request.key # <<>> /\ S[4] = Blank
          /\ \A i \in 1 .. Len(value) : S[4 + i] = value[i]
      BY <1>7, LineShape DEF S
    <3>4. Len(S) = 4 + Len(value) /\ S[2] = Blank /\ S[3] = key
      BY <1>7, <3>3, LineShape DEF S
    <3> QED
      BY <3>2, <3>3, <3>4
  <2>3. j >= 5
    <3>1. CASE j = Len(S)
      BY <3>1, <2>1, <2>2
    <3>2. CASE j # Len(S)
      <4>1. TextMax[key] \in Nat /\ j - 4 > TextMax[key]
        BY <3>2, <1>1, ConfigAssumption
      <4> QED
        BY <4>1, <1>1
    <3> QED
      BY <3>1, <3>2
  <2>4. \/ j = Len(S)
        \/ /\ key \in TextKeys /\ j - 4 > TextMax[key] /\ Len(value) > TextMax[key]
    BY <1>1
  <2> DEFINE arg == SubSeq(buf, 3, Len(buf))
             text == SubSeq(arg, 3, Len(arg))
  <2> HIDE DEF key, value
  <2>5. Word[buf] = <<request.cmd>> /\ Rest[buf] = arg
    <3>1. /\ Len(buf) >= 3 /\ buf[1] # Blank /\ buf[2] = Blank /\ buf[3] # Blank
          /\ buf[1] = request.cmd
      BY <1>2, <1>3, <2>1, <2>2, <2>3
    <3> QED
      BY <3>1, <1>3, WordAndRest
  <2>6. arg \in Seq(Char) /\ Len(arg) = j - 2 /\ \A i \in 1 .. j - 2 : arg[i] = S[i + 2]
    <3>1. j \in Nat /\ 3 \in 1 .. Len(buf) /\ Len(buf) \in 3 .. Len(buf)
      BY <1>1, <1>3, <2>3
    <3>2. /\ arg \in Seq(Char) /\ Len(arg) = Len(buf) - 3 + 1
          /\ \A i \in 1 .. Len(buf) - 3 + 1 : arg[i] = buf[3 + i - 1]
      BY <1>3, <3>1, Piece
    <3> HIDE DEF arg
    <3>3. ASSUME NEW i \in 1 .. j - 2 PROVE arg[i] = S[i + 2]
      <4>1. /\ i \in 1 .. Len(buf) - 3 + 1 /\ 3 + i - 1 = i + 2 /\ i + 2 \in 1 .. j
        BY <3>1, <1>3
      <4> QED
        BY <4>1, <3>2, <1>3
    <3> QED
      BY <1>3, <3>1, <3>2, <3>3
  <2> HIDE DEF arg
  <2>7. Word[arg] = <<key>> /\ Rest[arg] = text
    <3>1. 1 \in 1 .. j - 2 /\ 2 \in 1 .. j - 2 /\ 3 \in 1 .. j - 2 /\ Len(arg) >= 3
      BY <2>3, <2>6, <1>1
    <3>2. arg[1] = S[3] /\ arg[2] = S[4] /\ arg[3] = S[5]
      BY <2>6, <3>1
    <3>3. S[5] = value[1]
      BY <2>1, <2>2
    <3> QED
      BY <2>1, <2>2, <2>6, <3>1, <3>2, <3>3, WordAndRest
  <2>8. text \in Seq(Char) /\ Len(text) = j - 4 /\ \A i \in 1 .. j - 4 : text[i] = S[i + 4]
    <3>1. j \in Nat /\ 3 \in 1 .. Len(arg) /\ Len(arg) \in 3 .. Len(arg)
      BY <1>1, <2>6, <2>3
    <3>2. /\ text \in Seq(Char) /\ Len(text) = Len(arg) - 3 + 1
          /\ \A i \in 1 .. Len(arg) - 3 + 1 : text[i] = arg[3 + i - 1]
      BY <2>6, <3>1, Piece
    <3> HIDE DEF text
    <3>3. ASSUME NEW i \in 1 .. j - 4 PROVE text[i] = S[i + 4]
      <4>1. /\ i \in 1 .. Len(arg) - 3 + 1 /\ 3 + i - 1 = i + 2 /\ i + 2 \in 1 .. j - 2
            /\ (i + 2) + 2 = i + 4
        BY <3>1, <2>6
      <4> QED
        BY <4>1, <3>2, <2>6
    <3> QED
      BY <2>6, <3>1, <3>2, <3>3
  <2> HIDE DEF text
  <2>9. text # <<>>
    BY <2>3, <2>8, <1>1
  <2>10. \/ text = value
         \/ key \in TextKeys /\ Len(text) > TextMax[key] /\ Len(value) > TextMax[key]
    <3>1. CASE j = Len(S)
      <4>1. Len(text) = Len(value)
        BY <3>1, <2>1, <2>2, <2>8
      <4>2. ASSUME NEW i \in 1 .. Len(value) PROVE text[i] = value[i]
        <5>1. i \in 1 .. j - 4 /\ i + 4 = 4 + i
          BY <3>1, <2>1, <2>2
        <5> QED
          BY <5>1, <2>2, <2>8
      <4> QED
        BY <4>1, <4>2, <2>1, <2>8, SeqEqual
    <3>2. CASE j # Len(S)
      BY <3>2, <2>4, <2>8
    <3> QED
      BY <3>1, <3>2
  <2>11. Word[arg] = request.key /\ Word[arg][1] = key
    BY <2>1, <2>7
  <2>12. Word[Strip[skip_ws[line]]] = <<request.cmd>> /\ Rest[Strip[skip_ws[line]]] = arg
    BY <1>4, <2>5
  <2>13. Expected(request, cfg) =
            IF ~IsKey(request.key) THEN Unknown(request.key)
            ELSE IF Allowed(request) THEN OK ELSE ERR
    BY <1>7, <2>1 DEF Expected
  <2>14. CASE IsKey(request.key)
    <3>1. /\ Acceptable(key, text) <=> Allowed(request)
          /\ cmd_set(key, text, cfg) = Meant(request, cfg)
      BY <1>7, <2>1, <2>8, <2>9, <2>10, <2>14, SetMeans DEF key, value
    <3>2. ~(Rest[arg] = <<>> \/ ~IsKey(Word[arg]))
      BY <2>7, <2>9, <2>11, <2>14
    <3>3. setup_cmd_process(line, cfg) =
             [config  |-> cmd_set(Word[arg][1], Rest[arg], cfg),
              replies |-> <<IF Acceptable(Word[arg][1], Rest[arg]) THEN OK ELSE ERR>>]
      BY <2>1, <2>12, <3>2, ProcessSet
    <3>4. setup_cmd_process(line, cfg) =
             [config  |-> cmd_set(key, text, cfg),
              replies |-> <<IF Acceptable(key, text) THEN OK ELSE ERR>>]
      BY <2>7, <2>11, <3>3
    <3>5. CASE Allowed(request)
      BY <2>13, <2>14, <3>1, <3>4, <3>5
    <3>6. CASE ~Allowed(request)
      BY <2>13, <2>14, <3>1, <3>4, <3>6
    <3> QED
      BY <3>5, <3>6
  <2>15. CASE ~IsKey(request.key)
    <3>1. setup_cmd_process(line, cfg) =
             [config |-> cfg, replies |-> <<Unknown(request.key)>>]
      BY <2>1, <2>7, <2>9, <2>11, <2>12, <2>15, ProcessSet
    <3>2. ~Allowed(request)
      BY <2>15, KeyAllowed
    <3>3. Meant(request, cfg) = cfg
      BY <2>1, <3>2 DEF Meant
    <3>4. Expected(request, cfg) = Unknown(request.key)
      BY <2>13, <2>15
    <3> QED
      BY <3>1, <3>3, <3>4
  <2> QED
    BY <2>14, <2>15
<1>8. request.value # <<>> => request.key # <<>>
  BY LineShape
<1> QED
  BY <1>5, <1>6, <1>7, <1>8

-----------------------------------------------------------------------------
(* What lies between two states of the device.                             *)

\* What poll_cdc_setup makes of one character: at is the line collected, the
\* configuration, and the number of answers given.
After(at, ch) ==
    IF ~EndsLine(ch)
    THEN [line   |-> IF Len(at.line) < CDC_LINE_MAX - 1
                     THEN Append(at.line, ch) ELSE at.line,
          config |-> at.config, n |-> at.n]
    ELSE IF at.line = <<>> THEN at
    ELSE [line   |-> <<>>,
          config |-> setup_cmd_process(at.line, at.config).config,
          n      |-> IF setup_cmd_process(at.line, at.config).replies = <<>>
                     THEN at.n ELSE at.n + 1]

\* The answer to the character, if there is one, is the next of all.
Due(all, at, ch) ==
    EndsLine(ch) /\ at.line # <<>> =>
        \/ setup_cmd_process(at.line, at.config).replies = <<>>
        \/ /\ at.n + 1 \in 1 .. Len(all)
           /\ setup_cmd_process(at.line, at.config).replies[1] = all[at.n + 1]

\* Characters lead from one state to another with the answers in all.
Leads(s, all, from, to) ==
    \E run : /\ run[0] = from
             /\ run[Len(s)] = to
             /\ \A i \in 1 .. Len(s) : /\ Due(all, run[i - 1], s[i])
                                       /\ run[i] = After(run[i - 1], s[i])

\* No characters lead nowhere.
LEMMA LeadsNowhere ==
    ASSUME NEW all, NEW from, NEW to
    PROVE  Leads(<<>>, all, from, to) <=> from = to
<1>1. Len(<<>>) = 0
  OBVIOUS
<1>2. ASSUME Leads(<<>>, all, from, to) PROVE from = to
  BY <1>1, <1>2 DEF Leads
<1>3. ASSUME from = to PROVE Leads(<<>>, all, from, to)
  <2> DEFINE run == [i \in {0} |-> from]
  <2>1. run[0] = from
    OBVIOUS
  <2> HIDE DEF run
  <2>2. run[Len(<<>>)] = to
    BY <1>1, <1>3, <2>1
  <2>3. \A i \in 1 .. Len(<<>>) : /\ Due(all, run[i - 1], <<>>[i])
                                  /\ run[i] = After(run[i - 1], <<>>[i])
    BY <1>1
  <2> QED
    BY <2>1, <2>2, <2>3 DEF Leads
<1> QED
  BY <1>2, <1>3

\* The first character, and the rest.
LEMMA LeadsTail ==
    ASSUME NEW s \in Seq(Char), s # <<>>, NEW all, NEW from, NEW to,
           Leads(s, all, from, to)
    PROVE  Due(all, from, Head(s)) /\ Leads(Tail(s), all, After(from, Head(s)), to)
<1>1. PICK run : /\ run[0] = from
                 /\ run[Len(s)] = to
                 /\ \A i \in 1 .. Len(s) : /\ Due(all, run[i - 1], s[i])
                                           /\ run[i] = After(run[i - 1], s[i])
  BY DEF Leads
<1>2. /\ Len(s) \in Nat \ {0} /\ Head(s) = s[1] /\ Len(Tail(s)) = Len(s) - 1
      /\ \A i \in 1 .. Len(s) - 1 : Tail(s)[i] = s[i + 1]
  BY HeadTailProperties
<1>3. Due(all, from, Head(s)) /\ run[1] = After(from, Head(s))
  <2>1. 1 \in 1 .. Len(s) /\ 1 - 1 = 0
    BY <1>2
  <2> QED
    BY <1>1, <1>2, <2>1
<1> DEFINE rest == [i \in 0 .. Len(s) - 1 |-> run[i + 1]]
<1>4. \A i \in 0 .. Len(s) - 1 : rest[i] = run[i + 1]
  OBVIOUS
<1> HIDE DEF rest
<1>5. rest[0] = After(from, Head(s)) /\ rest[Len(Tail(s))] = to
  <2>1. 0 \in 0 .. Len(s) - 1 /\ Len(s) - 1 \in 0 .. Len(s) - 1
        /\ 0 + 1 = 1 /\ (Len(s) - 1) + 1 = Len(s)
    BY <1>2
  <2>2. rest[0] = run[1] /\ rest[Len(s) - 1] = run[Len(s)]
    BY <1>4, <2>1
  <2> QED
    BY <1>1, <1>2, <1>3, <2>2
<1>6. ASSUME NEW i \in 1 .. Len(Tail(s))
      PROVE  /\ Due(all, rest[i - 1], Tail(s)[i])
             /\ rest[i] = After(rest[i - 1], Tail(s)[i])
  <2>1. /\ i \in 1 .. Len(s) - 1 /\ i \in 0 .. Len(s) - 1 /\ i - 1 \in 0 .. Len(s) - 1
        /\ i + 1 \in 1 .. Len(s) /\ (i - 1) + 1 = i /\ (i + 1) - 1 = i
    BY <1>2
  <2>2. rest[i - 1] = run[i] /\ rest[i] = run[i + 1] /\ Tail(s)[i] = s[i + 1]
    BY <1>2, <1>4, <2>1
  <2>3. Due(all, run[i], s[i + 1]) /\ run[i + 1] = After(run[i], s[i + 1])
    BY <1>1, <2>1
  <2> QED
    BY <2>2, <2>3
<1>7. Leads(Tail(s), all, After(from, Head(s)), to)
  BY <1>5, <1>6 DEF Leads
<1> QED
  BY <1>3, <1>7

\* One stretch of characters after another.
LEMMA LeadsOn ==
    ASSUME NEW s \in Seq(Char), NEW t \in Seq(Char), NEW all,
           NEW from, NEW mid, NEW to,
           Leads(s, all, from, mid), Leads(t, all, mid, to)
    PROVE  Leads(s \o t, all, from, to)
<1>1. PICK run : /\ run[0] = from
                 /\ run[Len(s)] = mid
                 /\ \A i \in 1 .. Len(s) : /\ Due(all, run[i - 1], s[i])
                                           /\ run[i] = After(run[i - 1], s[i])
  BY DEF Leads
<1>2. PICK more : /\ more[0] = mid
                  /\ more[Len(t)] = to
                  /\ \A i \in 1 .. Len(t) : /\ Due(all, more[i - 1], t[i])
                                            /\ more[i] = After(more[i - 1], t[i])
  BY DEF Leads
<1> DEFINE m == Len(s)
           k == Len(t)
<1>3. /\ m \in Nat /\ k \in Nat /\ Len(s \o t) = m + k
      /\ \A i \in 1 .. m : (s \o t)[i] = s[i]
      /\ \A i \in 1 .. k : (s \o t)[m + i] = t[i]
  OBVIOUS
<1> DEFINE both == [i \in 0 .. m + k |-> IF i <= m THEN run[i] ELSE more[i - m]]
<1>4. /\ \A i \in 0 .. m : both[i] = run[i]
      /\ \A i \in 0 .. k : both[m + i] = more[i]
  <2> HIDE DEF m, k
  <2>1. ASSUME NEW i \in 0 .. m PROVE both[i] = run[i]
    BY <1>3
  <2>2. ASSUME NEW i \in 0 .. k PROVE both[m + i] = more[i]
    <3>1. CASE i = 0
      BY <3>1, <1>1, <1>2, <1>3 DEF m
    <3>2. CASE i # 0
      <4>1. m + i \in 0 .. m + k /\ ~(m + i <= m) /\ (m + i) - m = i
        BY <3>2, <1>3
      <4> QED
        BY <4>1
    <3> QED
      BY <3>1, <3>2
  <2> QED
    BY <2>1, <2>2
<1> HIDE DEF both
<1>5. both[0] = from /\ both[Len(s \o t)] = to
  <2>1. 0 \in 0 .. m /\ k \in 0 .. k
    BY <1>3
  <2> QED
    BY <2>1, <1>1, <1>2, <1>3, <1>4
<1>6. ASSUME NEW i \in 1 .. Len(s \o t)
      PROVE  /\ Due(all, both[i - 1], (s \o t)[i])
             /\ both[i] = After(both[i - 1], (s \o t)[i])
  <2>1. CASE i <= m
    <3>1. i \in 1 .. m /\ i \in 0 .. m /\ i - 1 \in 0 .. m
      BY <2>1, <1>3
    <3>2. both[i] = run[i] /\ both[i - 1] = run[i - 1] /\ (s \o t)[i] = s[i]
      BY <3>1, <1>3, <1>4
    <3> QED
      BY <3>1, <3>2, <1>1
  <2>2. CASE i > m
    <3> DEFINE d == i - m
    <3>1. d \in 1 .. k /\ d \in 0 .. k /\ d - 1 \in 0 .. k /\ i = m + d /\ i - 1 = m + (d - 1)
      BY <2>2, <1>3
    <3> HIDE DEF d
    <3>2. both[i] = more[d] /\ both[i - 1] = more[d - 1] /\ (s \o t)[i] = t[d]
      BY <3>1, <1>3, <1>4
    <3> QED
      BY <3>1, <3>2, <1>2
  <2> QED
    BY <2>1, <2>2, <1>3
<1> QED
  BY <1>5, <1>6 DEF Leads

\* More answers may follow.
LEMMA LeadsStill ==
    ASSUME NEW s \in Seq(Char), NEW D, NEW all \in Seq(D), NEW reply \in D,
           NEW from, NEW to, Leads(s, all, from, to)
    PROVE  Leads(s, Append(all, reply), from, to)
<1>1. ASSUME NEW at, NEW ch, Due(all, at, ch) PROVE Due(Append(all, reply), at, ch)
  <2>1. /\ Len(all) \in Nat /\ Len(Append(all, reply)) = Len(all) + 1
        /\ \A i \in 1 .. Len(all) : Append(all, reply)[i] = all[i]
    OBVIOUS
  <2>2. at.n + 1 \in 1 .. Len(all) =>
           /\ at.n + 1 \in 1 .. Len(Append(all, reply))
           /\ Append(all, reply)[at.n + 1] = all[at.n + 1]
    BY <2>1
  <2> QED
    BY <1>1, <2>2 DEF Due
<1>2. PICK run : /\ run[0] = from
                 /\ run[Len(s)] = to
                 /\ \A i \in 1 .. Len(s) : /\ Due(all, run[i - 1], s[i])
                                           /\ run[i] = After(run[i - 1], s[i])
  BY DEF Leads
<1>3. \A i \in 1 .. Len(s) : /\ Due(Append(all, reply), run[i - 1], s[i])
                             /\ run[i] = After(run[i - 1], s[i])
  BY <1>1, <1>2
<1> QED
  BY <1>2, <1>3 DEF Leads

\* No character of a request's line ends it.
LEMMA LineHasNoEnd ==
    ASSUME NEW request \in Requests, NEW i \in 1 .. Len(Line(request))
    PROVE  ~EndsLine(Line(request)[i])
<1>1. Line(request) \in Seq(Char) /\ i \in Nat
  BY LineShape
<1>2. ~EndsLine(request.cmd) /\ ~EndsLine(Blank)
  BY RequestShape, NoWordIsBlank, Zenon
<1>3. request.key # <<>> => ~EndsLine(request.key[1])
  BY LineShape, NoWordIsBlank, Zenon
<1>4. CASE request.key = <<>>
  BY <1>1, <1>2, <1>4, LineShape
<1>5. CASE request.key # <<>> /\ i <= 3
  <2>1. i = 1 \/ i = 2 \/ i = 3
    BY <1>1, <1>5
  <2> QED
    BY <2>1, <1>2, <1>3, <1>5, LineShape
<1>6. CASE request.key # <<>> /\ ~(i <= 3)
  <2>1. request.value # <<>> /\ request.value \in Seq(Char)
    <3>1. request.value = <<>> => Len(Line(request)) = 3
      BY <1>6, LineShape
    <3>2. ASSUME request.value = <<>> PROVE FALSE
      <4>1. i \in 1 .. 3
        BY <3>1, <3>2
      <4> QED
        BY <4>1, <1>6
    <3> QED
      BY <3>2, RequestShape
  <2>2. Len(Line(request)) = 4 + Len(request.value)
    BY <2>1, <1>6, LineShape
  <2>3. CASE i = 4
    BY <2>1, <2>3, <1>2, LineShape
  <2>4. CASE i # 4
    <3>1. i - 4 \in 1 .. Len(request.value) /\ 4 + (i - 4) = i
      BY <2>1, <2>2, <2>4, <1>1, <1>6
    <3>2. Line(request)[4 + (i - 4)] = request.value[i - 4]
      BY <2>1, <3>1, LineShape
    <3>3. ~EndsLine(request.value[i - 4])
      BY <3>1, RequestShape
    <3> QED
      BY <3>1, <3>2, <3>3
  <2> QED
    BY <2>3, <2>4
<1> QED
  BY <1>4, <1>5, <1>6

\* The buffer holds at least a character of a request.
LEMMA BufferHolds ==
    ASSUME NEW request \in Requests
    PROVE  CDC_LINE_MAX - 1 \in Nat \ {0}
<1>1. CDC_LINE_MAX \in Nat
  BY SerialAssumption, Zenon
<1>2. Len(Line(request)) \in Nat \ {0} /\ Holds(request)
  BY LineEndsWhole, RequestShape
<1>3. CASE Len(Line(request)) < CDC_LINE_MAX
  BY <1>1, <1>2, <1>3
<1>4. CASE ~(Len(Line(request)) < CDC_LINE_MAX)
  <2>1. /\ request.key[1] \in TextKeys
        /\ \E i \in TextMax[request.key[1]] + 1 .. Len(request.value) :
              Len(Line(request)) - Len(request.value) + i < CDC_LINE_MAX
    BY <1>2, <1>4 DEF Holds
  <2>2. PICK i \in TextMax[request.key[1]] + 1 .. Len(request.value) :
              Len(Line(request)) - Len(request.value) + i < CDC_LINE_MAX
    BY <2>1
  <2>3. TextMax[request.key[1]] \in Nat /\ request.value \in Seq(Char)
    BY <2>1, ConfigAssumption, RequestShape
  <2>4. request.value # <<>> /\ i \in Nat \ {0}
    BY <2>2, <2>3
  <2>5. Len(Line(request)) = 4 + Len(request.value)
    BY <2>4, LineShape
  <2> QED
    BY <1>1, <2>2, <2>3, <2>4, <2>5
<1> QED
  BY <1>3, <1>4

\* The first characters, and one more.
LEMMA OneLonger ==
    ASSUME NEW s \in Seq(Char), NEW i \in 1 .. Len(s)
    PROVE  SubSeq(s, 1, i) = Append(SubSeq(s, 1, i - 1), s[i])
<1>1. Len(s) \in Nat /\ i \in Nat /\ 1 \in 1 .. Len(s) /\ i \in 1 .. Len(s) /\ s[i] \in Char
  OBVIOUS
<1> DEFINE head == SubSeq(s, 1, i - 1)
<1>2. /\ head \in Seq(Char) /\ Len(head) = i - 1
      /\ \A k \in 1 .. i - 1 : head[k] = s[k]
  OBVIOUS
<1>3. /\ SubSeq(s, 1, i) \in Seq(Char) /\ Len(SubSeq(s, 1, i)) = i
      /\ \A k \in 1 .. i : SubSeq(s, 1, i)[k] = s[k]
  OBVIOUS
<1> HIDE DEF head
<1>4. /\ Append(head, s[i]) \in Seq(Char) /\ Len(Append(head, s[i])) = i
      /\ \A k \in 1 .. i : Append(head, s[i])[k] = s[k]
  <2>1. /\ Append(head, s[i]) \in Seq(Char) /\ Len(Append(head, s[i])) = i
    BY <1>1, <1>2
  <2>2. ASSUME NEW k \in 1 .. i PROVE Append(head, s[i])[k] = s[k]
    BY <1>1, <1>2
  <2> QED
    BY <2>1, <2>2
<1>5. SubSeq(s, 1, i) = Append(head, s[i])
  BY <1>1, <1>3, <1>4, SeqEqual
<1> QED
  BY <1>5 DEF head

\* A request and the end of its line are carried out once, and answered.
LEMMA LeadsLine ==
    ASSUME NEW request \in Requests, NEW ending \in Endings,
           NEW D, NEW before \in Seq(D), NEW cfg, Expected(request, cfg) \in D
    PROVE  Leads(Line(request) \o ending, Append(before, Expected(request, cfg)),
                 [line |-> <<>>, config |-> cfg, n |-> Len(before)],
                 [line |-> <<>>, config |-> Meant(request, cfg), n |-> Len(before) + 1])
<1> DEFINE S == Line(request)
           s == S \o ending
           all == Append(before, Expected(request, cfg))
           m == Len(before)
           to == [line |-> <<>>, config |-> Meant(request, cfg), n |-> m + 1]
<1>1. /\ S \in Seq(Char) /\ Len(S) \in Nat \ {0}
      /\ \A i \in 1 .. Len(S) : ~EndsLine(S[i])
  BY LineShape, LineEndsWhole, LineHasNoEnd
<1>2. ending \in Seq(Char) /\ Len(ending) \in Nat
  <2>1. ending \in Seq(Char)
    BY SerialAssumption, Zenon
  <2> QED
    BY <2>1
<1>3. PICK k \in 0 .. Len(ending) - 1 :
         /\ \A i \in 1 .. k : ending[i] = Blank
         /\ \A i \in k + 1 .. Len(ending) : EndsLine(ending[i])
  BY EndingAssumption, Zenon
<1>4. /\ m \in Nat /\ all \in Seq(D) /\ Len(all) = m + 1
      /\ all[m + 1] = Expected(request, cfg)
  BY AppendProperties
<1> DEFINE e == Len(S) + k + 1
<1>5. /\ s \in Seq(Char) /\ Len(s) = Len(S) + Len(ending)
      /\ \A i \in 1 .. Len(S) : s[i] = S[i]
      /\ \A i \in 1 .. Len(ending) : s[Len(S) + i] = ending[i]
  <2> HIDE DEF S
  <2> QED
    BY <1>1, <1>2
<1> HIDE DEF S, s, all, m
<1>6. /\ e \in 2 .. Len(s)
      /\ \A i \in 1 .. e - 1 : s[i] = IF i <= Len(S) THEN S[i] ELSE Blank
      /\ \A i \in 1 .. e - 1 : ~EndsLine(s[i])
      /\ \A i \in e .. Len(s) : EndsLine(s[i])
  <2>1. e \in 2 .. Len(s)
    BY <1>1, <1>2, <1>3, <1>5
  <2>2. ASSUME NEW i \in 1 .. e - 1
        PROVE  s[i] = (IF i <= Len(S) THEN S[i] ELSE Blank) /\ ~EndsLine(s[i])
    <3>1. CASE i <= Len(S)
      <4>1. i \in 1 .. Len(S)
        BY <3>1, <1>1, <1>3
      <4> QED
        BY <4>1, <3>1, <1>1, <1>5
    <3>2. CASE ~(i <= Len(S))
      <4> DEFINE d == i - Len(S)
      <4>1. d \in 1 .. k /\ d \in 1 .. Len(ending) /\ i = Len(S) + d
        BY <3>2, <1>1, <1>2, <1>3
      <4> HIDE DEF d
      <4>2. s[i] = Blank
        BY <4>1, <1>3, <1>5
      <4> QED
        BY <4>2, <3>2, NoWordIsBlank
    <3> QED
      BY <3>1, <3>2
  <2>3. ASSUME NEW i \in e .. Len(s) PROVE EndsLine(s[i])
    <3> DEFINE d == i - Len(S)
    <3>1. d \in k + 1 .. Len(ending) /\ d \in 1 .. Len(ending) /\ i = Len(S) + d
      BY <1>1, <1>2, <1>3, <1>5
    <3> HIDE DEF d
    <3> QED
      BY <3>1, <1>3, <1>5
  <2> QED
    BY <2>1, <2>2, <2>3
<1> DEFINE last == CDC_LINE_MAX - 1
           keep(i) == IF i < last THEN i ELSE last
           at(i) == [line |-> SubSeq(s, 1, keep(i)), config |-> cfg, n |-> m]
           run == [i \in 0 .. Len(s) |-> IF i < e THEN at(i) ELSE to]
<1>7. last \in Nat \ {0}
  BY BufferHolds
<1> HIDE DEF e, last
<1>8. ASSUME NEW i \in 0 .. Len(s)
      PROVE  /\ keep(i) \in 0 .. i /\ keep(i) <= last
             /\ SubSeq(s, 1, keep(i)) \in Seq(Char)
             /\ Len(SubSeq(s, 1, keep(i))) = keep(i)
             /\ \A k1 \in 1 .. keep(i) : SubSeq(s, 1, keep(i))[k1] = s[k1]
  <2>1. keep(i) \in 0 .. i /\ keep(i) <= last /\ keep(i) \in 0 .. Len(s)
    BY <1>5, <1>7
  <2> HIDE DEF keep
  <2>2. CASE keep(i) = 0
    <3>1. SubSeq(s, 1, 0) = <<>>
      OBVIOUS
    <3> QED
      BY <2>1, <2>2, <3>1
  <2>3. CASE keep(i) # 0
    <3>1. 1 \in 1 .. Len(s) /\ keep(i) \in 1 .. Len(s) /\ keep(i) - 1 + 1 = keep(i)
      BY <2>1, <2>3
    <3>2. /\ SubSeq(s, 1, keep(i)) \in Seq(Char)
          /\ Len(SubSeq(s, 1, keep(i))) = keep(i) - 1 + 1
          /\ \A k1 \in 1 .. keep(i) - 1 + 1 : SubSeq(s, 1, keep(i))[k1] = s[1 + k1 - 1]
      BY <1>5, <3>1, Piece
    <3>3. \A k1 \in 1 .. keep(i) : 1 + k1 - 1 = k1
      BY <2>1
    <3> QED
      BY <2>1, <3>1, <3>2, <3>3
  <2> QED
    BY <2>2, <2>3
<1>9. /\ \A i \in 0 .. e - 1 : run[i] = at(i)
      /\ \A i \in e .. Len(s) : run[i] = to
  <2> HIDE DEF at, to
  <2> QED
    BY <1>1, <1>3, <1>5, <1>6
<1> HIDE DEF run
<1>10. run[0] = [line |-> <<>>, config |-> cfg, n |-> m]
  <2>1. 0 \in 0 .. e - 1 /\ keep(0) = 0
    BY <1>6, <1>7
  <2>2. SubSeq(s, 1, 0) = <<>>
    OBVIOUS
  <2> QED
    BY <1>9, <2>1, <2>2
<1>11. run[Len(s)] = to
  <2>1. Len(s) \in e .. Len(s)
    BY <1>6
  <2> QED
    BY <1>9, <2>1
<1>12. ASSUME NEW i \in 1 .. Len(s)
       PROVE  Due(all, run[i - 1], s[i]) /\ run[i] = After(run[i - 1], s[i])
  <2>0. e \in Nat /\ Len(s) \in Nat /\ i \in Nat
    BY <1>5, <1>6
  <2>1. CASE i < e
    <3>1. /\ i \in 1 .. e - 1 /\ i \in 0 .. e - 1 /\ i - 1 \in 0 .. e - 1
          /\ i - 1 \in 0 .. Len(s)
      BY <2>0, <2>1
    <3>2. run[i] = at(i) /\ run[i - 1] = at(i - 1) /\ ~EndsLine(s[i])
      BY <3>1, <1>6, <1>9
    <3>3. SubSeq(s, 1, keep(i)) =
             IF Len(SubSeq(s, 1, keep(i - 1))) < last
             THEN Append(SubSeq(s, 1, keep(i - 1)), s[i])
             ELSE SubSeq(s, 1, keep(i - 1))
      <4>1. Len(SubSeq(s, 1, keep(i - 1))) = keep(i - 1)
        BY <1>8, <3>1
      <4>2. CASE i - 1 < last
        <5>1. keep(i - 1) = i - 1 /\ keep(i) = i
          BY <4>2, <2>0, <1>7
        <5>2. SubSeq(s, 1, i) = Append(SubSeq(s, 1, i - 1), s[i])
          BY <1>5, OneLonger
        <5> QED
          BY <4>1, <4>2, <5>1, <5>2
      <4>3. CASE ~(i - 1 < last)
        <5>1. keep(i - 1) = last /\ keep(i) = last /\ ~(last < last)
          BY <4>3, <2>0, <1>7
        <5> QED
          BY <4>1, <5>1
      <4> QED
        BY <4>2, <4>3
    <3> HIDE DEF keep
    <3>4. After(at(i - 1), s[i]) = at(i)
      <4>1. After(at(i - 1), s[i]) =
               [line |-> IF Len(SubSeq(s, 1, keep(i - 1))) < CDC_LINE_MAX - 1
                         THEN Append(SubSeq(s, 1, keep(i - 1)), s[i])
                         ELSE SubSeq(s, 1, keep(i - 1)),
                config |-> cfg, n |-> m]
        BY <3>2 DEF After
      <4> QED
        BY <4>1, <3>3 DEF last
    <3>5. Due(all, run[i - 1], s[i])
      BY <3>2 DEF Due
    <3> HIDE DEF at
    <3> QED
      BY <3>2, <3>4, <3>5
  <2>2. CASE i = e
    <3> DEFINE line == SubSeq(s, 1, keep(e - 1))
    <3>1. e - 1 \in 0 .. e - 1 /\ e - 1 \in 0 .. Len(s) /\ e \in e .. Len(s)
      BY <2>0, <1>6
    <3>2. /\ line \in Seq(Char) /\ Len(line) = keep(e - 1)
          /\ keep(e - 1) \in 0 .. e - 1 /\ keep(e - 1) <= last
          /\ \A k1 \in 1 .. keep(e - 1) : line[k1] = s[k1]
      BY <3>1, <1>8
    <3>3. keep(e - 1) # 0 /\ (keep(e - 1) = e - 1 \/ keep(e - 1) = last)
      BY <1>6, <1>7
    <3> HIDE DEF keep, line
    <3>4. Collected(line, request)
      <4>1. line # <<>> /\ Len(line) < CDC_LINE_MAX
        <5>1. CDC_LINE_MAX \in Nat
          BY SerialAssumption, Zenon
        <5> QED
          BY <5>1, <3>2, <3>3, <1>7 DEF last
      <4>2. Len(line) >= Len(S) \/ Len(line) = CDC_LINE_MAX - 1
        BY <3>2, <3>3, <1>1, <1>3 DEF last, e
      <4>3. ASSUME NEW k1 \in 1 .. Len(line)
            PROVE  line[k1] = IF k1 <= Len(S) THEN S[k1] ELSE Blank
        <5>1. k1 \in 1 .. e - 1 /\ k1 \in 1 .. keep(e - 1)
          BY <3>2, <2>0
        <5> QED
          BY <5>1, <3>2, <1>6
      <4> QED
        BY <3>2, <4>1, <4>2, <4>3 DEF Collected, S
    <3>5. setup_cmd_process(line, cfg) =
             [config |-> Meant(request, cfg), replies |-> <<Expected(request, cfg)>>]
      BY <3>4, CommandMeans
    <3>6. /\ setup_cmd_process(line, cfg).config = Meant(request, cfg)
          /\ setup_cmd_process(line, cfg).replies # <<>>
          /\ setup_cmd_process(line, cfg).replies[1] = Expected(request, cfg)
      BY <3>5
    <3>7. run[i - 1] = [line |-> line, config |-> cfg, n |-> m] /\ run[i] = to
          /\ EndsLine(s[i]) /\ line # <<>>
      BY <2>2, <3>1, <3>4, <1>6, <1>9 DEF line, Collected
    <3>8. After(run[i - 1], s[i]) = to
      BY <3>6, <3>7 DEF After
    <3>9. Due(all, run[i - 1], s[i])
      <4>1. m + 1 \in 1 .. Len(all)
        BY <1>4
      <4> QED
        BY <3>6, <3>7, <4>1, <1>4 DEF Due
    <3> HIDE DEF to
    <3> QED
      BY <3>7, <3>8, <3>9
  <2>3. CASE i > e
    <3>1. i \in e .. Len(s) /\ i - 1 \in e .. Len(s)
      BY <2>0, <2>3
    <3>2. run[i] = to /\ run[i - 1] = to /\ EndsLine(s[i])
      BY <3>1, <1>6, <1>9
    <3>3. to.line = <<>>
      OBVIOUS
    <3> HIDE DEF to
    <3> QED
      BY <3>2, <3>3 DEF After, Due
  <2> QED
    BY <2>0, <2>1, <2>2, <2>3
<1> HIDE DEF to
<1>13. Leads(s, all, [line |-> <<>>, config |-> cfg, n |-> m], to)
  BY <1>10, <1>11, <1>12 DEF Leads
<1> QED
  BY <1>13 DEF S, s, all, m, to

\* Before the last of some answers there was less of them in the port.
LEMMA TakenGrows ==
    ASSUME NEW D, NEW s \in Seq(D), \A reply \in D : reply.size \in Nat,
           NEW m \in 1 .. Len(s)
    PROVE  /\ Taken(SubSeq(s, 1, m - 1)) \in Nat /\ Taken(s) \in Nat
           /\ Taken(SubSeq(s, 1, m - 1)) + s[m].size <= Taken(s)
<1> DEFINE L == Len(s)
           p == SubSeq(s, 1, m - 1)
           d == [i \in 1 .. L |-> s[i].size]
<1>1. L \in Nat /\ d \in [1 .. L -> Nat] /\ \A i \in 1 .. L : s[i].size \in Nat
  <2>1. ASSUME NEW i \in 1 .. L PROVE s[i].size \in Nat
    BY ElementOfSeq
  <2> QED
    BY <2>1
<1>2. /\ Len(p) = m - 1 /\ m - 1 \in Nat
      /\ \A i \in 1 .. m - 1 : p[i] = s[i]
  OBVIOUS
<1> DEFINE Upto(g, t, l) == g = [n \in 0 .. l |->
                                   IF n = 0 THEN 0 ELSE g[n - 1] + t[n].size]
<1>3. ASSUME NEW t, NEW l \in 0 .. L, \A i \in 1 .. l : t[i] = s[i]
      PROVE  \E g \in [0 .. l -> Nat] : Upto(g, t, l)
  <2> DEFINE dl == [i \in 1 .. l |-> s[i].size]
  <2>1. l \in Nat /\ 1 \in Nat /\ dl \in [1 .. l -> Nat]
    BY <1>1
  <2>2. \A n \in 1 .. l : dl[n] = t[n].size
    BY <1>3
  <2> HIDE DEF dl
  <2>3. PICK g \in [0 .. l -> Nat] :
           g = [n \in 0 .. l |-> IF n = 0 THEN 0 ELSE 1 * g[n - 1] + dl[n]]
    BY <2>1, StepByStep, Zenon
  <2>4. ASSUME NEW n \in 0 .. l
        PROVE  g[n] = IF n = 0 THEN 0 ELSE g[n - 1] + t[n].size
    <3>1. g[n] = IF n = 0 THEN 0 ELSE 1 * g[n - 1] + dl[n]
      BY <2>3
    <3>2. CASE n = 0
      BY <3>1, <3>2
    <3>3. CASE n # 0
      <4>1. n \in 1 .. l /\ n - 1 \in 0 .. l
        BY <3>3, <2>1
      <4>2. g[n - 1] \in Nat
        BY <4>1, <2>3
      <4> QED
        BY <3>1, <3>3, <4>1, <4>2, <2>2
    <3> QED
      BY <3>2, <3>3
  <2>5. Upto(g, t, l)
    BY <2>3, <2>4
  <2> HIDE DEF Upto
  <2> QED
    BY <2>5
<1> DEFINE F(t, l) == CHOOSE g : Upto(g, t, l)
<1>4. ASSUME NEW t, NEW l \in 0 .. L, \A i \in 1 .. l : t[i] = s[i]
      PROVE  /\ F(t, l)[0] = 0
             /\ \A n \in 1 .. l : F(t, l)[n] = F(t, l)[n - 1] + s[n].size
  <2>1. \E g : Upto(g, t, l)
    <3> HIDE DEF Upto
    <3> QED
      BY <1>3, <1>4
  <2>2. Upto(F(t, l), t, l)
    <3> HIDE DEF Upto
    <3> QED
      BY <2>1
  <2> HIDE DEF F
  <2> QED
    BY <1>1, <1>4, <2>2
<1> DEFINE G == F(s, L)
           H == F(p, m - 1)
<1>5. Taken(s) = G[L] /\ Taken(p) = H[m - 1]
  <2>1. Taken(s) = F(s, Len(s))[Len(s)]
    BY Zenon DEF Taken
  <2>2. Taken(p) = F(p, Len(p))[Len(p)]
    <3> HIDE DEF p
    <3> QED
      BY Zenon DEF Taken
  <2> HIDE DEF F, p
  <2> QED
    BY <2>1, <2>2, <1>2
<1>6. /\ G[0] = 0 /\ \A n \in 1 .. L : G[n] = G[n - 1] + s[n].size
      /\ H[0] = 0 /\ \A n \in 1 .. m - 1 : H[n] = H[n - 1] + s[n].size
  <2> HIDE DEF F, p
  <2>1. L \in 0 .. L /\ m - 1 \in 0 .. L
    BY <1>1, <1>2
  <2> QED
    BY <2>1, <1>2, <1>4
<1> HIDE DEF G, H, p, d
\* The two functions agree, and the first grows.
<1> DEFINE T == {n \in 0 .. L : \/ G[n] \notin Nat
                                \/ n < m /\ H[n] # G[n]
                                \/ n >= m /\ ~(G[m] <= G[n])}
<1>7. T = {}
  <2>1. SUFFICES ASSUME T # {} PROVE FALSE
    OBVIOUS
  <2>2. T \subseteq Nat
    BY <1>1
  <2>3. PICK n \in T : \A k \in T : n <= k
    BY <2>1, <2>2, LeastNumber, Zenon
  <2>4. /\ n \in 0 .. L
        /\ \/ G[n] \notin Nat
           \/ n < m /\ H[n] # G[n]
           \/ n >= m /\ ~(G[m] <= G[n])
    BY <2>3
  <2>5. n # 0
    BY <2>4, <1>6
  <2>6. n \in 1 .. L /\ n - 1 \in 0 .. L /\ n - 1 \notin T
    BY <2>3, <2>4, <2>5, <1>1
  <2>7. /\ G[n - 1] \in Nat
        /\ n - 1 < m => H[n - 1] = G[n - 1]
        /\ n - 1 >= m => G[m] <= G[n - 1]
    BY <2>6
  <2> HIDE DEF T
  <2>8. G[n] = G[n - 1] + s[n].size /\ s[n].size \in Nat /\ G[n] \in Nat
    BY <2>6, <2>7, <1>1, <1>6
  <2>9. CASE n < m
    <3>1. n \in 1 .. m - 1 /\ n - 1 < m
      BY <2>6, <2>9, <1>1, <1>2
    <3>2. H[n] = H[n - 1] + s[n].size
      BY <3>1, <1>6
    <3> QED
      BY <3>1, <3>2, <2>4, <2>7, <2>8, <2>9
  <2>10. CASE n = m
    BY <2>4, <2>8, <2>10
  <2>11. CASE n > m
    <3>1. n - 1 >= m
      BY <2>6, <2>11, <1>1
    <3>2. m \in 1 .. L /\ G[m] <= G[n - 1]
      BY <3>1, <2>7
    <3>3. G[m] \in Nat
      BY <3>2, <2>3, <2>11, <1>1 DEF T
    <3> QED
      BY <3>1, <3>2, <3>3, <2>4, <2>7, <2>8, <2>11
  <2> QED
    BY <2>6, <2>9, <2>10, <2>11
<1>8. /\ m - 1 \in 0 .. L /\ m \in 0 .. L /\ L \in 0 .. L /\ m \in 1 .. L
      /\ m - 1 < m /\ L >= m
  BY <1>1, <1>2
<1>9. /\ G[m - 1] \in Nat /\ H[m - 1] = G[m - 1]
      /\ G[L] \in Nat /\ G[m] <= G[L]
  <2>1. m - 1 \notin T /\ L \notin T
    BY <1>7
  <2> QED
    BY <2>1, <1>8
<1>10. G[m] = G[m - 1] + s[m].size
  BY <1>6, <1>8
<1> QED
  BY <1>5, <1>9, <1>10 DEF p

-----------------------------------------------------------------------------
(* The terminal and the device in step.                                    *)

\* A terminal in step: what is under way leads from here to what it wants, with
\* the answers in all, of which n are given; those it has not read are in the
\* port, unless one has been cut.
Underway(all, n) ==
    /\ n \in 0 .. Len(all)
    /\ Leads(rx \o typing, all,
             [line |-> s_cdc_line, config |-> s_config, n |-> n],
             [line |-> <<>>, config |-> wanted, n |-> Len(all)])
    /\ term = "ready" =>
          \E done \in 0 .. n : /\ tx = SubSeq(all, done + 1, n)
                               /\ pending = SubSeq(all, done + 1, Len(all))

Answers(all) == \E D : all \in Seq(D) /\ \A reply \in D : reply.size \in Nat

InStep == term # "sync" => \E all, n : Answers(all) /\ Underway(all, n)

\* A terminal that has just come has its line end under way, or the line is
\* empty.
Joining ==
    term = "sync" =>
        /\ pending = <<>>
        /\ \/ rx \o typing = <<"CR">>
           \/ rx \o typing = <<>> /\ s_cdc_line = <<>>

\* A piece of the answers, also an empty one.
LEMMA PieceOf ==
    ASSUME NEW D, NEW s \in Seq(D), NEW m \in 1 .. Len(s) + 1, NEW n \in m - 1 .. Len(s)
    PROVE  /\ SubSeq(s, m, n) \in Seq(D)
           /\ Len(SubSeq(s, m, n)) = n - m + 1
           /\ \A i \in 1 .. n - m + 1 : SubSeq(s, m, n)[i] = s[m + i - 1]
<1>1. Len(s) \in Nat /\ m \in Int /\ n \in Int /\ \A i \in m .. n : s[i] \in D
  OBVIOUS
<1>2. /\ SubSeq(s, m, n) \in Seq(D)
      /\ Len(SubSeq(s, m, n)) = IF m <= n THEN n - m + 1 ELSE 0
      /\ \A i \in 1 .. n - m + 1 : SubSeq(s, m, n)[i] = s[m + i - 1]
  BY <1>1, SubSeqProperties
<1>3. (IF m <= n THEN n - m + 1 ELSE 0) = n - m + 1
  BY <1>1
<1> QED
  BY <1>2, <1>3

\* A piece with one more answer.
LEMMA PieceAndOne ==
    ASSUME NEW D, NEW s \in Seq(D), NEW n \in 0 .. Len(s) - 1, NEW m \in 1 .. n + 1
    PROVE  SubSeq(s, m, n + 1) = Append(SubSeq(s, m, n), s[n + 1])
<1>1. /\ Len(s) \in Nat /\ m \in 1 .. Len(s) + 1 /\ n \in m - 1 .. Len(s)
      /\ n + 1 \in m - 1 .. Len(s) /\ n + 1 \in 1 .. Len(s) /\ n \in Nat /\ m \in Nat
  OBVIOUS
<1> DEFINE head == SubSeq(s, m, n)
           whole == SubSeq(s, m, n + 1)
           l == n - m + 1
<1>2. /\ l \in Nat /\ head \in Seq(D) /\ Len(head) = l
      /\ \A i \in 1 .. l : head[i] = s[m + i - 1]
  BY <1>1, PieceOf
<1>3. /\ whole \in Seq(D) /\ Len(whole) = l + 1
      /\ \A i \in 1 .. l + 1 : whole[i] = s[m + i - 1]
  <2>1. n + 1 - m + 1 = l + 1
    BY <1>1
  <2> HIDE DEF l
  <2>2. /\ whole \in Seq(D) /\ Len(whole) = n + 1 - m + 1
        /\ \A i \in 1 .. n + 1 - m + 1 : whole[i] = s[m + i - 1]
    BY <1>1, PieceOf
  <2> HIDE DEF whole
  <2> QED
    BY <2>1, <2>2
<1>4. s[n + 1] \in D /\ m + (l + 1) - 1 = n + 1
  BY <1>1
<1> HIDE DEF head, whole, l
<1>5. /\ Append(head, s[n + 1]) \in Seq(D) /\ Len(Append(head, s[n + 1])) = l + 1
  BY <1>2, <1>4
<1>6. ASSUME NEW i \in 1 .. l + 1 PROVE whole[i] = Append(head, s[n + 1])[i]
  <2>1. CASE i = l + 1
    BY <2>1, <1>2, <1>3, <1>4
  <2>2. CASE i # l + 1
    <3>1. i \in 1 .. l
      BY <2>2, <1>2
    <3> QED
      BY <3>1, <1>2, <1>3, <1>4
  <2> QED
    BY <2>1, <2>2
<1>7. whole = Append(head, s[n + 1])
  BY <1>3, <1>5, <1>6, SeqEqual
<1> QED
  BY <1>7 DEF head, whole

\* An answer at the end of all leaves the pieces before it.
LEMMA PieceStays ==
    ASSUME NEW D, NEW s \in Seq(D), NEW reply \in D,
           NEW m \in 1 .. Len(s) + 1, NEW n \in m - 1 .. Len(s)
    PROVE  SubSeq(Append(s, reply), m, n) = SubSeq(s, m, n)
<1> DEFINE t == Append(s, reply)
<1>1. /\ Len(s) \in Nat /\ t \in Seq(D) /\ Len(t) = Len(s) + 1
      /\ \A i \in 1 .. Len(s) : t[i] = s[i]
  OBVIOUS
<1> HIDE DEF t
<1>2. m \in 1 .. Len(t) + 1 /\ n \in m - 1 .. Len(t)
  BY <1>1
<1>3. /\ SubSeq(t, m, n) \in Seq(D) /\ Len(SubSeq(t, m, n)) = n - m + 1
      /\ \A i \in 1 .. n - m + 1 : SubSeq(t, m, n)[i] = t[m + i - 1]
  BY <1>1, <1>2, PieceOf
<1>4. /\ SubSeq(s, m, n) \in Seq(D) /\ Len(SubSeq(s, m, n)) = n - m + 1
      /\ \A i \in 1 .. n - m + 1 : SubSeq(s, m, n)[i] = s[m + i - 1]
  BY PieceOf
<1>5. ASSUME NEW i \in 1 .. n - m + 1 PROVE t[m + i - 1] = s[m + i - 1]
  BY <1>1
<1>6. SubSeq(t, m, n) = SubSeq(s, m, n)
  BY <1>3, <1>4, <1>5, SeqEqual
<1> QED
  BY <1>6 DEF t

\* The first answer of a piece, and the rest.
LEMMA PieceRead ==
    ASSUME NEW D, NEW s \in Seq(D), NEW m \in 1 .. Len(s), NEW n \in m .. Len(s)
    PROVE  /\ SubSeq(s, m, n) # <<>>
           /\ Head(SubSeq(s, m, n)) = s[m]
           /\ Tail(SubSeq(s, m, n)) = SubSeq(s, m + 1, n)
<1>1. m \in 1 .. Len(s) + 1 /\ n \in m - 1 .. Len(s) /\ n - m + 1 # 0
  OBVIOUS
<1>2. Len(SubSeq(s, m, n)) = n - m + 1
  BY <1>1, PieceOf
<1> QED
  BY <1>1, <1>2, HeadTailOfSubSeq

\* The size of an answer.
LEMMA ExpectedSize ==
    ASSUME NEW request \in Requests, NEW cfg
    PROVE  Expected(request, cfg).size \in Nat
<1>1. Cardinality(Keys) \in Nat
  <2>1. ASSUME NEW S, NEW x, IsFiniteSet(S) PROVE IsFiniteSet(S \cup {x})
    BY <2>1, FS_AddElement
  <2>2. IsFiniteSet({} \cup {"wifi_ssid"} \cup {"wifi_password"} \cup {"device_name"}
                       \cup {"power_pulse_ms"} \cup {"boot_timeout_ms"})
    BY <2>1, FS_EmptySet, Zenon
  <2>3. Keys = {} \cup {"wifi_ssid"} \cup {"wifi_password"} \cup {"device_name"}
                  \cup {"power_pulse_ms"} \cup {"boot_timeout_ms"}
    BY DEF Keys, TextKeys, NumberKeys
  <2> QED
    BY <2>2, <2>3, FS_CardinalityType
<1>2. ASSUME NEW a, NEW b, NEW c PROVE Reply(a, b, c).size = c
  BY DEF Reply
<1>3. OK.size = 1 /\ ERR.size = 1
  BY <1>2 DEF OK, ERR
<1>4. request.cmd \in Commands
  BY RequestShape
<1>5. ASSUME NEW text, Len(text) \in Nat PROVE Unknown(text).size \in Nat
  BY <1>2, <1>5 DEF Unknown
<1>6. Len(request.key) \in Nat /\ Len(<<request.cmd>>) \in Nat
  BY SerialAssumption
<1>7. CASE request.cmd = "nonsense"
  BY <1>7, <1>5, <1>6 DEF Expected
<1>8. CASE request.cmd = "set"
  <2>1. \/ Expected(request, cfg) = Unknown(request.key)
        \/ Expected(request, cfg) \in {OK, ERR}
    BY <1>8 DEF Expected
  <2> QED
    BY <2>1, <1>3, <1>5, <1>6
<1>9. CASE request.cmd = "get"
  <2>1. \/ Expected(request, cfg) = Unknown(request.key)
        \/ Expected(request, cfg) = Reply("OK", Values({request.key[1]}, cfg), 1)
    BY <1>9 DEF Expected
  <2> QED
    BY <2>1, <1>2, <1>5, <1>6
<1>10. CASE request.cmd = "list"
  BY <1>1, <1>2, <1>10 DEF Expected
<1>11. CASE request.cmd \in {"save", "defaults", "status", "version", "reboot"}
  BY <1>3, <1>11 DEF Expected
<1> QED
  BY <1>4, <1>7, <1>8, <1>9, <1>10, <1>11 DEF Commands

\* A character moved from one text to the end of the other.
LEMMA MovedOn ==
    ASSUME NEW s \in Seq(Char), NEW t \in Seq(Char), t # <<>>
    PROVE  Append(s, Head(t)) \o Tail(t) = s \o t
<1>1. Head(t) \in Char /\ Tail(t) \in Seq(Char) /\ t = <<Head(t)>> \o Tail(t)
  <2>1. Head(t) \in Char /\ Tail(t) \in Seq(Char) /\ Len(Tail(t)) = Len(t) - 1
        /\ \A i \in 1 .. Len(Tail(t)) : Tail(t)[i] = t[i + 1]
    BY HeadTailProperties
  <2> DEFINE u == <<Head(t)>> \o Tail(t)
  <2>2. Len(t) \in Nat \ {0} /\ Head(t) = t[1]
    OBVIOUS
  <2>3. /\ u \in Seq(Char) /\ Len(u) = Len(t)
    BY <2>1, <2>2
  <2>4. ASSUME NEW i \in 1 .. Len(t) PROVE u[i] = t[i]
    <3>1. CASE i = 1
      BY <2>1, <2>2, <3>1
    <3>2. CASE i # 1
      <4>1. i - 1 \in 1 .. Len(Tail(t)) /\ (i - 1) + 1 = i
        BY <2>1, <2>2, <3>2
      <4>2. u[i] = Tail(t)[i - 1]
        BY <2>1, <2>2, <3>2, <4>1
      <4> QED
        BY <2>1, <4>1, <4>2
    <3> QED
      BY <3>1, <3>2
  <2>5. u = t
    <3> HIDE DEF u
    <3> QED
      BY <2>3, <2>4, SeqEqual
  <2> QED
    BY <2>1, <2>5
<1>2. <<Head(t)>> \in Seq(Char)
  BY <1>1
<1>3. Append(s, Head(t)) = s \o <<Head(t)>>
  BY <1>1, AppendIsConcat
<1>4. (s \o <<Head(t)>>) \o Tail(t) = s \o (<<Head(t)>> \o Tail(t))
  BY <1>1, <1>2, ConcatAssociative, SMT
<1> QED
  BY <1>1, <1>3, <1>4

\* What is under way, without its first character.
LEMMA Upstream ==
    ASSUME NEW s \in Seq(Char), NEW t \in Seq(Char), s # <<>>
    PROVE  /\ s \o t \in Seq(Char) /\ s \o t # <<>>
           /\ Head(s \o t) = Head(s)
           /\ Tail(s \o t) = Tail(s) \o t
<1>1. /\ s \o t \in Seq(Char) /\ Len(s \o t) = Len(s) + Len(t)
      /\ \A i \in 1 .. Len(s) : (s \o t)[i] = s[i]
      /\ \A i \in 1 .. Len(t) : (s \o t)[Len(s) + i] = t[i]
  OBVIOUS
<1>2. Len(s) \in Nat \ {0} /\ Len(t) \in Nat
  OBVIOUS
<1> DEFINE u == s \o t
<1> HIDE DEF u
<1>3. /\ u \in Seq(Char) /\ Len(u) = Len(s) + Len(t) /\ u # <<>>
      /\ \A i \in 1 .. Len(s) : u[i] = s[i]
      /\ \A i \in 1 .. Len(t) : u[Len(s) + i] = t[i]
  BY <1>1, <1>2 DEF u
<1>4. Head(u) = Head(s)
  <2>1. 1 \in 1 .. Len(s) /\ Head(u) = u[1] /\ Head(s) = s[1]
    BY <1>2, <1>3
  <2> QED
    BY <2>1, <1>3
<1>5. /\ Tail(s) \in Seq(Char) /\ Len(Tail(s)) = Len(s) - 1
      /\ \A i \in 1 .. Len(Tail(s)) : Tail(s)[i] = s[i + 1]
  BY HeadTailProperties
<1>6. /\ Tail(u) \in Seq(Char) /\ Len(Tail(u)) = Len(u) - 1
      /\ \A i \in 1 .. Len(Tail(u)) : Tail(u)[i] = u[i + 1]
  BY <1>3, HeadTailProperties
<1> DEFINE r == Tail(s)
           v == r \o t
<1> HIDE DEF r
<1>7. /\ v \in Seq(Char) /\ Len(v) = Len(s) - 1 + Len(t)
      /\ \A i \in 1 .. Len(s) - 1 : v[i] = r[i]
      /\ \A i \in 1 .. Len(t) : v[Len(s) - 1 + i] = t[i]
  BY <1>2, <1>5 DEF r
<1> HIDE DEF v
<1>8. ASSUME NEW i \in 1 .. Len(v) PROVE Tail(u)[i] = v[i]
  <2>1. i \in 1 .. Len(Tail(u)) /\ Tail(u)[i] = u[i + 1]
    BY <1>2, <1>3, <1>6, <1>7
  <2>2. CASE i <= Len(s) - 1
    <3>1. i \in 1 .. Len(s) - 1 /\ i + 1 \in 1 .. Len(s)
      BY <2>2, <1>2, <1>7
    <3> QED
      BY <2>1, <3>1, <1>3, <1>5, <1>7 DEF r
  <2>3. CASE ~(i <= Len(s) - 1)
    <3> DEFINE d == i - (Len(s) - 1)
    <3>1. d \in 1 .. Len(t) /\ i = Len(s) - 1 + d /\ i + 1 = Len(s) + d
      BY <2>3, <1>2, <1>7
    <3> HIDE DEF d
    <3> QED
      BY <2>1, <3>1, <1>3, <1>7
  <2> QED
    BY <2>2, <2>3
<1>9. Tail(u) = v
  BY <1>2, <1>3, <1>6, <1>7, <1>8, SeqEqual
<1> QED
  BY <1>3, <1>4, <1>9 DEF u, v, r

\* Nothing is asked, under way or collected.
Idle ==
    /\ rx = <<>> /\ typing = <<>> /\ s_cdc_line = <<>>
    /\ tx = <<>> /\ pending = <<>>
    /\ wanted = s_config

\* A terminal that has asked for nothing is in step with an idle device.
LEMMA InStepIdle == Idle => InStep
<1> SUFFICES ASSUME Idle PROVE InStep
  OBVIOUS
<1> USE DEF Idle
<1> DEFINE all == <<>>
<1>1. Answers(all)
  <2>1. all \in Seq({}) /\ \A reply \in {} : reply.size \in Nat
    OBVIOUS
  <2> HIDE DEF all
  <2> QED
    BY <2>1 DEF Answers
<1>2. Len(all) = 0 /\ rx \o typing = <<>> /\ SubSeq(all, 0 + 1, 0) = <<>>
  OBVIOUS
<1> HIDE DEF all
<1>3. Leads(rx \o typing, all,
            [line |-> s_cdc_line, config |-> s_config, n |-> 0],
            [line |-> <<>>, config |-> wanted, n |-> Len(all)])
  BY <1>2, LeadsNowhere
<1>4. Underway(all, 0)
  <2>1. 0 \in 0 .. Len(all) /\ 0 \in 0 .. 0
    BY <1>2
  <2>2. \E done \in 0 .. 0 : /\ tx = SubSeq(all, done + 1, 0)
                             /\ pending = SubSeq(all, done + 1, Len(all))
    BY <1>2, <2>1
  <2> QED
    BY <1>3, <2>1, <2>2 DEF Underway
<1> QED
  BY <1>1, <1>4 DEF InStep

\* What the answers in the port and those due have to do with each other while
\* no answer has been cut.
LEMMA ReadyAnswers ==
    ASSUME NEW all, NEW n, Answers(all), Underway(all, n), term = "ready"
    PROVE  \E D : \E done \in 0 .. n :
              /\ all \in Seq(D) /\ \A reply \in D : reply.size \in Nat
              /\ n \in 0 .. Len(all)
              /\ tx = SubSeq(all, done + 1, n)
              /\ pending = SubSeq(all, done + 1, Len(all))
<1>1. PICK D : all \in Seq(D) /\ \A reply \in D : reply.size \in Nat
  BY DEF Answers
<1>2. n \in 0 .. Len(all)
  BY DEF Underway
<1>3. PICK done \in 0 .. n : /\ tx = SubSeq(all, done + 1, n)
                             /\ pending = SubSeq(all, done + 1, Len(all))
  BY DEF Underway
<1> QED
  BY <1>1, <1>2, <1>3, Zenon

\* The answer the terminal reads is the one due.
LEMMA ReadsTheAnswer ==
    ASSUME InStep, term = "ready", tx # <<>>
    PROVE  pending # <<>> /\ Head(tx) = Head(pending)
<1>1. PICK all, n : Answers(all) /\ Underway(all, n)
  BY DEF InStep
<1>2. PICK D : \E done \in 0 .. n :
         /\ all \in Seq(D) /\ \A reply \in D : reply.size \in Nat
         /\ n \in 0 .. Len(all)
         /\ tx = SubSeq(all, done + 1, n)
         /\ pending = SubSeq(all, done + 1, Len(all))
  BY <1>1, ReadyAnswers, Zenon
<1>3. PICK done \in 0 .. n :
         /\ all \in Seq(D) /\ n \in 0 .. Len(all)
         /\ tx = SubSeq(all, done + 1, n)
         /\ pending = SubSeq(all, done + 1, Len(all))
  BY <1>2
<1>4. Len(all) \in Nat
  BY <1>3
<1>5. done + 1 <= n
  <2>1. CASE done = n
    <3>1. SubSeq(all, done + 1, n) = <<>>
      BY <2>1, <1>3, <1>4
    <3> QED
      BY <3>1, <1>3
  <2>2. CASE done # n
    BY <2>2, <1>3, <1>4
  <2> QED
    BY <2>1, <2>2
<1>6. done + 1 \in 1 .. Len(all) /\ n \in done + 1 .. Len(all)
      /\ Len(all) \in done + 1 .. Len(all)
  BY <1>3, <1>4, <1>5
<1> QED
  BY <1>3, <1>6, PieceRead

\* A round of the loop with a terminal in step, and when an answer is cut.
LEMMA PollInStep ==
    ASSUME TypeOK, InStep, term # "sync", poll_cdc_setup
    PROVE  /\ InStep'
           /\ term = "ready" /\ term' = "lost" => Taken(pending) > TxMax
<1>1. PICK all, n : Answers(all) /\ Underway(all, n)
  BY DEF InStep
<1>2. PICK D : all \in Seq(D) /\ \A reply \in D : reply.size \in Nat
  BY <1>1 DEF Answers
<1> DEFINE ch == Head(rx)
           here == [line |-> s_cdc_line, config |-> s_config, n |-> n]
           there == [line |-> <<>>, config |-> wanted, n |-> Len(all)]
<1>3. n \in 0 .. Len(all) /\ Len(all) \in Nat /\ n \in Nat
  BY <1>1, <1>2 DEF Underway
<1>4. /\ rx # <<>> /\ rx' = Tail(rx) /\ typing' = typing
      /\ pending' = pending /\ wanted' = wanted
  BY DEF poll_cdc_setup, RxAfter
<1>5. /\ rx \o typing \in Seq(Char) /\ rx \o typing # <<>>
      /\ Head(rx \o typing) = ch
      /\ Tail(rx \o typing) = rx' \o typing'
  BY <1>4, Upstream DEF TypeOK
<1>6. /\ Due(all, here, ch)
      /\ Leads(rx' \o typing', all, After(here, ch), there)
  <2> HIDE DEF ch, here, there
  <2>1. Leads(rx \o typing, all, here, there)
    BY <1>1 DEF Underway, here, there
  <2> QED
    BY <2>1, <1>5, LeadsTail
<1>7. Answers(all)'
  BY <1>1 DEF Answers
<1>8. ASSUME NEW m \in 0 .. Len(all),
             After(here, ch) = [line |-> s_cdc_line', config |-> s_config', n |-> m],
             term' = "ready" =>
                \E done \in 0 .. m : /\ tx' = SubSeq(all, done + 1, m)
                                     /\ pending' = SubSeq(all, done + 1, Len(all))
      PROVE  InStep'
  <2>1. there = [line |-> <<>>, config |-> wanted', n |-> Len(all)]
    BY <1>4
  <2>2. Leads(rx' \o typing', all,
              [line |-> s_cdc_line', config |-> s_config', n |-> m],
              [line |-> <<>>, config |-> wanted', n |-> Len(all)])
    BY <1>6, <1>8, <2>1
  <2>3. Underway(all, m)'
    BY <1>8, <2>2 DEF Underway
  <2> QED
    BY <1>7, <2>3 DEF InStep
<1>9. CASE EndsLine(ch) /\ s_cdc_line # <<>> /\ execute
  <2> DEFINE r == setup_cmd_process(s_cdc_line, s_config)
  <2>1. /\ s_config' = r.config /\ s_cdc_line' = <<>>
        /\ IF r.replies = <<>> THEN UNCHANGED <<tx, term>> ELSE tud_cdc_write(r.replies[1])
    BY <1>9 DEF execute, Remaining
  <2>2. /\ After(here, ch) = [line |-> <<>>, config |-> r.config,
                              n |-> IF r.replies = <<>> THEN n ELSE n + 1]
        /\ \/ r.replies = <<>>
           \/ n + 1 \in 1 .. Len(all) /\ r.replies[1] = all[n + 1]
    BY <1>6, <1>9 DEF After, Due
  <2> HIDE DEF r, ch, here, there
  <2>3. CASE r.replies = <<>>
    <3>1. tx' = tx /\ term' = term
      BY <2>1, <2>3
    <3>2. After(here, ch) = [line |-> s_cdc_line', config |-> s_config', n |-> n]
      BY <2>1, <2>2, <2>3
    <3>3. term' = "ready" =>
             \E done \in 0 .. n : /\ tx' = SubSeq(all, done + 1, n)
                                  /\ pending' = SubSeq(all, done + 1, Len(all))
      BY <3>1, <1>1, <1>4 DEF Underway
    <3>4. InStep'
      BY <3>2, <3>3, <1>3, <1>8
    <3> QED
      BY <3>1, <3>4
  <2>4. CASE r.replies # <<>>
    <3> DEFINE reply == all[n + 1]
    <3>1. n + 1 \in 1 .. Len(all) /\ r.replies[1] = reply /\ tud_cdc_write(reply)
      BY <2>1, <2>2, <2>4
    <3>2. reply \in D /\ reply.size \in Nat /\ n + 1 \in 0 .. Len(all)
          /\ n \in 0 .. Len(all) - 1
      BY <1>2, <1>3, <3>1
    <3> HIDE DEF reply
    <3>3. After(here, ch) = [line |-> s_cdc_line', config |-> s_config', n |-> n + 1]
      BY <2>1, <2>2, <2>4
    <3>4. CASE Fits(reply)
      <4>1. tx' = Append(tx, reply) /\ term' = term
        BY <3>1, <3>4 DEF tud_cdc_write
      <4>2. ASSUME term' = "ready"
            PROVE  \E done \in 0 .. n + 1 :
                      /\ tx' = SubSeq(all, done + 1, n + 1)
                      /\ pending' = SubSeq(all, done + 1, Len(all))
        <5>1. PICK done \in 0 .. n : /\ tx = SubSeq(all, done + 1, n)
                                     /\ pending = SubSeq(all, done + 1, Len(all))
          BY <4>1, <4>2, <1>1 DEF Underway
        <5>2. done + 1 \in 1 .. n + 1 /\ done \in 0 .. n + 1
          BY <5>1, <1>3
        <5>3. SubSeq(all, done + 1, n + 1) = Append(SubSeq(all, done + 1, n), all[n + 1])
          BY <5>2, <3>2, <1>2, PieceAndOne
        <5>4. tx' = SubSeq(all, done + 1, n + 1)
          BY <4>1, <5>1, <5>3 DEF reply
        <5> QED
          BY <5>1, <5>2, <5>4, <1>4
      <4>3. InStep'
        BY <4>2, <3>2, <3>3, <1>8
      <4> QED
        BY <4>1, <4>3
    <3>5. CASE ~Fits(reply)
      <4>1. term' = IF term = "ready" THEN "lost" ELSE term
        BY <3>1, <3>5 DEF tud_cdc_write
      <4>2. term' # "ready"
        BY <4>1
      <4>3. InStep'
        BY <4>2, <3>2, <3>3, <1>8
      <4>4. ASSUME term = "ready" PROVE Taken(pending) > TxMax
        <5>1. PICK done \in 0 .. n : /\ tx = SubSeq(all, done + 1, n)
                                     /\ pending = SubSeq(all, done + 1, Len(all))
          BY <4>4, <1>1 DEF Underway
        <5> DEFINE m == n - done + 1
        <5>2. /\ done + 1 \in 1 .. Len(all) + 1 /\ Len(all) \in done + 1 - 1 .. Len(all)
              /\ n \in done + 1 - 1 .. Len(all)
          BY <1>3, <3>2
        <5>3. /\ pending \in Seq(D) /\ Len(pending) = Len(all) - (done + 1) + 1
              /\ \A i \in 1 .. Len(all) - (done + 1) + 1 : pending[i] = all[done + 1 + i - 1]
          BY <5>1, <5>2, <1>2, PieceOf
        <5>4. /\ tx \in Seq(D) /\ Len(tx) = n - (done + 1) + 1
              /\ \A i \in 1 .. n - (done + 1) + 1 : tx[i] = all[done + 1 + i - 1]
          BY <5>1, <5>2, <1>2, PieceOf
        <5>5. /\ m \in 1 .. Len(pending) /\ done + 1 + m - 1 = n + 1
              /\ m \in 1 .. Len(all) - (done + 1) + 1
              /\ m - 1 = n - (done + 1) + 1
              /\ 1 \in 1 .. Len(pending) + 1 /\ m - 1 \in 1 - 1 .. Len(pending)
              /\ m - 1 - 1 + 1 = m - 1
          BY <5>3, <1>3, <3>2
        <5> HIDE DEF m
        <5>6. pending[m] = reply
          BY <5>3, <5>5 DEF reply
        <5>7. tx = SubSeq(pending, 1, m - 1)
          <6> DEFINE p == SubSeq(pending, 1, m - 1)
          <6>1. /\ p \in Seq(D) /\ Len(p) = m - 1 - 1 + 1
                /\ \A i \in 1 .. m - 1 - 1 + 1 : p[i] = pending[1 + i - 1]
            BY <5>3, <5>5, PieceOf
          <6> HIDE DEF p
          <6>2. ASSUME NEW i \in 1 .. Len(tx) PROVE tx[i] = p[i]
            <7>1. /\ i \in 1 .. m - 1 - 1 + 1 /\ 1 + i - 1 = i
                  /\ i \in 1 .. n - (done + 1) + 1
                  /\ i \in 1 .. Len(all) - (done + 1) + 1
              BY <5>4, <5>5, <1>3, <3>2
            <7> QED
              BY <7>1, <6>1, <5>3, <5>4
          <6>3. Len(tx) = Len(p)
            BY <5>4, <5>5, <6>1
          <6>4. tx = p
            BY <6>1, <6>2, <6>3, <5>4, SeqEqual
          <6> QED
            BY <6>4 DEF p
        <5>8. /\ Taken(tx) \in Nat /\ Taken(pending) \in Nat
              /\ Taken(tx) + reply.size <= Taken(pending)
          BY <5>3, <5>5, <5>6, <5>7, <1>2, TakenGrows
        <5>9. ~(reply.size <= TxMax - Taken(tx)) /\ TxMax \in Nat
          <6>1. TxMax \in Nat
            BY SerialAssumption, Zenon
          <6> QED
            BY <6>1, <3>5 DEF Fits, Free
        <5> QED
          BY <5>8, <5>9, <3>2
      <4> QED
        BY <4>3, <4>4
    <3> QED
      BY <3>4, <3>5
  <2> QED
    BY <2>3, <2>4
<1>10. CASE /\ EndsLine(ch) /\ s_cdc_line = <<>>
            /\ UNCHANGED <<s_config, s_cdc_line, tx, term>>
  <2>1. After(here, ch) = here
    BY <1>10 DEF After
  <2>2. here = [line |-> s_cdc_line', config |-> s_config', n |-> n]
    BY <1>10
  <2>3. term' = "ready" =>
           \E done \in 0 .. n : /\ tx' = SubSeq(all, done + 1, n)
                                /\ pending' = SubSeq(all, done + 1, Len(all))
    BY <1>1, <1>4, <1>10 DEF Underway
  <2> HIDE DEF ch, here, there
  <2>4. InStep'
    BY <2>1, <2>2, <2>3, <1>3, <1>8
  <2> QED
    BY <2>4, <1>10
<1>11. CASE /\ ~EndsLine(ch) /\ collect(ch)
            /\ UNCHANGED <<s_config, tx, term>>
  <2>1. After(here, ch) = [line |-> s_cdc_line', config |-> s_config', n |-> n]
    BY <1>11 DEF After, collect
  <2>2. term' = "ready" =>
           \E done \in 0 .. n : /\ tx' = SubSeq(all, done + 1, n)
                                /\ pending' = SubSeq(all, done + 1, Len(all))
    BY <1>1, <1>4, <1>11 DEF Underway
  <2> HIDE DEF ch, here, there
  <2>3. InStep'
    BY <2>1, <2>2, <1>3, <1>8
  <2> QED
    BY <2>3, <1>11
<1> QED
  BY <1>9, <1>10, <1>11 DEF poll_cdc_setup

\* A question, with its answer at the end of those due, leaves the terminal in
\* step.
LEMMA AskInStep ==
    ASSUME TypeOK, InStep, Asks
    PROVE  InStep'
<1>1. PICK all, n : Answers(all) /\ Underway(all, n)
  BY DEF InStep, Asks
<1>2. PICK D : all \in Seq(D) /\ \A reply \in D : reply.size \in Nat
  BY <1>1 DEF Answers
<1>3. PICK request \in Requests, ending \in Endings :
         /\ typing' = Line(request) \o ending
         /\ wanted' = Meant(request, wanted)
         /\ pending' = Append(pending, Expected(request, wanted))
  BY DEF Asks
<1>4. /\ typing = <<>> /\ s_config' = s_config /\ s_cdc_line' = s_cdc_line
      /\ rx' = rx /\ tx' = tx /\ term' = term
  BY DEF Asks, portVars
<1> DEFINE reply == Expected(request, wanted)
           E == D \cup {reply}
           more == Append(all, reply)
           here == [line |-> s_cdc_line, config |-> s_config, n |-> n]
           mid == [line |-> <<>>, config |-> wanted, n |-> Len(all)]
           there == [line |-> <<>>, config |-> wanted', n |-> Len(more)]
<1>5. reply.size \in Nat
  BY ExpectedSize
<1> HIDE DEF reply
<1>6. /\ all \in Seq(E) /\ reply \in E /\ \A r \in E : r.size \in Nat
  <2>1. D \subseteq E
    OBVIOUS
  <2>2. all \in Seq(E)
    BY <2>1, <1>2, SeqMonotonic, Zenon
  <2> QED
    BY <2>2, <1>2, <1>5
<1> HIDE DEF E
<1>7. /\ more \in Seq(E) /\ Len(more) = Len(all) + 1
      /\ n \in 0 .. Len(all) /\ n \in 0 .. Len(more) /\ Len(all) \in Nat
  BY <1>1, <1>6 DEF Underway
<1>8. Leads(rx \o typing', more, here, there)
  <2>1. rx \in Seq(Char) /\ rx \o typing = rx /\ typing' \in Seq(Char)
    BY <1>3, <1>4, LinesAreText DEF TypeOK
  <2>2. Leads(rx \o typing, all, here, mid)
    BY <1>1 DEF Underway
  <2>3. there = [line |-> <<>>, config |-> Meant(request, wanted), n |-> Len(all) + 1]
    BY <1>3, <1>7
  <2>4. Leads(typing', more, mid, there)
    <3>1. Leads(Line(request) \o ending, Append(all, Expected(request, wanted)), mid,
                [line |-> <<>>, config |-> Meant(request, wanted), n |-> Len(all) + 1])
      <4>1. Expected(request, wanted) \in E
        BY <1>6 DEF reply
      <4> QED
        BY <4>1, <1>6, LeadsLine
    <3> HIDE DEF mid, there
    <3> QED
      BY <3>1, <2>3, <1>3 DEF reply
  <2> HIDE DEF here, mid, there, more
  <2>5. Leads(rx, all, here, mid)
    BY <2>1, <2>2
  <2>6. Leads(rx, more, here, mid)
    BY <2>1, <2>5, <1>6, LeadsStill DEF more
  <2> QED
    BY <2>1, <2>4, <2>6, LeadsOn
<1>9. ASSUME term' = "ready"
      PROVE  \E done \in 0 .. n : /\ tx' = SubSeq(more, done + 1, n)
                                  /\ pending' = SubSeq(more, done + 1, Len(more))
  <2>1. PICK done \in 0 .. n : /\ tx = SubSeq(all, done + 1, n)
                               /\ pending = SubSeq(all, done + 1, Len(all))
    BY <1>1, <1>4, <1>9 DEF Underway
  <2>2. /\ done + 1 \in 1 .. Len(all) + 1 /\ n \in done + 1 - 1 .. Len(all)
        /\ Len(all) \in done + 1 - 1 .. Len(all)
        /\ Len(all) \in 0 .. Len(more) - 1
    BY <1>7
  <2>3. SubSeq(more, done + 1, n) = SubSeq(all, done + 1, n)
    BY <2>2, <1>6, PieceStays
  <2>4. SubSeq(more, done + 1, Len(all)) = SubSeq(all, done + 1, Len(all))
    BY <2>2, <1>6, PieceStays
  <2>5. more[Len(all) + 1] = reply
    BY <1>6
  <2> HIDE DEF more
  <2>6. SubSeq(more, done + 1, Len(all) + 1)
          = Append(SubSeq(more, done + 1, Len(all)), more[Len(all) + 1])
    BY <2>2, <1>7, PieceAndOne
  <2>7. pending' = SubSeq(more, done + 1, Len(more))
    BY <2>1, <2>4, <2>5, <2>6, <1>3, <1>7 DEF reply
  <2> QED
    BY <2>1, <2>3, <2>7, <1>4
<1>10. PICK every : every = more
  OBVIOUS
<1> HIDE DEF more
<1>11. Answers(every)'
  BY <1>6, <1>7, <1>10 DEF Answers
<1>12. Underway(every, n)'
  BY <1>4, <1>7, <1>8, <1>9, <1>10 DEF Underway
<1> QED
  BY <1>11, <1>12 DEF InStep

\* What the terminal wrote moves into the port and changes nothing else.
LEMMA TypeInStep ==
    ASSUME TypeOK, InStep, Joining, Types
    PROVE  InStep' /\ Joining'
<1>1. /\ rx' \o typing' = rx \o typing
      /\ s_config' = s_config /\ s_cdc_line' = s_cdc_line /\ tx' = tx
      /\ term' = term /\ pending' = pending /\ wanted' = wanted
  <2>1. rx' = Append(rx, Head(typing)) /\ typing' = Tail(typing) /\ typing # <<>>
    BY DEF Types
  <2>2. Append(rx, Head(typing)) \o Tail(typing) = rx \o typing
    BY <2>1, MovedOn DEF TypeOK
  <2> QED
    BY <2>1, <2>2 DEF Types
<1>2. Joining'
  BY <1>1 DEF Joining
<1>3. ASSUME term' # "sync" PROVE InStep'
  <2>1. PICK all, n : Answers(all) /\ Underway(all, n)
    BY <1>1, <1>3 DEF InStep
  <2>2. Underway(all, n)'
    BY <2>1, <1>1 DEF Underway
  <2>3. Answers(all)'
    BY <2>1 DEF Answers
  <2> QED
    BY <2>2, <2>3 DEF InStep
<1>4. ASSUME term' = "sync" PROVE InStep'
  BY <1>4 DEF InStep
<1> QED
  BY <1>2, <1>3, <1>4

\* An answer that is read is one answer less in the port and one less due.
LEMMA ReadInStep ==
    ASSUME InStep, Joining, Reads
    PROVE  InStep' /\ Joining'
<1>1. /\ tx # <<>> /\ tx' = Tail(tx) /\ rx' = rx /\ typing' = typing
      /\ s_config' = s_config /\ s_cdc_line' = s_cdc_line
      /\ term' = term /\ wanted' = wanted
      /\ pending' = IF pending = <<>> THEN <<>> ELSE Tail(pending)
  BY DEF Reads
<1>2. Joining'
  BY <1>1 DEF Joining
<1>3. ASSUME term # "sync" PROVE InStep'
  <2>1. PICK all, n : Answers(all) /\ Underway(all, n)
    BY <1>3 DEF InStep
  <2>2. ASSUME term = "ready"
        PROVE  \E done \in 0 .. n : /\ tx' = SubSeq(all, done + 1, n)
                                    /\ pending' = SubSeq(all, done + 1, Len(all))
    <3>1. PICK D : \E done \in 0 .. n :
             /\ all \in Seq(D) /\ \A reply \in D : reply.size \in Nat
             /\ n \in 0 .. Len(all)
             /\ tx = SubSeq(all, done + 1, n)
             /\ pending = SubSeq(all, done + 1, Len(all))
      BY <2>1, <2>2, ReadyAnswers, Zenon
    <3>2. PICK done \in 0 .. n :
             /\ all \in Seq(D) /\ n \in 0 .. Len(all)
             /\ tx = SubSeq(all, done + 1, n)
             /\ pending = SubSeq(all, done + 1, Len(all))
      BY <3>1
    <3>3. Len(all) \in Nat
      BY <3>2
    <3>4. done # n
      <4>1. ASSUME done = n PROVE FALSE
        <5>1. SubSeq(all, done + 1, n) = <<>>
          BY <4>1, <3>2, <3>3
        <5> QED
          BY <5>1, <3>2, <1>1
      <4> QED
        BY <4>1
    <3>5. /\ done + 1 \in 1 .. Len(all) /\ n \in done + 1 .. Len(all)
          /\ Len(all) \in done + 1 .. Len(all) /\ done + 1 \in 0 .. n
      BY <3>2, <3>3, <3>4
    <3>6. /\ Tail(tx) = SubSeq(all, done + 1 + 1, n)
          /\ pending # <<>>
          /\ Tail(pending) = SubSeq(all, done + 1 + 1, Len(all))
      BY <3>2, <3>5, PieceRead
    <3> QED
      BY <3>5, <3>6, <1>1
  <2>3. Underway(all, n)'
    BY <2>1, <2>2, <1>1 DEF Underway
  <2>4. Answers(all)'
    BY <2>1 DEF Answers
  <2> QED
    BY <2>3, <2>4 DEF InStep
<1>4. ASSUME term = "sync" PROVE InStep'
  BY <1>1, <1>4 DEF InStep
<1> QED
  BY <1>2, <1>3, <1>4

\* A new terminal begins with a line end; it is in step with nothing yet.
LEMMA ComesJoining ==
    ASSUME Comes
    PROVE  InStep' /\ Joining'
<1>1. rx' = <<>> /\ term' = "sync" /\ typing' = <<"CR">> /\ pending' = <<>>
  BY DEF Comes
<1>2. rx' \o typing' = <<"CR">>
  BY <1>1
<1> QED
  BY <1>1, <1>2 DEF InStep, Joining

\* The line end of a new terminal empties the line it finds.
LEMMA PollJoining ==
    ASSUME TypeOK, Joining, term = "sync", poll_cdc_setup
    PROVE  InStep' /\ Joining'
<1>1. /\ rx # <<>> /\ rx' = Tail(rx) /\ typing' = typing /\ pending' = pending
  BY DEF poll_cdc_setup, RxAfter
<1>2. /\ Head(rx \o typing) = Head(rx) /\ rx \o typing # <<>>
      /\ Tail(rx \o typing) = rx' \o typing'
  BY <1>1, Upstream DEF TypeOK
<1>3. pending = <<>> /\ rx \o typing = <<"CR">>
  BY <1>2 DEF Joining
<1>4. Head(rx) = "CR" /\ rx' \o typing' = <<>>
  BY <1>2, <1>3
<1>5. EndsLine(Head(rx))
  BY <1>4 DEF EndsLine
<1>6. s_cdc_line' = <<>> /\ term' = "sync"
  <2>1. CASE execute
    BY <2>1 DEF execute, Remaining, tud_cdc_write
  <2>2. CASE s_cdc_line = <<>> /\ UNCHANGED <<s_config, s_cdc_line, tx, term>>
    BY <2>2
  <2> QED
    BY <2>1, <2>2, <1>5 DEF poll_cdc_setup
<1> QED
  BY <1>1, <1>3, <1>4, <1>6 DEF InStep, Joining

\* What a quiet port has been asked is nothing.
LEMMA SyncedInStep ==
    ASSUME TypeOK, Joining, Synced
    PROVE  InStep' /\ Joining'
<1>1. /\ term = "sync" /\ typing = <<>> /\ rx = <<>>
      /\ rx' = rx /\ typing' = typing /\ tx' = <<>> /\ pending' = pending
      /\ s_config' = s_config /\ s_cdc_line' = s_cdc_line
      /\ term' = "ready" /\ wanted' = s_config
  BY DEF Synced
<1>2. rx \o typing = <<>>
  BY <1>1
<1>3. pending = <<>> /\ s_cdc_line = <<>>
  BY <1>1, <1>2 DEF Joining
<1>4. Idle'
  BY <1>1, <1>3 DEF Idle
<1>5. InStep'
  BY <1>4, InStepIdle, PTL
<1> QED
  BY <1>1, <1>5 DEF Joining

\* Every step keeps a terminal in step, and a new one on its way there.
LEMMA StepInStep ==
    ASSUME TypeOK, InStep, Joining, [Next]_vars
    PROVE  InStep' /\ Joining'
<1>1. CASE poll_cdc_setup /\ term = "sync"
  BY <1>1, PollJoining
<1>2. CASE poll_cdc_setup /\ term # "sync"
  <2>1. term' # "sync"
    BY <1>2 DEF poll_cdc_setup, execute, tud_cdc_write
  <2>2. InStep'
    BY <1>2, PollInStep
  <2> QED
    BY <2>1, <2>2 DEF Joining
<1>3. CASE Asks
  <2>1. term' # "sync"
    BY <1>3 DEF Asks
  <2>2. InStep'
    BY <1>3, AskInStep
  <2> QED
    BY <2>1, <2>2 DEF Joining
<1>4. CASE Types
  BY <1>4, TypeInStep
<1>5. CASE Reads
  BY <1>5, ReadInStep
<1>6. CASE Reconnects \/ PowerUp
  BY <1>6, ComesJoining DEF Reconnects, PowerUp
<1>7. CASE Synced
  BY <1>7, SyncedInStep
<1>8. CASE UNCHANGED vars
  <2>1. UNCHANGED <<s_config, s_cdc_line, rx, tx, term, typing, pending, wanted>>
    BY <1>8 DEF vars, portVars, termVars
  <2>2. Joining'
    BY <2>1 DEF Joining
  <2>3. InStep'
    BY <2>1 DEF InStep, Answers, Underway
  <2> QED
    BY <2>2, <2>3
<1> QED
  BY <1>1, <1>2, <1>3, <1>4, <1>5, <1>6, <1>7, <1>8 DEF Next

\* It holds from the start.
LEMMA StartsInStep == Init => InStep /\ Joining
<1> SUFFICES ASSUME Init PROVE InStep /\ Joining
  OBVIOUS
<1>1. Idle /\ term = "ready"
  BY DEF Init, Idle
<1>2. InStep
  BY <1>1, InStepIdle
<1> QED
  BY <1>1, <1>2 DEF Joining

\* The inductive invariant.
LEMMA AlwaysInStep == Spec => [](TypeOK /\ InStep /\ Joining)
<1>1. Init => InStep /\ Joining
  BY StartsInStep
<1>2. TypeOK /\ InStep /\ Joining /\ [Next]_vars => (InStep /\ Joining)'
  BY StepInStep
<1> QED
  BY <1>1, <1>2, TypeCorrect, PTL DEF Spec

\* Once all that was sent is taken, the configuration is the one asked for,
\* also by a terminal that has lost answers.
THEOREM AsIsAsked == Spec => []AsAsked
<1>1. TypeOK /\ InStep /\ Joining => AsAsked
  <2> SUFFICES ASSUME InStep, term # "sync", typing = <<>>, rx = <<>>, s_cdc_line = <<>>
               PROVE  s_config = wanted
    BY DEF AsAsked
  <2>1. PICK all, n : Answers(all) /\ Underway(all, n)
    BY DEF InStep
  <2>2. rx \o typing = <<>>
    OBVIOUS
  <2>3. [line |-> s_cdc_line, config |-> s_config, n |-> n]
          = [line |-> <<>>, config |-> wanted, n |-> Len(all)]
    BY <2>1, <2>2, LeadsNowhere DEF Underway
  <2> QED
    BY <2>3
<1> QED
  BY <1>1, AlwaysInStep, PTL

\* Every answer that is read is the one due, and one is cut only if those due
\* are more than the port can hold.
THEOREM AnswersAreDue == Spec => AnswersFit
<1> DEFINE Step == /\ Reads /\ term = "ready" =>
                        pending # <<>> /\ Head(tx) = Head(pending)
                   /\ term = "ready" /\ term' = "lost" => Taken(pending) > TxMax
<1>1. TypeOK /\ InStep /\ Joining /\ [Next]_vars => [Step]_vars
  <2> SUFFICES ASSUME TypeOK, InStep, [Next]_vars PROVE Step
    OBVIOUS
  <2>1. ASSUME Reads, term = "ready" PROVE pending # <<>> /\ Head(tx) = Head(pending)
    BY <2>1, ReadsTheAnswer DEF Reads
  <2>2. ASSUME term = "ready", term' = "lost" PROVE Taken(pending) > TxMax
    <3>1. poll_cdc_setup
      <4>1. ~UNCHANGED vars
        BY <2>2 DEF vars, termVars
      <4>2. ~Asks /\ ~Types /\ ~Reads /\ ~Synced
        BY <2>2 DEF Asks, Types, Reads, Synced
      <4>3. ~Reconnects /\ ~PowerUp
        BY <2>2 DEF Reconnects, PowerUp, Comes
      <4> QED
        BY <4>1, <4>2, <4>3 DEF Next
    <3> QED
      BY <2>2, <3>1, PollInStep
  <2> QED
    BY <2>1, <2>2
<1> QED
  BY <1>1, AlwaysInStep, PTL DEF Spec, AnswersFit

=============================================================================
