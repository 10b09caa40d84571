---------------------------- MODULE SetupSerial ----------------------------
(***************************************************************************)
(* Setup over the USB serial port: poll_cdc_setup of firmware/src/main.c,  *)
(* the command processor of setup_cmd.c and the configuration, with a      *)
(* terminal at the other end.                                              *)
(*                                                                         *)
(* A character of Char may stand for a whole word (a command, a key); the  *)
(* lengths below count characters of Char.  A reply is [status, data,      *)
(* size], size being what it takes of the port's buffer.                   *)
(***************************************************************************)
EXTENDS DeviceConfig, SequencesExt

CONSTANTS
    CDC_LINE_MAX,   \* the size of s_cdc_line
    RxMax, TxMax,   \* CFG_TUD_CDC_RX_BUFSIZE, CFG_TUD_CDC_TX_BUFSIZE
    ULONG_MAX,      \* of the compiler's unsigned long: more than 16 bits
    Requests,       \* what the terminal may ask
    Endings,        \* how it ends a line
    PendingMax      \* bound: requests without an answer

\* What isspace tells: of the blanks of C only the space is typed.
Blank == " "

ASSUME SerialAssumption ==
    /\ {CDC_LINE_MAX, RxMax, TxMax, PendingMax, ULONG_MAX} \subseteq Nat \ {0}
    /\ ULONG_MAX > UINT16_MAX
    /\ {Blank, "CR", "LF"} \subseteq Char
    /\ Endings \subseteq Seq(Char)
    /\ \A request \in Requests :
          {<<request.cmd>>, request.key, request.value} \subseteq Seq(Char)

VARIABLES
    s_config,
    s_cdc_line,   \* the characters collected: s_cdc_line_pos is its length
    rx, tx,       \* the port's buffers
    term,         \* terminal: "sync" after it has come, "ready", or "lost"
                  \* once an answer was not taken whole
    typing,       \* terminal: the rest of the line it is sending
    pending,      \* terminal: the answers due to what it has asked
    wanted        \* the configuration that its requests ask for

portVars == <<rx, tx>>
termVars == <<term, typing, pending, wanted>>
vars == <<s_config, s_cdc_line, portVars, termVars>>

\* The line never outgrows its buffer, nor the port its own.
TypeOK ==
    /\ s_cdc_line \in Seq(Char) /\ Len(s_cdc_line) < CDC_LINE_MAX
    /\ rx \in Seq(Char) /\ Len(rx) <= RxMax
    /\ term \in {"sync", "ready", "lost"}
    /\ typing \in Seq(Char)

Init ==
    /\ s_config = device_config_init
    /\ s_cdc_line = <<>>
    /\ rx = <<>> /\ tx = <<>>
    /\ term = "ready" /\ typing = <<>> /\ pending = <<>>
    /\ wanted = device_config_init

-----------------------------------------------------------------------------
(* setup_cmd.c                                                             *)

\* How many blanks a text starts with, and what follows them.
Blanks(s) ==
    CHOOSE n \in 0 .. Len(s) :
        /\ \A i \in 1 .. n : s[i] = Blank
        /\ n < Len(s) => s[n + 1] # Blank

skip_ws[s \in Seq(Char)] == SubSeq(s, Blanks(s) + 1, Len(s))

\* The stripping at the end of the line: where the text ends without its
\* last blanks.
Stripped(s) ==
    CHOOSE n \in 0 .. Len(s) :
        /\ \A i \in n + 1 .. Len(s) : s[i] = Blank
        /\ n > 0 => s[n] # Blank

Strip[s \in Seq(Char)] == SubSeq(s, 1, Stripped(s))

\* strchr(s, ' '): the first word, and what follows it and its blanks.
WordEnd(s) ==
    CHOOSE n \in 0 .. Len(s) :
        /\ \A i \in 1 .. n : s[i] # Blank
        /\ n < Len(s) => s[n + 1] = Blank

Word[s \in Seq(Char)] == SubSeq(s, 1, WordEnd(s))

Rest[s \in Seq(Char)] == skip_ws[SubSeq(s, WordEnd(s) + 1, Len(s))]

\* find_key
IsKey(s) == Len(s) = 1 /\ s[1] \in Keys

Digits == <<"0", "1", "2", "3", "4", "5", "6", "7", "8", "9">>
DigitValue(c) == CHOOSE n \in 0 .. 9 : Digits[n + 1] = c

NumberOf(s) ==
    LET upTo[n \in 0 .. Len(s)] ==
            IF n = 0 THEN 0 ELSE 10 * upTo[n - 1] + DigitValue(s[n])
    IN  upTo[Len(s)]

\* strtoul: a sign, then digits only; what is too large becomes ULONG_MAX,
\* and a minus counts down from ULONG_MAX + 1.
Signed(s) == s # <<>> /\ Head(s) \in {"+", "-"}
Magnitude(s) == IF Signed(s) THEN Tail(s) ELSE s
IsNumber(s) == Magnitude(s) # <<>> /\ Range(Magnitude(s)) \subseteq Range(Digits)

strtoul(s) ==
    LET n == NumberOf(Magnitude(s))
    IN  IF n > ULONG_MAX THEN ULONG_MAX
        ELSE IF Head(s) = "-" /\ n # 0 THEN ULONG_MAX + 1 - n ELSE n

NotANumber == -1

\* Faulty variant: the number is cut to sixteen bits.
parse_u16_wraps(s) == IF IsNumber(s) THEN strtoul(s) % 65536 ELSE NotANumber

parse_u16(s) ==
    IF IsNumber(s) /\ strtoul(s) \in U16 THEN strtoul(s) ELSE NotANumber

Reply(status, data, size) == [status |-> status, data |-> data, size |-> size]
OK == Reply("OK", <<>>, 1)
ERR == Reply("ERR", <<>>, 1)

\* What is not known is repeated in the answer.
Unknown(text) == Reply("ERR", <<>>, 1 + Len(text))

\* A password is never shown.
Shown(key, cfg) == IF key = "wifi_password" THEN <<"********">> ELSE cfg[key]

Values(keys, cfg) == [key \in keys |-> Shown(key, cfg)]

cmd_get(key, cfg) == Reply("OK", Values({key}, cfg), 1)

cmd_list(cfg) == Reply("OK", Values(Keys, cfg), Cardinality(Keys))

\* Faulty variant: the range of a number is not looked at.
Acceptable_any_number(key, value) ==
    IF key \in TextKeys
    THEN Len(value) <= TextMax[key] /\ (key = "device_name" => value # <<>>)
    ELSE parse_u16(value) # NotANumber

\* The checks of cmd_set.
Acceptable(key, value) ==
    IF key \in TextKeys
    THEN Len(value) <= TextMax[key] /\ (key = "device_name" => value # <<>>)
    ELSE parse_u16(value) \in NumberRange[key]

\* The configuration after cmd_set.
cmd_set(key, value, cfg) ==
    IF ~Acceptable(key, value) THEN cfg
    ELSE IF key \in TextKeys THEN [cfg EXCEPT ![key] = value]
    ELSE [cfg EXCEPT ![key] = parse_u16(value)]

\* What setup_cmd_process makes of a line: the configuration after it and
\* the replies, none for an empty line.  save and reboot answer and do no
\* more, the actions they ask for are not carried out in main.c.
setup_cmd_process(line, cfg) ==
    LET buf   == Strip[skip_ws[line]]
        cmd   == Word[buf]
        arg   == Rest[buf]
        key   == Word[arg]
        value == Rest[arg]
        Answer(reply) == [config |-> cfg, replies |-> <<reply>>]
    IN  CASE cmd = <<>> -> [config |-> cfg, replies |-> <<>>]
          [] cmd = <<"get">> ->
                Answer(IF IsKey(arg) THEN cmd_get(arg[1], cfg) ELSE Unknown(arg))
          [] cmd = <<"set">> ->
                IF value = <<>> THEN Answer(ERR)
                ELSE IF ~IsKey(key) THEN Answer(Unknown(key))
                ELSE [config  |-> cmd_set(key[1], value, cfg),
                      replies |-> <<IF Acceptable(key[1], value)
                                    THEN OK ELSE ERR>>]
          [] cmd = <<"list">> -> Answer(cmd_list(cfg))
          [] cmd = <<"defaults">> ->
                [config |-> device_config_init, replies |-> <<OK>>]
          [] cmd \in {<<"save">>, <<"reboot">>, <<"version">>, <<"status">>} ->
                Answer(OK)
          [] OTHER -> Answer(Unknown(cmd))

-----------------------------------------------------------------------------
(* main.c                                                                  *)

\* The characters a sequence of replies takes of the port's buffer.
Taken(replies) ==
    LET upTo[n \in 0 .. Len(replies)] ==
            IF n = 0 THEN 0 ELSE upTo[n - 1] + replies[n].size
    IN  upTo[Len(replies)]

Free == TxMax - Taken(tx)

Fits(reply) == reply.size <= Free

\* tud_cdc_write takes what fits, and its result is not looked at: from an
\* answer cut short or left out on, answers and questions no longer pair.
tud_cdc_write(reply) ==
    IF Fits(reply)
    THEN tx' = Append(tx, reply) /\ UNCHANGED term
    ELSE /\ tx' = IF Free = 0 THEN tx
                  ELSE Append(tx, [reply EXCEPT !.status = "cut", !.size = Free])
         /\ term' = IF term = "ready" THEN "lost" ELSE term

\* Faulty variant: a line whose answer does not fit is kept.
Remaining_until_answered(replies) ==
    IF replies = <<>> \/ Fits(replies[1]) THEN <<>> ELSE s_cdc_line

\* What is left of a line that has been carried out.
Remaining(replies) == <<>>

\* A line has ended.
execute ==
    \E r \in {setup_cmd_process(s_cdc_line, s_config)} :
        /\ s_config' = r.config
        /\ IF r.replies = <<>> THEN UNCHANGED <<tx, term>>
           ELSE tud_cdc_write(r.replies[1])
        /\ s_cdc_line' = Remaining(r.replies)

\* Faulty variant: the buffer's end is not looked at.
collect_unchecked(ch) == s_cdc_line' = Append(s_cdc_line, ch)

\* A character of a line: kept, or dropped if the line is too long.
collect(ch) ==
    s_cdc_line' = IF Len(s_cdc_line) < CDC_LINE_MAX - 1
                  THEN Append(s_cdc_line, ch) ELSE s_cdc_line

EndsLine(ch) == ch \in {"CR", "LF"}

\* Faulty variant: the end of an empty line is not taken.
RxAfter_sticks == IF EndsLine(Head(rx)) /\ s_cdc_line = <<>> THEN rx ELSE Tail(rx)

\* tud_cdc_read_char
RxAfter == Tail(rx)

\* A round of the loop of poll_cdc_setup.
poll_cdc_setup ==
    /\ rx # <<>>
    /\ rx' = RxAfter
    /\ \/ EndsLine(Head(rx)) /\ s_cdc_line # <<>> /\ execute
       \/ /\ EndsLine(Head(rx)) /\ s_cdc_line = <<>>
          /\ UNCHANGED <<s_config, s_cdc_line, tx, term>>
       \/ /\ ~EndsLine(Head(rx))
          /\ collect(Head(rx))
          /\ UNCHANGED <<s_config, tx, term>>
    /\ UNCHANGED <<typing, pending, wanted>>

-----------------------------------------------------------------------------
(* The terminal.  It may ask the next question before it has the answer to *)
(* the last, and may go at any time, in the middle of a line too.  The next *)
(* one ends whatever line it finds begun, and throws away what it reads     *)
(* until the port is quiet.                                                 *)

\* A request is [cmd, key, value, means]; what a request does not have is
\* empty, and means is the value that docs and unsigned long give the text.
Line(request) ==
    LET Join(a, b) == IF b = <<>> THEN a ELSE a \o <<Blank>> \o b
    IN  Join(Join(<<request.cmd>>, request.key), request.value)

\* What the text of a number means: its digits, counted down from
\* ULONG_MAX + 1 behind a minus, and no number if there is more in it.
Denotes(value) ==
    LET n == NumberOf(Magnitude(value))
    IN  CASE ~IsNumber(value) -> NotANumber
          [] IsNumber(value) /\ value[1] = "-" /\ n \in 1 .. ULONG_MAX ->
                ULONG_MAX + 1 - n
          [] OTHER -> n

\* The buffer holds the line, or so much of its text that the limit shows.
Holds(request) ==
    \/ Len(Line(request)) < CDC_LINE_MAX
    \/ /\ request.value # <<>> /\ request.key[1] \in TextKeys
       /\ \E i \in TextMax[request.key[1]] + 1 .. Len(request.value) :
             /\ request.value[i] # Blank
             /\ Len(Line(request)) - Len(request.value) + i < CDC_LINE_MAX

\* A terminal sends the commands of docs/device-setup-design.md:65-98 or one
\* that is not known, a get or a set also without its key or with one that is
\* not known, and values that have no line end and no blanks around them.
ASSUME RequestAssumption ==
    \A request \in Requests :
        /\ request.cmd \in {"get", "set", "list", "save", "defaults", "status",
                            "version", "reboot", "nonsense"}
        /\ request.key # <<>> =>
              /\ request.cmd \in {"get", "set"}
              /\ Len(request.key) = 1
              /\ request.key[1] # Blank /\ ~EndsLine(request.key[1])
        /\ request.value # <<>> => request.cmd = "set" /\ request.key # <<>>
        /\ request.cmd = "set" /\ IsKey(request.key) =>
              request.means = IF request.key[1] \in TextKeys
                              THEN request.value ELSE Denotes(request.value)
        /\ \A i \in 1 .. Len(request.value) :
              /\ ~EndsLine(request.value[i])
              /\ i \in {1, Len(request.value)} => request.value[i] # Blank
        /\ Holds(request)

\* It ends a line with CR, LF or both, perhaps behind blanks.
ASSUME EndingAssumption ==
    \A ending \in Endings : \E n \in 0 .. Len(ending) - 1 :
        /\ \A i \in 1 .. n : ending[i] = Blank
        /\ \A i \in n + 1 .. Len(ending) : EndsLine(ending[i])

\* The ranges of docs/device-setup-design.md:59-63, but for the empty text:
\* with nothing behind the key the line is no set command (setup_cmd.c:254).
PulseRange == 50 .. 2000
TimeoutRange == 5000 .. 60000

Allowed(request) ==
    LET key == request.key[1]
    IN  /\ IsKey(request.key)
        /\ \/ key \in TextKeys /\ Len(request.value) \in 1 .. TextMax[key]
           \/ key = "power_pulse_ms" /\ request.means \in PulseRange
           \/ key = "boot_timeout_ms" /\ request.means \in TimeoutRange

\* The answer a request should have, and the configuration it asks for.
Expected(request, cfg) ==
    CASE request.cmd = "nonsense" -> Unknown(<<request.cmd>>)
      [] request.cmd = "set" ->
            IF request.value # <<>> /\ ~IsKey(request.key) THEN Unknown(request.key)
            ELSE IF Allowed(request) THEN OK ELSE ERR
      [] request.cmd = "get" ->
            IF IsKey(request.key)
            THEN Reply("OK", Values({request.key[1]}, cfg), 1)
            ELSE Unknown(request.key)
      [] request.cmd = "list" -> Reply("OK", Values(Keys, cfg), Cardinality(Keys))
      [] OTHER -> OK

Meant(request, cfg) ==
    CASE request.cmd = "defaults" -> device_config_init
      [] request.cmd = "set" /\ Allowed(request) ->
            [cfg EXCEPT ![request.key[1]] = request.means]
      [] OTHER -> cfg

Asks ==
    /\ term # "sync"
    /\ typing = <<>>
    /\ Len(pending) < PendingMax
    /\ \E request \in Requests, ending \in Endings :
          /\ typing' = Line(request) \o ending
          /\ wanted' = Meant(request, wanted)
          /\ pending' = Append(pending, Expected(request, wanted))
    /\ UNCHANGED <<s_config, s_cdc_line, portVars, term>>

Types ==
    /\ typing # <<>>
    /\ Len(rx) < RxMax
    /\ rx' = Append(rx, Head(typing))
    /\ typing' = Tail(typing)
    /\ UNCHANGED <<s_config, s_cdc_line, tx, term, pending, wanted>>

\* The terminal takes an answer for that to its oldest request.
Reads ==
    /\ tx # <<>>
    /\ tx' = Tail(tx)
    /\ pending' = IF pending = <<>> THEN <<>> ELSE Tail(pending)
    /\ UNCHANGED <<s_config, s_cdc_line, rx, term, typing, wanted>>

\* A terminal comes to a port with empty buffers.
Comes ==
    /\ rx' = <<>> /\ tx' = <<>>
    /\ term' = "sync" /\ typing' = <<"CR">> /\ pending' = <<>>
    /\ wanted' = device_config_init

\* The port's buffers go with the old terminal, the line begun does not.
Reconnects ==
    /\ term # "sync"
    /\ Comes
    /\ UNCHANGED <<s_config, s_cdc_line>>

\* The new terminal finds the port quiet and asks for the whole configuration.
Synced ==
    /\ term = "sync" /\ typing = <<>> /\ rx = <<>>
    /\ tx' = <<>> /\ term' = "ready" /\ wanted' = s_config
    /\ UNCHANGED <<s_config, s_cdc_line, rx, typing, pending>>

\* Power fails and returns.  Nothing has been saved: main begins with the
\* defaults.
PowerUp ==
    /\ s_config' = device_config_init
    /\ s_cdc_line' = <<>>
    /\ Comes

Next == \/ poll_cdc_setup
        \/ Asks \/ Types \/ Reads
        \/ Reconnects \/ Synced \/ PowerUp

Spec == Init /\ [][Next]_vars

\* The main loop goes on, and a terminal sends what it has begun and reads.
FairSpec ==
    /\ Spec
    /\ WF_vars(poll_cdc_setup)
    /\ WF_vars(Types)
    /\ WF_vars(Reads)

-----------------------------------------------------------------------------
(* Properties.                                                             *)

\* Whatever has been set, the configuration survives a round trip through
\* flash: device_config_validate refuses nothing cmd_set has accepted, and no
\* value is changed on the way.
SavedConfigSurvives ==
    device_config_deserialize(device_config_init,
                              device_config_serialize(s_config)) = s_config

\* Every answer is the one due to the oldest request: a set is refused exactly
\* if its value is out of range, and a get or list shows what has been set
\* before, whatever the ends and lengths of the lines, and whatever an earlier
\* terminal left in the line buffer.  One is cut only if the answers due are
\* more than the port can hold: a terminal that waits for each sees it whole,
\* unless it has asked with an unknown word that is longer than the port, which
\* is repeated in the answer.
AnswersFit ==
    [][/\ Reads /\ term = "ready" => pending # <<>> /\ Head(tx) = Head(pending)
       /\ term = "ready" /\ term' = "lost" => Taken(pending) > TxMax]_vars

\* Once all that was sent is taken, the configuration is the one asked for:
\* nothing is lost, doubled or half set, even if answers were cut.
AsAsked ==
    term # "sync" /\ typing = <<>> /\ rx = <<>> /\ s_cdc_line = <<>>
        => s_config = wanted

\* Whatever is asked is answered, unless an answer is cut or the terminal
\* goes: the port never holds a line back, whatever ends it.
AnswersCome == pending # <<>> ~> tx # <<>> \/ term # "ready"

=============================================================================
