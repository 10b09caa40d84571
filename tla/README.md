# A TLA+ model of the PadProxy firmware

PadProxy is a Raspberry Pi Pico 2 W inside a PC.  It takes a Bluetooth gamepad,
presents it to the PC as a USB gamepad, and presses the PC's power button when
the guide button is pressed while the PC is off or asleep.  This directory holds
TLA+ modules that model the firmware (`firmware/` of the repository), the TLC
configurations that check them and proofs that TLAPS checks.  Paths below are
relative to `firmware/` unless they start with `docs/`.

## 1. Inventory

| Component | Source | State | Operations | Modelled |
|---|---|---|---|---|
| PC power state machine | `src/pc_power_state.c` | one of OFF, BOOTING, ON, SLEEPING | six events, each returning a set of three actions | `PcPowerState` |
| Power HAL | `src/pc_power_hal.c` | button line, two alarm handles, expiry flag | pulse, start, cancel, poll; two alarm callbacks in interrupt context | `PcPowerHal`, `PowerHalSpec` |
| LED debouncer | `src/main.c:113-150` | last sample, accepted level, time of the last change | one sample per pass | `LedDebounce`, `LedLoop` |
| Main loop, power half | `src/main.c` | the above, `s_config` | one pass: USB, setup line, LED, boot timer, gamepad | `PowerLoop` |
| Main loop, gamepad half | `src/main.c:209-238, 327-341` | `s_prev_report`, `s_prev_report_valid` | status string, reading the slot, edge detection, forwarding | `GamepadLoop` |
| Bluetooth slot | `src/bt_gamepad.c` | one report, connected flag, spinlock | Bluepad32 callbacks; `bt_gamepad_get_report` | `GamepadLoop` |
| USB HID gamepad | `src/usb_hid_gamepad.c` | last bus state | four TinyUSB callbacks, sending | `PowerLoop`, `GamepadLoop` |
| Report conversions | `src/bt_gamepad_convert.c`, `src/usb_hid_report.c`, `include/gamepad.h` | none | scaling, clamping, hat switch, wire report | `ReportConvert` |
| Device configuration | `src/device_config.c` | the configuration, a flash blob | defaults, validate, serialize, deserialize | `DeviceConfig` |
| Setup commands | `src/setup_cmd.c`, `src/main.c:165-202` | line buffer, the port's buffers | get, set, list, save, defaults, version, status, reboot | `SetupSerial` |
| OTA update | `src/ota_update.c` | HTTP context, flash writer | Wi-Fi, HTTPS client, release query, download, reboot, acceptance | `OtaUpdate`, `HttpReply`, `HttpStream`, `FlashWriter` |
| OTA version | `src/ota_version.c` | none | parse, compare, format | `OtaVersion` |

How they interact.  `main` accepts the running image, checks for an update,
initialises the drivers and enters a loop of about a millisecond.  A pass reads
the clock, lets TinyUSB deliver its events (callbacks feed the power state
machine), executes complete setup lines, samples the LED and polls the boot
timer (both feed the state machine), then reads the gamepad slot, which may
feed a wake request, and forwards the report if the state is ON.  Actions the
state machine returns are dispatched to the power HAL at once.  Two kinds of
code interrupt the loop: the timer interrupt, which runs the HAL's alarm
callbacks, and the Bluetooth stack, whose callbacks write the slot and call
`on_bt_event` in `main.c`.  The slot is guarded by a critical section;
`s_prev_report_valid` and the HAL's handles are not.

What is hard: interrupts between any two statements of the loop; two sources of
evidence about the PC, one immediate (USB) and one three seconds late (LED);
clocks that wrap; an HID endpoint that is often busy; resources (alarm slots,
one gamepad slot, line buffers, the flash partition) at their limits; network
and power failures during an update.  `PROJECT.json` lists the hazards line by
line, with the properties that cover each.

What makes each part correct:

* HAL: the button is never left pressed; the timer is what the caller asked for;
  no alarm is lost or left over.
* Debouncer: only levels that last are reported, all of them, in bounded time.
* State machine in its loop: no boot without a timeout and no timeout without a
  boot; input only to a mounted PC; no second press on a PC that is booting.
* Gamepad half: no torn reports, one wake per press and one for every press that
  lasts, nothing of a controller that has gone stays in the slot, the PC reads a report as
  what the player does and sees where the controls rest.
* Setup: every request has its answer, in order; a number or text out of range is
  refused whatever became of the line on its way; what was set is what is shown,
  also after a terminal that went in the middle of a line; every configuration the
  device can be in survives its form in flash.
* HTTPS client: the head of a reply is seen, and its body is whole, wherever the
  network cuts them; one request knows nothing of the last.
* Flash writer: what is in flash is the stream, nothing outside the partition is
  touched, only what is too long is refused.
* Update: the image to fall back to is never touched; what is downloaded is the
  asset of a release whose tag, as far as its buffer holds it, is a newer version; what
  is booted is the whole of it; a check ends whatever server and network do.

## 2. Modules

```
PcPowerState            pure operators: the state machine
PowerHalSpec            abstract HAL: a pulse and a one-shot timer, no interrupts
PcPowerHal              the HAL statement by statement; implements PowerHalSpec
  PcPowerHalProofs      its invariants and the refinement
LedDebounce             operators: one pass of the debouncer, the wrapping clock
  LedLoop               debouncer + loop + LED
    LedLoopProofs
PowerLoop               PcPowerState + LedDebounce + PowerHalSpec + USB + main loop
  PowerLoopProofs
ReportConvert           operators: a report from the controller to the wire
  GamepadLoop           PcPowerState + ReportConvert + slot + main loop + endpoint
    GamepadProofs
FlashWriter             the sector buffer and the flash
  FlashDownload         FlashWriter + any stream in any chunks
    FlashDownloadProofs
HttpStream              abstract client: a head, then its body in order
HttpReply               process_data byte by byte; implements HttpStream
  HttpProofs            its invariants and the refinement
OtaVersion              operators: versions, their texts and their order
OtaUpdate               OtaVersion + FlashWriter + client + boot ROM + server
  OtaProofs
DeviceConfig            operators: the configuration and its form in flash
  SetupSerial           DeviceConfig + commands + line buffer + port + terminals
    SetupProofs
MC*                     values of the constants for TLC
```

Definitions named `x_something` and commented "Faulty variant" are deliberately
wrong versions of a definition `x`: replacing `x` by it makes TLC report the
property it is paired with in `PROJECT.json`.  They are used nowhere else.

### PcPowerState
`handle_off` … `handle_sleeping` are the four switch statements, an action
bitmask is the set of its bits.  `last_transition_ms` is written and never read
by the firmware and is left out.

### PowerHalSpec and PcPowerHal
`PcPowerHal` has a program counter: an action is a statement, or the part of one
that an interrupt can separate from the next.  The alarm callbacks are single
steps, since nothing in the HAL preempts them.  `s_power_btn_alarm` is not
`volatile`, so the argument of `cancel_alarm` may be the value the `if` loaded or
a second load (`trigger_cancel`, `cancel_cancel`).  The pool of the SDK is
`pending`; ids are reused as soon as they are free, `add_alarm` fails with -1
when none is.  An alarm that is due fires before time goes on and no HAL
function lasts a unit; adding an alarm and storing its handle is one step,
because the shortest duration is 50 ms (`include/device_config.h:30`).

`armed` is a history variable: what the caller has asked of the boot timer.

`PowerHalSpec` says what `include/pc_power_hal.h` promises.  The refinement
mapping (end of `PcPowerHal`) puts the moment a request takes effect at the
statement that first shows: the cancellation of the alarm in flight, or the
assignment of the line or the flag.

### LedDebounce, LedLoop
The clock is an integer modulo `ClockMod` with unsigned subtraction.  The loop
reads it once, at `main.c:322`, and samples the LED up to `MaxLag` later; a pass
takes up to `MaxGap`.  `held` is how long ago the sample was taken that first
showed the waiting level.

### PowerLoop
One action per stage of the pass.  `deliver` is `pc_power_sm_process` plus
`dispatch_actions`, always called together in `main.c`.  USB events queue in
`usb_q` until `tud_task`.  Using `PowerHalSpec` in place of the HAL is justified
by the refinement; its interrupts (`Alarm`) come between any two stages.  What
setup commands do to the configuration is covered by letting each pulse and each
timeout have any allowed value.  The gamepad is a choice: pressed or not.
`holdoff` is a history variable, what is left of the boot timeout of the last
pulse that no signal of the PC has answered.

### ReportConvert, GamepadLoop
`ReportConvert` has the three forms of a report, Bluepad32's, `gamepad_report_t` and
the one on the wire, and the functions between them, with a bit mask as a set of
names.  `Means` says what the last should be of the first without the conversions in
between: axes and triggers as far along their range (`Proportional`), the hat switch
in the direction of the d-pad as an angle.  The ranges are those of the report
descriptor (`usb_hid_report.c`) and of Bluepad32.

In `GamepadLoop` a callback of Bluepad32 runs on the core of the loop and preempts
it between any two statements; inside the critical section interrupts are off.
There is one slot and more than one controller: `scanning` is what Bluepad32 has been
told about accepting another, so that two can only be connected if both were found
before the first was ready.  A report is copied in two steps, the sticks and the
rest.  USB events follow the order a host can cause (`BusEvents`), a bus that goes
empties the endpoint; the LED and the boot timer change the state of the machine as
they like, which is more than the real loop allows (`PowerLoop` has the rest).  The
null-pointer store of `main.c:330` has the outcomes of the constant `NullWrite`: the
other properties are checked with "ignored", so that what lies behind that line is
checked at all.  `sender`, `seen` and `fresh` are history variables: whose report
the slot holds, the guide button in the report processed last, and whether there
has been a reason for another wake request.

### FlashWriter, FlashDownload
`FlashWriter` has the operators and actions of `flash_writer_t`: a call of
`flash_write_cb` sets `input`, and each round of its `while` is a step, which
copies a chunk into the sector buffer and flushes it when it is full.  A flush
pads with the erased state, erases one sector and programs it.  `stream` is a
history variable, what the writer has been given.  `FlashDownload` puts any
stream in any chunks in front of it, ended by the flush of the remainder
(`ota_update.c:764`); `OtaUpdate` puts the HTTP client there.

### HttpStream, HttpReply
`HttpReply` is `process_data` and the callbacks that feed it, at the grain of bytes.
A segment is a chain of one or two pbufs that end anywhere, `pos` is how much of the
reply has been processed, and a round of the loop over the head or one piece of body
is a step.  The head is collected in `hdr_buf`, which stops taking bytes when it is
full; its end is looked for in the buffer after every byte; status and redirect are
then searched for in it (`parse_status_code`, `find_header`).  A request is made on
the context of the last.  A byte may stand for a word.

`HttpStream` is what the client owes its caller: at once the status and the location
of a head that fits, then the body, in order, from its first byte, as much as
the buffer or the callback takes.  `ImplementsStream` is the refinement; its mapping is
the identity on the context.  `OtaUpdate` takes replies at the grain of `HttpStream`:
one step for the head with the first of the body, one for every further piece.

### OtaVersion, OtaUpdate
A text is the sequence of its characters.  `ota_version_parse` is written as the code
is, number by number from the left; `Means` says the same of the whole text without a
parser.  `ota_version_compare` and `Precedes` are such a pair too.

In `OtaUpdate`, `main` is a program counter with one step per call that blocks
(`check`, `url`, `dns`, `wait`, `response`, `release`, `finish`).  `https_get` waits
in a loop of `cyw43_arch_poll`, inside which lwIP runs its callbacks: each callback is
an action, enabled while the connection is in the state that calls it, and any
number of them fit between two looks of the loop at `complete`, `error` and the
deadline.  The body of a reply goes where the request wants it, into `body_buf`, which
is `api_buf`, or to `flash_write_cb`.  A URL is what it leads to, or "bad" for what
`parse_url` refuses.  The answer to the release query is the sequence of the strings
in it that the code looks for, tags, file names and URLs in the order in which they
stand, cut off at `ApiCap` as `api_buf` is.  A tag is a text, of which the first
`TAG_MAX - 1` characters are parsed, 63 in the code (`ota_update.c:522`, `:710`); the
first URL behind the name `padproxy.bin` is taken.  `image` has the version that was
read of the tag.  An image whose tag was cut calls itself by the whole of its last
number, which is no smaller, and so refuses at least what the model refuses.

The environment.  *Boot ROM*, as `ota_update.c:38-45` describes it: an image
asked for with a flash-update reboot runs once, becomes the one that is booted
when `rom_explicit_buy` is called, and is left at the next reset otherwise;
`rom_reboot` returns and the reset comes later, or before the next statement.
*Power*: a reset comes between any two steps; a cut inside the erase or the
programming of a sector touches the target partition only and is the same as one
before it for every property here.  *Server and network*: any reply of `Answers`,
in pieces of any size, an error or a close at any point, or silence.  Two things are
asked of it, as the API of releases has them (`OtaAssumption`): the first URL behind the
name of a file is that file's, and status 200 comes with the page that was asked for,
unless its headers are too long to be seen.  `flaws` is a
history variable: that this download was cut short, or was preceded by the body of a
redirect.

### DeviceConfig, SetupSerial
A text is a sequence of characters, and a character may stand for a word (a
command, a key), so that a line of ten characters holds a `set`.  A blob is its
fields, with a number as its two bytes and the checksum a constant function
`Crc`; nothing that is checked or proved needs to know it.  A step is a round of
the loop in `poll_cdc_setup`: a character is collected, dropped, or ends the line,
which is then executed.  Between two rounds the port may take and deliver
characters; the code lets it do so between two passes of the main loop only, which
is one of the behaviours of the model.  `strtoul` takes a sign and computes in an
unsigned long, whose largest value is the constant `ULONG_MAX`.  `save` and `reboot`
answer `OK` and do nothing else, as `main.c:186-194` does, so that `PowerUp` begins
with the defaults.

The terminal types requests from `Requests`, as fast as the port takes them and
before it has the answer to the last.  `tud_cdc_write` takes what fits of an answer
and its result is not looked at (`main.c:182`): from the first cut answer on the
terminal cannot tell which answer is whose, and is "lost".  A terminal may go at any
time; the port's buffers go with it, the line begun does not.  The next one is in
"sync": it ends whatever line it finds begun and throws away what it reads until the
port is quiet.  `pending` are the answers due and `wanted` is the configuration
asked for, both worked out from the documented ranges and not from the code
(`Expected`, `Meant`, `Allowed`).

What a terminal may type is an assumption, for what is due to a line to be defined
(`RequestAssumption`, `EndingAssumption`): a command of
`docs/device-setup-design.md:65-98` or one that is unknown; a `get` or a `set` with a
key, a name that is no key, or without one, the others without; a `set` with a value or
without; a value without line ends in it and without blanks around it, which
`setup_cmd_process` takes away; a line that fits into the buffer, or a text so long
that the part of it that fits is over its limit (`Holds`: the buffer has 256 bytes and
the longest limit is 63).  A number that is longer than the buffer is excluded, since
what is cut off it may be what makes it too large.  A key or command that is not known
is repeated in the answer, which can make it longer than the port's 256 bytes
(`setup_cmd.c:241`, `:266`, `:294`): such an answer is cut though it is the only one.  A line ends with CR, LF or several
of them, perhaps behind blanks.  A number means its digits, counted down from
`ULONG_MAX + 1` behind a minus (`Denotes`); an unsigned long has more than 16 bits.

## 3. Runs

| Run | What it shows | States |
|---|---|---|
| `hal` | `TypeOK`, `ButtonNeverStuck`, `TimerAsAsked`, `NoAlarmLeft` at every placement of the alarm interrupts; `ImplementsSpec`: refinement of `PowerHalSpec`; `ButtonReleased` under fairness | 930 |
| `led` | `TypeOK`, `EdgeIsTimely`, `EdgeOnlyWhenStable` for every phase of a wrapping clock | 9 360 |
| `power` | `TypeOK`, `TimerMatchesState`, `OnOnlyIfMounted`, `NoPulseInHoldoff`, `BootingEnds` | 176 516 |
| `gamepad` | `TypeOK`, `NoTornReport`, `NoGhostInput`, `PcReadsPad`, `OneWakePerPress`; under fairness `PressWakes` and `HostSeesRest` | 188 093 |
| `flash` | `NothingLost`, `ImageIsStream`, `RefusesOnlyTooLong`, `StaysInPartition` for every stream of seven bytes in chunks of one to five | 562 |
| `http` | `TypeOK`, `HeadSeen`, `NothingLost` wherever a reply is cut; `ImplementsStream`: refinement of `HttpStream` | 4 928 |
| `ota` | `TypeOK`, `BootsAsset`, `FallbackUntouched`, `DownloadsTagged`, `NoDowngrade`, `UpdateEnds` against any server, network and power failure | 646 018 |
| `setup` | `TypeOK`, `SavedConfigSurvives`, `AsAsked`, `AnswersFit`, `AnswersCome` for terminals that type ahead, come and go | 98 131 |

Four more runs each check one statement that the repository makes and the code
does not keep, and end in a counterexample:

| Run | Statement | What happens |
|---|---|---|
| `gamepad_null` | the main loop can safely read the slot | `bt_gamepad_get_report(0, NULL)` at `main.c:330` stores through the null pointer once a controller is connected |
| `gamepad_wake` | a wake only on the press edge | a disconnection between copy and use makes a held button a press |
| `power_wake` | wake when the PC is off or sleeping | a late LED edge takes the machine to OFF with USB mounted; the running PC's button is pressed |
| `ota_image` | the asset is downloaded and booted | a connection that closes early completes the download; a part of the asset is booted |

Seen while modelling and without a run of their own:

* Two controllers share the slot: when one goes, the slot is cleared and the
  other is not seen until the next connection (`bt_gamepad.c:89-93`).
* The page of a redirect with a body goes into the flash before the asset
  (`ota_update.c:290`, `:493`; the flaw `redirect` of `OtaUpdate`).
* An image is accepted before anything of it has been tried (`main.c:248`), so that
  only a crash before that line is rolled back.
* A tag of more than 63 characters is cut before it is parsed, and may be cut in its last
  number (`ota_update.c:522`): one with many leading zeros is then taken for an older
  version than it is, never for a newer one.  The run `ota` has such a tag, of ten
  characters with room for nine; `DownloadsTagged` says what is kept.
* When a controller goes, nothing is sent in its place: the PC keeps its last report,
  buttons that were pressed included, until one is connected again (`main.c:339`).
* A redirect to a URL longer than `location` is followed to what is left of it
  (`LOCATION_SIZE`, checked in `http` as what the code does).
* A change of the LED is dated at the start of the pass and accepted early by that
  lag.
* A text cannot be set back to the empty text (`setup_cmd.c:254`).
* `save` and `reboot` answer `OK` and are marked TODO; Wi-Fi credentials that are set
  are never used, the update has those of the build.
* A negative number wraps: with an unsigned long of 32 bits -4294967096 sets a pulse
  of 200 ms.  The documented ranges are kept by the value it stands for.

Bounds.  `hal`: two alarm slots (all the HAL can use), pulses of 1 and 2 units,
timeouts of 1 and 3: alarms fall due during calls, before and after one another.
`led`: the clock wraps at 9 with a stable time of 3, so every comparison is made
on both sides of a wrap.  `power`: stable time 2, timeout 3, so that an LED edge
and a timeout can meet in one pass; one USB event in the queue, which lets
events come at every stage and be overtaken by the host's state.  `gamepad`: two
controllers, so that one may go while the other stays; two positions of a controller
that differ in both halves of the copy from each other and from the neutral report,
one of them with the guide button; a mouse, whose data is not a gamepad's.  `flash`:
two sectors of two bytes with a foreign sector on each side; streams of up to seven
bytes pass the end of the partition in the middle of a chunk.  `http`: a head that
fills `hdr_buf` to its last byte and one that is a byte longer, a redirect that fits
into `location` and one that does not, a body longer than `body_buf` and one that
begins like the end of a head; every cut of a chain of two pbufs.  `ota`: three
versions; releases that are newer, equal and older, with another file's URL first, a
suffix behind the version, a URL cut off by `ApiCap`, a URL of no use, a number equal
to the running one modulo 2^16, a tag of two numbers, and one that is longer than
`TAG_MAX` allows, ten characters, and is cut in its last number to a newer version; partitions of two sectors,
one asset that fills its partition and one that ends in the middle of a sector;
`MAX_REDIRECTS` with its value, three; chains of redirects up to and beyond it, error
pages, headers that do not fit.  `setup`: a line of ten characters, a name of two; a
number below its range, one in range only modulo 2^16, and a negative one that wraps
into the range in an unsigned long; a name that fits and one that fits neither its
field nor the line; an empty text; a key that is missing or unknown; lines end in CR LF, or a blank and LF; two requests
ahead, whose answers may be more than the port's buffer.  Liveness is checked
without symmetry.

Fairness.  `PcPowerHal!FairSpec`: a call that has started runs on, the interrupt
is served, time passes; nobody has to call.  `PowerLoop!FairSpec`: the `for (;;)`
of `main` goes on and due alarms are served; the PC and the player owe nothing.
`GamepadLoop!FairSpec`: the loop goes on and the host polls a full endpoint while the
bus is up, as a USB host does at the interval of the descriptor; bus, controllers and
players owe nothing.  `OtaUpdate!FairSpec`: the program runs and time passes; network
and server owe nothing, every wait has its deadline.  `SetupSerial!FairSpec`: the main
loop goes on, a terminal sends the rest of a line it has begun and reads what has
arrived; it need not ask, nor stay.  `HttpReply` has no liveness of its own: that a
request ends is a matter of its deadline, in `OtaUpdate`.

## 4. Proofs

For every value of the constants that satisfies the assumptions of the module.

* `PcPowerHalProofs`: `TypeOK`, `ButtonNeverStuck`, `TimerAsAsked`, `NoAlarmLeft`.
  None of them is inductive: they speak of `pc = "idle"` and are broken in the
  middle of a call.  `HalInv` adds, per statement, what is known of the alarm in
  the pool and of the handle: after the cancellation no alarm of that kind is
  pending until the new one is added, elsewhere line, handle and alarm agree.
  The pool has room for both alarms (`AlarmIdAssumption`): with a full pool the
  theorem is false, `add_alarm_in_ms` returns -1 and the line stays high.
  `Refinement`: every step of `PcPowerHal` is a step of `PowerHalSpec` or leaves its
  variables alone.  The mapped line and timer are functions of the program counter
  (`LineValue`, `TimerValue`); `HalInv` supplies what is pending at each statement.
* `LedLoopProofs`: `TypeOK`, `EdgeIsTimely`, `EdgeOnlyWhenStable`.  `LedInv` relates
  the three times in use (clock, copy, time of change) without wrapping; the
  assumption is that the stable time plus one pass is less than the clock's range.
* `PowerLoopProofs`: `TypeOK`, `TimerMatchesState`, `OnOnlyIfMounted`,
  `NoPulseInHoldoff`.  `LoopInv` consists of the first, the third and `PowerInv`, which
  has the types of the state machine and the HAL, `TimerMatchesState` (the boot timer is
  armed, or its expiry waiting, exactly in BOOTING) and `HoldoffInv`: in a hold-off the
  machine is BOOTING and the timer has at least as long to run.  `NoPulseInHoldoff`
  says nothing about either and is not inductive: a wake request is refused because
  of the state, not of the time.
* `GamepadProofs`: `TypeOK`, `NoTornReport`, `NoGhostInput`, `PcReadsPad`,
  `OneWakePerPress`, for any number of controllers and whatever they send in Bluepad32's
  ranges.  `ReportMeans` is about the conversions alone: the report on the wire means, by
  the descriptor, what the controller said; no axis overflows.  `LoopInv` adds to the
  properties where the loop is: in the critical section the first half of the copy is
  the slot's, behind it the copy is a report as a whole; and `fresh` says why a guide
  button may be taken for a press.  No step of `OneWakePerPress` can be seen from the
  state alone.
* `FlashDownloadProofs`: the four properties of the writer, for every sector size,
  partition and stream.  `WriterInv` adds to them the types, that the offset is a
  whole number of sectors from the start (`Aligned`) and what room the buffer has
  (`Room`); the central lemma, `SectorLands`, is that a flush puts the buffered bytes
  where they are in the stream and leaves the flushed ones alone.
* `HttpProofs`: `TypeOK`, `HeadSeen`, `NothingLost` and the refinement
  `ImplementsStream`, for all sizes of the buffers, all replies and all cuts.
  `HttpInv` says that before the end of the head `hdr_buf` is what has been processed
  of it, as far as it fits, and that behind it status and location are those of the
  reply.  The assumption on replies is that a head ends with its only empty line.
* `OtaProofs`: `CompareIsOrder` and `ParseMeans` are about versions alone: the
  comparison is the lexicographic order, and whatever text is parsed, the result is the
  version that the text means (`ParseInRange`: with every number in 16 bits).  For the
  update: `TypeOK`, `FallbackUntouched`, `NoDowngrade`, `DownloadsTagged` and
  `BootsAsset`, whatever the sizes of sectors and partitions, assets, releases and
  detours.  `Inv` has five parts: the types; that the
  writer's state is typed (`WriterTypes`); that outside a trial the image that runs is
  the one bought, and an image on trial or to be booted is newer than it (`RomInv`);
  that the writer's window is the target partition and its release is newer than the
  running one as long as a download goes on (`DownloadInv`); and what the context
  may hold (`HttpInv`).  `FallbackUntouched` needs all: the flash is written by a
  callback that knows addresses only.
  For `DownloadsTagged`, `AskInv` adds where main and the callbacks meet (`RequestInv`:
  a request that is complete without an error was closed by the server, a status is the
  reply's, nothing is in hand after an error) and that `api_buf` is the beginning of one
  reply, cut anywhere (`ApiInv`).  `TagIsBeginning` says that what is parsed is the tag, or
  as much as fits; that it means the version is `ParseMeans`.  The assumption is `UrlFollows`: in a release the
  first URL behind the name `padproxy.bin`, if there is one, is that file's.
  For `BootsAsset`, `ImageInv` adds that the stream taken so far is in the flash, then
  in the sector buffer, then in the chunk in hand (`Landed`), and that as long as
  nothing is flawed it is followed by what the server has still to send (`AssetInv`);
  `SectorLands` carries it through a flush, `ChunkLands` through a callback, and
  `FinishImage` through the last flush, the only step that asks for a reboot.  The
  assumption is that a detour with status 200 is one whose headers never end: a server
  that answers 200 with something else than the asset is not told from one with it.
* `SetupProofs`: `SavedConfigSurvives`, `TypeOK`, which has the bound of the line
  buffer, `AsAsked` and `AnswersFit`, for all limits, names, checksums and sizes of the
  buffers, all requests of the assumption above and any number of them ahead.
  `ConfigInv` (the configuration has its fields and `device_config_validate` accepts
  it) is kept by every command, since each leaves the configuration alone, resets it,
  or sets a value that `cmd_set` has checked; `RoundTrip` says that such a configuration
  comes back unchanged.  Nothing is needed of how a line is split.

  For the other two, `CommandMeans` says that a line in the buffer, with the blanks of
  its ending or cut at `CDC_LINE_MAX - 1`, is carried out and answered as asked:
  `WordAndRest` and `StrippedEnds` undo what `Line` puts together, `NumberMeans` that
  `parse_u16` finds in a text what it denotes or refuses it.  Neither property is
  inductive, or says anything while a line is under way.  The invariant is `Joining` and
  `InStep`.  `InStep`: there is a sequence of answers, all that have been due since the
  terminal was in sync, such that the characters in the port and those still to be typed,
  taken one by one as `poll_cdc_setup` takes them (`After`), lead from the line
  collected, the configuration and the number of answers given to an empty line, the
  configuration `wanted` and all answers, each at its turn (`Leads`); and as long as none
  was cut, the port holds those given and not read, and `pending` those not read.
  `Joining`: a terminal that has just come has only its line end under way, or the line
  is empty.  A question appends a line to what is under way (`LeadsLine`: from an empty
  line, its characters lead to what it means; `LeadsOn`), a round of the loop takes the
  first character (`LeadsTail`), typing moves a character (`MovedOn`).  At the end, when
  nothing is under way, `Leads` is equality, which is `AsAsked`.  That an answer is cut
  only if those due do not fit is a matter of the sums of their sizes (`TakenGrows`).
  What is recursive is a function, and facts about all its arguments are proved with
  the least argument for which they fail (`LeastNumber`).

Model-checked only: what holds under fairness (`ButtonReleased`, `BootingEnds`,
`PressWakes`, `HostSeesRest`, `UpdateEnds`, `AnswersCome`).  Liveness and ENABLED are
beyond the prover.  Every invariant and action property of the passing runs has its
theorem.

## 5. Plan and what is not modelled

The parts of the plan are done: power state machine, HAL, debouncer, the two halves of
the loop, report conversions, the flash writer, the HTTPS client and the update,
versions, configuration and setup line, with the proofs of section 4.  What could come
next:

1. A composition of `SetupSerial` with `PowerLoop`: a `set` between a pulse and the
   next.  It is covered by letting each pulse have any allowed length.
2. Commands with more parts than they have in the documents as requests of the
   terminal: the code takes `list` with an argument for `list` and refuses `get` with
   two; the model does the same, no request asks it.

Not modelled, and why:

* The text of a URL (`parse_url`), the blanks between a key of the JSON and its value,
  and a URL longer than 511 characters: character by character, and of no consequence
  beyond "refused" or "another page", which the model has.
* Wi-Fi, TLS and DNS, except that they fail or not, at each of their steps.
* Result codes of the update and the name tables: `main` prints them only.
* `bt_gamepad_set_pairing`, `bt_gamepad_is_connected`: nothing calls them.
* USB descriptors, except the ranges of the report descriptor; logging; CRC-32 (a
  checksum that is any function).
* The inside of TinyUSB, Bluepad32, lwIP and the SDK: environment, as the code uses it.
* Documents, tests, board, enclosure and build: no program logic.  Documents and tests
  were read as statements about the program.
