----------------------------- MODULE OtaUpdate -----------------------------
(***************************************************************************)
(* The update over Wi-Fi, firmware/src/ota_update.c, from the acceptance   *)
(* of the running image to the reboot into the next one, with the network, *)
(* the server, the boot ROM and the power supply as environment.           *)
(*                                                                         *)
(* A reply is [status, location, fits, body]: where it redirects to ("url",*)
(* "bad" for what parse_url refuses, "none"), whether its headers fit into *)
(* hdr_buf, and the body.  The answer to the release query is JSON: of its *)
(* strings the body has those main looks for, [part, text] with part "tag" *)
(* (tag_name), "name" or "url" (browser_download_url).  The answer to the  *)
(* download is the file.  A URL is what it leads to: "api", "bin" (the     *)
(* asset), "other" (another file), or "bad".  lwIP runs its callbacks      *)
(* inside cyw43_arch_poll, any number of them between two looks of         *)
(* https_get at complete, error and the deadline.                          *)
(***************************************************************************)
EXTENDS OtaVersion, FlashWriter

CONSTANTS
    PartSectors,   \* the sectors of a partition
    Versions,      \* the versions there are
    Asset,         \* padproxy.bin of the release that is read as this version
    Installed,     \* the versions the device may come with
    Releases,      \* what the release query may answer
    Detours,       \* replies that lead to another page or to an error page
    ApiCap,        \* how many strings of a release fit into api_buf
    TAG_MAX,       \* the size of tag, its terminator included
    MAX_REDIRECTS

\* What main looks for in a release.
String == [part : {"tag", "name", "other"}, text : Text]
            \cup [part : {"url"}, text : {<<"bin">>, <<"other">>, <<"bad">>}]

\* The URL next to the asset's name, if there is one, is not another file's.
AssetName == [part |-> "name", text |-> <<"padproxy.bin">>]

UrlFollows(strings) ==
    \A i, j \in 1 .. Len(strings) :
        /\ i < j /\ strings[i] = AssetName /\ strings[j].part = "url"
        /\ \A k \in i + 1 .. j - 1 : strings[k].part # "url"
        => strings[j].text # <<"other">>

Partition == {"A", "B"}
First(p) == IF p = "A" THEN 0 ELSE PartSectors
Last(p)  == First(p) + PartSectors - 1
AddrsOf(p) == (First(p) * SectorSize) .. (Last(p) * SectorSize + SectorSize - 1)

ASSUME OtaAssumption ==
    /\ Versions \subseteq Version
    /\ Installed \subseteq Versions
    /\ \A v \in Versions : Asset[v] \in Seq(Byte) /\ Asset[v] # <<>>
    /\ PartSectors \in Nat \ {0}
    /\ Addr = AddrsOf("A") \cup AddrsOf("B")
    /\ ApiCap \in Nat
    /\ TAG_MAX \in Nat \ {0}
    /\ Releases \subseteq Seq(String)
    /\ Detours \subseteq [status : {200, 302, 404}, location : {"none", "url", "bad"},
                           fits : BOOLEAN, body : Seq(Byte)]
    /\ \A release \in Releases : UrlFollows(release)
    /\ \A detour \in Detours : detour.status = 200 => ~detour.fits
    /\ MAX_REDIRECTS \in Nat \ {0}

VARIABLES
    bought,          \* boot ROM: the partition it starts after a reset
    running,         \* boot ROM: the partition that runs
    reboot_pending,  \* boot ROM: a flash-update reboot has been asked for
    image,           \* the version of the image in each partition, as its
                     \* release was read
    pc,              \* the next statement of main
    body_cb,         \* where a body goes: "api_buf" or "flash"
    url,             \* https_get_follow: current_url
    hops,            \* https_get_follow: i
    complete, error, headers_done, status_code, location,   \* http_ctx_t
    body_len, api_buf,
    late,            \* the deadline has passed
    remote_ver,      \* the release to download
    conn,            \* the connection
    reply,           \* the server's answer, and what is to come of it
    flaws            \* history: what this download has taken for good

\* rom_get_uf2_target_partition: the partition that does not run.
target == IF running = "A" THEN "B" ELSE "A"

romVars    == <<bought, running, reboot_pending, image>>
followVars == <<body_cb, url, hops, remote_ver>>
bodyVars   == <<body_len, api_buf>>
headVars   == <<headers_done, status_code, location>>
ctxVars    == <<complete, error, headVars, bodyVars>>
netVars    == <<conn, reply, flaws>>
vars == <<romVars, pc, followVars, ctxVars, late, netVars, fwVars>>

TypeOK ==
    /\ bought \in Partition /\ running \in Partition
    /\ reboot_pending \in BOOLEAN
    /\ image \in [Partition -> Version]
    /\ pc \in {"boot", "check", "url", "dns", "wait", "response", "release",
               "finish", "main"}
    /\ body_cb \in {"api_buf", "flash"}
    /\ url \in {"api", "bin", "other", "bad"}
    /\ hops \in 0 .. MAX_REDIRECTS
    /\ complete \in BOOLEAN /\ error \in BOOLEAN /\ late \in BOOLEAN
    /\ headers_done \in BOOLEAN
    /\ status_code \in {0, 200, 302, 404}
    /\ location \in {"none", "url", "bad"}
    /\ body_len \in {0, Len(api_buf)} /\ Len(api_buf) <= ApiCap
    /\ remote_ver \in Version
    /\ conn \in {"none", "connecting", "open", "closing"}
    /\ flaws \subseteq {"cut", "redirect"}
    /\ flash \in [Addr -> Byte]
    /\ sector_buf \in Seq(Byte) /\ Len(sector_buf) <= SectorSize
    /\ total_written \in Nat
    /\ fw_error \in BOOLEAN

NoReply == [status |-> 0, location |-> "none", fits |-> TRUE, body |-> <<>>]

\* A partition that starts with this image.
Holds(p, data) ==
    \A i \in 1 .. Len(data) : flash[First(p) * SectorSize + i - 1] = data[i]

\* The device as it was flashed over USB, with the same image twice.
Init ==
    /\ pc = "boot"
    /\ body_cb = "api_buf" /\ url = "api" /\ hops = 0
    /\ complete = FALSE /\ error = FALSE /\ headers_done = FALSE
    /\ late = FALSE
    /\ status_code = 0 /\ location = "none"
    /\ body_len = 0 /\ api_buf = <<>>
    /\ conn = "none" /\ reply = NoReply /\ flaws = {}
    /\ flash_offset = 0 /\ partition_end = 0 /\ sector_buf = <<>>
    /\ total_written = 0 /\ fw_error = FALSE
    /\ input = <<>> /\ start = 0 /\ stream = <<>>
    /\ bought \in Partition /\ running = bought /\ reboot_pending = FALSE
    /\ \E v \in Installed :
          /\ image = [p \in Partition |-> v]
          /\ remote_ver = v
          /\ flash = [a \in Addr |->
                LET i == (a % (PartSectors * SectorSize)) + 1
                IN  IF i <= Len(Asset[v]) THEN Asset[v][i] ELSE Erased]

-----------------------------------------------------------------------------
(* main and ota_update_check_and_apply, up to the first request.           *)

ota_accept_current_image ==
    /\ pc = "boot"
    /\ bought' = running
    /\ pc' = "check"
    /\ UNCHANGED <<running, reboot_pending, image, followVars, ctxVars, late,
                   netVars, fwVars>>

\* "goto cleanup" and every return that is no update: main goes on.
Return ==
    /\ pc' = "main"
    /\ conn' = "none"
    /\ UNCHANGED <<romVars, followVars, ctxVars, late, reply, flaws, fwVars>>

\* The call of https_get_follow, after a memset of the context.
https_get_follow(cb, page) ==
    /\ pc' = "url"
    /\ body_cb' = cb
    /\ url' = page
    /\ hops' = 0

\* No SSID, no partition table, no Wi-Fi; or the release is asked for.
ota_update_check_and_apply ==
    /\ pc = "check"
    /\ \/ Return
       \/ /\ https_get_follow("api_buf", "api")
          /\ UNCHANGED <<romVars, remote_ver, ctxVars, late, netVars, fwVars>>

-----------------------------------------------------------------------------
(* https_get_follow and https_get.                                         *)

\* Faulty variant: one redirect too many.
LastHop_off_by_one == hops > MAX_REDIRECTS

\* The bound of https_get_follow's loop.
LastHop == hops = MAX_REDIRECTS

\* The head of the loop, and https_get up to the query of the name, which
\* may be answered at once.
https_get ==
    /\ pc = "url"
    /\ IF LastHop \/ url = "bad"
       THEN Return
       ELSE /\ headers_done' = FALSE /\ status_code' = 0 /\ location' = "none"
            /\ body_len' = 0
            /\ complete' = FALSE /\ error' = FALSE /\ late' = FALSE
            /\ \/ pc' = "main" /\ UNCHANGED conn       \* no TLS, no DNS
               \/ pc' = "dns"  /\ UNCHANGED conn       \* ERR_INPROGRESS
               \/ pc' = "wait" /\ conn' = "connecting" \* cached
            /\ UNCHANGED <<romVars, followVars, api_buf, reply, flaws, fwVars>>

\* dns_found_cb, and what follows: the request fails, or it connects.
dns_found_cb ==
    /\ pc = "dns"
    /\ \/ Return
       \/ /\ pc' = "wait"
          /\ conn' = "connecting"
          /\ UNCHANGED <<romVars, followVars, ctxVars, late, reply, flaws,
                         fwVars>>

dns_timeout == pc = "dns" /\ late /\ Return

\* Faulty variant: the body may take as long as it likes.
GivesUp_on_error_only == error

\* What ends the loop of https_get without a reply.
GivesUp == error \/ late

\* The loop of https_get: it ends with the request or with the deadline.
http_wait ==
    /\ pc = "wait"
    /\ input = <<>>
    /\ IF complete /\ ~error
       THEN /\ pc' = "response"
            /\ conn' = "none"
            /\ UNCHANGED <<romVars, followVars, ctxVars, late, reply, flaws,
                           fwVars>>
       ELSE GivesUp /\ Return

\* https_get_follow: a redirect is followed.
http_response ==
    /\ pc = "response"
    /\ IF status_code \in 300 .. 399 /\ location # "none"
       THEN /\ url' = IF location = "url" THEN url ELSE "bad"
            /\ hops' = hops + 1
            /\ body_len' = 0
            /\ pc' = "url"
            /\ UNCHANGED <<body_cb, remote_ver, api_buf>>
       ELSE /\ pc' = IF body_cb = "api_buf" THEN "release" ELSE "finish"
            /\ UNCHANGED <<followVars, bodyVars>>
    /\ UNCHANGED <<romVars, complete, error, headVars, late, netVars, fwVars>>

-----------------------------------------------------------------------------
(* lwIP's callbacks, the server and the clock.                             *)

\* What the server may answer with: a release, or the file; or a detour,
\* whose page holds nothing main looks for.
Page(body) == [status |-> 200, location |-> "none", fits |-> TRUE,
               body |-> body]

Answers ==
    CASE url = "bin"   -> {Page(Asset[v]) : v \in Versions \cap {remote_ver}} \cup Detours
      [] url = "other" -> {Page(<<Erased>>)} \cup Detours
      [] OTHER ->
            {Page(release) : release \in Releases}
            \cup {[d EXCEPT !.body = [i \in DOMAIN @ |-> [part |-> "other", text |-> <<>>]]] :
                     d \in Detours}

\* http_connected_cb: the connection fails, the request cannot be written,
\* or the server begins to answer.
http_connected_cb ==
    /\ pc = "wait"
    /\ conn = "connecting"
    /\ \/ /\ error' = TRUE
          /\ conn' = "none"
          /\ UNCHANGED reply
       \/ /\ conn' = "open"
          /\ reply' \in Answers
          /\ UNCHANGED error
    /\ UNCHANGED <<romVars, pc, followVars, complete, headVars, bodyVars, late,
                   flaws, fwVars>>

\* process_data drops what comes after an error; headers that do not fit
\* into hdr_buf never end, and swallow the rest.
Ignored == error \/ complete \/ ~reply.fits

\* process_data, with the headers complete and data behind them.
process_data(data) ==
    IF Ignored
    THEN UNCHANGED <<headVars, bodyVars, fwVars, flaws>>
    ELSE /\ headers_done' = TRUE
         /\ status_code' = reply.status
         /\ location' = reply.location
         /\ IF body_cb = "flash" /\ data # <<>>
            THEN /\ flash_write_call(data)
                 /\ flaws' = IF reply.status = 302 THEN flaws \cup {"redirect"}
                             ELSE flaws
            ELSE UNCHANGED <<fwVars, flaws>>
         /\ IF body_cb = "api_buf" /\ data # <<>>
            THEN LET got == SubSeq(api_buf, 1, body_len) \o data
                 IN  /\ body_len' = IF Len(got) < ApiCap THEN Len(got) ELSE ApiCap
                     /\ api_buf' = SubSeq(got, 1, body_len')
            ELSE UNCHANGED bodyVars

\* http_recv_cb with data: the headers, or more of the body, or both.
http_recv_cb ==
    /\ pc = "wait"
    /\ conn = "open"
    /\ input = <<>>
    /\ \E n \in (IF headers_done THEN 1 ELSE 0) .. Len(reply.body) :
          /\ process_data(SubSeq(reply.body, 1, n))
          /\ reply' = [reply EXCEPT !.body = SubSeq(@, n + 1, Len(@))]
    /\ UNCHANGED <<romVars, pc, followVars, complete, error, late, conn>>

\* The streaming callback of process_data, a round of its loop.
body_callback ==
    /\ flash_write_cb
    /\ error' = fw_error'
    /\ UNCHANGED <<romVars, pc, followVars, complete, headVars, bodyVars, late,
                   netVars>>

\* http_recv_cb without data: the peer has closed, at the end or before.
http_recv_cb_closed ==
    /\ pc = "wait"
    /\ conn = "open"
    /\ input = <<>>
    /\ complete' = TRUE
    /\ conn' = "closing"
    /\ flaws' = IF body_cb = "flash" /\ reply.status = 200 /\ reply.body # <<>>
                THEN flaws \cup {"cut"} ELSE flaws
    /\ UNCHANGED <<romVars, pc, followVars, error, headVars, bodyVars, late,
                   reply, fwVars>>

http_err_cb ==
    /\ pc = "wait"
    /\ conn # "none"
    /\ input = <<>>
    /\ error' = TRUE
    /\ conn' = "none"
    /\ UNCHANGED <<romVars, pc, followVars, complete, headVars, bodyVars, late,
                   reply, flaws, fwVars>>

DeadlinePasses ==
    /\ pc \in {"dns", "wait"}
    /\ ~late
    /\ late' = TRUE
    /\ UNCHANGED <<romVars, pc, followVars, ctxVars, netVars, fwVars>>

-----------------------------------------------------------------------------
(* ota_update_check_and_apply after a request.                             *)

\* strstr and strchr: the text of the first string of this kind from position
\* i on, empty if there is none.
TextOf(part, i) ==
    LET at == {j \in i .. Len(api_buf) : api_buf[j].part = part}
    IN  IF at = {} THEN <<>>
        ELSE api_buf[CHOOSE j \in at : \A k \in at : j <= k].text

\* The tag, of which tag has room for TAG_MAX - 1 characters.
json_find_string ==
    LET text == TextOf("tag", 1)
    IN  SubSeq(text, 1, IF Len(text) < TAG_MAX THEN Len(text) ELSE TAG_MAX - 1)

\* Faulty variant: the first file of the release is taken.
find_bin_asset_url_any == TextOf("url", 1)

\* The first URL behind the name of the asset.
find_bin_asset_url ==
    LET at == {j \in 1 .. Len(api_buf) :
                  api_buf[j] = AssetName}
    IN  IF at = {} THEN <<>>
        ELSE TextOf("url", CHOOSE j \in at : \A k \in at : j <= k)

\* Faulty variant: any answer will do.
Accepted_any == TRUE

\* A request counts only if it ended with this status.
Accepted == status_code = 200

\* Faulty variant: one sector too many.
PartitionSize_too_long(p) == (Last(p) - First(p) + 2) * SectorSize

\* find_target_partition: max_size.
PartitionSize(p) == (Last(p) - First(p) + 1) * SectorSize

\* Steps 2 and 3: the latest release, and whether it is newer.
check_release ==
    /\ pc = "release"
    /\ \E v \in {ota_version_parse(json_find_string)} :
          IF \/ ~Accepted
             \/ v = NoVersion
             \/ ota_version_compare(v, image[running]) <= 0
             \/ find_bin_asset_url = <<>>
          THEN Return
          ELSE /\ remote_ver' = v
               /\ flash_writer_init(First(target) * SectorSize,
                                    PartitionSize(target))
               /\ https_get_follow("flash", find_bin_asset_url[1])
               /\ flaws' = {}
               /\ UNCHANGED <<romVars, ctxVars, late, conn, reply, flash, input>>

\* Step 4 after the download, and step 6.  rom_reboot resets after 200 ms;
\* until then main may go on.
finish_download ==
    /\ pc = "finish"
    /\ pc' = "main"
    /\ IF Accepted THEN flash_writer_flush(sector_buf)
       ELSE UNCHANGED <<flash, flash_offset, sector_buf>>
    /\ reboot_pending' = /\ Accepted
                         /\ FlushSucceeds(sector_buf) /\ ~fw_error
                         /\ total_written > 0
    /\ image' = IF reboot_pending' THEN [image EXCEPT ![target] = remote_ver]
                ELSE image
    /\ UNCHANGED <<bought, running, followVars, ctxVars, late, netVars,
                   partition_end, total_written, fw_error, input, start, stream>>

-----------------------------------------------------------------------------
(* The boot ROM.                                                           *)

MemoryLost ==
    /\ pc' = "boot"
    /\ body_cb' = "api_buf" /\ url' = "api" /\ hops' = 0
    /\ complete' = FALSE /\ error' = FALSE /\ headers_done' = FALSE
    /\ late' = FALSE
    /\ status_code' = 0 /\ location' = "none"
    /\ body_len' = 0 /\ api_buf' = <<>>
    /\ conn' = "none" /\ reply' = NoReply /\ flaws' = {}
    /\ flash_offset' = 0 /\ partition_end' = 0 /\ sector_buf' = <<>>
    /\ total_written' = 0 /\ fw_error' = FALSE
    /\ input' = <<>> /\ start' = 0 /\ stream' = <<>>

\* The flash-update boot: the new image runs on trial.
FlashUpdateBoot ==
    /\ reboot_pending
    /\ running' = target
    /\ reboot_pending' = FALSE
    /\ MemoryLost
    /\ UNCHANGED <<bought, image, remote_ver, flash>>

\* A crash, the button, a power failure: back to the image that was bought.
Reset ==
    /\ running' = bought
    /\ reboot_pending' = FALSE
    /\ MemoryLost
    /\ UNCHANGED <<bought, image, remote_ver, flash>>

Main ==
    \/ ota_accept_current_image \/ ota_update_check_and_apply
    \/ https_get \/ dns_timeout \/ http_wait \/ http_response
    \/ body_callback \/ check_release \/ finish_download

Network ==
    \/ dns_found_cb \/ http_connected_cb \/ http_recv_cb
    \/ http_recv_cb_closed \/ http_err_cb

Rom == FlashUpdateBoot \/ Reset

Next == Main \/ Network \/ DeadlinePasses \/ Rom

Spec == Init /\ [][Next]_vars

\* The program runs and time passes.  The network owes nothing.
FairSpec == Spec /\ WF_vars(Main) /\ WF_vars(DeadlinePasses)

-----------------------------------------------------------------------------
(* Properties.                                                             *)

\* The image the boot ROM falls back to is never touched, whatever is
\* downloaded and whenever the power fails (ota_update.h: "safe,
\* rollback-capable updates").
FallbackUntouched ==
    [][\A a \in AddrsOf(bought) : flash'[a] = flash[a]]_vars

\* With a server that sends redirects without a body and connections that
\* end with the reply, what is booted is the whole asset of the release and
\* nothing else, however the download was cut into chunks.
BootsAsset ==
    reboot_pending /\ flaws = {} => Holds(target, Asset[remote_ver])

\* What is downloaded is the padproxy.bin of a release whose tag is this
\* version: no other file of the release, also if the asset's URL is cut off.
\* A tag that fits its buffer is read as a whole.  Of a longer one what fits
\* is read, in which the first two numbers are whole and the last may be cut.
DownloadsTagged ==
    [][body_cb' = "flash" /\ body_cb # "flash" =>
         /\ \E n \in 1 .. Len(TextOf("tag", 1)) :
               /\ Means(SubSeq(TextOf("tag", 1), 1, n), remote_ver')
               /\ \/ n = Len(TextOf("tag", 1))
                  \/ n = TAG_MAX - 1 /\ n < Len(TextOf("tag", 1))
         /\ url' \in {"bin", "bad"}]_vars

\* The permanent image is only ever replaced by a newer one: no chain of
\* updates and resets goes back, or installs a release again and again.
NoDowngrade ==
    [][/\ image'[bought] = image[bought]
       /\ bought' # bought => Precedes(image[bought], image'[bought'])]_vars

\* An update check ends, in the main loop or in a reset, whatever server
\* and network do or fail to do (ota_update.h: "a blocking call that may
\* take 10-60 seconds").
UpdateEnds == pc = "check" ~> pc \in {"main", "boot"}

\* ota_update.h:17: "download the .bin asset to the inactive partition" and
\* :18 "Issue a FLASH_UPDATE reboot into the new partition": whatever the
\* server sends and whenever the connection closes.
BootsOnlyAsset == reboot_pending => Holds(target, Asset[remote_ver])

=============================================================================
