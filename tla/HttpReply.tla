----------------------------- MODULE HttpReply -----------------------------
(***************************************************************************)
(* How the HTTPS client of firmware/src/ota_update.c reads a reply: bytes  *)
(* arrive in chains of pbufs cut anywhere, process_data collects the head  *)
(* in hdr_buf until it has seen an empty line, looks for the status and    *)
(* the redirect in it, and hands what follows to body_cb or body_buf.  One *)
(* context serves request after request.                                   *)
(*                                                                         *)
(* A byte stands for itself or for a word: a number, a header's name.      *)
(* Names, connections and the deadline are in OtaUpdate; here a request    *)
(* is answered, and is given up or fails at any time.                      *)
(***************************************************************************)
EXTENDS Integers, Sequences, FiniteSetsExt

CONSTANTS
    Replies,       \* [head, body, status, location]: what the server may send
    HDR_SIZE,      \* sizeof(hdr_buf)
    LOCATION_SIZE, \* sizeof(location)
    body_cap       \* the size of body_buf

\* CR LF CR LF: the empty line that ends a head.
EndsHead(hdr) ==
    /\ Len(hdr) >= 4
    /\ SubSeq(hdr, Len(hdr) - 3, Len(hdr)) = <<"CR", "LF", "CR", "LF">>

atoi(word) ==
    CASE word = "200" -> 200 [] word = "302" -> 302 [] word = "404" -> 404
      [] OTHER -> 0

Places(hdr, byte) == {i \in 1 .. Len(hdr) : hdr[i] = byte}

\* The word behind the first space.
parse_status_code(hdr) ==
    LET spaces == Places(hdr, "SP")
    IN  IF spaces = {} \/ Min(spaces) = Len(hdr) THEN 0
        ELSE atoi(hdr[Min(spaces) + 1])

LineEnds(hdr) ==
    {i \in 1 .. Len(hdr) - 1 : hdr[i] = "CR" /\ hdr[i + 1] = "LF"}

\* The lines of a header begin after the end of another.
LinesOf(hdr, key) ==
    {i \in {1} \cup {e + 2 : e \in LineEnds(hdr)} :
        i + 1 <= Len(hdr) /\ hdr[i] = key /\ hdr[i + 1] = ":"}

Cut(value, size) == SubSeq(value, 1, IF Len(value) < size THEN Len(value) ELSE size - 1)

\* The value of the first such line, or what the buffer had before.
find_header(hdr, key, before, size) ==
    IF LinesOf(hdr, key) = {} THEN before
    ELSE LET colon == Min(LinesOf(hdr, key)) + 1
             first == Min({i \in colon + 1 .. Len(hdr) + 1 :
                              i = Len(hdr) + 1 \/ hdr[i] # "SP"})
             last  == Min({i \in LineEnds(hdr) : i >= first} \cup {Len(hdr) + 1}) - 1
         IN  Cut(SubSeq(hdr, first, last), size)

\* A head ends with its only empty line, and says what the reply does.
ASSUME ReplyAssumption ==
    /\ HDR_SIZE \in Nat \ {0}
    /\ LOCATION_SIZE \in Nat \ {0}
    /\ body_cap \in Nat \ {0}
    /\ \A r \in Replies :
          /\ r.head \in Seq(STRING) /\ r.body \in Seq(STRING)
          /\ \A n \in 0 .. Len(r.head) :
                EndsHead(SubSeq(r.head, 1, n)) <=> n = Len(r.head)
          /\ parse_status_code(r.head) = r.status
          /\ r.location \in Seq(STRING)
          /\ find_header(r.head, "Location", <<>>, LOCATION_SIZE)
                = Cut(r.location, LOCATION_SIZE)

VARIABLES
    mode,          \* http_ctx_t: body_buf is set ("buffer") or body_cb
    hdr_buf, headers_done, status_code, location,
    body,          \* body_buf, or what body_cb has been given
    error, complete,
    reply,         \* the server's answer
    pos,           \* how many of its bytes process_data has had
    pbufs          \* http_recv_cb: where those end that it has not had

headVars == <<hdr_buf, headers_done, status_code, location>>
vars == <<mode, headVars, body, error, complete, reply, pos, pbufs>>

Bytes == reply.head \o reply.body

Modes == {"buffer", "stream"}

\* https_get clears the context, and the server answers.
Init ==
    /\ mode \in Modes
    /\ hdr_buf = <<>> /\ headers_done = FALSE
    /\ status_code = 0 /\ location = <<>>
    /\ body = <<>>
    /\ error = FALSE /\ complete = FALSE
    /\ reply \in Replies /\ pos = 0 /\ pbufs = <<>>

\* Faulty variant: the last head stays in the buffer.
ClearedHead_keeps == hdr_buf

\* hdr_len is set to zero.
ClearedHead == <<>>

\* The next request, on the context of the last, which has ended or was
\* given up.
https_get ==
    /\ pbufs = <<>>
    /\ mode' \in Modes
    /\ hdr_buf' = ClearedHead /\ headers_done' = FALSE
    /\ status_code' = 0 /\ location' = <<>>
    /\ body' = <<>>
    /\ error' = FALSE /\ complete' = FALSE
    /\ reply' \in Replies /\ pos' = 0
    /\ UNCHANGED pbufs

-----------------------------------------------------------------------------
(* lwIP: a segment, in one pbuf or two, and the ends of a connection.      *)

\* Where a chain of pbufs may end that goes on after byte p of n.
Chains(p, n) ==
    UNION {{<<e>>} \cup {<<k, e>> : k \in p + 1 .. e - 1} : e \in p + 1 .. n}

http_recv_cb ==
    /\ pbufs = <<>>
    /\ ~error /\ ~complete
    /\ pbufs' \in Chains(pos, Len(Bytes))
    /\ UNCHANGED <<mode, headVars, body, error, complete, reply, pos>>

http_recv_cb_closed ==
    /\ pbufs = <<>>
    /\ ~error /\ ~complete
    /\ complete' = TRUE
    /\ UNCHANGED <<mode, headVars, body, error, reply, pos, pbufs>>

http_err_cb ==
    /\ pbufs = <<>>
    /\ error' = TRUE
    /\ UNCHANGED <<mode, headVars, body, complete, reply, pos, pbufs>>

-----------------------------------------------------------------------------
(* process_data.                                                           *)

\* process_data has had the bytes up to n, and goes to the next pbuf.
Consume(n) ==
    /\ pos' = n
    /\ pbufs' = IF n = pbufs[1] THEN Tail(pbufs) ELSE pbufs

\* Faulty variant: no byte is left for the NUL.
Store_all(hdr, byte) ==
    IF Len(hdr) < HDR_SIZE THEN Append(hdr, byte) ELSE hdr

\* Faulty variant: a byte too few.
Store_short(hdr, byte) ==
    IF Len(hdr) < HDR_SIZE - 2 THEN Append(hdr, byte) ELSE hdr

\* There is always room for the NUL; what does not fit is dropped.
Store(hdr, byte) ==
    IF Len(hdr) < HDR_SIZE - 1 THEN Append(hdr, byte) ELSE hdr

\* Faulty variant: what follows a head in its pbuf is lost.
Offset_drops == IF headers_done' THEN pbufs[1] ELSE pos + 1

\* The loop stops behind the head.
Offset == pos + 1

\* A round of the loop over the head.
process_data_head ==
    /\ pbufs # <<>>
    /\ ~error /\ ~complete
    /\ ~headers_done
    /\ hdr_buf' = Store(hdr_buf, Bytes[pos + 1])
    /\ headers_done' = EndsHead(hdr_buf')
    /\ IF headers_done'
       THEN /\ status_code' = parse_status_code(hdr_buf')
            /\ location' = find_header(hdr_buf', "Location", location,
                                       LOCATION_SIZE)
       ELSE UNCHANGED <<status_code, location>>
    /\ Consume(Offset)
    /\ UNCHANGED <<mode, body, error, complete, reply>>

\* How far body_buf, with its NUL, lets the bytes of this pbuf go.
Room == IF body_cap - 1 - Len(body) < pbufs[1] - pos
        THEN pos + (body_cap - 1 - Len(body)) ELSE pbufs[1]

\* What is left of the pbuf is body: body_cb may refuse it.
process_data_body ==
    /\ pbufs # <<>>
    /\ ~error /\ ~complete
    /\ headers_done
    /\ IF mode = "stream"
       THEN body' = body \o SubSeq(Bytes, pos + 1, pbufs[1]) /\ error' \in BOOLEAN
       ELSE body' = body \o SubSeq(Bytes, pos + 1, Room) /\ UNCHANGED error
    /\ Consume(pbufs[1])
    /\ UNCHANGED <<mode, headVars, complete, reply>>

\* After an error the other pbufs of the chain are not looked at.
process_data_ignores ==
    /\ pbufs # <<>>
    /\ error \/ complete
    /\ Consume(pbufs[1])
    /\ UNCHANGED <<mode, headVars, body, error, complete, reply>>

Next ==
    \/ https_get \/ http_recv_cb \/ http_recv_cb_closed \/ http_err_cb
    \/ process_data_head \/ process_data_body \/ process_data_ignores

Spec == Init /\ [][Next]_vars

-----------------------------------------------------------------------------
(* Properties.                                                             *)

TypeOK ==
    /\ mode \in Modes
    /\ Len(hdr_buf) < HDR_SIZE
    /\ headers_done \in BOOLEAN /\ error \in BOOLEAN /\ complete \in BOOLEAN
    /\ status_code \in {0, 200, 302, 404}
    /\ Len(location) < LOCATION_SIZE
    /\ mode = "buffer" => Len(body) < body_cap
    /\ reply \in Replies
    /\ pos \in 0 .. Len(Bytes)
    /\ pbufs \in {<<>>} \cup Chains(pos, Len(Bytes))

Fits(r) == Len(r.head) < HDR_SIZE

\* How much of n bytes a request takes.
Taken(m, n) == IF m = "buffer" /\ n >= body_cap THEN body_cap - 1 ELSE n

\* The end of a head is seen wherever it is cut, if the head fits, and is
\* never seen anywhere else (ota_update.c:265-283).
HeadSeen == headers_done <=> Fits(reply) /\ pos >= Len(reply.head)

\* Nothing of a body is lost at the border to the head or between two pbufs:
\* all that has been processed has been handed on, or as much as body_buf
\* holds (ota_update.c:285-304).
NothingLost ==
    ~error => body = SubSeq(reply.body, 1,
                            IF headers_done THEN Taken(mode, pos - Len(reply.head))
                            ELSE 0)

LocationOf(r) == Cut(r.location, LOCATION_SIZE)

Stream == INSTANCE HttpStream WITH
              Replies <- Replies, Fits <- Fits, Location <- LocationOf,
              Taken <- Taken, mode <- mode, reply <- reply,
              headers_done <- headers_done, status_code <- status_code,
              location <- location, body <- body, error <- error,
              complete <- complete

\* The client keeps its promise: the reply to this request, and no other
\* (ota_update.c:385-396, :352-372).
ImplementsStream == Stream!Spec

=============================================================================
