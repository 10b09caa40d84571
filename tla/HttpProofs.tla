----------------------------- MODULE HttpProofs -----------------------------
(***************************************************************************)
(* Proofs about HttpReply: however a reply is cut into pbufs, and whatever *)
(* the sizes of the buffers, the client implements HttpStream.             *)
(***************************************************************************)
EXTENDS HttpReply, SequenceTheorems, TLAPS

\* How much of the first n bytes hdr_buf holds.
Held(n) == IF n < HDR_SIZE THEN n ELSE HDR_SIZE - 1

\* The bytes of a reply are those of its head and then those of its body.
LEMMA BytesOf ==
    ASSUME NEW r \in Replies
    PROVE  LET b == r.head \o r.body
           IN  /\ r.head \in Seq(STRING) /\ r.body \in Seq(STRING)
               /\ b \in Seq(STRING)
               /\ Len(b) = Len(r.head) + Len(r.body)
               /\ \A n \in 0 .. Len(r.head) : SubSeq(b, 1, n) = SubSeq(r.head, 1, n)
               /\ \A m, n \in Len(r.head) .. Len(b) :
                     SubSeq(b, m + 1, n)
                        = SubSeq(r.body, m - Len(r.head) + 1, n - Len(r.head))
<1> DEFINE h == r.head
           t == r.body
           b == h \o t
<1>1. h \in Seq(STRING) /\ t \in Seq(STRING)
  BY ReplyAssumption
<1> HIDE DEF h, t
<1>2. b \in Seq(STRING) /\ Len(b) = Len(h) + Len(t)
  BY <1>1
<1>3. Len(h) \in Nat /\ Len(t) \in Nat
  BY <1>1
<1>4. ASSUME NEW n \in 0 .. Len(h) PROVE SubSeq(b, 1, n) = SubSeq(h, 1, n)
  <2>1. CASE n = 0
    BY <2>1, <1>2, SubSeqEmpty
  <2>2. CASE n \in 1 .. Len(h)
    BY <2>2, <1>1, <1>3, SubSeqOfConcat1
  <2> QED
    BY <2>1, <2>2, <1>3
<1>5. ASSUME NEW m \in Len(h) .. Len(b), NEW n \in Len(h) .. Len(b)
      PROVE  SubSeq(b, m + 1, n) = SubSeq(t, m - Len(h) + 1, n - Len(h))
  <2>1. CASE n < m + 1
    <3>1. SubSeq(b, m + 1, n) = << >>
      BY <2>1, <1>2, <1>3, SubSeqEmpty
    <3>2. SubSeq(t, m - Len(h) + 1, n - Len(h)) = << >>
      BY <2>1, <1>2, <1>3, SubSeqEmpty
    <3> QED
      BY <3>1, <3>2
  <2>2. CASE m + 1 <= n
    <3>1. /\ m + 1 \in Len(h) + 1 .. Len(h) + Len(t)
          /\ n \in Len(h) + 1 .. Len(h) + Len(t)
      BY <2>2, <1>2, <1>3
    <3>2. SubSeq(b, m + 1, n) = SubSeq(t, (m + 1) - Len(h), n - Len(h))
      BY <3>1, <1>1, SubSeqOfConcat2
    <3> QED
      BY <3>2, <1>2, <1>3
  <2> QED
    BY <2>1, <2>2, <1>2, <1>3
<1> QED
  BY <1>1, <1>2, <1>4, <1>5 DEF h, t

\* A round of the loop adds a byte, or drops it.
LEMMA StoreHolds ==
    ASSUME NEW b \in Seq(STRING), NEW p \in 0 .. Len(b) - 1
    PROVE  /\ Store(SubSeq(b, 1, Held(p)), b[p + 1]) = SubSeq(b, 1, Held(p + 1))
           /\ SubSeq(b, 1, Held(p + 1)) \in Seq(STRING)
           /\ Len(SubSeq(b, 1, Held(p + 1))) = Held(p + 1)
<1>1. /\ HDR_SIZE \in Nat \ {0} /\ Len(b) \in Nat
      /\ Held(p) \in 0 .. p /\ Held(p + 1) \in 0 .. p + 1
  BY ReplyAssumption DEF Held
<1> DEFINE s == SubSeq(b, 1, Held(p))
<1>2. /\ s \in Seq(STRING) /\ Len(s) = Held(p)
  BY <1>1, SubSeqProperties, \A i \in 1 .. Held(p) : b[i] \in STRING
<1>3. /\ SubSeq(b, 1, Held(p + 1)) \in Seq(STRING)
      /\ Len(SubSeq(b, 1, Held(p + 1))) = Held(p + 1)
  <2>1. \A i \in 1 .. Held(p + 1) : b[i] \in STRING
    BY <1>1
  <2> QED
    BY <1>1, <2>1, SubSeqProperties
<1>4. CASE Held(p) < HDR_SIZE - 1
  <2>1. Held(p) = p /\ Held(p + 1) = p + 1
    BY <1>1, <1>4 DEF Held
  <2>2. SubSeq(b, 1, p + 1) = SubSeq(b, 1, p) \o <<b[p + 1]>>
    BY <1>1, SubSeqRecursiveSecond
  <2>3. Append(SubSeq(b, 1, p), b[p + 1]) = SubSeq(b, 1, p) \o <<b[p + 1]>>
    BY <1>2, <2>1, AppendIsConcat, b[p + 1] \in STRING
  <2> QED
    BY <1>2, <1>3, <1>4, <2>1, <2>2, <2>3 DEF Store
<1>5. CASE ~(Held(p) < HDR_SIZE - 1)
  <2>1. Held(p + 1) = Held(p)
    BY <1>1, <1>5 DEF Held
  <2> QED
    BY <1>2, <1>3, <1>5, <2>1 DEF Store
<1> QED
  BY <1>4, <1>5

\* The end of a head shows at its last byte, if the head fits.
LEMMA EndShows ==
    ASSUME NEW r \in Replies, NEW p \in Nat,
           p < Len(r.head) + Len(r.body),
           ~(Fits(r) /\ p >= Len(r.head))
    PROVE  EndsHead(SubSeq(r.head \o r.body, 1, Held(p + 1)))
             <=> Fits(r) /\ p + 1 >= Len(r.head)
<1>1. /\ HDR_SIZE \in Nat \ {0} /\ Len(r.head) \in Nat
      /\ \A n \in 0 .. Len(r.head) :
            EndsHead(SubSeq(r.head, 1, n)) <=> n = Len(r.head)
  BY ReplyAssumption
<1>2. Held(p + 1) \in 0 .. Len(r.head)
  BY <1>1 DEF Held, Fits
<1>3. EndsHead(SubSeq(r.head, 1, Held(p + 1))) <=> Held(p + 1) = Len(r.head)
  BY <1>1, <1>2
<1>4. Held(p + 1) = Len(r.head) <=> Fits(r) /\ p + 1 >= Len(r.head)
  BY <1>1 DEF Held, Fits
<1> QED
  BY <1>2, <1>3, <1>4, BytesOf

\* A head's status is one of those atoi knows.
LEMMA StatusKnown ==
    \A hdr : parse_status_code(hdr) \in {0, 200, 302, 404}
  BY DEF parse_status_code, atoi

\* Of a body that goes on from byte i to byte j, the part that is handed on
\* goes up to this byte.
Upto(m, i, j) ==
    IF m = "buffer" /\ body_cap - 1 - Taken(m, i) < j - i
    THEN i + (body_cap - 1 - Taken(m, i)) ELSE j

\* What is handed on with a pbuf follows on what was before.
LEMMA BodyGrows ==
    ASSUME NEW t \in Seq(STRING), NEW m \in Modes,
           NEW i \in Nat, NEW j \in Nat, i <= j, j <= Len(t)
    PROVE  /\ Upto(m, i, j) \in i .. j
           /\ Len(SubSeq(t, 1, Taken(m, i))) = Taken(m, i)
           /\ SubSeq(t, 1, Taken(m, i)) \o SubSeq(t, i + 1, Upto(m, i, j))
                = SubSeq(t, 1, Taken(m, j))
           /\ Len(SubSeq(t, 1, Taken(m, j))) = Taken(m, j)
<1> DEFINE k == Taken(m, i)
           n == Taken(m, j)
           b == SubSeq(t, 1, k)
           l == Upto(m, i, j)
<1>1. Len(t) \in Nat /\ body_cap \in Nat \ {0}
  BY ReplyAssumption
<1>2. k \in 0 .. i /\ n \in k .. j /\ (m = "buffer" => k < body_cap /\ n < body_cap)
  BY <1>1 DEF Taken
<1>3. \A x \in 1 .. n : t[x] \in STRING
  BY <1>1, <1>2
<1>4. Len(b) = k /\ Len(SubSeq(t, 1, n)) = n
  <2>1. \A x \in 1 .. k : t[x] \in STRING
    BY <1>2, <1>3
  <2> QED
    BY <1>2, <1>3, <2>1, SubSeqProperties
<1>5. SubSeq(t, 1, k) \o SubSeq(t, k + 1, n) = SubSeq(t, 1, n)
  <2>1. /\ 1 \in 1 .. Len(t) + 1 /\ k \in 1 - 1 .. Len(t)
        /\ n \in k .. Len(t)
    BY <1>1, <1>2
  <2> HIDE DEF k, n
  <2> QED
    BY <2>1, ConcatAdjacentSubSeq
<1>6. CASE k = i
  <2>1. l = n
    BY <1>1, <1>6 DEF Taken, Modes, Upto
  <2> QED
    BY <1>2, <1>4, <1>5, <1>6, <2>1
<1>7. CASE k # i
  <2>1. m = "buffer" /\ k = body_cap - 1 /\ n = body_cap - 1 /\ i >= body_cap
    BY <1>1, <1>7 DEF Taken, Modes
  <2>2. l = i
    BY <1>1, <2>1 DEF Upto
  <2>3. SubSeq(t, i + 1, i) = << >> /\ SubSeq(t, k + 1, n) = << >>
    BY <1>2, <2>1, SubSeqEmpty
  <2>4. i \in i .. j
    OBVIOUS
  <2>5. b \o SubSeq(t, i + 1, l) = SubSeq(t, 1, n)
    BY <1>5, <2>2, <2>3
  <2> QED
    BY <1>4, <2>2, <2>4, <2>5
<1> QED
  BY <1>6, <1>7

-----------------------------------------------------------------------------
(* The invariant.                                                          *)

\* Before the end of a head hdr_buf has what fits of it, and nothing has been
\* found in it; after that, the head's answers are there.
HeadInv ==
    IF headers_done
    THEN status_code = reply.status /\ location = LocationOf(reply)
    ELSE /\ hdr_buf = SubSeq(Bytes, 1, Held(pos))
         /\ status_code = 0 /\ location = << >> /\ body = << >>

\* Pbufs are left unread only after body_cb has refused a piece.
QueueInv ==
    /\ complete => pbufs = << >>
    /\ error /\ pbufs # << >> => headers_done

HttpInv == TypeOK /\ HeadSeen /\ NothingLost /\ HeadInv /\ QueueInv

\* location[] keeps its NUL.
LEMMA CutFits ==
    ASSUME NEW r \in Replies
    PROVE  Len(LocationOf(r)) < LOCATION_SIZE
<1>1. r.location \in Seq(STRING) /\ LOCATION_SIZE \in Nat \ {0}
  BY ReplyAssumption
<1> DEFINE v == r.location
           c == IF Len(v) < LOCATION_SIZE THEN Len(v) ELSE LOCATION_SIZE - 1
<1>2. c \in 0 .. Len(v) /\ c < LOCATION_SIZE
  BY <1>1
<1>3. \A x \in 1 .. c : v[x] \in STRING
  BY <1>1, <1>2
<1>4. Len(SubSeq(v, 1, c)) = c
  <2> HIDE DEF c
  <2> QED
    BY <1>2, <1>3, SubSeqProperties
<1> QED
  BY <1>2, <1>4 DEF LocationOf, Cut

\* Going on to byte n leaves the queue of pbufs in order.
LEMMA ConsumeKeeps ==
    ASSUME NEW total \in Nat, pos \in 0 .. total,
           pbufs \in Chains(pos, total),
           NEW n \in pos + 1 .. pbufs[1], Consume(n)
    PROVE  pos' = n /\ n \in 0 .. total /\ pbufs' \in {<<>>} \cup Chains(n, total)
<1>1. pos \in Nat /\ pos' = n
  BY DEF Consume
<1>2. PICK e \in pos + 1 .. total :
        pbufs = <<e>> \/ \E k \in pos + 1 .. e - 1 : pbufs = <<k, e>>
  BY DEF Chains
<1>3. CASE pbufs = <<e>>
  <2>1. n \in pos + 1 .. e /\ n \in 0 .. total
    BY <1>1, <1>2, <1>3
  <2>2. CASE n = e
    <3>1. pbufs' = << >>
      BY <1>3, <2>2 DEF Consume
    <3> QED
      BY <1>1, <2>1, <3>1
  <2>3. CASE n # e
    <3>1. pbufs' = <<e>> /\ e \in n + 1 .. total
      BY <1>1, <1>2, <1>3, <2>1, <2>3 DEF Consume
    <3> QED
      BY <1>1, <2>1, <3>1 DEF Chains
  <2> QED
    BY <2>2, <2>3
<1>4. ASSUME NEW k \in pos + 1 .. e - 1, pbufs = <<k, e>>
      PROVE  n \in 0 .. total /\ pbufs' \in Chains(n, total)
  <2>1. n \in pos + 1 .. k /\ n \in 0 .. total
    BY <1>1, <1>2, <1>4
  <2>2. CASE n = k
    <3>1. pbufs' = <<e>> /\ e \in n + 1 .. total
      BY <1>1, <1>2, <1>4, <2>2 DEF Consume
    <3> QED
      BY <1>1, <2>1, <3>1 DEF Chains
  <2>3. CASE n # k
    <3>1. pbufs' = <<k, e>> /\ e \in n + 1 .. total /\ k \in n + 1 .. e - 1
      BY <1>1, <1>2, <1>4, <2>1, <2>3 DEF Consume
    <3> QED
      BY <1>1, <2>1, <3>1 DEF Chains
  <2> QED
    BY <2>2, <2>3
<1> QED
  BY <1>1, <1>2, <1>3, <1>4

-----------------------------------------------------------------------------
(* The steps.                                                              *)

\* What a state that satisfies TypeOK says of the reply and its bytes.
LEMMA BytesTyped ==
    ASSUME TypeOK
    PROVE  /\ reply \in Replies
           /\ reply.head \in Seq(STRING) /\ reply.body \in Seq(STRING)
           /\ Bytes \in Seq(STRING) /\ Len(Bytes) \in Nat
           /\ Len(reply.head) \in Nat /\ Len(reply.body) \in Nat
           /\ Len(Bytes) = Len(reply.head) + Len(reply.body)
           /\ pos \in Nat /\ pos \in 0 .. Len(Bytes)
<1>1. reply \in Replies /\ pos \in 0 .. Len(Bytes)
  BY DEF TypeOK
<1>2. reply.head \in Seq(STRING) /\ reply.body \in Seq(STRING)
  BY <1>1, ReplyAssumption
<1>3. Bytes \in Seq(STRING) /\ Len(Bytes) = Len(reply.head) + Len(reply.body)
  BY <1>1, BytesOf DEF Bytes
<1>4. Len(Bytes) \in Nat /\ Len(reply.head) \in Nat /\ Len(reply.body) \in Nat
  BY <1>2, <1>3, LenProperties
<1>5. pos \in Nat
  BY <1>1
<1> QED
  BY <1>1, <1>2, <1>3, <1>4, <1>5

\* The first pbuf of a chain goes on after the bytes there have been.
LEMMA FirstPbuf ==
    ASSUME NEW total \in Nat, NEW p \in 0 .. total, NEW q \in Chains(p, total)
    PROVE  q[1] \in p + 1 .. total
  BY DEF Chains

\* A byte of the head.
LEMMA HeadStep ==
    ASSUME HttpInv, process_data_head
    PROVE  HttpInv' /\ [Stream!Next]_(Stream!vars)
<1> USE DEF HttpInv
<1>1. /\ pbufs \in Chains(pos, Len(Bytes))
      /\ UNCHANGED <<mode, body, error, complete, reply>>
      /\ ~error /\ ~complete /\ ~headers_done /\ Consume(pos + 1)
  BY DEF process_data_head, TypeOK, Offset
<1>2. /\ pos \in 0 .. Len(Bytes) - 1 /\ pos \in Nat
      /\ pos + 1 \in pos + 1 .. pbufs[1] /\ pos < Len(Bytes)
  BY <1>1, BytesTyped, FirstPbuf
<1>3. /\ pos' = pos + 1 /\ pos' \in 0 .. Len(Bytes)
      /\ pbufs' \in {<<>>} \cup Chains(pos', Len(Bytes))
  BY <1>1, <1>2, BytesTyped, ConsumeKeeps
<1>4. Bytes' = Bytes
  BY <1>1 DEF Bytes
<1>5. /\ hdr_buf' = SubSeq(Bytes, 1, Held(pos + 1))
      /\ Len(hdr_buf') = Held(pos + 1)
  BY <1>1, <1>2, BytesTyped, StoreHolds DEF HeadInv, process_data_head
<1>6. Len(hdr_buf') < HDR_SIZE
  BY <1>2, <1>5, ReplyAssumption DEF Held
<1>7. ~(Fits(reply) /\ pos >= Len(reply.head))
  BY <1>1 DEF HeadSeen
<1>8. headers_done' <=> Fits(reply) /\ pos + 1 >= Len(reply.head)
  <2>1. headers_done' = EndsHead(SubSeq(Bytes, 1, Held(pos + 1)))
    BY <1>5 DEF process_data_head
  <2>2. pos < Len(reply.head) + Len(reply.body) /\ reply \in Replies
    <3>1. Len(Bytes) = Len(reply.head) + Len(reply.body) /\ Len(Bytes) \in Nat
      BY BytesTyped
    <3> QED
      BY <1>2, <3>1, BytesTyped
  <2>3. EndsHead(SubSeq(Bytes, 1, Held(pos + 1)))
          <=> Fits(reply) /\ pos + 1 >= Len(reply.head)
    BY <1>2, <1>7, <2>2, EndShows DEF Bytes
  <2> QED
    BY <2>1, <2>3
<1>9. headers_done' \in BOOLEAN
  BY DEF process_data_head, EndsHead
<1>10. HeadSeen'
  BY <1>1, <1>3, <1>8 DEF HeadSeen, Fits
<1>11. status_code = 0 /\ location = << >> /\ body = << >>
  BY <1>1 DEF HeadInv
<1>12. CASE ~headers_done'
  <2>1. UNCHANGED <<headers_done, status_code, location>>
    BY <1>1, <1>9, <1>12 DEF process_data_head, TypeOK
  <2>2. HeadInv'
    BY <1>3, <1>4, <1>5, <1>11, <1>12, <1>1, <2>1 DEF HeadInv
  <2>3. NothingLost'
    BY <1>1, <1>12, <2>1 DEF NothingLost
  <2>4. TypeOK'
    BY <1>1, <1>3, <1>4, <1>6, <1>9, <2>1 DEF TypeOK
  <2>5. QueueInv'
    BY <1>1 DEF QueueInv
  <2>6. UNCHANGED Stream!vars
    BY <1>1, <2>1 DEF Stream!vars
  <2> QED
    BY <1>10, <2>2, <2>3, <2>4, <2>5, <2>6
<1>13. CASE headers_done'
  <2>1. Fits(reply) /\ pos + 1 = Len(reply.head)
    BY <1>2, <1>7, <1>8, <1>13, BytesTyped
  <2>2. Held(pos + 1) = Len(reply.head)
    BY <2>1 DEF Held, Fits
  <2>3. hdr_buf' = reply.head
    <3>1. SubSeq(Bytes, 1, Len(reply.head)) = SubSeq(reply.head, 1, Len(reply.head))
      <4>1. reply \in Replies /\ Len(reply.head) \in 0 .. Len(reply.head)
        BY BytesTyped
      <4> QED
        BY <4>1, BytesOf DEF Bytes
    <3>2. SubSeq(reply.head, 1, Len(reply.head)) = reply.head
      BY BytesTyped, SubSeqFull
    <3> QED
      BY <1>5, <2>2, <3>1, <3>2
  <2>4. status_code' = reply.status /\ location' = LocationOf(reply)
    <3>1. /\ status_code' = parse_status_code(reply.head)
          /\ location' = find_header(reply.head, "Location", << >>, LOCATION_SIZE)
      BY <1>11, <1>13, <2>3 DEF process_data_head
    <3> QED
      BY <3>1, BytesTyped, ReplyAssumption DEF LocationOf
  <2>5. HeadInv'
    BY <1>1, <1>13, <2>4 DEF HeadInv, LocationOf
  <2>6. SubSeq(reply.body, 1, Taken(mode, 0)) = << >>
    BY BytesTyped, SubSeqEmpty, ReplyAssumption DEF Taken
  <2>7. NothingLost'
    <3>1. pos' - Len(reply.head) = 0
      BY <1>3, <2>1, BytesTyped
    <3>2. body' = << >> /\ mode' = mode /\ reply' = reply
      BY <1>1, <1>11
    <3> QED
      BY <1>13, <2>6, <3>1, <3>2 DEF NothingLost, Taken
  <2>8. TypeOK'
    <3>1. status_code' \in {0, 200, 302, 404}
      BY <1>13, StatusKnown DEF process_data_head
    <3>2. Len(location') < LOCATION_SIZE
      BY <2>4, BytesTyped, CutFits
    <3> QED
      BY <1>1, <1>3, <1>4, <1>6, <1>9, <3>1, <3>2 DEF TypeOK
  <2>9. QueueInv'
    BY <1>1 DEF QueueInv
  <2>10. Stream!Receive
    <3>1. \E n \in Len(body) .. Len(reply.body) :
             body' = SubSeq(reply.body, 1, Taken(mode, n))
      <4>1. Len(body) = 0 /\ 0 \in Len(body) .. Len(reply.body)
        BY <1>11, BytesTyped
      <4> QED
        BY <1>1, <1>11, <2>6, <4>1
    <3>2. error' \in BOOLEAN
      BY <1>1 DEF TypeOK
    <3> QED
      BY <1>1, <1>13, <2>1, <2>4, <3>1, <3>2 DEF Stream!Receive
  <2> QED
    BY <1>10, <2>5, <2>7, <2>8, <2>9, <2>10 DEF Stream!Next
<1> QED
  BY <1>12, <1>13

\* A piece of the body.
LEMMA BodyStep ==
    ASSUME HttpInv, process_data_body
    PROVE  HttpInv' /\ [Stream!Next]_(Stream!vars)
<1> DEFINE e == pbufs[1]
           L == Len(reply.head)
           i == pos - L
           j == e - L
           last == IF mode = "stream" THEN e ELSE Room
<1>1. /\ TypeOK /\ HeadSeen /\ NothingLost /\ HeadInv /\ QueueInv
      /\ pbufs \in Chains(pos, Len(Bytes)) /\ mode \in Modes
      /\ UNCHANGED <<mode, headVars, complete, reply>>
      /\ ~error /\ ~complete /\ headers_done /\ Consume(e)
      /\ body' = body \o SubSeq(Bytes, pos + 1, last)
      /\ error' \in BOOLEAN
  BY DEF HttpInv, process_data_body, TypeOK
<1> HIDE DEF e, L
<1>2. /\ L \in Nat /\ Len(reply.body) \in Nat /\ Len(Bytes) = L + Len(reply.body)
      /\ reply \in Replies /\ reply.body \in Seq(STRING)
      /\ pos \in 0 .. Len(Bytes) /\ pos \in Nat /\ Len(Bytes) \in Nat
  BY <1>1, BytesTyped DEF L
<1>3. e \in pos + 1 .. Len(Bytes)
  BY <1>1, <1>2, FirstPbuf DEF e
<1>4. Fits(reply) /\ pos >= L
  BY <1>1 DEF HeadSeen, L
<1>5. /\ i \in Nat /\ j \in Nat /\ i <= j /\ j <= Len(reply.body)
      /\ e \in Nat /\ e \in pos + 1 .. e
  BY <1>2, <1>3, <1>4
<1>6. /\ pos' = e /\ pos' \in 0 .. Len(Bytes)
      /\ pbufs' \in {<<>>} \cup Chains(pos', Len(Bytes))
  BY <1>1, <1>2, <1>5, ConsumeKeeps DEF e
<1>7. Bytes' = Bytes
  BY <1>1 DEF Bytes
<1>8. body = SubSeq(reply.body, 1, Taken(mode, i))
  BY <1>1 DEF NothingLost, L
<1>9. /\ body \o SubSeq(reply.body, i + 1, last - L)
           = SubSeq(reply.body, 1, Taken(mode, j))
      /\ last - L \in i .. j /\ Len(body) = Taken(mode, i)
      /\ Len(SubSeq(reply.body, 1, Taken(mode, j))) = Taken(mode, j)
  <2>1. Len(body) \in Nat /\ body_cap \in Nat
    <3>1. Taken(mode, i) \in 0 .. i
      BY <1>5, ReplyAssumption DEF Taken
    <3>2. \A x \in 1 .. Taken(mode, i) : reply.body[x] \in STRING
      BY <1>2, <1>5, <3>1, ElementOfSeq
    <3>3. Len(body) = IF 1 <= Taken(mode, i) THEN Taken(mode, i) - 1 + 1 ELSE 0
      <4> HIDE DEF i
      <4> QED
        BY <1>8, <3>1, <3>2, SubSeqProperties
    <3> QED
      BY <3>1, <3>3, ReplyAssumption
  <2>2. /\ Upto(mode, i, j) \in i .. j
        /\ SubSeq(reply.body, 1, Taken(mode, i))
              \o SubSeq(reply.body, i + 1, Upto(mode, i, j))
             = SubSeq(reply.body, 1, Taken(mode, j))
        /\ Len(SubSeq(reply.body, 1, Taken(mode, i))) = Taken(mode, i)
        /\ Len(SubSeq(reply.body, 1, Taken(mode, j))) = Taken(mode, j)
    <3>1. /\ i \in Nat /\ j \in Nat /\ i <= j /\ j <= Len(reply.body)
          /\ reply.body \in Seq(STRING) /\ mode \in Modes
      BY <1>1, <1>2, <1>5
    <3> HIDE DEF i, j
    <3> QED
      BY <3>1, BodyGrows
  <2>3. last - L = Upto(mode, i, j)
    <3>1. Room = IF body_cap - 1 - Len(body) < e - pos
                 THEN pos + (body_cap - 1 - Len(body)) ELSE e
      BY DEF Room, e
    <3>2. e - pos = j - i
      BY <1>2, <1>5
    <3>3. Len(body) = Taken(mode, i)
      BY <1>8, <2>2
    <3> QED
      BY <1>1, <1>2, <1>5, <2>1, <3>1, <3>2, <3>3 DEF Upto, Modes
  <2> QED
    BY <1>8, <2>2, <2>3
<1>10. last \in L .. Len(Bytes) /\ pos \in L .. Len(Bytes)
  <2>1. Len(body) \in Nat
    BY <1>5, <1>9, ReplyAssumption DEF Taken
  <2>2. last \in Int
    BY <1>2, <1>5, <2>1, ReplyAssumption DEF Room, e
  <2>3. last - L \in i .. j
    BY <1>9
  <2> HIDE DEF last
  <2> QED
    BY <1>2, <1>3, <1>4, <1>5, <2>2, <2>3
<1>11. body' = SubSeq(reply.body, 1, Taken(mode, j))
  <2>1. SubSeq(Bytes, pos + 1, last) = SubSeq(reply.body, i + 1, last - L)
    <3> HIDE DEF last
    <3> QED
      BY <1>2, <1>10, BytesOf DEF Bytes, L
  <2> QED
    BY <1>1, <1>9, <2>1
<1>12. NothingLost'
  BY <1>1, <1>6, <1>11 DEF NothingLost, headVars, Taken, L
<1>13. HeadSeen'
  BY <1>1, <1>2, <1>3, <1>4, <1>6 DEF HeadSeen, Fits, headVars, L
<1>14. HeadInv'
  BY <1>1 DEF HeadInv, headVars, LocationOf
<1>15. QueueInv'
  BY <1>1 DEF QueueInv, headVars
<1>16. TypeOK'
  <2>1. mode = "buffer" => Len(body') < body_cap
    BY <1>5, <1>9, <1>11, ReplyAssumption DEF Taken
  <2> QED
    BY <1>1, <1>6, <1>7, <2>1 DEF TypeOK, headVars
<1>17. Stream!Receive
  <2>1. j \in Len(body) .. Len(reply.body)
    BY <1>5, <1>9, ReplyAssumption DEF Taken
  <2>2. \E n \in Len(body) .. Len(reply.body) :
           body' = SubSeq(reply.body, 1, Taken(mode, n))
    BY <1>11, <2>1
  <2> QED
    BY <1>1, <1>4, <2>2 DEF Stream!Receive, HeadInv, headVars
<1> QED
  BY <1>12, <1>13, <1>14, <1>15, <1>16, <1>17 DEF HttpInv, Stream!Next

\* A new request, an end of the connection, or a chain that arrives or is not
\* looked at.
LEMMA OtherSteps ==
    ASSUME HttpInv,
           \/ https_get \/ http_recv_cb \/ http_recv_cb_closed \/ http_err_cb
           \/ process_data_ignores \/ UNCHANGED vars
    PROVE  HttpInv' /\ [Stream!Next]_(Stream!vars)
<1> USE DEF HttpInv
<1>1. CASE https_get
  <2>1. reply' \in Replies /\ Len(reply'.head) \in Nat /\ Len(Bytes') \in Nat
    BY <1>1, ReplyAssumption, BytesOf, LenProperties DEF https_get, Bytes
  <2>2. ~(Fits(reply') /\ 0 >= Len(reply'.head))
    <3>1. EndsHead(SubSeq(reply'.head, 1, Len(reply'.head)))
      BY <2>1, ReplyAssumption
    <3>2. SubSeq(reply'.head, 1, Len(reply'.head)) = reply'.head
      BY <2>1, ReplyAssumption, SubSeqFull
    <3> QED
      BY <2>1, <3>1, <3>2 DEF EndsHead
  <2>3. SubSeq(Bytes', 1, 0) = << >> /\ Held(0) = 0 /\ SubSeq(reply'.body, 1, 0) = << >>
    BY <2>1, SubSeqEmpty, ReplyAssumption DEF Held
  <2>4. HeadSeen' /\ NothingLost' /\ HeadInv' /\ QueueInv'
    BY <1>1, <2>2, <2>3
       DEF https_get, ClearedHead, HeadSeen, NothingLost, HeadInv, QueueInv, Fits
  <2>5. TypeOK'
    <3>1. Len(<<>>) = 0 /\ 0 < HDR_SIZE /\ 0 < LOCATION_SIZE /\ 0 < body_cap
      BY ReplyAssumption
    <3>2. pos' \in 0 .. Len(Bytes') /\ pbufs' = << >>
      BY <1>1, <2>1 DEF https_get
    <3> QED
      BY <1>1, <2>1, <3>1, <3>2 DEF https_get, ClearedHead, TypeOK
  <2>6. Stream!Request
    BY <1>1 DEF https_get, Modes, Stream!Request, Stream!Nothing
  <2> QED
    BY <2>4, <2>5, <2>6 DEF Stream!Next
<1>2. CASE http_recv_cb
  <2>1. TypeOK' /\ HeadSeen' /\ NothingLost' /\ HeadInv' /\ QueueInv'
    BY <1>2 DEF http_recv_cb, headVars, TypeOK, HeadSeen, NothingLost, HeadInv,
                QueueInv, Bytes
  <2>2. UNCHANGED Stream!vars
    BY <1>2 DEF http_recv_cb, headVars, Stream!vars
  <2> QED
    BY <2>1, <2>2
<1>3. CASE http_recv_cb_closed \/ http_err_cb
  <2>1. /\ UNCHANGED <<mode, headVars, body, reply, pos, pbufs>> /\ Bytes' = Bytes
        /\ pbufs = << >> /\ error' \in BOOLEAN /\ complete' \in BOOLEAN
        /\ ~error' => ~error
    BY <1>3 DEF http_recv_cb_closed, http_err_cb, TypeOK, Bytes
  <2>2. TypeOK'
    BY <2>1 DEF headVars, TypeOK
  <2>3. HeadSeen' /\ HeadInv' /\ QueueInv'
    BY <2>1 DEF headVars, HeadSeen, HeadInv, QueueInv, Fits, LocationOf
  <2>4. NothingLost'
    BY <2>1 DEF headVars, NothingLost, Taken
  <2>5. Stream!End
    BY <1>3 DEF http_recv_cb_closed, http_err_cb, headVars, Stream!End
  <2> QED
    BY <2>2, <2>3, <2>4, <2>5 DEF Stream!Next
<1>4. CASE process_data_ignores
  <2>1. pbufs \in Chains(pos, Len(Bytes)) /\ Consume(pbufs[1]) /\ error /\ headers_done
    BY <1>4 DEF process_data_ignores, QueueInv, TypeOK
  <2>2. pbufs[1] \in pos + 1 .. Len(Bytes) /\ pos \in Nat
    BY <2>1, BytesTyped, FirstPbuf
  <2>3. /\ pos' = pbufs[1] /\ pos' \in 0 .. Len(Bytes) /\ pos' >= pos
        /\ pbufs' \in {<<>>} \cup Chains(pos', Len(Bytes))
    BY <2>1, <2>2, BytesTyped, ConsumeKeeps
  <2>4. Bytes' = Bytes /\ UNCHANGED <<mode, headVars, body, error, complete, reply>>
    BY <1>4 DEF process_data_ignores, Bytes
  <2>5. TypeOK'
    BY <2>3, <2>4 DEF TypeOK, headVars
  <2>6. HeadSeen'
    BY <2>1, <2>2, <2>3, <2>4, BytesTyped DEF HeadSeen, Fits, headVars
  <2>7. NothingLost' /\ HeadInv' /\ QueueInv'
    <3>1. error' /\ headers_done' /\ ~complete'
      BY <2>1, <2>4, <1>4 DEF headVars, QueueInv, process_data_ignores
    <3>2. HeadInv'
      BY <2>1, <2>4, <3>1 DEF HeadInv, headVars, LocationOf
    <3> QED
      BY <3>1, <3>2 DEF NothingLost, QueueInv
  <2>8. UNCHANGED Stream!vars
    BY <2>4 DEF headVars, Stream!vars
  <2> QED
    BY <2>5, <2>6, <2>7, <2>8
<1>5. CASE UNCHANGED vars
  BY <1>5 DEF vars, headVars, TypeOK, HeadSeen, NothingLost, HeadInv, QueueInv,
              Bytes, Stream!vars
<1> QED
  BY <1>1, <1>2, <1>3, <1>4, <1>5

-----------------------------------------------------------------------------
(* The theorems.                                                           *)

\* A fresh context satisfies the invariant, and HttpStream begins in it.
LEMMA InvInit == Init => HttpInv /\ Stream!Init
<1> SUFFICES ASSUME Init PROVE HttpInv /\ Stream!Init
  OBVIOUS
<1>1. /\ reply \in Replies /\ Len(reply.head) \in Nat /\ Len(Bytes) \in Nat
      /\ reply.head \in Seq(STRING)
  BY ReplyAssumption, BytesOf, LenProperties DEF Init, Bytes
<1>2. ~(Fits(reply) /\ 0 >= Len(reply.head))
  <2>1. EndsHead(SubSeq(reply.head, 1, Len(reply.head)))
    BY <1>1, ReplyAssumption
  <2>2. SubSeq(reply.head, 1, Len(reply.head)) = reply.head
    BY <1>1, SubSeqFull
  <2> QED
    BY <1>1, <2>1, <2>2 DEF EndsHead
<1>3. SubSeq(Bytes, 1, 0) = << >> /\ Held(0) = 0 /\ SubSeq(reply.body, 1, 0) = << >>
  BY <1>1, SubSeqEmpty, ReplyAssumption DEF Held
<1>4. HeadSeen /\ NothingLost /\ HeadInv /\ QueueInv
  BY <1>2, <1>3 DEF Init, HeadSeen, NothingLost, HeadInv, QueueInv
<1>5. TypeOK
  <2>1. Len(<<>>) = 0 /\ 0 < HDR_SIZE /\ 0 < LOCATION_SIZE /\ 0 < body_cap
    BY ReplyAssumption
  <2>2. pos \in 0 .. Len(Bytes)
    BY <1>1 DEF Init
  <2> QED
    BY <1>1, <2>1, <2>2 DEF Init, TypeOK
<1>6. Stream!Init
  BY DEF Init, Modes, Stream!Init, Stream!Nothing
<1> QED
  BY <1>4, <1>5, <1>6 DEF HttpInv

\* Every step keeps the invariant, and is a step of HttpStream or a stutter.
LEMMA InvNext == HttpInv /\ [Next]_vars => HttpInv' /\ [Stream!Next]_(Stream!vars)
<1> SUFFICES ASSUME HttpInv, [Next]_vars
             PROVE  HttpInv' /\ [Stream!Next]_(Stream!vars)
  OBVIOUS
<1>1. CASE process_data_head
  BY <1>1, HeadStep
<1>2. CASE process_data_body
  BY <1>2, BodyStep
<1>3. CASE \/ https_get \/ http_recv_cb \/ http_recv_cb_closed \/ http_err_cb
           \/ process_data_ignores \/ UNCHANGED vars
  BY <1>3, OtherSteps
<1> QED
  BY <1>1, <1>2, <1>3 DEF Next

\* The invariant holds in every reachable state (ota_update.c:259-396).
THEOREM HttpInvariant == Spec => []HttpInv
<1>1. Init => HttpInv
  BY InvInit
<1>2. HttpInv /\ [Next]_vars => HttpInv'
  BY InvNext
<1> QED
  BY <1>1, <1>2, PTL DEF Spec

\* The buffers keep room for their NUL and the pbufs their order
\* (ota_update.c:267, :295, :233).
THEOREM TypeCorrect == Spec => []TypeOK
<1>1. HttpInv => TypeOK
  BY DEF HttpInv
<1> QED
  BY <1>1, HttpInvariant, PTL

\* A head's end is seen exactly when it has come, wherever it is cut
\* (ota_update.c:265-283).
THEOREM HeadIsSeen == Spec => []HeadSeen
<1>1. HttpInv => HeadSeen
  BY DEF HttpInv
<1> QED
  BY <1>1, HttpInvariant, PTL

\* No byte of a body is lost, doubled or out of order (ota_update.c:285-304).
THEOREM BodyIsWhole == Spec => []NothingLost
<1>1. HttpInv => NothingLost
  BY DEF HttpInv
<1> QED
  BY <1>1, HttpInvariant, PTL

\* The client implements HttpStream: what one request finds is the reply to it
\* and nothing of the one before (ota_update.c:259-304, :385-396).
THEOREM ClientRefines == Spec => ImplementsStream
<1>1. Init => HttpInv /\ Stream!Init
  BY InvInit
<1>2. HttpInv /\ [Next]_vars => HttpInv' /\ [Stream!Next]_(Stream!vars)
  BY InvNext
<1> QED
  BY <1>1, <1>2, PTL DEF Spec, ImplementsStream, Stream!Spec

=============================================================================
