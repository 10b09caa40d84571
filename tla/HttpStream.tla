----------------------------- MODULE HttpStream -----------------------------
(***************************************************************************)
(* What the HTTPS client of firmware/src/ota_update.c promises to the code *)
(* that asks for a page: the head of the reply at once, then its body, in  *)
(* order and from the first byte, in pieces of any size.  OtaUpdate takes  *)
(* replies at this grain; HttpReply has the bytes and implements it.       *)
(***************************************************************************)
EXTENDS Integers, Sequences

CONSTANTS
    Replies,      \* the replies a server may send
    Fits(_),      \* a reply's head fits into hdr_buf
    Location(_),  \* where it redirects to, as far as location[] holds it
    Taken(_, _)   \* how much of a piece of a body a request takes, by its mode

VARIABLES
    mode,         \* the body goes to a "buffer" or to a callback, a "stream"
    reply,        \* the server's reply to this request
    headers_done, status_code, location,
    body,         \* what of its body has been handed on
    error, complete

vars == <<mode, reply, headers_done, status_code, location, body, error,
          complete>>

Nothing == <<>>

Init ==
    /\ mode \in {"buffer", "stream"}
    /\ reply \in Replies
    /\ ~headers_done /\ status_code = 0 /\ location = Nothing
    /\ body = Nothing
    /\ ~error /\ ~complete

Request ==
    /\ mode' \in {"buffer", "stream"}
    /\ reply' \in Replies
    /\ ~headers_done' /\ status_code' = 0 /\ location' = Nothing
    /\ body' = Nothing
    /\ ~error' /\ ~complete'

\* The head, or more of the body, or both.  A head that does not fit never
\* comes, nor does its body.
Receive ==
    /\ ~error /\ ~complete
    /\ Fits(reply)
    /\ headers_done'
    /\ status_code' = reply.status
    /\ location' = Location(reply)
    /\ \E n \in Len(body) .. Len(reply.body) :
          body' = SubSeq(reply.body, 1, Taken(mode, n))
    /\ error' \in BOOLEAN                \* the callback may refuse its piece
    /\ UNCHANGED <<mode, reply, complete>>

\* The connection fails or is closed by the server, before the end or at it.
End ==
    /\ ~error' => complete'
    /\ error => error'
    /\ complete => complete'
    /\ UNCHANGED <<mode, reply, headers_done, status_code, location, body>>

Next == Request \/ Receive \/ End

Spec == Init /\ [][Next]_vars

=============================================================================
