---------------------------- MODULE MCHttpReply ----------------------------
(***************************************************************************)
(* HttpReply with a head that fills hdr_buf to the last byte, one that is  *)
(* a byte longer, a redirect that fits into location[] and one that does   *)
(* not, and a body that begins like the end of a head.                     *)
(***************************************************************************)
EXTENDS HttpReply

NL == <<"CR", "LF">>

Status(word) == <<"HTTP/1.1", "SP", word>> \o NL
Header(name, value) == <<name, ":", "SP">> \o value \o NL

MCReplies == {
    [head |-> Status("200") \o NL, body |-> NL \o <<"x", "y">>,
     status |-> 200, location |-> <<>>],
    [head |-> Status("302") \o Header("Location", <<"u">>) \o NL,
     body |-> <<"p">>, status |-> 302, location |-> <<"u">>],
    [head |-> Status("302") \o Header("Location", <<"u", "v">>) \o NL,
     body |-> <<>>, status |-> 302, location |-> <<"u", "v">>],
    [head |-> Status("404") \o Header("Location", <<"u", "v", "w">>) \o NL,
     body |-> <<"p">>, status |-> 404, location |-> <<"u", "v", "w">>]}

=============================================================================
