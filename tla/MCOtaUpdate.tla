---------------------------- MODULE MCOtaUpdate ----------------------------
(***************************************************************************)
(* OtaUpdate with two partitions of two sectors of two bytes.  The device  *)
(* comes with the middle one of three releases; the asset of the last      *)
(* leaves its last sector half full, that of the middle one fills its      *)
(* partition.  A redirect's page fits before the asset, two do not.  Of    *)
(* the releases one has the URL of another file first, one is cut before   *)
(* the asset's URL, one has a tag whose major number is the running one's  *)
(* plus 65536, one has no URL that can be used.  A tag has room for nine   *)
(* characters: of one with ten the last number is cut, to a newer version. *)
(***************************************************************************)
EXTENDS OtaUpdate, TLC

MCv190 == V(1, 9, 0)
MCv200 == V(2, 0, 0)
MCv201 == V(2, 0, 1)

MCVersions == {MCv190, MCv200, MCv201}
MCAsset == (MCv190 :> <<"a", "b", "c">>) @@ (MCv200 :> <<"d", "e", "f", "g">>)
             @@ (MCv201 :> <<"d", "e", "h">>)
MCByte == {"a", "b", "c", "d", "e", "f", "g", "h", "page", "ff"}
MCAddr == 0 .. 7
MCInstalled == {MCv200}

Tag(text) == [part |-> "tag", text |-> text]
Name(text) == [part |-> "name", text |-> <<text>>]
Url(page) == [part |-> "url", text |-> <<page>>]
Bin == <<Name("padproxy.bin"), Url("bin")>>

MCReleases == {
    <<Tag(<<"v", "1", ".", "9", ".", "0">>)>> \o Bin,
    <<Tag(<<"2", ".", "0", ".", "0">>)>> \o Bin,
    <<Tag(<<"V", "2", ".", "0", ".", "0", "0", "0", "1", "0">>), Url("other")>> \o Bin,
    <<Tag(<<"v", "2", ".", "0", ".", "1", "-", "r">>), Name("padproxy.uf2"), Url("other")>>
        \o Bin,
    <<Tag(<<"v", "2", ".", "0", ".", "1">>), Name("padproxy.bin"), Url("bad")>>,
    <<Tag(<<"6", "5", "5", "3", "8", ".", "0", ".", "1">>)>> \o Bin,
    <<Tag(<<"v", "3", ".", "0">>)>> \o Bin}

MCDetours == {
    [status |-> 302, location |-> "url", fits |-> TRUE, body |-> <<>>],
    [status |-> 302, location |-> "url", fits |-> TRUE, body |-> <<"page">>],
    [status |-> 302, location |-> "bad", fits |-> TRUE, body |-> <<>>],
    [status |-> 404, location |-> "none", fits |-> TRUE, body |-> <<"page">>],
    [status |-> 200, location |-> "none", fits |-> FALSE, body |-> <<"page">>]}

=============================================================================
