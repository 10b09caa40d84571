--------------------------- MODULE MCFlashDownload ---------------------------
(***************************************************************************)
(* FlashDownload on a flash of four sectors of two bytes, the partition in *)
(* the middle, with a sector of somebody else on either side.              *)
(***************************************************************************)
EXTENDS FlashDownload

MCByte == {"x", "y", "ff"}
MCAddr == 0 .. 7
MCOldFlash == [a \in MCAddr |-> "y"]
MCChunks == {<<"x">>, <<"y">>, <<"x", "y">>, <<"x", "x", "y">>,
             <<"y", "x", "x", "y", "x">>}

=============================================================================
