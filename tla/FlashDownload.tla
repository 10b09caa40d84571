---------------------------- MODULE FlashDownload ----------------------------
(***************************************************************************)
(* The flash writer by itself, fed with any data: flash_writer_init, any   *)
(* number of chunks, the last flush of ota_update_check_and_apply.         *)
(***************************************************************************)
EXTENDS FlashWriter

CONSTANTS
    StartOffset, MaxSize,   \* the partition
    OldFlash,               \* what is in the flash before
    Chunks,                 \* the chunks that arrive
    MaxStream               \* bound: how much is sent at most

ASSUME PartitionAssumption ==
    /\ StartOffset \in Nat
    /\ MaxSize \in Nat
    /\ StartOffset .. (StartOffset + MaxSize - 1) \subseteq Addr
    /\ MaxSize % SectorSize = 0
ASSUME OldFlashAssumption == OldFlash \in [Addr -> Byte]
ASSUME ChunkAssumption == Chunks \subseteq Seq(Byte)
ASSUME MaxStreamAssumption == MaxStream \in Nat

\* Is the image finished?  The caller's last flush tells.
VARIABLE outcome

vars == <<fwVars, outcome>>

TypeOK ==
    /\ flash \in [Addr -> Byte]
    /\ flash_offset \in StartOffset .. (StartOffset + MaxSize)
    /\ partition_end = StartOffset + MaxSize
    /\ start = StartOffset
    /\ sector_buf \in Seq(Byte)
    /\ total_written \in Nat
    /\ fw_error \in BOOLEAN
    /\ input \in Seq(Byte)
    /\ stream \in Seq(Byte)
    /\ outcome \in {"open", "flushed", "failed"}

Init ==
    /\ flash = OldFlash
    /\ flash_offset = StartOffset
    /\ partition_end = StartOffset + MaxSize
    /\ sector_buf = <<>>
    /\ total_written = 0
    /\ fw_error = FALSE
    /\ input = <<>>
    /\ start = StartOffset
    /\ stream = <<>>
    /\ outcome = "open"

\* process_data hands a chunk over, until the writer has refused one.
Receive ==
    /\ outcome = "open"
    /\ ~fw_error
    /\ \E data \in Chunks :
          /\ Len(stream) + Len(data) <= MaxStream
          /\ flash_write_call(data)
    /\ UNCHANGED outcome

Write == flash_write_cb /\ UNCHANGED outcome

\* ota_update_check_and_apply: "Flush remaining data".
FlushRemaining ==
    /\ outcome = "open"
    /\ input = <<>>
    /\ outcome' = IF FlushSucceeds(sector_buf) /\ ~fw_error
                  THEN "flushed" ELSE "failed"
    /\ flash_writer_flush(sector_buf)
    /\ UNCHANGED <<partition_end, total_written, fw_error, input, start, stream>>

Next == Receive \/ Write \/ FlushRemaining

Spec == Init /\ [][Next]_vars

-----------------------------------------------------------------------------
(* Properties.                                                             *)

\* How many bytes of the stream are in the flash.
Flushed == Len(stream) - Len(input) - Len(sector_buf)

\* Until a sector is refused, what has arrived is in the flash, in the
\* buffer or in the rest of the chunk, in order and without a gap.
NothingLost ==
    outcome = "open" /\ ~fw_error =>
        /\ flash_offset = StartOffset + Flushed
        /\ total_written = Flushed + Len(sector_buf)
        /\ \A i \in 1 .. Flushed : flash[StartOffset + i - 1] = stream[i]
        /\ \A i \in 1 .. Len(sector_buf) : sector_buf[i] = stream[Flushed + i]
        /\ \A i \in 1 .. Len(input) :
              input[i] = stream[Flushed + Len(sector_buf) + i]

\* An image that was flushed is in the partition from its first byte to its
\* last, and the rest of its last sector is erased
\* (ota_update.c: "Pad remainder with 0xFF (erased state)").
ImageIsStream ==
    outcome = "flushed" =>
        /\ total_written = Len(stream)
        /\ \A i \in 1 .. Len(stream) : flash[StartOffset + i - 1] = stream[i]
        /\ \A a \in Addr :
              StartOffset + Len(stream) <= a /\ a < flash_offset
                  => flash[a] = Erased

\* Only an image that is longer than the partition is refused: one that
\* fills it to the last byte is not.
RefusesOnlyTooLong ==
    fw_error \/ outcome = "failed" => Len(stream) > MaxSize

\* Nothing outside the partition is ever erased or programmed
\* (flash_writer_t: "Do not write past this offset").
StaysInPartition ==
    [][\A a \in Addr :
          a < StartOffset \/ a >= StartOffset + MaxSize
              => flash'[a] = flash[a]]_vars

=============================================================================
