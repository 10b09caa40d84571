---------------------------- MODULE FlashWriter ----------------------------
(***************************************************************************)
(* The flash writer of firmware/src/ota_update.c: a download arrives in    *)
(* chunks of any size, is collected in a sector buffer and written to the  *)
(* target partition one sector at a time.                                  *)
(*                                                                         *)
(* flash_write_cb is modelled round by round of its loop, so that a model  *)
(* that uses this one can cut the power between two sectors.  sector_buf   *)
(* is the valid part of the buffer, sector_pos its length.                 *)
(***************************************************************************)
EXTENDS Integers, Sequences

CONSTANTS
    Byte,          \* what a byte of the image can be
    Erased,        \* 0xFF, the erased state
    SectorSize,    \* FLASH_SECTOR_SIZE
    Addr           \* the addresses of the flash

ASSUME WriterAssumption ==
    /\ SectorSize \in Nat \ {0}
    /\ Addr \subseteq Nat
    /\ Erased \in Byte

VARIABLES
    flash,             \* the contents of the flash
    flash_offset, partition_end, sector_buf, total_written, fw_error,
    input,             \* the rest of the chunk flash_write_cb is working on
    start,             \* history: where the partition starts
    stream             \* history: all that the writer has been given

writerVars == <<flash_offset, partition_end, sector_buf, total_written, fw_error>>
fwVars == <<flash, writerVars, input, start, stream>>

-----------------------------------------------------------------------------
flash_writer_init(start_offset, max_size) ==
    /\ flash_offset' = start_offset
    /\ partition_end' = start_offset + max_size
    /\ sector_buf' = <<>>
    /\ total_written' = 0
    /\ fw_error' = FALSE
    /\ start' = start_offset
    /\ stream' = <<>>

\* flash_write_cb is called with data.
flash_write_call(data) ==
    /\ input = <<>>
    /\ input' = data
    /\ stream' = stream \o data
    /\ UNCHANGED <<flash, writerVars, start>>

\* Faulty variant: a sector that ends at the partition's end is refused.
SectorFits_off_by_one == flash_offset + SectorSize < partition_end

\* Faulty variant: the partition's end is not looked at.
SectorFits_unchecked == TRUE

\* The writer's guard on the partition's end.
SectorFits == flash_offset + SectorSize <= partition_end

\* Faulty variant: the rest of the buffer is programmed as it is.
Programmed_unpadded(contents, offset, buf) ==
    [a \in Addr |->
        IF a \in offset .. (offset + SectorSize - 1) /\ a - offset < Len(buf)
        THEN buf[a - offset + 1] ELSE contents[a]]

\* flash_range_erase and flash_range_program of one sector.
Programmed(contents, offset, buf) ==
    [a \in Addr |->
        IF a \in offset .. (offset + SectorSize - 1)
        THEN IF a - offset < Len(buf) THEN buf[a - offset + 1] ELSE Erased
        ELSE contents[a]]

\* flash_writer_flush returns true.
FlushSucceeds(buf) == buf = <<>> \/ SectorFits

\* flash_writer_flush, with buf in the sector buffer.
flash_writer_flush(buf) ==
    IF buf # <<>> /\ SectorFits
    THEN /\ flash' = Programmed(flash, flash_offset, buf)
         /\ flash_offset' = flash_offset + SectorSize
         /\ sector_buf' = <<>>
    ELSE /\ sector_buf' = buf
         /\ UNCHANGED <<flash, flash_offset>>

\* How much of the input a round copies.
Chunk == IF Len(input) < SectorSize - Len(sector_buf)
         THEN Len(input) ELSE SectorSize - Len(sector_buf)

\* Faulty variant: what is left of a chunk after a full sector is dropped.
flash_write_cb_one_round ==
    /\ input # <<>>
    /\ LET buf == sector_buf \o SubSeq(input, 1, Chunk)
           ok  == FlushSucceeds(buf)
       IN  /\ IF Len(buf) = SectorSize
              THEN /\ flash_writer_flush(buf)
                   /\ fw_error' = ~ok
              ELSE /\ sector_buf' = buf
                   /\ UNCHANGED <<flash, flash_offset, fw_error>>
           /\ input' = <<>>
    /\ total_written' = total_written + Chunk
    /\ UNCHANGED <<partition_end, start, stream>>

\* One round of flash_write_cb; a sector that cannot be written ends it.
flash_write_cb ==
    /\ input # <<>>
    /\ LET buf  == sector_buf \o SubSeq(input, 1, Chunk)
           rest == SubSeq(input, Chunk + 1, Len(input))
       IN  IF Len(buf) = SectorSize
           THEN /\ flash_writer_flush(buf)
                /\ IF FlushSucceeds(buf)
                   THEN input' = rest /\ UNCHANGED fw_error
                   ELSE input' = <<>> /\ fw_error' = TRUE
           ELSE /\ sector_buf' = buf
                /\ input' = rest
                /\ UNCHANGED <<flash, flash_offset, fw_error>>
    /\ total_written' = total_written + Chunk
    /\ UNCHANGED <<partition_end, start, stream>>

=============================================================================
