------------------------ MODULE FlashDownloadProofs ------------------------
(***************************************************************************)
(* Proofs about the flash writer, for every sector size, every partition   *)
(* and every way a download can be cut into chunks.                        *)
(***************************************************************************)
EXTENDS FlashDownload, TLAPS

\* The inductive invariant: what NothingLost says of an open download, with
\* the types, the size of the buffer and the alignment of the offset.
Aligned == \E n \in Nat : flash_offset = StartOffset + n * SectorSize

Room ==
    /\ Flushed \in Nat
    /\ Len(sector_buf) <= SectorSize
    /\ outcome = "open" /\ ~fw_error => Len(sector_buf) < SectorSize
    /\ fw_error => input = <<>>
    /\ outcome # "open" => input = <<>>

WriterInv ==
    /\ TypeOK /\ Aligned /\ Room
    /\ NothingLost /\ ImageIsStream /\ RefusesOnlyTooLong

\* What a round of flash_write_cb takes from the chunk.
LEMMA Round ==
    ASSUME NEW taken \in Seq(Byte), NEW in \in Seq(Byte), NEW k \in 1 .. Len(in)
    PROVE  LET buf  == taken \o SubSeq(in, 1, k)
               rest == SubSeq(in, k + 1, Len(in))
           IN  /\ buf \in Seq(Byte)
               /\ Len(buf) = Len(taken) + k
               /\ \A i \in 1 .. Len(taken) : buf[i] = taken[i]
               /\ \A i \in 1 .. k : buf[Len(taken) + i] = in[i]
               /\ rest \in Seq(Byte)
               /\ Len(rest) = Len(in) - k
               /\ \A i \in 1 .. Len(rest) : rest[i] = in[k + i]
  <1>. DEFINE head == SubSeq(in, 1, k)
              rest == SubSeq(in, k + 1, Len(in))
  <1>1. head \in Seq(Byte) /\ Len(head) = k /\ \A i \in 1 .. k : head[i] = in[i]
    OBVIOUS
  <1>2. rest \in Seq(Byte) /\ Len(rest) = Len(in) - k
        /\ \A i \in 1 .. Len(rest) : rest[i] = in[k + i]
    OBVIOUS
  <1>. HIDE DEF head, rest
  <1>3. taken \o head \in Seq(Byte) /\ Len(taken \o head) = Len(taken) + k
    BY <1>1
  <1>4. \A i \in 1 .. Len(taken) : (taken \o head)[i] = taken[i]
    BY <1>1
  <1>5. \A i \in 1 .. k : (taken \o head)[Len(taken) + i] = in[i]
    BY <1>1
  <1>. QED
    BY <1>1, <1>2, <1>3, <1>4, <1>5 DEF head, rest

\* A chunk is a part of what is left, and fits into the sector buffer.
LEMMA ChunkRange ==
    ASSUME input \in Seq(Byte), input # <<>>, sector_buf \in Seq(Byte),
           Len(sector_buf) < SectorSize
    PROVE  /\ Chunk \in 1 .. Len(input)
           /\ Len(sector_buf) + Chunk <= SectorSize
           /\ Len(sector_buf) + Chunk < SectorSize => Chunk = Len(input)
  <1>1. Len(input) \in Nat \ {0}
    OBVIOUS
  <1>. QED
    BY <1>1, WriterAssumption DEF Chunk

\* Sectors are whole: what does not fit behind an aligned offset finds the
\* partition full.
LEMMA FullAtTheEnd ==
    ASSUME Aligned, ~SectorFits, partition_end = StartOffset + MaxSize
    PROVE  flash_offset >= partition_end
  <1>1. PICK n \in Nat : flash_offset = StartOffset + n * SectorSize
    BY DEF Aligned
  <1>. DEFINE m == MaxSize \div SectorSize
  <1>2. m \in Nat /\ MaxSize = m * SectorSize
    BY PartitionAssumption, WriterAssumption
  <1>. HIDE DEF m
  <1>3. n * SectorSize \in Nat /\ m * SectorSize \in Nat
    BY WriterAssumption, <1>2
  <1>4. (n + 1) * SectorSize = n * SectorSize + SectorSize
    BY WriterAssumption
  <1>5. (n + 1) * SectorSize > m * SectorSize
    BY <1>1, <1>2, <1>3, <1>4, WriterAssumption, PartitionAssumption DEF SectorFits
  <1>6. n >= m
    <2>1. SUFFICES ASSUME n < m PROVE FALSE
      BY <1>2
    <2>2. PICK d \in Nat : m = (n + 1) + d
      BY <2>1, <1>2
    <2>3. m * SectorSize = (n + 1) * SectorSize + d * SectorSize
      BY <2>2, WriterAssumption
    <2>. QED
      BY <2>3, <1>5, <1>3, <1>4, WriterAssumption
  <1>7. n * SectorSize >= m * SectorSize
    <2>1. PICK d \in Nat : n = m + d
      BY <1>6, <1>2
    <2>2. n * SectorSize = m * SectorSize + d * SectorSize
      BY <2>1, <1>2, WriterAssumption
    <2>3. d * SectorSize \in Nat
      BY WriterAssumption
    <2>. QED
      BY <2>2, <2>3, <1>3
  <1>. QED
    BY <1>1, <1>2, <1>3, <1>7, PartitionAssumption

\* Erasing and programming a sector.
LEMMA Program ==
    ASSUME NEW contents \in [Addr -> Byte], NEW offset \in Nat,
           NEW buf \in Seq(Byte)
    PROVE  /\ Programmed(contents, offset, buf) \in [Addr -> Byte]
           /\ \A a \in Addr :
                 a < offset \/ a >= offset + SectorSize
                    => Programmed(contents, offset, buf)[a] = contents[a]
           /\ \A i \in 1 .. Len(buf) :
                 i <= SectorSize /\ offset + i - 1 \in Addr
                    => Programmed(contents, offset, buf)[offset + i - 1] = buf[i]
           /\ \A a \in Addr :
                 offset + Len(buf) <= a /\ a < offset + SectorSize
                    => Programmed(contents, offset, buf)[a] = Erased
  <1>. USE WriterAssumption
  <1>. DEFINE P == Programmed(contents, offset, buf)
  <1>1. \A a \in Addr : /\ a \in Nat
                        /\ P[a] = IF a \in offset .. (offset + SectorSize - 1)
                                  THEN IF a - offset < Len(buf)
                                       THEN buf[a - offset + 1] ELSE Erased
                                  ELSE contents[a]
    BY DEF Programmed
  <1>2. ASSUME NEW a \in Addr PROVE P[a] \in Byte
    <2>1. CASE a \in offset .. (offset + SectorSize - 1) /\ a - offset < Len(buf)
      <3>1. a - offset + 1 \in 1 .. Len(buf)
        BY <2>1
      <3>. QED
        BY <3>1, <2>1, <1>1
    <2>2. CASE ~(a \in offset .. (offset + SectorSize - 1) /\ a - offset < Len(buf))
      BY <2>2, <1>1
    <2>. QED
      BY <2>1, <2>2
  <1>3. P \in [Addr -> Byte]
    BY <1>2 DEF Programmed
  <1>. HIDE DEF P
  <1>4. ASSUME NEW i \in 1 .. Len(buf), i <= SectorSize, offset + i - 1 \in Addr
        PROVE  P[offset + i - 1] = buf[i]
    <2>1. /\ offset + i - 1 \in offset .. (offset + SectorSize - 1)
          /\ (offset + i - 1) - offset < Len(buf)
          /\ (offset + i - 1) - offset + 1 = i
      BY <1>4
    <2>. QED
      BY <2>1, <1>1, <1>4
  <1>5. \A a \in Addr : a < offset \/ a >= offset + SectorSize => P[a] = contents[a]
    BY <1>1
  <1>6. \A a \in Addr : offset + Len(buf) <= a /\ a < offset + SectorSize
                          => P[a] = Erased
    BY <1>1
  <1>. QED
    BY <1>3, <1>4, <1>5, <1>6 DEF P

-----------------------------------------------------------------------------
\* The invariant holds after flash_writer_init.
LEMMA InitInv == Init => WriterInv
  <1>. SUFFICES ASSUME Init PROVE WriterInv
    OBVIOUS
  <1>1. TypeOK
    <2>1. flash \in [Addr -> Byte]
      BY OldFlashAssumption DEF Init
    <2>2. flash_offset \in StartOffset .. (StartOffset + MaxSize)
      BY PartitionAssumption DEF Init
    <2>3. sector_buf \in Seq(Byte) /\ input \in Seq(Byte) /\ stream \in Seq(Byte)
      BY DEF Init
    <2>4. /\ partition_end = StartOffset + MaxSize /\ start = StartOffset
          /\ total_written \in Nat /\ fw_error \in BOOLEAN
          /\ outcome \in {"open", "flushed", "failed"}
      BY DEF Init
    <2>. QED
      BY <2>1, <2>2, <2>3, <2>4 DEF TypeOK
  <1>2. Flushed = 0 /\ Len(sector_buf) = 0 /\ Len(input) = 0
    <2>1. Len(stream) = 0
      BY DEF Init
    <2>2. Len(input) = 0
      BY DEF Init
    <2>3. Len(sector_buf) = 0
      BY DEF Init
    <2>. QED
      BY <2>1, <2>2, <2>3 DEF Flushed
  <1>3. Aligned
    <2>1. flash_offset = StartOffset + 0 * SectorSize
      BY WriterAssumption, PartitionAssumption DEF Init
    <2>. QED
      BY <2>1 DEF Aligned
  <1>4. Room
    BY <1>2, WriterAssumption DEF Init, Room
  <1>5. NothingLost
    BY <1>2, PartitionAssumption DEF Init, NothingLost
  <1>6. ImageIsStream /\ RefusesOnlyTooLong
    BY DEF Init, ImageIsStream, RefusesOnlyTooLong
  <1>. QED
    BY <1>1, <1>3, <1>4, <1>5, <1>6 DEF WriterInv

\* A chunk arrives.
LEMMA ReceiveKeeps == WriterInv /\ Receive => WriterInv'
  <1>. SUFFICES ASSUME WriterInv, Receive PROVE WriterInv'
    OBVIOUS
  <1>. USE DEF WriterInv, Receive, flash_write_call, writerVars
  <1>1. PICK data \in Chunks :
            /\ input = <<>> /\ input' = data /\ stream' = stream \o data
            /\ UNCHANGED <<flash, writerVars, start, outcome>>
    OBVIOUS
  <1>2. data \in Seq(Byte)
    BY ChunkAssumption
  <1>3. /\ stream' \in Seq(Byte)
        /\ Len(stream') = Len(stream) + Len(data)
        /\ \A i \in 1 .. Len(stream) : stream'[i] = stream[i]
        /\ \A i \in 1 .. Len(data) : stream'[Len(stream) + i] = data[i]
    BY <1>1, <1>2 DEF TypeOK
  <1>4. TypeOK'
    BY <1>1, <1>2, <1>3 DEF TypeOK
  <1>5. Flushed' = Flushed /\ Flushed = Len(stream) - Len(sector_buf)
        /\ Flushed \in Nat /\ Len(sector_buf) \in Nat
    BY <1>1, <1>2, <1>3 DEF Flushed, TypeOK, Room
  <1>6. Aligned' /\ Room' /\ ImageIsStream' /\ RefusesOnlyTooLong'
    BY <1>1, <1>5 DEF Aligned, Room, ImageIsStream, RefusesOnlyTooLong
  <1>7. NothingLost'
    <2>1. \A i \in 1 .. Flushed : flash[StartOffset + i - 1] = stream'[i]
      BY <1>3, <1>5, <1>1 DEF NothingLost
    <2>2. \A i \in 1 .. Len(sector_buf) : sector_buf[i] = stream'[Flushed + i]
      <3>. SUFFICES ASSUME NEW i \in 1 .. Len(sector_buf)
                    PROVE  sector_buf[i] = stream'[Flushed + i]
        OBVIOUS
      <3>1. Flushed + i \in 1 .. Len(stream)
        BY <1>5 DEF TypeOK
      <3>. QED
        BY <3>1, <1>3, <1>1 DEF NothingLost
    <2>3. \A i \in 1 .. Len(data) :
             data[i] = stream'[Flushed + Len(sector_buf) + i]
      BY <1>3, <1>5 DEF TypeOK
    <2>. QED
      BY <2>1, <2>2, <2>3, <1>1, <1>5 DEF NothingLost
  <1>. QED
    BY <1>4, <1>6, <1>7

\* What a round of flash_write_cb works on: buf is in the sector buffer, rest
\* of the chunk is left.
InRound(buf, rest) ==
    /\ outcome = "open" /\ ~fw_error
    /\ buf \in Seq(Byte) /\ rest \in Seq(Byte)
    /\ Len(buf) \in 1 .. SectorSize
    /\ Len(stream) = Flushed + Len(buf) + Len(rest)
    /\ \A i \in 1 .. Len(buf) : buf[i] = stream[Flushed + i]
    /\ \A i \in 1 .. Len(rest) : rest[i] = stream[Flushed + Len(buf) + i]

\* A sector that fits continues the image, and its rest is erased.
LEMMA SectorLands ==
    ASSUME WriterInv, outcome = "open", ~fw_error, SectorFits,
           NEW buf \in Seq(Byte), Len(buf) \in 1 .. SectorSize,
           Flushed + Len(buf) <= Len(stream),
           \A i \in 1 .. Len(buf) : buf[i] = stream[Flushed + i],
           flash' = Programmed(flash, flash_offset, buf),
           flash_offset' = flash_offset + SectorSize
    PROVE  /\ flash' \in [Addr -> Byte]
           /\ flash_offset' \in StartOffset .. (StartOffset + MaxSize)
           /\ Aligned'
           /\ \A i \in 1 .. (Flushed + Len(buf)) :
                 flash'[StartOffset + i - 1] = stream[i]
           /\ \A a \in Addr :
                 StartOffset + Flushed + Len(buf) <= a /\ a < flash_offset'
                    => flash'[a] = Erased
  <1>. USE PartitionAssumption, WriterAssumption
  <1>1. /\ flash_offset = StartOffset + Flushed /\ flash_offset \in Nat
        /\ Flushed \in Nat /\ flash \in [Addr -> Byte]
        /\ flash_offset + SectorSize <= StartOffset + MaxSize
        /\ flash_offset \in StartOffset .. (StartOffset + MaxSize)
    BY DEF WriterInv, TypeOK, Room, NothingLost, SectorFits
  <1>2. /\ flash' \in [Addr -> Byte]
        /\ \A a \in Addr :
              a < flash_offset \/ a >= flash_offset + SectorSize
                 => flash'[a] = flash[a]
        /\ \A i \in 1 .. Len(buf) :
              i <= SectorSize /\ flash_offset + i - 1 \in Addr
                 => flash'[flash_offset + i - 1] = buf[i]
        /\ \A a \in Addr :
              flash_offset + Len(buf) <= a /\ a < flash_offset + SectorSize
                 => flash'[a] = Erased
    BY <1>1, Program
  <1>3. Aligned'
    <2>1. PICK n \in Nat : flash_offset = StartOffset + n * SectorSize
      BY DEF WriterInv, Aligned
    <2>2. (n + 1) * SectorSize = n * SectorSize + SectorSize
          /\ n * SectorSize \in Nat /\ n + 1 \in Nat
      OBVIOUS
    <2>3. flash_offset' = StartOffset + (n + 1) * SectorSize
      BY <2>1, <2>2
    <2>4. \E k \in Nat : flash_offset' = StartOffset + k * SectorSize
      BY <2>2, <2>3
    <2>. QED
      BY <2>4 DEF Aligned
  <1>4. ASSUME NEW i \in 1 .. (Flushed + Len(buf))
        PROVE  flash'[StartOffset + i - 1] = stream[i]
    <2>1. CASE i <= Flushed
      <3>1. /\ StartOffset + i - 1 \in Addr /\ StartOffset + i - 1 < flash_offset
            /\ i \in 1 .. Flushed
        BY <1>1, <1>4, <2>1
      <3>2. flash[StartOffset + i - 1] = stream[i]
        BY <3>1 DEF WriterInv, NothingLost
      <3>. QED
        BY <3>1, <3>2, <1>2
    <2>2. CASE i > Flushed
      <3>. DEFINE j == i - Flushed
      <3>1. j \in 1 .. Len(buf) /\ i = Flushed + j
        <4>1. Len(buf) \in Nat /\ i \in Nat /\ i <= Flushed + Len(buf)
          BY <1>1
        <4>. QED
          BY <1>1, <2>2, <4>1
      <3>. HIDE DEF j
      <3>2. /\ StartOffset + i - 1 = flash_offset + j - 1
            /\ flash_offset + j - 1 \in Addr /\ j <= SectorSize
        BY <1>1, <3>1
      <3>. QED
        BY <3>1, <3>2, <1>2
    <2>. QED
      BY <1>1, <2>1, <2>2
  <1>. QED
    BY <1>1, <1>2, <1>3, <1>4

\* A round that does not fill the sector leaves the chunk in the buffer.
LEMMA KeptInBuffer ==
    ASSUME WriterInv, NEW buf, NEW rest, InRound(buf, rest),
           Len(buf) # SectorSize,
           total_written' = Flushed + Len(buf),
           UNCHANGED <<partition_end, start, stream, outcome>>,
           sector_buf' = buf, input' = rest,
           UNCHANGED <<flash, flash_offset, fw_error>>
    PROVE  WriterInv'
  <1>. USE WriterAssumption DEF WriterInv, InRound
  <1>1. Flushed' = Flushed /\ Flushed \in Nat /\ Len(buf) \in Nat
    BY DEF Flushed, Room, TypeOK
  <1>2. TypeOK'
    BY <1>1 DEF TypeOK
  <1>3. NothingLost'
    BY <1>1 DEF NothingLost
  <1>. QED
    BY <1>1, <1>2, <1>3 DEF Aligned, Room, ImageIsStream, RefusesOnlyTooLong

\* A full sector is written.
LEMMA SectorWritten ==
    ASSUME WriterInv, NEW buf, NEW rest, InRound(buf, rest),
           Len(buf) = SectorSize, SectorFits,
           total_written' = Flushed + Len(buf),
           UNCHANGED <<partition_end, start, stream, outcome>>,
           flash' = Programmed(flash, flash_offset, buf),
           flash_offset' = flash_offset + SectorSize,
           sector_buf' = <<>>, input' = rest, UNCHANGED fw_error
    PROVE  WriterInv'
  <1>. USE WriterAssumption, PartitionAssumption DEF InRound
  <1>1. Flushed \in Nat /\ Len(rest) \in Nat /\ flash_offset = StartOffset + Flushed
    BY DEF WriterInv, Room, NothingLost
  <1>2. /\ flash' \in [Addr -> Byte]
        /\ flash_offset' \in StartOffset .. (StartOffset + MaxSize)
        /\ Aligned'
        /\ \A i \in 1 .. (Flushed + Len(buf)) :
              flash'[StartOffset + i - 1] = stream[i]
    <2>1. outcome = "open" /\ ~fw_error /\ buf \in Seq(Byte)
      OBVIOUS
    <2>2. Len(buf) \in 1 .. SectorSize /\ Flushed + Len(buf) <= Len(stream)
      BY <1>1
    <2>3. \A i \in 1 .. Len(buf) : buf[i] = stream[Flushed + i]
      OBVIOUS
    <2>. HIDE DEF InRound
    <2>. QED
      BY <2>1, <2>2, <2>3, SectorLands
  <1>3. Len(sector_buf') = 0
    OBVIOUS
  <1>4. Flushed' = Flushed + Len(buf)
    <2>1. /\ Flushed' = Len(stream') - Len(input') - Len(sector_buf')
          /\ Len(stream') = Len(stream) /\ Len(input') = Len(rest)
      BY DEF Flushed
    <2>2. Len(stream) = Flushed + Len(buf) + Len(rest) /\ Len(buf) \in Nat
      OBVIOUS
    <2>. HIDE DEF InRound
    <2>. QED
      BY <1>1, <1>3, <2>1, <2>2
  <1>5. TypeOK'
    BY <1>1, <1>2 DEF WriterInv, TypeOK
  <1>6. Room'
    BY <1>1, <1>3, <1>4 DEF WriterInv, Room
  <1>7. NothingLost'
    BY <1>1, <1>2, <1>3, <1>4 DEF NothingLost
  <1>8. ImageIsStream' /\ RefusesOnlyTooLong'
    BY DEF WriterInv, ImageIsStream, RefusesOnlyTooLong
  <1>. QED
    BY <1>2, <1>5, <1>6, <1>7, <1>8 DEF WriterInv

\* A full sector that does not fit is refused: more than the partition has
\* arrived.
LEMMA SectorRefused ==
    ASSUME WriterInv, NEW buf, NEW rest, InRound(buf, rest),
           Len(buf) = SectorSize, ~SectorFits,
           total_written' = Flushed + Len(buf),
           UNCHANGED <<partition_end, start, stream, outcome>>,
           sector_buf' = buf, input' = <<>>, fw_error' = TRUE,
           UNCHANGED <<flash, flash_offset>>
    PROVE  WriterInv'
  <1>. USE WriterAssumption, PartitionAssumption DEF InRound
  <1>1. Flushed \in Nat /\ Len(rest) \in Nat /\ flash_offset = StartOffset + Flushed
    BY DEF WriterInv, Room, NothingLost
  <1>2. flash_offset >= StartOffset + MaxSize
    BY FullAtTheEnd DEF WriterInv, TypeOK
  <1>3. Len(stream) > MaxSize
    BY <1>1, <1>2
  <1>4. Len(input') = 0
    OBVIOUS
  <1>5. Flushed' \in Nat
    BY <1>1, <1>4 DEF Flushed
  <1>6. TypeOK'
    BY <1>1 DEF WriterInv, TypeOK
  <1>7. Aligned'
    BY DEF WriterInv, Aligned
  <1>8. Room' /\ NothingLost' /\ ImageIsStream' /\ RefusesOnlyTooLong'
    BY <1>3, <1>5 DEF Room, NothingLost, ImageIsStream, RefusesOnlyTooLong
  <1>. QED
    BY <1>6, <1>7, <1>8 DEF WriterInv

\* The rest of the image is written, padded.
LEMMA RestWritten ==
    ASSUME WriterInv, outcome = "open", input = <<>>, sector_buf # <<>>, SectorFits,
           UNCHANGED <<partition_end, total_written, fw_error, input, start, stream>>,
           flash' = Programmed(flash, flash_offset, sector_buf),
           flash_offset' = flash_offset + SectorSize,
           sector_buf' = <<>>,
           outcome' = IF fw_error THEN "failed" ELSE "flushed"
    PROVE  WriterInv'
  <1>. USE WriterAssumption, PartitionAssumption
  <1>1. /\ Flushed \in Nat /\ Len(input) = 0
        /\ sector_buf \in Seq(Byte) /\ Len(sector_buf) \in 1 .. SectorSize
        /\ Len(stream) = Flushed + Len(sector_buf)
    BY DEF WriterInv, Room, TypeOK, Flushed
  <1>2. flash_offset \in Nat /\ flash_offset >= StartOffset
        /\ flash_offset' \in StartOffset .. (StartOffset + MaxSize)
    BY DEF WriterInv, TypeOK, SectorFits
  <1>3. /\ flash' \in [Addr -> Byte]
        /\ Aligned'
        /\ ~fw_error =>
             /\ \A i \in 1 .. Len(stream) : flash'[StartOffset + i - 1] = stream[i]
             /\ \A a \in Addr :
                   StartOffset + Len(stream) <= a /\ a < flash_offset'
                      => flash'[a] = Erased
             /\ total_written = Len(stream)
    <2>1. flash' \in [Addr -> Byte]
      BY <1>1, <1>2, Program DEF WriterInv, TypeOK
    <2>2. Aligned'
      <3>1. PICK n \in Nat : flash_offset = StartOffset + n * SectorSize
        BY DEF WriterInv, Aligned
      <3>2. (n + 1) * SectorSize = n * SectorSize + SectorSize
            /\ n * SectorSize \in Nat /\ n + 1 \in Nat
        OBVIOUS
      <3>3. flash_offset' = StartOffset + (n + 1) * SectorSize
        BY <3>1, <3>2
      <3>. QED
        BY <3>2, <3>3 DEF Aligned
    <2>3. CASE ~fw_error
      <3>1. /\ \A i \in 1 .. Len(sector_buf) : sector_buf[i] = stream[Flushed + i]
            /\ total_written = Len(stream)
        BY <1>1, <2>3 DEF WriterInv, NothingLost
      <3>. QED
        BY <1>1, <2>1, <2>2, <2>3, <3>1, SectorLands
    <2>. QED
      BY <2>1, <2>2, <2>3
  <1>4. Len(sector_buf') = 0
    OBVIOUS
  <1>5. Flushed' \in Nat
    BY <1>1, <1>4 DEF Flushed
  <1>6. TypeOK'
    BY <1>2, <1>3 DEF WriterInv, TypeOK
  <1>7. Room' /\ NothingLost'
    BY <1>4, <1>5 DEF WriterInv, Room, NothingLost
  <1>8. ImageIsStream'
    BY <1>3 DEF ImageIsStream
  <1>9. RefusesOnlyTooLong'
    BY DEF WriterInv, RefusesOnlyTooLong
  <1>. QED
    BY <1>3, <1>6, <1>7, <1>8, <1>9 DEF WriterInv

\* A round of flash_write_cb.
LEMMA WriteKeeps == WriterInv /\ Write => WriterInv'
  <1>. SUFFICES ASSUME WriterInv, Write PROVE WriterInv'
    OBVIOUS
  <1>. DEFINE buf  == sector_buf \o SubSeq(input, 1, Chunk)
              rest == SubSeq(input, Chunk + 1, Len(input))
  <1>1. TypeOK /\ Room /\ NothingLost
    BY DEF WriterInv
  <1>2. /\ input # <<>> /\ total_written' = total_written + Chunk
        /\ UNCHANGED <<partition_end, start, stream, outcome>>
    BY DEF Write, flash_write_cb
  <1>3. outcome = "open" /\ ~fw_error /\ Len(sector_buf) < SectorSize
    BY <1>1, <1>2 DEF Room, TypeOK
  <1>4. Chunk \in 1 .. Len(input) /\ Len(sector_buf) + Chunk <= SectorSize
    BY <1>1, <1>2, <1>3, ChunkRange DEF TypeOK
  <1>5. /\ buf \in Seq(Byte)
        /\ Len(buf) = Len(sector_buf) + Chunk
        /\ \A i \in 1 .. Len(sector_buf) : buf[i] = sector_buf[i]
        /\ \A i \in 1 .. Chunk : buf[Len(sector_buf) + i] = input[i]
        /\ rest \in Seq(Byte)
        /\ Len(rest) = Len(input) - Chunk
        /\ \A i \in 1 .. Len(rest) : rest[i] = input[Chunk + i]
    BY <1>1, <1>4, Round DEF TypeOK
  <1>6. InRound(buf, rest) /\ total_written' = Flushed + Len(buf)
    <2>. HIDE DEF buf, rest
    <2>1. /\ Flushed \in Nat /\ Len(sector_buf) \in Nat /\ Len(input) \in Nat
          /\ Len(stream) = Flushed + Len(sector_buf) + Len(input)
      BY <1>1 DEF Flushed, Room, TypeOK
    <2>2. ASSUME NEW i \in 1 .. Len(buf) PROVE buf[i] = stream[Flushed + i]
      <3>1. CASE i <= Len(sector_buf)
        BY <1>1, <1>3, <1>5, <2>1, <3>1 DEF NothingLost
      <3>2. CASE i > Len(sector_buf)
        <4>. DEFINE j == i - Len(sector_buf)
        <4>1. j \in 1 .. Chunk /\ i = Len(sector_buf) + j
          BY <1>4, <1>5, <2>1, <3>2
        <4>. HIDE DEF j
        <4>2. j \in 1 .. Len(input) /\ Flushed + Len(sector_buf) + j = Flushed + i
          BY <1>4, <2>1, <4>1
        <4>. QED
          BY <1>1, <1>3, <1>5, <4>1, <4>2 DEF NothingLost
      <3>. QED
        BY <2>1, <3>1, <3>2
    <2>3. ASSUME NEW i \in 1 .. Len(rest)
          PROVE  rest[i] = stream[Flushed + Len(buf) + i]
      <3>1. /\ Chunk + i \in 1 .. Len(input)
            /\ Flushed + Len(sector_buf) + (Chunk + i) = Flushed + Len(buf) + i
        BY <1>4, <1>5, <2>1
      <3>. QED
        BY <1>1, <1>3, <1>5, <3>1 DEF NothingLost
    <2>4. total_written' = Flushed + Len(buf)
      BY <1>1, <1>2, <1>3, <1>4, <1>5, <2>1 DEF NothingLost
    <2>5. Len(buf) \in 1 .. SectorSize /\ Len(stream) = Flushed + Len(buf) + Len(rest)
      BY <1>4, <1>5, <2>1, WriterAssumption
    <2>. QED
      BY <1>3, <1>5, <2>2, <2>3, <2>4, <2>5 DEF InRound
  <1>7. CASE Len(buf) # SectorSize
    <2>1. /\ sector_buf' = buf /\ input' = rest
          /\ UNCHANGED <<flash, flash_offset, fw_error>>
      BY <1>7 DEF Write, flash_write_cb
    <2>. HIDE DEF buf, rest
    <2>. QED
      BY <2>1, <1>2, <1>6, <1>7, KeptInBuffer
  <1>8. CASE Len(buf) = SectorSize /\ SectorFits
    <2>1. Len(buf) # 0
      BY <1>8, WriterAssumption
    <2>2. buf # <<>>
      <3>. HIDE DEF buf
      <3>. QED
        BY <2>1
    <2>3. /\ flash' = Programmed(flash, flash_offset, buf)
          /\ flash_offset' = flash_offset + SectorSize
          /\ sector_buf' = <<>> /\ input' = rest /\ UNCHANGED fw_error
      BY <1>8, <2>2 DEF Write, flash_write_cb, flash_writer_flush, FlushSucceeds
    <2>. HIDE DEF buf, rest
    <2>. QED
      BY <2>3, <1>2, <1>6, <1>8, SectorWritten
  <1>9. CASE Len(buf) = SectorSize /\ ~SectorFits
    <2>1. Len(buf) # 0
      BY <1>9, WriterAssumption
    <2>2. buf # <<>>
      <3>. HIDE DEF buf
      <3>. QED
        BY <2>1
    <2>3. /\ sector_buf' = buf /\ input' = <<>> /\ fw_error' = TRUE
          /\ UNCHANGED <<flash, flash_offset>>
      BY <1>9, <2>2 DEF Write, flash_write_cb, flash_writer_flush, FlushSucceeds
    <2>. HIDE DEF buf, rest
    <2>. QED
      BY <2>3, <1>2, <1>6, <1>9, SectorRefused
  <1>. QED
    BY <1>7, <1>8, <1>9

\* The last flush of ota_update_check_and_apply.
LEMMA FlushKeeps == WriterInv /\ FlushRemaining => WriterInv'
  <1>. SUFFICES ASSUME WriterInv, FlushRemaining PROVE WriterInv'
    OBVIOUS
  <1>. USE PartitionAssumption, WriterAssumption
  <1>1. TypeOK /\ Aligned /\ Room /\ NothingLost /\ RefusesOnlyTooLong
    BY DEF WriterInv
  <1>2. /\ outcome = "open" /\ input = <<>>
        /\ UNCHANGED <<partition_end, total_written, fw_error, input, start, stream>>
    BY DEF FlushRemaining
  <1>3. Len(input) = 0 /\ Flushed = Len(stream) - Len(sector_buf)
        /\ Flushed \in Nat /\ Len(sector_buf) \in Nat /\ Len(stream) \in Nat
    BY <1>1, <1>2 DEF Flushed, TypeOK, Room
  <1>4. CASE sector_buf = <<>>
    <2>1. UNCHANGED <<flash, flash_offset, sector_buf>>
      BY <1>4 DEF FlushRemaining, flash_writer_flush
    <2>2. outcome' = IF fw_error THEN "failed" ELSE "flushed"
      BY <1>4 DEF FlushRemaining, FlushSucceeds
    <2>3. Len(sector_buf) = 0
      BY <1>4
    <2>4. TypeOK'
      BY <1>1, <1>2, <2>1, <2>2 DEF TypeOK
    <2>5. Aligned' /\ Room' /\ NothingLost' /\ RefusesOnlyTooLong'
      BY <1>1, <1>2, <2>1, <2>2
         DEF Aligned, Room, Flushed, NothingLost, RefusesOnlyTooLong
    <2>6. ImageIsStream'
      BY <1>1, <1>2, <1>3, <2>1, <2>2, <2>3 DEF ImageIsStream, NothingLost, TypeOK
    <2>. QED
      BY <2>4, <2>5, <2>6 DEF WriterInv
  <1>5. CASE sector_buf # <<>> /\ SectorFits
    <2>1. /\ flash' = Programmed(flash, flash_offset, sector_buf)
          /\ flash_offset' = flash_offset + SectorSize
          /\ sector_buf' = <<>>
          /\ outcome' = IF fw_error THEN "failed" ELSE "flushed"
      BY <1>5 DEF FlushRemaining, flash_writer_flush, FlushSucceeds
    <2>. QED
      BY <2>1, <1>2, <1>5, RestWritten
  <1>6. CASE sector_buf # <<>> /\ ~SectorFits
    <2>1. UNCHANGED <<flash, flash_offset, sector_buf>> /\ outcome' = "failed"
      BY <1>6 DEF FlushRemaining, flash_writer_flush, FlushSucceeds
    <2>2. TypeOK'
      BY <1>1, <1>2, <2>1 DEF TypeOK
    <2>3. Len(sector_buf) > 0
      BY <1>1, <1>6 DEF TypeOK
    <2>4. flash_offset >= StartOffset + MaxSize
      BY <1>1, <1>6, FullAtTheEnd DEF TypeOK
    <2>5. ~fw_error => Len(stream) > MaxSize
      BY <1>1, <1>2, <1>3, <2>3, <2>4 DEF NothingLost, TypeOK
    <2>6. RefusesOnlyTooLong'
      BY <1>1, <1>2, <2>5 DEF RefusesOnlyTooLong
    <2>. QED
      BY <1>1, <1>2, <2>1, <2>2, <2>6
         DEF WriterInv, Aligned, Room, Flushed, NothingLost, ImageIsStream
  <1>. QED
    BY <1>4, <1>5, <1>6

\* A step that changes nothing keeps the invariant.
LEMMA StutterKeeps == WriterInv /\ UNCHANGED vars => WriterInv'
  BY DEF WriterInv, TypeOK, Aligned, Room, Flushed, NothingLost, ImageIsStream,
         RefusesOnlyTooLong, vars, fwVars, writerVars

\* The invariant is inductive, and so holds of every download.
THEOREM InvHolds == Spec => []WriterInv
  <1>1. WriterInv /\ [Next]_vars => WriterInv'
    BY ReceiveKeeps, WriteKeeps, FlushKeeps, StutterKeeps DEF Next
  <1>. QED
    BY InitInv, <1>1, PTL DEF Spec

\* Type correctness; above all, the write offset never leaves the partition.
THEOREM TypeCorrect == Spec => []TypeOK
  BY InvHolds, PTL DEF WriterInv

\* However the stream is cut into chunks, every byte of it is in the flash,
\* in the buffer or in the rest of the chunk, in order.
THEOREM NothingIsLost == Spec => []NothingLost
  BY InvHolds, PTL DEF WriterInv

\* A flushed image is the stream, padded with the erased state.
THEOREM ImageIsWhole == Spec => []ImageIsStream
  BY InvHolds, PTL DEF WriterInv

\* The writer refuses only what is longer than the partition.
THEOREM RefusalsAreJust == Spec => []RefusesOnlyTooLong
  BY InvHolds, PTL DEF WriterInv

\* Nothing outside the partition is written.
THEOREM WritesStayInside == Spec => StaysInPartition
  <1>. DEFINE Untouched == \A a \in Addr :
                 a < StartOffset \/ a >= StartOffset + MaxSize
                     => flash'[a] = flash[a]
  <1>1. ASSUME TypeOK, NEW buf \in Seq(Byte), SectorFits,
               flash' = Programmed(flash, flash_offset, buf)
        PROVE  Untouched
    <2>1. flash_offset \in Nat /\ flash_offset >= StartOffset
          /\ flash_offset + SectorSize <= StartOffset + MaxSize
      BY <1>1, PartitionAssumption DEF TypeOK, SectorFits
    <2>2. \A a \in Addr :
             a < flash_offset \/ a >= flash_offset + SectorSize
                => flash'[a] = flash[a]
      BY <1>1, <2>1, Program DEF TypeOK
    <2>. QED
      BY <2>1, <2>2, PartitionAssumption, WriterAssumption
  <1>2. ASSUME WriterInv, Write PROVE Untouched
    <2>. DEFINE buf == sector_buf \o SubSeq(input, 1, Chunk)
    <2>1. flash' = flash \/ (SectorFits /\ flash' = Programmed(flash, flash_offset, buf))
      BY <1>2 DEF Write, flash_write_cb, flash_writer_flush
    <2>2. buf \in Seq(Byte)
      <3>1. Chunk \in 1 .. Len(input)
        BY <1>2, ChunkRange DEF WriterInv, TypeOK, Room, Write, flash_write_cb
      <3>. QED
        BY <1>2, <3>1, Round DEF WriterInv, TypeOK
    <2>. HIDE DEF buf, Untouched
    <2>3. flash' = flash => Untouched
      BY DEF Untouched
    <2>. QED
      BY <1>1, <1>2, <2>1, <2>2, <2>3 DEF WriterInv
  <1>3. ASSUME WriterInv, FlushRemaining PROVE Untouched
    <2>1. flash' = flash
          \/ (SectorFits /\ flash' = Programmed(flash, flash_offset, sector_buf))
      BY <1>3 DEF FlushRemaining, flash_writer_flush
    <2>2. sector_buf \in Seq(Byte)
      BY <1>3 DEF WriterInv, TypeOK
    <2>. HIDE DEF Untouched
    <2>3. flash' = flash => Untouched
      BY DEF Untouched
    <2>. QED
      BY <1>1, <1>3, <2>1, <2>2, <2>3 DEF WriterInv
  <1>4. ASSUME Receive \/ UNCHANGED vars PROVE Untouched
    BY <1>4 DEF Receive, flash_write_call, vars, fwVars
  <1>5. WriterInv /\ [Next]_vars => [Untouched]_vars
    BY <1>2, <1>3, <1>4 DEF Next
  <1>. QED
    BY <1>5, InvHolds, PTL DEF Spec, StaysInPartition

=============================================================================
