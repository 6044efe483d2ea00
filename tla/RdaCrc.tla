------------------------------- MODULE RdaCrc -------------------------------
(***************************************************************************)
(* crc32_memory of the RDA5981: the CPU copies the range in chunks into the*)
(* halves of cmd_buf while the DMA engine feeds the other half to its CRC  *)
(* unit; the last bytes are added by the CPU.  A CRC is represented by the *)
(* sequence of bytes it was computed of.                                   *)
(***************************************************************************)
EXTENDS Integers, Sequences

CONSTANTS ChunkBytes   \* CRC_CHUNK_SIZE, half of cmd_buf

WordBytes == 4

ASSUME RdaCrcAssumption == ChunkBytes \in Nat \ {0} /\ ChunkBytes % WordBytes = 0

VARIABLES crc,   \* where crc32_memory is: pc, src, chunks, tail, cur, active
          buf,   \* the two halves of cmd_buf
          dma,   \* the half and the words of the transfer, and the words done
          fed    \* the bytes the CRC unit has been fed

crcVars == <<crc, buf, dma, fed>>

NoCrc == [pc |-> "idle", src |-> 0, chunks |-> 0, tail |-> 0, cur |-> 0,
          active |-> FALSE]
NoDma == [half |-> 0, words |-> 0, done |-> 0]

CrcInit == /\ crc = NoCrc
           /\ buf = [h \in {0, 1} |-> <<>>]
           /\ dma = NoDma
           /\ fed = <<>>

DmaDone == dma.done = dma.words

Begin(src, len) ==
    LET chunks == len \div ChunkBytes
    IN  /\ crc' = [NoCrc EXCEPT !.src = src, !.chunks = chunks,
                                !.tail = len % ChunkBytes,
                                !.pc = IF chunks > 0 THEN "copy" ELSE "tail"]
        /\ fed' = <<>>
        /\ UNCHANGED <<buf, dma>>

(* memcpy(buf[cur], src, CRC_CHUNK_SIZE); bytes is what the CPU reads. *)
CopyChunk(bytes) ==
    /\ crc.pc = "copy"
    /\ buf' = [buf EXCEPT ![crc.cur] = bytes]
    /\ crc' = [crc EXCEPT !.pc = "start", !.src = @ + ChunkBytes]
    /\ UNCHANGED <<dma, fed>>

StartChunkEarly ==                       (* fault: the transfer is not awaited *)
    /\ crc.pc = "start"
    /\ dma' = [half |-> crc.cur, words |-> ChunkBytes \div WordBytes, done |-> 0]
    /\ crc' = [crc EXCEPT !.active = TRUE, !.cur = 1 - @, !.chunks = @ - 1,
                          !.pc = IF crc.chunks > 1 THEN "copy" ELSE "tail"]
    /\ UNCHANGED <<buf, fed>>

(* The first transfer starts at once, the others after dma_wait. *)
StartChunk ==
    /\ crc.pc = "start"
    /\ crc.active => DmaDone
    /\ dma' = [half |-> crc.cur, words |-> ChunkBytes \div WordBytes, done |-> 0]
    /\ crc' = [crc EXCEPT !.active = TRUE, !.cur = 1 - @, !.chunks = @ - 1,
                          !.pc = IF crc.chunks > 1 THEN "copy" ELSE "tail"]
    /\ UNCHANGED <<buf, fed>>

(* The tail goes to the half that was started last, before dma_wait. *)
CopyTail(bytes) ==
    /\ crc.pc = "tail" /\ crc.tail > 0
    /\ LET h == 1 - crc.cur
       IN  buf' = [buf EXCEPT ![h] =
                      bytes \o SubSeq(@, Len(bytes) + 1, Len(@))]
    /\ crc' = [crc EXCEPT !.pc = "starttail"]
    /\ UNCHANGED <<dma, fed>>

StartTail ==
    /\ crc.pc = "starttail"
    /\ crc.active => DmaDone
    /\ LET words == crc.tail \div WordBytes
       IN  /\ dma' = IF words > 0
                     THEN [half |-> 1 - crc.cur, words |-> words, done |-> 0]
                     ELSE dma
           /\ crc' = [crc EXCEPT !.active = words > 0, !.pc = "finish"]
    /\ UNCHANGED <<buf, fed>>

NoTail ==
    /\ crc.pc = "tail" /\ crc.tail = 0
    /\ crc' = [crc EXCEPT !.pc = "finish"]
    /\ UNCHANGED <<buf, dma, fed>>

(* The bytes the result stands for: with a tail that is shorter than a     *)
(* word, the CRC starts again from 0xFFFFFFFF.                             *)
TailBytes ==
    SubSeq(buf[1 - crc.cur], (crc.tail - (crc.tail % WordBytes)) + 1, crc.tail)
CrcResult ==
    IF crc.tail % WordBytes = 0 THEN fed
    ELSE IF crc.active THEN fed \o TailBytes
    ELSE TailBytes

Finished == crc.pc = "finish" /\ (crc.active => DmaDone)

(* The DMA engine reads the next word of its half. *)
DmaStep ==
    /\ dma.done < dma.words
    /\ fed' = fed \o SubSeq(buf[dma.half], WordBytes * dma.done + 1,
                                           WordBytes * (dma.done + 1))
    /\ dma' = [dma EXCEPT !.done = @ + 1]
    /\ UNCHANGED <<crc, buf>>
=============================================================================
