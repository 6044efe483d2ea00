--------------------------- MODULE PlatformDigest ---------------------------
(***************************************************************************)
(* The commands that change the flash (PlatformFlash) and the ones that    *)
(* read it, one at a time as main runs them: digests, which are computed   *)
(* at FLASH_BASE + off, and uploads through stub_flash_read.  The CRC of   *)
(* the RDA5981 is computed step by step (RdaCrc), the other digests in one *)
(* step.  All of them are answered with SUCCESS, whatever the function of  *)
(* the platform has returned.                                              *)
(***************************************************************************)
EXTENDS PlatformFlash, RdaCrc

CONSTANT ReadRanges   \* the ranges that are read

ASSUME ReadRangesAssumption ==
    /\ ReadRanges \subseteq [src : Nat, len : Nat]
    /\ \A r \in ReadRanges : r.len > 0 /\ r.src + r.len <= FlashBytes

(* The platforms with a sha256_memory_hardware of their own.               *)
Hashing == {"OPL1000A2", "ECR6600", "RTL8710B", "RTL8710C", "RTL8720E",
            "RTL8721DA", "GD32VW553"}

VARIABLE result   \* the last answer: kind, src, len, the bytes it was made of,
                  \* and whether the function of the platform returned 1

vars == <<flashVars, crcVars, result>>

NoResult == [kind |-> "none", src |-> 0, len |-> 0, bytes |-> <<>>, ok |-> TRUE]

Init == FlashInit /\ CrcInit /\ result = NoResult

ChipBytes(src, len) ==
    [i \in 1 .. len |-> [at |-> src + i - 1, is |-> flash[(src + i - 1) \div LineBytes]]]
MappedBytes(src, len) ==
    [i \in 1 .. len |-> [at |-> src + i - 1, is |-> Mapped((src + i - 1) \div LineBytes)]]

MainLoopFree == job.pc = "idle" /\ crc.pc = "idle"

(* What is sent when nothing of the range was looked at: the CRC 0, or 32  *)
(* bytes of whatever cmd_buf holds.                                        *)
Unread(src, len) == [i \in 1 .. len |-> [at |-> src + i - 1, is |-> "unread"]]

Crc32(src, len) ==
    /\ MainLoopFree /\ platform # "RDA5981"
    /\ result' = [kind |-> "crc32", src |-> src, len |-> len,
                  bytes |-> MappedBytes(src, len), ok |-> TRUE]
    /\ cache' = Filled(LinesOf(src, len))
    /\ UNCHANGED <<platform, flash, job, before, settled, faults, jobs, crcVars>>

(* The CRC unit of the W800 does not finish in time. *)
Crc32Fails(src, len) ==
    /\ MainLoopFree /\ platform = "W800"
    /\ result' = [kind |-> "crc32", src |-> src, len |-> len,
                  bytes |-> Unread(src, len), ok |-> FALSE]
    /\ UNCHANGED <<flashVars, crcVars>>

(* The weak sha256_memory_hardware returns 0 and touches nothing.          *)
Sha256(src, len) ==
    /\ MainLoopFree
    /\ LET hashes == platform \in Hashing
       IN  /\ result' = [kind |-> "sha256", src |-> src, len |-> len,
                         bytes |-> IF hashes THEN MappedBytes(src, len)
                                   ELSE Unread(src, len),
                         ok |-> hashes]
           /\ cache' = IF hashes THEN Filled(LinesOf(src, len)) ELSE cache
    /\ UNCHANGED <<platform, flash, job, before, settled, faults, jobs, crcVars>>

(* stub_flash_read(dest, off, len): the weak one adds FLASH_BASE, the one  *)
(* of the OPL1000A2 takes an address below it for RAM.                     *)
Upload(src, len) ==
    /\ MainLoopFree
    /\ result' = [kind |-> "upload", src |-> src, len |-> len,
                  bytes |-> IF platform = "OPL1000A2"
                            THEN [i \in 1 .. len |-> [at |-> src + i - 1, is |-> "ram"]]
                            ELSE MappedBytes(src, len),
                  ok |-> TRUE]
    /\ cache' = Filled(LinesOf(src, len))
    /\ UNCHANGED <<platform, flash, job, before, settled, faults, jobs, crcVars>>

CrcBegin(src, len) ==
    /\ MainLoopFree /\ platform = "RDA5981"
    /\ Begin(src, len)
    /\ result' = [NoResult EXCEPT !.src = src, !.len = len]
    /\ UNCHANGED flashVars

CrcReads ==
    LET n == IF crc.pc = "copy" THEN ChunkBytes ELSE crc.tail
    IN  /\ CopyChunk(MappedBytes(crc.src, n)) \/ CopyTail(MappedBytes(crc.src, n))
        /\ cache' = Filled(LinesOf(crc.src, n))
        /\ UNCHANGED <<platform, flash, job, before, settled, faults, jobs, result>>

CrcRuns == /\ StartChunk \/ StartTail \/ NoTail \/ DmaStep
           /\ UNCHANGED <<flashVars, result>>

CrcEnds ==
    /\ Finished
    /\ result' = [result EXCEPT !.kind = "crc32", !.bytes = CrcResult]
    /\ crc' = NoCrc /\ dma' = NoDma /\ fed' = <<>> /\ buf' = [h \in {0, 1} |-> <<>>]
    /\ UNCHANGED flashVars

Next ==
    \/ \E r \in ReadRanges : \/ Crc32(r.src, r.len)
                             \/ Crc32Fails(r.src, r.len)
                             \/ Sha256(r.src, r.len)
                             \/ Upload(r.src, r.len)
                             \/ CrcBegin(r.src, r.len)
    \/ CrcReads \/ CrcRuns \/ CrcEnds
    \/ crc.pc = "idle" /\ FlashNext /\ result' = NoResult /\ UNCHANGED crcVars

Spec == Init /\ [][Next]_vars

-----------------------------------------------------------------------------
(* Where an answer cannot be relied on, though it says SUCCESS:            *)
(*   - the function of the platform has returned 0: the weak SHA256 of the *)
(*     W800, TR6260, RTL8720D, LN882H, LN8825 and RDA5981, or a CRC unit of *)
(*     the W800 that was not ready in time;                                *)
(*   - the RTL8710C invalidates at the flash offset, not at FLASH_BASE plus*)
(*     the offset: what was cached stays;                                  *)
(*   - the RDA5981 and the RTL8710B flush after a page program only;       *)
(*   - the RTL8720D, RTL8720E and RTL8721DA drop the lines of the range, and*)
(*     the rest of its last sector stays in the cache;                     *)
(*   - the CRC of the RDA5981 with a tail after its whole chunks: the tail *)
(*     is copied over the half the DMA is reading, and a tail without whole*)
(*     words forgets the chunks;                                           *)
(*   - an upload of the OPL1000A2 reads RAM.                               *)
Flushed == \/ platform \notin OnProgram \/ jobs = 0
           \/ job.op = "write" /\ job.programmed

WholeCrc == \/ platform # "RDA5981" \/ result.kind # "crc32"
            \/ result.len < ChunkBytes \/ result.len % ChunkBytes = 0

Reliable ==
    /\ result.ok
    /\ platform # "RTL8710C" \/ jobs = 0
    /\ Flushed
    /\ WholeCrc
    /\ platform = "OPL1000A2" => result.kind # "upload"
    /\ platform \in ByRange => LinesOf(result.src, result.len) \subseteq settled

(* Everywhere else an upload, a CRC32 and a SHA256 are of what the chip    *)
(* holds, whatever was erased, programmed and read before, each byte of the*)
(* range once and in order (crc32_memory, sha256_memory_hardware, the      *)
(* invalidations of flash_erase_range and flash_program_page).             *)
ReadsReturnChip ==
    (result.kind # "none" /\ Reliable) =>
        result.bytes = ChipBytes(result.src, result.len)
=============================================================================
