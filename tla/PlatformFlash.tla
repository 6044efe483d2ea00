--------------------------- MODULE PlatformFlash ---------------------------
(***************************************************************************)
(* flash_erase_range, flash_program_page and flash_erase_chip of the       *)
(* thirteen platforms, between the commands that call them and the chip:   *)
(* how each walks the range it erases, what it does when its SPI bus is    *)
(* not ready, and which lines of the data cache it invalidates afterwards. *)
(* The digests and reads of the stub see the flash through that cache.     *)
(*                                                                         *)
(* Addresses are bytes; contents are kept per cache line, as "old" (what   *)
(* the chip held), "blank", "new" (what a write puts there) or "garbled" (a*)
(* program over contents that were not erased).  Arithmetic does not wrap  *)
(* here: CommandLoop has the ranges that do.                               *)
(***************************************************************************)
EXTENDS Integers, Sequences

CONSTANTS FlashBytes,   \* size of the chip
          LineBytes,    \* cache line (32)
          PageBytes,    \* FLASH_PAGE_SIZE (256)
          SectorBytes,  \* FLASH_SECTOR_SIZE (4096)
          HalfBlockBytes, \* FALSH_SIZE_BLOCK_32K of the LN882H and LN8825
          BlockBytes,   \* FLASH_BLOCK_SIZE (65536)
          Protected,    \* FLASH_WRITE_MIN_OFFSET
          Platforms,    \* the platforms of this instance
          EraseRanges,  \* the ranges erase commands name: [src, len]
          WriteRanges,  \* the ranges that are written, page-aligned
          MaxJobs,      \* bound on the commands that change the flash
          MaxFaults     \* bound on the times the SPI bus is not ready

(* The platforms that test the arguments of an erase first, the two whose  *)
(* walk is in their vendor's driver, and the one whose walk is in its ROM. *)
Refusing == {"RTL8710B", "RTL8710C", "RTL8720D", "RTL8720E", "RTL8721DA",
             "ECR6600", "TR6260", "OPL1000A2"}
Lightning == {"LN882H", "LN8825"}
Library  == {"GD32VW553"}
SpiDriven == {"ECR6600", "TR6260"}

(* What is invalidated after an erase and after a page program. *)
ByRange == {"RTL8720D", "RTL8720E", "RTL8721DA"}
Whole   == {"LN882H", "LN8825", "ECR6600", "TR6260"}
OnProgram == {"RDA5981", "RTL8710B"}
Cached  == ByRange \cup Whole \cup OnProgram \cup {"RTL8710C"}

Known == Refusing \cup Lightning \cup Library \cup {"W800", "RDA5981"}

ASSUME PlatformFlashAssumption ==
    /\ {LineBytes, PageBytes, SectorBytes, HalfBlockBytes, BlockBytes} \subseteq Nat \ {0}
    /\ {FlashBytes, Protected, MaxJobs, MaxFaults} \subseteq Nat
    /\ PageBytes % LineBytes = 0
    /\ SectorBytes % PageBytes = 0
    /\ HalfBlockBytes % SectorBytes = 0 /\ BlockBytes % SectorBytes = 0
    /\ FlashBytes % SectorBytes = 0
    /\ Protected % SectorBytes = 0 /\ Protected <= FlashBytes
    /\ Platforms \subseteq Known
    /\ EraseRanges \cup WriteRanges \subseteq [src : Nat, len : Nat]
    /\ \A r \in EraseRanges \cup WriteRanges : r.src + r.len <= FlashBytes
    /\ \A r \in WriteRanges : r.src % PageBytes = 0 /\ r.len > 0

VARIABLES platform,  \* the platform of this behaviour
          flash,     \* contents of every line of the chip
          cache,     \* what the data cache holds of every line, or "none"
          job,       \* the command at hand, and how far it has come
          before,    \* history: the flash when the command began
          settled,   \* history: lines no command has touched beyond its range
          faults, jobs

flashVars == <<platform, flash, cache, job, before, settled, faults, jobs>>

Lines    == 0 .. (FlashBytes \div LineBytes) - 1
Contents == {"old", "blank", "new", "garbled"}

LinesOf(a, n) ==
    {l \in Lines : LineBytes * l < a + n /\ a < LineBytes * (l + 1)}
Around(a, size) == {l \in Lines : (LineBytes * l) \div size = a \div size}
Spread(a, n, size) == UNION {Around(LineBytes * l, size) : l \in LinesOf(a, n)}
Sectors(a, n) == Spread(a, n, SectorBytes)

NoJob == [op |-> "none", pc |-> "idle", src |-> 0, len |-> 0, cur |-> 0,
          saved |-> <<>>, ok |-> TRUE, programmed |-> FALSE, skipped |-> FALSE]

FlashInit ==
    /\ platform \in Platforms
    /\ flash = [l \in Lines |-> "old"]
    /\ cache = [l \in Lines |-> "none"]
    /\ job = NoJob
    /\ before = flash
    /\ settled = Lines
    /\ faults = 0 /\ jobs = 0

(* A read of the memory-mapped flash. *)
Mapped(l) ==
    IF platform \in Cached /\ cache[l] # "none" THEN cache[l] ELSE flash[l]
Filled(lines) ==
    [l \in Lines |-> IF platform \in Cached /\ l \in lines THEN Mapped(l)
                     ELSE cache[l]]
Without(c, lines) == [l \in Lines |-> IF l \in lines THEN "none" ELSE c[l]]

ErasedLinesKept(src, len) ==                     (* fault: no invalidation *)
    IF platform \in Whole THEN Lines ELSE {}

(* DCache_Invalidate(FLASH_BASE + src, len), or the whole cache. *)
ErasedLinesDropped(src, len) ==
    CASE platform \in Whole   -> Lines
      [] platform \in ByRange -> LinesOf(src, len)
      [] OTHER                -> {}

ProgrammedLinesDropped(page) ==
    CASE platform \in Whole \cup OnProgram -> Lines
      [] platform \in ByRange -> LinesOf(page, PageBytes)
      [] OTHER                -> {}

ChipLinesDropped ==
    IF platform \in Whole \cup ByRange THEN Lines ELSE {}

Blanked(f, lines) == [l \in Lines |-> IF l \in lines THEN "blank" ELSE f[l]]
Over(old, data) == IF old = "blank" THEN data ELSE "garbled"

-----------------------------------------------------------------------------
(* flash_erase_range.                                                      *)

Refused(src, len) == platform \in Refusing /\ (src % 4 # 0 \/ len = 0)

(* The RDA5981 first aligns the range: 64 KiB blocks between a64k and      *)
(* a64kend, 4 KiB sectors around them.                                     *)
Down(a, size) == (a \div size) * size
Up(a, size)   == Down(a + size - 1, size)
WalkStart(src) == IF platform = "RDA5981" THEN Down(src, SectorBytes) ELSE src

(* hal_flash_erase (LN882H) and FLASH_Erase (LN8825), from 32 KiB on: the  *)
(* whole sectors there are before the next 32 KiB boundary, 32 KiB blocks, *)
(* and sectors for the rest, each from where the one before it ended.  Off *)
(* a sector boundary the blocks do not start at the boundary either.       *)
Tailing(src) == Down(src, HalfBlockBytes) + HalfBlockBytes - src
Remainder(src, len) == IF len >= HalfBlockBytes THEN len - Tailing(src) ELSE len
BlocksFrom(src, len) ==
    IF len >= HalfBlockBytes THEN src + Down(Tailing(src), SectorBytes) ELSE src
BlocksEnd(src, len) ==
    BlocksFrom(src, len) + Down(Remainder(src, len), HalfBlockBytes)
LightningEnd(src, len) ==
    BlocksEnd(src, len) + Up(Remainder(src, len) % HalfBlockBytes, SectorBytes)

WalkEnd(src, len) ==
    CASE len = 0               -> WalkStart(src)
      [] len # 0 /\ platform = "RDA5981"    -> Up(src + len, SectorBytes)
      [] len # 0 /\ platform \in Lightning -> LightningEnd(src, len)
      [] OTHER                 -> src + len

EraseSizeUnbounded(src, len, cur) ==         (* fault: the end is not asked *)
    IF platform # "OPL1000A2" /\ cur % BlockBytes = 0 THEN BlockBytes ELSE SectorBytes

(* When the iteration at cur erases more than a sector, and what it erases.*)
InBlocks(src, len, cur) ==
    CASE platform = "RDA5981"     -> /\ Up(src, BlockBytes) <= cur
                                     /\ cur < Down(src + len, BlockBytes)
      [] platform \in Lightning   -> /\ BlocksFrom(src, len) <= cur
                                     /\ cur < BlocksEnd(src, len)
      [] platform = "OPL1000A2"   -> FALSE
      [] OTHER -> cur % BlockBytes = 0 /\ src + len - cur >= BlockBytes

EraseSize(src, len, cur) ==
    IF ~InBlocks(src, len, cur) THEN SectorBytes
    ELSE IF platform \in Lightning THEN HalfBlockBytes ELSE BlockBytes

Start(op, src, len) ==
    /\ job.pc = "idle" /\ jobs < MaxJobs
    /\ jobs' = jobs + 1
    /\ before' = flash
    /\ job' = IF Refused(src, len)
              THEN [NoJob EXCEPT !.op = op, !.src = src, !.len = len, !.ok = FALSE]
              ELSE [NoJob EXCEPT !.op = op, !.src = src, !.len = len,
                                 !.pc = "erase", !.cur = WalkStart(src)]
    /\ UNCHANGED <<platform, flash, cache, settled, faults>>

EraseNext ==
    /\ job.pc = "erase" /\ platform \notin Library
    /\ job.cur < WalkEnd(job.src, job.len)
    /\ LET size == EraseSize(job.src, job.len, job.cur)
       IN  /\ flash' = Blanked(flash, Around(job.cur, size))
           /\ job' = [job EXCEPT !.cur = @ + size]
    /\ UNCHANGED <<platform, cache, before, settled, faults, jobs>>

(* flash_erase_cmd gives up when the bus is not ready; nobody looks. *)
EraseSkipped ==
    /\ job.pc = "erase" /\ platform \in SpiDriven /\ faults < MaxFaults
    /\ job.cur < WalkEnd(job.src, job.len)
    /\ faults' = faults + 1
    /\ job' = [job EXCEPT !.cur = @ + EraseSize(job.src, job.len, job.cur),
                          !.skipped = TRUE]
    /\ UNCHANGED <<platform, flash, cache, before, settled, jobs>>

(* rom_flash_erase of the GD32VW553, which is not in the sources, is taken *)
(* to erase the sectors the range touches.                                 *)
LibraryErase ==
    /\ job.pc = "erase" /\ platform \in Library
    /\ job.cur < WalkEnd(job.src, job.len)
    /\ flash' = Blanked(flash, Sectors(job.src, job.len))
    /\ job' = [job EXCEPT !.cur = job.src + job.len]
    /\ UNCHANGED <<platform, cache, before, settled, faults, jobs>>

(* The lines a finished command has left to be read back. *)
Settled == (settled \ Sectors(job.src, job.len)) \cup LinesOf(job.src, job.len)

EraseEnd ==
    /\ job.pc = "erase"
    /\ job.cur >= WalkEnd(job.src, job.len)
    /\ cache' = Without(cache, ErasedLinesDropped(job.src, job.len))
    /\ settled' = Settled
    /\ job' = IF job.op = "write" THEN [job EXCEPT !.pc = "program", !.cur = job.src]
              ELSE [job EXCEPT !.pc = "idle"]
    /\ UNCHANGED <<platform, flash, before, faults, jobs>>

-----------------------------------------------------------------------------
(* The page programs of a write, in the order of its pages; a page of 0xFF *)
(* is not programmed.                                                      *)

PageLines == {l \in LinesOf(job.cur, PageBytes) : LineBytes * l < job.src + job.len}

NextPage == IF job.cur + PageBytes < job.src + job.len
            THEN [job EXCEPT !.cur = @ + PageBytes]
            ELSE [job EXCEPT !.pc = "idle"]

ProgramPage ==
    /\ job.pc = "program"
    /\ flash' = [l \in Lines |-> IF l \in PageLines THEN Over(flash[l], "new")
                                 ELSE flash[l]]
    /\ cache' = Without(cache, ProgrammedLinesDropped(job.cur))
    /\ job' = [NextPage EXCEPT !.programmed = TRUE]
    /\ UNCHANGED <<platform, before, settled, faults, jobs>>

BlankPage ==
    /\ job.pc = "program"
    /\ job' = NextPage
    /\ UNCHANGED <<platform, flash, cache, before, settled, faults, jobs>>

(* flash_program_page returns when the bus is not ready. *)
ProgramSkipped ==
    /\ job.pc = "program" /\ platform \in SpiDriven /\ faults < MaxFaults
    /\ faults' = faults + 1
    /\ job' = [NextPage EXCEPT !.skipped = TRUE]
    /\ UNCHANGED <<platform, flash, cache, before, settled, jobs>>

-----------------------------------------------------------------------------
(* flash_erase_chip: a range on the W800 and the OPL1000A2; the RDA5981    *)
(* saves its first sector and writes it back.                              *)

BootLines == LinesOf(0, SectorBytes)

EraseChipByRange ==
    \/ platform = "W800" /\ Start("chip", Protected, FlashBytes - Protected)
    \/ platform = "OPL1000A2" /\ Start("chip", 0, FlashBytes)

EraseChip ==
    /\ platform \notin {"W800", "OPL1000A2", "RDA5981"}
    /\ job.pc = "idle" /\ jobs < MaxJobs
    /\ jobs' = jobs + 1
    /\ before' = flash
    /\ flash' = Blanked(flash, Lines)
    /\ cache' = Without(cache, ChipLinesDropped)
    /\ settled' = Lines
    /\ job' = [NoJob EXCEPT !.op = "chip", !.len = FlashBytes]
    /\ UNCHANGED <<platform, faults>>

(* spi_cmd_none(SPIFLASH_CMD_CE) failed; its result is not looked at. *)
EraseChipSkipped ==
    /\ platform \in SpiDriven /\ faults < MaxFaults
    /\ job.pc = "idle" /\ jobs < MaxJobs
    /\ jobs' = jobs + 1 /\ faults' = faults + 1
    /\ before' = flash
    /\ cache' = Without(cache, ChipLinesDropped)
    /\ settled' = Lines
    /\ job' = [NoJob EXCEPT !.op = "chip", !.len = FlashBytes, !.skipped = TRUE]
    /\ UNCHANGED <<platform, flash>>

EraseChipSaving ==
    /\ platform = "RDA5981"
    /\ job.pc = "idle" /\ jobs < MaxJobs
    /\ jobs' = jobs + 1
    /\ before' = flash
    /\ cache' = Filled(BootLines)
    /\ flash' = Blanked(flash, Lines)
    /\ job' = [NoJob EXCEPT !.op = "chip", !.len = FlashBytes, !.pc = "restore",
                            !.saved = [l \in BootLines |-> Mapped(l)]]
    /\ UNCHANGED <<platform, settled, faults>>

RestoreBootSector ==
    /\ job.pc = "restore"
    /\ flash' = [l \in Lines |-> IF l \in BootLines
                                 THEN Over(flash[l], job.saved[l]) ELSE flash[l]]
    /\ settled' = Lines
    /\ job' = [job EXCEPT !.pc = "idle", !.saved = <<>>]
    /\ UNCHANGED <<platform, cache, before, faults, jobs>>

FlashNext ==
    \/ \E r \in EraseRanges : Start("erase", r.src, r.len)
    \/ \E r \in WriteRanges : Start("write", r.src, r.len)
    \/ EraseNext \/ EraseSkipped \/ LibraryErase \/ EraseEnd
    \/ ProgramPage \/ BlankPage \/ ProgramSkipped
    \/ EraseChipByRange \/ EraseChip \/ EraseChipSkipped
    \/ EraseChipSaving \/ RestoreBootSector

-----------------------------------------------------------------------------
(* flash_erase_range, on every platform and for every range: while it runs *)
(* nothing outside the sectors the range touches is erased; a refused      *)
(* range leaves the chip alone; and when an erase has ended, every sector  *)
(* the range touches is blank, unless an SPI command was skipped or the    *)
(* range starts inside a sector and the driver does not align it, as only  *)
(* that of the RDA5981 does.  A range of 32 KiB or more that starts inside *)
(* a sector makes the LN882H and the LN8825 erase outside it, up to the    *)
(* 32 KiB blocks it touches.  What a chip erase keeps is the protected     *)
(* sectors of the W800 and the boot sector of the RDA5981; of the latter   *)
(* only as the first command, a later one may restore it from stale lines. *)
ErasedExactly ==
    LET touched == IF job.len = 0 THEN {} ELSE Sectors(job.src, job.len)
        aligned == platform = "RDA5981" \/ job.src % SectorBytes = 0
        reach   == IF platform \in Lightning /\ ~aligned /\ job.len >= HalfBlockBytes
                   THEN Spread(job.src, job.len, HalfBlockBytes) ELSE touched
        kept    == job.op = "chip" /\ platform = "RDA5981"
    IN  /\ \A l \in Lines \ reach : flash[l] = before[l]
        /\ ~job.ok => flash = before
        /\ (/\ job.pc \in {"idle", "program"} /\ job.op \in {"erase", "chip"}
            /\ job.ok /\ ~job.skipped /\ aligned)
              => \A l \in touched : \/ flash[l] = "blank"
                                    \/ /\ kept /\ l \in BootLines
                                       /\ flash[l] = before[l] \/ jobs > 1
=============================================================================
