# Verification of the OBK flasher stub

A flasher stub is a small program that a host loads into the RAM of a Wi-Fi
microcontroller and then talks to over a UART, to read, erase and write its
flash. `src/flasher_stub.c` holds the command loop and all transfers, one file
per platform (`platforms/*/..._hal.c`) the UART, the flash controller and the
identity registers. There is one thread, no interrupt handler and no operating
system; everything hard about it comes from the line (bytes lost, damaged,
repeated, late), from NOR flash (a program only clears bits and wraps in its
page) and from arithmetic on offsets and block numbers.

The modules here model the command loop, the transfers and the flash operations
of the platforms, check them with TLC on small instances and prove their safety
properties for every value of the constants.

## 1. Inventory

| Component | State | Operations | Hard part | Correct when |
|---|---|---|---|---|
| Command loop `main`, `handle_obk_frame` | `cmd_buf`, `flash_size` | 25 commands | range checks modulo 2^32; bytes left over from a failed transfer | only valid ranges reach the flash; every frame is answered once |
| XMODEM flash receiver `xmodem_receive_flash` | `expected_block`, `written`, `xmodem_packet`, `page_off` | start, packet, page program, commit, EOT, CAN, timeouts | duplicates, wrap of the block number, padding, skipped blank pages | flash = accepted data, ACK = durable, success = complete |
| XMODEM memory sender `xmodem_send_memory` | `off`, `block`, `use_1k`, retry counters | start, block, answer, EOT | unnumbered ACKs, left-over bytes | host has a prefix of the memory, in order |
| Frame downloads `packet_receive_handle` | `written`, `remaining`, `last_frame_len`, `page_buf`, `page_off` | frame, repeat, flush | positions that move back | the data is where the command says |
| Compressed transfers `xmodem_rx_*`, `xmodem_tx_*`, `inflate_flash_*`, `stub_miniz.c` | stream structs, inflater, page buffer | callbacks from the (de)compressor | ACK delayed by an erase; result known before EOT | as for the plain transfers |
| Flash HAL, 13 platforms | the chip, caches | `flash_program_page`, `flash_erase_range`, `flash_erase_chip`, `stub_flash_read` | unaligned ranges, block and sector mix, stale caches | exactly the range is erased; reads see writes |
| CRC32 / SHA-256 | engine registers, two DMA buffers | `crc32_memory`, `sha256_memory_hardware` | buffer reused while the DMA reads it | checksum of the range |
| UART HAL | FIFO | `uart_getc_timeout`, `uart_putc`, `uart_set_baud` | unbounded waits of `uart_getc_inf` | every wait ends |
| OTP, eFuse, MAC, chip id | - | table look-up, register reads | - | - |
| KV commands | file system in flash | get, set | results that are not looked at | - |
| Boot, linker scripts, libc | - | start-up | - | - |
| Vendored: miniz, littlefs, tlsf, vendor headers | - | - | - | - |

Components interact through calls only: the loop calls one handler, which owns
the UART until it returns. Host and stub interact through bytes on the line.
`PROJECT.json` lists every hazard found in the code at its line, with the
properties that cover it or the reason why none does.

## 2. Modules

| Module | Models |
|---|---|
| `NorFlash` | The flash chip and the page program and erase walk of `platforms/W800/w800_hal.c:131-163`. Contents and addresses are in *units* of 64 bytes. |
| `FlashImage` | The abstract write: an image that only grows at its end, reported as written only when complete. |
| `XmodemReceive` | `xmodem_receive_flash`, with an arbitrary peer. |
| `XmodemWriteSession` | The receiver, an XMODEM host and a faulty line. |
| `XmodemSend` | `xmodem_send_memory`. |
| `XmodemReadSession` | The sender, an XMODEM host and a faulty line. |
| `FrameDownload` | `packet_receive_handle`, an OBK host and a faulty line. |
| `CommandLoop` | `main` and `handle_obk_frame`, an OBK host and a faulty line. |
| `StreamReceive` | `xmodem_receive_compressed_flash`: `xmodem_rx_*`, the loop of `stub_miniz_inflate_raw`, `inflate_flash_*`. |
| `StreamWriteSession` | The compressed receiver, an XMODEM host and a faulty line. |
| `StreamSend` | `xmodem_send_compressed_memory`: `xmodem_tx_*` and both forms of `stub_miniz_deflate_raw`. |
| `StreamReadSession` | The compressed sender, an XMODEM host and a faulty line. |
| `PlatformFlash` | `flash_erase_range`, `flash_program_page` and `flash_erase_chip` of the thirteen platforms, and their caches. |
| `RdaCrc` | `crc32_memory` of the RDA5981 with its DMA engine. |
| `PlatformDigest` | `PlatformFlash` and `RdaCrc` with the commands that read the flash. |
| `NumberProofs` | Lemmas on division, remainders and block numbers; induction over naturals in the form of a set; the existence of recursive functions. |
| `XmodemReceiveProofs` | Lemmas on the chip; the receiver with an arbitrary peer, and inside its session. |
| `XmodemReadSessionProofs`, `StreamReceiveProofs`, `StreamReadSessionProofs`, `CommandLoopProofs`, `FrameDownloadProofs`, `PlatformFlashProofs` | The theorems of the module each is named after; the last one also those of `PlatformDigest`. |
| `MC*` | Contents of files and chips for TLC. |

### Units

A unit of 64 bytes divides every length the write paths distinguish: 128-byte
block (2 units), 256-byte page (4), 1024-byte block (16), 4096-byte sector (64).
The content of a unit is a model value; `Blank` is 64 bytes of 0xFF and
`Garbled` a unit whose bits are the conjunction of two contents. Programming
`new` over `old` gives `new` on a blank unit, keeps `old` when `new` is blank or
equal, and is `Garbled` otherwise, so that data written twice or to the wrong
place never looks right. `ProgramPage` wraps inside the chip page, as the page
program command of NOR flash does.

### XmodemReceive

One action is what the code does between two reads of the UART, and the program
of one page is an action of its own.

| Action | Code (`src/flasher_stub.c`) |
|---|---|
| `EraseFails`, `Erase` | 460-469: erase of the range, first `C` |
| `FirstTimeout`, `FirstMarker(m)` | 467-477 |
| `NextMarker(m)` | 481-497: EOT, CAN, noise, start of a packet |
| `Timeout` | 501-508, 553: silent return |
| `RefusePacket(no, intact)` | 511-532: NAK, ACK of a repetition, CAN |
| `AcceptPacket(no, data)` | 498-534 |
| `ProgramNextPage` | 535-547, with `Page`, `PageLen`, `PageAddr`, `PageIsErased` |
| `CommitBlock` | 548-550 |

`flash`, `expected`, `written`, `packet`, `chunk` and `pageOff` are the code's
variables, `pc` says where the function is, `reply` what the last step put on
the UART, `result` what it returned. `stream` is a history variable: the units
accepted so far by position. A packet whose CRC or inverted block number is
wrong is `intact = FALSE`; the CRC is assumed to tell. Timeouts are steps that
may happen at any moment; `gone` marks a host that will send nothing more.

Assumptions on the environment: the command's offset starts a sector, and a new
1024-byte block starts a flash page (`PagesAligned`), as it does for a host that
sends long blocks first and short ones at the end. The code checks neither.

### XmodemWriteSession

The host is the usual XMODEM sender and external: it waits for `C`, sends a
block until it is acknowledged or refused, then EOT. It cuts the file as one of
`Plans` says. What it sends may be lost, damaged (the stub answers NAK), cut
(the stub completes the packet with bytes of what follows) or preceded by noise;
an answer of the stub may be lost. With `Patient` and `StubPatient` a side
times out only when nothing it could wait for is under way or in the making;
without them at any moment.

### XmodemSend, XmodemReadSession

`StartByte`, `AnswerByte`, `EotByte` and `Timeout` are the three loops of
`xmodem_send_memory` (105-114, 142-154, 156-164), `SendBlock` and `SendEot` the
writes in them; `tries` is the counter of the loop at hand. The receiving host
is external: it asks with `C` or NAK, keeps the block it expects, acknowledges
that one and the one before, answers damage and silence with NAK and any other
number with CAN.

### FrameDownload

`ReadFrame` is the reading and checking of a frame with `Rewind` for status 1
(569-608), `CopyToRam` and `FillPage` the two ways its data goes, `EndFrame` the
count and the answer, `Flush` the last page. `CommandRefused` is the command
loop meeting a frame after the download. The host sends one frame, waits, and
sends it again with status 1 when no answer comes. Frame sizes stay under or
just over `BUF_SIZE` (`BufUnits`).

### CommandLoop

`pc` follows the reads of a frame: `ReadMagic` (955-967), `ReadHeader`
(652-655), `RefuseLength` (656-660), `ReadData`, `ReadSum` (661-673), and
`FrameTimeout` for any of them. Then one action per command, named after it; a
`FLASH_UPLOAD` answers once per chunk (`UploadChunk`), a digest ends with
`DigestDone`. An XMODEM transfer is a phase (`session`) that reads bytes, may
write the range it was given and ends. A frame download is read byte by byte
here too (`frames`, `packet_receive_handle`), because nothing but the other side
brings the stub back from it: `FrameGoesOn` takes a byte, `FrameRefused` ends
the download (574-599), `FrameTaken` programs and answers (601-640). How much of
the announced length a frame leaves is a choice: it may complete the download,
carry more than remains, or have no flag byte, after which the copy does not
come to an end. The other modules are about what a transfer does. Bytes,
the frame sum and words wrap as in C: a byte has `ByteMod` values and a word
`WordBytes` bytes. Addresses count sectors. `touched` is every sector the last
command erased or programmed, `access` what is left of the range of the handler
at work. A `FLASH_DOWNLOAD` programs from a page below its range on, as line 626
does. `loose` is set where no range check bounds what is programmed: a transfer
whose range wraps, a `FLASH_DOWNLOAD` to offset 0 (its first page goes to
0xFFFFFF00), and one that is sent more than it announced.

The host sends any of `Requests`, repeats one that is not answered, and gives
up on one that has no answer (`JUMP_RAM`). After it has asked for another baud
rate it tries both rates in turn. It repeats when the stub waits for a byte in
`main` or in a frame download; a command repeated there is taken for a data
frame when its type fits and ends the download otherwise (574). In an XMODEM
session it waits until the session has ended: a host that goes on sending
other bytes would keep some of these loops going (`flasher_stub.c:307-311`).
The line alters or drops one byte of a frame, or an answer; a transfer may leave
payload bytes behind. `aligned` is a history variable: false from a fault or a
frame download that puts stub and host out of step until both are idle.

### StreamReceive, StreamWriteSession

The compressed stream is a sequence of pieces, and the k-th piece makes the
inflater put out `yields[k]` units. A 128-byte block carries one piece and a
1024-byte block two, so that a stream may end inside or at the end of a block.
`Inflate` is one call of `tinfl_decompress` with the length check behind it, and
gives out no more than fits before the end of the dictionary (`DictUnits`);
`PutChunk` is one turn of the loop of `inflate_flash_put_buffer`, with the erase
of a sector when a page begins it; `NextCall` is the choice at the end of the
loop (170-175 of `stub_miniz.c`); `Fetch`, `ReadMarker`, `RefusePacket`,
`AcceptPacket` and `Timeout` are `xmodem_rx_next_packet`; `LastFlush` and
`Finish` are `xmodem_rx_finish` and what comes before it. A piece that is
missing or doubled makes the inflater put out `Wrong`.

### StreamSend, StreamReadSession

The deflater is external too: a call consumes some of its input and makes any
number of units from `Makes`; what does not fit in the output buffer stays
inside, and the next call gives that out first. `chunked` chooses the form of a
platform without memory-mapped flash (53-115 of `stub_miniz.c`). `PutChunk`
fills blocks, `SendPacket`, `AnswerByte`, `SendEot`, `EotByte` are the two retry
loops.

### PlatformFlash, RdaCrc, PlatformDigest

`platform` is chosen once per behaviour. The sets at the top of `PlatformFlash`
say which platforms share a rule; `EraseSize`, `WalkStart`, `WalkEnd` and
`Refused` are the erase loops, `ErasedLinesDropped`, `ProgrammedLinesDropped`
and `ChipLinesDropped` what each of them invalidates. `job` is the command at
work, and erases and page programs are separate steps. The SPI bus of the
ECR6600 and the TR6260 may be found not ready (`EraseSkipped`,
`ProgramSkipped`, `EraseChipSkipped`): the driver then returns without a result.
`cache` holds the lines that reads have filled; it is external, and so is the
ROM function that erases on the GD32VW553, which is taken to erase the sectors
the range touches. The walks of the LN882H and the LN8825 are in the drivers of
their vendor, and `BlocksFrom`, `BlocksEnd` and `LightningEnd` follow these
(`hal_flash.c:416-459`, `flash.c:192-235`): sectors up to a 32 KiB boundary,
32 KiB blocks, sectors. Both assert an aligned range, and both builds compile
the assertions out (`third_party/ln882h/proj_config.h:32`,
`third_party/ln8825/proj_config.h:58`).

`RdaCrc` runs the CPU and the DMA engine side by side. A CRC is represented by
the bytes it was computed of, so that a word read before it was written, read
twice or forgotten shows in the result. `PlatformDigest` reads through
`Mapped`, the cache when it has the line and the chip otherwise. All answers say
SUCCESS; `result.ok` is what the function of the platform returned. It is false
for a SHA-256 on a platform outside `Hashing`, whose `sha256_memory_hardware` is
the weak one (`hal_generic.c:176-180`), and for a CRC unit of the W800 that is
not ready in time (`Crc32Fails`); the bytes are then `Unread`.

## 3. Runs

| Run | Question | Bounds |
|---|---|---|
| `receive` | Is the flash right after every step, for any peer? | 2 sectors, image of 19 units (a 1024-byte block, two 128-byte blocks of which the last is clipped; or ten 128-byte ones), block numbers modulo 4, 3 tries |
| `session_patient` | Does the file arrive, and is success true? | block numbers modulo 3, so that they wrap; 3 faults, fewer than the 4 tries of either side |
| `session_impatient` | Is the flash still a prefix, and does everybody stop, when everything may time out at any time? | 2 faults of all five kinds, 2 packets on the line |
| `read_patient` | Does the host get the memory? | 37 units: three long or nineteen short blocks, modulo 3; 3 faults, 4 tries |
| `read_impatient` | Is what the host keeps a prefix, and does everybody stop? | 5 units, 2 faults, 2 unread bytes |
| `frame_download` | Are positions and RAM right with repeated frames? | 10 units, frames of 2, 3 and 5 units with a buffer of 4, 2 faults |
| `frame_flash` | Does a flash download work on a perfect line? | expected to fail: see below |
| `command_loop` | Is every command either refused or run as it was sent, inside the chip, and answered? | 32 values of a byte, words of one byte, a chip of 2 sectors, a buffer of 3 bytes, 1 fault, ranges that end in the chip, past it and beyond the largest word |
| `protected_area` | Are the first sectors of the W800 kept? | expected to fail: see below |
| `stream_write` | Is the flash right, does the file arrive, is success true? | 10 units in 4 pieces at most, a dictionary of 6 units, ranges at and inside a sector, block numbers modulo 3, 2 faults |
| `stream_read` | Does the host get the stream? | inputs of 0, 1, 3 and 5 units, buffers of 2, block numbers modulo 3, 2 faults, 3 tries |
| `platform_flash` | Does an erase blank its range and nothing else, and do reads return what the chip holds? | 13 platforms; chip of 64 bytes, lines of 2, pages of 4, sectors of 8, half-blocks of 16, blocks of 32; 7 ranges to erase, 3 to write, 3 to read; 2 commands that change the flash, 1 time without a bus |

The images are longer than a long block plus a short one and shorter than a
sector, so that the page loop, a clipped last block, padding, a blank page that
is skipped and the rest of the sector all occur; nothing in the code depends on
a larger length. `StartTries`, `MaxRetries`, `EotTries` and `BlockMod` are 100,
30, 10 and 256 in the code; the small values keep what matters: the number of
faults is below the number of tries where arrival is claimed, and above it
nowhere; the block number wraps within a transfer in the patient runs. In the
impatient runs the modulus (8) is larger than the number of copies that can be
under way, as 256 is.

In `command_loop` a byte with 32 values has room for the 25 commands, one the
build does not have, the magic and ranges that wrap; a word is one byte, so that
a range wraps at 32, which is the same arithmetic as with four.
In `platform_flash` the chip has two blocks
and eight sectors, and the ranges start and end at a block, at a sector, inside
one, off a word and on nothing; one that starts inside a sector is longer than
a half-block; two commands are what it takes to have a
stale line, and a third adds none of another kind. The host of `stream_write`
is patient or not, chosen at the start of a behaviour.

`CHECK_DEADLOCK FALSE` is set in every run that contains a transfer or a stub
that has left (`RUN`, `JUMP_RAM`): it ends and nothing more happens.
`platform_flash` runs with the deadlock check.

### What the properties say

* `ImageIntact`, `TailBlank`, `OthersKept`: image, rest of the last sector, rest
  of the chip. They tell page padding, clipping and address apart.
* `AckIsDurable`: whenever the stub sends ACK, all data it ever accepted is in
  the flash, also for the ACK of a repetition.
* `ImplementsWrite`: refinement of `FlashImage` with the flash itself as the
  image, so that success before the end, or a committed unit that changes, is a
  violation.
* `HostGoneReturns`, `BothEnd`, `DownloadEnds`: nobody waits for ever.
* `FlashHoldsFilePrefix`, `HostSuccessIsReal`, `FileArrives`: the file, end to end.
* `HostHoldsMemory`, `HostSuccessIsComplete`, `NeverAhead`, `ReadArrives`: the
  memory, end to end.
* `RamHoldsFile`, `RamOutsideKept`, `PositionsAgree`: frames that come twice.
* `OnlySentFramesRun`: whatever byte the line alters, a handler runs only for a
  frame the host has sent, as long as the two are in step.
* `RangesInChip`, `WritesInChip`: the range checks and what they let through;
  `RatesAgree`: both ends of a baud change; `HostAnswered`: a request that is
  repeated is answered, also when it falls into a frame download.
* `ImageIntact`, `OnlyImageChanges` and `ImplementsWrite` of `StreamReceive`: as
  for the plain receiver, with erases on the way and any amounts from the
  inflater; `FileInFlash`: the file arrives.
* `HostHoldsStream`, `ReadArrives` of `StreamReadSession`: the deflated stream,
  in order, complete when EOT has been seen, and in the end.
* `ErasedExactly`, `ReadsReturnChip`: the flash operations of the platforms and
  what is read afterwards.

### What the runs showed

* A flash download in frames (`OBK_CMD_FLASH_DOWNLOAD`) puts every page it fills
  inside a frame too low, by the part of the frame not yet counted in
  `written` (line 626); the last page (line 645) is right. Run `frame_flash`.
  With the address corrected, one repeated frame is still enough to spoil the
  flash, because status 1 does not take `page_off` back (603-607).
* `HostSuccessIsReal` is claimed for the patient session only. After noise or a
  cut packet the stub answers every stray byte with a NAK; a host that does not
  purge its input then takes an old answer for a new one, and may take an ACK of
  a block for the ACK of EOT. The flash remains a prefix (`session_impatient`).
* The ACK of EOT is sent once. When it is lost the file is written and the host
  reports a failure, because the command loop does not answer EOT: `FileArrives`
  is about the stub's result.
* `NeverAhead` and `HostSuccessIsComplete` are claimed for the patient read
  only. A host that asks twice leaves a `C` in the stub's receive queue; the
  stub takes it for a bad answer, sends the block twice, and from then on every
  ACK it reads belongs to the block before. If then the last block is damaged,
  the stub has already sent EOT. A host that counts what it has kept sees it.
* `README.md:22` says that flash below `0x2000` is protected from erase and
  write. Only the chip erase of the W800 keeps these sectors; every command with
  a range reaches them. Run `protected_area`.
* `off + len > flash_size` (695, 710, 777, 791, 801, 812, 825) lets a range
  through that wraps. An erase with it does nothing, since the walk compares
  with the wrapped end; a transfer reads or writes what it names. `RangesInChip`
  and `WritesInChip` say so. The digests check for it.
* A `FLASH_DOWNLOAD` to offset 0 passes the range check and programs its first
  page at 0xFFFFFF00 (626 again). `WritesInChip` excepts it.
* When the SUCCESS that starts a frame download is lost and the host repeats the
  command, the stub takes the repetition for a data frame: magic, type and sum
  fit, and 7 bytes of the command are written as data. Any other command is
  refused with ERROR and ends the download. So the host does get an answer
  (`HostAnswered`), but only as long as it goes on sending.
* A lost byte, an altered length or a stray payload byte 0xA5 puts the stub out
  of step: it may then run a frame made of pieces of two. `OnlySentFramesRun` is
  claimed for a stub in step, and silence brings it back.
* A compressed write whose last ACK is lost ends with CAN, because
  `xmodem_rx_finish` takes nothing but EOT (380). The file is in the flash:
  `FileInFlash` is about that.
* A compressed stream that uses up its last block exactly when the dictionary is
  full makes the stub ask for another block, which does not come: the loop at
  139-175 of `stub_miniz.c` fetches input before it asks whether the inflater
  is done. `FileInFlash` leaves such streams out (`Padded`).
* A compressed range that starts inside a sector is programmed over what is
  there, since only a page at a boundary erases (411-418): `Clean` in
  `StreamReceive`.
* A compressed read without memory-mapped flash is cancelled at its end when the
  last call of the deflater has more output than its buffer (81-114 of
  `stub_miniz.c`): `Truncated` in `StreamReadSession`.
* An erase that does not start at a sector boundary may leave the last sector it
  touches, except on the RDA5981, which aligns the range. On the LN882H and the
  LN8825 such a range of 32 KiB or more is erased in 32 KiB blocks off their
  boundary, and what it reaches is not only the sectors of the range but the
  32 KiB blocks these lie in: 64 KiB at 0x1100 erase sector 0 as well. On the
  ECR6600 and the TR6260 a bus that is not ready leaves sectors and pages without a word.
  The chip erase of the RDA5981 saves its boot sector through the cache, which
  may be stale after an erase (`rda5981_hal.c:201`).
* An answer with SUCCESS may say nothing of the flash: a SHA-256 on the W800,
  TR6260, RTL8720D, LN882H, LN8825 and RDA5981 is 32 bytes left in `cmd_buf`, for
  the weak `sha256_memory_hardware` returns 0 and line 73 does not look; a CRC
  that fails on the W800 is sent as 0 (61-62, 85).
* What is read may not be what the chip holds: on the RTL8710C, which
  invalidates at the flash offset and not at its address
  (`rtl8710c_hal.c:208`); on the RDA5981 and the RTL8710B between an erase and
  the next page program; on the RTL8720D, RTL8720E and RTL8721DA in the rest of
  the last sector of a range; in the CRC of the RDA5981 when a tail follows
  whole chunks, for it is copied over a buffer the DMA is still reading (284)
  and, when shorter than a word, starts the CRC anew (309); on the OPL1000A2 in
  uploads, where `stub_flash_read` takes an offset for a RAM address
  (`opl1000a2_hal.c:67`). `Reliable` in `PlatformDigest` lists these, and each
  of them is needed: without it `ReadsReturnChip` is violated.
* Two more lines of the W800 `README.md` do not match the code: line 20 says
  that SHA-256 and eFuse commands return `TYPE_ERROR` (a SHA-256 is answered as
  just said), and line 22 that baud
  rates outside 115200-2500000 are refused; `handle_obk_frame` has handlers for
  the former (744-759, 853-863) and no check for the latter (722-731). And
  `stub_flash_read` adds `FLASH_BASE` to the absolute address of
  `OBK_CMD_RAW_XMODEM_UL` as well (`hal_generic.c:367`).

### Fairness

The stub is one loop: where it can go on without the line it does (`Work`,
`StubStep`, `Send`), so weak fairness of these steps is what the processor
gives. A timeout is a bounded count of polls of the UART
(`uart_getc_timeout`), so it expires when nothing comes: weak fairness of the
timeout steps, in `receive` only after the host has gone. Hosts are assumed to
go on in the same way. `FrameDownload` has no stub timeout, because
`uart_getc_inf` has none: `DownloadEnds` depends on a host that stays.
In `CommandLoop` an XMODEM session ends (`WF(SessionEnds)`), which is what its
modules show for a host that does not go on sending; a frame download
is given no such fairness, since its code has none. The host reads, and repeats
after a silence longer than `RX_WAIT_LOOPS`. `platform_flash` has no fairness and no liveness property.

## 4. Proofs

Every invariant and every action property of a passing run is stated by a
theorem, under the named assumptions of its module and nothing else except where
the last column says so. Together with the runs this means: TLC has seen the
property hold, and fail when the model is broken, on a small instance, and TLAPS
has checked it for every chip, file, buffer, number of tries and block modulus.

| Module | Theorem | Property | Under |
|---|---|---|---|
| `XmodemReceiveProofs` | `Invariant` | `IInv` | any peer |
| | `TypeCorrect` | `TypeOK` | |
| | `ImageStaysIntact` | `ImageIntact` | |
| | `TailStaysBlank` | `TailBlank` | |
| | `OthersStayKept` | `OthersKept` | |
| | `AckMeansDurable` | `AckIsDurable` | |
| | `ReceiverImplementsWrite` | `ImplementsWrite` | |
| | `SessionInvariant` | `SInv` | `StopAndWait` |
| | `SessionTypeCorrect` | `SessionTypeOK` | `StopAndWait` |
| | `FlashIsFilePrefix` | `FlashHoldsFilePrefix` | `StopAndWait` |
| | `SuccessIsReal` | `HostSuccessIsReal` | `StopAndWait` |
| `XmodemReadSessionProofs` | `SessionInvariant` | `SInv` | `StopAndWait` |
| | `SessionTypeCorrect` | `SessionTypeOK` | `StopAndWait` |
| | `HostGetsMemory` | `HostHoldsMemory` | `StopAndWait` |
| | `SuccessIsComplete` | `HostSuccessIsComplete` | `StopAndWait` |
| | `SenderNeverAhead` | `NeverAhead` | `StopAndWait` |
| `StreamReceiveProofs` | `SessionInvariant` | `SessionRInv` | any host, any line |
| | `TypeCorrect` | `TypeOK` | |
| | `OnlyTheImageChanges` | `OnlyImageChanges` | |
| | `StreamImplementsWrite` | `ImplementsWrite` | |
| | `InOrderImageIntact` | `ImageIntact` | while the pieces come in order |
| | `PatientImageIntact` | `ImageIntact` | patient host |
| `StreamReadSessionProofs` | `SessionInvariant` | `SInv` | |
| | `HostGetsStream` | `HostHoldsStream` | |
| `CommandLoopProofs` | `LoopInvariant` | `CInv` | |
| | `TypeCorrect` | `TypeOK` | |
| | `RangesStayInChip` | `RangesInChip` | |
| | `WritesStayInChip` | `WritesInChip` | |
| | `SentFramesOnly` | `OnlySentFramesRun` | |
| | `RatesStayTogether` | `RatesAgree` | every `BAUD_CHANGE` that runs is in step |
| `FrameDownloadProofs` | `DownloadInvariant` | `DInv` | |
| | `TypeCorrect` | `TypeOK` | |
| | `RamIsLoaded` | `RamHoldsFile` | |
| | `PositionsStayTogether` | `PositionsAgree` | |
| | `RamOutsideIsKept` | `RamOutsideKept` | |
| `PlatformFlashProofs` | `FlashInvariant` | `FInv` | |
| | `ErasesExactly` | `ErasedExactly` | |
| | `ReadsAreTrue` | `ReadsReturnChip` | |

Each inductive invariant was checked by TLC before it was proved. Below, what
each adds to the property it is for, and why.

### The receiver (`XmodemReceiveProofs`)

`ImageIntact` is not inductive: a page program could meet a chip that is not
blank, a packet that is not what was accepted, or a page that wraps onto the one
before. `IInv` adds what excludes this:

* `PositionOK`: `written` is even until the image is complete, so a short block
  occupies one half of a page;
* `BlockOK`: while pages are programmed, the packet is the next piece of
  `stream`, cut at page boundaries of the packet, and a long block starts on a
  flash page;
* `RestBlank`: from the next unit to be programmed on, the erased range is
  blank. With `PositionOK` it makes the wrap harmless: what wraps is padding.

The argument for `ProgramNextPage`, the only step with content, is in
`ProgramEffect` (which units a page program changes, and to what) and
`EraseCovers` (the erase of an aligned range covers it). All other actions leave
`flash` alone and are settled by their guards. `AckMeansDurable` uses `IInv` and
`AckInv` (nothing behind the block at hand has been accepted). The refinement
maps `Erase` and all protocol steps to stuttering, `CommitBlock` to `Extend`,
EOT of a complete image to `Succeed`, and every other way out to `Fail`.

### The sessions of XMODEM

`StopAndWait` is the setting of `session_patient` and `read_patient`: sides that
time out only when nothing is under way, and a line that loses and damages
packets and loses answers (in a read also damages them), any number of times.
There the write session's `SInv` is `IInv`, the types of host and line, and

* `Content`: `stream` is the file as far as blocks have been taken;
* `Behind`, `Level`: the receiver waits for the block the host is at, or has
  taken it and its ACK did not arrive;
* `Turn`: one packet or one answer is under way, or none, and what each side
  waits for.

Because the two are never further apart than one block, `BlockMod > 1` is all
that block numbers have to satisfy: `BlockNumberFacts` in `NumberProofs` says that
neighbours differ. The read session is the mirror image: the sender sends the
block the host expects or the one before it (`Same`, `Ahead`).

### The compressed transfers

`RInv` of the receiver holds with any peer. It says how the transfer stands at
each point of the code (`PhaseOK`), that the page buffer begins at a page of the
chip (`PlaceOK`), that the chip ahead of the image is blank in the sector at hand
and as it was behind it (`Ahead`), and (`FileHeld`) that flash, page buffer and
output buffer hold the file one after the other as long as the pieces came in
order. It is proved for `ReceiverStep`, one lemma per action, and every step of
the session is one of these or leaves the receiver alone. With a patient host
`ProtocolInv` adds that the pieces do come in order (`InOrder`): the ACK of a
block is held back until the next fetch (`HeldBack`), one packet, one held ACK
or one answer is under way at a time, and the stub wants the block the host is
at or has taken it (`Turns`).

`SInv` of the sender relates the places a unit may be in: the output buffer of
the deflater, the block being filled, the packet under way and the host. `Base`
says that each goes on where the next one ends; one thing is under way at a time
and the host is level with the sender or has taken the block of which the sender
has not seen the ACK (`Level`, `Ahead`, `Complete`).

### The command loop (`CommandLoopProofs`)

`CInv` says which part of a frame has been read and that the handler at work was
given a range its check let through (`AccessOK`); `WritesInChip` then follows
from the walk of an erase and, unless `loose`, from the pages of a download,
which lie in the range or in the sector before it. A range that ends exactly at 2^32 counts as wrapped
too: its sum is 0 and passes the check, and a request of the run has such a
range. `InStep` is about a line with at most one altered byte in a frame: a frame
with one is refused, for a change of one byte changes the sum. `RateOK` says at
which rate whatever is on the line was sent. `RatesStayTogether` assumes that a
`BAUD_CHANGE` runs in step only (`BaudInStep`): out of step the stub may put one
together from two frames. Everything else may happen out of step, frame
downloads and what they leave on the line included.

### Frame downloads and platforms

`DInv` follows one frame from the host (`SentOK`) through the stub (`LocalsOK`)
to its answer (`Turns`), with the two ways a frame can be sent again: the stub
has not seen it, or has seen it and its answer was lost.

`FInv` has one conjunct for each kind of job: an erase walk has blanked the
sectors below where it is and is at a place its platform comes to (`WalkOK`; of
the LN882H and LN8825 `InStride`, which keeps the blocks inside `Reach`), the RDA5981 has its boot sector to put
back (`RestoreOK`), a job that is over has done what it was for (`DoneOK`), and a
cached line is what the chip holds at the moments and in the lines for which the
platform sees to that (`CacheOK`). `DigestInv` adds the two buffers of the DMA
of the RDA5981 and the bytes they hold (`CrcOK`).

### What the proofs needed from the models

The assumptions name what they rest on: sizes that are not zero, ranges inside
the chip, plans with at least one block, long blocks at page boundaries, two
block numbers at least, and inputs that exist (`File` is readable). A host
tries at least once. Where a `CASE` had guards that overlap, the definition is
now an `IF` in the order of the code.

### What is only model-checked

* All liveness: `HostGoneReturns`, `FileArrives`, `ReadArrives` (both), `BothEnd`
  (both), `DownloadEnds`, `HostAnswered`, `FileInFlash`. Fairness and `ENABLED`
  are outside the prover's reach.
* `FlashHoldsFilePrefix` and `HostHoldsMemory` with noise, cut packets and sides
  that give up waiting early (`session_impatient`, `read_impatient`). Copies of
  old packets are then under way, and the properties hold only if there are
  fewer of them than block numbers: the run has a bound on the line, the proof
  would have to say how many copies 256 numbers can tell apart.
* `ImageIntact` of `StreamReceive` with a host that is not patient, for the same
  reason: with two block numbers it is false (a dictionary of 16 units and four
  short blocks of yields 4, 4, 1, 1), with the three of the run it holds.
* `RatesAgree` when stub and host are out of step and a `BAUD_CHANGE` runs.

## 5. Not modelled, and the plan

Not modelled, and not planned: register sequences of the platforms (UART, pins,
clocks, boot), tables of OTP and eFuse, start-up code, the vendored libraries
(miniz, littlefs, tlsf), the arithmetic of CRC, SHA-256 and deflate, the
key-value store behind its two commands. About half of the lines under
`platforms/` are headers with register layouts and constants, and most of the
rest are writes of constants to registers; they have no behaviour that a state
machine could get wrong. The logic of `flasher_stub.c` and `stub_miniz.c` is
modelled in full except for what is named here:

* the data of frames of length 0 or past the announced length in
  `packet_receive_handle` (601): `data_len` and `remaining` wrap and the copy runs
  over all of memory, so `CommandLoop` has these frames and no module their data;
* a host that leaves in the middle of a frame download (572): the stub waits for
  ever, so there is nothing to check;
* compressed commands with a level (`stub_miniz.c:58`): the level chooses how the
  deflater works, which is external;
* raw reads: the address map of `stub_flash_read` is only in `Upload`.

What remains:

1. The impatient sessions for every file, with a bound on the copies under way
   stated against `BlockMod`.
2. `RatesAgree` without `BaudInStep`, from the fact that a frame put together
   from two needs a sum that fits.
3. An abstract specification of a read (what the host keeps only grows along the
   memory) that `XmodemReadSession` and `StreamReadSession` both implement, as
   `FlashImage` is for the two writes.
