---------------------------- MODULE CommandLoop ----------------------------
(***************************************************************************)
(* main and handle_obk_frame: the stub reads a frame byte by byte, checks  *)
(* its sum, runs the handler of its type and answers.  The other side is a *)
(* host that repeats a request after silence; the serial line may drop or  *)
(* alter a byte of a frame and may lose an answer, and it carries nothing  *)
(* while the two sides use different baud rates.                           *)
(*                                                                         *)
(* A byte has ByteMod values and a 32-bit word has WordBytes bytes, so the *)
(* sum, the lengths and off + len wrap as they do in the code.  Addresses  *)
(* count sectors.  An XMODEM transfer is a phase of its own ("session"): it *)
(* reads what it likes and ends, by its timeouts if not before.  The frame  *)
(* downloads ("frames") have no timeouts, so they are read byte by byte     *)
(* here too: only the other side brings the stub back from them.  The       *)
(* modules of the transfers model what they do with the data.               *)
(***************************************************************************)
EXTENDS Integers, Sequences, FiniteSets

CONSTANTS ByteMod,       \* values of a byte (256)
          WordBytes,     \* bytes of a uint32_t (4)
          Magic,         \* OBK_STUB_MAGIC
          Code,          \* the OBK_CMD_ value of every command the host knows
          Absent,        \* commands this build of the stub does not have
          BufSize,       \* sizeof(cmd_buf)
          Density,       \* density byte of the JEDEC id
          SmallestChip,  \* sectors of 2^19 bytes (128)
          Protected,     \* sectors below FLASH_WRITE_MIN_OFFSET (2)
          ChunkLen,      \* sectors one upload reply carries
          Requests,      \* the requests of the host: [cmd, data]
          Noise,         \* what an altered or stray byte may become
          FirstRate,     \* the baud rate of uart_init
          MaxFaults      \* bound on the faults of the line

Byte    == 0 .. ByteMod - 1

(* What the i-th byte of a word counts for, from 0, and the word's end.    *)
Weight ==
    LET w[i \in 0 .. WordBytes] == IF i = 0 THEN 1 ELSE ByteMod * w[i - 1] IN w
WordMod == Weight[WordBytes]
Word    == 0 .. WordMod - 1

(* flash_size_from_jedec: 2^density bytes, in sectors. *)
FlashSizeFromJedec(id) ==
    LET density == IF id > 48 /\ id < 60 THEN id - 48 ELSE id
    IN  IF density < 19 \/ density > 28 THEN 0
        ELSE SmallestChip * 2 ^ (density - 19)

FlashSize == FlashSizeFromJedec(Density)

ASSUME CommandLoopAssumption ==
    /\ ByteMod \in Nat \ {0} /\ WordBytes \in Nat \ {0}
    /\ Magic \in Byte /\ FirstRate \in Word /\ Noise \subseteq Byte
    /\ \A c \in DOMAIN Code : Code[c] \in Byte
    /\ \A c, d \in DOMAIN Code : Code[c] = Code[d] => c = d
    /\ FlashSize \in Word
    /\ {BufSize, Protected, ChunkLen, MaxFaults} \subseteq Nat
    /\ \A r \in Requests : /\ r.cmd \in DOMAIN Code /\ r.data \in Seq(Byte)
                           /\ Len(r.data) < ByteMod * ByteMod

VARIABLES pc,        \* where the stub is in main and handle_obk_frame
          frame,     \* type, l0, l1 and cmd_buf of the frame at hand
          rate,      \* the baud rate of the UART
          touched,   \* history: sectors the last command erased or programmed
          access,    \* what is left of the range a handler works on
          line,      \* bytes on their way to the stub
          answers,   \* answers on their way to the host
          host,      \* state, request, the two rates it may be at, and which
          aligned,   \* history: stub and line are in step with the host's frames
          faults,
          loose      \* history: the last command programmed at an address its
                     \* range check does not bound; touched is exact if not

stubVars == <<pc, frame, rate, touched, access, loose>>
netVars  == <<line, answers, aligned, faults>>
vars     == <<stubVars, netVars, host>>

NoFrame == [type |-> 0, l0 |-> 0, l1 |-> 0, data |-> <<>>]
NoRequest == [cmd |-> "none", data |-> <<>>]
NoRange == [kind |-> "none", off |-> 0, len |-> 0]

SumOf(s) ==
    LET f[i \in 0 .. Len(s)] == IF i = 0 THEN 0 ELSE (f[i - 1] + s[i]) % ByteMod
    IN  f[Len(s)]

(* load_le32 of the k-th word of a buffer. *)
Load(buf, k) ==
    LET f[i \in 0 .. WordBytes] ==
            IF i = 0 THEN 0
            ELSE f[i - 1] + buf[WordBytes * k + i] * Weight[i - 1]
    IN  f[WordBytes]

Off == Load(frame.data, 0)
Count == Load(frame.data, 1)
DataLen == frame.l0 + ByteMod * frame.l1

Init ==
    /\ pc = "idle" /\ frame = NoFrame
    /\ rate = FirstRate
    /\ touched = {} /\ access = NoRange /\ loose = FALSE
    /\ line = <<>> /\ answers = <<>>
    /\ host = [state |-> "ready", req |-> NoRequest,
               rates |-> <<FirstRate, FirstRate>>, turn |-> 1]
    /\ aligned = TRUE
    /\ faults = 0

(***************************************************************************)
(* Reading a frame.  Every byte is read with a timeout; a timeout leaves   *)
(* the frame without an answer.                                            *)
(***************************************************************************)
(* The host listens at the new rate as soon as it has asked for it.        *)
ChangesRate(r) == r.cmd = "BAUD_CHANGE" /\ Len(r.data) = WordBytes
RateAfter(r, now) == IF ChangesRate(r) THEN Load(r.data, 0) ELSE now
HostListensAt ==
    IF host.state = "waiting" THEN RateAfter(host.req, host.rates[host.turn])
    ELSE host.rates[1]

(* obk_ack, obk_data_reply: the answer leaves at the rate the UART has now. *)
ReplyAt(r, type, status) ==
    answers' = IF r = HostListensAt
               THEN Append(answers, [type |-> type, status |-> status])
               ELSE answers
Reply(type, status) == ReplyAt(rate, type, status)

TakeByte == line # <<>> /\ line' = Tail(line)

ReadMagic ==
    /\ pc = "idle" /\ TakeByte
    /\ pc' = IF Head(line) = Magic THEN "type" ELSE "idle"
    /\ touched' = {} /\ loose' = FALSE
    /\ UNCHANGED <<frame, rate, access, answers, host, aligned, faults>>

AfterData == IF Len(frame'.data) = frame'.l0 + ByteMod * frame'.l1 THEN "sum" ELSE "data"

(* fault: one byte more than cmd_buf has. *)
TooLongByOne == pc = "l1" /\ frame.l0 + ByteMod * Head(line) > BufSize + 1

(* A frame longer than cmd_buf is refused before its data is read: the data *)
(* comes in behind the answer, out of step.                                *)
TooLong == pc = "l1" /\ frame.l0 + ByteMod * Head(line) > BufSize

RefuseLength ==
    /\ line # <<>> /\ TooLong /\ TakeByte
    /\ frame' = NoFrame /\ pc' = "idle" /\ Reply(frame.type, "LEN_ERROR")
    /\ aligned' = FALSE
    /\ UNCHANGED <<rate, touched, access, loose, host, faults>>

ReadHeader ==
    /\ pc \in {"type", "l0", "l1"} /\ TakeByte /\ ~TooLong
    /\ frame' = CASE pc = "type" -> [frame EXCEPT !.type = Head(line)]
                  [] pc = "l0"   -> [frame EXCEPT !.l0 = Head(line)]
                  [] pc = "l1"   -> [frame EXCEPT !.l1 = Head(line)]
    /\ pc' = CASE pc = "type" -> "l0" [] pc = "l0" -> "l1" [] OTHER -> AfterData
    /\ answers' = answers
    /\ UNCHANGED <<rate, touched, access, loose, host, aligned, faults>>

ReadData ==
    /\ pc = "data" /\ TakeByte
    /\ frame' = [frame EXCEPT !.data = Append(@, Head(line))]
    /\ pc' = AfterData
    /\ UNCHANGED <<rate, touched, access, loose, answers, host, aligned, faults>>

(* fault: the sum leaves out the type. *)
FrameSumNoType(type, l0, l1, data) == (Magic + l0 + l1 + SumOf(data)) % ByteMod

FrameSum(type, l0, l1, data) == (Magic + type + l0 + l1 + SumOf(data)) % ByteMod

ReadSum ==
    /\ pc = "sum" /\ TakeByte
    /\ IF Head(line) = FrameSum(frame.type, frame.l0, frame.l1, frame.data)
       THEN pc' = "run" /\ UNCHANGED <<frame, answers>>
       ELSE pc' = "idle" /\ frame' = NoFrame /\ Reply(frame.type, "CRC_ERROR")
    /\ UNCHANGED <<rate, touched, access, loose, host, aligned, faults>>

(* fault: the read of the header waits for ever. *)
ReadingPastHeader == pc \in {"data", "sum"}

(* uart_getc_timeout gives up: the line has been silent for RX_WAIT_LOOPS. *)
Reading == pc \in {"type", "l0", "l1", "data", "sum"}
FrameTimeout ==
    /\ Reading /\ line = <<>>
    /\ pc' = "idle" /\ frame' = NoFrame
    /\ UNCHANGED <<rate, touched, access, loose, netVars, host>>

(***************************************************************************)
(* The handlers.                                                           *)
(***************************************************************************)
Received(cmd) == pc = "run" /\ cmd \in DOMAIN Code \ Absent /\ Code[cmd] = frame.type

(* The answer that ends a handler, with nothing else changed. *)
Answer(status) ==
    /\ rate' = rate /\ Reply(frame.type, status)
    /\ pc' = "idle" /\ frame' = NoFrame
    /\ UNCHANGED <<touched, access, loose, line, host, aligned, faults>>

(* SUCCESS, then a transfer or more replies. *)
Enter(phase, status) ==
    /\ rate' = rate /\ Reply(frame.type, status)
    /\ pc' = phase /\ frame' = NoFrame
    /\ UNCHANGED <<loose, line, host, aligned, faults>>

(* off + len > flash_size, in 32-bit arithmetic. *)
InRange == (Off + Count) % WordMod <= FlashSize

(* fault: off + len is not bounded once it wraps. *)
DigestRangeWraps(off, len) == len # 0 /\ FlashSize # 0 /\ (off + len) % WordMod <= FlashSize

(* The check of the two digests, with range_does_not_wrap. *)
DigestRange(off, len) ==
    /\ len # 0 /\ off <= WordMod - 1 - (len - 1)
    /\ FlashSize # 0
    /\ off <= FlashSize /\ len <= FlashSize - off

(* fault: the walk counts len sectors instead of comparing. *)
EraseWalkCounted(off, len) == {(off + i) % WordMod : i \in 0 .. len - 1}

(* flash_erase_range of the W800: from off up to off + len, modulo 2^32. *)
EraseWalk(off, len) ==
    LET end == (off + len) % WordMod IN {s \in Word : off <= s /\ s < end}

RangeRefused(lenOk) ==
    \/ ~lenOk /\ Answer("LEN_ERROR")
    \/ lenOk /\ ~InRange /\ Answer("ADDR_ERROR")

Accepted(kind) == access' = [kind |-> kind, off |-> Off, len |-> Count]

Sync == Received("SYNC") /\ Answer("SUCCESS")

(* SUCCESS, then packet_receive_handle, which has a loop to enter only if  *)
(* bytes are expected.  Its frames are not the ones of main.               *)
EnterFrames ==
    /\ rate' = rate /\ Reply(frame.type, "SUCCESS")
    /\ IF Count = 0 THEN pc' = "idle" /\ frame' = NoFrame /\ aligned' = aligned
       ELSE pc' = "frames" /\ frame' = [NoFrame EXCEPT !.type = frame.type] /\ aligned' = FALSE
    /\ UNCHANGED <<loose, line, host, faults>>

RamDownload ==
    /\ Received("RAM_DOWNLOAD")
    /\ \/ DataLen # 2 * WordBytes /\ Answer("LEN_ERROR")
       \/ DataLen = 2 * WordBytes /\ EnterFrames /\ UNCHANGED <<touched, access>>

(* An erase is refused by some platforms, after any part of its sectors. *)
EraseFails ==
    /\ \E n \in 0 .. Cardinality(EraseWalk(Off, Count)) :
          touched' = touched \cup {s \in EraseWalk(Off, Count) : s < Off + n}
    /\ Enter("idle", "ERROR") /\ access' = access

FlashDownload ==
    /\ Received("FLASH_DOWNLOAD")
    /\ \/ RangeRefused(DataLen = 2 * WordBytes)
       \/ /\ DataLen = 2 * WordBytes /\ InRange
          /\ \/ EraseFails
             \/ /\ touched' = touched \cup EraseWalk(Off, Count)
                /\ IF Count = 0 THEN access' = access ELSE Accepted("frames")
                /\ EnterFrames

FlashErase ==
    /\ Received("FLASH_ERASE")
    /\ \/ RangeRefused(DataLen >= 2 * WordBytes)
       \/ /\ DataLen >= 2 * WordBytes /\ InRange
          /\ \/ EraseFails
             \/ /\ touched' = touched \cup EraseWalk(Off, Count)
                /\ access' = access
                /\ Enter("idle", "SUCCESS")

(* FLASH_UPLOAD answers once per chunk, and once for an empty range. *)
FlashUpload ==
    /\ Received("FLASH_UPLOAD")
    /\ \/ RangeRefused(DataLen = 2 * WordBytes)
       \/ /\ DataLen = 2 * WordBytes /\ InRange
          /\ pc' = "upload" /\ Accepted("read")
          /\ UNCHANGED <<frame, rate, touched, loose, netVars, host>>

UploadChunk ==
    LET n == IF access.len < ChunkLen THEN access.len ELSE ChunkLen
    IN  /\ pc = "upload" /\ Reply(frame.type, "SUCCESS")
        /\ IF access.len = n
           THEN pc' = "idle" /\ access' = NoRange /\ frame' = NoFrame
           ELSE /\ access' = [access EXCEPT !.off = (@ + n) % WordMod, !.len = @ - n]
                /\ UNCHANGED <<pc, frame>>
        /\ UNCHANGED <<rate, touched, loose, line, host, aligned, faults>>

(* fault: the rate is set before the length is checked. *)
BaudChangeUnchecked ==
    /\ Received("BAUD_CHANGE")
    /\ rate' = IF DataLen = WordBytes THEN Off ELSE 0
    /\ ReplyAt(IF DataLen = WordBytes THEN rate' ELSE rate, frame.type,
               IF DataLen = WordBytes THEN "SUCCESS" ELSE "LEN_ERROR")
    /\ pc' = "idle" /\ frame' = NoFrame
    /\ UNCHANGED <<touched, access, loose, line, host, aligned, faults>>

BaudChange ==
    /\ Received("BAUD_CHANGE")
    /\ \/ DataLen # WordBytes /\ Answer("LEN_ERROR")
       \/ /\ DataLen = WordBytes
          /\ rate' = Off
          /\ ReplyAt(Off, frame.type, "SUCCESS")
          /\ pc' = "idle" /\ frame' = NoFrame
          /\ UNCHANGED <<touched, access, loose, line, host, aligned, faults>>

(* boot_from_flash does not come back where a platform has one. *)
Run ==
    /\ Received("RUN")
    /\ \E next \in {"idle", "gone"} : Enter(next, "SUCCESS")
    /\ UNCHANGED <<touched, access>>

FlashId == Received("FLASH_ID") /\ Answer("SUCCESS")

FlashDigest ==
    /\ \E cmd \in {"FLASH_CRC32", "FLASH_SHA256"} : Received(cmd)
    /\ \/ DataLen # 2 * WordBytes /\ Answer("LEN_ERROR")
       \/ DataLen = 2 * WordBytes /\ ~DigestRange(Off, Count) /\ Answer("ADDR_ERROR")
       \/ /\ DataLen = 2 * WordBytes /\ DigestRange(Off, Count)
          /\ pc' = "digest" /\ Accepted("digest")
          /\ UNCHANGED <<frame, rate, touched, loose, netVars, host>>

DigestDone ==
    /\ pc = "digest" /\ Reply(frame.type, "SUCCESS")
    /\ pc' = "idle" /\ access' = NoRange /\ frame' = NoFrame
    /\ UNCHANGED <<rate, touched, loose, line, host, aligned, faults>>

GetMac ==
    /\ Received("GET_MAC")
    /\ \/ DataLen # 0 /\ Answer("LEN_ERROR")
       \/ DataLen = 0 /\ \E status \in {"SUCCESS", "ERROR"} : Answer(status)

(* xmodem_receive_flash erases the range first; the compressed form erases *)
(* and programs as it goes.                                                *)
XmodemWrite ==
    /\ \E cmd \in {"FLASH_XMODEM_DL", "FLASH_XMODEM_DL_Z"} : Received(cmd)
    /\ \/ RangeRefused(DataLen >= 2 * WordBytes)
       \/ /\ DataLen >= 2 * WordBytes /\ InRange
          /\ touched' = IF Received("FLASH_XMODEM_DL")
                        THEN touched \cup EraseWalk(Off, Count) ELSE touched
          /\ Accepted("write")
          /\ Enter("session", "SUCCESS")

XmodemRead ==
    /\ \E cmd \in {"FLASH_XMODEM_UL", "FLASH_XMODEM_UL_Z"} : Received(cmd)
    /\ \/ RangeRefused(DataLen >= 2 * WordBytes)
       \/ /\ DataLen >= 2 * WordBytes /\ InRange
          /\ Accepted("read") /\ touched' = touched
          /\ Enter("session", "SUCCESS")

RawRead ==
    /\ Received("RAW_XMODEM_UL")
    /\ \/ DataLen < 2 * WordBytes /\ Answer("LEN_ERROR")
       \/ DataLen >= 2 * WordBytes /\ Enter("session", "SUCCESS")
          /\ UNCHANGED <<touched, access>>

(* flash_erase_chip of the W800: from the first writable sector to the end. *)
ChipErase ==
    /\ Received("FLASH_CHIP_ERASE")
    /\ \/ FlashSize = 0 /\ Answer("ERROR")
       \/ /\ FlashSize # 0
          /\ touched' = touched \cup EraseWalk(Protected, FlashSize - Protected)
          /\ Enter("idle", "SUCCESS") /\ access' = access

(* read_efuse has nothing or something; read_otp may also fail. *)
ReadFuses ==
    \/ Received("READ_EFUSE") /\ \E status \in {"SUCCESS", "ERROR"} : Answer(status)
    \/ Received("READ_OTP") /\ \E status \in {"SUCCESS", "ERROR", "LEN_ERROR"} : Answer(status)
    \/ Received("GET_CHIP_PRODUCT") /\ Answer("SUCCESS")

Registers ==
    \E c \in {<<"READ_REG", WordBytes>>, <<"WRITE_REG", 2 * WordBytes>>} :
        /\ Received(c[1])
        /\ Answer(IF DataLen < c[2] THEN "LEN_ERROR" ELSE "SUCCESS")

KeyValue ==
    \/ Received("KV_GET") /\ \E status \in {"SUCCESS", "ERROR"} : Answer(status)
    \/ Received("KV_SET") /\ Answer("SUCCESS")

(* The program jumped to may return; the stub itself does not answer. *)
JumpRam ==
    /\ Received("JUMP_RAM")
    /\ \/ DataLen < WordBytes /\ Answer("LEN_ERROR")
       \/ /\ DataLen >= WordBytes
          /\ pc' \in {"idle", "gone"} /\ frame' = NoFrame
          /\ UNCHANGED <<rate, touched, access, loose, netVars, host>>

Unknown ==
    /\ pc = "run" /\ \A cmd \in DOMAIN Code : ~Received(cmd)
    /\ Answer("TYPE_ERROR")

Handler ==
    \/ Sync \/ RamDownload \/ FlashDownload \/ FlashErase \/ FlashUpload
    \/ BaudChange \/ Run \/ FlashId \/ FlashDigest \/ GetMac
    \/ XmodemWrite \/ XmodemRead \/ RawRead \/ ChipErase \/ ReadFuses
    \/ Registers \/ KeyValue \/ JumpRam \/ Unknown

(***************************************************************************)
(* The transfers.                                                          *)
(***************************************************************************)
(* packet_receive_handle reads frames with uart_getc_inf.  frame.type is    *)
(* its parameter, frame.data what it has of the frame at hand, header and   *)
(* all.                                                                     *)
Raw == Append(frame.data, Head(line))
RawLen == Raw[3] + ByteMod * Raw[4]
FrameByte == pc = "frames" /\ TakeByte

FrameGoesOn ==
    /\ FrameByte
    /\ \/ Len(Raw) < 4
       \/ Len(Raw) = 4 /\ Raw[1] = Magic /\ Raw[2] = frame.type /\ RawLen <= BufSize
       \/ Len(Raw) > 4 /\ Len(Raw) < RawLen + 5
    /\ frame' = [frame EXCEPT !.data = Raw]
    /\ UNCHANGED <<pc, rate, touched, access, loose, answers, host, aligned, faults>>

(* A frame that is refused ends the download. *)
FramesEnd(status) ==
    /\ Reply(frame.type, status)
    /\ pc' = "idle" /\ frame' = NoFrame /\ access' = NoRange
    /\ UNCHANGED <<rate, touched, loose, host, aligned, faults>>

FrameRefused ==
    /\ FrameByte
    /\ \/ Len(Raw) = 4 /\ (Raw[1] # Magic \/ Raw[2] # frame.type) /\ FramesEnd("ERROR")
       \/ Len(Raw) = 4 /\ Raw[1] = Magic /\ Raw[2] = frame.type
          /\ RawLen > BufSize /\ FramesEnd("LEN_ERROR")
       \/ Len(Raw) > 4 /\ Len(Raw) = RawLen + 5
          /\ Head(line) # SumOf(frame.data) /\ FramesEnd("CRC_ERROR")

(* The first page goes to off + written - page_off with the frame not yet   *)
(* in written: a page below off, which is in the sector before it.          *)
FrameSectors ==
    IF access.kind = "frames"
    THEN {(access.off + i + WordMod - 1) % WordMod : i \in 0 .. access.len} ELSE {}

Unbounded == access.off = 0 \/ access.off + access.len >= WordMod

(* The frame is taken.  It may complete the download; it may also carry     *)
(* more than remains, which is not compared: remaining wraps and the        *)
(* download goes on.  A frame without its flag byte has a data_len of -1,   *)
(* and the copy does not come to an end.                                    *)
FrameTaken ==
    /\ FrameByte /\ Len(Raw) > 4 /\ Len(Raw) = RawLen + 5
    /\ Head(line) = SumOf(frame.data)
    /\ touched' = touched \cup FrameSectors
    /\ \E complete, beyond \in BOOLEAN :
          /\ ~(complete /\ beyond) /\ (RawLen = 0 => beyond)
          /\ loose' = (loose \/ (access.kind = "frames" /\ (beyond \/ Unbounded)))
          /\ IF complete \/ RawLen = 0
             THEN /\ pc' = (IF complete THEN "idle" ELSE "gone")
                  /\ frame' = NoFrame /\ access' = NoRange
             ELSE /\ frame' = [frame EXCEPT !.data = <<>>]
                  /\ UNCHANGED <<pc, access>>
    /\ IF RawLen = 0 THEN answers' = answers ELSE Reply(frame.type, "SUCCESS")
    /\ UNCHANGED <<rate, host, aligned, faults>>

(* An XMODEM transfer reads bytes, may program what its range names, and    *)
(* comes to an end; the transfer modules have the detail.                   *)
SessionReads ==
    /\ pc = "session" /\ TakeByte
    /\ UNCHANGED <<stubVars, answers, host, aligned, faults>>

SessionWrites ==
    /\ pc = "session" /\ access.kind = "write"
    /\ touched' = touched \cup {(access.off + i) % WordMod : i \in 0 .. access.len - 1}
    /\ loose' = (loose \/ access.off + access.len >= WordMod)
    /\ UNCHANGED <<pc, frame, rate, access, netVars, host>>

SessionEnds ==
    /\ pc = "session" /\ pc' = "idle" /\ access' = NoRange
    /\ UNCHANGED <<frame, rate, touched, loose, netVars, host>>

(***************************************************************************)
(* The host and the line.                                                  *)
(***************************************************************************)
Sessions == {"RAM_DOWNLOAD", "FLASH_DOWNLOAD", "FLASH_XMODEM_DL", "FLASH_XMODEM_DL_Z",
             "FLASH_XMODEM_UL", "FLASH_XMODEM_UL_Z", "RAW_XMODEM_UL"}

Frame(r) ==
    LET type == Code[r.cmd]  l0 == Len(r.data) % ByteMod  l1 == Len(r.data) \div ByteMod
    IN  <<Magic, type, l0, l1>> \o r.data \o <<FrameSum(type, l0, l1, r.data)>>

Idle == pc = "gone" \/ (pc = "idle" /\ line = <<>>)

(* Nothing is under way and nothing will come: the stub waits for a byte in *)
(* main, or in a frame download, where it may wait for ever.                *)
Quiet == Idle \/ (pc = "frames" /\ line = <<>>)

(* A frame leaves; it may lose a byte or have one altered.  What is sent    *)
(* while line and stub are idle is in step, whatever was before.            *)
Transmit(r, hostRate) ==
    LET f == Frame(r)  inStep == aligned \/ Idle
    IN  \/ /\ line' = IF hostRate = rate THEN line \o f ELSE line
           /\ aligned' = inStep /\ faults' = faults
        \/ /\ faults < MaxFaults /\ faults' = faults + 1
           /\ hostRate = rate
           /\ \/ \E i \in 1 .. Len(f) :
                    /\ line' = line \o SubSeq(f, 1, i - 1) \o SubSeq(f, i + 1, Len(f))
                    /\ aligned' = FALSE
              \/ \E i \in 1 .. Len(f), b \in Noise :
                    /\ line' = line \o [f EXCEPT ![i] = b]
                    /\ aligned' = (inStep /\ i \notin {1, 3, 4})

HostSends ==
    /\ host.state = "ready" /\ pc # "gone"
    /\ \E r \in Requests :
          /\ host' = [host EXCEPT !.state = "waiting", !.req = r,
                                  !.rates[2] = RateAfter(r, host.rates[1])]
          /\ Transmit(r, host.rates[1])
    /\ answers' = <<>>
    /\ UNCHANGED stubVars

(* Silence for longer than the stub's own timeout: the host tries again,   *)
(* at the other of the two rates the stub may be at.                       *)
HostRepeats ==
    /\ host.state = "waiting" /\ Quiet /\ answers = <<>>
    /\ pc # "gone" /\ host.req.cmd # "JUMP_RAM"
    /\ host' = [host EXCEPT !.turn = 3 - @]
    /\ Transmit(host.req, host'.rates[host'.turn])
    /\ UNCHANGED <<stubVars, answers>>

(* An upload takes as many answers as it has chunks.                       *)
MoreToCome == host.req.cmd = "FLASH_UPLOAD" /\ (pc = "upload" \/ Len(answers) > 1)

HostReads ==
    /\ host.state = "waiting" /\ answers # <<>>
    /\ answers' = Tail(answers)
    /\ LET a == Head(answers)
           used == IF a.status = "SUCCESS" THEN HostListensAt ELSE host.rates[host.turn]
       IN  host' = IF a.type # Code[host.req.cmd] \/ a.status = "CRC_ERROR" \/ MoreToCome
                   THEN host
                   ELSE [host EXCEPT
                          !.state = IF host.req.cmd \in Sessions /\ a.status = "SUCCESS"
                                    THEN "transfer" ELSE "ready",
                          !.req = NoRequest,
                          !.rates = <<used, used>>, !.turn = 1]
    /\ UNCHANGED <<stubVars, line, aligned, faults>>

(* JUMP_RAM has no answer of its own. *)
HostGivesUp ==
    /\ host.state = "waiting" /\ Quiet /\ answers = <<>>
    /\ host.req.cmd = "JUMP_RAM" \/ pc = "gone"
    /\ host' = [host EXCEPT !.state = "ready", !.req = NoRequest,
                            !.rates[2] = host.rates[1], !.turn = 1]
    /\ UNCHANGED <<stubVars, netVars>>

(* A byte of an XMODEM transfer, which the stub may leave behind.           *)
HostPayload ==
    /\ host.state = "transfer" /\ pc = "session" /\ line = <<>>
    /\ aligned' = FALSE
    /\ \E b \in Noise : line' = <<b>>
    /\ UNCHANGED <<stubVars, answers, host, faults>>

(* A data frame, which has the form of a request; the host has read the     *)
(* answers to the ones before.                                              *)
HostSendsData ==
    /\ host.state = "transfer" /\ Quiet /\ pc = "frames"
    /\ \E r \in Requests : /\ Code[r.cmd] = frame.type /\ r.data # <<>>
                           /\ Transmit(r, host.rates[1])
    /\ answers' = <<>>
    /\ UNCHANGED <<stubVars, host>>

(* The host is through with a transfer, or gives a frame download up.       *)
HostEndsTransfer ==
    /\ host.state = "transfer" /\ pc # "session"
    /\ host' = [host EXCEPT !.state = "ready"]
    /\ UNCHANGED <<stubVars, netVars>>

LoseAnswer ==
    /\ answers # <<>> /\ faults < MaxFaults
    /\ faults' = faults + 1
    /\ answers' = Tail(answers)
    /\ UNCHANGED <<stubVars, line, host, aligned>>

Stub ==
    \/ ReadMagic \/ RefuseLength \/ ReadHeader \/ ReadData \/ ReadSum \/ FrameTimeout
    \/ Handler \/ UploadChunk \/ DigestDone
    \/ FrameGoesOn \/ FrameRefused \/ FrameTaken
    \/ SessionReads \/ SessionWrites \/ SessionEnds
Host == HostRepeats \/ HostReads \/ HostGivesUp
Next ==
    \/ Stub \/ Host \/ HostSends \/ HostPayload \/ HostSendsData \/ HostEndsTransfer
    \/ LoseAnswer

(* The stub never stops running; an XMODEM session ends, by its timeouts    *)
(* and retries (its modules show it), which is not assumed of a frame       *)
(* download; a host that waits does read, and repeats after silence.        *)
Fairness ==
    /\ WF_vars(Stub) /\ WF_vars(SessionEnds)
    /\ WF_vars(Host)
Spec == Init /\ [][Next]_vars /\ Fairness

(***************************************************************************)
(* Properties.                                                             *)
(***************************************************************************)

(* Type correctness of main and handle_obk_frame, host and line. *)
TypeOK ==
    /\ pc \in {"idle", "type", "l0", "l1", "data", "sum", "run", "upload", "digest",
                "frames", "session", "gone"}
    /\ frame \in [type : Byte, l0 : Byte, l1 : Byte, data : Seq(Byte)]
    /\ IF pc = "frames" THEN Len(frame.data) <= BufSize + 4 ELSE Len(frame.data) <= BufSize
    /\ {access.off, access.len, rate} \subseteq Word
    /\ touched \subseteq Word
    /\ line \in Seq(Byte)
    /\ host.state \in {"ready", "waiting", "transfer"}
    /\ faults \in 0 .. MaxFaults

(* handle_obk_frame runs a handler only for a frame the host has sent, type *)
(* and data, although the line alters bytes: the sum covers all of them.   *)
(* Only a lost byte, an altered length or magic, the data of a frame that  *)
(* is too long and a payload left behind put stub and host out of step,    *)
(* and silence ends that.                                                  *)
OnlySentFramesRun ==
    (pc = "run" /\ aligned) =>
        \E r \in Requests : Code[r.cmd] = frame.type /\ r.data = frame.data

(* The range checks of the handlers: the digests never read outside the    *)
(* chip whatever words the command carries, and the other commands do so   *)
(* only when off + len wraps.                                              *)
RangesInChip ==
    /\ access.off + access.len < WordMod => access.off + access.len <= FlashSize
    /\ access.kind = "digest" => access.off + access.len <= FlashSize

(* Nothing outside the chip is erased, ever: the walk of a range that wraps *)
(* compares with the wrapped end.  Nothing outside is programmed either,    *)
(* except by a transfer whose range wraps, by a FLASH_DOWNLOAD to offset 0  *)
(* (its first page goes to the page before, 0xFFFFFF00) and by one that is  *)
(* sent more than it announced: these set loose.                            *)
WritesInChip == ~loose => touched \subseteq 0 .. FlashSize - 1

(* Baud changes: when the host has its answer, both sides use the same     *)
(* rate, whichever frames and answers were lost on the way.                *)
RatesAgree == (host.state = "ready" /\ pc # "gone") => host.rates[1] = rate

(* Every request of a host that repeats it is answered, or the stub has     *)
(* left (RUN, JUMP_RAM).  The timeouts of handle_obk_frame bring the stub   *)
(* back to its loop; out of a frame download, which has none, it comes by   *)
(* what the host repeats: a frame of another type is refused, one of the    *)
(* same type is taken for data and answered as such.                        *)
HostAnswered == (host.state = "waiting") ~> (host.state # "waiting")

(* README.md:22: flash offsets below 0x2000 are protected from erase and   *)
(* write operations.                                                       *)
LowSectorsKept == touched \cap (0 .. Protected - 1) = {}
=============================================================================
