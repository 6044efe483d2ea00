--------------------------- MODULE FrameDownload ---------------------------
(***************************************************************************)
(* packet_receive_handle of src/flasher_stub.c: the body of the commands   *)
(* OBK_CMD_RAM_DOWNLOAD and OBK_CMD_FLASH_DOWNLOAD.  The host sends frames *)
(* with a status byte and data; status 1 says that the frame before is     *)
(* sent again because its answer did not arrive.  RAM frames are copied to *)
(* their place, flash frames fill a page buffer.                           *)
(*                                                                         *)
(* The host is external: it sends one frame, waits for the answer, and     *)
(* sends the frame again when none comes.  The line may lose an answer or  *)
(* damage a frame.                                                         *)
(***************************************************************************)
EXTENDS NorFlash, Sequences

CONSTANTS Types,        \* the commands the host may give
          Off,          \* where the data goes
          Length,       \* how much there is, in units
          File,         \* the data, by unit
          FrameSizes,   \* how many units of data the host puts in a frame
          BufUnits,     \* BUF_SIZE
          MaxFaults     \* bound: faults of the line

ASSUME FrameDownloadAssumption ==
    /\ Types \subseteq {"RAM", "FLASH"}
    /\ Off \in Nat /\ Length \in Nat /\ Off + Length <= FlashUnits
    /\ File \in [0 .. Length - 1 -> Readable]
    /\ FrameSizes \subseteq Nat \ {0}
    /\ BufUnits \in Nat /\ MaxFaults \in Nat

VARIABLES type,               \* the command: "RAM" or "FLASH"
          flash, ram,         \* the two memories
          pc,                 \* where packet_receive_handle is
          written, remaining, lastLen, pageBuf, pageOff,   \* its locals
          frame, left,        \* the frame at hand and how much of it is left
          host,               \* "send", "reply", "ok" or "fail"
          sent,               \* the frame the host sent last
          acked,              \* units of the file the host knows to be there
          toStub, toHost, faults

stubVars == <<type, flash, ram, pc, written, remaining, lastLen, pageBuf,
              pageOff, frame, left>>
hostVars == <<host, sent, acked>>
lineVars == <<toStub, toHost, faults>>
vars == <<stubVars, hostVars, lineVars>>

NoFrame == [from |-> 0, size |-> 0, again |-> FALSE, intact |-> TRUE]

(* The command was accepted: the range is erased for a flash download. *)
Init ==
    /\ type \in Types
    /\ flash = [u \in Addrs |-> Blank]
    /\ ram = [u \in Addrs |-> Blank]
    /\ pc = IF Length > 0 THEN "header" ELSE "done"
    /\ written = 0
    /\ remaining = Length
    /\ lastLen = 0
    /\ pageBuf = [i \in PageSlots |-> Blank]
    /\ pageOff = 0
    /\ frame = NoFrame
    /\ left = 0
    /\ host = "send"
    /\ sent = NoFrame
    /\ acked = 0
    /\ toStub = <<>>
    /\ toHost = <<>>
    /\ faults = 0

-----------------------------------------------------------------------------
(* The stub. *)
RewindRemainingOnly(f) ==                                \* fault
    /\ remaining' = IF f.again THEN remaining + lastLen ELSE remaining
    /\ written' = written

(* Status byte 1 takes the last frame back. *)
Rewind(f) ==
    /\ remaining' = IF f.again THEN remaining + lastLen ELSE remaining
    /\ written' = IF f.again THEN written - lastLen ELSE written

(* A whole frame has been read; a bad one ends the download at once. *)
ReadFrame ==
    /\ pc = "header"
    /\ toStub # <<>>
    /\ LET f == Head(toStub)
       IN  \/ /\ f.size > BufUnits
              /\ toHost' = Append(toHost, "LEN_ERROR")
              /\ pc' = "done"
              /\ UNCHANGED <<written, remaining, lastLen, frame, left>>
           \/ /\ f.size <= BufUnits /\ ~f.intact
              /\ toHost' = Append(toHost, "CRC_ERROR")
              /\ pc' = "done"
              /\ UNCHANGED <<written, remaining, lastLen, frame, left>>
           \/ /\ f.size <= BufUnits /\ f.intact
              /\ Rewind(f)
              /\ lastLen' = f.size
              /\ frame' = f
              /\ left' = f.size
              /\ pc' = "data"
              /\ UNCHANGED toHost
    /\ toStub' = Tail(toStub)
    /\ UNCHANGED <<type, flash, ram, pageBuf, pageOff, hostVars, faults>>

(* The data goes straight to address off + written. *)
CopyToRam ==
    /\ pc = "data" /\ type = "RAM" /\ left > 0
    /\ ram' = [u \in Addrs |->
                  IF u \in Off + written .. Off + written + left - 1
                  THEN File[frame.from + (u - Off - written)] ELSE ram[u]]
    /\ left' = 0
    /\ UNCHANGED <<type, flash, pc, written, remaining, lastLen, pageBuf, pageOff,
                   frame, hostVars, lineVars>>

(* The page buffer takes what it can; when it is full it is programmed to  *)
(* off + written - page_off, with the value written has before this frame. *)
FillPage ==
    /\ pc = "data" /\ type = "FLASH" /\ left > 0
    /\ LET space == PageUnits - pageOff
           chunk == IF space > left THEN left ELSE space
           p     == frame.from + (frame.size - left)
           buf   == [i \in PageSlots |->
                        IF i \in pageOff .. pageOff + chunk - 1
                        THEN File[p + (i - pageOff)] ELSE pageBuf[i]]
           full  == pageOff + chunk = PageUnits
       IN  /\ pageBuf' = buf
           /\ pageOff' = IF full THEN 0 ELSE pageOff + chunk
           /\ flash' = IF full THEN ProgramPage(flash, Off + written - PageUnits, buf)
                       ELSE flash
           /\ left' = left - chunk
    /\ UNCHANGED <<type, ram, pc, written, remaining, lastLen, frame, hostVars, lineVars>>

AnswerNothing == toHost                                  \* fault
AnswerFrame == Append(toHost, "SUCCESS")

EndFrame ==
    /\ pc = "data" /\ left = 0
    /\ written' = written + frame.size
    /\ remaining' = remaining - frame.size
    /\ toHost' = AnswerFrame
    /\ pc' = IF remaining' > 0 THEN "header" ELSE "flush"
    /\ UNCHANGED <<type, flash, ram, lastLen, pageBuf, pageOff, frame, left, hostVars,
                   toStub, faults>>

(* What is left in the page buffer, padded with 0xFF. *)
Flush ==
    /\ pc = "flush"
    /\ flash' = IF pageOff > 0 /\ type = "FLASH"
                THEN ProgramPage(flash, Off + written - pageOff,
                        [i \in PageSlots |-> IF i < pageOff THEN pageBuf[i] ELSE Blank])
                ELSE flash
    /\ pc' = "done"
    /\ UNCHANGED <<type, ram, written, remaining, lastLen, pageBuf, pageOff, frame, left,
                   hostVars, lineVars>>

(* Back in handle_obk_frame, a frame is taken for a command of the same    *)
(* type, whose data must be 8 bytes long.                                  *)
CommandRefused ==
    /\ pc = "done"
    /\ toStub # <<>>
    /\ toStub' = Tail(toStub)
    /\ toHost' = Append(toHost, IF Head(toStub).intact THEN "LEN_ERROR" ELSE "CRC_ERROR")
    /\ UNCHANGED <<stubVars, hostVars, faults>>

-----------------------------------------------------------------------------
(* The host and the line. *)
Fault == faults < MaxFaults /\ faults' = faults + 1

Send(f) ==
    /\ sent' = f
    /\ host' = "reply"
    /\ \/ toStub' = <<f>> /\ UNCHANGED faults
       \/ toStub' = <<[f EXCEPT !.intact = FALSE]>> /\ Fault
    /\ UNCHANGED <<stubVars, acked, toHost>>

SendNext ==
    /\ host = "send" /\ acked < Length
    /\ \E n \in FrameSizes :
        Send([NoFrame EXCEPT !.from = acked,
                             !.size = IF n < Length - acked THEN n ELSE Length - acked])

(* No answer: nothing is under way and the stub is waiting. *)
SendAgain ==
    /\ host = "reply"
    /\ toStub = <<>> /\ toHost = <<>> /\ pc \in {"header", "done"}
    /\ Send([sent EXCEPT !.again = TRUE])

HostReads ==
    /\ host = "reply" /\ toHost # <<>>
    /\ toHost' = Tail(toHost)
    /\ \/ /\ Head(toHost) = "SUCCESS"
          /\ acked' = sent.from + sent.size
          /\ host' = IF acked' = Length THEN "ok" ELSE "send"
       \/ /\ Head(toHost) # "SUCCESS"
          /\ host' = "fail"
          /\ UNCHANGED acked
    /\ UNCHANGED <<stubVars, sent, toStub, faults>>

LoseAnswer ==
    /\ toHost # <<>> /\ Fault
    /\ toHost' = Tail(toHost)
    /\ UNCHANGED <<stubVars, hostVars, toStub>>

StubNext == ReadFrame \/ CopyToRam \/ FillPage \/ EndFrame \/ Flush \/ CommandRefused
HostNext == SendNext \/ SendAgain \/ HostReads
Next == StubNext \/ HostNext \/ LoseAnswer

(* Both sides run; a host that gets no answer sends again. *)
Spec == Init /\ [][Next]_vars /\ WF_vars(StubNext) /\ WF_vars(HostNext)
-----------------------------------------------------------------------------
TypeOK ==
    /\ type \in Types
    /\ flash \in [Addrs -> Cell] /\ ram \in [Addrs -> Cell]
    /\ pc \in {"header", "data", "flush", "done"}
    /\ written \in 0 .. Length /\ remaining \in 0 .. Length
    /\ lastLen \in 0 .. BufUnits
    /\ pageBuf \in [PageSlots -> Readable] /\ pageOff \in 0 .. PageUnits - 1
    /\ left \in 0 .. BufUnits
    /\ host \in {"send", "reply", "ok", "fail"}
    /\ acked \in 0 .. Length
    /\ faults \in 0 .. MaxFaults

(* RAM holds the file as far as it was counted, although frames may come   *)
(* twice and a repeated one is written over itself (lines 603-607, 632).   *)
RamHoldsFile ==
    type = "RAM" => \A i \in 0 .. written - 1 : ram[Off + i] = File[i]

(* What the host was told to be loaded is loaded: the stub is never behind *)
(* the host, and at most one frame ahead of it.                            *)
PositionsAgree ==
    host # "fail" /\ pc \in {"header", "done"} /\ toStub = <<>> =>
        written \in {acked, sent.from + sent.size}

(* Nothing outside the announced range of RAM is touched. *)
RamOutsideKept ==
    [][\A u \in Addrs : u \notin Off .. Off + Length - 1 => ram'[u] = ram[u]]_vars

(* The download ends on both sides although answers get lost. *)
DownloadEnds == <>(host \in {"ok", "fail"} /\ pc = "done")

(* A flash download that the host was told is complete is in the flash. *)
FlashHoldsFile ==
    type = "FLASH" /\ host = "ok" /\ pc = "done" =>
        \A i \in 0 .. Length - 1 : flash[Off + i] = File[i]
=============================================================================
