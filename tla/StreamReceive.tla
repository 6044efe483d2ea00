---------------------------- MODULE StreamReceive ----------------------------
(***************************************************************************)
(* xmodem_receive_compressed_flash: XMODEM blocks feed the inflater, and   *)
(* what it puts out is collected in pages that are erased for and          *)
(* programmed on the way.  The ACK of a block is held back until the       *)
(* inflater asks for the next one.                                         *)
(*                                                                         *)
(* The inflater (miniz) is external.  The compressed stream is a sequence  *)
(* of pieces; the k-th piece makes the inflater put out yields[k] units of *)
(* the file, as far as its dictionary, which is also the output buffer,    *)
(* has room before its end; after the last piece it is done.  Pieces that  *)
(* are missing or doubled make it put out something else than the file.    *)
(***************************************************************************)
EXTENDS NorFlash, Sequences

CONSTANTS Starts,       \* where the image goes, and the chip before: [off, before]
          Length,       \* len, the size the command announced
          File,         \* what the stream decompresses to, by unit
          Wrong,        \* what a broken stream decompresses to
          Streams,      \* the streams a host may send: [yields, blocks]
          DictUnits,    \* TDEFL_LZ_DICT_SIZE
          BlockMod,     \* values of a block number (256)
          StartTries    \* how often 'C' is sent (100)

Pieces == [SOH |-> 1, STX |-> 2]    \* pieces of a stream in a block

ASSUME StreamAssumption ==
    /\ {Length, DictUnits, BlockMod, StartTries} \subseteq Nat \ {0}
    /\ BlockMod > 1
    /\ File \in [0 .. Length - 1 -> Readable] /\ Wrong \in Data
    /\ Starts \subseteq [off : Addrs, before : [Addrs -> Cell]]
    /\ \A s \in Starts : s.off % PageUnits = 0 /\ s.off + Length <= FlashUnits
    /\ \A s \in Streams : /\ s.yields \in Seq(Nat) /\ s.yields # <<>>
                          /\ s.blocks \in Seq(DOMAIN Pieces) /\ s.blocks # <<>>

VARIABLES flash,
          pc,        \* where the code is
          off, stream, before,    \* the command, the stream, the chip at the start
          tries,     \* 'C' sent so far
          marker,    \* the marker of the packet at hand
          rx,        \* xmodem_rx_stream_t: expected, pendingAck, started
          input,     \* pieces in cmd_buf the inflater has not consumed
          tinfl,     \* the inflater: seen, owed, dict, intact
          out,       \* units handed to put_buffer and not yet put
          written,   \* flash.written, and total of stub_miniz_inflate_raw
          page,      \* flash.page: the units collected, page_len of them
          result,
          reply      \* what the last step sent

commandVars == <<off, stream, before>>
flashVars   == <<flash, written, page>>
inflateVars == <<input, tinfl, out>>
streamVars  == <<commandVars, flashVars, inflateVars, pc, tries, marker, rx, result, reply>>

BlockNumbers == 0 .. BlockMod - 1
Markers == {"SOH", "STX", "EOT", "CAN", "junk"}

InitStream ==
    /\ \E s \in Starts : off = s.off /\ before = s.before
    /\ stream \in Streams
    /\ flash = before
    /\ pc = "fetch" /\ tries = 0 /\ marker = "junk"
    /\ rx = [expected |-> 1, pendingAck |-> FALSE, started |-> FALSE]
    /\ input = <<>> /\ out = <<>>
    /\ tinfl = [seen |-> 0, owed |-> 0, dict |-> 0, intact |-> TRUE]
    /\ written = 0 /\ page = <<>>
    /\ result = "busy" /\ reply = <<>>

Cancel == pc' = "done" /\ result' = "fail" /\ reply' = <<"CAN", "CAN">>

-----------------------------------------------------------------------------
(* xmodem_rx_next_packet, called by get_buffer with nothing left.          *)

Fetch ==
    /\ pc = "fetch"
    /\ pc' = IF rx.started THEN "marker" ELSE "first"
    /\ tries' = IF rx.started THEN tries ELSE 1
    /\ reply' = (IF rx.pendingAck THEN <<"ACK">> ELSE <<>>)
                \o (IF rx.started THEN <<>> ELSE <<"C">>)
    /\ rx' = [rx EXCEPT !.pendingAck = FALSE]
    /\ UNCHANGED <<commandVars, flashVars, inflateVars, marker, result>>

FirstTimeout ==
    /\ pc = "first"
    /\ IF tries < StartTries
       THEN /\ tries' = tries + 1 /\ reply' = <<"C">>
            /\ UNCHANGED <<pc, result>>
       ELSE Cancel /\ UNCHANGED tries
    /\ UNCHANGED <<commandVars, flashVars, inflateVars, marker, rx>>

(* A marker, be it the answer to 'C' or a later one.                       *)
ReadMarker(m) ==
    /\ pc \in {"first", "marker"}
    /\ rx' = [rx EXCEPT !.started = TRUE]
    /\ marker' = m
    /\ \/ m \in {"CAN", "EOT"} /\ Cancel
       \/ m = "junk" /\ pc' = "marker" /\ reply' = <<"NAK">> /\ UNCHANGED result
       \/ m \in {"SOH", "STX"} /\ pc' = "packet" /\ reply' = <<>> /\ UNCHANGED result
    /\ UNCHANGED <<commandVars, flashVars, inflateVars, tries>>

(* No marker, or no end of the packet, within XMODEM_WAIT_LOOPS.           *)
Timeout ==
    /\ pc \in {"marker", "packet"}
    /\ Cancel
    /\ UNCHANGED <<commandVars, flashVars, inflateVars, tries, marker, rx>>

(* fault: the byte-wide number is compared as an int. *)
PreviousUncast(n) == n - 1
Previous(n) == (n - 1) % BlockMod

RefusePacket(no, intact) ==
    /\ pc = "packet"
    /\ \/ ~intact /\ reply' = <<"NAK">> /\ pc' = "marker" /\ UNCHANGED result
       \/ intact /\ no = Previous(rx.expected)
          /\ reply' = <<"ACK">> /\ pc' = "marker" /\ UNCHANGED result
       \/ intact /\ no \notin {Previous(rx.expected), rx.expected} /\ Cancel
    /\ UNCHANGED <<commandVars, flashVars, inflateVars, tries, marker, rx>>

(* The block that is wanted: its data goes to cmd_buf, which is larger.    *)
AcceptPacket(no, pieces) ==
    /\ pc = "packet" /\ no = rx.expected
    /\ rx' = [rx EXCEPT !.expected = (@ + 1) % BlockMod, !.pendingAck = TRUE]
    /\ input' = pieces
    /\ pc' = "inflate" /\ reply' = <<>>
    /\ UNCHANGED <<commandVars, flashVars, tinfl, out, tries, marker, result>>

-----------------------------------------------------------------------------
(* stub_miniz_inflate_raw.                                                 *)

(* What the inflater owes after it has consumed a piece, if it owes nothing.*)
Consumed ==
    IF tinfl.owed > 0 THEN tinfl
    ELSE LET p == Head(input)
             k == tinfl.seen + 1
         IN  [tinfl EXCEPT !.seen = k,
                           !.owed = stream.yields[k],
                           !.intact = @ /\ p = k]

(* The dictionary's last unit is followed by its first.                    *)
Emitted == LET t == Consumed
               room == DictUnits - t.dict
           IN  IF t.owed < room THEN t.owed ELSE room

(* One call of tinfl_decompress, and write_inflate_output.                 *)
Inflate ==
    /\ pc = "inflate"
    /\ LET t == Consumed  n == Emitted
       IN  /\ input' = IF tinfl.owed > 0 THEN input ELSE Tail(input)
           /\ tinfl' = [t EXCEPT !.owed = @ - n, !.dict = (@ + n) % DictUnits]
           /\ IF n > Length - written
              THEN Cancel /\ out' = out
              ELSE /\ pc' = "put" /\ reply' = <<>> /\ result' = result
                   /\ out' = [i \in 1 .. n |->
                                IF t.intact THEN File[written + i - 1] ELSE Wrong]
    /\ UNCHANGED <<commandVars, flashVars, tries, marker, rx>>

-----------------------------------------------------------------------------
(* inflate_flash_put_buffer and inflate_flash_flush.                       *)

PageStart == off + written - Len(page)      \* flash.page_start, while page_len > 0

(* fault: what the buffer held before stays behind the last page. *)
PageBytesUnpadded(p) == [i \in PageSlots |-> IF i < Len(p) THEN p[i + 1] ELSE Wrong]
PageBytes(p) == [i \in PageSlots |-> IF i < Len(p) THEN p[i + 1] ELSE Blank]

(* buffer_is_erased looks at the units collected only.                     *)
Flushed(f, start, p) ==
    IF \A i \in 1 .. Len(p) : p[i] = Blank THEN f
    ELSE ProgramPage(f, start, PageBytes(p))

(* fault: a page that begins a sector inside the range is not erased for. *)
NewSectorAtStart == written = 0 /\ off % SectorUnits = 0
NewSector == page = <<>> /\ (off + written) % SectorUnits = 0

(* flash_erase_range(page_start, FLASH_SECTOR_SIZE): one sector. *)
EraseSector(f, addr) ==
    [u \in Addrs |-> IF u \div SectorUnits = addr \div SectorUnits THEN Blank ELSE f[u]]

(* fault: a full page is noticed one unit late. *)
PageFullLate(p) == Len(p) > PageUnits
PageFull(p) == Len(p) = PageUnits

(* One turn of the loop: what fits in the page, and the page when full.    *)
PutChunk ==
    /\ pc = "put" /\ out # <<>>
    /\ LET room  == PageUnits - Len(page)
           n     == IF room < Len(out) THEN room ELSE Len(out)
           p     == page \o SubSeq(out, 1, n)
           f     == IF NewSector THEN EraseSector(flash, off + written) ELSE flash
       IN  /\ out' = SubSeq(out, n + 1, Len(out))
           /\ written' = written + n
           /\ page'  = IF PageFull(p) THEN <<>> ELSE p
           /\ flash' = IF PageFull(p) THEN Flushed(f, PageStart, p) ELSE f
    /\ reply' = <<>>
    /\ UNCHANGED <<commandVars, input, tinfl, pc, tries, marker, rx, result>>

(* The inflater is done, wants more input, or has more to put out.         *)
StreamDone == tinfl.owed = 0 /\ tinfl.seen = Len(stream.yields)

(* fault: a short stream is taken for a complete one. *)
LengthUnchecked == written <= Length
LengthReached == written = Length

NextCall ==
    /\ pc = "put" /\ out = <<>>
    /\ IF StreamDone /\ ~LengthReached
       THEN Cancel
       ELSE /\ pc' = IF StreamDone THEN "flush"
                     ELSE IF input = <<>> THEN "fetch" ELSE "inflate"
            /\ reply' = <<>> /\ result' = result
    /\ UNCHANGED <<commandVars, flashVars, inflateVars, tries, marker, rx>>

-----------------------------------------------------------------------------
(* The end of xmodem_receive_compressed_flash: the last page, then         *)
(* xmodem_rx_finish with the ACK of the last block.                        *)
LastFlush ==
    /\ pc = "flush"
    /\ flash' = Flushed(flash, PageStart, page) /\ page' = <<>>
    /\ pc' = "finish" /\ reply' = <<"ACK">>
    /\ rx' = [rx EXCEPT !.pendingAck = FALSE]
    /\ UNCHANGED <<commandVars, inflateVars, written, tries, marker, result>>

Finish(m) ==
    /\ pc = "finish"
    /\ \/ m = "EOT" /\ pc' = "done" /\ result' = "ok" /\ reply' = <<"ACK">>
       \/ m # "EOT" /\ Cancel
    /\ UNCHANGED <<commandVars, flashVars, inflateVars, tries, marker, rx>>

FinishTimeout ==
    /\ pc = "finish" /\ Cancel
    /\ UNCHANGED <<commandVars, flashVars, inflateVars, tries, marker, rx>>

Work == Fetch \/ Inflate \/ PutChunk \/ NextCall \/ LastFlush
GiveUp == FirstTimeout \/ Timeout \/ FinishTimeout

-----------------------------------------------------------------------------
(* Properties of the receiver.                                             *)

TypeOK ==
    /\ flash \in [Addrs -> Cell]
    /\ pc \in {"fetch", "first", "marker", "packet", "inflate", "put", "flush", "finish", "done"}
    /\ [off |-> off, before |-> before] \in Starts /\ stream \in Streams
    /\ tries \in 0 .. StartTries /\ marker \in Markers
    /\ rx \in [expected : BlockNumbers, pendingAck : BOOLEAN, started : BOOLEAN]
    /\ input \in Seq(Nat) /\ out \in Seq(Readable)
    /\ tinfl.seen \in 0 .. Len(stream.yields) /\ tinfl.owed \in Nat
    /\ tinfl.dict \in 0 .. DictUnits - 1
    /\ written \in 0 .. Length
    /\ page \in Seq(Readable) /\ Len(page) < PageUnits
    /\ result \in {"busy", "ok", "fail"}
    /\ reply \in {<<>>, <<"C">>, <<"ACK">>, <<"NAK">>, <<"CAN", "CAN">>}

(* A unit of the image lies in a sector the command erases, or in one that *)
(* is blank from off on.  A range that starts inside a sector is           *)
(* programmed over what is there (line 416).                               *)
Clean(i) ==
    \/ (off + i) \div SectorUnits > off \div SectorUnits
    \/ off % SectorUnits = 0
    \/ before[off + i] = Blank

(* What has left the page buffer is in the chip as the file has it: no     *)
(* block counted twice or left out, no page in the wrong place, no sector  *)
(* erased too late, whatever the amounts the inflater puts out at a time.  *)
Committed == written - Len(page)
ImageIntact == \A i \in 0 .. Committed - 1 : Clean(i) => flash[off + i] = File[i]

(* Nothing but the image changes, except that the sectors it begins in the *)
(* range are erased: nothing before off, nothing after the last of them.   *)
OnlyImageChanges ==
    \A u \in Addrs :
        \/ flash[u] = before[u]
        \/ off <= u /\ u < off + Length
        \/ /\ flash[u] = Blank
           /\ u > off
           /\ LET first == (u \div SectorUnits) * SectorUnits
              IN  off <= first /\ first < off + Length

(* The receiver implements the abstract write: the image only grows, page  *)
(* by page, and success is reported for a complete one only.  Units that   *)
(* are not Clean are counted as what they should be.                       *)
Write == INSTANCE FlashImage WITH
            image   <- [i \in 0 .. Committed - 1 |->
                          IF Clean(i) THEN flash[off + i] ELSE File[i]],
            outcome <- result
ImplementsWrite == Write!Spec
=============================================================================
