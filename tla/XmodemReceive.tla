--------------------------- MODULE XmodemReceive ---------------------------
(***************************************************************************)
(* xmodem_receive_flash of src/flasher_stub.c: the XMODEM receiver that    *)
(* erases a flash range and programs the blocks of a transfer into it page *)
(* by page.  The line is an arbitrary environment here: any marker, any    *)
(* block number, damaged or cut packets, silence.  XmodemWriteSession puts *)
(* a host and a lossy line in its place.                                   *)
(*                                                                         *)
(* One action is what the code does between two reads of the UART; a page  *)
(* program is an action of its own.                                        *)
(***************************************************************************)
EXTENDS NorFlash, Sequences

CONSTANTS Off,            \* flash offset of the command, in units
          Length,         \* length of the command, in units
          FlashBefore,    \* what the chip holds when the command arrives
          BlockMod,       \* block numbers are bytes: 256 in the code
          StartTries,     \* how often 'C' is sent: 100 in the code
          SmallPayloads,  \* the 128-byte payloads a host may send, by block
          LargePayloads   \* the 1024-byte payloads, by block number

ASSUME XmodemReceiveAssumption ==
    /\ Off \in Nat
    /\ Length \in Nat
    /\ Off + Length <= FlashUnits
    /\ Off % SectorUnits = 0
    /\ FlashBefore \in [Addrs -> Readable]
    /\ BlockMod \in Nat \ {0, 1}
    /\ StartTries \in Nat \ {0}
    /\ SmallPayloads \in [0 .. BlockMod - 1 ->
                            SUBSET [0 .. SmallUnits - 1 -> Readable]]
    /\ LargePayloads \in [0 .. BlockMod - 1 ->
                            SUBSET [0 .. LargeUnits - 1 -> Readable]]

VARIABLES flash,      \* the chip
          pc,         \* where xmodem_receive_flash is
          tries,      \* 'C's sent so far
          marker,     \* the marker byte the last packet began with
          expected,   \* expected_block
          written,    \* units committed
          packet,     \* xmodem_packet
          chunk,      \* units of the packet that belong to the image
          pageOff,    \* page_off
          result,     \* what the function returned, "busy" until then
          reply,      \* the bytes the last step put on the UART
          stream,     \* history: the accepted units by image position
          gone        \* the host will send nothing any more

receiverVars == <<flash, pc, tries, marker, expected, written, packet, chunk,
                  pageOff, result, reply, stream>>
vars == <<receiverVars, gone>>

Markers == {"SOH", "STX", "EOT", "CAN", "junk"}
Payloads(m, no) == IF m = "STX" THEN LargePayloads[no] ELSE SmallPayloads[no]
BlockUnits(m) == IF m = "STX" THEN LargeUnits ELSE SmallUnits
BlockNumbers == 0 .. BlockMod - 1
PreviousUncast(b) == b - 1                               \* fault: no uint8_t cast
Previous(b) == (b - 1) % BlockMod
NextBlockUnwrapped(b) == b + 1                           \* fault: int counter
NextBlock(b) == (b + 1) % BlockMod
Image == 0 .. Length - 1

Init ==
    /\ flash = FlashBefore
    /\ pc = "erase"
    /\ tries = 0
    /\ marker = "junk"
    /\ expected = 1
    /\ written = 0
    /\ packet = [i \in 0 .. LargeUnits - 1 |-> Blank]
    /\ chunk = 0
    /\ pageOff = 0
    /\ result = "busy"
    /\ reply = <<>>
    /\ stream = [i \in Image |-> Blank]
    /\ gone = FALSE

-----------------------------------------------------------------------------
(* The ways out of the function. *)
Leave(outcome, bytes) ==
    /\ pc' = "done"
    /\ result' = outcome
    /\ reply' = bytes

Cancel == Leave("fail", <<"CAN", "CAN">>)

(* The HAL refuses the range; the HALs that do so look at it first and     *)
(* erase nothing.                                                          *)
EraseFails ==
    /\ pc = "erase"
    /\ Cancel
    /\ UNCHANGED <<flash, tries, marker, expected, written, packet, chunk,
                   pageOff, stream, gone>>

(* The erase, and the first 'C'. *)
Erase ==
    /\ pc = "erase"
    /\ flash' = EraseRange(flash, Off, Length)
    /\ pc' = "first"
    /\ tries' = 1
    /\ reply' = <<"C">>
    /\ UNCHANGED <<marker, expected, written, packet, chunk, pageOff, result,
                   stream, gone>>

(* No byte came for a 'C': it is sent again, up to StartTries times. *)
FirstTimeout ==
    /\ pc = "first"
    /\ \/ /\ tries < StartTries
          /\ tries' = tries + 1
          /\ reply' = <<"C">>
          /\ UNCHANGED <<pc, result>>
       \/ /\ tries = StartTries
          /\ Cancel
          /\ UNCHANGED tries
    /\ UNCHANGED <<flash, marker, expected, written, packet, chunk, pageOff,
                   stream, gone>>

(* The first byte must begin a packet; anything else ends the transfer. *)
FirstMarker(m) ==
    /\ pc = "first"
    /\ marker' = m
    /\ \/ /\ m \in {"SOH", "STX"}
          /\ pc' = "packet"
          /\ reply' = <<>>
          /\ UNCHANGED result
       \/ /\ m \notin {"SOH", "STX"}
          /\ Cancel
    /\ UNCHANGED <<flash, tries, expected, written, packet, chunk, pageOff,
                   stream, gone>>

TransferStarted == written > 0                           \* fault
TransferComplete == written = Length

(* A byte where a packet, EOT or CAN is expected. *)
NextMarker(m) ==
    /\ pc = "marker"
    /\ marker' = m
    /\ \/ m = "EOT" /\ TransferComplete /\ Leave("ok", <<"ACK">>)
       \/ m = "EOT" /\ ~TransferComplete /\ Cancel
       \/ m = "CAN" /\ Leave("fail", <<>>)
       \/ /\ m = "junk"
          /\ reply' = <<"NAK">>
          /\ UNCHANGED <<pc, result>>
       \/ /\ m \in {"SOH", "STX"}
          /\ pc' = "packet"
          /\ reply' = <<>>
          /\ UNCHANGED result
    /\ UNCHANGED <<flash, tries, expected, written, packet, chunk, pageOff,
                   stream, gone>>

(* Fault: the body of a packet is read with uart_getc_inf. *)
TimeoutBeforeMarkerOnly ==
    /\ pc = "marker"
    /\ Leave("fail", <<>>)
    /\ UNCHANGED <<flash, tries, marker, expected, written, packet, chunk,
                   pageOff, stream, gone>>

(* uart_getc_timeout ran out, before a marker or inside a packet: the      *)
(* function returns without a word.                                        *)
Timeout ==
    /\ pc \in {"marker", "packet"}
    /\ Leave("fail", <<>>)
    /\ UNCHANGED <<flash, tries, marker, expected, written, packet, chunk,
                   pageOff, stream, gone>>

(* The rest of a packet that is refused: a NAK for damage, an ACK for the  *)
(* block before the expected one (its data is not looked at), the end of   *)
(* the transfer for any other number or for data past the length.  Its     *)
(* bytes also land in xmodem_packet, where the next packet overwrites them *)
(* or the padding of its last page covers them; packet leaves them out.    *)
RefusePacket(no, intact) ==
    /\ pc = "packet"
    /\ \/ /\ ~intact
          /\ reply' = <<"NAK">>
          /\ pc' = "marker"
          /\ UNCHANGED result
       \/ /\ intact
          /\ no = Previous(expected)
          /\ reply' = <<"ACK">>
          /\ pc' = "marker"
          /\ UNCHANGED result
       \/ /\ intact
          /\ no \notin {Previous(expected), expected}
          /\ Cancel
       \/ /\ intact
          /\ no = expected
          /\ written >= Length
          /\ Cancel
    /\ UNCHANGED <<flash, tries, marker, expected, written, packet, chunk,
                   pageOff, stream, gone>>

ChunkUnclipped == BlockUnits(marker)                     \* fault
Chunk == IF Length - written > BlockUnits(marker)
         THEN BlockUnits(marker) ELSE Length - written

WantedOrRepeated(no) == no \in {expected, Previous(expected)}   \* fault
Wanted(no) == no = expected

(* The rest of the packet that is wanted. *)
AcceptPacket(no, data) ==
    /\ pc = "packet"
    /\ Wanted(no)
    /\ written < Length
    /\ packet' = [i \in DOMAIN packet |->
                     IF i < BlockUnits(marker) THEN data[i] ELSE packet[i]]
    /\ chunk' = Chunk
    /\ stream' = [i \in Image |->
                     IF i \in written .. written + Chunk - 1
                     THEN data[i - written] ELSE stream[i]]
    /\ pageOff' = 0
    /\ pc' = "program"
    /\ reply' = <<>>
    /\ UNCHANGED <<flash, tries, marker, expected, written, result, gone>>

PageLen == IF chunk - pageOff > PageUnits THEN PageUnits ELSE chunk - pageOff

PageUnpadded ==                                          \* fault: no memset
    [i \in PageSlots |-> IF pageOff + i < LargeUnits THEN packet[pageOff + i] ELSE Blank]

(* The page buffer: page_len units of the packet, then 0xFF. *)
Page == [i \in PageSlots |-> IF i < PageLen THEN packet[pageOff + i] ELSE Blank]

PageAddrFromZero == written + pageOff                    \* fault
PageAddr == Off + written + pageOff

PageBeginsErased == Page[0] = Blank                      \* fault
PageIsErased == \A i \in PageSlots : Page[i] = Blank

(* One turn of the page loop; a page that is all 0xFF is not programmed. *)
ProgramNextPage ==
    /\ pc = "program"
    /\ pageOff < chunk
    /\ flash' = IF PageIsErased THEN flash ELSE ProgramPage(flash, PageAddr, Page)
    /\ pageOff' = pageOff + PageLen
    /\ reply' = <<>>
    /\ UNCHANGED <<pc, tries, marker, expected, written, packet, chunk, result,
                   stream, gone>>

(* All pages of the block are programmed: it is counted and acknowledged. *)
CommitBlock ==
    /\ pc = "program"
    /\ pageOff >= chunk
    /\ written' = written + chunk
    /\ expected' = NextBlock(expected)
    /\ reply' = <<"ACK">>
    /\ pc' = "marker"
    /\ UNCHANGED <<flash, tries, marker, packet, chunk, pageOff, result, stream,
                   gone>>

(* Everything the stub does by itself. *)
Work == EraseFails \/ Erase \/ ProgramNextPage \/ CommitBlock
GiveUp == FirstTimeout \/ Timeout
-----------------------------------------------------------------------------
(* The environment.  A host cuts a file into 1024-byte blocks and falls    *)
(* back to 128-byte blocks at its end, so a 1024-byte block that is new    *)
(* never starts inside a flash page.                                       *)
PagesAligned(no) ==
    marker = "STX" /\ no = expected => written % PageUnits = 0

HostSends ==
    /\ ~gone
    /\ \/ \E m \in Markers : FirstMarker(m) \/ NextMarker(m)
       \/ \E no \in BlockNumbers, intact \in BOOLEAN : RefusePacket(no, intact)
       \/ \E no \in BlockNumbers : \E data \in Payloads(marker, no) :
             PagesAligned(no) /\ AcceptPacket(no, data)

HostLeaves ==
    /\ ~gone
    /\ gone' = TRUE
    /\ UNCHANGED receiverVars

Next == Work \/ GiveUp \/ HostSends \/ HostLeaves

(* The stub runs, and on a silent line its timeouts expire. *)
Fairness ==
    /\ WF_vars(Work)
    /\ WF_vars(gone /\ GiveUp)

Spec == Init /\ [][Next]_vars
FairSpec == Spec /\ Fairness
-----------------------------------------------------------------------------
TypeOK ==
    /\ flash \in [Addrs -> Cell]
    /\ pc \in {"erase", "first", "marker", "packet", "program", "done"}
    /\ tries \in 0 .. StartTries
    /\ marker \in Markers
    /\ expected \in BlockNumbers
    /\ written \in 0 .. Length
    /\ packet \in [0 .. LargeUnits - 1 -> Readable]
    /\ chunk \in 0 .. LargeUnits
    /\ pageOff \in 0 .. LargeUnits
    /\ result \in {"busy", "ok", "fail"}
    /\ reply \in {<<>>, <<"C">>, <<"ACK">>, <<"NAK">>, <<"CAN", "CAN">>}
    /\ stream \in [Image -> Readable]
    /\ gone \in BOOLEAN

(* Units of the image that have been through the page loop. *)
Programmed == IF pc = "program" THEN written + pageOff ELSE written

(* Units of the image that have been accepted. *)
Received == IF pc = "program" THEN written + chunk ELSE written

(* Whatever has been through the page loop reads back as the host sent it: *)
(* no page lands on another one, no padding or half page spoils a          *)
(* neighbour, whatever the mix of block sizes (lines 533-549).             *)
ImageIntact ==
    \A i \in Image : i < Programmed => flash[Off + i] = stream[i]

(* The units behind the image, up to the end of its last sector, are left  *)
(* erased: the padding of the last page and the surplus of the last block  *)
(* never reach the chip.                                                   *)
TailBlank ==
    pc # "erase" /\ result # "fail" =>
        \A u \in Erased(Off, Length) : u >= Off + Length => flash[u] = Blank

(* What makes the three invariants above inductive.                        *)
(* Blocks start at even units until the last one, which may be short.      *)
PositionOK ==
    /\ written = Length \/ written % SmallUnits = 0
    /\ pc \in {"erase", "first"} => written = 0
    /\ result = "busy" <=> pc # "done"
    /\ result = "ok" => written = Length

(* The block being programmed is the next part of the stream, cut at page  *)
(* boundaries of the packet, and a 1024-byte block starts on a flash page. *)
BlockOK ==
    pc = "program" =>
        /\ written < Length
        /\ chunk = Chunk
        /\ pageOff <= chunk
        /\ pageOff = chunk \/ pageOff % PageUnits = 0
        /\ marker = "STX" => written % PageUnits = 0
        /\ \A i \in 0 .. chunk - 1 : stream[written + i] = packet[i]

(* The chip is erased from the next unit to be programmed on. *)
RestBlank ==
    pc \notin {"erase", "done"} =>
        \A u \in Erased(Off, Length) : u >= Off + Programmed => flash[u] = Blank

IInv ==
    /\ TypeOK
    /\ PositionOK
    /\ BlockOK
    /\ ImageIntact
    /\ RestBlank
    /\ TailBlank

(* What AckIsDurable rests on: nothing behind the block at hand has been   *)
(* accepted, and no ACK is sent while pages of a block are outstanding.    *)
AckInv ==
    /\ \A i \in Image : i >= Received => stream[i] = Blank
    /\ reply = <<"ACK">> => pc # "program"

(* Outside the sectors of the range no step changes the chip. *)
OthersKept ==
    [][\A u \in Addrs \ Erased(Off, Length) : flash'[u] = flash[u]]_vars

(* An ACK is sent only when everything it vouches for is in the chip: a    *)
(* reply of ACK never leaves with a page of the acknowledged data still in *)
(* RAM.                                                                    *)
AckIsDurable ==
    [][reply' = <<"ACK">> =>
         \A i \in Image : stream[i] # Blank => flash'[Off + i] = stream[i]]_vars

(* The receiver implements the abstract write: what is read back from the  *)
(* chip only grows, block by block, and success is reported on a complete  *)
(* image only.                                                             *)
Write == INSTANCE FlashImage WITH
            image <- [i \in 0 .. written - 1 |-> flash[Off + i]],
            outcome <- result
ImplementsWrite == Write!Spec

(* When the host goes away in the middle of a transfer the stub comes back *)
(* to its command loop.                                                    *)
HostGoneReturns == gone ~> pc = "done"
=============================================================================
