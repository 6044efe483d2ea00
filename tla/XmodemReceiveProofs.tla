------------------------ MODULE XmodemReceiveProofs ------------------------
(***************************************************************************)
(* Proofs about XmodemReceive, alone and inside its session.               *)
(*                                                                         *)
(* Alone, for every flash size, range, block modulus, number of tries and  *)
(* content: IInv is the inductive invariant, and the properties of the     *)
(* receiver follow from it.  Then a whole flash download over a line that  *)
(* loses and damages, for every file, plan, block modulus, retry limit and *)
(* number of faults.                                                       *)
(***************************************************************************)
EXTENDS XmodemWriteSession, NumberProofs

(* The chip operations of NorFlash, for every size of chip and content.    *)

(* Programming keeps a cell a cell, and 0xFF leaves a cell alone. *)
LEMMA MergeFacts ==
    ASSUME NEW old \in Cell, NEW new \in Cell
    PROVE  /\ Merge(old, new) \in Cell
           /\ Merge(old, Blank) = old
           /\ old = Blank => Merge(old, new) = new
  BY DEF Merge, Cell, Readable

LEMMA AddrsAreIntegers == Addrs \subseteq Nat
  BY NorFlashAssumption DEF Addrs

LEMMA ProgramType ==
    ASSUME NEW f \in [Addrs -> Cell], NEW a \in Int,
           NEW page \in [PageSlots -> Cell]
    PROVE  ProgramPage(f, a, page) \in [Addrs -> Cell]
  <1>1. ASSUME NEW u \in Addrs
        PROVE  Merge(f[u], page[(u - a) % PageUnits]) \in Cell
    <2>1. u \in Int
      BY AddrsAreIntegers
    <2>2. (u - a) % PageUnits \in PageSlots
      BY <2>1 DEF PageUnits, PageSlots
    <2>3. QED
      BY <2>2, MergeFacts
  <1>2. QED
    BY <1>1 DEF ProgramPage

(* flash_program_page writes exactly the n units of data of its buffer when*)
(* they go to erased units and either the address is that of a page or the *)
(* data is a 128-byte block in one half of the page: what wraps around the *)
(* page is padding.                                                        *)
LEMMA ProgramEffect ==
    ASSUME NEW f \in [Addrs -> Cell], NEW a \in Nat, NEW n \in 1 .. PageUnits,
           NEW page \in [PageSlots -> Cell],
           \A i \in PageSlots : i >= n => page[i] = Blank,
           \A u \in Addrs : u \in a .. a + n - 1 => f[u] = Blank,
           a % PageUnits = 0 \/ (a % SmallUnits = 0 /\ n <= SmallUnits),
           NEW u \in Addrs
    PROVE  ProgramPage(f, a, page)[u] =
             IF u \in a .. a + n - 1 THEN page[u - a] ELSE f[u]
  <1> DEFINE slot == (u - a) % PageUnits
  <1>0. u \in Int /\ slot \in PageSlots
    BY AddrsAreIntegers DEF PageUnits, PageSlots
  <1>1. CASE u \in a .. a + n - 1
    <2>1. u \div PageUnits = a \div PageUnits /\ slot = u - a
      BY <1>0, <1>1 DEF PageUnits, SmallUnits
    <2>2. QED
      BY <1>0, <1>1, <2>1, MergeFacts DEF ProgramPage
  <1>2. CASE u \notin a .. a + n - 1
    <2>1. CASE u \div PageUnits # a \div PageUnits
      BY <1>2, <2>1 DEF ProgramPage
    <2>2. CASE u \div PageUnits = a \div PageUnits
      <3>1. slot >= n
        BY <1>0, <1>2, <2>2 DEF PageUnits, SmallUnits
      <3>2. page[slot] = Blank
        BY <1>0, <3>1
      <3>3. QED
        BY <1>2, <2>2, <3>2, MergeFacts DEF ProgramPage
    <2>3. QED
      BY <2>1, <2>2
  <1>3. QED
    BY <1>1, <1>2

LEMMA EraseType ==
    ASSUME NEW f \in [Addrs -> Cell], NEW off, NEW len
    PROVE  EraseRange(f, off, len) \in [Addrs -> Cell]
  BY DEF EraseRange, Cell, Readable

(* Erasing from the start of a sector covers the whole range: the loop of  *)
(* flash_erase_range leaves no unit of it out.                             *)
LEMMA EraseCovers ==
    ASSUME NEW off \in Nat, NEW len \in Nat, off % SectorUnits = 0,
           off + len <= FlashUnits, NEW i \in 0 .. len - 1
    PROVE  off + i \in Erased(off, len)
  <1> DEFINE k == i \div SectorUnits
  <1>1. k \in 0 .. len /\ SectorUnits * k < len
    BY DEF SectorUnits
  <1>2. (off + i) \div SectorUnits = (off + SectorUnits * k) \div SectorUnits
    BY DEF SectorUnits
  <1>3. off + i \in Addrs
    BY NorFlashAssumption DEF Addrs
  <1>4. QED
    BY <1>1, <1>2, <1>3 DEF Erased

-----------------------------------------------------------------------------

(* Every unit of the image lies in a sector that the erase covers. *)
LEMMA ImageErased ==
    ASSUME NEW i \in Image
    PROVE  /\ Off + i \in Erased(Off, Length)
           /\ Off + i \in Addrs
  <1>1. Off + i \in Erased(Off, Length)
    BY XmodemReceiveAssumption, EraseCovers DEF Image
  <1>2. QED
    BY <1>1 DEF Erased

LEMMA ChunkFacts ==
    ASSUME written \in 0 .. Length, written < Length
    PROVE  /\ Chunk \in 1 .. LargeUnits
           /\ Chunk <= BlockUnits(marker)
           /\ written + Chunk \in 0 .. Length
           /\ Chunk = BlockUnits(marker) \/ written + Chunk = Length
           /\ marker # "STX" => Chunk <= SmallUnits
  <1>1. BlockUnits(marker) \in {LargeUnits, SmallUnits}
    BY DEF BlockUnits
  <1>2. marker # "STX" => BlockUnits(marker) = SmallUnits
    BY DEF BlockUnits
  <1>3. QED
    BY <1>1, <1>2, XmodemReceiveAssumption DEF Chunk, LargeUnits, SmallUnits

LEMMA InitIInv == Init => IInv
  <1> SUFFICES ASSUME Init PROVE IInv
    OBVIOUS
  <1>1. TypeOK
    <2>1. flash \in [Addrs -> Cell]
      BY XmodemReceiveAssumption DEF Init, Cell
    <2>2. packet \in [0 .. LargeUnits - 1 -> Readable]
      BY DEF Init, Readable
    <2>3. stream \in [Image -> Readable]
      BY DEF Init, Readable
    <2>4. expected \in BlockNumbers
      BY XmodemReceiveAssumption DEF Init, BlockNumbers
    <2>5. /\ tries \in 0 .. StartTries
          /\ written \in 0 .. Length
          /\ chunk \in 0 .. LargeUnits
          /\ pageOff \in 0 .. LargeUnits
      BY XmodemReceiveAssumption DEF Init, LargeUnits
    <2>6. QED
      BY <2>1, <2>2, <2>3, <2>4, <2>5 DEF Init, TypeOK, Markers
  <1>2. PositionOK /\ BlockOK /\ RestBlank /\ TailBlank
    BY DEF Init, PositionOK, BlockOK, RestBlank, TailBlank, SmallUnits
  <1>3. ImageIntact
    BY DEF Init, ImageIntact, Programmed, Image
  <1>4. QED
    BY <1>1, <1>2, <1>3 DEF IInv

(* Steps that read the line, answer and leave the chip, the image and the  *)
(* position in it alone.                                                   *)
Quiet ==
    /\ pc' # "program"
    /\ pc # "program"
    /\ pc' \in {"erase", "first"} => pc \in {"erase", "first"}
    /\ pc = "erase" => pc' = "erase" \/ result' = "fail"
    /\ pc = "done" => pc' = "done" /\ result' = result
    /\ result' = "ok" => result = "ok" \/ (pc = "marker" /\ written = Length)
    /\ result' = "busy" <=> pc' # "done"
    /\ UNCHANGED <<flash, written, stream>>

(* What is blank from the next unit on is blank behind the image. *)
LEMMA RestThenTail ==
    ASSUME IInv, pc \notin {"erase", "done"}
    PROVE  \A u \in Erased(Off, Length) : u >= Off + Length => flash[u] = Blank
  <1>1. Programmed \in 0 .. Length
    <2>1. CASE pc = "program"
      <3>1. /\ written \in 0 .. Length
            /\ written < Length
            /\ pageOff \in 0 .. LargeUnits
            /\ pageOff <= Chunk
        BY <2>1 DEF IInv, TypeOK, BlockOK
      <3>2. Chunk \in 1 .. LargeUnits /\ written + Chunk \in 0 .. Length
        BY <3>1, ChunkFacts
      <3>3. written + pageOff \in 0 .. Length
        BY <3>1, <3>2, XmodemReceiveAssumption DEF LargeUnits
      <3>4. QED
        BY <2>1, <3>3 DEF Programmed
    <2>2. CASE pc # "program"
      BY <2>2 DEF IInv, TypeOK, Programmed
    <2>3. QED
      BY <2>1, <2>2
  <1>2. Erased(Off, Length) \subseteq Nat
    BY AddrsAreIntegers DEF Erased
  <1>3. QED
    BY <1>1, <1>2, XmodemReceiveAssumption DEF IInv, RestBlank

LEMMA QuietStep ==
    ASSUME IInv, TypeOK', Quiet
    PROVE  IInv'
  <1>1. PositionOK'
    BY DEF IInv, PositionOK, Quiet
  <1>2. BlockOK'
    BY DEF BlockOK, Quiet
  <1>3. ImageIntact'
    BY DEF IInv, ImageIntact, Quiet, Programmed
  <1>4. RestBlank'
    BY DEF IInv, RestBlank, Quiet, Programmed
  <1>5. TailBlank'
    <2>1. CASE pc \in {"erase", "done"}
      BY <2>1 DEF IInv, TailBlank, PositionOK, Quiet
    <2>2. CASE pc \notin {"erase", "done"}
      BY <2>2, RestThenTail DEF IInv, TailBlank, Quiet
    <2>3. QED
      BY <2>1, <2>2
  <1>6. QED
    BY <1>1, <1>2, <1>3, <1>4, <1>5 DEF IInv

(* The actions that are quiet, one by one. *)
LEMMA EraseFailsStep == ASSUME IInv, EraseFails PROVE IInv'
  <1>1. TypeOK'
    BY DEF IInv, TypeOK, EraseFails, Cancel, Leave
  <1>2. Quiet
    BY DEF EraseFails, Cancel, Leave, Quiet
  <1>3. QED
    BY <1>1, <1>2, QuietStep

LEMMA FirstTimeoutStep == ASSUME IInv, FirstTimeout PROVE IInv'
  <1>1. TypeOK'
    BY XmodemReceiveAssumption DEF IInv, TypeOK, FirstTimeout, Cancel, Leave
  <1>2. Quiet
    BY DEF IInv, PositionOK, FirstTimeout, Cancel, Leave, Quiet
  <1>3. QED
    BY <1>1, <1>2, QuietStep

LEMMA FirstMarkerStep ==
    ASSUME IInv, NEW m \in Markers, FirstMarker(m) PROVE IInv'
  <1>1. TypeOK'
    BY DEF IInv, TypeOK, FirstMarker, Cancel, Leave
  <1>2. Quiet
    BY DEF IInv, PositionOK, FirstMarker, Cancel, Leave, Quiet
  <1>3. QED
    BY <1>1, <1>2, QuietStep

LEMMA NextMarkerStep ==
    ASSUME IInv, NEW m \in Markers, NextMarker(m) PROVE IInv'
  <1>1. TypeOK'
    BY DEF IInv, TypeOK, NextMarker, Cancel, Leave
  <1>2. Quiet
    BY DEF IInv, PositionOK, NextMarker, TransferComplete, Cancel, Leave, Quiet
  <1>3. QED
    BY <1>1, <1>2, QuietStep

LEMMA TimeoutStep == ASSUME IInv, Timeout PROVE IInv'
  <1>1. TypeOK'
    BY DEF IInv, TypeOK, Timeout, Leave
  <1>2. Quiet
    BY DEF Timeout, Leave, Quiet
  <1>3. QED
    BY <1>1, <1>2, QuietStep

LEMMA RefusePacketStep ==
    ASSUME IInv, NEW no, NEW intact, RefusePacket(no, intact) PROVE IInv'
  <1>1. TypeOK'
    BY DEF IInv, TypeOK, RefusePacket, Cancel, Leave
  <1>2. Quiet
    BY DEF IInv, PositionOK, RefusePacket, Cancel, Leave, Quiet
  <1>3. QED
    BY <1>1, <1>2, QuietStep

LEMMA StutterStep == ASSUME IInv, UNCHANGED receiverVars, gone' \in BOOLEAN PROVE IInv'
  <1>1. TypeOK'
    BY DEF IInv, TypeOK, receiverVars
  <1>2. PositionOK' /\ BlockOK' /\ ImageIntact' /\ RestBlank' /\ TailBlank'
    BY DEF IInv, PositionOK, BlockOK, ImageIntact, RestBlank, TailBlank,
           Programmed, Chunk, receiverVars
  <1>3. QED
    BY <1>1, <1>2 DEF IInv

(* After the erase the whole range is blank and nothing is written yet. *)
LEMMA EraseStep == ASSUME IInv, Erase PROVE IInv'
  <1>1. flash' \in [Addrs -> Cell]
    BY EraseType DEF IInv, TypeOK, Erase
  <1>2. TypeOK'
    BY <1>1, XmodemReceiveAssumption DEF IInv, TypeOK, Erase
  <1>3. written' = 0 /\ pc' = "first" /\ result' = "busy"
    BY DEF IInv, PositionOK, Erase
  <1>4. \A u \in Erased(Off, Length) : flash'[u] = Blank
    BY DEF Erase, EraseRange, Erased
  <1>5. PositionOK'
    BY <1>3 DEF PositionOK, SmallUnits
  <1>6. BlockOK' /\ RestBlank' /\ TailBlank'
    BY <1>3, <1>4 DEF BlockOK, RestBlank, TailBlank
  <1>7. ImageIntact'
    BY <1>3 DEF ImageIntact, Programmed, Image
  <1>8. QED
    BY <1>2, <1>5, <1>6, <1>7 DEF IInv

(* The accepted block becomes the next part of the stream; the parts before*)
(* it do not change.                                                       *)
LEMMA AcceptPacketStep ==
    ASSUME IInv, NEW no, NEW data \in [0 .. BlockUnits(marker) - 1 -> Readable],
           PagesAligned(no), AcceptPacket(no, data)
    PROVE  IInv'
  <1> DEFINE n == BlockUnits(marker)
  <1>1. data \in [0 .. n - 1 -> Readable] /\ n \in {SmallUnits, LargeUnits}
    BY DEF BlockUnits
  <1>2. /\ Chunk \in 1 .. LargeUnits
        /\ Chunk <= n
        /\ written + Chunk \in 0 .. Length
    BY ChunkFacts DEF IInv, TypeOK, AcceptPacket
  <1>3. ASSUME NEW i \in Int, 0 <= i, i < n
        PROVE  data[i] \in Readable
    <2>1. i \in 0 .. n - 1
      BY <1>1, <1>3 DEF SmallUnits, LargeUnits
    <2>2. QED
      BY <1>1, <2>1
  <1>4. /\ packet \in [0 .. LargeUnits - 1 -> Readable]
        /\ stream \in [Image -> Readable]
        /\ written \in 0 .. Length
    BY DEF IInv, TypeOK
  <1>5. packet' \in [0 .. LargeUnits - 1 -> Readable]
    <2>1. packet' = [i \in 0 .. LargeUnits - 1 |-> IF i < n THEN data[i] ELSE packet[i]]
      BY <1>4 DEF AcceptPacket
    <2>2. \A i \in 0 .. LargeUnits - 1 : i < n => data[i] \in Readable
      BY <1>3 DEF LargeUnits
    <2>3. QED
      BY <1>4, <2>1, <2>2
  <1>6. stream' \in [Image -> Readable]
    <2>1. ASSUME NEW i \in Image, i \in written .. written + Chunk - 1
          PROVE  data[i - written] \in Readable
      <3>1. i - written \in Int /\ 0 <= i - written /\ i - written < n
        BY SMTT(30), <1>1, <1>2, <1>4, <2>1 DEF SmallUnits, LargeUnits
      <3>2. QED
        BY <3>1, <1>3
    <2>2. QED
      BY <1>4, <2>1 DEF AcceptPacket
  <1>7. TypeOK'
    BY <1>2, <1>5, <1>6 DEF IInv, TypeOK, AcceptPacket, LargeUnits
  <1>8. PositionOK'
    BY DEF IInv, PositionOK, AcceptPacket
  <1>9. BlockOK'
    <2>1. ASSUME NEW i \in 0 .. Chunk - 1
          PROVE  stream'[written + i] = packet'[i]
      <3>1. i \in 0 .. LargeUnits - 1 /\ i < n /\ written + i \in Image
        <4>1. Length \in Nat /\ written \in Nat /\ Chunk \in Nat /\ i \in Nat /\ i < Chunk
          BY <1>2, <1>4, <2>1, XmodemReceiveAssumption
        <4>2. n \in Nat /\ Chunk <= n /\ n <= LargeUnits /\ written + Chunk <= Length
          BY <1>1, <1>2 DEF SmallUnits, LargeUnits
        <4>3. LargeUnits \in Nat
          BY DEF LargeUnits
        <4>4. QED
          BY <4>1, <4>2, <4>3 DEF Image
      <3>2. stream'[written + i] = data[i]
        BY <1>2, <3>1 DEF IInv, TypeOK, AcceptPacket, Image
      <3>3. packet'[i] = data[i]
        BY <3>1 DEF IInv, TypeOK, AcceptPacket
      <3>4. QED
        BY <3>2, <3>3
    <2>2. chunk' = Chunk /\ Chunk' = Chunk
      BY DEF AcceptPacket, Chunk
    <2>3. /\ written' = written /\ written < Length
          /\ pageOff' = 0 /\ 0 <= Chunk /\ 0 % PageUnits = 0
          /\ marker' = "STX" => written % PageUnits = 0
      BY <1>2 DEF AcceptPacket, Wanted, PagesAligned, PageUnits
    <2>4. QED
      BY <2>1, <2>2, <2>3 DEF BlockOK
  <1>10. ImageIntact'
    <2>1. ASSUME NEW i \in Image, i < written
          PROVE  flash'[Off + i] = stream'[i]
      BY <2>1 DEF IInv, TypeOK, ImageIntact, Programmed, AcceptPacket, Image
    <2>2. Programmed' = written
      BY DEF IInv, TypeOK, Programmed, AcceptPacket
    <2>3. QED
      BY <2>1, <2>2 DEF ImageIntact
  <1>11. RestBlank' /\ TailBlank'
    <2>1. Programmed' = Programmed
      BY DEF IInv, TypeOK, Programmed, AcceptPacket
    <2>2. QED
      BY <2>1 DEF IInv, RestBlank, TailBlank, AcceptPacket
  <1>12. QED
    BY <1>7, <1>8, <1>9, <1>10, <1>11 DEF IInv

(* Where a page of the block goes and how much of it is data. *)
LEMMA PageFacts ==
    ASSUME IInv, pc = "program", pageOff < chunk
    PROVE  /\ PageAddr \in Nat
           /\ PageLen \in 1 .. PageUnits
           /\ pageOff + PageLen <= chunk
           /\ pageOff + PageLen = chunk \/ (pageOff + PageLen) % PageUnits = 0
           /\ written + chunk \in 0 .. Length
           /\ \/ PageAddr % PageUnits = 0
              \/ PageAddr % SmallUnits = 0 /\ PageLen <= SmallUnits
  <1>1. /\ written \in 0 .. Length /\ written < Length
        /\ chunk \in 0 .. LargeUnits /\ pageOff \in 0 .. LargeUnits
        /\ chunk = Chunk
        /\ pageOff % PageUnits = 0
        /\ written % SmallUnits = 0
        /\ marker = "STX" => written % PageUnits = 0
    BY DEF IInv, TypeOK, PositionOK, BlockOK
  <1>2. /\ written + chunk \in 0 .. Length
        /\ marker # "STX" => chunk <= SmallUnits
    BY <1>1, ChunkFacts
  <1>3. Off \in Nat /\ Off % SectorUnits = 0
    BY XmodemReceiveAssumption
  <1>4. /\ PageAddr \in Nat
        /\ PageLen \in 1 .. PageUnits
        /\ pageOff + PageLen <= chunk
        /\ pageOff + PageLen = chunk \/ (pageOff + PageLen) % PageUnits = 0
    BY <1>1, <1>3 DEF PageAddr, PageLen, PageUnits, LargeUnits
  <1>5. CASE marker = "STX"
    <2>1. PageAddr % PageUnits = 0
      BY <1>1, <1>3, <1>5 DEF PageAddr, PageUnits, SectorUnits, LargeUnits
    <2>2. QED
      BY <1>2, <1>4, <2>1
  <1>6. CASE marker # "STX"
    <2>1. pageOff = 0
      BY <1>1, <1>2, <1>6 DEF PageUnits, SmallUnits, LargeUnits
    <2>2. PageAddr % SmallUnits = 0 /\ PageLen <= SmallUnits
      BY <1>1, <1>2, <1>3, <1>6, <2>1
      DEF PageAddr, PageLen, PageUnits, SmallUnits, SectorUnits, LargeUnits
    <2>3. QED
      BY <1>2, <1>4, <2>2
  <1>7. QED
    BY <1>5, <1>6

(* One turn of the page loop puts its units of the packet on the chip and  *)
(* changes nothing else.                                                   *)
LEMMA ProgramNextPageEffect ==
    ASSUME IInv, ProgramNextPage
    PROVE  /\ flash' \in [Addrs -> Cell]
           /\ \A u \in Addrs :
                flash'[u] = IF u \in PageAddr .. PageAddr + PageLen - 1
                            THEN Page[u - PageAddr] ELSE flash[u]
  <1> DEFINE a == PageAddr
             n == PageLen
  <1>1. pc = "program" /\ pageOff < chunk
    BY DEF ProgramNextPage
  <1>2. /\ a \in Nat
        /\ n \in 1 .. PageUnits
        /\ pageOff + n <= chunk
        /\ written + chunk \in 0 .. Length
        /\ a % PageUnits = 0 \/ (a % SmallUnits = 0 /\ n <= SmallUnits)
    BY <1>1, PageFacts
  <1>3. /\ flash \in [Addrs -> Cell]
        /\ packet \in [0 .. LargeUnits - 1 -> Readable]
        /\ written \in 0 .. Length
        /\ chunk \in 0 .. LargeUnits /\ pageOff \in 0 .. LargeUnits
    BY DEF IInv, TypeOK
  <1>4. Page \in [PageSlots -> Cell]
    <2>1. ASSUME NEW i \in PageSlots, i < n
          PROVE  packet[pageOff + i] \in Cell
      <3>1. pageOff + i \in 0 .. LargeUnits - 1
        BY <1>2, <1>3, <2>1 DEF PageSlots, PageUnits, LargeUnits
      <3>2. QED
        BY <1>3, <3>1 DEF Cell
    <2>2. QED
      BY <2>1 DEF Page, Cell, Readable
  <1>5. \A i \in PageSlots : i >= n => Page[i] = Blank
    BY <1>2 DEF Page, PageSlots, PageUnits
  <1>6. ASSUME NEW u \in Addrs, u \in a .. a + n - 1
        PROVE  flash[u] = Blank
    <2>1. Off \in Nat /\ u - Off \in Image
      BY <1>2, <1>3, <1>6, XmodemReceiveAssumption, AddrsAreIntegers
      DEF PageAddr, Image, PageUnits, LargeUnits
    <2>2. u \in Erased(Off, Length)
      <3>1. Off + (u - Off) = u
        BY <2>1, AddrsAreIntegers
      <3>2. QED
        BY <2>1, <3>1, ImageErased
    <2>3. u >= Off + Programmed
      BY <1>1, <1>2, <1>3, <1>6, <2>1, AddrsAreIntegers
      DEF Programmed, PageAddr, PageUnits, LargeUnits
    <2>4. QED
      BY <1>1, <2>2, <2>3 DEF IInv, RestBlank
  <1>7. CASE PageIsErased
    <2>1. flash' = flash
      BY <1>7 DEF ProgramNextPage
    <2>2. ASSUME NEW u \in Addrs, u \in a .. a + n - 1
          PROVE  Page[u - a] = Blank
      <3>1. u - a \in PageSlots
        BY <1>2, <2>2, AddrsAreIntegers DEF PageSlots, PageUnits
      <3>2. QED
        BY <1>7, <3>1 DEF PageIsErased
    <2>3. QED
      BY <1>3, <1>6, <2>1, <2>2
  <1>8. CASE ~PageIsErased
    <2>1. flash' = ProgramPage(flash, a, Page)
      BY <1>8 DEF ProgramNextPage
    <2>2. flash' \in [Addrs -> Cell]
      BY <1>2, <1>3, <1>4, <2>1, ProgramType
    <2>3. ASSUME NEW u \in Addrs
          PROVE  flash'[u] = IF u \in a .. a + n - 1 THEN Page[u - a] ELSE flash[u]
      BY <1>2, <1>3, <1>4, <1>5, <1>6, <2>1, ProgramEffect
    <2>4. QED
      BY <2>2, <2>3
  <1>9. QED
    BY <1>7, <1>8

LEMMA ProgramNextPageStep == ASSUME IInv, ProgramNextPage PROVE IInv'
  <1> DEFINE a == PageAddr
             n == PageLen
  <1>1. pc = "program" /\ pageOff < chunk
    BY DEF ProgramNextPage
  <1>2. /\ a \in Nat /\ a = Off + written + pageOff
        /\ n \in 1 .. PageUnits
        /\ pageOff + n <= chunk
        /\ pageOff + n = chunk \/ (pageOff + n) % PageUnits = 0
        /\ written + chunk \in 0 .. Length
    BY <1>1, PageFacts DEF PageAddr
  <1>3. /\ flash' \in [Addrs -> Cell]
        /\ \A u \in Addrs :
             flash'[u] = IF u \in a .. a + n - 1 THEN Page[u - a] ELSE flash[u]
    BY ProgramNextPageEffect
  <1>4. /\ written \in 0 .. Length
        /\ chunk \in 0 .. LargeUnits /\ pageOff \in 0 .. LargeUnits
        /\ Off \in Nat
    BY XmodemReceiveAssumption DEF IInv, TypeOK
  <1>5. pageOff' = pageOff + n
    BY DEF ProgramNextPage
  <1>6. pageOff' \in 0 .. LargeUnits
    BY <1>2, <1>4, <1>5 DEF PageUnits, LargeUnits
  <1>7. TypeOK'
    BY <1>3, <1>6 DEF IInv, TypeOK, ProgramNextPage
  <1>8. PositionOK'
    BY DEF IInv, PositionOK, ProgramNextPage
  <1>9. BlockOK'
    <2>1. Chunk' = Chunk
      BY DEF Chunk, ProgramNextPage
    <2>2. QED
      BY <1>1, <1>2, <1>5, <2>1 DEF IInv, BlockOK, ProgramNextPage
  <1>10. /\ Programmed = written + pageOff
         /\ Programmed' = written + pageOff + n
    BY <1>1, <1>2, <1>4, <1>5 DEF Programmed, ProgramNextPage
  <1>11. ImageIntact'
    <2>1. SUFFICES ASSUME NEW i \in Image, i < written + pageOff + n
                   PROVE  flash'[Off + i] = stream[i]
      BY <1>10 DEF ImageIntact, ProgramNextPage
    <2>2. Off + i \in Addrs /\ i \in Nat
      BY ImageErased DEF Image
    <2>3. CASE i < written + pageOff
      <3>1. Off + i \notin a .. a + n - 1
        BY <1>2, <1>4, <2>2, <2>3
      <3>2. flash[Off + i] = stream[i]
        BY <1>10, <2>3 DEF IInv, ImageIntact
      <3>3. QED
        BY <1>3, <2>2, <3>1, <3>2
    <2>4. CASE ~(i < written + pageOff)
      <3> DEFINE j == i - written
      <3>1. Off + i \in a .. a + n - 1 /\ (Off + i) - a = j - pageOff
        BY <1>2, <1>4, <2>1, <2>2, <2>4 DEF PageUnits, LargeUnits
      <3>2. /\ j \in 0 .. chunk - 1 /\ written + j = i
            /\ j - pageOff \in PageSlots /\ j - pageOff < n
            /\ pageOff + (j - pageOff) = j
        BY <1>2, <1>4, <2>1, <2>2, <2>4 DEF PageSlots, PageUnits, LargeUnits
      <3>3. flash'[Off + i] = Page[j - pageOff]
        BY <1>3, <2>2, <3>1
      <3>4. Page[j - pageOff] = packet[j]
        BY <3>2 DEF Page
      <3>5. stream[i] = packet[j]
        BY <1>1, <3>2 DEF IInv, BlockOK
      <3>6. QED
        BY <3>3, <3>4, <3>5
    <2>5. QED
      BY <2>3, <2>4
  <1>12. RestBlank'
    <2>1. SUFFICES ASSUME NEW u \in Erased(Off, Length), u >= Off + (written + pageOff + n)
                   PROVE  flash'[u] = Blank
      BY <1>10 DEF RestBlank
    <2>2. u \in Addrs /\ u \in Nat
      BY AddrsAreIntegers DEF Erased
    <2>3. u >= Off + Programmed /\ u \notin a .. a + n - 1
      BY <1>2, <1>4, <1>10, <2>1, <2>2 DEF PageUnits
    <2>4. QED
      BY <1>1, <1>3, <2>2, <2>3 DEF IInv, RestBlank
  <1>13. TailBlank'
    <2>1. SUFFICES ASSUME NEW u \in Erased(Off, Length), u >= Off + Length
                   PROVE  flash'[u] = Blank
      BY DEF TailBlank
    <2>2. u \in Addrs /\ u \in Nat
      BY AddrsAreIntegers DEF Erased
    <2>3. u \notin a .. a + n - 1
      BY <1>2, <1>4, <2>1, <2>2, XmodemReceiveAssumption DEF PageUnits, LargeUnits
    <2>4. flash[u] = Blank
      BY <1>1, <2>1, RestThenTail
    <2>5. QED
      BY <1>3, <2>2, <2>3, <2>4
  <1>14. QED
    BY <1>7, <1>8, <1>9, <1>11, <1>12, <1>13 DEF IInv

LEMMA CommitBlockStep == ASSUME IInv, CommitBlock PROVE IInv'
  <1>1. /\ pc = "program" /\ pageOff = chunk /\ chunk = Chunk
        /\ written \in 0 .. Length /\ written < Length
        /\ chunk \in 0 .. LargeUnits
        /\ written % SmallUnits = 0
        /\ result = "busy"
    <2>1. /\ pc = "program" /\ pageOff <= chunk /\ chunk = Chunk
          /\ written \in 0 .. Length /\ written < Length
          /\ chunk \in 0 .. LargeUnits /\ pageOff \in 0 .. LargeUnits
          /\ pageOff >= chunk
      BY DEF IInv, TypeOK, BlockOK, CommitBlock
    <2>2. pageOff = chunk
      BY <2>1 DEF LargeUnits
    <2>3. written % SmallUnits = 0 /\ result = "busy"
      BY <2>1, XmodemReceiveAssumption DEF IInv, PositionOK
    <2>4. QED
      BY <2>1, <2>2, <2>3
  <1>2. /\ written + chunk \in 0 .. Length
        /\ chunk = BlockUnits(marker) \/ written + chunk = Length
    BY <1>1, ChunkFacts
  <1>3. expected' \in BlockNumbers
    <2>1. expected + 1 \in Int /\ BlockMod \in Nat \ {0}
      BY XmodemReceiveAssumption DEF IInv, TypeOK, BlockNumbers
    <2>2. (expected + 1) % BlockMod \in 0 .. BlockMod - 1
      BY <2>1, ModRange
    <2>3. QED
      BY <2>2 DEF CommitBlock, NextBlock, BlockNumbers
  <1>4. TypeOK'
    BY <1>2, <1>3 DEF IInv, TypeOK, CommitBlock
  <1>5. PositionOK'
    <2>1. chunk \in {SmallUnits, LargeUnits} \/ written + chunk = Length
      BY <1>2 DEF BlockUnits
    <2>2. written + chunk = Length \/ (written + chunk) % SmallUnits = 0
      BY <1>1, <2>1 DEF SmallUnits, LargeUnits
    <2>3. QED
      BY <1>1, <2>2 DEF PositionOK, CommitBlock
  <1>6. Programmed' = Programmed /\ flash' = flash /\ stream' = stream
    BY <1>1 DEF Programmed, CommitBlock
  <1>7. BlockOK' /\ ImageIntact' /\ RestBlank' /\ TailBlank'
    BY <1>1, <1>6, RestThenTail
    DEF IInv, BlockOK, ImageIntact, RestBlank, TailBlank, CommitBlock
  <1>8. QED
    BY <1>4, <1>5, <1>7 DEF IInv

LEMMA StepIInv == IInv /\ [Next]_vars => IInv'
  <1> SUFFICES ASSUME IInv, [Next]_vars PROVE IInv'
    OBVIOUS
  <1>1. CASE Work
    BY <1>1, EraseFailsStep, EraseStep, ProgramNextPageStep, CommitBlockStep DEF Work
  <1>2. CASE GiveUp
    BY <1>2, FirstTimeoutStep, TimeoutStep DEF GiveUp
  <1>3. CASE HostSends
    <2>1. ASSUME NEW m \in Markers, FirstMarker(m) \/ NextMarker(m)
          PROVE  IInv'
      BY <2>1, FirstMarkerStep, NextMarkerStep
    <2>2. ASSUME NEW no \in BlockNumbers, NEW intact \in BOOLEAN, RefusePacket(no, intact)
          PROVE  IInv'
      BY <2>2, RefusePacketStep
    <2>3. ASSUME NEW no \in BlockNumbers, NEW data \in Payloads(marker, no),
                 PagesAligned(no), AcceptPacket(no, data)
          PROVE  IInv'
      <3>1. data \in [0 .. BlockUnits(marker) - 1 -> Readable]
        BY XmodemReceiveAssumption DEF Payloads, BlockNumbers, BlockUnits
      <3>2. QED
        BY <2>3, <3>1, AcceptPacketStep
    <2>4. QED
      BY <1>3, <2>1, <2>2, <2>3 DEF HostSends
  <1>4. CASE HostLeaves
    BY <1>4, StutterStep DEF HostLeaves
  <1>5. CASE UNCHANGED vars
    <2>1. UNCHANGED receiverVars /\ gone' \in BOOLEAN
      BY <1>5 DEF vars, IInv, TypeOK
    <2>2. QED
      BY <2>1, StutterStep
  <1>6. QED
    BY <1>1, <1>2, <1>3, <1>4, <1>5 DEF Next

(* The inductive invariant holds of every behaviour of the receiver. *)
THEOREM Invariant == Spec => []IInv
  BY InitIInv, StepIInv, PTL DEF Spec

(* Every variable keeps its type; in particular written never passes the   *)
(* announced length and expected_block never leaves the block numbers.     *)
THEOREM TypeCorrect == Spec => []TypeOK
  <1>1. IInv => TypeOK
    BY DEF IInv
  <1>2. QED
    BY <1>1, Invariant, PTL

(* Whatever went through the page loop reads back as it was received, for  *)
(* every mix of block sizes, padding and skipped pages.                    *)
THEOREM ImageStaysIntact == Spec => []ImageIntact
  <1>1. IInv => ImageIntact
    BY DEF IInv
  <1>2. QED
    BY <1>1, Invariant, PTL

(* Nothing is programmed behind the announced length. *)
THEOREM TailStaysBlank == Spec => []TailBlank
  <1>1. IInv => TailBlank
    BY DEF IInv
  <1>2. QED
    BY <1>1, Invariant, PTL

-----------------------------------------------------------------------------
(* The action properties and the refinement. *)

(* The pages of a block lie inside the erased sectors. *)
LEMMA PageInErased ==
    ASSUME IInv, pc = "program", pageOff < chunk,
           NEW u \in Addrs, u \in PageAddr .. PageAddr + PageLen - 1
    PROVE  u \in Erased(Off, Length)
  <1>1. /\ PageAddr \in Nat /\ PageAddr = Off + written + pageOff
        /\ PageLen \in 1 .. PageUnits
        /\ pageOff + PageLen <= chunk
        /\ written + chunk \in 0 .. Length
    BY PageFacts DEF PageAddr
  <1>2. /\ written \in 0 .. Length /\ chunk \in 0 .. LargeUnits
        /\ pageOff \in 0 .. LargeUnits
        /\ Off \in Nat /\ Length \in Nat /\ u \in Nat
    BY AddrsAreIntegers, XmodemReceiveAssumption DEF IInv, TypeOK
  <1>3. u - Off \in Image /\ Off + (u - Off) = u
    BY <1>1, <1>2 DEF Image, PageUnits, LargeUnits
  <1>4. QED
    BY <1>3, ImageErased

(* Only two actions change the chip. *)
LEMMA ChipSteps ==
    [Next]_vars => Erase \/ ProgramNextPage \/ flash' = flash
  BY DEF Next, Work, GiveUp, HostSends, EraseFails, CommitBlock, FirstTimeout,
         Timeout, FirstMarker, NextMarker, RefusePacket, AcceptPacket,
         HostLeaves, receiverVars, vars

(* The flash outside the sectors of the range is never changed. *)
THEOREM OthersStayKept == Spec => OthersKept
  <1>1. IInv /\ [Next]_vars => \A u \in Addrs \ Erased(Off, Length) : flash'[u] = flash[u]
    <2>1. SUFFICES ASSUME IInv, [Next]_vars, NEW u \in Addrs \ Erased(Off, Length)
                   PROVE  flash'[u] = flash[u]
      OBVIOUS
    <2>2. CASE Erase
      BY <2>2 DEF Erase, EraseRange
    <2>3. CASE ProgramNextPage
      <3>1. u \notin PageAddr .. PageAddr + PageLen - 1
        BY <2>1, <2>3, PageInErased DEF ProgramNextPage
      <3>2. QED
        BY <2>1, <2>3, <3>1, ProgramNextPageEffect
    <2>4. QED
      BY <2>1, <2>2, <2>3, ChipSteps
  <1>2. QED
    BY <1>1, Invariant, PTL DEF Spec, OthersKept

LEMMA AckInvStep == IInv /\ IInv' /\ AckInv /\ [Next]_vars => AckInv'
  <1> SUFFICES ASSUME IInv, IInv', AckInv, [Next]_vars PROVE AckInv'
    OBVIOUS
  <1>1. ASSUME NEW no \in BlockNumbers, NEW data \in Payloads(marker, no),
               AcceptPacket(no, data)
        PROVE  AckInv'
    <2>1. /\ written \in 0 .. Length /\ stream \in [Image -> Readable]
          /\ written' = written /\ chunk' = Chunk /\ pc' = "program"
          /\ reply' = <<>> /\ pc # "program"
      BY <1>1 DEF IInv, TypeOK, AcceptPacket
    <2>2. Chunk \in 1 .. LargeUnits
      BY <1>1, <2>1, ChunkFacts DEF AcceptPacket
    <2>3. ASSUME NEW i \in Image, i >= written + Chunk
          PROVE  stream'[i] = Blank
      <3>1. i \notin written .. written + Chunk - 1 /\ i >= written
        BY <2>1, <2>2, <2>3, XmodemReceiveAssumption DEF Image, LargeUnits
      <3>2. QED
        BY <1>1, <2>1, <3>1 DEF AcceptPacket, AckInv, Received, Image
    <2>4. QED
      BY <2>1, <2>3 DEF AckInv, Received
  <1>2. CASE CommitBlock
    <2>1. written \in 0 .. Length /\ chunk \in 0 .. LargeUnits
      BY DEF IInv, TypeOK
    <2>2. QED
      BY <1>2, <2>1 DEF AckInv, Received, CommitBlock, LargeUnits
  <1>3. CASE ProgramNextPage
    BY <1>3 DEF AckInv, Received, ProgramNextPage
  <1>4. CASE Erase \/ EraseFails \/ GiveUp \/ HostLeaves \/ UNCHANGED vars
    BY <1>4 DEF IInv, PositionOK, AckInv, Received, Erase, EraseFails, GiveUp, FirstTimeout,
               Timeout, HostLeaves, receiverVars, vars, Cancel, Leave
  <1>5. ASSUME NEW m \in Markers, FirstMarker(m) \/ NextMarker(m)
        PROVE  AckInv'
    BY <1>5 DEF AckInv, Received, FirstMarker, NextMarker, Cancel, Leave
  <1>6. ASSUME NEW no, NEW intact, RefusePacket(no, intact)
        PROVE  AckInv'
    BY <1>6 DEF AckInv, Received, RefusePacket, Cancel, Leave
  <1>7. QED
    BY <1>1, <1>2, <1>3, <1>4, <1>5, <1>6 DEF Next, Work, HostSends

LEMMA AckInvariant == Spec => []AckInv
  <1>1. Init => AckInv
    BY DEF Init, AckInv, Received
  <1>2. QED
    BY <1>1, AckInvStep, Invariant, PTL DEF Spec

(* When an ACK goes out, everything accepted so far is in the chip. *)
THEOREM AckMeansDurable == Spec => AckIsDurable
  <1> DEFINE Durable == reply' = <<"ACK">> =>
                 \A i \in Image : stream[i] # Blank => flash'[Off + i] = stream[i]
  <1>1. IInv /\ IInv' /\ AckInv' /\ [Next]_vars => Durable
    <2>1. SUFFICES ASSUME IInv, IInv', AckInv', [Next]_vars, reply' = <<"ACK">>,
                          NEW i \in Image, stream[i] # Blank
                   PROVE  flash'[Off + i] = stream[i]
      OBVIOUS
    <2>2. stream' = stream
      BY <2>1 DEF Next, Work, GiveUp, HostSends, Erase, EraseFails, CommitBlock,
         ProgramNextPage, FirstTimeout, Timeout, FirstMarker, NextMarker,
         RefusePacket, AcceptPacket, HostLeaves, receiverVars, vars
    <2>3. pc' # "program" /\ Programmed' = written'
      BY <2>1 DEF AckInv, Received, Programmed
    <2>4. i < written'
      <3>1. written' \in Nat /\ i \in Int
        BY <2>1, XmodemReceiveAssumption DEF IInv, TypeOK, Image
      <3>2. i >= written' => stream'[i] = Blank
        BY <2>1, <2>3 DEF AckInv, Received
      <3>3. ~(i >= written')
        BY <2>1, <2>2, <3>2
      <3>4. QED
        BY <3>1, <3>3
    <2>5. QED
      BY <2>1, <2>2, <2>3, <2>4 DEF IInv, ImageIntact
  <1>2. QED
    BY <1>1, Invariant, AckInvariant, PTL DEF Spec, AckIsDurable

(* The image read back from the chip, as the refinement maps it. *)
ReadBack == [i \in 0 .. written - 1 |-> flash[Off + i]]

LEMMA ReadBackIsImage == IInv => ReadBack \in Write!Images(written)
  <1> SUFFICES ASSUME IInv, NEW i \in 0 .. written - 1
               PROVE  flash[Off + i] \in Readable
    BY DEF ReadBack, Write!Images
  <1>1. /\ written \in 0 .. Length /\ pageOff \in 0 .. LargeUnits
        /\ stream \in [Image -> Readable] /\ Length \in Nat
    BY XmodemReceiveAssumption DEF IInv, TypeOK
  <1>2. i \in Image /\ i < Programmed
    BY <1>1 DEF Image, Programmed, LargeUnits
  <1>3. QED
    BY <1>1, <1>2 DEF IInv, ImageIntact

LEMMA ReadBackIsImageNext == IInv' => (ReadBack \in Write!Images(written))'
  BY ReadBackIsImage, PTL

(* No step but a commit changes the image that is read back. *)
LEMMA ReadBackKept ==
    ASSUME IInv, [Next]_vars, ~CommitBlock
    PROVE  ReadBack' = ReadBack
  <1>1. written' = written
    BY DEF Next, Work, GiveUp, HostSends, Erase, EraseFails,
         ProgramNextPage, FirstTimeout, Timeout, FirstMarker, NextMarker,
         RefusePacket, AcceptPacket, HostLeaves, receiverVars, vars
  <1>2. written \in 0 .. Length
    BY DEF IInv, TypeOK
  <1>3. ASSUME NEW i \in 0 .. written - 1
        PROVE  flash'[Off + i] = flash[Off + i]
    <2>1. CASE Erase
      BY <1>2, <2>1 DEF IInv, PositionOK, Erase
    <2>2. CASE ProgramNextPage
      <3>1. /\ PageAddr = Off + written + pageOff
            /\ pageOff \in 0 .. LargeUnits
            /\ PageLen \in 1 .. PageUnits
            /\ Off \in Nat /\ Length \in Nat
        BY <2>2, PageFacts, XmodemReceiveAssumption
        DEF IInv, TypeOK, PageAddr, ProgramNextPage
      <3>2. i \in Image
        BY <1>2, <3>1 DEF Image
      <3>3. Off + i \in Addrs /\ Off + i \notin PageAddr .. PageAddr + PageLen - 1
        BY <1>2, <3>1, <3>2, ImageErased DEF LargeUnits, PageUnits
      <3>4. QED
        BY <2>2, <3>3, ProgramNextPageEffect
    <2>3. QED
      BY <2>1, <2>2, ChipSteps
  <1>4. QED
    BY <1>1, <1>3 DEF ReadBack

(* Every step of the receiver is a step of the abstract write or leaves it *)
(* alone.                                                                  *)
LEMMA WriteStep ==
    ASSUME IInv, IInv', [Next]_vars
    PROVE  [Write!Next]_(Write!imageVars)
  <1>1. CASE CommitBlock
    <2>1. /\ written \in 0 .. Length /\ written' \in 0 .. Length
          /\ written < written'
          /\ flash' = flash
          /\ result = "busy" /\ result' = "busy"
      <3>1. /\ written \in 0 .. Length /\ written' \in 0 .. Length
            /\ written < Length /\ chunk = Chunk /\ pc = "program"
        BY <1>1 DEF IInv, TypeOK, BlockOK, CommitBlock
      <3>2. chunk \in 1 .. LargeUnits
        BY <3>1, ChunkFacts
      <3>3. QED
        BY <1>1, <3>1, <3>2 DEF IInv, PositionOK, CommitBlock, LargeUnits
    <2>2. /\ ReadBack \in Write!Images(written)
          /\ (ReadBack \in Write!Images(written))'
      BY ReadBackIsImage, ReadBackIsImageNext
    <2>3. \A i \in 0 .. written - 1 : ReadBack'[i] = ReadBack[i]
      <3>1. ASSUME NEW i \in 0 .. written - 1
            PROVE  ReadBack'[i] = ReadBack[i]
        <4>1. written \in Nat /\ written' \in Nat /\ written <= written'
          BY <2>1, XmodemReceiveAssumption
        <4>2. i \in 0 .. written' - 1
          BY <4>1, IntervalGrows
        <4>3. ReadBack'[i] = flash'[Off + i] /\ ReadBack[i] = flash[Off + i]
          BY <4>2 DEF ReadBack
        <4>4. QED
          BY <2>1, <4>3
      <3>2. QED
        BY <3>1
    <2>4. Write!Extend
      BY <2>1, <2>2, <2>3 DEF Write!Extend, ReadBack
    <2>5. QED
      BY <2>4 DEF Write!Next
  <1>2. CASE ~CommitBlock
    <2>1. ReadBack' = ReadBack
      BY <1>2, ReadBackKept
    <2>2. CASE result' = result
      BY <2>1, <2>2 DEF Write!imageVars, ReadBack
    <2>3. CASE result' # result
      <3>1. result = "busy" /\ result' \in {"ok", "fail"}
        <4>1. pc # "done"
          BY <2>3 DEF Next, Work, GiveUp, HostSends, Erase, EraseFails, CommitBlock,
             ProgramNextPage, FirstTimeout, Timeout, FirstMarker, NextMarker,
             RefusePacket, AcceptPacket, HostLeaves, receiverVars, vars
        <4>2. QED
          BY <2>3, <4>1 DEF IInv, TypeOK, PositionOK
      <3>2. CASE result' = "fail"
        BY <2>1, <3>1, <3>2 DEF Write!Next, Write!Fail, ReadBack
      <3>3. CASE result' = "ok"
        <4>1. written' = Length /\ written' = written
          BY <2>3, <3>3 DEF IInv, PositionOK, Next, Work, GiveUp, HostSends, Erase,
             EraseFails, CommitBlock, ProgramNextPage, FirstTimeout, Timeout,
             FirstMarker, NextMarker, RefusePacket, AcceptPacket, HostLeaves,
             receiverVars, vars, Cancel, Leave
        <4>2. ReadBack \in Write!Images(Length)
          BY <4>1, ReadBackIsImage
        <4>3. QED
          BY <2>1, <3>1, <3>3, <4>2 DEF Write!Next, Write!Succeed, ReadBack
      <3>4. QED
        BY <3>1, <3>2, <3>3
    <2>4. QED
      BY <2>2, <2>3
  <1>3. QED
    BY <1>1, <1>2

(* The receiver implements the abstract write of FlashImage. *)
THEOREM ReceiverImplementsWrite == Spec => ImplementsWrite
  <1>1. Init => Write!Init
    <2> SUFFICES ASSUME Init PROVE Write!Init
      OBVIOUS
    <2>1. IInv /\ written = 0 /\ result = "busy"
      BY InitIInv DEF Init
    <2>2. ReadBack \in Write!Images(0)
      BY <2>1, ReadBackIsImage
    <2>3. QED
      BY <2>1, <2>2 DEF Write!Init, ReadBack
  <1>2. IInv /\ IInv' /\ [Next]_vars => [Write!Next]_(Write!imageVars)
    BY WriteStep
  <1>3. QED
    BY <1>1, <1>2, Invariant, PTL DEF Spec, Write!Spec, ImplementsWrite

-----------------------------------------------------------------------------
(* The host waits until no answer can come any more, and the line loses and*)
(* damages but neither cuts packets nor adds bytes.                        *)
StopAndWait == Patient /\ Faults \subseteq {"lose", "damage", "loseReply"}

-----------------------------------------------------------------------------
(* Where the blocks of a plan start. *)
LEMMA BlockUnitsType == ASSUME NEW m PROVE BlockUnits(m) \in {SmallUnits, LargeUnits}
  BY DEF BlockUnits

LEMMA StartFacts ==
    ASSUME NEW p \in Plans
    PROVE  /\ Start(p)[1] = 0
           /\ \A k \in 2 .. Len(p) : Start(p)[k] = Start(p)[k - 1] + BlockUnits(p[k - 1])
           /\ \A k \in 1 .. Len(p) : Start(p)[k] \in Nat
  <1> DEFINE V == Nat
             N == Len(p)
             G == [x \in Int \X V |->
                      IF x[1] \in 2 .. N THEN x[2] + BlockUnits(p[x[1] - 1]) ELSE 0]
             IsStart(s) == s = [k \in 1 .. N |->
                                   IF k = 1 THEN 0 ELSE s[k - 1] + BlockUnits(p[k - 1])]
             f == Recursion(1, N, V, 0, G)
  <1>1. N \in Nat /\ 1 <= N
    <2>1. p \in Seq({"SOH", "STX"}) /\ p # <<>>
      BY SessionAssumption
    <2>2. QED
      BY <2>1
  <1>2. G \in [Int \X V -> V]
    <2>1. \A m : BlockUnits(m) \in Nat
      BY DEF BlockUnits, SmallUnits, LargeUnits
    <2>2. \A v \in V, i \in Int : v + BlockUnits(p[i - 1]) \in V
      BY <2>1
    <2>3. QED
      BY <2>2
  <1>3. f \in [1 .. N -> V] /\ IsRecursion(f, 1, N, 0, G)
    <2> HIDE DEF G, N
    <2>1. 1 \in Int /\ N \in Int /\ 0 \in V
      BY <1>1
    <2> HIDE DEF V
    <2>2. QED
      BY <1>1, <1>2, <2>1, RecursionExists
  <1> HIDE DEF f, N
  <1>4. ASSUME NEW i \in 2 .. N PROVE f[i] = f[i - 1] + BlockUnits(p[i - 1])
    <2>0. i - 1 \in 1 .. N /\ i \in 1 + 1 .. N /\ i \in Int
      BY <1>1
    <2>1. f[i] = G[<<i, f[i - 1]>>] /\ f[i - 1] \in V
      BY <1>3, <2>0 DEF IsRecursion
    <2>2. QED
      BY <2>0, <2>1
  <1>5. f[1] = 0 /\ IsStart(f)
    <2>1. f[1] = 0
      BY <1>3 DEF IsRecursion
    <2>2. \A i \in 1 .. N : f[i] = IF i = 1 THEN 0 ELSE f[i - 1] + BlockUnits(p[i - 1])
      <3>1. \A i \in 1 .. N : i = 1 \/ i \in 2 .. N
        BY <1>1
      <3>2. QED
        BY <1>4, <2>1, <3>1
    <2>3. QED
      BY <1>3, <2>1, <2>2
  <1>6. Start(p) = CHOOSE s : IsStart(s)
    BY DEF Start, N
  <1>7. IsStart(Start(p))
    <2> HIDE DEF IsStart
    <2>1. QED
      BY <1>5, <1>6
  <1> HIDE DEF G, V
  <1>8. Start(p)[1] = 0
    BY <1>1, <1>7
  <1>9. ASSUME NEW k \in 2 .. N PROVE Start(p)[k] = Start(p)[k - 1] + BlockUnits(p[k - 1])
    <2>1. k \in 1 .. N /\ k # 1
      BY <1>1
    <2>2. QED
      BY <2>1, <1>7
  <1>10. \A k \in 1 .. N : Start(p)[k] \in Nat
    <2> DEFINE s == Start(p)
    <2> HIDE DEF s
    <2>1. \A i \in 1 + 1 .. N : s[i - 1] \in Nat => s[i] \in Nat
      <3>1. \A m : BlockUnits(m) \in Nat
        BY DEF BlockUnits, SmallUnits, LargeUnits
      <3>2. QED
        BY <1>1, <1>9, <3>1 DEF s
    <2>2. s[1] \in Nat
      BY <1>8 DEF s
    <2>3. 1 \in Int /\ N \in Int
      BY <1>1
    <2>4. \A i \in 1 .. N : s[i] \in Nat
      BY <2>1, <2>2, <2>3, RecursionType
    <2>5. QED
      BY <2>4 DEF s
  <1>11. QED
    BY <1>8, <1>9, <1>10 DEF N

-----------------------------------------------------------------------------
(* The invariant.  The stub is level with the host when it has committed   *)
(* the host's block, and behind it until then.                             *)
Clip(n) == IF n > Length THEN Length ELSE n
EndOf(k) == Start(plan)[k] + BlockUnits(plan[k])

Behind ==
    /\ expected = block % BlockMod
    /\ written = Clip(Start(plan)[block])

Level ==
    /\ expected = (block + 1) % BlockMod
    /\ written = Clip(EndOf(block))

(* What the stub has accepted is what the host's file holds there. *)
Content == \A i \in Image : i < Received => stream[i] = File[i]

(* Bytes the host will not take for the answer to what it sends next. *)
StaleBytes == IF pc = "done" THEN {"C", "CAN"} ELSE {"C"}
NoAnswer == toHost \in Seq(StaleBytes)
LastIs(b) ==
    /\ pc \in {"marker", "done"}
    /\ \E s \in Seq(StaleBytes) : toHost = Append(s, b)

InPacket == pc \in {"packet", "program"}
Idle == toStub = <<>> /\ ~InPacket /\ NoAnswer

SentBlocks == {<<Item(plan[block], block, state)>> : state \in {"whole", "damaged"}}
SentEnds == {<<Byte(m)>> : m \in {"EOT", "junk"}}

(* A block is on the line, in the page loop, or dealt with. *)
BlockUnderWay ==
    /\ toStub \in SentBlocks
    /\ NoAnswer
    /\ pc # "program"
    /\ pc = "packet" => marker = plan[block]

BlockAtWork ==
    /\ toStub = <<>>
    /\ NoAnswer
    /\ pc = "program"
    /\ marker = plan[block]
    /\ Behind

BlockAnswered ==
    /\ toStub = <<>>
    /\ ~InPacket
    /\ NoAnswer \/ LastIs("NAK") \/ (Level /\ LastIs("ACK"))

EndUnderWay == toStub \in SentEnds /\ ~InPacket /\ NoAnswer

EndAnswered ==
    /\ toStub = <<>>
    /\ ~InPacket
    /\ NoAnswer \/ LastIs("NAK") \/ (result = "ok" /\ LastIs("ACK"))

AtTheEnd == block = Len(plan) /\ Level

(* Whose turn it is: at most one packet or one answer is under way. *)
Turn ==
    \/ host = "wait" /\ Idle /\ block = 1 /\ retries = 0 /\ Behind
    \/ host = "send" /\ Idle /\ retries < HostRetries
    \/ host = "reply" /\ (BlockUnderWay \/ BlockAtWork \/ BlockAnswered)
    \/ host = "eot" /\ Idle /\ retries < HostRetries /\ AtTheEnd
    \/ host = "eotReply" /\ (EndUnderWay \/ EndAnswered) /\ AtTheEnd
    \/ host = "ok" /\ result = "ok"
    \/ host = "fail" /\ (pc = "done" \/ (toStub = <<>> /\ ~InPacket))

Answer == {"C", "ACK", "NAK", "CAN"}

HostTypeOK ==
    /\ plan \in Plans
    /\ host \in {"wait", "send", "reply", "eot", "eotReply", "ok", "fail"}
    /\ block \in 1 .. Len(plan)
    /\ retries \in 0 .. HostRetries
    /\ faults \in 0 .. MaxFaults
    /\ toStub = <<>> \/ toStub \in SentBlocks \cup SentEnds
    /\ toHost \in Seq(Answer)

SInv ==
    /\ IInv
    /\ HostTypeOK
    /\ Content
    /\ Behind \/ Level
    /\ Turn

LEMMA InitSInv == SessionInit => SInv
  <1> SUFFICES ASSUME SessionInit PROVE SInv
    OBVIOUS
  <1>1. IInv
    BY InitIInv DEF SessionInit
  <1>2. plan \in Plans /\ Len(plan) \in Nat /\ 1 <= Len(plan)
    <2>1. plan \in Seq({"SOH", "STX"}) /\ plan # <<>>
      BY SessionAssumption DEF SessionInit
    <2>2. QED
      BY <2>1 DEF SessionInit
  <1>3. NoAnswer /\ toHost \in Seq(Answer)
    BY DEF SessionInit, NoAnswer
  <1>4. HostTypeOK
    <2>1. 0 \in 0 .. HostRetries /\ 0 \in 0 .. MaxFaults
      BY SessionAssumption
    <2>2. QED
      BY <1>2, <1>3, <2>1 DEF SessionInit, HostTypeOK
  <1>5. Behind
    <2>1. 1 % BlockMod = 1
      BY XmodemReceiveAssumption, ModSmall
    <2>2. Start(plan)[1] = 0
      BY <1>2, StartFacts
    <2>3. Clip(0) = 0
      BY XmodemReceiveAssumption DEF Clip
    <2>4. QED
      BY <2>1, <2>2, <2>3 DEF SessionInit, Init, Behind
  <1>6. Content
    BY DEF SessionInit, Init, Content, Received, Image
  <1>7. Turn
    BY <1>3, <1>5 DEF SessionInit, Init, Turn, Idle, InPacket
  <1>8. QED
    BY <1>1, <1>4, <1>5, <1>6, <1>7 DEF SInv

-----------------------------------------------------------------------------
(* Small facts about the numbers and the bytes under way. *)

(* The numbers of a block, its predecessor and its successor differ. *)
LEMMA NumberFacts ==
    ASSUME NEW k \in Nat
    PROVE  /\ k % BlockMod \in BlockNumbers
           /\ NextBlock(k % BlockMod) = (k + 1) % BlockMod
           /\ (k + 1) % BlockMod # k % BlockMod
           /\ Previous((k + 1) % BlockMod) = k % BlockMod
           /\ Previous(k % BlockMod) # k % BlockMod
  <1>1. BlockMod \in Nat \ {0} /\ BlockMod > 1 /\ k \in Int
    BY XmodemReceiveAssumption
  <1>2. k % BlockMod \in 0 .. BlockMod - 1
    BY <1>1, ModRange
  <1>3. /\ ((k % BlockMod) + 1) % BlockMod = (k + 1) % BlockMod
        /\ (k + 1) % BlockMod # k % BlockMod
        /\ (((k + 1) % BlockMod) - 1) % BlockMod = k % BlockMod
        /\ ((k % BlockMod) - 1) % BlockMod # k % BlockMod
    BY <1>1, BlockNumberFacts
  <1>4. QED
    BY <1>2, <1>3 DEF BlockNumbers, NextBlock, Previous

(* Answers under way, when a byte arrives and when one is read or lost. *)
LEMMA StaleIsAnswer == StaleBytes \subseteq Answer
  BY DEF StaleBytes, Answer

LEMMA SeqGrows == ASSUME NEW S, NEW T, S \subseteq T PROVE Seq(S) \subseteq Seq(T)
  <1> SUFFICES ASSUME NEW s \in Seq(S) PROVE s \in Seq(T)
    OBVIOUS
  <1>1. Len(s) \in Nat /\ s \in [1 .. Len(s) -> S]
    OBVIOUS
  <1>2. s \in [1 .. Len(s) -> T]
    BY <1>1
  <1>3. QED
    BY <1>1, <1>2

LEMMA AppendParts ==
    ASSUME NEW S, NEW b, NEW s \in Seq(S), NEW q, q = Append(s, b)
    PROVE  /\ q # <<>>
           /\ s = <<>> => Head(q) = b /\ Tail(q) = <<>>
           /\ s # <<>> => /\ Head(q) \in S
                         /\ Tail(s) \in Seq(S)
                         /\ Tail(q) = Append(Tail(s), b)
  <1> DEFINE T == S \cup {b}
  <1>1. s \in Seq(T) /\ b \in T
    BY SeqGrows
  <1>2. q \in Seq(T) /\ Len(q) = Len(s) + 1 /\ Len(s) \in Nat
    BY <1>1
  <1>3. CASE s = <<>>
    BY <1>3
  <1>4. CASE s # <<>>
    <2>1. Tail(s) \in Seq(S) /\ Head(s) \in S
      BY <1>4
    <2>2. Head(q) = Head(s) /\ Tail(q) = Append(Tail(s), b)
      BY <1>1, <1>2, <1>4
    <2>3. QED
      BY <1>2, <1>4, <2>1, <2>2
  <1>5. QED
    BY <1>3, <1>4

LEMMA NoneUnderWay == ASSUME toHost' = <<>> PROVE NoAnswer'
  <1> DEFINE S == StaleBytes'
  <1> HIDE DEF S
  <1>1. <<>> \in Seq(S)
    OBVIOUS
  <1>2. QED
    BY <1>1 DEF NoAnswer, S

LEMMA NoAnswerKept ==
    ASSUME NoAnswer, toHost' = toHost \o reply', pc = "done" => pc' = "done",
           \/ reply' \in {<<>>, <<"C">>}
           \/ reply' = <<"CAN", "CAN">> /\ pc' = "done"
    PROVE  NoAnswer'
  <1> DEFINE S == StaleBytes'
  <1>1. StaleBytes \subseteq S /\ "C" \in S /\ (pc' = "done" => "CAN" \in S)
    BY DEF StaleBytes
  <1>2. toHost \in Seq(S)
    BY <1>1, SeqGrows DEF NoAnswer
  <1> HIDE DEF S
  <1>3. reply' \in Seq(S)
    <2>1. <<>> \in Seq(S) /\ <<"C">> \in Seq(S)
      BY <1>1
    <2>2. pc' = "done" => <<"CAN", "CAN">> \in Seq(S)
      BY <1>1
    <2>3. QED
      BY <2>1, <2>2
  <1>4. toHost \o reply' \in Seq(S)
    BY <1>2, <1>3
  <1>5. QED
    BY <1>4 DEF NoAnswer, S

LEMMA AnswerSent ==
    ASSUME NEW b, NoAnswer, toHost' = toHost \o <<b>>, pc' \in {"marker", "done"},
           pc = "done" => pc' = "done"
    PROVE  LastIs(b)'
  <1> DEFINE S == StaleBytes'
  <1>1. StaleBytes \subseteq S
    BY DEF StaleBytes
  <1>2. toHost \in Seq(S) /\ toHost \in Seq(StaleBytes)
    BY <1>1, SeqGrows DEF NoAnswer
  <1>3. toHost' = Append(toHost, b)
    BY <1>2
  <1>4. QED
    BY <1>2, <1>3 DEF LastIs, S

LEMMA LastKept ==
    ASSUME NEW b, LastIs(b), toHost' = toHost, pc' \in {"marker", "done"},
           pc = "done" => pc' = "done"
    PROVE  LastIs(b)'
  <1>1. PICK s \in Seq(StaleBytes) : toHost = Append(s, b)
    BY DEF LastIs
  <1> DEFINE S == StaleBytes'
  <1>2. StaleBytes \subseteq S
    BY DEF StaleBytes
  <1>3. s \in Seq(S)
    BY <1>2, SeqGrows
  <1>4. QED
    BY <1>1, <1>3 DEF LastIs, S

LEMMA AnswersTyped ==
    ASSUME toHost \in Seq(Answer), TypeOK', toHost' = toHost \o reply'
    PROVE  toHost' \in Seq(Answer)
  <1>1. reply' \in Seq(Answer)
    <2>1. /\ <<>> \in Seq(Answer)
          /\ <<"C">> \in Seq(Answer)
          /\ <<"ACK">> \in Seq(Answer)
          /\ <<"NAK">> \in Seq(Answer)
      BY DEF Answer
    <2>2. <<"CAN", "CAN">> \in Seq(Answer)
      BY DEF Answer
    <2>3. QED
      BY <2>1, <2>2 DEF TypeOK
  <1>2. QED
    BY <1>1

(* Steps that neither accept nor commit a block. *)
KeepsPlace ==
    /\ UNCHANGED <<written, expected, stream, plan, block>>
    /\ Received' = Received

LEMMA PlaceKept ==
    ASSUME KeepsPlace
    PROVE  /\ Behind => Behind'
           /\ Level => Level'
           /\ Content => Content'
           /\ AtTheEnd => AtTheEnd'
           /\ SentBlocks' = SentBlocks
  <1>1. Start(plan)' = Start(plan) /\ EndOf(block)' = EndOf(block)
    BY DEF KeepsPlace, EndOf
  <1>2. (Behind => Behind') /\ (Level => Level')
    BY <1>1 DEF KeepsPlace, Behind, Level, Clip
  <1>3. Content => Content'
    BY DEF KeepsPlace, Content
  <1>4. AtTheEnd => AtTheEnd'
    BY <1>2 DEF AtTheEnd, KeepsPlace
  <1>5. QED
    BY <1>2, <1>3, <1>4 DEF KeepsPlace, SentBlocks

(* Steps of the stub that leave the line to it alone. *)
LEMMA TypesKept ==
    ASSUME HostTypeOK, TypeOK', KeepsPlace, Answers,
           UNCHANGED <<host, retries, faults>>, toStub' \in {toStub, <<>>}
    PROVE  HostTypeOK'
  <1>1. toHost' \in Seq(Answer)
    BY AnswersTyped DEF HostTypeOK, Answers
  <1>2. SentBlocks' = SentBlocks
    BY PlaceKept
  <1>3. toStub' = <<>> \/ toStub' \in SentBlocks' \cup SentEnds'
    BY <1>2 DEF HostTypeOK, SentEnds
  <1>4. QED
    BY <1>1, <1>3 DEF HostTypeOK, KeepsPlace

-----------------------------------------------------------------------------
(* The steps of the stub. *)

(* Before the first packet the stub only asks for it, or gives up. *)
LEMMA EarlyTurn ==
    ASSUME SInv, pc \in {"erase", "first"}, pc' \in {"first", "done"}, KeepsPlace, Answers,
           UNCHANGED <<host, retries, toStub>>,
           reply' = <<"C">> \/ (reply' = <<"CAN", "CAN">> /\ pc' = "done")
    PROVE  Turn'
  <1>1. result # "ok" /\ ~InPacket' /\ pc # "done"
    BY DEF SInv, IInv, PositionOK, InPacket
  <1>2. NoAnswer => NoAnswer'
    BY NoAnswerKept DEF Answers
  <1>3. \A b : ~LastIs(b)
    BY DEF LastIs
  <1>4. /\ Behind => Behind'
        /\ AtTheEnd => AtTheEnd'
        /\ SentBlocks' = SentBlocks
        /\ block' = block /\ plan' = plan
    BY PlaceKept DEF KeepsPlace
  <1>5. Idle => Idle'
    BY <1>1, <1>2 DEF Idle
  <1>6. BlockUnderWay \/ BlockAnswered => BlockUnderWay' \/ BlockAnswered'
    BY <1>1, <1>2, <1>3, <1>4 DEF BlockUnderWay, BlockAnswered, InPacket
  <1>7. EndUnderWay \/ EndAnswered => EndUnderWay' \/ EndAnswered'
    BY <1>1, <1>2, <1>3 DEF EndUnderWay, EndAnswered, SentEnds
  <1>8. ~BlockAtWork
    BY DEF BlockAtWork
  <1>9. QED
    BY <1>1, <1>4, <1>5, <1>6, <1>7, <1>8 DEF SInv, Turn

(* Pages are programmed only while the host waits for the answer. *)
LEMMA AtWork ==
    ASSUME SInv, pc = "program"
    PROVE  host = "reply" /\ BlockAtWork
  <1>1. result # "ok" /\ InPacket
    BY DEF SInv, IInv, PositionOK, InPacket
  <1>2. QED
    BY <1>1 DEF SInv, Turn, Idle, BlockUnderWay, BlockAnswered, EndUnderWay, EndAnswered

LEMMA StubWorksStep == ASSUME SInv, StubWorks PROVE SInv'
  <1>1. IInv' /\ TypeOK'
    <2>1. IInv'
      BY EraseFailsStep, EraseStep, ProgramNextPageStep, CommitBlockStep
      DEF SInv, StubWorks, Work
    <2>2. QED
      BY <2>1 DEF IInv
  <1>2. Answers /\ UNCHANGED <<plan, host, block, retries, toStub, faults>>
    BY DEF StubWorks, hostVars
  <1>3. CASE EraseFails \/ Erase
    <2>1. KeepsPlace
      BY <1>2, <1>3 DEF EraseFails, Erase, Cancel, Leave, KeepsPlace, Received
    <2>2. HostTypeOK'
      BY <1>1, <1>2, <2>1, TypesKept DEF SInv
    <2>3. Turn'
      BY <1>2, <1>3, <2>1, EarlyTurn DEF EraseFails, Erase, Cancel, Leave
    <2>4. QED
      BY <1>1, <2>1, <2>2, <2>3, PlaceKept DEF SInv
  <1>4. CASE ProgramNextPage
    <2>1. KeepsPlace
      BY <1>2, <1>4 DEF ProgramNextPage, KeepsPlace, Received
    <2>2. HostTypeOK'
      BY <1>1, <1>2, <2>1, TypesKept DEF SInv
    <2>3. host = "reply" /\ BlockAtWork
      BY <1>4, AtWork DEF ProgramNextPage
    <2>4. NoAnswer'
      BY <1>2, <1>4, <2>3, NoAnswerKept DEF ProgramNextPage, BlockAtWork, Answers
    <2>5. Turn'
      BY <1>2, <1>4, <2>1, <2>3, <2>4, PlaceKept DEF ProgramNextPage, BlockAtWork, Turn
    <2>6. QED
      BY <1>1, <2>1, <2>2, <2>5, PlaceKept DEF SInv
  <1>5. CASE CommitBlock
    <2>1. host = "reply" /\ BlockAtWork
      BY <1>5, AtWork DEF CommitBlock
    <2>2. Level'
      <3>1. /\ written \in 0 .. Length /\ written < Length /\ chunk = Chunk
            /\ marker = plan[block] /\ Behind /\ block \in Nat
            /\ Start(plan)[block] \in Nat
        BY <1>5, <2>1, StartFacts
        DEF SInv, IInv, TypeOK, BlockOK, CommitBlock, BlockAtWork, HostTypeOK
      <3>2. written = Start(plan)[block]
        BY <3>1, XmodemReceiveAssumption DEF Behind, Clip
      <3>3. written + chunk = Clip(EndOf(block))
        BY <3>1, <3>2, BlockUnitsType, XmodemReceiveAssumption
        DEF Chunk, Clip, EndOf, SmallUnits, LargeUnits
      <3>4. NextBlock(expected) = (block + 1) % BlockMod
        BY <3>1, NumberFacts DEF Behind
      <3>5. EndOf(block)' = EndOf(block)
        BY <1>2 DEF EndOf
      <3>6. QED
        BY <1>2, <1>5, <3>3, <3>4, <3>5 DEF CommitBlock, Level, Clip
    <2>3. Content'
      BY <1>2, <1>5 DEF SInv, Content, Received, CommitBlock
    <2>4. LastIs("ACK")'
      BY <1>2, <1>5, <2>1, AnswerSent DEF CommitBlock, BlockAtWork, Answers
    <2>5. Turn'
      BY <1>2, <1>5, <2>1, <2>2, <2>4 DEF CommitBlock, BlockAtWork, BlockAnswered, InPacket, Turn
    <2>6. HostTypeOK'
      <3>1. toHost' \in Seq(Answer)
        BY <1>1, <1>2, AnswersTyped DEF SInv, HostTypeOK, Answers
      <3>2. QED
        BY <1>2, <2>1, <3>1 DEF SInv, HostTypeOK, BlockAtWork
    <2>7. QED
      BY <1>1, <2>2, <2>3, <2>5, <2>6 DEF SInv
  <1>6. QED
    BY <1>3, <1>4, <1>5 DEF StubWorks, Work

(* While the function runs, what is on the line is the host's last packet. *)
LEMMA OnTheLine ==
    ASSUME SInv, toStub # <<>>, pc # "done"
    PROVE  \/ host = "reply" /\ BlockUnderWay
           \/ host = "eotReply" /\ EndUnderWay /\ AtTheEnd
  <1>1. result # "ok"
    BY DEF SInv, IInv, PositionOK
  <1>2. QED
    BY <1>1 DEF SInv, Turn, Idle, BlockAtWork, BlockAnswered, EndAnswered

LEMMA PlanFacts ==
    ASSUME HostTypeOK
    PROVE  /\ Len(plan) \in Nat /\ block \in 1 .. Len(plan)
           /\ plan[block] \in {"SOH", "STX"}
           /\ Start(plan)[block] \in Nat
           /\ plan[block] = "STX" => Start(plan)[block] % PageUnits = 0
           /\ Payload(block) \in [0 .. BlockUnits(plan[block]) - 1 -> Readable]
  <1>1. plan \in Plans /\ block \in 1 .. Len(plan)
    BY DEF HostTypeOK
  <1>2. plan \in Seq({"SOH", "STX"})
    BY <1>1, SessionAssumption
  <1>3. plan[block] \in {"SOH", "STX"} /\ Len(plan) \in Nat
    BY <1>1, <1>2
  <1>4. Start(plan)[block] \in Nat
    BY <1>1, StartFacts
  <1>5. /\ plan[block] = "STX" => Start(plan)[block] % PageUnits = 0
        /\ \A i \in 0 .. BlockUnits(plan[block]) - 1 : File[Start(plan)[block] + i] \in Readable
    BY <1>1, SessionAssumption
  <1>6. QED
    BY <1>1, <1>3, <1>4, <1>5 DEF Payload

(* What is under way is one packet. *)
LEMMA SentFacts ==
    /\ toStub \in SentBlocks =>
          /\ Head(toStub).marker = plan[block]
          /\ Head(toStub).block = block
          /\ Head(toStub).state \in {"whole", "damaged"}
    /\ toStub \in SentEnds =>
          /\ Head(toStub).marker \in {"EOT", "junk"}
          /\ Head(toStub).state = "whole"
    /\ toStub \in SentBlocks \cup SentEnds =>
          /\ toStub # <<>> /\ Len(toStub) = 1 /\ Tail(toStub) = <<>>
  <1>1. ASSUME NEW state \in {"whole", "damaged"}, toStub = <<Item(plan[block], block, state)>>
        PROVE  /\ Head(toStub) = Item(plan[block], block, state)
               /\ toStub # <<>> /\ Len(toStub) = 1 /\ Tail(toStub) = <<>>
    BY <1>1
  <1>2. ASSUME NEW m \in {"EOT", "junk"}, toStub = <<Byte(m)>>
        PROVE  /\ Head(toStub) = Byte(m)
               /\ toStub # <<>> /\ Len(toStub) = 1 /\ Tail(toStub) = <<>>
    BY <1>2
  <1>3. ASSUME NEW mk, NEW k, NEW state
        PROVE  /\ Item(mk, k, state).marker = mk
               /\ Item(mk, k, state).block = k
               /\ Item(mk, k, state).state = state
    BY DEF Item
  <1>4. ASSUME toStub \in SentBlocks
        PROVE  /\ Head(toStub).marker = plan[block]
               /\ Head(toStub).block = block
               /\ Head(toStub).state \in {"whole", "damaged"}
               /\ toStub # <<>> /\ Len(toStub) = 1 /\ Tail(toStub) = <<>>
    <2>1. PICK state \in {"whole", "damaged"} : toStub = <<Item(plan[block], block, state)>>
      BY <1>4 DEF SentBlocks
    <2>2. QED
      BY <2>1, <1>1, <1>3
  <1>5. ASSUME toStub \in SentEnds
        PROVE  /\ Head(toStub).marker \in {"EOT", "junk"}
               /\ Head(toStub).state = "whole"
               /\ toStub # <<>> /\ Len(toStub) = 1 /\ Tail(toStub) = <<>>
    <2>1. PICK m \in {"EOT", "junk"} : toStub = <<Byte(m)>>
      BY <1>5 DEF SentEnds
    <2>2. QED
      BY <2>1, <1>2, <1>3 DEF Byte
  <1>6. QED
    BY <1>4, <1>5

LEMMA StubReadsMarkerStep == ASSUME SInv, StubReadsMarker PROVE SInv'
  <1> DEFINE m == Head(toStub).marker
  <1>1. /\ toStub # <<>>
        /\ FirstMarker(m) \/ NextMarker(m)
        /\ toStub' = IF pc' = "packet" THEN toStub ELSE Tail(toStub)
        /\ Answers
        /\ UNCHANGED <<plan, host, block, retries, faults>>
    BY DEF StubReadsMarker, hostVars
  <1>2. pc \in {"first", "marker"} /\ KeepsPlace
    BY <1>1 DEF FirstMarker, NextMarker, Cancel, Leave, KeepsPlace, Received
  <1>3. /\ toStub \in SentBlocks \cup SentEnds
        /\ Tail(toStub) = <<>>
        /\ NoAnswer
    BY <1>1, <1>2, OnTheLine, SentFacts DEF BlockUnderWay, EndUnderWay
  <1>4. m \in Markers
    BY <1>3, SentFacts, PlanFacts DEF SInv, Markers
  <1>5. IInv' /\ TypeOK'
    <2>1. IInv'
      BY <1>1, <1>4, FirstMarkerStep, NextMarkerStep DEF SInv
    <2>2. QED
      BY <2>1 DEF IInv
  <1>6. HostTypeOK'
    BY <1>1, <1>2, <1>3, <1>5, TypesKept DEF SInv
  <1>7. Turn'
    <2>1. CASE host = "reply" /\ BlockUnderWay
      <3>1. m = plan[block] /\ plan[block] \in {"SOH", "STX"}
        BY <2>1, SentFacts, PlanFacts DEF BlockUnderWay, SInv
      <3>2. pc' = "packet" /\ marker' = plan[block] /\ reply' = <<>>
        BY <1>1, <3>1 DEF FirstMarker, NextMarker
      <3>3. NoAnswer'
        BY <1>1, <1>2, <1>3, <3>2, NoAnswerKept DEF Answers
      <3>4. BlockUnderWay'
        BY <1>1, <1>2, <2>1, <3>2, <3>3, PlaceKept DEF BlockUnderWay
      <3>5. QED
        BY <1>1, <2>1, <3>4 DEF Turn
    <2>2. CASE host = "eotReply" /\ EndUnderWay /\ AtTheEnd
      <3>1. m \in {"EOT", "junk"}
        BY <2>2, SentFacts DEF EndUnderWay
      <3>2. \/ pc' = "done" /\ reply' = <<"CAN", "CAN">>
            \/ pc' = "marker" /\ reply' = <<"NAK">>
            \/ pc' = "done" /\ reply' = <<"ACK">> /\ result' = "ok"
        BY <1>1, <1>2, <3>1 DEF FirstMarker, NextMarker, Cancel, Leave
      <3>3. toStub' = <<>> /\ ~InPacket' /\ AtTheEnd'
        BY <1>1, <1>2, <1>3, <2>2, <3>2, PlaceKept DEF InPacket
      <3>4. CASE reply' = <<"CAN", "CAN">> /\ pc' = "done"
        <4>1. NoAnswer'
          BY <1>1, <1>3, <3>4, NoAnswerKept DEF Answers
        <4>2. QED
          BY <1>1, <2>2, <3>3, <4>1 DEF EndAnswered, Turn
      <3>5. CASE pc' = "marker" /\ reply' = <<"NAK">>
        <4>1. LastIs("NAK")'
          BY <1>1, <1>2, <1>3, <3>5, AnswerSent DEF Answers
        <4>2. QED
          BY <1>1, <2>2, <3>3, <4>1 DEF EndAnswered, Turn
      <3>6. CASE pc' = "done" /\ reply' = <<"ACK">> /\ result' = "ok"
        <4>1. LastIs("ACK")'
          BY <1>1, <1>2, <1>3, <3>6, AnswerSent DEF Answers
        <4>2. QED
          BY <1>1, <2>2, <3>3, <3>6, <4>1 DEF EndAnswered, Turn
      <3>7. QED
        BY <3>2, <3>4, <3>5, <3>6
    <2>3. QED
      BY <1>1, <1>2, <2>1, <2>2, OnTheLine
  <1>8. QED
    BY <1>2, <1>5, <1>6, <1>7, PlaceKept DEF SInv

(* A block that is taken continues the image where the file continues. *)
LEMMA TakenContent ==
    ASSUME SInv, Behind, marker = plan[block],
           AcceptPacket(block % BlockMod, Payload(block)),
           UNCHANGED <<plan, block>>
    PROVE  Content' /\ Behind' /\ PagesAligned(block % BlockMod)
  <1>1. /\ written \in 0 .. Length /\ written < Length /\ pc = "packet"
        /\ stream \in [Image -> Readable] /\ Length \in Nat
    BY XmodemReceiveAssumption DEF SInv, IInv, TypeOK, AcceptPacket
  <1>2. Start(plan)[block] \in Nat
    BY PlanFacts DEF SInv
  <1>3. written = Start(plan)[block]
    BY <1>1, <1>2 DEF Behind, Clip
  <1>4. Chunk \in 1 .. LargeUnits /\ Chunk <= BlockUnits(marker)
    BY <1>1, ChunkFacts
  <1>5. ASSUME NEW i \in Image, i < written + Chunk
        PROVE  stream'[i] = File[i]
    <2>1. stream'[i] = IF i \in written .. written + Chunk - 1
                       THEN Payload(block)[i - written] ELSE stream[i]
      BY DEF AcceptPacket
    <2>2. CASE i < written
      <3>1. i \notin written .. written + Chunk - 1
        BY <1>1, <2>2 DEF Image
      <3>2. stream[i] = File[i]
        BY <1>1, <2>2 DEF SInv, Content, Received
      <3>3. QED
        BY <2>1, <3>1, <3>2
    <2>3. CASE ~(i < written)
      <3> DEFINE n == BlockUnits(plan[block])
                 c == Chunk
      <3>0. n \in Nat /\ c \in Nat /\ c <= n /\ i \in Int /\ written \in Nat /\ i < written + c
        BY <1>1, <1>4, <1>5, BlockUnitsType DEF Image, LargeUnits, SmallUnits
      <3> HIDE DEF n, c
      <3>1. /\ i \in written .. written + c - 1
            /\ i - written \in 0 .. n - 1
            /\ Start(plan)[block] + (i - written) = i
        BY <1>3, <2>3, <3>0
      <3>2. Payload(block)[i - written] = File[i]
        BY <3>1 DEF Payload, n
      <3>3. QED
        BY <2>1, <3>1, <3>2 DEF c
    <2>4. QED
      BY <2>2, <2>3
  <1>6. Content'
    BY <1>5 DEF AcceptPacket, Content, Received
  <1>7. Behind'
    BY DEF AcceptPacket, Behind, Clip
  <1>8. PagesAligned(block % BlockMod)
    BY <1>3, PlanFacts DEF SInv, PagesAligned
  <1>9. QED
    BY <1>6, <1>7, <1>8

LEMMA StubReadsPacketStep == ASSUME SInv, StubReadsPacket PROVE SInv'
  <1> DEFINE item == Head(toStub)
             no == block % BlockMod
  <1>1. /\ pc = "packet" /\ toStub # <<>>
        /\ Answers
        /\ UNCHANGED <<plan, host, block, retries, faults>>
    BY DEF StubReadsPacket, hostVars
  <1>2. host = "reply" /\ BlockUnderWay
    BY <1>1, OnTheLine DEF EndUnderWay, InPacket
  <1>3. /\ item.block = block /\ item.state \in {"whole", "damaged"}
        /\ Tail(toStub) = <<>> /\ NoAnswer /\ marker = plan[block]
    BY <1>1, <1>2, SentFacts DEF BlockUnderWay
  <1>4. /\ toStub' = <<>>
        /\ \/ RefusePacket(no, TRUE)
           \/ RefusePacket(no, FALSE)
           \/ AcceptPacket(no, Payload(block))
    BY <1>3 DEF StubReadsPacket
  <1>5. CASE AcceptPacket(no, Payload(block))
    <2>0. block \in Nat
      BY PlanFacts DEF SInv
    <2>1. no \in BlockNumbers /\ no # (block + 1) % BlockMod
      BY <2>0, NumberFacts
    <2>2. Behind
      BY <1>5, <2>1 DEF SInv, Level, AcceptPacket, Wanted
    <2>3. Content' /\ Behind' /\ PagesAligned(no)
      BY <1>1, <1>3, <1>5, <2>2, TakenContent
    <2>4. Payload(block) \in [0 .. BlockUnits(marker) - 1 -> Readable]
      BY <1>3, PlanFacts DEF SInv
    <2>5. IInv'
      BY <1>5, <2>3, <2>4, AcceptPacketStep DEF SInv
    <2>6. pc' = "program" /\ reply' = <<>> /\ marker' = marker
      BY <1>5 DEF AcceptPacket
    <2>7. NoAnswer'
      BY <1>1, <1>3, <2>6, NoAnswerKept DEF Answers
    <2>8. Turn'
      BY <1>1, <1>2, <1>3, <1>4, <2>3, <2>6, <2>7 DEF BlockAtWork, Turn
    <2>9. HostTypeOK'
      <3>1. toHost' \in Seq(Answer)
        BY <1>1, <2>5, AnswersTyped DEF SInv, IInv, HostTypeOK, Answers
      <3>2. QED
        BY <1>1, <1>4, <3>1 DEF SInv, HostTypeOK
    <2>10. QED
      BY <2>3, <2>5, <2>8, <2>9 DEF SInv
  <1>6. CASE RefusePacket(no, TRUE) \/ RefusePacket(no, FALSE)
    <2>1. KeepsPlace
      BY <1>1, <1>6 DEF RefusePacket, Cancel, Leave, KeepsPlace, Received
    <2>2. IInv' /\ TypeOK'
      <3>1. IInv'
        BY <1>6, RefusePacketStep DEF SInv
      <3>2. QED
        BY <3>1 DEF IInv
    <2>3. HostTypeOK'
      BY <1>1, <1>4, <2>1, <2>2, TypesKept DEF SInv
    <2>4. \/ pc' = "done" /\ reply' = <<"CAN", "CAN">>
          \/ pc' = "marker" /\ reply' = <<"NAK">>
          \/ pc' = "marker" /\ reply' = <<"ACK">> /\ no = Previous(expected)
      BY <1>6 DEF RefusePacket, Cancel, Leave
    <2>5. no = Previous(expected) => Level
      <3>1. block \in Nat /\ Previous(no) # no
        BY PlanFacts, NumberFacts DEF SInv
      <3>2. QED
        BY <3>1 DEF SInv, Behind
    <2>6. ~InPacket'
      BY <2>4 DEF InPacket
    <2>7. CASE pc' = "done" /\ reply' = <<"CAN", "CAN">>
      <3>1. NoAnswer'
        BY <1>1, <1>3, <2>7, NoAnswerKept DEF Answers
      <3>2. QED
        BY <1>1, <1>2, <1>4, <2>1, <2>2, <2>3, <2>6, <3>1, PlaceKept DEF BlockAnswered, Turn, SInv
    <2>8. CASE pc' = "marker" /\ reply' = <<"NAK">>
      <3>1. LastIs("NAK")'
        BY <1>1, <1>3, <2>8, AnswerSent DEF Answers
      <3>2. QED
        BY <1>1, <1>2, <1>4, <2>1, <2>2, <2>3, <2>6, <3>1, PlaceKept DEF BlockAnswered, Turn, SInv
    <2>9. CASE pc' = "marker" /\ reply' = <<"ACK">> /\ no = Previous(expected)
      <3>1. LastIs("ACK")'
        BY <1>1, <1>3, <2>9, AnswerSent DEF Answers
      <3>2. Level'
        BY <2>1, <2>5, <2>9, PlaceKept
      <3>3. QED
        BY <1>1, <1>2, <1>4, <2>1, <2>2, <2>3, <2>6, <3>1, <3>2, PlaceKept
        DEF BlockAnswered, Turn, SInv
    <2>10. QED
      BY <2>4, <2>7, <2>8, <2>9
  <1>7. QED
    BY <1>4, <1>5, <1>6

(* Nothing under way is ever cut. *)
LEMMA Starves == ASSUME HostTypeOK, StubStarves PROVE toStub = <<>>
  BY SentFacts DEF HostTypeOK, StubStarves

LEMMA StubTimesOutStep == ASSUME SInv, StubTimesOut PROVE SInv'
  <1>1. /\ toStub = <<>> /\ toStub' = <<>>
        /\ Answers /\ GiveUp
        /\ UNCHANGED <<plan, host, block, retries, faults>>
    BY Starves DEF SInv, StubTimesOut, hostVars
  <1>2. IInv' /\ TypeOK'
    <2>1. IInv'
      BY <1>1, FirstTimeoutStep, TimeoutStep DEF SInv, GiveUp
    <2>2. QED
      BY <2>1 DEF IInv
  <1>3. KeepsPlace
    BY <1>1 DEF GiveUp, FirstTimeout, Timeout, Cancel, Leave, KeepsPlace, Received
  <1>4. HostTypeOK'
    BY <1>1, <1>2, <1>3, TypesKept DEF SInv
  <1>5. CASE FirstTimeout
    <2>1. /\ pc = "first" /\ pc' \in {"first", "done"}
          /\ reply' = <<"C">> \/ (reply' = <<"CAN", "CAN">> /\ pc' = "done")
      BY <1>5 DEF FirstTimeout, Cancel, Leave
    <2>2. Turn'
      BY <1>1, <1>3, <2>1, EarlyTurn
    <2>3. QED
      BY <1>2, <1>3, <1>4, <2>2, PlaceKept DEF SInv
  <1>6. CASE Timeout
    <2>1. pc \in {"marker", "packet"} /\ pc' = "done" /\ reply' = <<>> /\ result # "ok"
      BY <1>6 DEF Timeout, Leave, SInv, IInv, PositionOK
    <2>2. toHost' = toHost
      <3>1. toHost \in Seq(Answer) /\ toHost' = toHost \o <<>>
        BY <1>1, <2>1 DEF SInv, HostTypeOK, Answers
      <3>2. QED
        BY <3>1
    <2>3. NoAnswer => NoAnswer'
      BY <1>1, <2>1, NoAnswerKept DEF Answers
    <2>4. (LastIs("NAK") => LastIs("NAK")') /\ (LastIs("ACK") => LastIs("ACK")')
      BY <2>1, <2>2, LastKept
    <2>5. ~InPacket' /\ toStub \notin SentBlocks \cup SentEnds
      BY <1>1, <2>1, SentFacts DEF InPacket
    <2>6. Turn'
      BY <1>1, <1>3, <2>1, <2>3, <2>4, <2>5, PlaceKept
      DEF SInv, Turn, Idle, BlockUnderWay, BlockAtWork, BlockAnswered, EndUnderWay, EndAnswered,
          KeepsPlace
    <2>7. QED
      BY <1>2, <1>3, <1>4, <2>6, PlaceKept DEF SInv
  <1>7. QED
    BY <1>1, <1>5, <1>6 DEF GiveUp

-----------------------------------------------------------------------------
(* Steps that leave the receiver alone. *)
LEMMA ReceiverKept ==
    ASSUME SInv, UNCHANGED vars
    PROVE  /\ IInv'
           /\ UNCHANGED <<pc, marker, result, written, expected, stream>>
           /\ Received' = Received /\ InPacket' = InPacket /\ StaleBytes' = StaleBytes
           /\ UNCHANGED <<plan, block>> => KeepsPlace
  <1>1. UNCHANGED receiverVars /\ gone' \in BOOLEAN
    BY DEF vars, SInv, IInv, TypeOK
  <1>2. IInv'
    BY <1>1, StutterStep DEF SInv
  <1>3. QED
    BY <1>1, <1>2 DEF receiverVars, Received, InPacket, StaleBytes, KeepsPlace

(* The command loop drops the packet that comes after the transfer. *)
LEMMA MainLoopSkipsStep == ASSUME SInv, MainLoopSkips PROVE SInv'
  <1>1. /\ pc = "done" /\ toStub # <<>> /\ toStub' = Tail(toStub)
        /\ UNCHANGED vars /\ toHost' = toHost
        /\ UNCHANGED <<plan, host, block, retries, faults>>
    BY DEF MainLoopSkips, hostVars
  <1>2. toStub' = <<>>
    BY <1>1, SentFacts DEF SInv, HostTypeOK
  <1>3. IInv' /\ KeepsPlace /\ pc' = pc /\ result' = result /\ ~InPacket' /\ StaleBytes' = StaleBytes
    BY <1>1, ReceiverKept DEF InPacket
  <1>4. NoAnswer => NoAnswer'
    BY <1>1, <1>3 DEF NoAnswer
  <1>5. HostTypeOK'
    BY <1>1, <1>2, <1>3 DEF SInv, HostTypeOK
  <1>6. Turn'
    BY <1>1, <1>2, <1>3, <1>4, PlaceKept
    DEF SInv, Turn, Idle, BlockUnderWay, BlockAtWork, BlockAnswered, EndUnderWay, EndAnswered
  <1>7. QED
    BY <1>3, <1>5, <1>6, PlaceKept DEF SInv

(* A byte under way to the host is read or lost. *)
LEMMA ByteTaken ==
    ASSUME toHost # <<>>, toHost' = Tail(toHost), StaleBytes' = StaleBytes, pc' = pc
    PROVE  /\ NoAnswer => Head(toHost) \in StaleBytes /\ NoAnswer'
           /\ toHost \in Seq(Answer) => toHost' \in Seq(Answer) /\ Head(toHost) \in Answer
           /\ LastIs("ACK") => \/ Head(toHost) \in StaleBytes /\ LastIs("ACK")'
                               \/ Head(toHost) = "ACK" /\ toHost' = <<>> /\ NoAnswer'
           /\ LastIs("NAK") => \/ Head(toHost) \in StaleBytes /\ LastIs("NAK")'
                               \/ Head(toHost) = "NAK" /\ toHost' = <<>> /\ NoAnswer'
  <1>1. NoAnswer => Head(toHost) \in StaleBytes /\ NoAnswer'
    BY DEF NoAnswer
  <1>2. toHost \in Seq(Answer) => toHost' \in Seq(Answer) /\ Head(toHost) \in Answer
    OBVIOUS
  <1>3. ASSUME NEW b, LastIs(b)
        PROVE  \/ Head(toHost) \in StaleBytes /\ LastIs(b)'
               \/ Head(toHost) = b /\ toHost' = <<>> /\ NoAnswer'
    <2>1. PICK s \in Seq(StaleBytes) : toHost = Append(s, b)
      BY <1>3 DEF LastIs
    <2>2. CASE s = <<>>
      <3>1. Head(toHost) = b /\ toHost' = <<>>
        BY <2>1, <2>2, AppendParts
      <3>2. NoAnswer'
        BY <3>1, NoneUnderWay
      <3>3. QED
        BY <3>1, <3>2
    <2>3. CASE s # <<>>
      <3>1. /\ Head(toHost) \in StaleBytes /\ Tail(s) \in Seq(StaleBytes)
            /\ toHost' = Append(Tail(s), b)
        BY <2>1, <2>3, AppendParts
      <3>2. QED
        BY <1>3, <3>1 DEF LastIs
    <2>4. QED
      BY <2>2, <2>3
  <1>4. QED
    BY <1>1, <1>2, <1>3

LEMMA LoseReplyStep == ASSUME SInv, LoseReply PROVE SInv'
  <1>1. /\ toHost # <<>> /\ toHost' = Tail(toHost)
        /\ UNCHANGED vars /\ toStub' = toStub
        /\ UNCHANGED <<plan, host, block, retries>>
        /\ faults' \in 0 .. MaxFaults
    BY SessionAssumption DEF LoseReply, hostVars, Fault, SInv, HostTypeOK
  <1>2. /\ IInv' /\ KeepsPlace /\ InPacket' = InPacket /\ StaleBytes' = StaleBytes
        /\ UNCHANGED <<pc, marker, result>>
    BY <1>1, ReceiverKept
  <1>3. /\ NoAnswer => NoAnswer'
        /\ LastIs("ACK") => LastIs("ACK")' \/ NoAnswer'
        /\ LastIs("NAK") => LastIs("NAK")' \/ NoAnswer'
    BY <1>1, <1>2, ByteTaken
  <1>4. HostTypeOK'
    BY <1>1, <1>2, PlaceKept, ByteTaken DEF SInv, HostTypeOK, SentEnds
  <1>5. Idle => Idle'
    BY <1>1, <1>2, <1>3 DEF Idle
  <1>6. /\ BlockUnderWay => BlockUnderWay'
        /\ BlockAtWork => BlockAtWork'
        /\ BlockAnswered => BlockAnswered'
    BY <1>1, <1>2, <1>3, PlaceKept DEF BlockUnderWay, BlockAtWork, BlockAnswered
  <1>7. EndUnderWay \/ EndAnswered => EndUnderWay' \/ EndAnswered'
    BY <1>1, <1>2, <1>3 DEF EndUnderWay, EndAnswered, SentEnds
  <1>8. Turn'
    BY <1>1, <1>2, <1>5, <1>6, <1>7, PlaceKept DEF SInv, Turn
  <1>9. QED
    BY <1>2, <1>4, <1>8, PlaceKept DEF SInv

-----------------------------------------------------------------------------
(* The steps of the host. *)

(* A line that neither cuts nor adds carries the packet, damages or loses it.*)
LEMMA Carried ==
    ASSUME StopAndWait, NEW item, Transmit(item), toStub = <<>>, faults \in 0 .. MaxFaults
    PROVE  /\ faults' \in 0 .. MaxFaults
           /\ \/ toStub' = <<>>
              \/ toStub' = <<item>>
              \/ toStub' = <<IF item.marker = "EOT" THEN Byte("junk")
                             ELSE [item EXCEPT !.state = "damaged"]>>
  <1>1. "noise" \notin Faults /\ "cut" \notin Faults
    BY DEF StopAndWait
  <1>2. faults' \in 0 .. MaxFaults
    BY SessionAssumption DEF Transmit, Fault
  <1>3. QED
    BY <1>1, <1>2 DEF Transmit, Fault

LEMMA HostSendStep == ASSUME StopAndWait, SInv, HostSend PROVE SInv'
  <1>1. /\ UNCHANGED vars /\ toHost' = toHost
        /\ UNCHANGED <<plan, block>> /\ retries' = retries + 1
    BY DEF HostSend
  <1>2. /\ IInv' /\ KeepsPlace /\ InPacket' = InPacket /\ StaleBytes' = StaleBytes
        /\ UNCHANGED <<pc, marker, result>>
    BY <1>1, ReceiverKept
  <1>3. Idle /\ retries < HostRetries /\ faults \in 0 .. MaxFaults
    BY DEF SInv, Turn, HostSend, HostTypeOK
  <1>4. retries' \in 0 .. HostRetries
    BY <1>1, <1>3, SessionAssumption DEF SInv, HostTypeOK
  <1>5. NoAnswer' /\ ~InPacket' /\ toStub = <<>>
    BY <1>1, <1>2, <1>3 DEF Idle, NoAnswer
  <1>6. CASE host = "send" /\ host' = "reply" /\ Transmit(Item(plan[block], block, "whole"))
    <2> DEFINE item == Item(plan[block], block, "whole")
    <2>1. /\ item.marker # "EOT"
          /\ [item EXCEPT !.state = "damaged"] = Item(plan[block], block, "damaged")
      BY PlanFacts DEF SInv, Item
    <2>2. faults' \in 0 .. MaxFaults /\ (toStub' = <<>> \/ toStub' \in SentBlocks)
      <3> HIDE DEF item
      <3>1. /\ faults' \in 0 .. MaxFaults
            /\ \/ toStub' = <<>>
               \/ toStub' = <<item>>
               \/ toStub' = <<IF item.marker = "EOT" THEN Byte("junk")
                              ELSE [item EXCEPT !.state = "damaged"]>>
        BY <1>3, <1>5, <1>6, Carried DEF item
      <3>2. QED
        BY <2>1, <3>1 DEF SentBlocks, item
    <2>3. HostTypeOK'
      BY <1>1, <1>2, <1>4, <1>6, <2>2, PlaceKept DEF SInv, HostTypeOK
    <2>4. BlockUnderWay' \/ BlockAnswered'
      BY <1>2, <1>5, <2>2, PlaceKept DEF BlockUnderWay, BlockAnswered, InPacket
    <2>5. Turn'
      BY <1>6, <2>4 DEF Turn
    <2>6. QED
      BY <1>2, <2>3, <2>5, PlaceKept DEF SInv
  <1>7. CASE host = "eot" /\ host' = "eotReply" /\ Transmit(Byte("EOT"))
    <2>1. Byte("EOT").marker = "EOT"
      BY DEF Byte, Item
    <2>2. /\ faults' \in 0 .. MaxFaults
          /\ toStub' \in {<<>>, <<Byte("EOT")>>, <<Byte("junk")>>}
      BY <1>3, <1>5, <1>7, <2>1, Carried
    <2>3. toStub' = <<>> \/ toStub' \in SentEnds
      BY <2>2 DEF SentEnds
    <2>4. HostTypeOK'
      BY <1>1, <1>4, <1>7, <2>2, <2>3 DEF SInv, HostTypeOK, SentEnds
    <2>5. EndUnderWay' \/ EndAnswered'
      BY <1>5, <2>3 DEF EndUnderWay, EndAnswered, SentEnds
    <2>6. AtTheEnd'
      BY <1>2, <1>7, PlaceKept DEF SInv, Turn
    <2>7. Turn'
      BY <1>7, <2>5, <2>6 DEF Turn
    <2>8. QED
      BY <1>2, <2>4, <2>7, PlaceKept DEF SInv
  <1>8. QED
    BY <1>6, <1>7 DEF HostSend

(* What was sent is sent again, or the host gives up. *)
LEMMA AgainStep ==
    ASSUME SInv, host \in {"reply", "eotReply"}, Again, toStub = <<>>, ~InPacket, toHost' = <<>>,
           UNCHANGED <<vars, plan, toStub, faults>>
    PROVE  SInv'
  <1>1. /\ UNCHANGED <<block, retries>> /\ NoAnswer' /\ toHost' \in Seq(Answer)
        /\ \/ host' = "fail"
           \/ host = "reply" /\ host' = "send" /\ retries < HostRetries
           \/ host = "eotReply" /\ host' = "eot" /\ retries < HostRetries
    <2>1. retries \in Nat /\ HostRetries \in Nat
      BY SessionAssumption DEF SInv, HostTypeOK
    <2>2. NoAnswer' /\ toHost' \in Seq(Answer)
      BY NoneUnderWay
    <2>3. QED
      BY <2>1, <2>2 DEF Again
  <1>2. /\ IInv' /\ KeepsPlace /\ InPacket' = InPacket /\ StaleBytes' = StaleBytes
        /\ UNCHANGED <<pc, marker, result>>
    BY <1>1, ReceiverKept
  <1>3. HostTypeOK'
    BY <1>1 DEF SInv, HostTypeOK
  <1>4. host = "eotReply" => AtTheEnd'
    BY <1>2, PlaceKept DEF SInv, Turn
  <1>5. Idle'
    BY <1>1, <1>2 DEF Idle
  <1>6. Turn'
    BY <1>1, <1>2, <1>4, <1>5 DEF Turn
  <1>7. QED
    BY <1>2, <1>3, <1>6, PlaceKept DEF SInv

(* The next block begins where the acknowledged one ended. *)
LEMMA NextBlockBehind ==
    ASSUME SInv, Level, block < Len(plan), UNCHANGED <<vars, plan>>, block' = block + 1
    PROVE  Behind'
  <1>1. /\ plan \in Plans /\ block \in Nat /\ Len(plan) \in Nat
        /\ block + 1 \in 2 .. Len(plan) /\ (block + 1) - 1 = block
    BY PlanFacts DEF SInv, HostTypeOK
  <1>2. Start(plan)[block + 1] = EndOf(block)
    BY <1>1, StartFacts DEF EndOf
  <1>3. QED
    BY <1>2 DEF Level, Behind, Clip, vars, receiverVars

(* An acknowledged block is followed by the next one, or by EOT. *)
LEMMA AcknowledgedStep ==
    ASSUME SInv, Acknowledged, toStub = <<>>, ~InPacket, toHost' = <<>>,
           host = "reply" => Level,
           host = "eotReply" => result = "ok",
           UNCHANGED <<vars, plan, toStub, faults>>
    PROVE  SInv'
  <1>1. NoAnswer' /\ toHost' \in Seq(Answer)
    BY NoneUnderWay
  <1>2. /\ IInv' /\ InPacket' = InPacket
        /\ UNCHANGED <<pc, marker, result, stream>> /\ Received' = Received
        /\ UNCHANGED block => KeepsPlace
    BY ReceiverKept
  <1>3. Idle' /\ HostRetries \in Nat \ {0}
    BY <1>1, <1>2, SessionAssumption DEF Idle
  <1>4. CASE host = "reply" /\ block < Len(plan) /\ host' = "send" /\ block' = block + 1 /\ retries' = 0
    <2>1. Behind'
      BY <1>4, NextBlockBehind
    <2>2. block' \in 1 .. Len(plan)
      BY <1>4, PlanFacts DEF SInv
    <2>3. HostTypeOK'
      BY <1>1, <1>3, <1>4, <2>2 DEF SInv, HostTypeOK
    <2>4. Turn'
      BY <1>3, <1>4 DEF Turn
    <2>5. Content'
      BY <1>2 DEF SInv, Content
    <2>6. QED
      BY <1>2, <2>1, <2>3, <2>4, <2>5 DEF SInv
  <1>5. CASE host = "reply" /\ block = Len(plan) /\ host' = "eot" /\ retries' = 0 /\ UNCHANGED block
    <2>1. HostTypeOK'
      BY <1>1, <1>3, <1>5 DEF SInv, HostTypeOK
    <2>2. AtTheEnd'
      BY <1>2, <1>5, PlaceKept DEF AtTheEnd
    <2>3. Turn'
      BY <1>3, <1>5, <2>2 DEF Turn
    <2>4. QED
      BY <1>2, <1>5, <2>1, <2>3, PlaceKept DEF SInv
  <1>6. CASE host = "eotReply" /\ host' = "ok" /\ UNCHANGED <<block, retries>>
    <2>1. HostTypeOK'
      BY <1>1, <1>6 DEF SInv, HostTypeOK
    <2>2. Turn'
      BY <1>2, <1>6 DEF Turn
    <2>3. QED
      BY <1>2, <1>6, <2>1, <2>2, PlaceKept DEF SInv
  <1>7. QED
    BY <1>4, <1>5, <1>6 DEF Acknowledged

LEMMA HostReadsStep == ASSUME SInv, HostReads PROVE SInv'
  <1> DEFINE b == Head(toHost)
  <1>1. /\ toHost # <<>> /\ toHost' = Tail(toHost)
        /\ host \in {"wait", "reply", "eotReply"}
        /\ UNCHANGED <<vars, plan, toStub, faults>>
    BY DEF HostReads
  <1>2. /\ IInv' /\ InPacket' = InPacket /\ StaleBytes' = StaleBytes
        /\ UNCHANGED <<pc, marker, result>>
        /\ UNCHANGED block => KeepsPlace
    BY <1>1, ReceiverKept
  <1>3. \/ b = "CAN" /\ host' = "fail" /\ UNCHANGED <<block, retries>>
        \/ b = "C" /\ host = "wait" /\ host' = "send" /\ UNCHANGED <<block, retries>>
        \/ b = "ACK" /\ host # "wait" /\ Acknowledged
        \/ b = "NAK" /\ host # "wait" /\ Again
        \/ UNCHANGED <<host, block, retries>> /\ (host = "wait" \/ b \notin {"ACK", "NAK", "CAN"})
    BY DEF HostReads
  <1>4. toHost' \in Seq(Answer)
    BY <1>1, <1>2, ByteTaken DEF SInv, HostTypeOK
  <1>5. StaleBytes \subseteq {"C", "CAN"} /\ ("CAN" \in StaleBytes => pc = "done")
    BY DEF StaleBytes
  <1>7. NoAnswer => b \in StaleBytes /\ NoAnswer'
    BY <1>1, <1>2, ByteTaken
  <1>8. CASE b = "ACK"
    <2>1. ~NoAnswer /\ b \notin StaleBytes /\ b # "NAK"
      BY <1>5, <1>7, <1>8
    <2>2. /\ host \in {"reply", "eotReply"}
          /\ toStub = <<>> /\ ~InPacket
          /\ LastIs("ACK") \/ LastIs("NAK")
          /\ host = "reply" /\ LastIs("ACK") /\ ~LastIs("NAK") => Level
          /\ host = "eotReply" /\ LastIs("ACK") /\ ~LastIs("NAK") => result = "ok"
      BY <1>1, <2>1 DEF SInv, Turn, Idle, BlockUnderWay, BlockAtWork, BlockAnswered,
                        EndUnderWay, EndAnswered
    <2>3. ~LastIs("NAK") /\ toHost' = <<>>
      BY <1>1, <1>2, <2>1, <2>2, ByteTaken
    <2>4. Acknowledged
      BY <1>3, <1>8, <2>2 DEF Acknowledged
    <2>5. QED
      BY <1>1, <2>2, <2>3, <2>4, AcknowledgedStep
  <1>9. CASE b = "NAK"
    <2>1. ~NoAnswer /\ b \notin StaleBytes /\ b # "ACK"
      BY <1>5, <1>7, <1>9
    <2>2. /\ host \in {"reply", "eotReply"}
          /\ toStub = <<>> /\ ~InPacket
          /\ LastIs("ACK") \/ LastIs("NAK")
      BY <1>1, <2>1 DEF SInv, Turn, Idle, BlockUnderWay, BlockAtWork, BlockAnswered,
                        EndUnderWay, EndAnswered
    <2>3. toHost' = <<>>
      BY <1>1, <1>2, <2>1, <2>2, ByteTaken
    <2>4. Again
      BY <1>3, <1>9, <2>2
    <2>5. QED
      BY <1>1, <2>2, <2>3, <2>4, AgainStep
  <1>10. CASE b \notin {"ACK", "NAK"}
    <2>1. /\ UNCHANGED <<block, retries>> /\ KeepsPlace
          /\ \/ b = "CAN" /\ host' = "fail"
             \/ host = "wait" /\ host' = "send"
             \/ host' = host
      BY <1>2, <1>3, <1>10
    <2>2. HostTypeOK'
      BY <1>1, <1>4, <2>1, PlaceKept DEF SInv, HostTypeOK, SentEnds
    <2>3. /\ LastIs("ACK") => LastIs("ACK")'
          /\ LastIs("NAK") => LastIs("NAK")'
          /\ LastIs("ACK") \/ LastIs("NAK") => b \in StaleBytes
      BY <1>1, <1>2, <1>10, ByteTaken
    <2>4. CASE b = "CAN" /\ host' = "fail"
      <3>1. pc = "done"
        BY <1>1, <1>5, <1>7, <2>3, <2>4 DEF SInv, Turn, Idle, BlockUnderWay, BlockAtWork,
           BlockAnswered, EndUnderWay, EndAnswered
      <3>2. Turn'
        BY <1>2, <2>4, <3>1 DEF Turn
      <3>3. QED
        BY <1>2, <2>1, <2>2, <3>2, PlaceKept DEF SInv
    <2>5. CASE host = "wait" /\ host' = "send"
      <3>1. Idle' /\ retries' < HostRetries
        BY <1>1, <1>2, <1>7, <2>1, <2>5, SessionAssumption DEF SInv, Turn, Idle
      <3>2. Turn'
        BY <2>5, <3>1 DEF Turn
      <3>3. QED
        BY <1>2, <2>1, <2>2, <3>2, PlaceKept DEF SInv
    <2>6. CASE host' = host
      <3>1. Idle => Idle'
        BY <1>1, <1>2, <1>7 DEF Idle
      <3>2. /\ BlockUnderWay => BlockUnderWay'
            /\ BlockAtWork => BlockAtWork'
            /\ BlockAnswered => BlockAnswered'
        BY <1>1, <1>2, <1>7, <2>1, <2>3, PlaceKept DEF BlockUnderWay, BlockAtWork, BlockAnswered
      <3>3. EndUnderWay \/ EndAnswered => EndUnderWay' \/ EndAnswered'
        BY <1>1, <1>2, <1>7, <2>3 DEF EndUnderWay, EndAnswered, SentEnds
      <3>4. Turn'
        BY <1>1, <1>2, <2>1, <2>6, <3>1, <3>2, <3>3, PlaceKept DEF SInv, Turn, KeepsPlace
      <3>5. QED
        BY <1>2, <2>1, <2>2, <3>4, PlaceKept DEF SInv
    <2>7. QED
      BY <2>1, <2>4, <2>5, <2>6
  <1>11. QED
    BY <1>8, <1>9, <1>10

LEMMA HostTimesOutStep == ASSUME StopAndWait, SInv, HostTimesOut PROVE SInv'
  <1>1. toHost = <<>> /\ UNCHANGED <<vars, plan, toStub, toHost, faults>>
    BY DEF HostTimesOut
  <1>2. CASE host \in {"reply", "eotReply"} /\ NothingComing /\ Again
    <2>1. toStub = <<>> /\ pc # "program"
      BY <1>2, Starves DEF SInv, NothingComing
    <2>2. ~InPacket
      <3>1. toStub \notin SentBlocks \cup SentEnds
        BY <2>1, SentFacts
      <3>2. QED
        BY <1>2, <2>1, <3>1
        DEF SInv, Turn, BlockUnderWay, BlockAtWork, BlockAnswered, EndUnderWay, EndAnswered
    <2>3. QED
      BY <1>1, <1>2, <2>1, <2>2, AgainStep
  <1>3. CASE host = "wait" /\ pc = "done" /\ host' = "fail" /\ UNCHANGED <<block, retries>>
    <2>1. IInv' /\ KeepsPlace /\ pc' = "done"
      BY <1>1, <1>3, ReceiverKept
    <2>2. HostTypeOK' /\ Turn'
      BY <1>1, <1>3, <2>1, PlaceKept DEF SInv, HostTypeOK, Turn, SentEnds
    <2>3. QED
      BY <2>1, <2>2, PlaceKept DEF SInv
  <1>4. QED
    BY <1>2, <1>3 DEF HostTimesOut, StopAndWait

LEMMA StepSInv == ASSUME StopAndWait, SInv, [SessionNext]_sessionVars PROVE SInv'
  <1>1. CASE UNCHANGED sessionVars
    <2>1. /\ UNCHANGED <<vars, plan, host, block, retries, toStub, toHost, faults>>
      BY <1>1 DEF sessionVars, hostVars, lineVars
    <2>2. /\ IInv' /\ KeepsPlace /\ InPacket' = InPacket /\ StaleBytes' = StaleBytes
          /\ UNCHANGED <<pc, marker, result>>
      BY <2>1, ReceiverKept
    <2>3. HostTypeOK'
      BY <2>1, <2>2, PlaceKept DEF SInv, HostTypeOK, SentEnds
    <2>4. /\ NoAnswer => NoAnswer'
          /\ LastIs("ACK") => LastIs("ACK")'
          /\ LastIs("NAK") => LastIs("NAK")'
      BY <2>1, <2>2 DEF NoAnswer, LastIs
    <2>5. Idle => Idle'
      BY <2>1, <2>2, <2>4 DEF Idle
    <2>6. /\ BlockUnderWay => BlockUnderWay'
          /\ BlockAtWork => BlockAtWork'
          /\ BlockAnswered => BlockAnswered'
      BY <2>1, <2>2, <2>4, PlaceKept DEF BlockUnderWay, BlockAtWork, BlockAnswered
    <2>7. EndUnderWay \/ EndAnswered => EndUnderWay' \/ EndAnswered'
      BY <2>1, <2>2, <2>4 DEF EndUnderWay, EndAnswered, SentEnds
    <2>8. Turn'
      BY <2>1, <2>2, <2>5, <2>6, <2>7, PlaceKept DEF SInv, Turn
    <2>9. QED
      BY <2>2, <2>3, <2>8, PlaceKept DEF SInv
  <1>2. CASE StubStep \/ StubTimesOut
    BY <1>2, StubWorksStep, StubReadsMarkerStep, StubReadsPacketStep, MainLoopSkipsStep,
       StubTimesOutStep DEF StubStep
  <1>3. CASE HostStep \/ HostTimesOut \/ LoseReply
    BY <1>3, HostSendStep, HostReadsStep, HostTimesOutStep, LoseReplyStep DEF HostStep
  <1>4. QED
    BY <1>1, <1>2, <1>3 DEF SessionNext

-----------------------------------------------------------------------------
(* The turns of the protocol, for every file, plan and number of faults: at*)
(* most one packet or one answer is under way, and the stub's block number *)
(* and position are those of the host's block or of the one after it.      *)
THEOREM SessionInvariant == ASSUME StopAndWait PROVE SessionSpec => []SInv
  <1>1. SInv /\ [SessionNext]_sessionVars => SInv'
    BY StepSInv
  <1>2. QED
    BY <1>1, InitSInv, PTL DEF SessionSpec

(* Every variable of the stub, the host and the line keeps its type. *)
THEOREM SessionTypeCorrect == ASSUME StopAndWait PROVE SessionSpec => []SessionTypeOK
  <1>1. ASSUME SInv PROVE SessionTypeOK
    <2>1. TypeOK /\ HostTypeOK
      BY <1>1 DEF SInv, IInv
    <2>2. \A i \in DOMAIN toHost : toHost[i] \in {"C", "ACK", "NAK", "CAN"}
      BY <2>1 DEF HostTypeOK, Answer
    <2>3. ASSUME NEW i \in DOMAIN toStub
          PROVE  /\ toStub[i].marker \in Markers
                 /\ toStub[i].block \in 0 .. Len(plan)
                 /\ toStub[i].state \in {"whole", "damaged", "cut"}
      <3>1. /\ plan[block] \in {"SOH", "STX"} /\ block \in 0 .. Len(plan) /\ 0 \in 0 .. Len(plan)
        BY <2>1, PlanFacts
      <3>2. ASSUME NEW state \in {"whole", "damaged"}, toStub = <<Item(plan[block], block, state)>>
            PROVE  toStub[i] = Item(plan[block], block, state)
        BY <3>2
      <3>3. ASSUME NEW m \in {"EOT", "junk"}, toStub = <<Byte(m)>>
            PROVE  toStub[i] = Byte(m)
        BY <3>3
      <3>4. toStub # <<>>
        OBVIOUS
      <3>5. QED
        BY <2>1, <3>1, <3>2, <3>3, <3>4
        DEF HostTypeOK, SentBlocks, SentEnds, Byte, Item, Markers
    <2>4. QED
      BY <2>1, <2>2, <2>3 DEF SessionTypeOK, HostTypeOK
  <1>2. QED
    BY <1>1, SessionInvariant, PTL

LEMMA CommittedIsFile ==
    ASSUME SInv, NEW i \in Image, i < written
    PROVE  flash[Off + i] = File[i]
  <1>1. /\ written \in 0 .. Length /\ pageOff \in 0 .. LargeUnits /\ chunk \in 0 .. LargeUnits
        /\ i \in Int /\ Length \in Nat
    BY XmodemReceiveAssumption DEF SInv, IInv, TypeOK, Image
  <1>2. i < Programmed /\ i < Received
    BY <1>1 DEF Programmed, Received, LargeUnits
  <1>3. QED
    BY <1>2 DEF SInv, IInv, ImageIntact, Content

(* Whatever the line lost or damaged, and however often the host sent a    *)
(* block again, what is committed is a prefix of the host's file.          *)
THEOREM FlashIsFilePrefix == ASSUME StopAndWait PROVE SessionSpec => []FlashHoldsFilePrefix
  <1>1. ASSUME SInv, NEW i \in 0 .. written - 1 PROVE flash[Off + i] = File[i]
    <2>1. i \in Image /\ i < written
      BY <1>1, XmodemReceiveAssumption DEF SInv, IInv, TypeOK, Image
    <2>2. QED
      BY <1>1, <2>1, CommittedIsFile
  <1>2. SInv => FlashHoldsFilePrefix
    BY <1>1 DEF FlashHoldsFilePrefix
  <1>3. QED
    BY <1>2, SessionInvariant, PTL

(* A host that was told of success has its whole file in the flash. *)
THEOREM SuccessIsReal == ASSUME StopAndWait PROVE SessionSpec => []HostSuccessIsReal
  <1>1. ASSUME SInv, host = "ok" PROVE result = "ok" /\ \A i \in Image : flash[Off + i] = File[i]
    <2>1. result = "ok"
      BY <1>1 DEF SInv, Turn
    <2>2. written = Length
      BY <1>1, <2>1 DEF SInv, IInv, PositionOK
    <2>3. \A i \in Image : i < written
      BY <2>2, XmodemReceiveAssumption DEF Image
    <2>4. QED
      BY <1>1, <2>1, <2>3, CommittedIsFile
  <1>2. SInv => HostSuccessIsReal
    BY <1>1 DEF HostSuccessIsReal
  <1>3. QED
    BY <1>2, SessionInvariant, PTL
=============================================================================
