------------------------ MODULE StreamReceiveProofs ------------------------
(***************************************************************************)
(* Proofs about StreamReceive inside its session, for every chip, range,   *)
(* file, stream, dictionary size, block modulus and line.  The receiver is *)
(* seen through ReceiverStep, what any session may make it do; RInv is its *)
(* inductive invariant.                                                    *)
(***************************************************************************)
EXTENDS StreamWriteSession, NumberProofs

(* The chip operations of NorFlash, for every size of chip and content.    *)

(* Programming keeps a cell a cell, and 0xFF leaves a cell alone. *)
LEMMA MergeFacts ==
    ASSUME NEW old \in Cell, NEW new \in Cell
    PROVE  /\ Merge(old, new) \in Cell
           /\ Merge(old, Blank) = old
           /\ old = Blank => Merge(old, new) = new
  BY DEF Merge, Cell, Readable

LEMMA AddrsAreIntegers == Addrs \subseteq Nat
  BY NorFlashAssumption DEF Addrs

LEMMA ProgramType ==
    ASSUME NEW f \in [Addrs -> Cell], NEW a \in Int,
           NEW slots \in [PageSlots -> Cell]
    PROVE  ProgramPage(f, a, slots) \in [Addrs -> Cell]
  <1>1. ASSUME NEW u \in Addrs
        PROVE  Merge(f[u], slots[(u - a) % PageUnits]) \in Cell
    <2>1. u \in Int
      BY AddrsAreIntegers
    <2>2. (u - a) % PageUnits \in PageSlots
      BY <2>1 DEF PageUnits, PageSlots
    <2>3. QED
      BY <2>2, MergeFacts
  <1>2. QED
    BY <1>1 DEF ProgramPage

(* A page program at the address of a page changes that page only, and its *)
(* erased units take what the buffer holds.                                *)
LEMMA AlignedProgram ==
    ASSUME NEW f \in [Addrs -> Cell], NEW a \in Nat, a % PageUnits = 0,
           NEW slots \in [PageSlots -> Cell], NEW u \in Addrs
    PROVE  ProgramPage(f, a, slots)[u] =
             IF u \in a .. a + PageUnits - 1 THEN Merge(f[u], slots[u - a]) ELSE f[u]
  <1>1. u \in Int
    BY AddrsAreIntegers
  <1>2. u \div PageUnits = a \div PageUnits <=> u \in a .. a + PageUnits - 1
    BY <1>1 DEF PageUnits
  <1>3. u \in a .. a + PageUnits - 1 => (u - a) % PageUnits = u - a
    BY <1>1 DEF PageUnits
  <1>4. QED
    BY <1>2, <1>3 DEF ProgramPage

-----------------------------------------------------------------------------
(* The inductive invariant. *)

(* Where the code is tells how the transfer stands. *)
PhaseOK ==
    /\ result = "busy" <=> pc # "done"
    /\ pc \in {"flush", "finish"} \/ result = "ok" => written = Length
    /\ pc = "finish" \/ result = "ok" => page = <<>>
    /\ pc # "put" => out = <<>>
    /\ rx.pendingAck \/ pc \in {"marker", "packet"} => rx.started
    /\ pc = "inflate" => input # <<>>
    /\ pc \in {"fetch", "first", "marker", "packet", "inflate"} => ~StreamDone

(* The page begins at a page of the chip, and what is still to be put fits.*)
PlaceOK ==
    /\ Len(page) <= written
    /\ pc \notin {"finish", "done"} => Committed % PageUnits = 0
    /\ Len(out) <= Length - written

(* Where the next unit of the image goes, and whether its sector is ready. *)
Here == off + Committed
SectorOpen == page # <<>> \/ (off + written) % SectorUnits # 0

(* The sectors from the first erased one on are blank behind the image, the*)
(* others are as they were.                                                *)
FirstSector(u) == off % SectorUnits # 0 /\ u \div SectorUnits = off \div SectorUnits
Ahead ==
    pc \notin {"finish", "done"} =>
        \A u \in Addrs : u >= Here =>
            flash[u] = IF SectorOpen /\ u \div SectorUnits = Here \div SectorUnits
                          /\ ~FirstSector(u)
                       THEN Blank ELSE before[u]

(* What is in the chip, the page and the output buffer are contents of the *)
(* file; they are the file as long as the stream came in order.            *)
FileHeld ==
    /\ \A i \in 0 .. Committed - 1 : Clean(i) => flash[off + i] \in Readable
    /\ tinfl.intact =>
          /\ ImageIntact
          /\ \A j \in 1 .. Len(page) : page[j] = File[Committed + j - 1]
          /\ \A j \in 1 .. Len(out) : out[j] = File[written + j - 1]

Inflaters == [seen : Nat, owed : Nat, dict : Nat, intact : BOOLEAN]

RInv ==
    /\ TypeOK /\ tinfl \in Inflaters
    /\ PhaseOK /\ PlaceOK /\ Ahead /\ FileHeld /\ OnlyImageChanges

(* Whatever a session makes the receiver do. *)
ReceiverStep ==
    \/ Work \/ GiveUp
    \/ \E m \in Markers : ReadMarker(m) \/ Finish(m)
    \/ \E no \in BlockNumbers :
          \/ \E intact \in BOOLEAN : RefusePacket(no, intact)
          \/ \E pieces \in Seq(Nat) \ {<<>>} : AcceptPacket(no, pieces)
    \/ UNCHANGED streamVars

-----------------------------------------------------------------------------
(* Facts about the constants and the positions. *)

LEMMA ConstantFacts ==
    /\ Length \in Nat \ {0} /\ DictUnits \in Nat \ {0}
    /\ BlockMod \in Nat \ {0} /\ StartTries \in Nat \ {0}
  BY StreamAssumption

LEMMA StartFacts ==
    ASSUME TypeOK
    PROVE  /\ off \in Nat /\ off \in Addrs /\ before \in [Addrs -> Cell]
           /\ off % PageUnits = 0 /\ off + Length <= FlashUnits
           /\ Length \in Nat \ {0} /\ FlashUnits \in Nat
           /\ \A i \in 0 .. Length - 1 : off + i \in Addrs
  <1>1. [off |-> off, before |-> before] \in Starts
    BY DEF TypeOK
  <1>2. /\ [off |-> off, before |-> before].off = off
        /\ [off |-> off, before |-> before].before = before
    OBVIOUS
  <1>3. /\ off \in Addrs /\ before \in [Addrs -> Cell]
        /\ off % PageUnits = 0 /\ off + Length <= FlashUnits
    BY <1>1, <1>2, StreamAssumption
  <1>4. Length \in Nat \ {0} /\ FlashUnits \in Nat /\ off \in Nat
    BY <1>3, StreamAssumption, NorFlashAssumption, AddrsAreIntegers
  <1>5. QED
    BY <1>3, <1>4 DEF Addrs

LEMMA PlaceFacts ==
    ASSUME TypeOK, PlaceOK
    PROVE  /\ written \in Nat /\ written <= Length
           /\ Len(page) \in Nat /\ Len(page) < PageUnits
           /\ Committed \in Nat /\ Committed <= Length
           /\ Here \in Nat /\ PageStart = Here
           /\ Here = off + Committed /\ Committed = written - Len(page)
           /\ Len(out) \in Nat /\ written + Len(out) <= Length
  <1>1. /\ written \in 0 .. Length /\ page \in Seq(Readable) /\ Len(page) < PageUnits
        /\ out \in Seq(Readable) /\ Length \in Nat /\ off \in Nat
    BY StartFacts DEF TypeOK
  <1>2. Len(page) \in Nat /\ Len(out) \in Nat
    BY <1>1
  <1>3. Committed = written - Len(page) /\ Here = off + Committed /\ PageStart = Here
    BY <1>1, <1>2 DEF Committed, Here, PageStart
  <1>4. Len(page) <= written /\ Len(out) <= Length - written
    BY DEF PlaceOK
  <1>5. Len(page) \in Nat /\ Len(page) < PageUnits /\ written \in Nat /\ written <= Length
    <2>1. PageUnits \in Nat
      BY DEF PageUnits
    <2>2. QED
      BY <1>1, <1>2, <2>1
  <1>6. Committed \in Nat /\ Committed <= Length /\ Here \in Nat
    BY <1>1, <1>2, <1>3, <1>4, <1>5
  <1>7. written + Len(out) <= Length
    BY <1>1, <1>2, <1>4, <1>5
  <1>8. QED
    BY <1>2, <1>3, <1>5, <1>6, <1>7

LEMMA InitRInv == InitStream => RInv
  <1> SUFFICES ASSUME InitStream PROVE RInv
    OBVIOUS
  <1>1. PICK s \in Starts : off = s.off /\ before = s.before
    BY DEF InitStream
  <1>2. TypeOK
    <2>1. [off |-> off, before |-> before] \in Starts /\ before \in [Addrs -> Cell]
      <3>1. s \in [off : Addrs, before : [Addrs -> Cell]]
        BY StreamAssumption
      <3>2. s = [off |-> s.off, before |-> s.before]
        BY <3>1
      <3>3. QED
        BY <1>1, <3>1, <3>2
    <2>2. /\ stream \in Streams /\ stream.yields \in Seq(Nat) /\ Len(stream.yields) \in Nat
      BY StreamAssumption DEF InitStream
    <2>3. /\ {Length, DictUnits, BlockMod, StartTries} \subseteq Nat \ {0}
          /\ rx \in [expected : BlockNumbers, pendingAck : BOOLEAN, started : BOOLEAN]
      BY StreamAssumption DEF InitStream, BlockNumbers
    <2>4. QED
      BY <2>1, <2>2, <2>3 DEF InitStream, TypeOK, Markers, PageUnits
  <1>3. /\ written = 0 /\ page = <<>> /\ out = <<>> /\ tinfl \in Inflaters
        /\ flash = before /\ Len(page) = 0 /\ Len(out) = 0
    BY DEF InitStream, Inflaters
  <1>4. /\ Committed = 0 /\ Here = off /\ off \in Nat /\ Length \in Nat
        /\ off % PageUnits = 0
    <2>1. off \in Nat /\ Length \in Nat /\ off % PageUnits = 0
      BY <1>2, StartFacts
    <2>2. Committed = 0
      <3>1. written = 0 /\ Len(page) = 0
        BY <1>3
      <3>2. QED
        BY <3>1 DEF Committed
    <2>3. QED
      BY <2>1, <2>2 DEF Here
  <1>5. PhaseOK
    BY StreamAssumption DEF InitStream, PhaseOK, StreamDone
  <1>6. PlaceOK
    BY <1>3, <1>4 DEF PlaceOK, PageUnits
  <1>7. Ahead
    BY <1>3, <1>4 DEF Ahead, SectorOpen, FirstSector
  <1>8. FileHeld /\ OnlyImageChanges
    BY <1>3, <1>4 DEF FileHeld, ImageIntact, OnlyImageChanges
  <1>9. QED
    BY <1>2, <1>3, <1>5, <1>6, <1>7, <1>8 DEF RInv

-----------------------------------------------------------------------------
(* The steps that leave the chip, the page and the inflater alone. *)
LEMMA QuietStep ==
    ASSUME RInv, TypeOK', PhaseOK',
           UNCHANGED <<commandVars, flashVars, tinfl, out>>,
           pc \in {"finish", "done"} => pc' \in {"finish", "done"}
    PROVE  RInv'
  <1>1. /\ off' = off /\ before' = before /\ flash' = flash /\ written' = written
        /\ page' = page /\ tinfl' = tinfl /\ out' = out
    BY DEF commandVars, flashVars
  <1>2. Committed' = Committed /\ Here' = Here /\ SectorOpen' = SectorOpen
    BY <1>1 DEF Committed, Here, SectorOpen
  <1>3. PlaceOK'
    BY <1>1, <1>2 DEF RInv, PlaceOK
  <1>4. Ahead'
    BY <1>1, <1>2 DEF RInv, Ahead, FirstSector
  <1>5. FileHeld' /\ OnlyImageChanges' /\ tinfl' \in Inflaters
    BY <1>1, <1>2 DEF RInv, FileHeld, ImageIntact, Clean, OnlyImageChanges
  <1>6. QED
    BY <1>3, <1>4, <1>5 DEF RInv

LEMMA FetchStep == ASSUME RInv, Fetch PROVE RInv'
  <1>1. TypeOK'
    <2>1. /\ <<"ACK">> \o <<>> = <<"ACK">> /\ <<>> \o <<"C">> = <<"C">>
          /\ <<>> \o <<>> = <<>>
      OBVIOUS
    <2>2. reply' \in {<<>>, <<"C">>, <<"ACK">>}
      BY <2>1, Zenon DEF RInv, PhaseOK, Fetch
    <2>3. tries' \in 0 .. StartTries
      BY ConstantFacts DEF RInv, TypeOK, Fetch
    <2>4. rx' \in [expected : BlockNumbers, pendingAck : BOOLEAN, started : BOOLEAN]
      BY DEF RInv, TypeOK, Fetch
    <2>5. QED
      BY <2>2, <2>3, <2>4 DEF RInv, TypeOK, Fetch, commandVars, flashVars, inflateVars
  <1>2. PhaseOK'
    BY DEF RInv, PhaseOK, StreamDone, Fetch, commandVars, flashVars, inflateVars
  <1>3. QED
    BY <1>1, <1>2, QuietStep DEF Fetch, inflateVars

LEMMA FirstTimeoutStep == ASSUME RInv, FirstTimeout PROVE RInv'
  <1>1. TypeOK'
    BY SMTT(30), ConstantFacts
    DEF RInv, TypeOK, FirstTimeout, Cancel, commandVars, flashVars, inflateVars
  <1>2. PhaseOK'
    BY DEF RInv, PhaseOK, StreamDone, FirstTimeout, Cancel, commandVars, flashVars, inflateVars
  <1>3. QED
    BY <1>1, <1>2, QuietStep DEF FirstTimeout, inflateVars

LEMMA ReadMarkerStep == ASSUME RInv, NEW m \in Markers, ReadMarker(m) PROVE RInv'
  <1>1. TypeOK'
    BY DEF RInv, TypeOK, ReadMarker, Cancel, commandVars, flashVars, inflateVars
  <1>2. PhaseOK'
    BY DEF RInv, TypeOK, PhaseOK, StreamDone, ReadMarker, Cancel, commandVars, flashVars, inflateVars
  <1>3. QED
    BY <1>1, <1>2, QuietStep DEF ReadMarker, inflateVars

LEMMA TimeoutStep == ASSUME RInv, Timeout PROVE RInv'
  <1>1. TypeOK'
    BY DEF RInv, TypeOK, Timeout, Cancel, commandVars, flashVars, inflateVars
  <1>2. PhaseOK'
    BY DEF RInv, PhaseOK, StreamDone, Timeout, Cancel, commandVars, flashVars, inflateVars
  <1>3. QED
    BY <1>1, <1>2, QuietStep DEF Timeout, inflateVars

LEMMA RefusePacketStep ==
    ASSUME RInv, NEW no, NEW intact, RefusePacket(no, intact) PROVE RInv'
  <1>1. TypeOK'
    BY DEF RInv, TypeOK, RefusePacket, Cancel, commandVars, flashVars, inflateVars
  <1>2. PhaseOK'
    BY DEF RInv, PhaseOK, StreamDone, RefusePacket, Cancel, commandVars, flashVars, inflateVars
  <1>3. QED
    BY <1>1, <1>2, QuietStep DEF RefusePacket, inflateVars

LEMMA AcceptPacketStep ==
    ASSUME RInv, NEW no, NEW pieces \in Seq(Nat) \ {<<>>}, AcceptPacket(no, pieces)
    PROVE  RInv'
  <1>1. rx'.expected \in BlockNumbers
    <2>1. rx.expected + 1 \in Int
      BY ConstantFacts DEF RInv, TypeOK, BlockNumbers
    <2>2. (rx.expected + 1) % BlockMod \in BlockNumbers
      BY <2>1, ConstantFacts, ModRange DEF BlockNumbers
    <2>3. QED
      BY <2>2 DEF RInv, TypeOK, AcceptPacket
  <1>2. TypeOK'
    BY <1>1 DEF RInv, TypeOK, AcceptPacket, commandVars, flashVars
  <1>3. PhaseOK'
    BY DEF RInv, TypeOK, PhaseOK, StreamDone, AcceptPacket, commandVars, flashVars
  <1>4. QED
    BY <1>2, <1>3, QuietStep DEF AcceptPacket

LEMMA NextCallStep == ASSUME RInv, NextCall PROVE RInv'
  <1>1. TypeOK'
    BY DEF RInv, TypeOK, NextCall, Cancel, commandVars, flashVars, inflateVars
  <1>2. PhaseOK'
    BY DEF RInv, PhaseOK, StreamDone, LengthReached, NextCall, Cancel, commandVars, flashVars, inflateVars
  <1>3. QED
    BY <1>1, <1>2, QuietStep DEF NextCall, inflateVars

LEMMA FinishStep == ASSUME RInv, NEW m \in Markers, Finish(m) PROVE RInv'
  <1>1. TypeOK'
    BY DEF RInv, TypeOK, Finish, Cancel, commandVars, flashVars, inflateVars
  <1>2. PhaseOK'
    BY DEF RInv, PhaseOK, StreamDone, Finish, Cancel, commandVars, flashVars, inflateVars
  <1>3. QED
    BY <1>1, <1>2, QuietStep DEF Finish, Cancel, inflateVars

LEMMA FinishTimeoutStep == ASSUME RInv, FinishTimeout PROVE RInv'
  <1>1. TypeOK'
    BY DEF RInv, TypeOK, FinishTimeout, Cancel, commandVars, flashVars, inflateVars
  <1>2. PhaseOK'
    BY DEF RInv, PhaseOK, StreamDone, FinishTimeout, Cancel, commandVars, flashVars, inflateVars
  <1>3. QED
    BY <1>1, <1>2, QuietStep DEF FinishTimeout, Cancel, inflateVars

LEMMA IdleStep == ASSUME RInv, UNCHANGED streamVars PROVE RInv'
  <1>1. TypeOK' /\ PhaseOK'
    BY DEF RInv, TypeOK, PhaseOK, StreamDone, streamVars, commandVars, flashVars, inflateVars
  <1>2. QED
    BY <1>1, QuietStep DEF streamVars, inflateVars

-----------------------------------------------------------------------------
(* One call of the inflater. *)

LEMMA StreamFacts ==
    ASSUME TypeOK
    PROVE  stream \in Streams /\ stream.yields \in Seq(Nat) /\ Len(stream.yields) \in Nat
  BY SMTT(30), StreamAssumption DEF TypeOK

LEMMA ConsumedFacts ==
    ASSUME RInv, pc = "inflate"
    PROVE  /\ Consumed \in Inflaters
           /\ Consumed.seen \in 0 .. Len(stream.yields)
           /\ Consumed.dict = tinfl.dict
           /\ Consumed.intact => tinfl.intact
  <1>1. /\ tinfl \in Inflaters
        /\ tinfl.seen \in 0 .. Len(stream.yields)
        /\ stream.yields \in Seq(Nat) /\ Len(stream.yields) \in Nat
    BY StreamFacts DEF RInv, TypeOK
  <1>2. CASE tinfl.owed > 0
    BY <1>1, <1>2 DEF Consumed
  <1>3. CASE ~(tinfl.owed > 0)
    <2> DEFINE k == tinfl.seen + 1
               b == tinfl.intact /\ Head(input) = k
    <2>1. tinfl.owed = 0 /\ ~StreamDone
      BY <1>1, <1>3 DEF RInv, PhaseOK, Inflaters
    <2>2. k \in 1 .. Len(stream.yields)
      BY <1>1, <2>1 DEF StreamDone
    <2>3. stream.yields[k] \in Nat
      BY <1>1, <2>2
    <2>4. Consumed = [tinfl EXCEPT !.seen = k, !.owed = stream.yields[k],
                                   !.intact = b]
      BY <1>3 DEF Consumed
    <2>5. b \in BOOLEAN /\ k \in Nat
      BY <1>1 DEF Inflaters
    <2>6. /\ Consumed \in Inflaters /\ Consumed.seen = k
          /\ Consumed.dict = tinfl.dict /\ Consumed.intact = b
      <3> HIDE DEF b, k
      <3>1. tinfl \in Inflaters
        BY <1>1
      <3>2. QED
        <4>1. Consumed \in Inflaters
          BY <2>3, <2>4, <2>5, <3>1 DEF Inflaters
        <4>2. QED
          BY <2>3, <2>4, <2>5, <3>1, <4>1 DEF Inflaters
    <2>7. k \in 0 .. Len(stream.yields)
      BY <1>1, <2>2
    <2>8. b => tinfl.intact
      OBVIOUS
    <2>9. QED
      <3> HIDE DEF b, k
      <3>1. QED
        BY <2>6, <2>7, <2>8, Zenon
  <1>4. QED
    BY <1>2, <1>3

LEMMA EmittedFacts ==
    ASSUME RInv, pc = "inflate"
    PROVE  Emitted \in Nat /\ Emitted <= Consumed.owed
  <1>1. Consumed.owed \in Nat /\ Consumed.dict \in 0 .. DictUnits - 1
    BY ConsumedFacts DEF RInv, TypeOK, Inflaters
  <1>2. QED
    BY <1>1, ConstantFacts DEF Emitted

LEMMA InflateStep == ASSUME RInv, Inflate PROVE RInv'
  <1> DEFINE t == Consumed
             n == Emitted
             o == [i \in 1 .. n |-> IF t.intact THEN File[written + i - 1] ELSE Wrong]
  <1>1. pc = "inflate" /\ out = <<>> /\ Len(out) = 0
    BY DEF RInv, PhaseOK, Inflate
  <1>2. /\ t \in Inflaters
        /\ t.seen \in 0 .. Len(stream.yields) /\ t.dict = tinfl.dict
        /\ t.intact => tinfl.intact
        /\ n \in Nat /\ n <= t.owed
    BY <1>1, ConsumedFacts, EmittedFacts
  <1>3. tinfl' = [t EXCEPT !.owed = t.owed - n, !.dict = (t.dict + n) % DictUnits]
    BY DEF Inflate
  <1>4. t.owed - n \in Nat /\ (t.dict + n) % DictUnits \in 0 .. DictUnits - 1
    <2>1. t.owed \in Nat /\ t.dict \in Nat
      BY <1>2 DEF Inflaters
    <2>2. t.owed - n \in Nat /\ t.dict + n \in Int
      BY <1>2, <2>1
    <2>3. QED
      BY <2>2, ConstantFacts, ModRange
  <1>5. /\ tinfl' \in Inflaters
        /\ tinfl'.seen = t.seen /\ tinfl'.owed = t.owed - n
        /\ tinfl'.dict = (t.dict + n) % DictUnits /\ tinfl'.intact = t.intact
    <2>1. (t.dict + n) % DictUnits \in Nat
      BY <1>4, ConstantFacts
    <2>2. QED
      <3> HIDE DEF t, n
      <3>1. QED
        <4>1. t \in Inflaters
          BY <1>2
        <4>2. tinfl' \in Inflaters
          BY <1>3, <1>4, <2>1, <4>1 DEF Inflaters
        <4>3. QED
          BY <1>3, <1>4, <2>1, <4>1, <4>2 DEF Inflaters
  <1>6. UNCHANGED <<commandVars, flashVars, tries, marker, rx>>
    BY DEF Inflate
  <1>7. /\ \/ pc' = "done" /\ result' = "fail" /\ reply' = <<"CAN", "CAN">> /\ out' = out
           \/ /\ n <= Length - written
              /\ pc' = "put" /\ reply' = <<>> /\ result' = result /\ out' = o
        /\ input' = IF tinfl.owed > 0 THEN input ELSE Tail(input)
    <2>1. written \in Nat /\ Length \in Nat
      BY PlaceFacts, ConstantFacts DEF RInv
    <2>2. CASE n > Length - written
      BY <2>2 DEF Inflate, Cancel
    <2>3. CASE ~(n > Length - written)
      <3>1. n <= Length - written
        BY <1>2, <2>1, <2>3
      <3>2. QED
        BY <2>3, <3>1 DEF Inflate
    <2>4. QED
      BY <2>2, <2>3
  <1>8. n <= Length - written => o \in Seq(Readable) /\ Len(o) = n
    <2>1. SUFFICES ASSUME n <= Length - written PROVE o \in Seq(Readable) /\ Len(o) = n
      OBVIOUS
    <2>2. written \in Nat /\ Length \in Nat /\ File \in [0 .. Length - 1 -> Readable]
          /\ Wrong \in Readable
      BY PlaceFacts, StreamAssumption DEF RInv, Readable
    <2>3. ASSUME NEW i \in 1 .. n
          PROVE  File[written + i - 1] \in Readable
      <3>1. written + i - 1 \in 0 .. Length - 1
        BY <1>2, <2>1, <2>2
      <3>2. QED
        BY <2>2, <3>1
    <2>4. o \in [1 .. n -> Readable]
      BY <2>2, <2>3
    <2>5. QED
      <3> HIDE DEF o, n
      <3>1. QED
        BY <1>2, <2>4
  <1>9. TypeOK'
    <2>1. input' \in Seq(Nat)
      BY <1>1, <1>7 DEF RInv, TypeOK, PhaseOK
    <2>2. out' \in Seq(Readable)
      BY <1>7, <1>8 DEF RInv, TypeOK
    <2>3. /\ pc' \in {"put", "done"} /\ result' \in {"busy", "ok", "fail"}
          /\ reply' \in {<<>>, <<"CAN", "CAN">>}
      BY <1>7 DEF RInv, TypeOK
    <2>4. tinfl'.owed \in Nat /\ tinfl'.seen \in 0 .. Len(stream.yields)
      BY <1>2, <1>5 DEF Inflaters
    <2>5. tinfl'.dict \in 0 .. DictUnits - 1
      BY <1>4, <1>5
    <2>6. QED
      BY <1>6, <2>1, <2>2, <2>3, <2>4, <2>5 DEF RInv, TypeOK, commandVars, flashVars
  <1>10. PhaseOK'
    <2>1. result = "busy"
      BY <1>1 DEF RInv, PhaseOK
    <2>2. QED
      BY <1>1, <1>6, <1>7, <2>1 DEF RInv, PhaseOK, flashVars
  <1>11. PlaceOK' /\ Ahead' /\ OnlyImageChanges'
    <2>1. /\ off' = off /\ before' = before /\ flash' = flash /\ written' = written
          /\ page' = page /\ pc' \notin {"flush", "finish"}
      BY <1>6, <1>7 DEF commandVars, flashVars
    <2>2. Committed' = Committed /\ Here' = Here /\ SectorOpen' = SectorOpen
      BY <2>1 DEF Committed, Here, SectorOpen
    <2>3. Len(out') <= Length - written
      BY <1>7, <1>8 DEF RInv, PlaceOK
    <2>4. PlaceOK'
      BY <1>1, <2>1, <2>2, <2>3 DEF RInv, PlaceOK
    <2>5. Ahead' /\ OnlyImageChanges'
      BY <1>1, <2>1, <2>2 DEF RInv, Ahead, FirstSector, OnlyImageChanges
    <2>6. QED
      BY <2>4, <2>5
  <1>12. FileHeld'
    <2>1. /\ off' = off /\ before' = before /\ flash' = flash /\ written' = written
          /\ page' = page /\ Committed' = Committed
      BY <1>6 DEF commandVars, flashVars, Committed
    <2>2. tinfl'.intact => tinfl.intact
      BY <1>2, <1>5
    <2>3. ASSUME tinfl'.intact, NEW j \in 1 .. Len(out')
          PROVE  out'[j] = File[written' + j - 1]
      <3>1. CASE out' = out
        BY <2>1, <2>2, <2>3, <3>1 DEF RInv, FileHeld
      <3>2. CASE n <= Length - written /\ out' = o
        <4>1. j \in 1 .. n /\ t.intact
          BY <1>5, <1>8, <2>3, <3>2
        <4>2. QED
          BY <2>1, <3>2, <4>1
      <3>3. QED
        BY <1>7, <3>1, <3>2
    <2>4. QED
      BY <2>1, <2>2, <2>3 DEF RInv, FileHeld, ImageIntact, Clean
  <1>13. QED
    BY <1>5, <1>9, <1>10, <1>11, <1>12 DEF RInv

-----------------------------------------------------------------------------
(* The page buffer. *)

(* What leaves the page buffer takes the erased units of its place, and    *)
(* nothing else changes.                                                   *)
LEMMA FlushedEffect ==
    ASSUME NEW f \in [Addrs -> Cell], NEW start \in Nat, start % PageUnits = 0,
           NEW p \in Seq(Readable), Len(p) <= PageUnits
    PROVE  /\ Flushed(f, start, p) \in [Addrs -> Cell]
           /\ \A u \in Addrs :
                 /\ u \notin start .. start + Len(p) - 1 => Flushed(f, start, p)[u] = f[u]
                 /\ u \in start .. start + Len(p) - 1 /\ f[u] = Blank =>
                       Flushed(f, start, p)[u] = p[u - start + 1]
  <1>1. Len(p) \in Nat /\ \A i \in 1 .. Len(p) : p[i] \in Readable
    OBVIOUS
  <1>2. CASE \A i \in 1 .. Len(p) : p[i] = Blank
    <2>1. Flushed(f, start, p) = f
      BY <1>2 DEF Flushed
    <2>2. ASSUME NEW u \in Addrs, u \in start .. start + Len(p) - 1
          PROVE  p[u - start + 1] = Blank
      <3>1. u - start + 1 \in 1 .. Len(p)
        BY <1>1, <2>2
      <3>2. QED
        BY <1>2, <3>1
    <2>3. QED
      BY <2>1, <2>2
  <1>3. CASE ~(\A i \in 1 .. Len(p) : p[i] = Blank)
    <2> DEFINE b == PageBytes(p)
    <2>1. Flushed(f, start, p) = ProgramPage(f, start, b)
      BY <1>3 DEF Flushed
    <2>2. b \in [PageSlots -> Cell]
      <3>1. ASSUME NEW i \in PageSlots, i < Len(p)
            PROVE  p[i + 1] \in Cell
        <4>1. i + 1 \in 1 .. Len(p)
          BY <1>1, <3>1 DEF PageSlots
        <4>2. QED
          BY <1>1, <4>1 DEF Cell
      <3>2. QED
        BY <3>1 DEF PageBytes, Cell, Readable
    <2>3. Flushed(f, start, p) \in [Addrs -> Cell]
      BY <2>1, <2>2, ProgramType
    <2>4. ASSUME NEW u \in Addrs
          PROVE  /\ u \notin start .. start + Len(p) - 1 => ProgramPage(f, start, b)[u] = f[u]
                 /\ u \in start .. start + Len(p) - 1 /\ f[u] = Blank =>
                       ProgramPage(f, start, b)[u] = p[u - start + 1]
      <3>1. u \in Int
        BY AddrsAreIntegers
      <3>2. ProgramPage(f, start, b)[u] =
              IF u \in start .. start + PageUnits - 1 THEN Merge(f[u], b[u - start]) ELSE f[u]
        BY <2>2, AlignedProgram
      <3>3. CASE u \in start .. start + PageUnits - 1
        <4>1. u - start \in PageSlots
          BY <3>1, <3>3 DEF PageSlots, PageUnits
        <4>2. b[u - start] = IF u - start < Len(p) THEN p[u - start + 1] ELSE Blank
          BY <4>1 DEF PageBytes
        <4>3. u - start < Len(p) <=> u \in start .. start + Len(p) - 1
          BY <1>1, <3>1, <3>3
        <4>4. f[u] \in Cell /\ b[u - start] \in Cell
          BY <2>2, <4>1
        <4>5. QED
          BY <3>2, <3>3, <4>2, <4>3, <4>4, MergeFacts
      <3>4. CASE u \notin start .. start + PageUnits - 1
        <4>1. u \notin start .. start + Len(p) - 1
          BY <1>1, <3>1, <3>4 DEF PageUnits
        <4>2. QED
          BY <3>2, <3>4, <4>1
      <3>5. QED
        BY <3>3, <3>4
    <2>5. QED
      BY <2>1, <2>3, <2>4
  <1>4. QED
    BY <1>2, <1>3

(* A unit that is Clean is blank when its turn comes. *)
LEMMA CleanIsNotFirst ==
    ASSUME TypeOK, NEW u \in Addrs, u >= off, Clean(u - off)
    PROVE  ~FirstSector(u) \/ before[u] = Blank
  <1>1. u \in Int /\ off \in Nat /\ off + (u - off) = u
    BY StartFacts, AddrsAreIntegers
  <1>2. \/ u \div SectorUnits > off \div SectorUnits
        \/ off % SectorUnits = 0
        \/ before[u] = Blank
    BY <1>1 DEF Clean
  <1>3. QED
    BY <1>1, <1>2 DEF FirstSector, SectorUnits


(* Unit i of the image, when a page of n units goes behind the c units at o.*)
LEMMA PlaceInPage ==
    ASSUME NEW o \in Nat, NEW c \in Nat, NEW h, h = o + c, NEW n \in Nat,
           NEW i \in Int, c <= i, i < c + n
    PROVE  /\ o + i \in h .. h + n - 1 /\ o + i >= o /\ o + i - o = i
           /\ o + i - h + 1 \in 1 .. n /\ c + (o + i - h + 1) - 1 = i
  <1>1. o + i >= h /\ o + i <= h + n - 1 /\ o + i >= o /\ o + i - o = i
    OBVIOUS
  <1>2. o + i - h + 1 >= 1 /\ o + i - h + 1 <= n /\ c + (o + i - h + 1) - 1 = i
    OBVIOUS
  <1>3. QED
    BY <1>1, <1>2

(* A page that leaves the buffer for its place in a sector that is ready   *)
(* makes the image longer by its length.                                   *)
LEMMA PageLeaves ==
    ASSUME RInv, Committed % PageUnits = 0,
           NEW f \in [Addrs -> Cell], NEW p \in Seq(Readable), Len(p) <= PageUnits,
           Committed + Len(p) <= Length,
           \A u \in Addrs : u < Here => f[u] = flash[u],
           \A u \in Addrs : u \in Here .. Here + Len(p) - 1 =>
               f[u] = IF FirstSector(u) THEN before[u] ELSE Blank,
           tinfl.intact => \A j \in 1 .. Len(p) : p[j] = File[Committed + j - 1]
    PROVE  /\ Flushed(f, Here, p) \in [Addrs -> Cell]
           /\ \A u \in Addrs : u \notin Here .. Here + Len(p) - 1 =>
                                  Flushed(f, Here, p)[u] = f[u]
           /\ \A i \in 0 .. Committed + Len(p) - 1 : Clean(i) =>
                 /\ Flushed(f, Here, p)[off + i] \in Readable
                 /\ tinfl.intact => Flushed(f, Here, p)[off + i] = File[i]
  <1> DEFINE g == Flushed(f, Here, p)
  <1>1. /\ off \in Nat /\ off % PageUnits = 0 /\ Committed \in Nat
        /\ Here = off + Committed /\ Here \in Nat /\ Len(p) \in Nat
        /\ Length \in Nat /\ Committed + Len(p) <= Length
    BY StartFacts, PlaceFacts DEF RInv
  <1>2. Here % PageUnits = 0
    BY <1>1 DEF PageUnits
  <1>3. /\ g \in [Addrs -> Cell]
        /\ \A u \in Addrs :
              /\ u \notin Here .. Here + Len(p) - 1 => g[u] = f[u]
              /\ u \in Here .. Here + Len(p) - 1 /\ f[u] = Blank => g[u] = p[u - Here + 1]
    BY <1>1, <1>2, FlushedEffect
  <1>4. ASSUME NEW i \in 0 .. Committed + Len(p) - 1, Clean(i)
        PROVE  g[off + i] \in Readable /\ (tinfl.intact => g[off + i] = File[i])
    <2>1. i \in 0 .. Length - 1
      BY <1>1
    <2>2. off + i \in Addrs
      BY <2>1, StartFacts DEF RInv
    <2>3. CASE i < Committed
      <3>1. off + i < Here /\ off + i \notin Here .. Here + Len(p) - 1 /\ i \in 0 .. Committed - 1
        BY <1>1, <2>1, <2>3
      <3>2. g[off + i] = flash[off + i]
        <4>1. g[off + i] = f[off + i]
          BY <1>3, <2>2, <3>1
        <4>2. QED
          BY <2>2, <3>1, <4>1
      <3>3. QED
        BY <1>4, <3>1, <3>2 DEF RInv, FileHeld, ImageIntact
    <2>4. CASE ~(i < Committed)
      <3> DEFINE u == off + i
                 j == u - Here + 1
      <3>1. /\ u \in Here .. Here + Len(p) - 1 /\ u >= off /\ u - off = i
            /\ j \in 1 .. Len(p) /\ Committed + j - 1 = i
        <4>1. /\ off \in Nat /\ Here = off + Committed /\ Committed \in Nat /\ Len(p) \in Nat
              /\ i \in Int /\ Committed <= i /\ i < Committed + Len(p)
          BY <1>1, <2>1, <2>4 DEF Here
        <4>2. QED
          BY <4>1, PlaceInPage
      <3>2. ~FirstSector(u) \/ before[u] = Blank
        BY <1>4, <2>2, <3>1, CleanIsNotFirst DEF RInv
      <3>3. f[u] = Blank
        BY <2>2, <3>1, <3>2
      <3>4. g[u] = p[j]
        BY <1>3, <2>2, <3>1, <3>3
      <3>5. p[j] \in Readable
        <4>1. j \in 1 .. Len(p)
          BY <3>1
        <4>2. QED
          BY <4>1
      <3>6. tinfl.intact => p[j] = File[i]
        BY <3>1
      <3>7. QED
        BY <3>4, <3>5, <3>6
    <2>5. QED
      BY <2>3, <2>4
  <1>5. QED
    BY <1>3, <1>4

(* The chip when a chunk is put: a sector that begins here is erased. *)
Prepared == IF NewSector THEN EraseSector(flash, off + written) ELSE flash

LEMMA PreparedFacts ==
    ASSUME RInv, pc = "put"
    PROVE  /\ Prepared \in [Addrs -> Cell]
           /\ \A u \in Addrs : u < Here => Prepared[u] = flash[u]
           /\ \A u \in Addrs : u >= Here =>
                 Prepared[u] = IF u \div SectorUnits = Here \div SectorUnits
                                  /\ ~FirstSector(u)
                               THEN Blank ELSE before[u]
           /\ \A u \in Addrs :
                 \/ Prepared[u] = flash[u]
                 \/ /\ Prepared[u] = Blank
                    /\ (u \div SectorUnits) * SectorUnits = Here
                    /\ Here = off + written
  <1>1. /\ off \in Nat /\ Committed \in Nat /\ written \in Nat
        /\ Here = off + Committed /\ Here \in Nat
        /\ Committed = written - Len(page)
        /\ flash \in [Addrs -> Cell] /\ page \in Seq(Readable)
    BY StartFacts, PlaceFacts DEF RInv, TypeOK
  <1>2. \A u \in Addrs : u \in Nat
    BY AddrsAreIntegers DEF Addrs
  <1>3. CASE NewSector
    <2>1. page = <<>> /\ ~SectorOpen /\ Here = off + written /\ Here % SectorUnits = 0
      <3>1. page = <<>> /\ (off + written) % SectorUnits = 0
        BY <1>3 DEF NewSector
      <3>2. Len(page) = 0
        BY <3>1
      <3>3. Here = off + written
        BY <1>1, <3>2
      <3>4. QED
        BY <3>1, <3>3 DEF SectorOpen
    <2>2. \A u \in Addrs : flash[u] = before[u] \/ u < Here
      <3>1. \A u \in Addrs : u >= Here => flash[u] = before[u]
        BY <2>1 DEF RInv, Ahead
      <3>2. QED
        BY <1>1, <1>2, <3>1
    <2>3. Prepared = [u \in Addrs |-> IF u \div SectorUnits = Here \div SectorUnits
                                     THEN Blank ELSE flash[u]]
      BY <1>3, <2>1 DEF Prepared, EraseSector
    <2>4. ASSUME NEW u \in Addrs, u \div SectorUnits = Here \div SectorUnits
          PROVE  u >= Here /\ ~FirstSector(u) /\ (u \div SectorUnits) * SectorUnits = Here
      <3>1. u \in Nat /\ off \in Nat /\ Here \in Nat /\ off <= Here /\ Here % SectorUnits = 0
        BY <1>1, <1>2, <2>1
      <3>2. u >= Here /\ (u \div SectorUnits) * SectorUnits = Here
        BY <2>4, <3>1 DEF SectorUnits
      <3>3. ~FirstSector(u)
        BY <2>4, <3>1 DEF FirstSector, SectorUnits
      <3>4. QED
        BY <3>2, <3>3
    <2>5. Prepared \in [Addrs -> Cell]
      BY <1>1, <2>3 DEF Cell, Readable
    <2>6. \A u \in Addrs : Prepared[u] =
              IF u \div SectorUnits = Here \div SectorUnits THEN Blank ELSE flash[u]
      BY <2>3
    <2>7. \A u \in Addrs : u < Here => Prepared[u] = flash[u]
      BY <1>1, <1>2, <2>4, <2>6
    <2>8. \A u \in Addrs : u >= Here =>
              Prepared[u] = IF u \div SectorUnits = Here \div SectorUnits /\ ~FirstSector(u)
                            THEN Blank ELSE before[u]
      BY <1>1, <1>2, <2>2, <2>4, <2>6
    <2>9. \A u \in Addrs :
              \/ Prepared[u] = flash[u]
              \/ /\ Prepared[u] = Blank
                 /\ (u \div SectorUnits) * SectorUnits = Here
                 /\ Here = off + written
      <3>1. Here = off + written
        BY <2>1
      <3>2. \A u \in Addrs : u \div SectorUnits = Here \div SectorUnits =>
                (u \div SectorUnits) * SectorUnits = Here
        BY <2>4
      <3>3. QED
        BY <2>6, <3>1, <3>2
    <2>10. QED
      BY <2>5, <2>7, <2>8, <2>9
  <1>4. CASE ~NewSector
    <2>1. Prepared = flash /\ SectorOpen
      BY <1>4 DEF Prepared, NewSector, SectorOpen
    <2>2. pc \notin {"finish", "done"}
      OBVIOUS
    <2>3. \A u \in Addrs : u >= Here =>
              flash[u] = IF u \div SectorUnits = Here \div SectorUnits /\ ~FirstSector(u)
                         THEN Blank ELSE before[u]
      BY <2>1, <2>2 DEF RInv, Ahead
    <2>4. flash \in [Addrs -> Cell]
      BY <1>1
    <2>5. QED
      BY <2>1, <2>3, <2>4, Zenon
  <1>5. QED
    BY <1>3, <1>4

(* The image only grows, and keeps what it has. *)
ImageKept ==
    /\ off' = off /\ before' = before /\ Committed <= Committed'
    /\ \A u \in Addrs : u < Here => flash'[u] = flash[u]

(* One turn of the loop of inflate_flash_put_buffer. *)
LEMMA PutChunkStep == ASSUME RInv, PutChunk PROVE RInv' /\ ImageKept
  <1> DEFINE room == PageUnits - Len(page)
             n == IF room < Len(out) THEN room ELSE Len(out)
             p == page \o SubSeq(out, 1, n)
  <1>1. /\ pc = "put" /\ out # <<>> /\ pc' = "put" /\ reply' = <<>>
        /\ off' = off /\ before' = before /\ stream' = stream
        /\ UNCHANGED <<input, tinfl, tries, marker, rx, result>>
        /\ result = "busy"
    BY DEF PutChunk, commandVars, RInv, PhaseOK
  <1>2. /\ off \in Nat /\ Length \in Nat /\ off + Length <= FlashUnits
        /\ written \in Nat /\ Len(page) \in Nat /\ Len(page) <= 3
        /\ Committed \in Nat /\ Here \in Nat /\ PageStart = Here
        /\ Here = off + Committed /\ Committed = written - Len(page)
        /\ Len(out) \in Nat /\ written + Len(out) <= Length
    BY StartFacts, PlaceFacts DEF RInv, PageUnits
  <1>3. page \in Seq(Readable) /\ out \in Seq(Readable) /\ Len(out) > 0
    BY <1>1, <1>2 DEF RInv, TypeOK
  <1>a. Committed % PageUnits = 0
    BY <1>1 DEF RInv, PlaceOK
  <1>b. Here \in Nat /\ Here % 4 = 0
    <2>1. off % 4 = 0 /\ Committed % 4 = 0 /\ off \in Nat /\ Committed \in Nat
          /\ Here = off + Committed
      BY <1>2, <1>a, StartFacts DEF RInv, PageUnits
    <2>2. QED
      BY <2>1
  <1>4. /\ n \in Nat /\ n >= 1 /\ n <= Len(out) /\ n <= room
        /\ written + n <= Length /\ Committed + (Len(page) + n) <= Length
    <2>1. /\ written \in Nat /\ Len(page) \in Nat /\ Len(page) <= 3
          /\ Len(out) \in Nat /\ Len(out) > 0
          /\ Length \in Nat /\ written + Len(out) <= Length
          /\ Committed + Len(page) = written /\ Committed \in Nat
      BY <1>2, <1>3 DEF PageUnits
    <2>2. n \in Nat /\ n >= 1 /\ n <= Len(out) /\ n <= room
      BY <2>1 DEF PageUnits
    <2>3. QED
      <3> HIDE DEF n
      <3>1. QED
        BY <2>1, <2>2
  <1>5. /\ SubSeq(out, 1, n) \in Seq(Readable) /\ Len(SubSeq(out, 1, n)) = n
        /\ \A j \in 1 .. n : SubSeq(out, 1, n)[j] = out[j]
    <2> HIDE DEF n
    <2>1. QED
      BY SMTT(30), <1>2, <1>3, <1>4
  <1>6. /\ p \in Seq(Readable) /\ Len(p) = Len(page) + n
        /\ Len(p) \in Nat /\ Len(p) >= 1 /\ Len(p) <= 4
        /\ \A j \in 1 .. Len(page) : p[j] = page[j]
        /\ \A j \in Len(page) + 1 .. Len(p) : p[j] = out[j - Len(page)]
    <2> HIDE DEF n
    <2>1. p \in Seq(Readable) /\ Len(p) = Len(page) + n
      BY <1>2, <1>3, <1>4, <1>5
    <2>2. Len(p) \in Nat /\ Len(p) >= 1 /\ Len(p) <= 4
      BY <1>2, <1>4, <2>1 DEF PageUnits
    <2>3. \A j \in 1 .. Len(page) : p[j] = page[j]
      BY <1>2, <1>3, <1>4, <1>5
    <2>4. ASSUME NEW j \in Len(page) + 1 .. Len(p)
          PROVE  p[j] = out[j - Len(page)]
      <3>1. j - Len(page) \in 1 .. n
        BY <1>2, <1>4, <2>1, <2>4
      <3>2. p[j] = SubSeq(out, 1, n)[j - Len(page)]
        BY SMTT(30), <1>2, <1>3, <1>4, <1>5, <2>1, <2>4
      <3>3. QED
        BY <1>5, <3>1, <3>2
    <2>5. QED
      BY <2>1, <2>2, <2>3, <2>4
  <1>7. tinfl.intact => \A j \in 1 .. Len(p) : p[j] = File[Committed + j - 1]
    <2> HIDE DEF p, n
    <2>1. ASSUME tinfl.intact, NEW j \in 1 .. Len(p)
          PROVE  p[j] = File[Committed + j - 1]
      <3>1. CASE j \in 1 .. Len(page)
        BY <1>6, <2>1, <3>1 DEF RInv, FileHeld
      <3>2. CASE j \notin 1 .. Len(page)
        <4>1. /\ j \in Len(page) + 1 .. Len(p) /\ j - Len(page) \in 1 .. Len(out)
              /\ written + (j - Len(page)) - 1 = Committed + j - 1
          <5>1. /\ j \in Nat /\ j > Len(page) /\ j <= Len(p) /\ Len(p) = Len(page) + n
                /\ n \in Nat /\ n <= Len(out) /\ Len(page) \in Nat /\ Len(out) \in Nat
            BY <1>2, <1>4, <1>6, <3>2
          <5>2. written = Committed + Len(page) /\ Committed \in Nat
            BY <1>2
          <5>3. QED
            BY <5>1, <5>2
        <4>2. out[j - Len(page)] = File[written + (j - Len(page)) - 1]
          BY <2>1, <4>1 DEF RInv, FileHeld
        <4>3. QED
          BY <1>6, <4>1, <4>2
      <3>3. QED
        BY <3>1, <3>2
    <2>2. QED
      BY <2>1
  <1>8. /\ out' = SubSeq(out, n + 1, Len(out)) /\ written' = written + n
        /\ page' = IF Len(p) = PageUnits THEN <<>> ELSE p
        /\ flash' = IF Len(p) = PageUnits THEN Flushed(Prepared, Here, p) ELSE Prepared
    BY <1>2 DEF PutChunk, PageFull, Prepared
  <1> HIDE DEF p, n
  <1>9. /\ Prepared \in [Addrs -> Cell]
        /\ \A u \in Addrs : u < Here => Prepared[u] = flash[u]
        /\ \A u \in Addrs : u >= Here =>
              Prepared[u] = IF u \div SectorUnits = Here \div SectorUnits /\ ~FirstSector(u)
                            THEN Blank ELSE before[u]
        /\ \A u \in Addrs :
              \/ Prepared[u] = flash[u]
              \/ /\ Prepared[u] = Blank
                 /\ (u \div SectorUnits) * SectorUnits = Here
                 /\ Here = off + written
    BY <1>1, PreparedFacts
  <1>10. \A u \in Addrs : u \in Here .. Here + Len(p) - 1 =>
            u >= Here /\ u \div SectorUnits = Here \div SectorUnits
    <2>1. Len(p) \in Nat /\ Len(p) <= 4 /\ Here \in Nat /\ Here % 4 = 0
      BY <1>6, <1>b
    <2>2. ASSUME NEW u \in Addrs, u \in Here .. Here + Len(p) - 1
          PROVE  u >= Here /\ u \div SectorUnits = Here \div SectorUnits
      BY <2>1, <2>2 DEF SectorUnits
    <2>3. QED
      BY <2>2
  <1>11. /\ Flushed(Prepared, Here, p) \in [Addrs -> Cell]
         /\ \A u \in Addrs : u \notin Here .. Here + Len(p) - 1 =>
                                Flushed(Prepared, Here, p)[u] = Prepared[u]
         /\ \A i \in 0 .. Committed + Len(p) - 1 : Clean(i) =>
               /\ Flushed(Prepared, Here, p)[off + i] \in Readable
               /\ tinfl.intact => Flushed(Prepared, Here, p)[off + i] = File[i]
    <2>1. \A u \in Addrs : u \in Here .. Here + Len(p) - 1 =>
              Prepared[u] = IF FirstSector(u) THEN before[u] ELSE Blank
      BY <1>9, <1>10
    <2>2. Len(p) <= PageUnits /\ Committed + Len(p) <= Length
      BY <1>4, <1>6 DEF PageUnits
    <2>3. QED
      BY <1>6, <1>7, <1>9, <1>a, <2>1, <2>2, PageLeaves
  <1>12. /\ out' \in Seq(Readable) /\ Len(out') = Len(out) - n
         /\ \A j \in 1 .. Len(out') : out'[j] = out[n + j]
    <2>1. /\ out \in Seq(Readable) /\ n \in Nat /\ n >= 1 /\ n <= Len(out)
          /\ Len(out) \in Nat /\ out' = SubSeq(out, n + 1, Len(out))
      BY <1>2, <1>3, <1>4, <1>8
    <2>2. QED
      BY <2>1
  <1>13. /\ page' \in Seq(Readable) /\ Len(page') \in Nat /\ Len(page') < 4
         /\ Committed' = IF Len(p) = PageUnits THEN Committed + PageUnits ELSE Committed
         /\ Len(page') <= written'
    <2>1. page' \in Seq(Readable)
      BY <1>6, <1>8
    <2>2. Len(page') = IF Len(p) = PageUnits THEN 0 ELSE Len(p)
      BY <1>8
    <2>3. Len(page') \in Nat /\ Len(page') < 4
      BY <1>6, <2>2 DEF PageUnits
    <2>4. Committed' = written' - Len(page')
      BY DEF Committed
    <2>5. Committed' = IF Len(p) = PageUnits THEN Committed + PageUnits ELSE Committed
      <3>1. /\ written' = written + n /\ Len(p) = Len(page) + n
            /\ written = Committed + Len(page) /\ Committed \in Nat
            /\ n \in Nat /\ Len(page) \in Nat /\ PageUnits = 4
        BY <1>2, <1>4, <1>6, <1>8 DEF PageUnits
      <3>2. QED
        BY <2>2, <2>4, <3>1
    <2>6. Len(page') <= written'
      BY SMTT(30), <1>2, <1>4, <1>6, <1>8, <2>2
    <2>7. QED
      BY <2>1, <2>3, <2>5, <2>6
  <1>14. flash' \in [Addrs -> Cell]
    BY <1>8, <1>9, <1>11
  <1>15. written' \in 0 .. Length
    BY <1>2, <1>4, <1>8
  <1>16. TypeOK'
    <2>1. [off |-> off', before |-> before'] \in Starts /\ stream' \in Streams
      BY <1>1 DEF RInv, TypeOK
    <2>2. Len(page') < PageUnits
      BY <1>13 DEF PageUnits
    <2>3. QED
      BY <1>1, <1>12, <1>13, <1>14, <1>15, <2>1, <2>2 DEF RInv, TypeOK
  <1>17. PhaseOK'
    BY <1>1 DEF RInv, PhaseOK
  <1>18. PlaceOK'
    <2>1. Committed' % PageUnits = 0
      <3>1. Committed % 4 = 0 /\ Committed \in Nat
        BY <1>2, <1>a DEF PageUnits
      <3>2. Committed' = Committed + 4 \/ Committed' = Committed
        BY <1>13 DEF PageUnits
      <3>3. QED
        BY <3>1, <3>2 DEF PageUnits
    <2>2. Len(out') <= Length - written'
      BY <1>2, <1>4, <1>8, <1>12
    <2>3. QED
      BY <1>13, <2>1, <2>2 DEF PlaceOK
  <1>19. Here' = IF Len(p) = PageUnits THEN Here + PageUnits ELSE Here
    <2>1. Here' = off + Committed'
      BY <1>1 DEF Here
    <2>2. QED
      BY <1>2, <1>13, <2>1 DEF PageUnits
  <1>20. Ahead'
    <2>1. FirstSector(0)' = FirstSector(0) /\ \A u : FirstSector(u)' = FirstSector(u)
      BY <1>1 DEF FirstSector
    <2>2. CASE Len(p) # PageUnits
      <3>1. page' = p /\ flash' = Prepared /\ Here' = Here /\ page' # <<>>
        BY <1>6, <1>8, <1>19, <2>2
      <3>2. SectorOpen'
        BY <3>1 DEF SectorOpen
      <3>3. QED
        BY <1>1, <1>9, <2>1, <3>1, <3>2 DEF Ahead
    <2>3. CASE Len(p) = PageUnits
      <3>1. /\ page' = <<>> /\ flash' = Flushed(Prepared, Here, p)
            /\ Here' = Here + PageUnits
        BY <1>8, <1>19, <2>3
      <3>2. off' + written' = Here'
        <4>1. /\ written' = written + n /\ Len(page) + n = 4 /\ Here' = Here + 4
              /\ Here = off + Committed /\ written = Committed + Len(page)
              /\ off' = off
          BY SMTT(30), <1>1, <1>2, <1>6, <1>8, <2>3, <3>1 DEF PageUnits
        <4>2. /\ off \in Nat /\ Committed \in Nat /\ n \in Nat /\ Len(page) \in Nat
          BY <1>2, <1>4
        <4>3. QED
          BY <4>1, <4>2
      <3>3. SectorOpen' <=> Here' % SectorUnits # 0
        BY <3>1, <3>2 DEF SectorOpen
      <3>4. \A u \in Addrs : u >= Here' =>
               u \in Nat /\ u >= Here /\ u \notin Here .. Here + Len(p) - 1
        BY <1>2, <2>3, <3>1, AddrsAreIntegers DEF PageUnits, Addrs
      <3>5. \A u \in Addrs : u >= Here' =>
               flash'[u] = IF u \div SectorUnits = Here \div SectorUnits /\ ~FirstSector(u)
                           THEN Blank ELSE before[u]
        BY <1>9, <1>11, <3>1, <3>4
      <3>6. ASSUME NEW u \in Addrs, u >= Here'
            PROVE  u \div SectorUnits = Here \div SectorUnits <=>
                   Here' % SectorUnits # 0 /\ u \div SectorUnits = Here' \div SectorUnits
        <4>1. u \in Nat /\ Here \in Nat /\ Here % 4 = 0 /\ Here' = Here + 4 /\ u >= Here + 4
          BY <1>b, <3>1, <3>4, <3>6 DEF PageUnits
        <4>2. QED
          BY <4>1 DEF SectorUnits
      <3>7. \A u \in Addrs : u >= Here' =>
               flash'[u] = IF SectorOpen' /\ u \div SectorUnits = Here' \div SectorUnits
                              /\ ~FirstSector(u)
                           THEN Blank ELSE before[u]
        BY <3>3, <3>5, <3>6
      <3>8. QED
        BY <1>1, <2>1, <3>7 DEF Ahead
    <2>4. QED
      BY <2>2, <2>3
  <1>21. FileHeld'
    <2>1. \A i : Clean(i)' = Clean(i)
      BY <1>1 DEF Clean
    <2>2. /\ \A i \in 0 .. Committed' - 1 : Clean(i) =>
                 flash'[off + i] \in Readable /\ (tinfl.intact => flash'[off + i] = File[i])
          /\ tinfl.intact => \A j \in 1 .. Len(page') : page'[j] = File[Committed' + j - 1]
      <3>1. CASE Len(p) = PageUnits
        <4>1. /\ flash' = Flushed(Prepared, Here, p) /\ Len(page') = 0
              /\ Committed' = Committed + Len(p)
          BY <1>8, <1>13, <3>1
        <4>2. \A i \in 0 .. Committed' - 1 : Clean(i) =>
                 flash'[off + i] \in Readable /\ (tinfl.intact => flash'[off + i] = File[i])
          <5>1. (0 .. Committed' - 1) = 0 .. Committed + Len(p) - 1
            BY SMTT(30), <1>2, <1>6, <4>1
          <5>2. QED
            BY <1>11, <4>1, <5>1, Zenon
        <4>3. \A j \in 1 .. Len(page') : page'[j] = File[Committed' + j - 1]
          BY <4>1
        <4>4. QED
          BY <4>2, <4>3
      <3>2. CASE Len(p) # PageUnits
        <4>1. flash' = Prepared /\ page' = p /\ Committed' = Committed
          BY <1>8, <1>13, <3>2
        <4>2. ASSUME NEW i \in 0 .. Committed - 1
              PROVE  Prepared[off + i] = flash[off + i]
          <5>1. i \in 0 .. Length - 1 /\ off + i < Here
            BY <1>2
          <5>2. off + i \in Addrs
            BY <5>1, StartFacts DEF RInv
          <5>3. QED
            BY <1>9, <5>1, <5>2
        <4>3. QED
          BY <1>7, <4>1, <4>2 DEF RInv, FileHeld, ImageIntact
      <3>3. QED
        BY <3>1, <3>2
    <2>3. tinfl.intact => \A j \in 1 .. Len(out') : out'[j] = File[written' + j - 1]
      <3>1. ASSUME tinfl.intact, NEW j \in 1 .. Len(out')
            PROVE  out'[j] = File[written' + j - 1]
        <4>1. n + j \in 1 .. Len(out) /\ written + (n + j) - 1 = written' + j - 1
          <5>1. /\ n \in Nat /\ Len(out) \in Nat /\ j \in 1 .. Len(out) - n
                /\ written \in Int /\ written' = written + n
            BY <1>2, <1>4, <1>8, <1>12
          <5>2. n + j \in Int /\ n + j >= 1 /\ n + j <= Len(out)
            BY <5>1
          <5>3. written + (n + j) - 1 = written' + j - 1
            BY <5>1
          <5>4. QED
            BY <5>1, <5>2, <5>3
        <4>2. out[n + j] = File[written + (n + j) - 1]
          BY <3>1, <4>1 DEF RInv, FileHeld
        <4>3. QED
          BY <1>12, <4>1, <4>2
      <3>2. QED
        BY <3>1
    <2>4. QED
      BY <1>1, <2>1, <2>2, <2>3 DEF FileHeld, ImageIntact
  <1>22. OnlyImageChanges'
    <2>1. ASSUME NEW u \in Addrs
          PROVE  \/ flash'[u] = before[u]
                 \/ off <= u /\ u < off + Length
                 \/ /\ flash'[u] = Blank /\ u > off
                    /\ off <= (u \div SectorUnits) * SectorUnits
                    /\ (u \div SectorUnits) * SectorUnits < off + Length
      <3>1. CASE flash'[u] = Prepared[u]
        <4>1. CASE Prepared[u] = flash[u]
          BY <3>1, <4>1 DEF RInv, OnlyImageChanges
        <4>2. CASE /\ Prepared[u] = Blank
                   /\ (u \div SectorUnits) * SectorUnits = Here
                   /\ Here = off + written
          <5>1. u \in Nat /\ off <= Here /\ Here < off + Length /\ u >= Here
            BY <1>2, <1>4, <4>2, AddrsAreIntegers DEF SectorUnits, Addrs
          <5>2. QED
            BY <1>2, <3>1, <4>2, <5>1
        <4>3. QED
          BY <1>9, <4>1, <4>2
      <3>2. CASE flash'[u] # Prepared[u]
        <4>1. u \in Here .. Here + Len(p) - 1
          BY <1>8, <1>11, <3>2
        <4>2. off <= u /\ u < off + Length
          <5>1. /\ Here = off + Committed /\ Committed + Len(p) <= Length
                /\ off \in Nat /\ Committed \in Nat /\ Len(p) \in Nat /\ Length \in Nat
            BY <1>2, <1>4, <1>6
          <5>2. QED
            BY <4>1, <5>1
        <4>3. QED
          BY <4>2
      <3>3. QED
        BY <3>1, <3>2
    <2>2. QED
      BY <1>1, <2>1 DEF OnlyImageChanges
  <1>23. ImageKept
    <2>1. Committed <= Committed'
      BY <1>2, <1>13 DEF PageUnits
    <2>2. ASSUME NEW u \in Addrs, u < Here PROVE flash'[u] = flash[u]
      <3>1. u \notin Here .. Here + Len(p) - 1
        BY <1>2, <2>2, AddrsAreIntegers
      <3>2. QED
        BY <1>8, <1>9, <1>11, <2>2, <3>1
    <2>3. QED
      BY <1>1, <2>1, <2>2 DEF ImageKept
  <1>24. QED
    BY <1>1, <1>16, <1>17, <1>18, <1>20, <1>21, <1>22, <1>23 DEF RInv

(* The last page, which may be a short one. *)
LEMMA LastFlushStep == ASSUME RInv, LastFlush PROVE RInv' /\ ImageKept
  <1>1. /\ pc = "flush" /\ pc' = "finish" /\ reply' = <<"ACK">> /\ page' = <<>>
        /\ off' = off /\ before' = before /\ stream' = stream /\ written' = written
        /\ UNCHANGED <<input, tinfl, out, tries, marker, result>>
        /\ rx' = [rx EXCEPT !.pendingAck = FALSE]
        /\ result = "busy" /\ out = <<>> /\ written = Length
    BY DEF LastFlush, commandVars, inflateVars, RInv, PhaseOK
  <1>2. /\ off \in Nat /\ Length \in Nat /\ off + Length <= FlashUnits
        /\ written \in Nat /\ Len(page) \in Nat /\ Len(page) <= 3
        /\ Committed \in Nat /\ Here \in Nat /\ PageStart = Here
        /\ Here = off + Committed /\ Committed = written - Len(page)
        /\ page \in Seq(Readable) /\ flash \in [Addrs -> Cell]
    <2>1. page \in Seq(Readable) /\ flash \in [Addrs -> Cell]
      BY DEF RInv, TypeOK
    <2>2. QED
      BY <2>1, StartFacts, PlaceFacts DEF RInv, PageUnits
  <1>a. Committed % PageUnits = 0
    BY <1>1 DEF RInv, PlaceOK
  <1>3. flash' = Flushed(flash, Here, page)
    BY <1>2 DEF LastFlush
  <1>4. ASSUME NEW u \in Addrs, u \in Here .. Here + Len(page) - 1
        PROVE  flash[u] = IF FirstSector(u) THEN before[u] ELSE Blank
    <2>1. page # <<>> /\ u >= Here
      BY <1>2, <1>4
    <2>2. u \div SectorUnits = Here \div SectorUnits
      <3>1. Len(page) \in Nat /\ Len(page) <= 3 /\ Here \in Nat /\ Here % 4 = 0
        <4>1. off % 4 = 0 /\ Committed % 4 = 0 /\ off \in Nat /\ Committed \in Nat
              /\ Here = off + Committed
          BY <1>2, <1>a, StartFacts DEF RInv, PageUnits
        <4>2. Here \in Nat /\ Here % 4 = 0
          BY <4>1
        <4>3. QED
          BY <1>2, <4>2
      <3>2. QED
        BY <1>4, <3>1 DEF SectorUnits
    <2>3. QED
      BY <1>1, <2>1, <2>2 DEF RInv, Ahead, SectorOpen
  <1>5. /\ flash' \in [Addrs -> Cell]
        /\ \A u \in Addrs : u \notin Here .. Here + Len(page) - 1 => flash'[u] = flash[u]
        /\ \A i \in 0 .. Committed + Len(page) - 1 : Clean(i) =>
              /\ flash'[off + i] \in Readable
              /\ tinfl.intact => flash'[off + i] = File[i]
    <2>1. Len(page) <= PageUnits /\ Committed + Len(page) <= Length
      BY <1>1, <1>2 DEF PageUnits
    <2>2. tinfl.intact => \A j \in 1 .. Len(page) : page[j] = File[Committed + j - 1]
      BY DEF RInv, FileHeld
    <2>3. QED
      BY <1>2, <1>3, <1>4, <1>a, <2>1, <2>2, PageLeaves
  <1>6. Committed' = Length /\ Committed + Len(page) = Length /\ Len(page') = 0
    <2>1. Len(page') = 0
      BY <1>1
    <2>2. Committed' = written' - 0
      BY <2>1 DEF Committed
    <2>3. QED
      BY <1>1, <1>2, <2>1, <2>2
  <1>7. TypeOK'
    <2>1. rx' \in [expected : BlockNumbers, pendingAck : BOOLEAN, started : BOOLEAN]
      BY <1>1 DEF RInv, TypeOK
    <2>2. page' \in Seq(Readable) /\ Len(page') < PageUnits
      BY <1>1, <1>6 DEF PageUnits
    <2>3. QED
      BY <1>1, <1>5, <2>1, <2>2 DEF RInv, TypeOK
  <1>8. PhaseOK'
    BY <1>1 DEF RInv, TypeOK, PhaseOK
  <1>9. PlaceOK'
    <2>1. Len(out') = 0 /\ Len(page') = 0 /\ written' = Length
      BY <1>1, <1>6
    <2>2. QED
      BY <1>1, <1>2, <2>1 DEF PlaceOK
  <1>10. Ahead'
    BY <1>1 DEF Ahead
  <1>11. FileHeld'
    <2>1. \A i : Clean(i)' = Clean(i)
      BY <1>1 DEF Clean
    <2>2. Len(out') = 0 /\ Len(page') = 0
      BY <1>1, <1>6
    <2>3. \A i \in 0 .. Committed' - 1 : Clean(i) =>
              flash'[off + i] \in Readable /\ (tinfl.intact => flash'[off + i] = File[i])
      <3>1. Committed' = Committed + Len(page)
        BY <1>6
      <3>2. QED
        <4>1. (0 .. Committed' - 1) = 0 .. Committed + Len(page) - 1
          BY <1>2, <3>1
        <4>2. QED
          BY <1>5, <4>1, Zenon
    <2>4. QED
      BY <1>1, <2>1, <2>2, <2>3 DEF FileHeld, ImageIntact
  <1>12. OnlyImageChanges'
    <2>1. ASSUME NEW u \in Addrs, u \in Here .. Here + Len(page) - 1
          PROVE  off <= u /\ u < off + Length
      BY <1>2, <1>6, <2>1
    <2>2. \A u \in Addrs : flash'[u] = flash[u] \/ (off <= u /\ u < off + Length)
      BY <1>5, <2>1
    <2>3. QED
      BY <1>1, <2>2 DEF RInv, OnlyImageChanges
  <1>13. ImageKept
    <2>1. Committed <= Committed'
      BY <1>2, <1>6
    <2>2. ASSUME NEW u \in Addrs, u < Here PROVE flash'[u] = flash[u]
      <3>1. u \notin Here .. Here + Len(page) - 1
        BY <1>2, <2>2, AddrsAreIntegers
      <3>2. QED
        BY <1>5, <3>1
    <2>3. QED
      BY <1>1, <2>1, <2>2 DEF ImageKept
  <1>14. QED
    BY <1>1, <1>7, <1>8, <1>9, <1>10, <1>11, <1>12, <1>13 DEF RInv

-----------------------------------------------------------------------------
(* The invariant holds whatever the receiver does. *)
LEMMA ReceiverKeepsRInv == ASSUME RInv, ReceiverStep PROVE RInv'
  <1>1. CASE Work
    BY <1>1, FetchStep, InflateStep, PutChunkStep, NextCallStep, LastFlushStep DEF Work
  <1>2. CASE GiveUp
    BY <1>2, FirstTimeoutStep, TimeoutStep, FinishTimeoutStep DEF GiveUp
  <1>3. ASSUME NEW m \in Markers, ReadMarker(m) \/ Finish(m) PROVE RInv'
    BY <1>3, ReadMarkerStep, FinishStep
  <1>4. ASSUME NEW no \in BlockNumbers, NEW intact \in BOOLEAN, RefusePacket(no, intact)
        PROVE  RInv'
    BY <1>4, RefusePacketStep
  <1>5. ASSUME NEW no \in BlockNumbers, NEW pieces \in Seq(Nat) \ {<<>>},
               AcceptPacket(no, pieces)
        PROVE  RInv'
    BY <1>5, AcceptPacketStep
  <1>6. CASE UNCHANGED streamVars
    BY <1>6, IdleStep
  <1>7. QED
    BY <1>1, <1>2, <1>3, <1>4, <1>5, <1>6 DEF ReceiverStep

-----------------------------------------------------------------------------
(* The session: what it makes the receiver do. *)

Items == [marker : Markers, block : Nat, intact : BOOLEAN]
IsBlock(item) == item.marker \in {"SOH", "STX"}

(* A block on the line is one of the stream's, and the stub is in the      *)
(* middle of a packet only while one is there to be read.                  *)
LineOK ==
    /\ block \in 1 .. Len(Blocks)
    /\ toStub \in Seq(Items)
    /\ \A k \in 1 .. Len(toStub) : IsBlock(toStub[k]) => toStub[k].block \in 1 .. Len(Blocks)
    /\ pc = "packet" => toStub # <<>> /\ IsBlock(Head(toStub))

SessionRInv == RInv /\ LineOK

LEMMA BlocksFacts ==
    ASSUME TypeOK
    PROVE  /\ Blocks \in Seq({"SOH", "STX"}) /\ Len(Blocks) \in Nat /\ Len(Blocks) > 0
           /\ \A k \in 1 .. Len(Blocks) : Blocks[k] \in {"SOH", "STX"}
  <1>1. Blocks \in Seq(DOMAIN Pieces) /\ Blocks # <<>>
    BY StreamAssumption DEF TypeOK, Blocks
  <1>2. DOMAIN Pieces = {"SOH", "STX"}
    BY DEF Pieces
  <1>3. QED
    BY <1>1, <1>2

(* The number of the first piece of each block. *)
LEMMA FirstPieceFacts ==
    ASSUME TypeOK
    PROVE  /\ \A k \in 1 .. Len(Blocks) : FirstPiece[k] \in Nat
           /\ FirstPiece[1] = 1
           /\ \A k \in 2 .. Len(Blocks) :
                 FirstPiece[k] = FirstPiece[k - 1] + Pieces[Blocks[k - 1]]
  <1> DEFINE Step == [x \in Int \X Nat |-> x[2] + Pieces[Blocks[x[1] - 1]]]
             N == Len(Blocks)
             IsFirst(s) ==
                s = [k \in 1 .. N |-> IF k = 1 THEN 1
                                      ELSE s[k - 1] + Pieces[Blocks[k - 1]]]
  <1>1. N \in Nat /\ N > 0 /\ \A k \in 1 .. N : Pieces[Blocks[k]] \in Nat
    BY BlocksFacts DEF Pieces
  <1> DEFINE Plus == [x \in Int \X Nat |-> IF x[1] - 1 \in 1 .. N THEN Step[x] ELSE 0]
  <1>2. Plus \in [Int \X Nat -> Nat]
    BY <1>1
  <1> DEFINE f == Recursion(1, N, Nat, 1, Plus)
  <1>3. f \in [1 .. N -> Nat] /\ IsRecursion(f, 1, N, 1, Plus)
    <2> HIDE DEF Plus, N
    <2>1. 1 <= N /\ N \in Int /\ 1 \in Int /\ 1 \in Nat
      BY <1>1
    <2>2. QED
      BY <1>2, <2>1, RecursionExists
  <1> HIDE DEF f
  <1>4. ASSUME NEW k \in 2 .. N
        PROVE  f[k] = f[k - 1] + Pieces[Blocks[k - 1]]
    <2>0. k - 1 \in 1 .. N /\ k \in 1 + 1 .. N
      <3> HIDE DEF N
      <3>1. QED
        BY <1>1
    <2>1. k - 1 \in 1 .. N /\ k \in 1 + 1 .. N /\ f[k - 1] \in Nat
      BY <1>3, <2>0
    <2>2. f[k] = Plus[<<k, f[k - 1]>>]
      BY <1>3, <2>1 DEF IsRecursion
    <2>3. Plus[<<k, f[k - 1]>>] = f[k - 1] + Pieces[Blocks[k - 1]]
      <3> HIDE DEF N
      <3>1. QED
        BY <2>1
    <2>4. QED
      BY <2>2, <2>3
  <1>5. IsFirst(f)
    BY <1>1, <1>3, <1>4 DEF IsRecursion
  <1>6. FirstPiece = CHOOSE s : IsFirst(s)
    BY DEF FirstPiece
  <1>7. IsFirst(FirstPiece)
    <2> HIDE DEF IsFirst
    <2>1. QED
      BY <1>5, <1>6
  <1>8. FirstPiece[1] = 1
    BY <1>1, <1>7
  <1>9. ASSUME NEW k \in 1 + 1 .. N, FirstPiece[k - 1] \in Nat
        PROVE  FirstPiece[k] \in Nat
    <2>1. FirstPiece[k] = FirstPiece[k - 1] + Pieces[Blocks[k - 1]]
      <3>1. k \in 1 .. N /\ k # 1
        BY <1>1, <1>9
      <3>2. QED
        BY <1>7, <3>1
    <2>2. k - 1 \in 1 .. N
      BY <1>1, <1>9
    <2>3. QED
      BY <1>1, <1>9, <2>1, <2>2
  <1>10. QED
    <2>1. FirstPiece[1] \in Nat
      BY <1>8
    <2>2. \A k \in 1 .. N : FirstPiece[k] \in Nat
      <3> HIDE DEF N
      <3>1. N \in Int /\ 1 \in Int
        BY <1>1
      <3>2. QED
        BY <1>9, <2>1, <3>1, RecursionType, Zenon
    <2>3. ASSUME NEW k \in 2 .. N
          PROVE  FirstPiece[k] = FirstPiece[k - 1] + Pieces[Blocks[k - 1]]
      <3>1. k \in 1 .. N /\ k # 1
        BY <1>1
      <3>2. QED
        BY <1>7, <3>1
    <2>4. QED
      BY <1>8, <2>2, <2>3

(* The pieces at hand continue those the inflater has seen. *)
PieceAt(k) == IF k > Len(stream.yields) THEN 0 ELSE k

LEMMA PiecesOfFacts ==
    ASSUME TypeOK, NEW k \in 1 .. Len(Blocks)
    PROVE  /\ PiecesOf(k) \in Seq(Nat) \ {<<>>}
           /\ Len(PiecesOf(k)) = Pieces[Blocks[k]]
           /\ \A i \in 1 .. Len(PiecesOf(k)) : PiecesOf(k)[i] = PieceAt(FirstPiece[k] + i - 1)
  <1>1. FirstPiece[k] \in Nat /\ Pieces[Blocks[k]] \in {1, 2}
    BY FirstPieceFacts, BlocksFacts DEF Pieces
  <1> DEFINE m == Pieces[Blocks[k]]
             first == FirstPiece[k]
             q == [i \in 1 .. m |-> LET p == first + i - 1
                                    IN  IF p > Len(stream.yields) THEN 0 ELSE p]
  <1>2. PiecesOf(k) = q
    BY DEF PiecesOf
  <1>3. q \in [1 .. m -> Nat] /\ q # <<>>
    <2> HIDE DEF m, first
    <2>1. m \in {1, 2} /\ first \in Nat /\ Len(stream.yields) \in Nat
      BY <1>1, StreamFacts DEF m, first
    <2>2. \A i \in 1 .. m : first + i - 1 \in Nat
      <3>1. ASSUME NEW i \in 1 .. m PROVE first + i - 1 \in Nat
        <4>1. i \in Nat /\ i >= 1 /\ first \in Nat
          BY <2>1
        <4>2. QED
          BY <4>1
      <3>2. QED
        BY <3>1
    <2>3. q \in [1 .. m -> Nat]
      BY <2>2
    <2>4. QED
      <3> HIDE DEF q
      <3>1. m \in Nat /\ m >= 1
        BY <2>1
      <3>2. Len(q) = m /\ Len(<<>>) = 0
        BY <2>3, <3>1
      <3>3. QED
        BY <2>3, <3>1, <3>2
  <1>4. q \in Seq(Nat) \ {<<>>} /\ Len(q) = m
    <2> HIDE DEF q, m
    <2>1. m \in Nat
      BY <1>1 DEF m
    <2>2. QED
      BY <1>3, <2>1
  <1>5. \A i \in 1 .. m : q[i] = PieceAt(first + i - 1)
    BY DEF PieceAt
  <1>6. QED
    <2> HIDE DEF q
    <2>1. QED
      BY <1>2, <1>4, <1>5

LEMMA InitSessionRInv == SessionInit => SessionRInv
  <1> SUFFICES ASSUME SessionInit PROVE SessionRInv
    OBVIOUS
  <1>1. RInv
    BY InitRInv DEF SessionInit
  <1>2. 1 \in 1 .. Len(Blocks)
    BY <1>1, BlocksFacts DEF RInv
  <1>3. LineOK
    BY <1>2 DEF SessionInit, InitStream, LineOK
  <1>4. QED
    BY <1>1, <1>3 DEF SessionRInv

LEMMA SessionMakesReceiverStep ==
    ASSUME SessionRInv, [SessionNext]_sessionVars
    PROVE  ReceiverStep
  <1>1. CASE StubWorks
    BY <1>1 DEF StubWorks, ReceiverStep
  <1>2. CASE StubReadsMarker
    <2>1. Head(toStub).marker \in Markers
      <3>1. Head(toStub) \in Items
        BY <1>2 DEF SessionRInv, LineOK, StubReadsMarker
      <3>2. QED
        BY <3>1 DEF Items
    <2>2. QED
      BY <1>2, <2>1 DEF StubReadsMarker, ReceiverStep
  <1>3. CASE StubReadsPacket
    <2> DEFINE item == Head(toStub)
    <2>1. /\ item \in Items /\ item.block \in 1 .. Len(Blocks)
      BY <1>3 DEF SessionRInv, LineOK, StubReadsPacket
    <2>2. item.block \in Nat /\ item.intact \in BOOLEAN
      BY <2>1 DEF Items
    <2>3. item.block % BlockMod \in BlockNumbers
      <3>1. item.block \in Int /\ BlockMod \in Nat \ {0}
        BY <2>2, ConstantFacts
      <3> HIDE DEF item
      <3>2. item.block % BlockMod \in 0 .. BlockMod - 1
        BY <3>1, ModRange
      <3>3. QED
        BY <3>2 DEF BlockNumbers
    <2>4. PiecesOf(item.block) \in Seq(Nat) \ {<<>>}
      BY <2>1, PiecesOfFacts DEF SessionRInv, RInv
    <2>5. QED
      BY <1>3, <2>2, <2>3, <2>4 DEF StubReadsPacket, ReceiverStep
  <1>4. CASE MainLoopSkips \/ HostStep \/ HostTimesOut \/ LoseReply
    BY <1>4 DEF MainLoopSkips, HostStep, HostSend, HostReads, HostTimesOut, LoseReply,
                ReceiverStep
  <1>5. CASE StubTimesOut
    BY <1>5 DEF StubTimesOut, ReceiverStep
  <1>6. CASE UNCHANGED sessionVars
    BY <1>6 DEF sessionVars, ReceiverStep
  <1>7. QED
    BY <1>1, <1>2, <1>3, <1>4, <1>5, <1>6 DEF SessionNext, StubStep

(* The line after a step. *)
LEMMA LineKept ==
    ASSUME SessionRInv, [SessionNext]_sessionVars
    PROVE  LineOK'
  <1> DEFINE Held(s) == /\ s \in Seq(Items)
                        /\ \A k \in 1 .. Len(s) :
                              IsBlock(s[k]) => s[k].block \in 1 .. Len(Blocks)
  <1>1. /\ block \in 1 .. Len(Blocks) /\ Held(toStub)
        /\ pc = "packet" => toStub # <<>> /\ IsBlock(Head(toStub))
    BY DEF SessionRInv, LineOK
  <1>2. ASSUME toStub # <<>>
        PROVE  Held(Tail(toStub))
    BY <1>1, <1>2
  <1>3. ASSUME NEW item \in Items, IsBlock(item) => item.block \in 1 .. Len(Blocks)
        PROVE  Held(Append(toStub, item))
    <2>1. Append(toStub, item) \in Seq(Items)
      BY <1>1, <1>3
    <2>2. ASSUME NEW k \in 1 .. Len(Append(toStub, item))
          PROVE  Append(toStub, item)[k] = IF k = Len(toStub) + 1 THEN item ELSE toStub[k]
      BY <1>1
    <2>3. \A k \in 1 .. Len(Append(toStub, item)) :
              k = Len(toStub) + 1 \/ k \in 1 .. Len(toStub)
      BY <1>1
    <2>4. QED
      BY <1>1, <1>3, <2>1, <2>2, <2>3
  <1>4. Blocks' = Blocks
    <2>1. stream' = stream
      BY SessionMakesReceiverStep
      DEF ReceiverStep, Work, GiveUp, Fetch, Inflate, PutChunk, NextCall, LastFlush,
          FirstTimeout, Timeout, FinishTimeout, ReadMarker, Finish, RefusePacket,
          AcceptPacket, streamVars, commandVars
    <2>2. QED
      BY <2>1 DEF Blocks
  <1> SUFFICES /\ block' \in 1 .. Len(Blocks) /\ Held(toStub')
               /\ pc' = "packet" => toStub' # <<>> /\ IsBlock(Head(toStub'))
    BY <1>4 DEF LineOK
  <1> HIDE DEF Held
  <1>5. CASE StubWorks
    BY <1>1, <1>5 DEF StubWorks, Work, Fetch, Inflate, PutChunk, NextCall, LastFlush,
                     Cancel, hostVars
  <1>6. CASE StubReadsMarker
    <2>1. block' = block /\ toStub # <<>> /\ pc \in {"first", "marker", "finish"}
      BY <1>6 DEF StubReadsMarker, hostVars, ReadMarker, Finish
    <2>2. pc' = "packet" => toStub' = toStub /\ Head(toStub).marker \in {"SOH", "STX"}
      BY <1>6 DEF StubReadsMarker, ReadMarker, Finish, Cancel
    <2>3. pc' # "packet" => toStub' = Tail(toStub)
      BY <1>6 DEF StubReadsMarker
    <2>4. QED
      BY <1>1, <1>2, <2>1, <2>2, <2>3 DEF IsBlock
  <1>7. CASE StubReadsPacket
    <2>1. block' = block /\ toStub # <<>> /\ toStub' = Tail(toStub) /\ pc' # "packet"
      BY <1>7 DEF StubReadsPacket, hostVars, RefusePacket, AcceptPacket, Cancel
    <2>2. QED
      BY <1>1, <1>2, <2>1
  <1>8. CASE MainLoopSkips
    <2>1. block' = block /\ toStub # <<>> /\ toStub' = Tail(toStub) /\ pc' # "packet"
      BY <1>8 DEF MainLoopSkips, hostVars, streamVars
    <2>2. QED
      BY <1>1, <1>2, <2>1
  <1>9. CASE StubTimesOut
    <2>1. block' = block /\ toStub' = toStub /\ pc' # "packet"
      <3>1. pc # "packet"
        BY <1>1, <1>9 DEF StubTimesOut
      <3>2. QED
        BY <1>9, <3>1 DEF StubTimesOut, hostVars, GiveUp, FirstTimeout, Timeout,
                          FinishTimeout, Cancel
    <2>2. QED
      BY <1>1, <2>1
  <1>10. CASE HostSend
    <2>1. block' = block /\ pc' = pc
      BY <1>10 DEF HostSend, streamVars
    <2>2. PICK item \in Items :
             /\ IsBlock(item) => item.block \in 1 .. Len(Blocks)
             /\ toStub' \in {toStub, Append(toStub, item)}
      <3>1. ASSUME NEW m \in Markers, NEW b \in Nat, Transmit(Item(m, b)),
                   m \in {"SOH", "STX"} => b \in 1 .. Len(Blocks)
            PROVE  \E item \in Items :
                       /\ IsBlock(item) => item.block \in 1 .. Len(Blocks)
                       /\ toStub' \in {toStub, Append(toStub, item)}
        <4> DEFINE whole == [marker |-> m, block |-> b, intact |-> TRUE]
                   hurt == [whole EXCEPT !.intact = FALSE]
                   noise == [marker |-> "junk", block |-> 0, intact |-> TRUE]
        <4>1. /\ {whole, hurt, noise} \subseteq Items
              /\ \A item \in {whole, hurt, noise} :
                     IsBlock(item) => item.block \in 1 .. Len(Blocks)
          <5>1. {whole, noise} \subseteq Items
            BY <3>1 DEF Items, Markers
          <5>2. hurt \in Items /\ hurt.marker = m /\ hurt.block = b
            BY <3>1 DEF Items
          <5>3. QED
            BY <3>1, <5>1, <5>2 DEF IsBlock
        <4>2. \E item \in {whole, hurt, noise} : toStub' \in {toStub, Append(toStub, item)}
          <5>1. Item(m, b) = whole /\ Item("junk", 0) = noise
            BY DEF Item
          <5>2. \/ toStub' = Append(toStub, whole)
                \/ toStub' = toStub
                \/ toStub' = Append(toStub, IF whole.marker = "EOT" THEN noise ELSE hurt)
            <6> HIDE DEF whole, hurt, noise
            <6>1. QED
              BY <3>1, <5>1 DEF Transmit, hurt
          <5>3. QED
            <6> HIDE DEF whole, hurt, noise
            <6>1. QED
              BY <5>2
        <4>3. QED
          BY <4>1, <4>2
      <3>2. Blocks[block] \in {"SOH", "STX"} /\ block \in Nat
        BY <1>1, BlocksFacts DEF SessionRInv, RInv
      <3>3. CASE Transmit(Item(Blocks[block], block))
        BY <1>1, <3>1, <3>2, <3>3 DEF Markers
      <3>4. CASE Transmit(Item("EOT", 0))
        BY <3>1, <3>4 DEF Markers
      <3>5. QED
        BY <1>10, <3>3, <3>4 DEF HostSend
    <2>3. Held(toStub')
      BY <1>1, <1>3, <2>2
    <2>4. toStub # <<>> => toStub' # <<>> /\ Head(toStub') = Head(toStub)
      <3>1. toStub \in Seq(Items)
        BY <1>1 DEF Held
      <3>2. QED
        BY <2>2, <3>1
    <2>5. QED
      BY <1>1, <2>1, <2>3, <2>4
  <1>11. CASE HostReads
    <2>1. toStub' = toStub /\ pc' = pc
      BY <1>11 DEF HostReads, streamVars
    <2>2. block' = block \/ (block < Len(Blocks) /\ block' = block + 1)
      BY <1>11 DEF HostReads, Acknowledged, Again
    <2>3. QED
      BY <1>1, <2>1, <2>2
  <1>12. CASE HostTimesOut \/ LoseReply \/ UNCHANGED sessionVars
    BY <1>1, <1>12 DEF HostTimesOut, Again, LoseReply, sessionVars, streamVars, hostVars
  <1>13. QED
    BY <1>5, <1>6, <1>7, <1>8, <1>9, <1>10, <1>11, <1>12
    DEF SessionNext, StubStep, HostStep

(* What holds of the receiver in every session. *)
THEOREM SessionInvariant == SessionSpec => []SessionRInv
  <1>1. SessionInit => SessionRInv
    BY InitSessionRInv
  <1>2. SessionRInv /\ [SessionNext]_sessionVars => SessionRInv'
    BY SessionMakesReceiverStep, LineKept, ReceiverKeepsRInv DEF SessionRInv
  <1>3. QED
    BY <1>1, <1>2, PTL DEF SessionSpec

(* Type correctness of the compressed receiver, whatever the line does. *)
THEOREM TypeCorrect == SessionSpec => []TypeOK
  <1>1. SessionRInv => TypeOK
    BY DEF SessionRInv, RInv
  <1>2. QED
    BY <1>1, SessionInvariant, PTL

(* No unit outside the image changes, but for the sectors it begins in.    *)
THEOREM OnlyTheImageChanges == SessionSpec => []OnlyImageChanges
  <1>1. SessionRInv => OnlyImageChanges
    BY DEF SessionRInv, RInv
  <1>2. QED
    BY <1>1, SessionInvariant, PTL

(* As long as the inflater was given the stream in order, what has left the*)
(* page buffer is in the chip as the file has it.                          *)
THEOREM InOrderImageIntact == SessionSpec => [](tinfl.intact => ImageIntact)
  <1>1. SessionRInv => (tinfl.intact => ImageIntact)
    BY DEF SessionRInv, RInv, FileHeld
  <1>2. QED
    BY <1>1, SessionInvariant, PTL

-----------------------------------------------------------------------------
(* The refinement of the abstract write. *)

Image == [i \in 0 .. Committed - 1 |-> IF Clean(i) THEN flash[off + i] ELSE File[i]]

LEMMA ImageType ==
    RInv => /\ Image \in Write!Images(Committed)
            /\ Committed \in 0 .. Length /\ Committed \in Nat
            /\ Len(page) \in Nat /\ written \in Nat
            /\ Committed = written - Len(page)
  <1> SUFFICES ASSUME RInv
               PROVE  /\ Image \in Write!Images(Committed)
                      /\ Committed \in 0 .. Length /\ Committed \in Nat
                      /\ Len(page) \in Nat /\ written \in Nat
                      /\ Committed = written - Len(page)
    OBVIOUS
  <1>1. /\ Committed \in Nat /\ Committed <= Length /\ Length \in Nat
        /\ Len(page) \in Nat /\ written \in Nat /\ Committed = written - Len(page)
    BY PlaceFacts, StartFacts DEF RInv
  <1>2. ASSUME NEW i \in 0 .. Committed - 1
        PROVE  (IF Clean(i) THEN flash[off + i] ELSE File[i]) \in Readable
    <2>1. i \in 0 .. Length - 1
      BY <1>1
    <2>2. File[i] \in Readable
      BY <2>1, StreamAssumption
    <2>3. QED
      BY <2>2 DEF RInv, FileHeld
  <1>3. Image \in Write!Images(Committed)
    BY <1>2 DEF Image, Write!Images
  <1>4. Committed \in 0 .. Length
    BY <1>1
  <1>5. QED
    BY <1>1, <1>3, <1>4

LEMMA ImageTypeNext ==
    RInv' => (/\ Image \in Write!Images(Committed)
              /\ Committed \in 0 .. Length /\ Committed \in Nat
              /\ Len(page) \in Nat /\ written \in Nat
              /\ Committed = written - Len(page))'
  BY ImageType, PTL

(* A step that keeps the image makes it longer or leaves it as it is. *)
LEMMA KeptImage ==
    ASSUME RInv, RInv', ImageKept
    PROVE  /\ \A i \in 0 .. Committed - 1 : Image'[i] = Image[i]
           /\ Committed' = Committed => Image' = Image
  <1>1. /\ Committed \in Nat /\ Committed' \in Nat /\ Committed <= Committed'
        /\ Committed <= Length /\ off \in Nat /\ Here = off + Committed /\ Length \in Nat
    BY ImageType, ImageTypeNext, PlaceFacts, StartFacts DEF RInv, ImageKept
  <1>2. \A i : Clean(i)' = Clean(i)
    BY DEF ImageKept, Clean
  <1>3. ASSUME NEW i \in 0 .. Committed - 1
        PROVE  flash'[off' + i] = flash[off + i]
    <2>1. off + i < Here /\ i \in 0 .. Length - 1
      BY <1>1
    <2>2. off + i \in Addrs
      BY <2>1, StartFacts DEF RInv
    <2>3. QED
      BY <2>1, <2>2 DEF ImageKept
  <1>4. ASSUME NEW i \in 0 .. Committed - 1
        PROVE  Image'[i] = Image[i]
    <2>1. i \in 0 .. Committed' - 1
      <3>1. Committed \in Nat /\ Committed' \in Nat /\ Committed <= Committed'
        BY <1>1
      <3>2. QED
        BY <3>1, IntervalGrows
    <2>2. /\ Image[i] = IF Clean(i) THEN flash[off + i] ELSE File[i]
          /\ Image'[i] = IF Clean(i)' THEN flash'[off' + i] ELSE File[i]
      BY <2>1 DEF Image
    <2>3. QED
      BY <1>2, <1>3, <2>2
  <1>5. ASSUME Committed' = Committed
        PROVE  Image' = Image
    <2>1. Image' = [i \in 0 .. Committed - 1 |->
                       IF Clean(i) THEN flash'[off' + i] ELSE File[i]]
      BY <1>2, <1>5 DEF Image
    <2>2. QED
      BY <1>3, <2>1 DEF Image
  <1>6. QED
    BY <1>4, <1>5

(* The chip is written by the page buffer only. *)
LEMMA QuietKeepsImage ==
    ASSUME RInv, UNCHANGED <<commandVars, flashVars>>
    PROVE  ImageKept /\ Committed' = Committed
  <1>1. off' = off /\ before' = before /\ flash' = flash /\ written' = written /\ page' = page
    BY DEF commandVars, flashVars
  <1>2. Committed' = Committed /\ Committed \in Nat
    BY <1>1, ImageType DEF Committed
  <1>3. QED
    BY <1>1, <1>2 DEF ImageKept

(* Every step of the receiver is a step of the abstract write or none.     *)
LEMMA WriteStep ==
    ASSUME RInv, RInv', ReceiverStep
    PROVE  [Write!Next]_(Write!imageVars)
  <1>1. CASE PutChunk \/ LastFlush
    <2>1. ImageKept /\ result' = result /\ result = "busy"
      BY <1>1, PutChunkStep, LastFlushStep DEF PutChunk, LastFlush, RInv, PhaseOK
    <2>2. CASE Committed' = Committed
      BY <2>1, <2>2, KeptImage DEF Write!imageVars, Image
    <2>3. CASE Committed' # Committed
      <3>1. Committed < Committed'
        BY <2>1, <2>3, ImageType, ImageTypeNext DEF ImageKept
      <3>2. /\ Committed \in 0 .. Length /\ Committed' \in 0 .. Length
            /\ Image \in Write!Images(Committed) /\ Image' \in Write!Images(Committed')
        BY ImageType, ImageTypeNext
      <3>3. \A i \in 0 .. Committed - 1 : Image'[i] = Image[i]
        BY <2>1, KeptImage
      <3>4. Write!Extend
        BY <2>1, <3>1, <3>2, <3>3 DEF Write!Extend, Image
      <3>5. QED
        BY <3>4 DEF Write!Next
    <2>4. QED
      BY <2>2, <2>3
  <1>2. CASE UNCHANGED <<commandVars, flashVars>> /\ result' = result
    BY <1>2, QuietKeepsImage, KeptImage DEF Write!imageVars, Image
  <1>3. CASE UNCHANGED <<commandVars, flashVars>> /\ result = "busy" /\ result' = "fail"
    BY <1>3, QuietKeepsImage, KeptImage DEF Write!Next, Write!Fail, Image
  <1>4. CASE UNCHANGED <<commandVars, flashVars>> /\ result' = "ok" /\ pc = "finish"
    <2>1. result = "busy" /\ written = Length /\ Len(page) = 0
      BY <1>4 DEF RInv, PhaseOK
    <2>2. Committed = Length /\ Image' = Image
      BY <1>4, <2>1, ImageType, QuietKeepsImage, KeptImage
    <2>3. Image \in Write!Images(Length)
      BY <2>2, ImageType
    <2>4. QED
      BY <1>4, <2>1, <2>2, <2>3 DEF Write!Next, Write!Succeed, Image
  <1>5. \/ PutChunk \/ LastFlush
        \/ /\ UNCHANGED <<commandVars, flashVars>>
           /\ \/ result' = result
              \/ result = "busy" /\ result' = "fail"
              \/ result' = "ok" /\ pc = "finish"
    <2>1. pc # "done" => result = "busy"
      BY DEF RInv, PhaseOK
    <2>2. CASE Work
      BY <2>1, <2>2 DEF Work, Fetch, Inflate, NextCall, Cancel
    <2>3. CASE GiveUp
      BY <2>1, <2>3 DEF GiveUp, FirstTimeout, Timeout, FinishTimeout, Cancel
    <2>4. ASSUME NEW m \in Markers, ReadMarker(m) \/ Finish(m)
          PROVE  /\ UNCHANGED <<commandVars, flashVars>>
                 /\ \/ result' = result
                    \/ result = "busy" /\ result' = "fail"
                    \/ result' = "ok" /\ pc = "finish"
      BY <2>1, <2>4 DEF ReadMarker, Finish, Cancel
    <2>5. ASSUME NEW no, NEW intact, NEW pieces,
                 RefusePacket(no, intact) \/ AcceptPacket(no, pieces)
          PROVE  /\ UNCHANGED <<commandVars, flashVars>>
                 /\ \/ result' = result
                    \/ result = "busy" /\ result' = "fail"
      BY <2>1, <2>5 DEF RefusePacket, AcceptPacket, Cancel
    <2>6. CASE UNCHANGED streamVars
      BY <2>6 DEF streamVars
    <2>7. QED
      BY <2>2, <2>3, <2>4, <2>5, <2>6 DEF ReceiverStep
  <1>6. QED
    BY <1>1, <1>2, <1>3, <1>4, <1>5

(* The compressed receiver implements the abstract write of FlashImage: in *)
(* any session the image in the chip only grows at its end, keeps what has *)
(* been committed, and success is reported for a complete one only.        *)
THEOREM StreamImplementsWrite == SessionSpec => ImplementsWrite
  <1>1. SessionInit => Write!Init
    <2> SUFFICES ASSUME SessionInit PROVE Write!Init
      OBVIOUS
    <2>1. RInv /\ Committed = 0 /\ result = "busy"
      <3>1. written = 0 /\ Len(page) = 0 /\ result = "busy"
        BY DEF SessionInit, InitStream
      <3>2. QED
        BY <3>1, InitRInv DEF SessionInit, Committed
    <2>2. Image \in Write!Images(0)
      BY <2>1, ImageType
    <2>3. QED
      BY <2>1, <2>2 DEF Write!Init, Image
  <1>2. SessionRInv /\ SessionRInv' /\ [SessionNext]_sessionVars =>
            [Write!Next]_(Write!imageVars)
    BY SessionMakesReceiverStep, WriteStep DEF SessionRInv
  <1>3. QED
    BY <1>1, <1>2, SessionInvariant, PTL DEF SessionSpec, Write!Spec, ImplementsWrite

-----------------------------------------------------------------------------
(* The protocol with a patient host: one packet, one held ACK or one answer*)
(* is under way at a time, so the stub takes every block once and in order.*)

(* The pieces at hand continue those the inflater has seen. *)
InOrder ==
    /\ tinfl.intact
    /\ \A i \in 1 .. Len(input) : input[i] = PieceAt(tinfl.seen + i)
    /\ pc \in {"fetch", "first", "marker", "packet"} => input = <<>>

(* The ACK that is held back belongs to the block being inflated. *)
HeldBack ==
    /\ pc \in {"inflate", "put", "flush"} => rx.pendingAck
    /\ pc \in {"first", "marker", "packet", "finish"} => ~rx.pendingAck

(* All blocks up to b have gone to the inflater, and none after it. *)
Position == tinfl.seen + Len(input)
Fed(b) == b < Len(Blocks) => FirstPiece[b + 1] = Position + 1
Wanted == rx.expected = block % BlockMod /\ Fed(block - 1)
Taken  == rx.expected = (block + 1) % BlockMod /\ Fed(block)

NoAnswer(s) == \A k \in 1 .. Len(s) : s[k] = "C"
OneAnswer(s, b) ==
    \E k \in 1 .. Len(s) : s[k] = b /\ \A j \in 1 .. Len(s) : j # k => s[j] = "C"

Quiet == toStub = <<>> /\ ~rx.pendingAck /\ NoAnswer(toHost)
OnLine == /\ Len(toStub) = 1
          /\ IsBlock(toStub[1]) => toStub[1].block = block
          /\ ~rx.pendingAck /\ NoAnswer(toHost)
Held == toStub = <<>> /\ rx.pendingAck /\ NoAnswer(toHost) /\ Taken
Answered ==
    /\ toStub = <<>> /\ ~rx.pendingAck
    /\ \/ OneAnswer(toHost, "NAK")
       \/ OneAnswer(toHost, "ACK") /\ Taken

Turns ==
    /\ host = "wait" => Quiet /\ Wanted
    /\ host = "send" => Quiet /\ (Wanted \/ Taken)
    /\ host = "eot"  => Quiet /\ Taken
    /\ host = "reply"    => (Wanted \/ Taken) /\ (Quiet \/ OnLine \/ Held \/ Answered)
    /\ host = "eotReply" => Taken /\ (Quiet \/ OnLine \/ Held \/ Answered)
    /\ HostOver => toStub = <<>>

Hosts == {"wait", "send", "reply", "eot", "eotReply", "ok", "fail"}
Replies == {"C", "ACK", "NAK", "CAN"}
ProtocolInv ==
    /\ host \in Hosts /\ toHost \in Seq(Replies)
    /\ HeldBack
    /\ patient => InOrder /\ (pc # "done" => Turns)

(* What is under way to the host when an answer is sent or read. *)
LEMMA AnswersSent ==
    ASSUME NEW s \in Seq(Replies), NEW b \in Replies
    PROVE  /\ s \o <<>> = s /\ s \o <<b>> \in Seq(Replies)
           /\ NoAnswer(s) => NoAnswer(s \o <<"C">>) /\ OneAnswer(s \o <<b>>, b)
           /\ OneAnswer(s, b) => OneAnswer(s \o <<"C">>, b)
  <1>1. s \o <<>> = s /\ \A c \in Replies : s \o <<c>> \in Seq(Replies)
    OBVIOUS
  <1>2. ASSUME NEW c \in Replies
        PROVE  /\ Len(s \o <<c>>) = Len(s) + 1 /\ (s \o <<c>>)[Len(s) + 1] = c
               /\ \A k \in 1 .. Len(s) : (s \o <<c>>)[k] = s[k]
    OBVIOUS
  <1>3. \A k \in 1 .. Len(s) + 1 : k \in 1 .. Len(s) \/ k = Len(s) + 1
    OBVIOUS
  <1>4. Len(s) + 1 \in 1 .. Len(s) + 1 /\ 1 .. Len(s) \subseteq 1 .. Len(s) + 1
        /\ Len(s) + 1 \notin 1 .. Len(s)
    OBVIOUS
  <1>5. NoAnswer(s) => NoAnswer(s \o <<"C">>)
    BY <1>2, <1>3 DEF NoAnswer, Replies
  <1>6. NoAnswer(s) => OneAnswer(s \o <<b>>, b)
    BY <1>2, <1>3, <1>4 DEF NoAnswer, OneAnswer
  <1>7. OneAnswer(s, b) => OneAnswer(s \o <<"C">>, b)
    <2>1. SUFFICES ASSUME NEW k \in 1 .. Len(s), s[k] = b,
                          \A j \in 1 .. Len(s) : j # k => s[j] = "C"
                   PROVE  OneAnswer(s \o <<"C">>, b)
      BY DEF OneAnswer
    <2>2. "C" \in Replies
      BY DEF Replies
    <2>3. \A j \in 1 .. Len(s) + 1 : j # k => (s \o <<"C">>)[j] = "C"
      BY <1>2, <1>3, <2>1, <2>2
    <2>4. QED
      BY <1>2, <1>4, <2>1, <2>2, <2>3 DEF OneAnswer
  <1>8. QED
    BY <1>1, <1>5, <1>6, <1>7

LEMMA AnswersRead ==
    ASSUME NEW s \in Seq(Replies), s # <<>>, NEW b \in Replies \ {"C"}
    PROVE  /\ Head(s) \in Replies /\ Tail(s) \in Seq(Replies)
           /\ NoAnswer(s) => NoAnswer(Tail(s)) /\ Head(s) = "C"
           /\ OneAnswer(s, b) => \/ Head(s) = "C" /\ OneAnswer(Tail(s), b)
                                 \/ Head(s) = b /\ NoAnswer(Tail(s))
  <1>1. /\ Head(s) \in Replies /\ Tail(s) \in Seq(Replies) /\ Head(s) = s[1]
        /\ Len(s) \in Nat /\ Len(s) > 0 /\ Len(Tail(s)) = Len(s) - 1
    OBVIOUS
  <1>2. \A k \in 1 .. Len(Tail(s)) : Tail(s)[k] = s[k + 1] /\ k + 1 \in 1 .. Len(s)
    BY <1>1
  <1>3. 1 \in 1 .. Len(s)
    BY <1>1
  <1>4. NoAnswer(s) => NoAnswer(Tail(s)) /\ Head(s) = "C"
    BY <1>1, <1>2, <1>3 DEF NoAnswer
  <1>5. ASSUME NEW k \in 1 .. Len(s), s[k] = b,
               \A j \in 1 .. Len(s) : j # k => s[j] = "C"
        PROVE  \/ Head(s) = "C" /\ OneAnswer(Tail(s), b)
               \/ Head(s) = b /\ NoAnswer(Tail(s))
    <2>1. CASE k = 1
      <3>1. \A j \in 1 .. Len(Tail(s)) : j + 1 # 1
        OBVIOUS
      <3>2. QED
        BY <1>1, <1>2, <1>5, <2>1, <3>1 DEF NoAnswer
    <2>2. CASE k # 1
      <3>1. k - 1 \in 1 .. Len(Tail(s)) /\ (k - 1) + 1 = k
        BY <1>1, <2>2
      <3>2. Tail(s)[k - 1] = b
        BY <1>2, <1>5, <3>1
      <3>3. \A j \in 1 .. Len(Tail(s)) : j # k - 1 => j + 1 # k
        BY <3>1
      <3>4. \A j \in 1 .. Len(Tail(s)) : j # k - 1 => Tail(s)[j] = "C"
        BY <1>2, <1>5, <3>3
      <3>5. OneAnswer(Tail(s), b)
        BY <3>1, <3>2, <3>4 DEF OneAnswer
      <3>6. QED
        BY <1>1, <1>3, <1>5, <2>2, <3>5
    <2>3. QED
      BY <2>1, <2>2
  <1>6. QED
    BY <1>1, <1>4, <1>5 DEF OneAnswer

(* A stub that has stopped does nothing more. *)
LEMMA DoneIsDone ==
    ASSUME ReceiverStep, pc = "done" PROVE pc' = "done"
  BY DEF ReceiverStep, Work, GiveUp, Fetch, Inflate, PutChunk, NextCall, LastFlush,
         FirstTimeout, Timeout, FinishTimeout, ReadMarker, Finish, RefusePacket,
         AcceptPacket, streamVars

LEMMA HeldBackKept ==
    ASSUME RInv, HeldBack, ReceiverStep
    PROVE  HeldBack'
  <1>1. rx \in [expected : BlockNumbers, pendingAck : BOOLEAN, started : BOOLEAN]
    BY DEF RInv, TypeOK
  <1>2. CASE Work
    BY <1>1, <1>2 DEF HeldBack, Work, Fetch, Inflate, PutChunk, NextCall, LastFlush, Cancel
  <1>3. CASE GiveUp
    BY <1>3 DEF HeldBack, GiveUp, FirstTimeout, Timeout, FinishTimeout, Cancel
  <1>4. ASSUME NEW m \in Markers, ReadMarker(m) \/ Finish(m) PROVE HeldBack'
    BY <1>1, <1>4 DEF HeldBack, ReadMarker, Finish, Cancel
  <1>5. ASSUME NEW no, NEW intact, RefusePacket(no, intact) PROVE HeldBack'
    BY <1>5 DEF HeldBack, RefusePacket, Cancel
  <1>6. ASSUME NEW no, NEW pieces, AcceptPacket(no, pieces) PROVE HeldBack'
    BY <1>1, <1>6 DEF HeldBack, AcceptPacket
  <1>7. CASE UNCHANGED streamVars
    BY <1>7 DEF HeldBack, streamVars
  <1>8. QED
    BY <1>2, <1>3, <1>4, <1>5, <1>6, <1>7 DEF ReceiverStep

(* But for an accepted block, the pieces at hand and those seen stay in    *)
(* order, and as many as they were.                                        *)
Accepts == \E no, pieces : AcceptPacket(no, pieces)

LEMMA InflateInOrder ==
    ASSUME RInv, InOrder, Inflate
    PROVE  InOrder' /\ Position' = Position
  <1>1. /\ pc = "inflate" /\ tinfl \in Inflaters /\ input \in Seq(Nat) /\ input # <<>>
        /\ tinfl.seen \in Nat /\ tinfl.owed \in Nat /\ Len(input) \in Nat
        /\ stream' = stream /\ pc' \in {"put", "done"}
    BY DEF RInv, TypeOK, PhaseOK, Inflaters, Inflate, Cancel, commandVars
  <1>2. \A k : PieceAt(k)' = PieceAt(k)
    BY <1>1 DEF PieceAt
  <1> DEFINE t == Consumed
             n == Emitted
  <1>3. t \in Inflaters /\ n \in Nat /\ n <= t.owed
    BY <1>1, ConsumedFacts, EmittedFacts
  <1>4. /\ tinfl' = [t EXCEPT !.owed = t.owed - n, !.dict = (t.dict + n) % DictUnits]
        /\ input' = IF tinfl.owed > 0 THEN input ELSE Tail(input)
    BY DEF Inflate
  <1>5. tinfl'.seen = t.seen /\ tinfl'.intact = t.intact
    <2> HIDE DEF t, n
    <2>1. QED
      BY <1>3, <1>4 DEF Inflaters
  <1>6. CASE tinfl.owed > 0
    <2>1. t = tinfl /\ input' = input
      BY <1>4, <1>6 DEF Consumed
    <2>2. tinfl'.seen = tinfl.seen /\ tinfl'.intact = tinfl.intact
      BY <1>5, <2>1
    <2>3. QED
      BY <1>1, <1>2, <2>1, <2>2 DEF InOrder, Position
  <1>7. CASE ~(tinfl.owed > 0)
    <2> DEFINE k == tinfl.seen + 1
               b == tinfl.intact /\ Head(input) = k
    <2>1. k <= Len(stream.yields) /\ k \in Nat
      <3>1. tinfl.owed = 0 /\ ~StreamDone
        BY <1>1, <1>7 DEF RInv, PhaseOK
      <3>2. tinfl.seen \in 0 .. Len(stream.yields) /\ Len(stream.yields) \in Nat
        BY StreamFacts DEF RInv, TypeOK
      <3>3. QED
        BY <3>1, <3>2 DEF StreamDone
    <2>2. Head(input) = k
      <3>1. Head(input) = input[1] /\ 1 \in 1 .. Len(input)
        BY <1>1
      <3>2. input[1] = PieceAt(k)
        BY <3>1 DEF InOrder
      <3>3. QED
        BY <2>1, <3>1, <3>2, StreamFacts DEF PieceAt, RInv
    <2>3. t = [tinfl EXCEPT !.seen = k, !.owed = stream.yields[k], !.intact = b]
      BY <1>7 DEF Consumed
    <2>4. b \in BOOLEAN /\ b
      BY <2>2 DEF InOrder
    <2>5. t.seen = k /\ t.intact = b
      <3> HIDE DEF b, k
      <3>1. QED
        BY <1>1, <2>3 DEF Inflaters
    <2>6. tinfl'.seen = k /\ tinfl'.intact
      BY <1>5, <2>4, <2>5
    <2>7. input' = Tail(input)
      BY <1>4, <1>7
    <2>8. ASSUME NEW i \in 1 .. Len(input')
          PROVE  input'[i] = PieceAt(k + i)
      <3>1. i + 1 \in 1 .. Len(input) /\ input'[i] = input[i + 1]
        BY <1>1, <2>7, <2>8
      <3>2. input[i + 1] = PieceAt(tinfl.seen + (i + 1))
        BY <3>1 DEF InOrder
      <3>3. tinfl.seen + (i + 1) = k + i
        BY <1>1, <2>8
      <3>4. QED
        BY <3>1, <3>2, <3>3
    <2>9. Position' = Position
      <3>1. Len(input') = Len(input) - 1
        BY <1>1, <2>7
      <3>2. QED
        BY <1>1, <2>6, <3>1 DEF Position
    <2>10. QED
      BY <1>1, <1>2, <2>6, <2>8, <2>9 DEF InOrder
  <1>8. QED
    BY <1>6, <1>7

LEMMA OrderKept ==
    ASSUME RInv, InOrder, ReceiverStep, ~Accepts
    PROVE  InOrder' /\ Position' = Position /\ rx'.expected = rx.expected
  <1>1. rx \in [expected : BlockNumbers, pendingAck : BOOLEAN, started : BOOLEAN]
    BY DEF RInv, TypeOK
  <1>2. CASE Inflate
    BY <1>2, InflateInOrder DEF Inflate
  <1>3. CASE /\ input' = input /\ tinfl' = tinfl /\ stream' = stream
             /\ rx'.expected = rx.expected
             /\ pc' \in {"fetch", "first", "marker", "packet"} => input = <<>>
    <2>1. \A k : PieceAt(k)' = PieceAt(k)
      BY <1>3 DEF PieceAt
    <2>2. QED
      BY <1>3, <2>1 DEF InOrder, Position
  <1>4. CASE Work
    BY <1>1, <1>2, <1>3, <1>4
    DEF Work, InOrder, Fetch, PutChunk, NextCall, LastFlush, Cancel, commandVars,
        inflateVars
  <1>5. CASE GiveUp
    BY <1>3, <1>5
    DEF GiveUp, InOrder, FirstTimeout, Timeout, FinishTimeout, Cancel, commandVars,
        inflateVars
  <1>6. ASSUME NEW m \in Markers, ReadMarker(m) \/ Finish(m)
        PROVE  InOrder' /\ Position' = Position /\ rx'.expected = rx.expected
    BY <1>1, <1>3, <1>6 DEF InOrder, ReadMarker, Finish, Cancel, commandVars, inflateVars
  <1>7. ASSUME NEW no, NEW intact, RefusePacket(no, intact)
        PROVE  InOrder' /\ Position' = Position /\ rx'.expected = rx.expected
    BY <1>3, <1>7 DEF InOrder, RefusePacket, Cancel, commandVars, inflateVars
  <1>8. CASE UNCHANGED streamVars
    BY <1>3, <1>8 DEF InOrder, streamVars, commandVars, inflateVars
  <1>9. QED
    BY <1>4, <1>5, <1>6, <1>7, <1>8 DEF ReceiverStep, Accepts

(* The wanted block continues the stream. *)
LEMMA AcceptInOrder ==
    ASSUME RInv, InOrder, NEW b \in 1 .. Len(Blocks), NEW no,
           AcceptPacket(no, PiecesOf(b)), FirstPiece[b] = Position + 1
    PROVE  /\ InOrder' /\ stream' = stream
           /\ b < Len(Blocks) => FirstPiece[b + 1] = Position' + 1
  <1>1. /\ input = <<>> /\ Len(input) = 0 /\ tinfl' = tinfl /\ stream' = stream
        /\ input' = PiecesOf(b) /\ pc' = "inflate"
    BY DEF InOrder, AcceptPacket, commandVars
  <1>2. tinfl.seen \in Nat /\ FirstPiece[b] = tinfl.seen + 1
    BY <1>1 DEF RInv, Inflaters, Position
  <1>3. /\ Len(input') = Pieces[Blocks[b]] /\ Len(input') \in Nat
        /\ \A i \in 1 .. Len(input') : input'[i] = PieceAt(FirstPiece[b] + i - 1)
    BY <1>1, PiecesOfFacts DEF RInv
  <1>4. \A k : PieceAt(k)' = PieceAt(k)
    BY <1>1 DEF PieceAt
  <1>5. ASSUME NEW i \in 1 .. Len(input')
        PROVE  input'[i] = PieceAt(tinfl.seen + i)
    <2>1. FirstPiece[b] + i - 1 = tinfl.seen + i
      BY <1>2
    <2>2. QED
      BY <1>3, <2>1
  <1>6. InOrder'
    BY <1>1, <1>4, <1>5 DEF InOrder
  <1>7. ASSUME b < Len(Blocks)
        PROVE  FirstPiece[b + 1] = Position' + 1
    <2>1. b + 1 \in 2 .. Len(Blocks) /\ (b + 1) - 1 = b
      BY <1>7, BlocksFacts DEF RInv
    <2>2. FirstPiece[b + 1] = FirstPiece[b] + Pieces[Blocks[b]]
      BY <2>1, FirstPieceFacts DEF RInv
    <2>3. Position' = tinfl.seen + Pieces[Blocks[b]]
      BY <1>1, <1>3 DEF Position
    <2>4. Pieces[Blocks[b]] \in Nat
      BY <1>3
    <2>5. QED
      BY SMTT(30), <1>2, <2>2, <2>3, <2>4
  <1>8. QED
    BY <1>1, <1>6, <1>7


(* Which block is the stub's turn, while nothing is accepted. *)
LEMMA SamePlace ==
    ASSUME stream' = stream, block' = block, Position' = Position,
           rx'.expected = rx.expected
    PROVE  (Wanted' <=> Wanted) /\ (Taken' <=> Taken)
  <1>1. FirstPiece' = FirstPiece /\ Blocks' = Blocks
    BY DEF FirstPiece, Blocks
  <1>2. QED
    BY <1>1 DEF Wanted, Taken, Fed

LEMMA PlaceSame ==
    ASSUME Wanted' <=> Wanted, Taken' <=> Taken, Turns, toHost \in Seq(Replies),
           UNCHANGED <<host, toStub, block>>, rx'.pendingAck = rx.pendingAck,
           toHost' \in {toHost, toHost \o <<"C">>}
    PROVE  Turns'
  <1>1. NoAnswer(toHost) => NoAnswer(toHost')
    BY AnswersSent DEF Replies
  <1>2. \A b \in Replies : OneAnswer(toHost, b) => OneAnswer(toHost', b)
    BY AnswersSent DEF Replies
  <1>3. (Quiet => Quiet') /\ (OnLine => OnLine') /\ (Held => Held')
    BY <1>1 DEF Quiet, OnLine, Held
  <1>4. Answered => Answered'
    BY <1>2 DEF Answered, Replies
  <1>5. QED
    BY <1>3, <1>4 DEF Turns, HostOver

(* The patient host's session, one action after the other; what the stub   *)
(* does when it has given up does not matter.                              *)
PatientState == SessionRInv /\ ProtocolInv /\ patient /\ pc' # "done"

LEMMA PatientFacts ==
    ASSUME PatientState, [SessionNext]_sessionVars
    PROVE  /\ RInv /\ LineOK /\ ReceiverStep /\ pc # "done"
           /\ HeldBack /\ InOrder /\ Turns
           /\ host \in Hosts /\ toHost \in Seq(Replies) /\ toStub \in Seq(Items)
           /\ rx \in [expected : BlockNumbers, pendingAck : BOOLEAN, started : BOOLEAN]
           /\ block \in 1 .. Len(Blocks) /\ block \in Nat
  <1>1. RInv /\ LineOK /\ ReceiverStep
    BY SessionMakesReceiverStep DEF PatientState, SessionRInv
  <1>2. pc # "done"
    BY <1>1, DoneIsDone DEF PatientState
  <1>3. block \in 1 .. Len(Blocks) /\ toStub \in Seq(Items)
    BY <1>1 DEF LineOK
  <1>4. QED
    BY <1>1, <1>2, <1>3 DEF PatientState, ProtocolInv, RInv, TypeOK

LEMMA StubWorksTurn ==
    ASSUME PatientState, StubWorks
    PROVE  Turns'
  <1>1. [SessionNext]_sessionVars
    BY DEF SessionNext, StubStep
  <1>2. /\ UNCHANGED <<host, block, toStub, patient>> /\ toHost' = toHost \o reply' /\ Work
    BY DEF StubWorks, Answers, hostVars
  <1>3. stream' = stream /\ ~Accepts
    BY <1>2 DEF Work, Fetch, Inflate, PutChunk, NextCall, LastFlush, commandVars, Accepts,
               AcceptPacket
  <1>4. (Wanted' <=> Wanted) /\ (Taken' <=> Taken)
    BY <1>1, <1>2, <1>3, PatientFacts, OrderKept, SamePlace
  <1>5. /\ toHost \in Seq(Replies) /\ Turns /\ HeldBack /\ RInv
        /\ rx \in [expected : BlockNumbers, pendingAck : BOOLEAN, started : BOOLEAN]
        /\ host \in Hosts
    BY <1>1, PatientFacts
  <1>6. CASE rx'.pendingAck = rx.pendingAck /\ reply' \in {<<>>, <<"C">>}
    <2>1. toHost' \in {toHost, toHost \o <<"C">>}
      <3>1. toHost \o <<>> = toHost
        BY <1>5
      <3>2. QED
        BY <1>2, <1>6, <3>1
    <2>2. QED
      BY <1>2, <1>4, <1>5, <1>6, <2>1, PlaceSame
  <1>7. CASE rx.pendingAck /\ ~rx'.pendingAck /\ reply' = <<"ACK">>
    <2>1. (Held /\ host \in {"reply", "eotReply"}) \/ HostOver
      BY <1>5, <1>7 DEF Turns, Quiet, OnLine, Answered, HostOver, Hosts
    <2>2. Held => OneAnswer(toHost', "ACK")
      BY <1>2, <1>5, <1>7, AnswersSent DEF Replies, Held
    <2>3. Held => Answered'
      BY <1>2, <1>4, <1>7, <2>2 DEF Answered, Held
    <2>4. QED
      BY <1>2, <1>4, <1>5, <2>1, <2>3 DEF Turns, HostOver, Held
  <1>8. \/ rx'.pendingAck = rx.pendingAck /\ reply' \in {<<>>, <<"C">>}
        \/ rx.pendingAck /\ ~rx'.pendingAck /\ reply' = <<"ACK">>
    <2>1. CASE Fetch
      <3>1. rx'.pendingAck = FALSE
        BY <1>5, <2>1 DEF Fetch
      <3>2. CASE rx.pendingAck
        <4>1. rx.started
          BY <1>5, <3>2 DEF RInv, PhaseOK
        <4>2. reply' = <<"ACK">> \o <<>>
          BY <2>1, <3>2, <4>1 DEF Fetch
        <4>3. QED
          BY <3>1, <3>2, <4>2
      <3>3. CASE ~rx.pendingAck
        <4>1. reply' = <<>> \o <<>> \/ reply' = <<>> \o <<"C">>
          BY <2>1, <3>3 DEF Fetch
        <4>2. rx'.pendingAck = rx.pendingAck
          BY <1>5, <3>1, <3>3
        <4>3. QED
          BY <4>1, <4>2
      <3>4. QED
        BY <3>2, <3>3
    <2>2. CASE LastFlush
      BY <1>5, <2>2 DEF LastFlush, HeldBack
    <2>3. CASE Inflate \/ PutChunk \/ NextCall
      BY <2>3 DEF PatientState, Inflate, PutChunk, NextCall, Cancel
    <2>4. QED
      BY <1>2, <2>1, <2>2, <2>3 DEF Work
  <1>9. QED
    BY <1>6, <1>7, <1>8

LEMMA StubReadsMarkerTurn ==
    ASSUME PatientState, StubReadsMarker
    PROVE  Turns'
  <1>1. [SessionNext]_sessionVars
    BY DEF SessionNext, StubStep
  <1>2. /\ UNCHANGED <<host, block, patient>> /\ toHost' = toHost \o reply'
        /\ toStub # <<>> /\ toStub' = IF pc' = "packet" THEN toStub ELSE Tail(toStub)
    BY DEF StubReadsMarker, Answers, hostVars
  <1>3. PICK m : ReadMarker(m)
    BY DEF StubReadsMarker, PatientState, Finish, Cancel
  <1>4. stream' = stream /\ ~Accepts
    BY <1>3 DEF ReadMarker, commandVars, Accepts, AcceptPacket
  <1>5. (Wanted' <=> Wanted) /\ (Taken' <=> Taken)
    BY <1>1, <1>2, <1>4, PatientFacts, OrderKept, SamePlace
  <1>6. /\ toHost \in Seq(Replies) /\ Turns /\ toStub \in Seq(Items)
        /\ rx \in [expected : BlockNumbers, pendingAck : BOOLEAN, started : BOOLEAN]
        /\ host \in Hosts
    BY <1>1, PatientFacts
  <1>7. rx'.pendingAck = rx.pendingAck
    BY <1>3, <1>6 DEF ReadMarker
  <1>8. OnLine /\ host \in {"reply", "eotReply"}
    BY <1>2, <1>6 DEF Turns, Quiet, Held, Answered, HostOver, Hosts
  <1>9. CASE pc' = "packet" /\ reply' = <<>>
    <2>1. toHost' = toHost /\ toStub' = toStub
      BY <1>2, <1>6, <1>9
    <2>2. QED
      BY <1>2, <1>5, <1>6, <1>7, <2>1, PlaceSame
  <1>10. CASE pc' = "marker" /\ reply' = <<"NAK">>
    <2>1. toStub' = <<>>
      BY <1>2, <1>6, <1>8, <1>10 DEF OnLine
    <2>2. OneAnswer(toHost', "NAK")
      BY <1>2, <1>6, <1>8, <1>10, AnswersSent DEF Replies, OnLine
    <2>3. Answered'
      BY <1>7, <1>8, <2>1, <2>2 DEF Answered, OnLine
    <2>4. QED
      BY <1>2, <1>5, <1>6, <1>8, <2>3 DEF Turns, HostOver
  <1>11. QED
    BY <1>3, <1>9, <1>10 DEF ReadMarker, PatientState, Cancel


(* The block numbers of the wanted block and of the one before it. *)
LEMMA NumbersApart ==
    ASSUME NEW b \in Nat
    PROVE  /\ b % BlockMod # (b + 1) % BlockMod
           /\ ((b % BlockMod) + 1) % BlockMod = (b + 1) % BlockMod
           /\ Previous((b + 1) % BlockMod) = b % BlockMod
           /\ Previous(b % BlockMod) # b % BlockMod
  <1>1. BlockMod \in Nat \ {0} /\ BlockMod > 1 /\ b \in Int
    BY ConstantFacts, StreamAssumption
  <1>2. /\ ((b % BlockMod) + 1) % BlockMod = (b + 1) % BlockMod
        /\ (b + 1) % BlockMod # b % BlockMod
        /\ (((b + 1) % BlockMod) - 1) % BlockMod = b % BlockMod
        /\ ((b % BlockMod) - 1) % BlockMod # b % BlockMod
    BY <1>1, BlockNumberFacts
  <1>3. QED
    BY <1>2, Zenon DEF Previous

LEMMA AcceptTurn ==
    ASSUME PatientState, StubReadsPacket, OnLine,
           NEW item, item = Head(toStub),
           AcceptPacket(item.block % BlockMod, PiecesOf(item.block))
    PROVE  InOrder' /\ Turns'
  <1>1. [SessionNext]_sessionVars
    BY DEF SessionNext, StubStep
  <1>2. /\ UNCHANGED <<host, block, patient>> /\ toHost' = toHost \o reply'
        /\ toStub # <<>> /\ toStub' = Tail(toStub) /\ pc = "packet"
    BY DEF StubReadsPacket, Answers, hostVars
  <1>3. /\ toHost \in Seq(Replies) /\ Turns /\ toStub \in Seq(Items) /\ LineOK /\ RInv
        /\ rx \in [expected : BlockNumbers, pendingAck : BOOLEAN, started : BOOLEAN]
        /\ host \in Hosts /\ InOrder /\ block \in 1 .. Len(Blocks) /\ block \in Nat
    BY <1>1, PatientFacts
  <1>4. item = toStub[1] /\ item.block = block /\ toStub' = <<>>
    <2>1. item = toStub[1] /\ toStub' = <<>>
      BY <1>2, <1>3 DEF OnLine
    <2>2. IsBlock(item)
      BY <1>2, <1>3 DEF LineOK
    <2>3. QED
      BY <2>1, <2>2 DEF OnLine
  <1>5. /\ AcceptPacket(block % BlockMod, PiecesOf(block))
        /\ block % BlockMod = rx.expected /\ reply' = <<>>
        /\ rx' = [rx EXCEPT !.expected = (rx.expected + 1) % BlockMod, !.pendingAck = TRUE]
    BY <1>4 DEF AcceptPacket
  <1>6. host \in {"reply", "eotReply"} /\ (Wanted \/ Taken)
    BY <1>2, <1>3 DEF Turns, Quiet, HostOver, Hosts
  <1>7. Wanted /\ host = "reply"
    BY <1>3, <1>5, <1>6, NumbersApart DEF Taken, Turns
  <1>8. FirstPiece[block] = Position + 1
    <2>1. (block - 1) + 1 = block /\ block - 1 < Len(Blocks)
      BY <1>3, BlocksFacts DEF RInv
    <2>2. QED
      BY <1>7, <2>1 DEF Wanted, Fed
  <1>9. /\ InOrder' /\ stream' = stream
        /\ block < Len(Blocks) => FirstPiece[block + 1] = Position' + 1
    BY <1>3, <1>5, <1>8, AcceptInOrder
  <1>10. rx'.pendingAck /\ rx'.expected = (block + 1) % BlockMod
    <2>1. rx'.pendingAck /\ rx'.expected = (rx.expected + 1) % BlockMod
      BY <1>3, <1>5
    <2>2. QED
      BY <1>3, <1>5, <2>1, NumbersApart
  <1>11. Taken'
    <2>1. FirstPiece' = FirstPiece /\ Blocks' = Blocks
      BY <1>9 DEF FirstPiece, Blocks
    <2>2. QED
      BY <1>2, <1>9, <1>10, <2>1 DEF Taken, Fed
  <1>12. Held'
    <2>1. toHost' = toHost
      BY <1>2, <1>3, <1>5
    <2>2. QED
      BY <1>4, <1>10, <1>11, <2>1 DEF Held, OnLine
  <1>13. QED
    BY <1>2, <1>7, <1>9, <1>11, <1>12 DEF Turns, HostOver

LEMMA StubReadsPacketTurn ==
    ASSUME PatientState, StubReadsPacket
    PROVE  InOrder' /\ Turns'
  <1>1. [SessionNext]_sessionVars
    BY DEF SessionNext, StubStep
  <1>2. /\ UNCHANGED <<host, block, patient>> /\ toHost' = toHost \o reply'
        /\ toStub # <<>> /\ toStub' = Tail(toStub) /\ pc = "packet"
    BY DEF StubReadsPacket, Answers, hostVars
  <1>3. /\ toHost \in Seq(Replies) /\ Turns /\ toStub \in Seq(Items) /\ LineOK /\ RInv
        /\ rx \in [expected : BlockNumbers, pendingAck : BOOLEAN, started : BOOLEAN]
        /\ host \in Hosts /\ InOrder /\ block \in 1 .. Len(Blocks) /\ block \in Nat
        /\ ReceiverStep
    BY <1>1, PatientFacts
  <1>4. OnLine /\ host \in {"reply", "eotReply"} /\ (Wanted \/ Taken)
    BY <1>2, <1>3 DEF Turns, Quiet, Held, Answered, HostOver, Hosts
  <1> DEFINE item == Head(toStub)
  <1>5. item.block = block /\ toStub' = <<>>
    <2>1. item = toStub[1] /\ toStub' = <<>>
      BY <1>2, <1>3, <1>4 DEF OnLine
    <2>2. IsBlock(item)
      BY <1>2, <1>3 DEF LineOK
    <2>3. QED
      BY <1>4, <2>1, <2>2 DEF OnLine
  <1>6. CASE AcceptPacket(item.block % BlockMod, PiecesOf(item.block))
    BY <1>4, <1>6, AcceptTurn
  <1>7. CASE RefusePacket(block % BlockMod, item.intact)
    <2>1. stream' = stream /\ rx' = rx /\ ~Accepts
      BY <1>7 DEF RefusePacket, commandVars, Accepts, AcceptPacket, PatientState, Cancel
    <2>2. InOrder' /\ (Wanted' <=> Wanted) /\ (Taken' <=> Taken)
      BY <1>2, <1>3, <2>1, OrderKept, SamePlace
    <2>3. CASE reply' = <<"NAK">>
      <3>1. OneAnswer(toHost', "NAK")
        BY <1>2, <1>3, <1>4, <2>3, AnswersSent DEF Replies, OnLine
      <3>2. Answered'
        BY <1>4, <1>5, <2>1, <3>1 DEF Answered, OnLine
      <3>3. QED
        BY <1>2, <1>3, <1>4, <2>2, <3>2 DEF Turns, HostOver
    <2>4. CASE reply' = <<"ACK">> /\ block % BlockMod = Previous(rx.expected)
      <3>1. Taken
        BY <1>3, <1>4, <2>4, NumbersApart DEF Wanted
      <3>2. OneAnswer(toHost', "ACK")
        BY <1>2, <1>3, <1>4, <2>4, AnswersSent DEF Replies, OnLine
      <3>3. Answered'
        BY <1>4, <1>5, <2>1, <2>2, <3>1, <3>2 DEF Answered, OnLine
      <3>4. QED
        BY <1>2, <1>3, <1>4, <2>2, <3>3 DEF Turns, HostOver
    <2>5. QED
      BY <1>7, <2>3, <2>4 DEF RefusePacket, PatientState, Cancel
  <1>8. QED
    BY <1>5, <1>6, <1>7 DEF StubReadsPacket

LEMMA StubTimesOutTurn ==
    ASSUME PatientState, StubTimesOut
    PROVE  Turns'
  <1>1. [SessionNext]_sessionVars
    BY DEF SessionNext
  <1>2. /\ UNCHANGED <<host, block, toStub, patient>> /\ toHost' = toHost \o reply'
        /\ FirstTimeout
    BY DEF StubTimesOut, Answers, hostVars, GiveUp, Timeout, FinishTimeout, Cancel,
           PatientState
  <1>3. stream' = stream /\ ~Accepts /\ rx' = rx /\ reply' = <<"C">>
    BY <1>2 DEF FirstTimeout, commandVars, Accepts, AcceptPacket, PatientState, Cancel
  <1>4. (Wanted' <=> Wanted) /\ (Taken' <=> Taken)
    BY <1>1, <1>2, <1>3, PatientFacts, OrderKept, SamePlace
  <1>5. QED
    BY <1>1, <1>2, <1>3, <1>4, PatientFacts, PlaceSame

-----------------------------------------------------------------------------
(* The host's own steps. *)

(* What the host does leaves the stub where it is. *)
LEMMA StubStays ==
    ASSUME UNCHANGED streamVars
    PROVE  /\ stream' = stream /\ rx' = rx /\ pc' = pc /\ Blocks' = Blocks
           /\ \A b : Fed(b)' <=> Fed(b)
           /\ InOrder => InOrder'
           /\ HeldBack => HeldBack'
  <1>1. /\ stream' = stream /\ rx' = rx /\ pc' = pc /\ tinfl' = tinfl /\ input' = input
    BY DEF streamVars, commandVars, inflateVars
  <1>2. FirstPiece' = FirstPiece /\ Blocks' = Blocks /\ Position' = Position
    BY <1>1 DEF FirstPiece, Blocks, Position
  <1>3. \A b : Fed(b)' <=> Fed(b)
    BY <1>1, <1>2 DEF Fed
  <1>4. QED
    BY <1>1, <1>2, <1>3 DEF InOrder, PieceAt, HeldBack

LEMMA HostSendTurn ==
    ASSUME PatientState, HostSend
    PROVE  Turns'
  <1>1. [SessionNext]_sessionVars
    BY DEF SessionNext, HostStep
  <1>2. /\ block' = block /\ toHost' = toHost /\ UNCHANGED streamVars
    BY DEF HostSend
  <1>3. /\ stream' = stream /\ rx' = rx /\ Position' = Position
    BY <1>2 DEF streamVars, commandVars, inflateVars, Position
  <1>4. (Wanted' <=> Wanted) /\ (Taken' <=> Taken)
    BY <1>2, <1>3, SamePlace
  <1>5. Turns /\ toStub \in Seq(Items) /\ RInv /\ LineOK
    BY <1>1, PatientFacts
  <1>6. /\ Quiet
        /\ \/ host' = "reply" /\ (Wanted \/ Taken)
           \/ host' = "eotReply" /\ Taken
    BY <1>5 DEF HostSend, Turns
  <1>7. \/ toStub' = toStub
        \/ \E item : /\ IsBlock(item) => item.block = block
                     /\ toStub' = Append(toStub, item)
    <2>1. ASSUME NEW m, NEW b, Transmit(Item(m, b)), m = "EOT" \/ b = block
          PROVE  \/ toStub' = toStub
                 \/ \E item : /\ IsBlock(item) => item.block = block
                              /\ toStub' = Append(toStub, item)
      <3> DEFINE whole == Item(m, b)
                 hurt == [whole EXCEPT !.intact = FALSE]
                 noise == Item("junk", 0)
      <3>1. /\ whole.marker = m /\ whole.block = b
            /\ hurt.marker = m /\ hurt.block = b
            /\ noise.marker = "junk"
        BY DEF Item
      <3>2. \A item \in {whole, hurt, noise} : IsBlock(item) => item.block = block
        <4> HIDE DEF whole, hurt, noise
        <4>1. QED
          BY <2>1, <3>1 DEF IsBlock
      <3>3. \/ toStub' = toStub
            \/ \E item \in {whole, hurt, noise} : toStub' = Append(toStub, item)
        BY <2>1 DEF Transmit
      <3>4. QED
        <4> HIDE DEF whole, hurt, noise
        <4>1. QED
          BY <3>2, <3>3
    <2>2. QED
      BY <2>1 DEF HostSend
  <1>8. Quiet' \/ OnLine'
    <2>1. toStub = <<>> /\ Len(toStub) = 0
      BY <1>6 DEF Quiet
    <2>2. CASE toStub' = toStub
      BY <1>2, <1>3, <1>6, <2>2 DEF Quiet
    <2>3. ASSUME NEW item, IsBlock(item) => item.block = block,
                 toStub' = Append(toStub, item)
          PROVE  OnLine'
      <3>1. Len(toStub') = 1 /\ toStub'[1] = item
        BY <2>1, <2>3
      <3>2. QED
        BY <1>2, <1>3, <1>6, <2>3, <3>1 DEF OnLine, Quiet
    <2>4. QED
      BY <1>7, <2>2, <2>3
  <1>9. QED
    BY <1>4, <1>6, <1>8 DEF Turns, HostOver


LEMMA HostReadsTurn ==
    ASSUME PatientState, HostReads
    PROVE  Turns'
  <1>1. [SessionNext]_sessionVars
    BY DEF SessionNext, HostStep
  <1>2. /\ toStub' = toStub /\ toHost' = Tail(toHost) /\ UNCHANGED streamVars
        /\ toHost # <<>> /\ host \in {"wait", "reply", "eotReply"}
    BY DEF HostReads
  <1>3. /\ stream' = stream /\ rx' = rx /\ Position' = Position /\ Blocks' = Blocks
    BY <1>2, StubStays DEF streamVars, commandVars, inflateVars, Position
  <1>4. Turns /\ toHost \in Seq(Replies) /\ RInv /\ block \in 1 .. Len(Blocks) /\ block \in Nat
    BY <1>1, PatientFacts
  <1> DEFINE b == Head(toHost)
  <1>5. /\ NoAnswer(toHost) => NoAnswer(toHost') /\ b = "C"
        /\ OneAnswer(toHost, "ACK") => \/ b = "C" /\ OneAnswer(toHost', "ACK")
                                       \/ b = "ACK" /\ NoAnswer(toHost')
        /\ OneAnswer(toHost, "NAK") => \/ b = "C" /\ OneAnswer(toHost', "NAK")
                                       \/ b = "NAK" /\ NoAnswer(toHost')
    BY <1>2, <1>4, AnswersRead DEF Replies
  <1>6. CASE b = "C"
    <2>1. block' = block /\ (host' = host \/ (host = "wait" /\ host' = "send"))
      BY <1>2, <1>6 DEF HostReads
    <2>2. (Wanted' <=> Wanted) /\ (Taken' <=> Taken)
      BY <1>3, <2>1, SamePlace
    <2>3. (Quiet => Quiet') /\ (OnLine => OnLine') /\ (Held => Held')
      BY <1>2, <1>3, <1>5, <2>1, <2>2 DEF Quiet, OnLine, Held
    <2>4. Answered => Answered'
      BY <1>2, <1>3, <1>5, <1>6, <2>2 DEF Answered
    <2>5. QED
      BY <1>2, <1>4, <2>1, <2>2, <2>3, <2>4 DEF Turns, HostOver
  <1>7. CASE b # "C"
    <2>1. /\ Answered /\ host \in {"reply", "eotReply"} /\ (Wanted \/ Taken)
          /\ host = "eotReply" => Taken
      BY <1>2, <1>4, <1>5, <1>7 DEF Turns, Quiet, OnLine, Held
    <2>2. Quiet'
      BY <1>2, <1>3, <1>5, <1>7, <2>1 DEF Answered, Quiet
    <2>3. CASE b = "NAK"
      <3>1. Again
        BY <1>2, <2>1, <2>3 DEF HostReads
      <3>2. block' = block /\ host' \in {"fail", "send", "eot"}
            /\ (host' = "eot" => host = "eotReply")
        BY <2>1, <3>1 DEF Again
      <3>3. (Wanted' <=> Wanted) /\ (Taken' <=> Taken)
        BY <1>3, <3>2, SamePlace
      <3>4. QED
        BY <2>1, <2>2, <3>2, <3>3 DEF Turns, HostOver, Quiet
    <2>4. CASE b = "ACK"
      <3>1. Acknowledged /\ Taken
        <4>1. OneAnswer(toHost, "ACK") /\ Taken
          BY <1>5, <2>1, <2>4 DEF Answered
        <4>2. QED
          BY <1>2, <2>1, <2>4, <4>1 DEF HostReads
      <3>2. CASE host = "eotReply"
        <4>1. host' = "ok"
          BY <3>1, <3>2 DEF Acknowledged
        <4>2. QED
          BY <2>2, <4>1 DEF Turns, HostOver, Quiet
      <3>3. CASE host = "reply" /\ block < Len(Blocks)
        <4>1. host' = "send" /\ block' = block + 1
          BY <3>1, <3>3 DEF Acknowledged
        <4>2. Wanted'
          <5>1. FirstPiece' = FirstPiece
            BY <1>3 DEF FirstPiece, Blocks
          <5>2. block' - 1 = block
            BY <1>4, <4>1
          <5>3. QED
            BY <1>3, <3>1, <4>1, <5>1, <5>2 DEF Wanted, Taken, Fed
        <4>3. QED
          BY <2>2, <4>1, <4>2 DEF Turns, HostOver
      <3>4. CASE host = "reply" /\ ~(block < Len(Blocks))
        <4>1. host' = "eot" /\ block' = block
          BY <3>1, <3>4 DEF Acknowledged
        <4>2. Taken'
          BY <1>3, <3>1, <4>1, SamePlace
        <4>3. QED
          BY <2>2, <4>1, <4>2 DEF Turns, HostOver
      <3>5. QED
        BY <2>1, <3>2, <3>3, <3>4
    <2>5. QED
      BY <1>5, <1>7, <2>1, <2>3, <2>4 DEF Answered
  <1>8. QED
    BY <1>6, <1>7

LEMMA HostTimesOutTurn ==
    ASSUME PatientState, HostTimesOut
    PROVE  Turns'
  <1>1. [SessionNext]_sessionVars
    BY DEF SessionNext
  <1>2. /\ toStub' = toStub /\ toHost' = toHost /\ UNCHANGED streamVars /\ toHost = <<>>
        /\ block' = block
    BY DEF HostTimesOut, Again
  <1>3. /\ stream' = stream /\ rx' = rx /\ Position' = Position /\ pc' = pc
    BY <1>2 DEF streamVars, commandVars, inflateVars, Position
  <1>4. Turns /\ HeldBack /\ pc # "done" /\ patient
    BY <1>1, PatientFacts DEF PatientState
  <1>5. (Wanted' <=> Wanted) /\ (Taken' <=> Taken)
    BY <1>2, <1>3, SamePlace
  <1>6. /\ host \in {"reply", "eotReply"} /\ NothingComing
        /\ host' \in {"fail", "send", "eot"} /\ (host' = "eot" => host = "eotReply")
    BY <1>3, <1>4 DEF HostTimesOut, Again, PatientState
  <1>7. toStub = <<>> /\ ~rx.pendingAck
    BY <1>4, <1>6 DEF NothingComing, HeldBack
  <1>8. Quiet'
    BY <1>2, <1>3, <1>7 DEF Quiet, NoAnswer
  <1>9. QED
    BY <1>4, <1>5, <1>6, <1>8 DEF Turns, HostOver, Quiet

LEMMA LoseReplyTurn ==
    ASSUME PatientState, LoseReply
    PROVE  Turns'
  <1>1. [SessionNext]_sessionVars
    BY DEF SessionNext
  <1>2. /\ UNCHANGED <<host, block, toStub>> /\ toHost' = Tail(toHost)
        /\ UNCHANGED streamVars /\ toHost # <<>>
    BY DEF LoseReply, hostVars
  <1>3. /\ stream' = stream /\ rx' = rx /\ Position' = Position
    BY <1>2 DEF streamVars, commandVars, inflateVars, Position
  <1>4. Turns /\ toHost \in Seq(Replies)
    BY <1>1, PatientFacts
  <1>5. (Wanted' <=> Wanted) /\ (Taken' <=> Taken)
    BY <1>2, <1>3, SamePlace
  <1>6. /\ NoAnswer(toHost) => NoAnswer(toHost')
        /\ OneAnswer(toHost, "ACK") => OneAnswer(toHost', "ACK") \/ NoAnswer(toHost')
        /\ OneAnswer(toHost, "NAK") => OneAnswer(toHost', "NAK") \/ NoAnswer(toHost')
    BY <1>2, <1>4, AnswersRead DEF Replies
  <1>7. (Quiet => Quiet') /\ (OnLine => OnLine') /\ (Held => Held')
    BY <1>2, <1>3, <1>5, <1>6 DEF Quiet, OnLine, Held
  <1>8. Answered => Answered' \/ Quiet'
    BY <1>2, <1>3, <1>5, <1>6 DEF Answered, Quiet
  <1>9. QED
    BY <1>2, <1>4, <1>5, <1>7, <1>8 DEF Turns, HostOver

-----------------------------------------------------------------------------
(* The hosts and what they are told, patient or not. *)
LEMMA RepliesType ==
    ASSUME SessionRInv, ProtocolInv, [SessionNext]_sessionVars
    PROVE  host' \in Hosts /\ toHost' \in Seq(Replies) /\ patient' = patient
  <1>1. host \in Hosts /\ toHost \in Seq(Replies) /\ RInv'
    BY SessionMakesReceiverStep, ReceiverKeepsRInv DEF SessionRInv, ProtocolInv
  <1>2. reply' \in Seq(Replies)
    <2>1. /\ <<>> \in Seq(Replies) /\ <<"C">> \in Seq(Replies) /\ <<"ACK">> \in Seq(Replies)
          /\ <<"NAK">> \in Seq(Replies) /\ <<"CAN", "CAN">> \in Seq(Replies)
      BY DEF Replies
    <2>2. QED
      BY <1>1, <2>1 DEF RInv, TypeOK
  <1>3. toHost \o reply' \in Seq(Replies) /\ (toHost # <<>> => Tail(toHost) \in Seq(Replies))
    BY <1>1, <1>2
  <1>4. host' \in Hosts /\ patient' = patient
    BY <1>1 DEF SessionNext, StubStep, HostStep, StubWorks, StubReadsMarker, StubReadsPacket,
         MainLoopSkips, StubTimesOut, HostSend, HostReads, HostTimesOut, LoseReply, Again,
         Acknowledged, hostVars, sessionVars, Hosts
  <1>5. toHost' \in Seq(Replies)
    BY <1>1, <1>3 DEF SessionNext, StubStep, HostStep, StubWorks, StubReadsMarker,
         StubReadsPacket, MainLoopSkips, StubTimesOut, HostSend, HostReads, HostTimesOut,
         LoseReply, Answers, sessionVars
  <1>6. QED
    BY <1>4, <1>5

(* Only a packet that the stub reads and takes is an AcceptPacket. *)
LEMMA AcceptsReadsPacket ==
    ASSUME [SessionNext]_sessionVars, Accepts
    PROVE  StubReadsPacket /\ pc' # "done"
  <1>1. pc = "packet" /\ pc' = "inflate"
    BY DEF Accepts, AcceptPacket
  <1>2. ~StubWorks
    BY <1>1 DEF StubWorks, Work, Fetch, Inflate, PutChunk, NextCall, LastFlush
  <1>3. ~StubReadsMarker
    BY <1>1 DEF StubReadsMarker, ReadMarker, Finish
  <1>4. ~StubTimesOut
    BY <1>1 DEF StubTimesOut, GiveUp, FirstTimeout, Timeout, FinishTimeout, Cancel
  <1>5. pc' # pc /\ pc # "done"
    BY <1>1
  <1>6. ~MainLoopSkips /\ ~HostStep /\ ~HostTimesOut /\ ~LoseReply /\ ~UNCHANGED sessionVars
    BY <1>5 DEF MainLoopSkips, HostStep, HostSend, HostReads, HostTimesOut, LoseReply,
         sessionVars, streamVars
  <1>7. QED
    BY <1>1, <1>2, <1>3, <1>4, <1>6 DEF SessionNext, StubStep

LEMMA SessionOrderKept ==
    ASSUME SessionRInv, InOrder, [SessionNext]_sessionVars, ~Accepts
    PROVE  InOrder'
  BY SessionMakesReceiverStep, OrderKept DEF SessionRInv

LEMMA StubStaysTurn ==
    ASSUME PatientState, UNCHANGED sessionVars
    PROVE  Turns'
  <1>1. [SessionNext]_sessionVars
    OBVIOUS
  <1>2. UNCHANGED <<host, toStub, block, toHost>> /\ UNCHANGED streamVars
    BY DEF sessionVars, hostVars
  <1>3. stream' = stream /\ rx' = rx /\ Position' = Position
    BY <1>2 DEF streamVars, commandVars, inflateVars, Position
  <1>4. Turns /\ toHost \in Seq(Replies)
    BY <1>1, PatientFacts
  <1>5. (Wanted' <=> Wanted) /\ (Taken' <=> Taken)
    BY <1>2, <1>3, SamePlace
  <1>6. QED
    BY <1>2, <1>3, <1>4, <1>5, PlaceSame

LEMMA ProtocolKept ==
    ASSUME SessionRInv, ProtocolInv, [SessionNext]_sessionVars
    PROVE  ProtocolInv'
  <1>1. host' \in Hosts /\ toHost' \in Seq(Replies) /\ patient' = patient
    BY RepliesType
  <1>2. HeldBack'
    BY SessionMakesReceiverStep, HeldBackKept DEF SessionRInv, ProtocolInv
  <1>3. ASSUME patient PROVE InOrder'
    <2>1. InOrder
      BY <1>3 DEF ProtocolInv
    <2>2. CASE Accepts
      BY <1>3, <2>2, AcceptsReadsPacket, StubReadsPacketTurn DEF PatientState
    <2>3. CASE ~Accepts
      BY <2>1, <2>3, SessionOrderKept
    <2>4. QED
      BY <2>2, <2>3
  <1>4. ASSUME patient, pc' # "done" PROVE Turns'
    <2>1. PatientState
      BY <1>4 DEF PatientState
    <2>2. ~MainLoopSkips
      <3>1. pc # "done"
        BY <2>1, PatientFacts
      <3>2. QED
        BY <3>1 DEF MainLoopSkips
    <2>3. CASE StubStep
      BY <2>1, <2>2, <2>3, StubWorksTurn, StubReadsMarkerTurn, StubReadsPacketTurn DEF StubStep
    <2>4. CASE HostStep
      BY <2>1, <2>4, HostSendTurn, HostReadsTurn DEF HostStep
    <2>5. QED
      BY <2>1, <2>3, <2>4, StubTimesOutTurn, HostTimesOutTurn, LoseReplyTurn, StubStaysTurn
         DEF SessionNext
  <1>5. QED
    BY <1>1, <1>2, <1>3, <1>4 DEF ProtocolInv

LEMMA InitProtocolInv == SessionInit => ProtocolInv
  <1> SUFFICES ASSUME SessionInit PROVE ProtocolInv
    OBVIOUS
  <1>1. SessionRInv
    BY InitSessionRInv
  <1>2. /\ host = "wait" /\ block = 1 /\ toStub = <<>> /\ toHost = <<>>
    BY DEF SessionInit
  <1>3. /\ pc = "fetch" /\ input = <<>> /\ Len(input) = 0 /\ tinfl.seen = 0 /\ tinfl.intact
        /\ rx.expected = 1 /\ ~rx.pendingAck
    BY DEF SessionInit, InitStream
  <1>4. InOrder /\ HeldBack
    BY <1>3 DEF InOrder, HeldBack
  <1>5. Wanted
    <2>1. 1 % BlockMod = 1
      BY ModSmall, StreamAssumption
    <2>2. Fed(0)
      <3>1. ASSUME 0 < Len(Blocks) PROVE FirstPiece[1] = 1
        BY <1>1, FirstPieceFacts DEF SessionRInv, RInv
      <3>2. Position = 0
        BY <1>3 DEF Position
      <3>3. QED
        BY <3>1, <3>2 DEF Fed
    <2>3. QED
      BY <1>2, <1>3, <2>1, <2>2 DEF Wanted
  <1>6. Quiet /\ Turns
    BY <1>2, <1>3, <1>5 DEF Quiet, NoAnswer, Turns, HostOver
  <1>7. host \in Hosts /\ toHost \in Seq(Replies)
    BY <1>2 DEF Hosts
  <1>8. QED
    BY <1>4, <1>6, <1>7 DEF ProtocolInv

(* A host that waits for the answers the stub holds back has its image     *)
(* whole: with such a host the flash the command reports as written (line  *)
(* 174 of stub_miniz.c) holds the announced image up to what is committed. *)
THEOREM PatientImageIntact == SessionSpec => [](patient => ImageIntact)
  <1>1. SessionInit => SessionRInv /\ ProtocolInv
    BY InitSessionRInv, InitProtocolInv
  <1>2. SessionRInv /\ ProtocolInv /\ [SessionNext]_sessionVars => ProtocolInv'
    BY ProtocolKept
  <1>3. SessionSpec => []SessionRInv
    BY SessionInvariant
  <1>4. SessionSpec => [](tinfl.intact => ImageIntact)
    BY InOrderImageIntact
  <1>5. ProtocolInv => (patient => tinfl.intact)
    BY DEF ProtocolInv, InOrder
  <1>6. QED
    BY <1>1, <1>2, <1>3, <1>4, <1>5, PTL DEF SessionSpec

=============================================================================
