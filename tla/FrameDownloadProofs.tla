------------------------ MODULE FrameDownloadProofs ------------------------
(***************************************************************************)
(* Proofs about FrameDownload for every range, file, frame size and number *)
(* of faults.  The invariant follows the turns of host and stub: at most   *)
(* one frame or answer is under way, and where the stub is in the file is  *)
(* known from whose turn it is.                                            *)
(***************************************************************************)
EXTENDS FrameDownload, NumberProofs

(* The chip operations of NorFlash, for every size of chip and content.    *)

(* Programming keeps a cell a cell, and 0xFF leaves a cell alone. *)
LEMMA MergeFacts ==
    ASSUME NEW old \in Cell, NEW new \in Cell
    PROVE  /\ Merge(old, new) \in Cell
           /\ Merge(old, Blank) = old
           /\ old = Blank => Merge(old, new) = new
  BY DEF Merge, Cell, Readable

LEMMA AddrsAreIntegers == Addrs \subseteq Nat
  BY NorFlashAssumption DEF Addrs

LEMMA ProgramType ==
    ASSUME NEW f \in [Addrs -> Cell], NEW a \in Int,
           NEW page \in [PageSlots -> Cell]
    PROVE  ProgramPage(f, a, page) \in [Addrs -> Cell]
  <1>1. ASSUME NEW u \in Addrs
        PROVE  Merge(f[u], page[(u - a) % PageUnits]) \in Cell
    <2>1. u \in Int
      BY AddrsAreIntegers
    <2>2. (u - a) % PageUnits \in PageSlots
      BY <2>1 DEF PageUnits, PageSlots
    <2>3. QED
      BY <2>2, MergeFacts
  <1>2. QED
    BY <1>1 DEF ProgramPage

-----------------------------------------------------------------------------

(* The frame the host sent last: a piece of the file at what it knows to be*)
(* loaded.                                                                 *)
SentOK ==
    /\ sent \in [from : Nat, size : Nat, again : BOOLEAN, intact : {TRUE}]
    /\ host = "reply" => /\ sent.from = acked /\ sent.size > 0
                         /\ sent.from + sent.size <= Length

SentEnd == sent.from + sent.size

(* The locals of packet_receive_handle.                                    *)
LocalsOK ==
    /\ frame \in [from : Nat, size : Nat, again : BOOLEAN, intact : {TRUE}]
    /\ written + remaining = Length
    /\ pc = "header" => written < Length
    /\ pc = "data" => left <= frame.size

(* Whose turn it is. *)
FrameUnderWay ==
    /\ toHost = <<>>
    /\ \/ toStub = <<sent>>
       \/ toStub = <<[sent EXCEPT !.intact = FALSE]>>
    /\ \/ /\ pc = "header"
          /\ written = IF sent.again THEN SentEnd ELSE sent.from
          /\ sent.again => lastLen = sent.size
       \/ pc = "done" /\ written \in {sent.from, SentEnd}
FrameAtHand ==
    /\ toStub = <<>> /\ toHost = <<>>
    /\ pc = "data" /\ frame = sent /\ written = sent.from /\ lastLen = sent.size
FrameTaken ==
    /\ toStub = <<>> /\ toHost \in {<<>>, <<"SUCCESS">>}
    /\ written = SentEnd /\ lastLen = sent.size
    /\ pc = "header" \/ (pc \in {"flush", "done"} /\ written = Length)
FrameRefused ==
    /\ toStub = <<>>
    /\ toHost \in {<<>>, <<"LEN_ERROR">>, <<"CRC_ERROR">>}
    /\ pc = "done" /\ written \in {sent.from, SentEnd}

Turns ==
    /\ host # "reply" => toStub = <<>> /\ toHost = <<>>
    /\ host = "send" => /\ written = acked
                        /\ pc = "header" \/ (pc = "done" /\ Length = 0)
    /\ host = "ok" => pc \in {"flush", "done"} /\ written = acked
    /\ host = "fail" => pc = "done"
    /\ host = "reply" => FrameUnderWay \/ FrameAtHand \/ FrameTaken \/ FrameRefused

(* RAM has the file up to written, and the frame at hand once it is copied.*)
RamOK ==
    type = "RAM" =>
        /\ \A i \in 0 .. written - 1 : ram[Off + i] = File[i]
        /\ pc = "data" => left \in {0, frame.size}
        /\ pc = "data" /\ left = 0 =>
              \A i \in 0 .. written + frame.size - 1 : ram[Off + i] = File[i]

DInv == TypeOK /\ SentOK /\ LocalsOK /\ Turns /\ RamOK

LEMMA DInvFacts ==
    ASSUME DInv
    PROVE  /\ Length \in Nat /\ Off \in Nat /\ BufUnits \in Nat
           /\ written \in Nat /\ written <= Length /\ acked \in Nat
           /\ sent.from \in Nat /\ sent.size \in Nat /\ lastLen \in Nat
           /\ host = "reply" => sent.from + sent.size <= Length
           /\ pc = "data" => host = "reply" /\ FrameAtHand
  BY FrameDownloadAssumption DEF DInv, TypeOK, SentOK, Turns, FrameUnderWay, FrameAtHand,
     FrameTaken, FrameRefused

LEMMA InitDInv == Init => DInv
  <1> SUFFICES ASSUME Init PROVE DInv
    OBVIOUS
  <1>1. Length \in Nat /\ BufUnits \in Nat /\ MaxFaults \in Nat
    BY FrameDownloadAssumption
  <1>2. TypeOK
    BY <1>1 DEF Init, TypeOK, Cell, Readable, PageUnits
  <1>3. SentOK /\ LocalsOK
    BY <1>1 DEF Init, SentOK, LocalsOK, NoFrame
  <1>4. Turns
    BY <1>1 DEF Init, Turns
  <1>5. RamOK
    BY DEF Init, RamOK
  <1>6. QED
    BY <1>2, <1>3, <1>4, <1>5 DEF DInv

(* What the stub reads is the frame the host sent, or that frame damaged.  *)
LEMMA ReadFrameKeeps == ASSUME DInv, ReadFrame PROVE DInv'
  <1> DEFINE f == Head(toStub)
  <1>1. /\ pc = "header" /\ toStub # <<>> /\ toStub' = Tail(toStub)
        /\ UNCHANGED <<type, flash, ram, pageBuf, pageOff, host, sent, acked, faults>>
    BY DEF ReadFrame, hostVars
  <1>2. /\ host = "reply" /\ FrameUnderWay /\ sent.intact = TRUE
        /\ sent \in [from : Nat, size : Nat, again : BOOLEAN, intact : {TRUE}]
        /\ sent.from = acked /\ sent.size > 0 /\ sent.from + sent.size <= Length
        /\ written \in Nat /\ remaining \in Nat /\ written + remaining = Length
        /\ Length \in Nat /\ BufUnits \in Nat
    <2>1. host = "reply" /\ FrameUnderWay
      BY <1>1 DEF DInv, Turns, FrameAtHand, FrameTaken, FrameRefused
    <2>2. /\ sent \in [from : Nat, size : Nat, again : BOOLEAN, intact : {TRUE}]
          /\ sent.from = acked /\ sent.size > 0 /\ sent.from + sent.size <= Length
      BY <2>1 DEF DInv, SentOK
    <2>3. /\ written \in Nat /\ remaining \in Nat /\ written + remaining = Length
      BY DEF DInv, TypeOK, LocalsOK
    <2>4. QED
      BY <2>1, <2>2, <2>3, FrameDownloadAssumption
  <1>3. /\ toHost = <<>> /\ toStub' = <<>> /\ f.size = sent.size /\ f.again = sent.again
        /\ f.intact => f = sent
    <2>1. CASE toStub = <<sent>>
      BY <1>1, <1>2, <2>1 DEF FrameUnderWay
    <2>2. CASE toStub = <<[sent EXCEPT !.intact = FALSE]>>
      <3>1. f = [sent EXCEPT !.intact = FALSE] /\ toStub' = <<>>
        BY <1>1, <2>2
      <3>2. f.intact = FALSE /\ f.size = sent.size /\ f.again = sent.again
        BY <1>2, <3>1
      <3>3. QED
        BY <1>2, <3>1, <3>2 DEF FrameUnderWay
    <2>3. QED
      BY <1>2, <2>1, <2>2 DEF FrameUnderWay
  <1> HIDE DEF f
  <1>4. CASE /\ toHost' \in {Append(toHost, "LEN_ERROR"), Append(toHost, "CRC_ERROR")}
             /\ pc' = "done"
             /\ UNCHANGED <<written, remaining, lastLen, frame, left>>
    <2>1. toHost' \in {<<>>, <<"LEN_ERROR">>, <<"CRC_ERROR">>}
      BY <1>3, <1>4
    <2>2. written \in {sent.from, SentEnd}
      BY <1>2 DEF FrameUnderWay
    <2>3. FrameRefused'
      BY <1>1, <1>3, <1>4, <2>1, <2>2 DEF FrameRefused, SentEnd
    <2>4. Turns'
      BY <1>1, <1>2, <2>3 DEF Turns
    <2>5. TypeOK' /\ SentOK' /\ LocalsOK' /\ RamOK'
      BY <1>1, <1>4 DEF DInv, TypeOK, SentOK, LocalsOK, RamOK
    <2>6. QED
      BY <2>4, <2>5 DEF DInv
  <1>5. CASE /\ f.size <= BufUnits /\ f.intact
             /\ Rewind(f)
             /\ lastLen' = f.size /\ frame' = f /\ left' = f.size
             /\ pc' = "data" /\ UNCHANGED toHost
    <2>1. f = sent
      BY <1>3, <1>5
    <2>2. /\ written' = sent.from /\ remaining' \in Nat /\ written' + remaining' = Length
          /\ written' <= written
      <3>1. CASE sent.again
        <4>1. written = sent.from + sent.size /\ lastLen = sent.size
          BY <1>1, <1>2, <3>1 DEF FrameUnderWay, SentEnd
        <4>2. written' = written - lastLen /\ remaining' = remaining + lastLen
          BY <1>5, <2>1, <3>1 DEF Rewind
        <4>3. QED
          BY <1>2, <4>1, <4>2
      <3>2. CASE ~sent.again
        BY <1>1, <1>2, <1>5, <2>1, <3>2 DEF FrameUnderWay, Rewind
      <3>3. QED
        BY <3>1, <3>2
    <2>3. FrameAtHand'
      BY <1>1, <1>3, <1>5, <2>1, <2>2 DEF FrameAtHand
    <2>4. Turns'
      BY <1>1, <1>2, <2>3 DEF Turns
    <2>5. LocalsOK' /\ SentOK'
      <3>1. left' <= frame'.size /\ pc' # "header"
        BY <1>2, <1>5, <2>1
      <3>2. LocalsOK'
        BY <1>2, <1>5, <2>1, <2>2, <3>1 DEF LocalsOK
      <3>3. QED
        BY <1>1, <3>2 DEF DInv, SentOK
    <2>6. TypeOK'
      <3>1. written' \in 0 .. Length /\ remaining' \in 0 .. Length /\ left' \in 0 .. BufUnits
            /\ lastLen' \in 0 .. BufUnits
        BY <1>2, <1>5, <2>1, <2>2
      <3>2. QED
        BY <1>1, <1>5, <3>1 DEF DInv, TypeOK
    <2>7. RamOK'
      <3>1. SUFFICES ASSUME type = "RAM" PROVE RamOK'
        BY <1>1 DEF RamOK
      <3>2. \A i \in 0 .. written' - 1 : ram'[Off + i] = File[i]
        BY <1>1, <1>2, <2>2, <3>1 DEF DInv, RamOK
      <3>3. left' = frame'.size /\ left' # 0
        BY <1>2, <1>5, <2>1
      <3>4. QED
        BY <3>2, <3>3 DEF RamOK
    <2>8. QED
      BY <2>4, <2>5, <2>6, <2>7 DEF DInv
  <1>6. QED
    BY <1>4, <1>5 DEF ReadFrame, f

(* A frame goes into the range announced, at its place in the file.        *)
LEMMA CopyFacts ==
    ASSUME DInv, CopyToRam, NEW u \in Addrs
    PROVE  /\ u \notin Off .. Off + Length - 1 => ram'[u] = ram[u]
           /\ u \in Off + written .. Off + written + frame.size - 1
                 => ram'[u] = File[u - Off] /\ u - Off \in 0 .. Length - 1
           /\ u \notin Off + written .. Off + written + frame.size - 1 => ram'[u] = ram[u]
  <1>1. /\ pc = "data" /\ type = "RAM" /\ left > 0
        /\ ram' = [v \in Addrs |->
                  IF v \in Off + written .. Off + written + left - 1
                  THEN File[frame.from + (v - Off - written)] ELSE ram[v]]
    BY DEF CopyToRam
  <1>2. /\ frame = sent /\ written = frame.from /\ frame.from + frame.size <= Length
        /\ written \in Nat /\ frame.size \in Nat /\ Off \in Nat /\ Length \in Nat
    BY <1>1, DInvFacts DEF FrameAtHand
  <1>3. left = frame.size
    BY <1>1, <1>2 DEF DInv, RamOK
  <1>4. u \in Int
    BY AddrsAreIntegers
  <1>5. ram'[u] = IF u \in Off + written .. Off + written + frame.size - 1
                  THEN File[frame.from + (u - Off - written)] ELSE ram[u]
    BY <1>1, <1>3
  <1>6. frame.from + (u - Off - written) = u - Off
    BY <1>2, <1>4
  <1>7. u \in Off + written .. Off + written + frame.size - 1 =>
            u \in Off .. Off + Length - 1 /\ u - Off \in 0 .. Length - 1
    BY <1>2, <1>4
  <1>8. QED
    BY <1>5, <1>6, <1>7

LEMMA CopyToRamKeeps == ASSUME DInv, CopyToRam PROVE DInv'
  <1>1. /\ pc = "data" /\ type = "RAM" /\ left > 0 /\ left' = 0
        /\ UNCHANGED <<type, flash, pc, written, remaining, lastLen, pageBuf, pageOff,
                       frame, host, sent, acked, toStub, toHost, faults>>
    BY DEF CopyToRam, hostVars, lineVars
  <1>2. /\ written \in Nat /\ frame.size \in Nat /\ Off \in Nat /\ Length \in Nat
        /\ written + frame.size <= Length /\ Off + Length <= FlashUnits /\ BufUnits \in Nat
    BY <1>1, DInvFacts, FrameDownloadAssumption DEF FrameAtHand
  <1>3. ram' \in [Addrs -> Cell]
    <2>1. \A u \in Addrs : ram'[u] \in Cell
      BY CopyFacts, FrameDownloadAssumption DEF DInv, TypeOK, Cell
    <2>2. ram' = [v \in Addrs |-> ram'[v]]
      BY DEF CopyToRam
    <2>3. QED
      BY <2>1, <2>2
  <1>4. TypeOK'
    BY <1>1, <1>2, <1>3 DEF DInv, TypeOK
  <1>5. SentOK' /\ LocalsOK'
    <2>1. left' <= frame'.size
      BY <1>1, <1>2
    <2>2. QED
      BY <1>1, <2>1 DEF DInv, SentOK, LocalsOK
  <1>6. Turns'
    BY <1>1 DEF DInv, Turns, FrameUnderWay, FrameAtHand, FrameTaken, FrameRefused, SentEnd
  <1>7. RamOK'
    <2>1. ASSUME NEW i \in 0 .. written + frame.size - 1 PROVE ram'[Off + i] = File[i]
      <3>1. Off + i \in Addrs /\ (Off + i) - Off = i
        BY <1>2, NorFlashAssumption DEF Addrs
      <3>2. CASE i >= written
        <4>1. Off + i \in Off + written .. Off + written + frame.size - 1
          BY <1>2, <3>2
        <4>2. QED
          BY <3>1, <4>1, CopyFacts
      <3>3. CASE i < written
        <4>1. Off + i \notin Off + written .. Off + written + frame.size - 1
              /\ i \in 0 .. written - 1
          BY <1>2, <3>3
        <4>2. ram'[Off + i] = ram[Off + i]
          BY <3>1, <4>1, CopyFacts
        <4>3. QED
          BY <1>1, <4>1, <4>2 DEF DInv, RamOK
      <3>4. QED
        BY <1>2, <3>2, <3>3
    <2>2. \A i \in 0 .. written - 1 : ram'[Off + i] = File[i]
      BY <1>2, <2>1
    <2>3. QED
      BY <1>1, <2>1, <2>2 DEF RamOK
  <1>8. QED
    BY <1>4, <1>5, <1>6, <1>7 DEF DInv

LEMMA FillPageKeeps == ASSUME DInv, FillPage PROVE DInv'
  <1> DEFINE space == PageUnits - pageOff
             n     == IF space > left THEN left ELSE space
             p     == frame.from + (frame.size - left)
             buf   == [i \in PageSlots |->
                          IF i \in pageOff .. pageOff + n - 1
                          THEN File[p + (i - pageOff)] ELSE pageBuf[i]]
             full  == pageOff + n = PageUnits
  <1>1. /\ pc = "data" /\ type = "FLASH" /\ left > 0
        /\ pageBuf' = buf
        /\ pageOff' = IF full THEN 0 ELSE pageOff + n
        /\ flash' = IF full THEN ProgramPage(flash, Off + written - PageUnits, buf) ELSE flash
        /\ left' = left - n
        /\ UNCHANGED <<type, ram, pc, written, remaining, lastLen, frame,
                       host, sent, acked, toStub, toHost, faults>>
    BY DEF FillPage, hostVars, lineVars
  <1>2. /\ frame = sent /\ frame.from + frame.size <= Length /\ frame.size \in Nat
        /\ frame.from \in Nat /\ written \in Nat /\ Off \in Nat /\ Length \in Nat
        /\ left <= frame.size /\ left \in 0 .. BufUnits /\ BufUnits \in Nat
        /\ pageOff \in 0 .. PageUnits - 1 /\ pageBuf \in [PageSlots -> Readable]
        /\ flash \in [Addrs -> Cell]
    BY <1>1, DInvFacts DEF FrameAtHand, DInv, TypeOK, LocalsOK
  <1>3. n \in 1 .. left /\ pageOff + n <= PageUnits
    BY <1>1, <1>2 DEF PageUnits
  <1>4. buf \in [PageSlots -> Readable]
    <2>1. ASSUME NEW i \in PageSlots, i \in pageOff .. pageOff + n - 1
          PROVE  p + (i - pageOff) \in 0 .. Length - 1
      BY <1>2, <1>3, <2>1
    <2>2. QED
      BY <1>2, <2>1, FrameDownloadAssumption
  <1> HIDE DEF n, p, buf
  <1>5. flash' \in [Addrs -> Cell]
    <2>1. Off + written - PageUnits \in Int
      BY <1>2 DEF PageUnits
    <2>2. buf \in [PageSlots -> Cell]
      BY <1>4 DEF Cell
    <2>3. QED
      BY <1>1, <1>2, <2>1, <2>2, ProgramType
  <1>6. pageOff' \in 0 .. PageUnits - 1 /\ left' \in 0 .. BufUnits /\ left' <= frame.size
    BY <1>1, <1>2, <1>3 DEF PageUnits
  <1>7. TypeOK'
    BY <1>1, <1>4, <1>5, <1>6 DEF DInv, TypeOK
  <1>8. SentOK' /\ LocalsOK'
    BY <1>1, <1>6 DEF DInv, SentOK, LocalsOK
  <1>9. Turns'
    BY <1>1 DEF DInv, Turns, FrameUnderWay, FrameAtHand, FrameTaken, FrameRefused, SentEnd
  <1>10. RamOK'
    BY <1>1 DEF RamOK
  <1>11. QED
    BY <1>7, <1>8, <1>9, <1>10 DEF DInv

LEMMA EndFrameKeeps == ASSUME DInv, EndFrame PROVE DInv'
  <1>1. /\ pc = "data" /\ left = 0
        /\ written' = written + frame.size /\ remaining' = remaining - frame.size
        /\ toHost' = Append(toHost, "SUCCESS")
        /\ pc' = IF remaining' > 0 THEN "header" ELSE "flush"
        /\ UNCHANGED <<type, flash, ram, lastLen, pageBuf, pageOff, frame, left,
                       host, sent, acked, toStub, faults>>
    BY DEF EndFrame, AnswerFrame, hostVars
  <1>2. /\ host = "reply" /\ toStub = <<>> /\ toHost = <<>> /\ frame = sent
        /\ written = sent.from /\ lastLen = sent.size
        /\ sent.from \in Nat /\ sent.size \in Nat /\ Length \in Nat
        /\ sent.from + sent.size <= Length
        /\ remaining \in Nat /\ written + remaining = Length
    <2>1. host = "reply" /\ toStub = <<>> /\ toHost = <<>> /\ frame = sent
          /\ written = sent.from /\ lastLen = sent.size
      BY <1>1, DInvFacts DEF FrameAtHand
    <2>2. /\ sent.from \in Nat /\ sent.size \in Nat /\ Length \in Nat
          /\ sent.from + sent.size <= Length
      BY <2>1, DInvFacts
    <2>3. remaining \in Nat /\ written + remaining = Length
      BY DEF DInv, LocalsOK, TypeOK
    <2>4. QED
      BY <2>1, <2>2, <2>3
  <1>3. /\ written' = SentEnd /\ written' + remaining' = Length
        /\ written' \in 0 .. Length /\ remaining' \in 0 .. Length
    BY SMTT(30), <1>1, <1>2 DEF SentEnd
  <1>4. (pc' = "header" /\ written' < Length) \/ (pc' = "flush" /\ written' = Length)
    <2>1. /\ remaining' > 0 => pc' = "header" /\ written' < Length
          /\ ~(remaining' > 0) => pc' = "flush" /\ written' = Length
      BY <1>1, <1>2, <1>3
    <2>2. QED
      BY <2>1
  <1>5. FrameTaken'
    BY <1>1, <1>2, <1>3, <1>4 DEF FrameTaken, SentEnd
  <1>6. Turns'
    BY <1>1, <1>2, <1>5 DEF Turns
  <1>7. TypeOK' /\ SentOK' /\ LocalsOK'
    BY <1>1, <1>3, <1>4 DEF DInv, TypeOK, SentOK, LocalsOK
  <1>8. RamOK'
    <2>1. type = "RAM" => \A i \in 0 .. written + frame.size - 1 : ram[Off + i] = File[i]
      BY <1>1 DEF DInv, RamOK
    <2>2. pc' # "data" /\ type' = type /\ ram' = ram /\ written' = written + frame.size
      BY <1>1, <1>4
    <2>3. ASSUME type = "RAM", NEW i \in 0 .. written' - 1 PROVE ram[Off + i] = File[i]
      <3>1. i \in 0 .. written + frame.size - 1
        BY <1>1, <1>2
      <3>2. QED
        BY <2>1, <2>3, <3>1
    <2>4. QED
      BY <2>2, <2>3 DEF RamOK
  <1>9. QED
    BY <1>6, <1>7, <1>8 DEF DInv

LEMMA FlushKeeps == ASSUME DInv, Flush PROVE DInv'
  <1> DEFINE page == [i \in PageSlots |-> IF i < pageOff THEN pageBuf[i] ELSE Blank]
  <1>1. /\ pc = "flush" /\ pc' = "done"
        /\ flash' = IF pageOff > 0 /\ type = "FLASH"
                    THEN ProgramPage(flash, Off + written - pageOff, page) ELSE flash
        /\ UNCHANGED <<type, ram, written, remaining, lastLen, pageBuf, pageOff, frame, left,
                       host, sent, acked, toStub, toHost, faults>>
    BY DEF Flush, hostVars, lineVars
  <1>2. flash' \in [Addrs -> Cell]
    <2>1. page \in [PageSlots -> Cell]
      BY DEF DInv, TypeOK, Cell, Readable
    <2>2. Off + written - pageOff \in Int
      BY DInvFacts DEF DInv, TypeOK, PageUnits
    <2> HIDE DEF page
    <2>3. QED
      BY <1>1, <2>1, <2>2, ProgramType DEF DInv, TypeOK
  <1>3. TypeOK' /\ SentOK' /\ LocalsOK' /\ RamOK'
    BY <1>1, <1>2 DEF DInv, TypeOK, SentOK, LocalsOK, RamOK
  <1>4. Turns'
    BY <1>1 DEF DInv, Turns, FrameUnderWay, FrameAtHand, FrameTaken, FrameRefused, SentEnd
  <1>5. QED
    BY <1>3, <1>4 DEF DInv

LEMMA CommandRefusedKeeps == ASSUME DInv, CommandRefused PROVE DInv'
  <1>1. /\ pc = "done" /\ toStub # <<>> /\ toStub' = Tail(toStub)
        /\ toHost' \in {Append(toHost, "LEN_ERROR"), Append(toHost, "CRC_ERROR")}
        /\ UNCHANGED <<stubVars, host, sent, acked, faults>>
    BY DEF CommandRefused, hostVars
  <1>2. host = "reply" /\ FrameUnderWay
    BY <1>1 DEF DInv, Turns, FrameAtHand, FrameTaken, FrameRefused
  <1>3. toStub' = <<>> /\ toHost' \in {<<"LEN_ERROR">>, <<"CRC_ERROR">>}
    BY <1>1, <1>2 DEF FrameUnderWay
  <1>4. FrameRefused'
    BY <1>1, <1>2, <1>3 DEF FrameRefused, FrameUnderWay, SentEnd, stubVars
  <1>5. Turns'
    BY <1>1, <1>2, <1>4 DEF Turns
  <1>6. TypeOK' /\ SentOK' /\ LocalsOK' /\ RamOK'
    BY <1>1 DEF DInv, TypeOK, SentOK, LocalsOK, RamOK, stubVars
  <1>7. QED
    BY <1>5, <1>6 DEF DInv

-----------------------------------------------------------------------------
(* The host and the line. *)
LEMMA SendKeeps ==
    ASSUME DInv, NEW f, Send(f),
           f \in [from : Nat, size : Nat, again : BOOLEAN, intact : {TRUE}],
           f.from = acked, f.size > 0, f.from + f.size <= Length, toHost = <<>>,
           \/ /\ pc = "header"
              /\ written = IF f.again THEN f.from + f.size ELSE f.from
              /\ f.again => lastLen = f.size
           \/ pc = "done" /\ written \in {f.from, f.from + f.size}
    PROVE  DInv'
  <1>1. /\ sent' = f /\ host' = "reply" /\ faults' \in 0 .. MaxFaults
        /\ toStub' \in {<<f>>, <<[f EXCEPT !.intact = FALSE]>>}
        /\ UNCHANGED <<type, flash, ram, pc, written, remaining, lastLen, pageBuf,
                       pageOff, frame, left, acked, toHost>>
    BY SMTT(30), FrameDownloadAssumption DEF Send, Fault, stubVars, DInv, TypeOK
  <1>2. FrameUnderWay'
    BY <1>1 DEF FrameUnderWay, SentEnd
  <1>3. Turns'
    BY <1>1, <1>2 DEF Turns
  <1>4. TypeOK' /\ SentOK' /\ LocalsOK' /\ RamOK'
    BY <1>1 DEF DInv, TypeOK, SentOK, LocalsOK, RamOK
  <1>5. QED
    BY <1>3, <1>4 DEF DInv

LEMMA SendNextKeeps == ASSUME DInv, SendNext PROVE DInv'
  <1>1. PICK n \in FrameSizes :
          Send([NoFrame EXCEPT !.from = acked,
                               !.size = IF n < Length - acked THEN n ELSE Length - acked])
    BY DEF SendNext
  <1> DEFINE k == IF n < Length - acked THEN n ELSE Length - acked
             f == [NoFrame EXCEPT !.from = acked, !.size = k]
  <1>2. n \in Nat /\ n > 0 /\ Length \in Nat /\ acked \in Nat /\ acked < Length
        /\ host = "send"
    BY SMTT(30), FrameDownloadAssumption DEF DInv, TypeOK, SendNext
  <1>3. k \in Nat /\ k > 0 /\ acked + k <= Length
    BY <1>2
  <1> HIDE DEF k
  <1>4. /\ f \in [from : Nat, size : Nat, again : BOOLEAN, intact : {TRUE}]
        /\ f.from = acked /\ f.size = k /\ f.again = FALSE
    BY <1>2, <1>3 DEF NoFrame
  <1>5. pc = "header" /\ written = acked /\ toHost = <<>>
    BY <1>2 DEF DInv, Turns
  <1>6. Send(f)
    BY <1>1 DEF k
  <1> HIDE DEF f
  <1>7. QED
    BY <1>3, <1>4, <1>5, <1>6, SendKeeps

LEMMA SendAgainKeeps == ASSUME DInv, SendAgain PROVE DInv'
  <1> DEFINE f == [sent EXCEPT !.again = TRUE]
  <1>1. host = "reply" /\ toStub = <<>> /\ toHost = <<>> /\ pc \in {"header", "done"} /\ Send(f)
    BY DEF SendAgain
  <1>2. /\ sent \in [from : Nat, size : Nat, again : BOOLEAN, intact : {TRUE}]
        /\ sent.from = acked /\ sent.size > 0 /\ sent.from + sent.size <= Length
    BY <1>1 DEF DInv, SentOK
  <1>3. /\ f \in [from : Nat, size : Nat, again : BOOLEAN, intact : {TRUE}]
        /\ f.from = sent.from /\ f.size = sent.size /\ f.again = TRUE
    BY <1>2
  <1> HIDE DEF f
  <1>4. FrameTaken \/ FrameRefused
    BY <1>1 DEF DInv, Turns, FrameUnderWay, FrameAtHand
  <1>5. \/ pc = "header" /\ written = f.from + f.size /\ lastLen = f.size
        \/ pc = "done" /\ written \in {f.from, f.from + f.size}
    BY <1>1, <1>3, <1>4 DEF FrameTaken, FrameRefused, SentEnd
  <1>6. QED
    BY <1>1, <1>2, <1>3, <1>5, SendKeeps

LEMMA HostReadsKeeps == ASSUME DInv, HostReads PROVE DInv'
  <1>1. /\ host = "reply" /\ toHost # <<>> /\ toHost' = Tail(toHost)
        /\ UNCHANGED <<stubVars, sent, toStub, faults>>
        /\ \/ /\ Head(toHost) = "SUCCESS"
              /\ acked' = SentEnd
              /\ host' = IF acked' = Length THEN "ok" ELSE "send"
           \/ /\ Head(toHost) # "SUCCESS" /\ host' = "fail" /\ acked' = acked
    BY DEF HostReads, SentEnd
  <1>2. FrameTaken \/ FrameRefused
    BY <1>1 DEF DInv, Turns, FrameUnderWay, FrameAtHand
  <1>3. toStub' = <<>> /\ toHost' = <<>>
    BY <1>1, <1>2 DEF FrameTaken, FrameRefused
  <1>4. UNCHANGED <<type, flash, ram, pc, written, remaining, lastLen, pageBuf,
                    pageOff, frame, left, sent, faults>>
    BY <1>1 DEF stubVars
  <1>5. CASE Head(toHost) = "SUCCESS"
    <2>1. FrameTaken
      BY <1>1, <1>2, <1>5 DEF FrameRefused
    <2>2. acked' = written /\ host' \in {"ok", "send"}
          /\ (host' = "ok" <=> written = Length)
      BY <1>1, <1>5, <2>1 DEF FrameTaken
    <2>3. pc = "header" => written < Length
      BY DEF DInv, LocalsOK
    <2>4. /\ host' = "send" => pc = "header"
          /\ host' = "ok" => pc \in {"flush", "done"}
      BY <2>1, <2>2, <2>3, DInvFacts DEF FrameTaken
    <2>5. Turns'
      BY <1>3, <1>4, <2>2, <2>4 DEF Turns
    <2>6. TypeOK' /\ SentOK' /\ LocalsOK' /\ RamOK'
      BY <1>4, <2>2 DEF DInv, TypeOK, SentOK, LocalsOK, RamOK
    <2>7. QED
      BY <2>5, <2>6 DEF DInv
  <1>6. CASE Head(toHost) # "SUCCESS"
    <2>1. FrameRefused
      BY <1>1, <1>2, <1>6 DEF FrameTaken
    <2>2. Turns'
      BY <1>1, <1>3, <1>4, <1>6, <2>1 DEF Turns, FrameRefused
    <2>3. TypeOK' /\ SentOK' /\ LocalsOK' /\ RamOK'
      BY <1>1, <1>4, <1>6 DEF DInv, TypeOK, SentOK, LocalsOK, RamOK
    <2>4. QED
      BY <2>2, <2>3 DEF DInv
  <1>7. QED
    BY <1>5, <1>6

LEMMA LoseAnswerKeeps == ASSUME DInv, LoseAnswer PROVE DInv'
  <1>1. /\ toHost # <<>> /\ toHost' = Tail(toHost) /\ faults' \in 0 .. MaxFaults
        /\ UNCHANGED <<type, flash, ram, pc, written, remaining, lastLen, pageBuf,
                       pageOff, frame, left, host, sent, acked, toStub>>
    BY FrameDownloadAssumption DEF LoseAnswer, Fault, DInv, TypeOK, stubVars, hostVars
  <1>2. host = "reply" /\ (FrameTaken \/ FrameRefused)
    BY <1>1 DEF DInv, Turns, FrameUnderWay, FrameAtHand
  <1>3. toHost' = <<>>
    BY <1>1, <1>2 DEF FrameTaken, FrameRefused
  <1>4. FrameTaken' \/ FrameRefused'
    BY <1>1, <1>2, <1>3 DEF FrameTaken, FrameRefused, SentEnd
  <1>5. Turns'
    BY <1>1, <1>2, <1>4 DEF Turns
  <1>6. TypeOK' /\ SentOK' /\ LocalsOK' /\ RamOK'
    BY <1>1 DEF DInv, TypeOK, SentOK, LocalsOK, RamOK
  <1>7. QED
    BY <1>5, <1>6 DEF DInv

LEMMA NextKeepsDInv == ASSUME DInv, [Next]_vars PROVE DInv'
  <1>1. CASE UNCHANGED vars
    <2>1. UNCHANGED <<type, flash, ram, pc, written, remaining, lastLen, pageBuf, pageOff,
                      frame, left, host, sent, acked, toStub, toHost, faults>>
      BY <1>1 DEF vars, stubVars, hostVars, lineVars
    <2>2. TypeOK' /\ SentOK' /\ LocalsOK' /\ RamOK'
      BY <2>1 DEF DInv, TypeOK, SentOK, LocalsOK, RamOK
    <2>3. FrameUnderWay' = FrameUnderWay /\ FrameAtHand' = FrameAtHand
          /\ FrameTaken' = FrameTaken /\ FrameRefused' = FrameRefused
      BY <2>1 DEF FrameUnderWay, FrameAtHand, FrameTaken, FrameRefused, SentEnd
    <2>4. Turns'
      BY <2>1, <2>3 DEF DInv, Turns
    <2>5. QED
      BY <2>2, <2>4 DEF DInv
  <1>2. QED
    BY <1>1, ReadFrameKeeps, CopyToRamKeeps, FillPageKeeps, EndFrameKeeps, FlushKeeps,
       CommandRefusedKeeps, SendNextKeeps, SendAgainKeeps, HostReadsKeeps, LoseAnswerKeeps
       DEF Next, StubNext, HostNext

(* The inductive invariant holds throughout. *)
THEOREM DownloadInvariant == Spec => []DInv
  <1>1. DInv /\ [Next]_vars => DInv'
    BY NextKeepsDInv
  <1>2. QED
    BY <1>1, InitDInv, PTL DEF Spec

(* Type correctness of packet_receive_handle: written and remaining never  *)
(* leave the announced length although status 1 takes frames back, and the *)
(* page buffer is never filled past its end.                               *)
THEOREM TypeCorrect == Spec => []TypeOK
  <1>1. DInv => TypeOK
    BY DEF DInv
  <1>2. QED
    BY <1>1, DownloadInvariant, PTL

(* However often answers are lost and frames are sent again, RAM holds the *)
(* file as far as packet_receive_handle has counted.                       *)
THEOREM RamIsLoaded == Spec => []RamHoldsFile
  <1>1. DInv => RamHoldsFile
    BY DEF DInv, RamOK, RamHoldsFile
  <1>2. QED
    BY <1>1, DownloadInvariant, PTL

(* Host and stub agree where they are in the file, up to the frame whose   *)
(* answer is not known: status 1 takes back exactly that frame.            *)
THEOREM PositionsStayTogether == Spec => []PositionsAgree
  <1>1. DInv => PositionsAgree
    <2>1. SUFFICES ASSUME DInv, host # "fail", pc \in {"header", "done"}, toStub = <<>>
                   PROVE  written \in {acked, sent.from + sent.size}
      BY DEF PositionsAgree
    <2>2. CASE host = "send" \/ host = "ok"
      BY <2>1, <2>2 DEF DInv, Turns
    <2>3. CASE host = "reply"
      <3>1. sent.from = acked
        BY <2>1, <2>3 DEF DInv, SentOK
      <3>2. QED
        BY <2>1, <2>3, <3>1 DEF DInv, Turns, FrameUnderWay, FrameAtHand, FrameTaken,
                                FrameRefused, SentEnd
    <2>4. QED
      BY <2>1, <2>2, <2>3 DEF DInv, TypeOK
  <1>2. QED
    BY <1>1, DownloadInvariant, PTL

(* No frame is copied outside the range the command announced. *)
THEOREM RamOutsideIsKept == Spec => RamOutsideKept
  <1>1. DInv /\ [Next]_vars =>
          [\A u \in Addrs : u \notin Off .. Off + Length - 1 => ram'[u] = ram[u]]_vars
    <2>1. SUFFICES ASSUME DInv, [Next]_vars
                   PROVE  \A u \in Addrs : u \notin Off .. Off + Length - 1 => ram'[u] = ram[u]
      OBVIOUS
    <2>2. CASE CopyToRam
      BY <2>1, <2>2, CopyFacts
    <2>3. CASE ram' = ram
      BY <2>3
    <2>4. QED
      BY <2>1, <2>2, <2>3 DEF Next, StubNext, HostNext, ReadFrame, FillPage, EndFrame, Flush,
         CommandRefused, SendNext, SendAgain, Send, HostReads, LoseAnswer, vars, stubVars
  <1>2. QED
    BY <1>1, DownloadInvariant, PTL DEF Spec, RamOutsideKept
=============================================================================
