----------------------- MODULE XmodemReadSessionProofs -----------------------
(***************************************************************************)
(* Proofs about a whole memory upload over a line that loses and damages,  *)
(* for every memory, length, block modulus and number of tries and faults. *)
(***************************************************************************)
EXTENDS XmodemReadSession, NumberProofs

(* No side times out while something is under way, and the line loses and  *)
(* damages but adds no bytes.                                              *)
StopAndWait ==
    Patient /\ Faults \subseteq {"lose", "damage", "loseAnswer", "damageAnswer"}

-----------------------------------------------------------------------------
(* The invariant.  The host waits for the sender's block, or has it while  *)
(* the sender does not know yet.                                           *)
Same ==
    /\ expect = block
    /\ off <= Len(got)
    /\ off < Length => Len(got) = off

Ahead ==
    /\ off < Length
    /\ expect = BlockAfter
    /\ Len(got) = off + BlockUnits

StubBytes == {"C", "ACK", "NAK", "CAN", "junk"}
NoAck == {"C", "NAK", "CAN", "junk"}
OneOf(S) == toStub = <<>> \/ \E b \in S : toStub = <<b>>
Silent == toStub = <<>> /\ toHost = <<>>

PacketComing ==
    \/ toHost = <<Packet(block, Payload)>>
    \/ toHost = <<Damaged(Packet(block, Payload))>>
EotComing == toHost = <<Byte("EOT")>> \/ toHost = <<Byte("junk")>>

Starting ==
    /\ pc = "start" /\ tries < StartTries
    /\ off = 0 /\ Same
    /\ host \in {"start", "fail"}
    /\ toHost = <<>> /\ OneOf({ask, "junk"})

Sending ==
    /\ pc = "send" /\ tries < MaxRetries
    /\ off < Length /\ (Same \/ Ahead)
    /\ Silent

(* A block or its answer is under way; only a block that has arrived is    *)
(* acknowledged.                                                           *)
Answering ==
    /\ pc = "answer" /\ tries < MaxRetries
    /\ off < Length
    /\ \/ toHost = <<>> /\ OneOf(NoAck) /\ (Same \/ Ahead)
       \/ toHost = <<>> /\ toStub = <<"ACK">> /\ Ahead
       \/ PacketComing /\ toStub = <<>> /\ (Same \/ Ahead)

Ending ==
    /\ pc = "eot" /\ tries < EotTries
    /\ off = Length /\ Same
    /\ Silent

EndAnswering ==
    /\ pc = "eotAnswer" /\ tries < EotTries
    /\ off = Length /\ Same
    /\ \/ toHost = <<>> /\ OneOf(StubBytes)
       \/ EotComing /\ toStub = <<>>

Over ==
    /\ pc = "done"
    /\ off <= Len(got)
    /\ toHost \in Seq({Byte("CAN")})
    /\ OneOf(StubBytes)

Turn == Starting \/ Sending \/ Answering \/ Ending \/ EndAnswering \/ Over

Units == {Memory[i] : i \in 0 .. Length - 1} \cup {Pad}

SenderTypeOK ==
    /\ use1k \in BOOLEAN
    /\ tries \in 0 .. StartTries + MaxRetries + EotTries
    /\ off \in 0 .. Length
    /\ block \in 0 .. BlockMod - 1

HostTypeOK ==
    /\ host \in {"start", "block", "ok", "fail"}
    /\ ask \in Asks
    /\ expect \in 0 .. BlockMod - 1
    /\ hostTries \in 0 .. HostTries
    /\ got \in Seq(Units)

HostOK == host = "ok" => off = Length /\ Length <= Len(got)

SInv ==
    /\ SenderTypeOK
    /\ HostTypeOK
    /\ HostHoldsMemory
    /\ HostOK
    /\ Turn

LEMMA Counts ==
    /\ StartTries \in Nat \ {0} /\ MaxRetries \in Nat \ {0} /\ EotTries \in Nat \ {0}
    /\ BlockMod \in Nat \ {0} /\ BlockMod > 1 /\ Length \in Nat
    /\ HostTries \in Nat
  BY XmodemSendAssumption, ReadSessionAssumption

LEMMA InitSInv == SessionInit => SInv
  <1> SUFFICES ASSUME SessionInit PROVE SInv
    OBVIOUS
  <1>1. SenderTypeOK
    BY Counts DEF SessionInit, SenderInit, SenderTypeOK
  <1>2. HostTypeOK
    <2>1. <<>> \in Seq(Units)
      OBVIOUS
    <2>2. QED
      BY <2>1, Counts DEF SessionInit, HostTypeOK
  <1>3. HostHoldsMemory /\ HostOK /\ Len(got) = 0
    BY DEF SessionInit, HostHoldsMemory, HostOK
  <1>4. Starting
    BY <1>3, Counts DEF SessionInit, SenderInit, Starting, Same, OneOf
  <1>5. QED
    BY <1>1, <1>2, <1>3, <1>4 DEF SInv, Turn

-----------------------------------------------------------------------------
(* Small facts about numbers, packets and the bytes under way. *)
LEMMA NumberFacts ==
    ASSUME NEW b \in 0 .. BlockMod - 1
    PROVE  /\ (b + 1) % BlockMod \in 0 .. BlockMod - 1
           /\ (b + 1) % BlockMod # b
           /\ (((b + 1) % BlockMod) - 1) % BlockMod = b
           /\ (b - 1) % BlockMod # b
  <1>1. BlockMod \in Nat \ {0} /\ BlockMod > 1 /\ b \in Int /\ b + 1 \in Int
    BY Counts
  <1>2. b % BlockMod = b
    BY <1>1, ModSmall
  <1>3. (b + 1) % BlockMod \in 0 .. BlockMod - 1
    BY <1>1, ModRange
  <1>4. /\ (b + 1) % BlockMod # b % BlockMod
        /\ (((b + 1) % BlockMod) - 1) % BlockMod = b % BlockMod
        /\ ((b % BlockMod) - 1) % BlockMod # b % BlockMod
    BY <1>1, BlockNumberFacts
  <1>5. QED
    BY <1>2, <1>3, <1>4

LEMMA PacketFacts ==
    ASSUME NEW no, NEW data
    PROVE  /\ Packet(no, data).kind = "packet"
           /\ Packet(no, data).no = no
           /\ Packet(no, data).data = data
           /\ Packet(no, data).intact
           /\ Damaged(Packet(no, data)).kind = "packet"
           /\ ~Damaged(Packet(no, data)).intact
  BY DEF Packet, Damaged

LEMMA ByteFacts ==
    ASSUME NEW b, b # "packet"
    PROVE  Byte(b).kind = b /\ Damaged(Byte(b)) = Byte("junk")
  BY DEF Byte, Damaged

LEMMA SingleFacts ==
    ASSUME NEW e, NEW s, s = <<e>>
    PROVE  s # <<>> /\ Head(s) = e /\ Tail(s) = <<>>
  OBVIOUS

LEMMA OneRead ==
    ASSUME NEW S, OneOf(S), toStub # <<>>
    PROVE  Head(toStub) \in S /\ Tail(toStub) = <<>>
  BY SingleFacts DEF OneOf

(* What the stub gets of an answer that is sent on a silent line. *)
LEMMA AnswerArrives ==
    ASSUME NEW b, toStub = <<>>, Answer(b)
    PROVE  toStub' \in {<<>>, <<b>>, <<"junk">>}
  BY DEF Answer

LEMMA BlockFacts ==
    ASSUME SenderTypeOK
    PROVE  /\ BlockUnits \in {2, 16} /\ BlockUnits \in Nat
           /\ off < Length => /\ Chunk \in 1 .. BlockUnits
                              /\ off + Chunk \in 0 .. Length
                              /\ Chunk = BlockUnits \/ off + Chunk = Length
           /\ off \in Nat /\ Length \in Nat
  <1>1. BlockUnits \in {2, 16}
    BY DEF BlockUnits
  <1>2. off \in 0 .. Length /\ Length \in Nat
    BY Counts DEF SenderTypeOK
  <1>3. QED
    BY <1>1, <1>2 DEF Chunk, Min

(* The host knows the size of a block from its data. *)
LEMMA PayloadFacts ==
    ASSUME SenderTypeOK, NEW p, p.data = Payload
    PROVE  PayloadUnits(p) = BlockUnits
  <1>1. DOMAIN p.data = 0 .. BlockUnits - 1
    BY DEF Payload
  <1>2. CASE use1k
    BY <1>1, <1>2 DEF BlockUnits, PayloadUnits
  <1>3. CASE ~use1k
    BY <1>1, <1>3 DEF BlockUnits, PayloadUnits
  <1>4. QED
    BY <1>2, <1>3

-----------------------------------------------------------------------------
(* Steps that leave what the host holds alone. *)
KeepsHost == UNCHANGED <<host, ask, expect, got, hostTries>>

LEMMA HostKept ==
    ASSUME SInv, KeepsHost
    PROVE  /\ HostTypeOK' /\ HostHoldsMemory'
           /\ off' = off => HostOK'
  BY DEF SInv, KeepsHost, HostTypeOK, HostHoldsMemory, HostOK

LEMMA CanCanType == CanCan \in Seq({Byte("CAN")})
  BY DEF CanCan

LEMMA SilentReply ==
    ASSUME toHost = <<>>, toHost' = toHost \o reply'
    PROVE  /\ reply' = <<>> => toHost' = <<>>
           /\ reply' = CanCan => toHost' \in Seq({Byte("CAN")})
           /\ \A e : reply' = <<e>> => toHost' = <<e>>
  <1>1. reply' = <<>> => toHost' = <<>>
    OBVIOUS
  <1>2. reply' = CanCan => toHost' \in Seq({Byte("CAN")})
    BY CanCanType
  <1>3. ASSUME NEW e, reply' = <<e>> PROVE toHost' = <<e>>
    BY <1>3
  <1>4. QED
    BY <1>1, <1>2, <1>3

LEMMA SameKept ==
    ASSUME UNCHANGED <<use1k, off, block, expect, got>>
    PROVE  /\ Same => Same'
           /\ Ahead => Ahead'
           /\ PacketComing /\ toHost' = toHost => PacketComing'
           /\ Packet(block, Payload)' = Packet(block, Payload)
           /\ Same \/ Ahead => off <= Len(got) \/ off < Length
  BY DEF Same, Ahead, BlockAfter, BlockUnits, PacketComing, Payload, Chunk

(* What the sender counts as delivered the host has. *)
LEMMA Delivered ==
    ASSUME SenderTypeOK, Same \/ Ahead
    PROVE  off <= Len(got)
  BY BlockFacts DEF Same, Ahead

(* A turn of a loop that did not bring what was waited for. *)
LEMMA RetryStep ==
    ASSUME SInv, NEW limit, NEW back, Retry(limit, back), KeepsHost,
           toHost = <<>>, toHost' = toHost \o reply', toStub' = <<>>,
           \/ pc = "start" /\ back = "start" /\ limit = StartTries
           \/ pc = "answer" /\ back = "send" /\ limit = MaxRetries
           \/ pc = "eotAnswer" /\ back = "eot" /\ limit = EotTries
    PROVE  SInv'
  <1>1. /\ tries' = tries + 1
        /\ UNCHANGED <<use1k, off, block, expect, got, host, ask>>
        /\ \/ tries' < limit /\ pc' = back /\ reply' = <<>>
           \/ tries' = limit /\ pc' = "done" /\ reply' = CanCan
    BY DEF Retry, Leave, KeepsHost
  <1>2. tries \in Nat /\ limit \in Nat /\ limit <= StartTries + MaxRetries + EotTries
    BY Counts DEF SInv, SenderTypeOK
  <1>3. tries' \in 0 .. StartTries + MaxRetries + EotTries
    BY <1>1, <1>2, Counts
  <1>4. SenderTypeOK'
    BY <1>1, <1>3 DEF SInv, SenderTypeOK
  <1>5. HostTypeOK' /\ HostHoldsMemory' /\ HostOK'
    BY <1>1, HostKept
  <1>6. /\ pc = "start" => Starting
        /\ pc = "answer" => Answering
        /\ pc = "eotAnswer" => EndAnswering
    BY DEF SInv, Turn, Starting, Sending, Answering, Ending, EndAnswering, Over
  <1>7. OneOf({ask, "junk"})' /\ OneOf(StubBytes)'
    BY DEF OneOf
  <1>8. CASE tries' < limit /\ pc' = back /\ reply' = <<>>
    <2>1. toHost' = <<>>
      BY <1>8, SilentReply
    <2>2. CASE pc = "start"
      BY <1>1, <1>4, <1>5, <1>6, <1>7, <1>8, <2>1, <2>2, SameKept DEF SInv, Turn, Starting
    <2>3. CASE pc = "answer"
      BY <1>1, <1>4, <1>5, <1>6, <1>8, <2>1, <2>3, SameKept
      DEF SInv, Turn, Answering, Sending, Silent
    <2>4. CASE pc = "eotAnswer"
      BY <1>1, <1>4, <1>5, <1>6, <1>8, <2>1, <2>4, SameKept
      DEF SInv, Turn, EndAnswering, Ending, Silent
    <2>5. QED
      BY <2>2, <2>3, <2>4
  <1>9. CASE pc' = "done" /\ reply' = CanCan
    <2>1. toHost' \in Seq({Byte("CAN")})
      BY <1>9, SilentReply
    <2>2. off' <= Len(got')
      <3>1. Same \/ Ahead
        BY <1>6 DEF Starting, Answering, EndAnswering
      <3>2. off <= Len(got)
        BY <3>1, Delivered DEF SInv
      <3>3. QED
        BY <1>1, <3>2
    <2>3. QED
      BY <1>4, <1>5, <1>7, <1>9, <2>1, <2>2 DEF SInv, Turn, Over
  <1>10. QED
    BY <1>1, <1>8, <1>9

-----------------------------------------------------------------------------
(* The steps of the stub. *)
LEMMA StubSendsStep == ASSUME StopAndWait, SInv, StubSends PROVE SInv'
  <1>1. KeepsHost /\ toStub' = toStub
    BY DEF StubSends, hostVars, KeepsHost
  <1>2. CASE SendBlock
    <2>1. /\ Sending /\ UNCHANGED <<use1k, tries, off, block, expect, got>>
          /\ pc' = "answer" /\ reply' = <<Packet(block, Payload)>>
      BY <1>1, <1>2 DEF SendBlock, SInv, Turn, Starting, Sending, Answering, Ending,
                         EndAnswering, Over, KeepsHost
    <2>2. SenderTypeOK' /\ HostTypeOK' /\ HostHoldsMemory' /\ HostOK'
      BY <1>1, <2>1, HostKept DEF SInv, SenderTypeOK
    <2>3. \/ toHost' = <<Packet(block, Payload)>>
          \/ toHost' = <<>>
          \/ toHost' = <<Damaged(Packet(block, Payload))>>
      <3>1. toHost = <<>> /\ reply'[1] = Packet(block, Payload)
        BY <2>1 DEF Sending, Silent
      <3>2. toHost' = toHost \o reply' => toHost' = <<Packet(block, Payload)>>
        BY <2>1, <3>1, SilentReply
      <3>3. \A e : Append(toHost, e) = <<e>>
        BY <3>1
      <3>4. QED
        BY <3>1, <3>2, <3>3 DEF StubSends
    <2>4. PacketComing' \/ toHost' = <<>>
      BY <2>1, <2>3, SameKept DEF PacketComing
    <2>5. toStub' = <<>> /\ OneOf(NoAck)'
      BY <1>1, <2>1 DEF Sending, Silent, OneOf
    <2>6. Answering'
      BY <2>1, <2>4, <2>5, SameKept DEF Answering, Sending
    <2>7. QED
      BY <2>2, <2>6 DEF SInv, Turn
  <1>3. CASE SendEot
    <2>1. /\ Ending /\ UNCHANGED <<use1k, tries, off, block, expect, got>>
          /\ pc' = "eotAnswer" /\ reply' = <<Byte("EOT")>>
      BY <1>1, <1>3 DEF SendEot, SInv, Turn, Starting, Sending, Answering, Ending,
                         EndAnswering, Over, KeepsHost
    <2>2. SenderTypeOK' /\ HostTypeOK' /\ HostHoldsMemory' /\ HostOK'
      BY <1>1, <2>1, HostKept DEF SInv, SenderTypeOK
    <2>3. toHost' \in {<<Byte("EOT")>>, <<>>, <<Byte("junk")>>}
      <3>1. toHost = <<>> /\ reply'[1] = Byte("EOT") /\ Damaged(Byte("EOT")) = Byte("junk")
        BY <2>1, ByteFacts DEF Ending, Silent
      <3>2. toHost' = toHost \o reply' => toHost' = <<Byte("EOT")>>
        BY <2>1, <3>1, SilentReply
      <3>3. \A e : Append(toHost, e) = <<e>>
        BY <3>1
      <3>4. QED
        BY <3>1, <3>2, <3>3 DEF StubSends
    <2>4. EotComing' \/ toHost' = <<>>
      BY <2>3 DEF EotComing
    <2>5. toStub' = <<>> /\ OneOf(StubBytes)'
      BY <1>1, <2>1 DEF Ending, Silent, OneOf
    <2>6. EndAnswering'
      BY <2>1, <2>4, <2>5, SameKept DEF EndAnswering, Ending
    <2>7. QED
      BY <2>2, <2>6 DEF SInv, Turn
  <1>4. QED
    BY <1>2, <1>3 DEF StubSends, Send

(* A byte that the stub was waiting for. *)
LEMMA StartByteStep ==
    ASSUME SInv, pc = "start", toStub # <<>>, StartByte(Head(toStub)),
           toStub' = Tail(toStub), toHost' = toHost \o reply', KeepsHost
    PROVE  SInv'
  <1> DEFINE b == Head(toStub)
  <1>1. Starting
    BY DEF SInv, Turn, Sending, Answering, Ending, EndAnswering, Over
  <1>2. toStub' = <<>> /\ toHost = <<>> /\ b \in {ask, "junk"}
    BY <1>1, OneRead DEF Starting
  <1>3. CASE b \in {"C", "NAK"}
    <2>1. /\ use1k' \in BOOLEAN /\ tries' = 0 /\ pc' = BlockLoopAt(off) /\ reply' = <<>>
          /\ UNCHANGED <<off, block, host, ask, expect, got, hostTries>>
      BY <1>3 DEF StartByte, KeepsHost
    <2>2. SenderTypeOK' /\ HostTypeOK' /\ HostHoldsMemory' /\ HostOK'
      BY <2>1, Counts, HostKept DEF SInv, SenderTypeOK
    <2>3. Same'
      BY <1>1, <2>1 DEF Starting, Same
    <2>4. Silent'
      BY <1>2, <2>1, SilentReply DEF Silent
    <2>5. \/ pc' = "send" /\ off' < Length
          \/ pc' = "eot" /\ off' = Length
      BY <2>1, Counts DEF BlockLoopAt, SInv, SenderTypeOK
    <2>6. Sending' \/ Ending'
      BY <2>1, <2>3, <2>4, <2>5, Counts DEF Sending, Ending
    <2>7. QED
      BY <2>2, <2>6 DEF SInv, Turn
  <1>4. CASE b \notin {"C", "NAK", "CAN"}
    <2>1. Retry(StartTries, "start")
      BY <1>4 DEF StartByte
    <2>2. QED
      BY <1>2, <2>1, RetryStep
  <1>5. b # "CAN"
    BY <1>2, ReadSessionAssumption DEF SInv, HostTypeOK
  <1>6. QED
    BY <1>3, <1>4, <1>5

(* The block the host has acknowledged counts as delivered. *)
LEMMA AnswerByteStep ==
    ASSUME SInv, pc = "answer", toStub # <<>>, AnswerByte(Head(toStub)),
           toStub' = Tail(toStub), toHost' = toHost \o reply', KeepsHost
    PROVE  SInv'
  <1> DEFINE b == Head(toStub)
  <1>1. Answering
    BY DEF SInv, Turn, Starting, Sending, Ending, EndAnswering, Over
  <1>2. /\ toHost = <<>> /\ toStub' = <<>>
        /\ b = "ACK" => Ahead
        /\ Same \/ Ahead
    <2>1. CASE OneOf(NoAck) /\ toHost = <<>> /\ (Same \/ Ahead)
      BY <2>1, OneRead DEF NoAck
    <2>2. CASE toStub = <<"ACK">> /\ toHost = <<>> /\ Ahead
      BY <2>2, SingleFacts
    <2>3. QED
      BY <1>1, <2>1, <2>2 DEF Answering
  <1>3. CASE b = "ACK"
    <2>1. /\ off' = off + Chunk /\ block' = BlockAfter /\ tries' = 0
          /\ pc' = BlockLoopAt(off') /\ reply' = <<>> /\ use1k' = use1k
          /\ UNCHANGED <<host, ask, expect, got, hostTries>>
      BY <1>3 DEF AnswerByte, Acknowledges, KeepsHost
    <2>2. /\ off < Length /\ expect = BlockAfter /\ Len(got) = off + BlockUnits
      BY <1>2, <1>3 DEF Ahead
    <2>3. /\ BlockUnits \in Nat /\ Chunk \in 1 .. BlockUnits /\ off \in Nat
          /\ off + Chunk \in 0 .. Length
          /\ Chunk = BlockUnits \/ off + Chunk = Length
      BY <2>2, BlockFacts DEF SInv
    <2>4. SenderTypeOK'
      BY <2>1, <2>3, Counts, NumberFacts DEF SInv, SenderTypeOK, BlockAfter
    <2>5. Same'
      <3> DEFINE c == Chunk
                 n == BlockUnits
      <3> HIDE DEF c, n
      <3>1. /\ n \in Nat /\ c \in 1 .. n /\ off \in Nat /\ off' = off + c
            /\ Len(got) = off + n
            /\ c = n \/ off + c = Length
        BY <2>1, <2>2, <2>3 DEF c, n
      <3>2. Length \in Nat
        BY Counts
      <3>3. off' <= off + n /\ (off' < Length => off' = off + n)
        BY <3>1, <3>2
      <3>4. Len(got') = off + n /\ expect' = block'
        BY <2>1, <2>2 DEF n
      <3>5. QED
        BY <3>3, <3>4 DEF Same
    <2>6. host # "ok"
      BY <2>2, <2>3, Counts DEF SInv, HostOK
    <2>7. HostTypeOK' /\ HostHoldsMemory' /\ HostOK'
      BY <2>1, <2>6, HostKept DEF HostOK
    <2>8. Silent'
      BY <1>2, <2>1, SilentReply DEF Silent
    <2>9. \/ pc' = "send" /\ off' < Length
          \/ pc' = "eot" /\ off' = Length
      BY <2>1, <2>3, Counts DEF BlockLoopAt
    <2>10. Sending' \/ Ending'
      BY <2>1, <2>5, <2>8, <2>9, Counts DEF Sending, Ending
    <2>11. QED
      BY <2>4, <2>7, <2>10 DEF SInv, Turn
  <1>4. CASE b = "CAN"
    <2>1. /\ pc' = "done" /\ reply' = <<>>
          /\ UNCHANGED <<use1k, tries, off, block, host, ask, expect, got, hostTries>>
      BY <1>4 DEF AnswerByte, Acknowledges, Leave, KeepsHost
    <2>2. SenderTypeOK' /\ HostTypeOK' /\ HostHoldsMemory' /\ HostOK'
      BY <2>1, HostKept DEF SInv, SenderTypeOK
    <2>3. toHost' \in Seq({Byte("CAN")})
      <3>1. toHost' = <<>>
        BY <1>2, <2>1, SilentReply
      <3>2. QED
        BY <3>1
    <2>4. Over'
      BY <1>2, <2>1, <2>3, Delivered DEF SInv, Over, OneOf
    <2>5. QED
      BY <2>2, <2>4 DEF SInv, Turn
  <1>5. CASE b \notin {"ACK", "CAN"}
    <2>1. Retry(MaxRetries, "send")
      BY <1>5 DEF AnswerByte, Acknowledges
    <2>2. QED
      BY <1>2, <2>1, RetryStep
  <1>6. QED
    BY <1>3, <1>4, <1>5

LEMMA EotByteStep ==
    ASSUME SInv, pc = "eotAnswer", toStub # <<>>, EotByte(Head(toStub)),
           toStub' = Tail(toStub), toHost' = toHost \o reply', KeepsHost
    PROVE  SInv'
  <1>1. EndAnswering
    BY DEF SInv, Turn, Starting, Sending, Answering, Ending, Over
  <1>2. toHost = <<>> /\ toStub' = <<>> /\ Same
    BY <1>1, OneRead DEF EndAnswering
  <1>3. CASE Head(toStub) = "ACK"
    <2>1. /\ pc' = "done" /\ reply' = <<>>
          /\ UNCHANGED <<use1k, tries, off, block, host, ask, expect, got, hostTries>>
      BY <1>3 DEF EotByte, Leave, KeepsHost
    <2>2. SenderTypeOK' /\ HostTypeOK' /\ HostHoldsMemory' /\ HostOK'
      BY <2>1, HostKept DEF SInv, SenderTypeOK
    <2>3. toHost' \in Seq({Byte("CAN")})
      <3>1. toHost' = <<>>
        BY <1>2, <2>1, SilentReply
      <3>2. QED
        BY <3>1
    <2>4. Over'
      BY <1>2, <2>1, <2>3 DEF Same, Over, OneOf
    <2>5. QED
      BY <2>2, <2>4 DEF SInv, Turn
  <1>4. CASE Head(toStub) # "ACK"
    <2>1. Retry(EotTries, "eot")
      BY <1>4 DEF EotByte
    <2>2. QED
      BY <1>2, <2>1, RetryStep
  <1>5. QED
    BY <1>3, <1>4

LEMMA StubReadsStep == ASSUME SInv, StubReads PROVE SInv'
  <1>1. toStub # <<>> /\ toStub' = Tail(toStub) /\ KeepsHost
    BY DEF StubReads, hostVars, KeepsHost
  <1>2. CASE ReadByte(Head(toStub)) /\ toHost' = toHost \o reply'
    BY <1>1, <1>2, StartByteStep, AnswerByteStep, EotByteStep
    DEF ReadByte, StartByte, AnswerByte, EotByte
  <1>3. CASE pc = "done" /\ UNCHANGED <<senderVars, toHost>>
    <2>1. UNCHANGED <<pc, use1k, tries, off, block, toHost, expect, got>>
      BY <1>1, <1>3 DEF senderVars, KeepsHost
    <2>2. SenderTypeOK' /\ HostTypeOK' /\ HostHoldsMemory' /\ HostOK'
      BY <1>1, <2>1, HostKept DEF SInv, SenderTypeOK
    <2>3. Over
      BY <1>3 DEF SInv, Turn, Starting, Sending, Answering, Ending, EndAnswering
    <2>4. toStub' = <<>>
      BY <1>1, <2>3, OneRead DEF Over
    <2>5. Over'
      BY <2>1, <2>3, <2>4 DEF Over, OneOf
    <2>6. QED
      BY <2>2, <2>5 DEF SInv, Turn
  <1>4. QED
    BY <1>2, <1>3 DEF StubReads

LEMMA StubTimesOutStep == ASSUME StopAndWait, SInv, StubTimesOut PROVE SInv'
  <1>1. /\ toStub = <<>> /\ toHost = <<>> /\ toStub' = <<>> /\ toHost' = toHost \o reply'
        /\ Timeout /\ KeepsHost
    BY DEF StubTimesOut, StopAndWait, Silence, hostVars, KeepsHost
  <1>2. QED
    BY <1>1, RetryStep DEF Timeout

-----------------------------------------------------------------------------
(* The steps of the host. *)
KeepsSender == UNCHANGED <<pc, use1k, tries, off, block>>

(* What the host says other than ACK is one byte for the stub, or none.    *)
LEMMA HostSpeaks ==
    ASSUME SInv, KeepsSender, UNCHANGED <<ask, expect, got>>, toHost' = <<>>,
           pc \notin {"send", "eot"},
           NEW b \in {"C", "NAK"}, toStub' \in {<<>>, <<b>>, <<"junk">>},
           pc = "start" => b = ask /\ host' \in {"start", "fail"}
    PROVE  Turn'
  <1>1. /\ UNCHANGED <<pc, use1k, tries, off, block, ask, expect, got>>
        /\ (Same => Same') /\ (Ahead => Ahead')
    BY SameKept DEF KeepsSender
  <1>2. OneOf(NoAck)' /\ OneOf(StubBytes)' /\ (b = ask => OneOf({ask, "junk"})')
    BY <1>1 DEF OneOf, NoAck, StubBytes
  <1>3. CASE Starting
    BY <1>1, <1>2, <1>3 DEF Starting, Turn
  <1>4. CASE Answering
    BY <1>1, <1>2, <1>4 DEF Answering, Turn
  <1>5. CASE EndAnswering
    BY <1>1, <1>2, <1>5 DEF EndAnswering, Turn
  <1>6. CASE Over
    <2>1. toHost' \in Seq({Byte("CAN")})
      OBVIOUS
    <2>2. QED
      BY <1>1, <1>2, <1>6, <2>1 DEF Over, Turn
  <1>7. QED
    BY <1>3, <1>4, <1>5, <1>6 DEF SInv, Turn, Sending, Ending

LEMMA HostAsksStep == ASSUME StopAndWait, SInv, HostAsks PROVE SInv'
  <1>1. /\ Silence /\ toStub = <<>> /\ toHost' = <<>>
        /\ host = "start" /\ host' = host /\ hostTries < HostTries /\ hostTries' = hostTries + 1
        /\ Answer(ask) /\ KeepsSender /\ UNCHANGED <<ask, expect, got>>
    BY DEF HostAsks, StopAndWait, Silence, senderVars, KeepsSender
  <1>2. ask \in {"C", "NAK"}
    BY ReadSessionAssumption DEF SInv, HostTypeOK
  <1>3. toStub' \in {<<>>, <<ask>>, <<"junk">>}
    BY <1>1, AnswerArrives
  <1>4. Turn'
    BY <1>1, <1>2, <1>3, HostSpeaks DEF Silence
  <1>5. SenderTypeOK' /\ HostHoldsMemory' /\ HostOK'
    BY <1>1 DEF SInv, KeepsSender, SenderTypeOK, HostHoldsMemory, HostOK
  <1>6. HostTypeOK'
    BY <1>1, Counts DEF SInv, HostTypeOK
  <1>7. QED
    BY <1>4, <1>5, <1>6 DEF SInv

LEMMA HostTimesOutStep == ASSUME StopAndWait, SInv, HostTimesOut PROVE SInv'
  <1>1. /\ Silence /\ toStub = <<>> /\ toHost' = <<>>
        /\ KeepsSender /\ UNCHANGED <<ask, expect, got>>
    BY DEF HostTimesOut, StopAndWait, Silence, senderVars, KeepsSender
  <1>2. ask \in {"C", "NAK"}
    BY ReadSessionAssumption DEF SInv, HostTypeOK
  <1>3. CASE /\ host = "block" /\ host' = host /\ Answer("NAK")
             /\ hostTries < HostTries /\ hostTries' = hostTries + 1
    <2>1. toStub' \in {<<>>, <<"NAK">>, <<"junk">>}
      BY <1>1, <1>3, AnswerArrives
    <2>2. pc # "start"
      BY <1>3 DEF SInv, Turn, Starting, Sending, Answering, Ending, EndAnswering, Over
    <2>3. Turn'
      BY <1>1, <2>1, <2>2, HostSpeaks DEF Silence
    <2>4. SenderTypeOK' /\ HostHoldsMemory' /\ HostOK'
      BY <1>1, <1>3 DEF SInv, KeepsSender, SenderTypeOK, HostHoldsMemory, HostOK
    <2>5. HostTypeOK'
      BY <1>1, <1>3, Counts DEF SInv, HostTypeOK
    <2>6. QED
      BY <2>3, <2>4, <2>5 DEF SInv
  <1>4. CASE host' = "fail" /\ UNCHANGED <<hostTries, toStub>>
    <2>1. Turn'
      BY <1>1, <1>2, <1>4, HostSpeaks DEF Silence
    <2>2. SenderTypeOK' /\ HostHoldsMemory' /\ HostOK' /\ HostTypeOK'
      BY <1>1, <1>4 DEF SInv, KeepsSender, SenderTypeOK, HostHoldsMemory, HostOK, HostTypeOK
    <2>3. QED
      BY <2>1, <2>2 DEF SInv
  <1>5. QED
    BY <1>3, <1>4 DEF HostTimesOut

LEMMA ConcatFacts ==
    ASSUME NEW S, NEW s \in Seq(S), NEW n \in Nat, NEW f \in [1 .. n -> S]
    PROVE  /\ s \o f \in Seq(S)
           /\ Len(s \o f) = Len(s) + n
           /\ \A i \in 1 .. Len(s) : (s \o f)[i] = s[i]
           /\ \A i \in Len(s) + 1 .. Len(s) + n : (s \o f)[i] = f[i - Len(s)]
  <1>1. f \in Seq(S) /\ Len(f) = n
    OBVIOUS
  <1>2. s \o f \in Seq(S) /\ Len(s \o f) = Len(s) + Len(f)
    BY <1>1
  <1>3. \A i \in 1 .. Len(s) : (s \o f)[i] = s[i]
    BY <1>1
  <1>4. \A i \in Len(s) + 1 .. Len(s) + Len(f) : (s \o f)[i] = f[i - Len(s)]
    BY <1>1
  <1>5. QED
    BY <1>1, <1>2, <1>3, <1>4

(* The block the host waited for continues what it holds. *)
LEMMA AcceptedFacts ==
    ASSUME SInv, Same, off < Length, NEW p, p.data = Payload,
           got' = got \o [i \in 1 .. PayloadUnits(p) |-> p.data[i - 1]]
    PROVE  got' \in Seq(Units) /\ Len(got') = off + BlockUnits /\ HostHoldsMemory'
  <1> DEFINE n == BlockUnits
             c == Chunk
             f == [i \in 1 .. n |-> IF i - 1 < c THEN Memory[off + (i - 1)] ELSE Pad]
  <1>1. /\ n \in Nat /\ c \in 1 .. n /\ off \in Nat /\ Length \in Nat
        /\ off + c \in 0 .. Length /\ Len(got) = off /\ got \in Seq(Units)
        /\ c = n \/ off + c = Length
    BY BlockFacts DEF SInv, Same, HostTypeOK
  <1>2. [i \in 1 .. PayloadUnits(p) |-> p.data[i - 1]] = f
    <2>1. PayloadUnits(p) = n
      BY PayloadFacts DEF SInv
    <2>2. ASSUME NEW i \in 1 .. n
          PROVE  Payload[i - 1] = IF i - 1 < c THEN Memory[off + (i - 1)] ELSE Pad
      <3>1. i - 1 \in 0 .. BlockUnits - 1
        BY <1>1
      <3>2. QED
        BY <3>1 DEF Payload
    <2>3. QED
      BY <2>1, <2>2
  <1> HIDE DEF n, c
  <1>3. f \in [1 .. n -> Units]
    <2>1. ASSUME NEW i \in 1 .. n, i - 1 < c PROVE Memory[off + (i - 1)] \in Units
      <3>1. off + (i - 1) \in 0 .. Length - 1
        BY <1>1, <2>1
      <3>2. QED
        BY <3>1 DEF Units
    <2>2. Pad \in Units
      BY DEF Units
    <2>3. QED
      BY <2>1, <2>2
  <1>4. \A i \in 1 .. n : f[i] = IF i - 1 < c THEN Memory[off + (i - 1)] ELSE Pad
    OBVIOUS
  <1> HIDE DEF f
  <1>5. /\ got' \in Seq(Units)
        /\ Len(got') = Len(got) + n
        /\ \A i \in 1 .. Len(got) : got'[i] = got[i]
        /\ \A i \in Len(got) + 1 .. Len(got) + n : got'[i] = f[i - Len(got)]
    <2>1. got' = got \o f
      BY <1>2
    <2>2. got \in Seq(Units) /\ n \in Nat
      BY <1>1
    <2>3. /\ got \o f \in Seq(Units)
          /\ Len(got \o f) = Len(got) + n
          /\ \A i \in 1 .. Len(got) : (got \o f)[i] = got[i]
          /\ \A i \in Len(got) + 1 .. Len(got) + n : (got \o f)[i] = f[i - Len(got)]
      BY <1>3, <2>2, ConcatFacts
    <2>4. QED
      BY <2>1, <2>3
  <1>6. ASSUME NEW i \in 1 .. off + n
        PROVE  got'[i] = IF i <= Length THEN Memory[i - 1] ELSE Pad
    <2>1. CASE i <= off
      <3>1. i \in 1 .. Len(got)
        BY <1>1, <2>1
      <3>2. got[i] = IF i <= Length THEN Memory[i - 1] ELSE Pad
        BY <3>1 DEF SInv, HostHoldsMemory
      <3>3. QED
        BY <1>5, <3>1, <3>2
    <2>2. CASE ~(i <= off)
      <3>1. i \in Len(got) + 1 .. Len(got) + n /\ i - Len(got) \in 1 .. n
        BY <1>1, <2>2
      <3>2. /\ off + ((i - Len(got)) - 1) = i - 1
            /\ (i - Len(got)) - 1 < c <=> i <= Length
        BY <1>1, <2>2
      <3>3. got'[i] = IF (i - Len(got)) - 1 < c
                      THEN Memory[off + ((i - Len(got)) - 1)] ELSE Pad
        BY <1>4, <1>5, <3>1
      <3>4. QED
        BY <3>2, <3>3
    <2>3. QED
      BY <1>1, <2>1, <2>2
  <1>7. Len(got') = off + n
    BY <1>1, <1>5
  <1>8. HostHoldsMemory'
    <2>1. ASSUME NEW i \in 1 .. Len(got')
          PROVE  got'[i] = IF i <= Length THEN Memory[i - 1] ELSE Pad
      BY <1>6, <1>7
    <2>2. QED
      BY <2>1 DEF HostHoldsMemory
  <1>9. QED
    BY <1>5, <1>7, <1>8 DEF n

(* The answer to a block leaves the line to the host empty. *)
LEMMA HostReadsPacketStep ==
    ASSUME SInv, Answering, toStub = <<>>, Same \/ Ahead, toHost' = <<>>,
           host \in {"start", "block"},
           NEW p, p = Packet(block, Payload) \/ p = Damaged(Packet(block, Payload)),
           HostReadsPacket(p), KeepsSender, ask' = ask
    PROVE  SInv'
  <1>1. /\ UNCHANGED <<pc, use1k, tries, off, block, ask>>
        /\ pc = "answer" /\ off < Length /\ tries < MaxRetries
        /\ SenderTypeOK'
    BY DEF KeepsSender, Answering, SInv, SenderTypeOK
  <1>2. CASE ~p.intact
    <2>1. Answer("NAK") /\ host' = "block" /\ UNCHANGED <<expect, got, hostTries>>
      BY <1>2, PacketFacts DEF HostReadsPacket
    <2>2. toStub' \in {<<>>, <<"NAK">>, <<"junk">>}
      BY <2>1, AnswerArrives
    <2>3. Turn'
      BY <1>1, <2>1, <2>2, HostSpeaks
    <2>4. HostTypeOK' /\ HostHoldsMemory' /\ HostOK'
      BY <1>1, <2>1 DEF SInv, HostTypeOK, HostHoldsMemory, HostOK
    <2>5. QED
      BY <1>1, <2>3, <2>4 DEF SInv
  <1>3. CASE p.intact
    <2>1. p.no = block /\ p.data = Payload
      BY <1>3, PacketFacts
    <2>2. /\ BlockAfter \in 0 .. BlockMod - 1 /\ BlockAfter # block
          /\ (BlockAfter - 1) % BlockMod = block /\ (block - 1) % BlockMod # block
      BY NumberFacts DEF BlockAfter, SInv, SenderTypeOK
    <2>3. ASSUME Answer("ACK"), Ahead'
          PROVE  Turn'
      <3>1. toStub' \in {<<>>, <<"ACK">>, <<"junk">>}
        BY <2>3, AnswerArrives
      <3>2. OneOf(NoAck)' \/ toStub' = <<"ACK">>
        BY <3>1 DEF OneOf, NoAck
      <3>3. Answering'
        BY <1>1, <2>3, <3>2 DEF Answering
      <3>4. QED
        BY <3>3 DEF Turn
    <2>4. CASE Same
      <3>1. expect = block
        BY <2>4 DEF Same
      <3>2. /\ got' = got \o [i \in 1 .. PayloadUnits(p) |-> p.data[i - 1]]
            /\ expect' = BlockAfter /\ hostTries' = 0 /\ host' = "block" /\ Answer("ACK")
        BY <1>3, <2>1, <2>2, <3>1 DEF HostReadsPacket, BlockAfter
      <3>3. got' \in Seq(Units) /\ Len(got') = off + BlockUnits /\ HostHoldsMemory'
        BY <1>1, <2>1, <2>4, <3>2, AcceptedFacts
      <3>4. HostTypeOK' /\ HostOK'
        BY <1>1, <2>2, <3>2, <3>3, Counts DEF SInv, HostTypeOK, HostOK
      <3>5. Ahead'
        BY <1>1, <3>2, <3>3 DEF Ahead, BlockAfter, BlockUnits
      <3>6. QED
        BY <1>1, <2>3, <3>2, <3>3, <3>4, <3>5 DEF SInv
    <2>5. CASE Ahead
      <3>1. expect # block /\ (expect - 1) % BlockMod = block
        BY <2>2, <2>5 DEF Ahead
      <3>2. host' = "block" /\ Answer("ACK") /\ UNCHANGED <<expect, got, hostTries>>
        BY <1>3, <2>1, <3>1 DEF HostReadsPacket
      <3>3. HostTypeOK' /\ HostHoldsMemory' /\ HostOK'
        BY <1>1, <3>2 DEF SInv, HostTypeOK, HostHoldsMemory, HostOK
      <3>4. Ahead'
        BY <1>1, <2>5, <3>2, SameKept
      <3>5. QED
        BY <1>1, <2>3, <3>2, <3>3, <3>4 DEF SInv
    <2>6. QED
      BY <2>4, <2>5
  <1>4. QED
    BY <1>2, <1>3

LEMMA HostReadsStep == ASSUME SInv, HostReads PROVE SInv'
  <1> DEFINE p == Head(toHost)
  <1>1. /\ toHost # <<>> /\ toHost' = Tail(toHost)
        /\ KeepsSender /\ SenderTypeOK'
        /\ \/ HostOver /\ UNCHANGED <<host, ask, expect, got, hostTries, toStub>>
           \/ ~HostOver /\ p.kind = "packet" /\ HostReadsPacket(p) /\ ask' = ask
           \/ /\ ~HostOver /\ p.kind = "EOT" /\ host' = "ok" /\ Answer("ACK")
              /\ UNCHANGED <<ask, expect, got, hostTries>>
           \/ /\ ~HostOver /\ p.kind = "CAN" /\ host' = "fail"
              /\ UNCHANGED <<ask, expect, got, hostTries, toStub>>
           \/ /\ ~HostOver /\ p.kind \notin {"packet", "EOT", "CAN"}
              /\ UNCHANGED <<host, ask, expect, got, hostTries, toStub>>
    BY DEF HostReads, hostVars, senderVars, KeepsSender, SInv, SenderTypeOK
  <1>2. ~HostOver => host \in {"start", "block"}
    BY DEF HostOver, SInv, HostTypeOK
  <1>3. \/ pc = "answer" /\ Answering /\ PacketComing /\ toStub = <<>> /\ (Same \/ Ahead)
        \/ pc = "eotAnswer" /\ EndAnswering /\ EotComing /\ toStub = <<>>
        \/ pc = "done" /\ Over
    BY <1>1 DEF SInv, Turn, Starting, Sending, Answering, Ending, EndAnswering, Over, Silent
  <1>4. ASSUME UNCHANGED <<host, ask, expect, got, hostTries, toStub>>, toStub = <<>>, toHost' = <<>>,
               pc \in {"answer", "eotAnswer"}
        PROVE  SInv'
    <2>1. Turn'
      BY <1>1, <1>4, HostSpeaks
    <2>2. HostTypeOK' /\ HostHoldsMemory' /\ HostOK'
      BY <1>1, <1>4 DEF SInv, KeepsSender, HostTypeOK, HostHoldsMemory, HostOK
    <2>3. QED
      BY <1>1, <2>1, <2>2 DEF SInv
  <1>5. CASE pc = "answer" /\ Answering /\ PacketComing /\ toStub = <<>> /\ (Same \/ Ahead)
    <2>1. /\ p = Packet(block, Payload) \/ p = Damaged(Packet(block, Payload))
          /\ toHost' = <<>>
      BY <1>1, <1>5, SingleFacts DEF PacketComing
    <2>2. p.kind = "packet"
      BY <2>1, PacketFacts
    <2>3. CASE HostOver
      BY <1>1, <1>4, <1>5, <2>1, <2>3
    <2>4. CASE ~HostOver
      BY <1>1, <1>2, <1>5, <2>1, <2>2, <2>4, HostReadsPacketStep
    <2>5. QED
      BY <2>3, <2>4
  <1>6. CASE pc = "eotAnswer" /\ EndAnswering /\ EotComing /\ toStub = <<>>
    <2>1. (p = Byte("EOT") \/ p = Byte("junk")) /\ toHost' = <<>>
      BY <1>1, <1>6, SingleFacts DEF EotComing
    <2>2. p.kind \in {"EOT", "junk"}
      BY <2>1, ByteFacts
    <2>3. CASE host' = "ok" /\ Answer("ACK") /\ UNCHANGED <<ask, expect, got, hostTries>>
      <3>1. toStub' \in {<<>>, <<"ACK">>, <<"junk">>}
        BY <1>6, <2>3, AnswerArrives
      <3>2. OneOf(StubBytes)'
        BY <3>1 DEF OneOf, StubBytes
      <3>3. UNCHANGED <<pc, tries, use1k, off, block, expect, got>>
        BY <1>1, <2>3 DEF KeepsSender
      <3>4. EndAnswering'
        BY <1>6, <2>1, <3>2, <3>3, SameKept DEF EndAnswering
      <3>5. HostOK' /\ HostTypeOK' /\ HostHoldsMemory'
        BY <1>6, <2>3, <3>3 DEF SInv, EndAnswering, Same, HostOK, HostTypeOK, HostHoldsMemory
      <3>6. QED
        BY <1>1, <3>4, <3>5 DEF SInv, Turn
    <2>4. CASE UNCHANGED <<host, ask, expect, got, hostTries, toStub>>
      BY <1>4, <1>6, <2>1, <2>4
    <2>5. QED
      BY <1>1, <2>2, <2>3, <2>4
  <1>7. CASE pc = "done" /\ Over
    <2>1. p \in {Byte("CAN")} /\ toHost' \in Seq({Byte("CAN")})
      BY <1>1, <1>7 DEF Over
    <2>2. p.kind = "CAN"
      BY <2>1, ByteFacts
    <2>3. UNCHANGED <<ask, expect, got, hostTries, toStub>> /\ host' \in {host, "fail"}
      BY <1>1, <2>2
    <2>4. Over'
      BY <1>1, <1>7, <2>1, <2>3 DEF Over, OneOf, KeepsSender
    <2>5. HostOK' /\ HostTypeOK' /\ HostHoldsMemory'
      BY <1>1, <2>3 DEF SInv, KeepsSender, HostOK, HostTypeOK, HostHoldsMemory
    <2>6. QED
      BY <1>1, <2>4, <2>5 DEF SInv, Turn
  <1>8. QED
    BY <1>3, <1>5, <1>6, <1>7

LEMMA StepSInv == ASSUME StopAndWait, SInv, [SessionNext]_vars PROVE SInv'
  <1>1. CASE UNCHANGED vars
    <2>1. /\ UNCHANGED <<pc, use1k, tries, off, block, toStub, toHost>>
          /\ UNCHANGED <<host, ask, expect, got, hostTries>>
      BY <1>1 DEF vars, senderVars, hostVars, lineVars
    <2>2. SenderTypeOK' /\ HostTypeOK' /\ HostHoldsMemory' /\ HostOK'
      BY <2>1 DEF SInv, SenderTypeOK, HostTypeOK, HostHoldsMemory, HostOK
    <2>3. /\ (Same => Same') /\ (Ahead => Ahead') /\ (PacketComing => PacketComing')
      BY <2>1, SameKept
    <2>4. Turn'
      BY <2>1, <2>3 DEF SInv, Turn, Starting, Sending, Answering, Ending, EndAnswering, Over,
                        OneOf, Silent, EotComing
    <2>5. QED
      BY <2>2, <2>4 DEF SInv
  <1>2. ~Noise
    BY DEF StopAndWait, Noise, Fault
  <1>3. QED
    BY <1>1, <1>2, StubSendsStep, StubReadsStep, StubTimesOutStep, HostAsksStep, HostReadsStep,
       HostTimesOutStep DEF SessionNext

-----------------------------------------------------------------------------
(* The turns of the protocol: at most one block or one answer is under way,*)
(* and only a block the host holds is acknowledged.                        *)
THEOREM SessionInvariant == ASSUME StopAndWait PROVE SessionSpec => []SInv
  <1>1. SInv /\ [SessionNext]_vars => SInv'
    BY StepSInv
  <1>2. QED
    BY <1>1, InitSInv, PTL DEF SessionSpec

(* Every variable of the sender and the host keeps its type; in particular *)
(* no retry counter passes its limit.                                      *)
THEOREM SessionTypeCorrect == ASSUME StopAndWait PROVE SessionSpec => []SessionTypeOK
  <1>1. ASSUME SInv PROVE SessionTypeOK
    <2>1. pc \in {"start", "send", "answer", "eot", "eotAnswer", "done"}
      BY <1>1 DEF SInv, Turn, Starting, Sending, Answering, Ending, EndAnswering, Over
    <2>2. OneOf(StubBytes)
      <3>1. ask \in StubBytes
        BY <1>1, ReadSessionAssumption DEF SInv, HostTypeOK, StubBytes
      <3>2. QED
        BY <1>1, <3>1 DEF SInv, Turn, Starting, Sending, Answering, Ending, EndAnswering, Over,
                          OneOf, Silent, NoAck, StubBytes
    <2>3. \A i \in DOMAIN toStub : toStub[i] \in {"C", "ACK", "NAK", "CAN", "junk"}
      <3>1. ASSUME NEW b \in StubBytes, toStub = <<b>>, NEW i \in DOMAIN toStub
            PROVE  toStub[i] = b
        BY <3>1
      <3>2. QED
        BY <2>2, <3>1 DEF OneOf, StubBytes
    <2>4. QED
      BY <1>1, <2>1, <2>3 DEF SInv, SenderTypeOK, HostTypeOK, SessionTypeOK
  <1>2. QED
    BY <1>1, SessionInvariant, PTL

(* What the host holds is the memory it asked for, whatever the line lost  *)
(* or damaged and however often a block was sent.                          *)
THEOREM HostGetsMemory == ASSUME StopAndWait PROVE SessionSpec => []HostHoldsMemory
  <1>1. SInv => HostHoldsMemory
    BY DEF SInv
  <1>2. QED
    BY <1>1, SessionInvariant, PTL

(* A host that has seen EOT holds everything it asked for. *)
THEOREM SuccessIsComplete == ASSUME StopAndWait PROVE SessionSpec => []HostSuccessIsComplete
  <1>1. ASSUME SInv, host = "ok" PROVE Len(got) >= Length
    <2>1. Length <= Len(got) /\ got \in Seq(Units)
      BY <1>1 DEF SInv, HostOK, HostTypeOK
    <2>2. QED
      BY <2>1, Counts
  <1>2. SInv => HostSuccessIsComplete
    BY <1>1 DEF HostSuccessIsComplete
  <1>3. QED
    BY <1>2, SessionInvariant, PTL

(* The sender never takes a block for delivered that the host has not got. *)
THEOREM SenderNeverAhead == ASSUME StopAndWait PROVE SessionSpec => []NeverAhead
  <1>1. ASSUME SInv PROVE off <= Len(got)
    <2>1. Same \/ Ahead \/ off <= Len(got)
      BY <1>1 DEF SInv, Turn, Starting, Sending, Answering, Ending, EndAnswering, Over
    <2>2. QED
      BY <1>1, <2>1, Delivered DEF SInv
  <1>2. SInv => NeverAhead
    BY <1>1 DEF NeverAhead
  <1>3. QED
    BY <1>2, SessionInvariant, PTL
=============================================================================
