------------------------- MODULE StreamWriteSession -------------------------
(***************************************************************************)
(* An OBK_CMD_FLASH_XMODEM_DL_Z transfer from end to end: StreamReceive, a *)
(* host that sends a compressed file with XMODEM, and a serial line that   *)
(* may lose or damage what the host sends and lose what the stub answers.  *)
(* Host and line are external.  A patient host sends again only when no    *)
(* answer can come any more, however long the stub erases and programs     *)
(* before it sends the ACK it holds back; an impatient one at any time.    *)
(***************************************************************************)
EXTENDS StreamReceive

CONSTANTS HostRetries,  \* how often the host sends one block or EOT
          MaxFaults,    \* bound: faults in one transfer
          MaxLine       \* bound: packets on the line that nobody has read

ASSUME SessionAssumption == {HostRetries, MaxFaults, MaxLine} \subseteq Nat

VARIABLES patient,    \* whether this host is patient
          host,       \* "wait", "send", "reply", "eot", "eotReply", "ok", "fail"
          block,      \* the block the host is at, from 1
          retries,    \* how often it has been sent
          toStub, toHost,    \* what is under way
          faults

hostVars == <<patient, host, block, retries>>
sessionVars == <<streamVars, hostVars, toStub, toHost, faults>>

Blocks == stream.blocks

(* The pieces in block k; behind the end of the stream comes padding, 0.   *)
FirstPiece ==
    LET s[k \in 1 .. Len(Blocks)] == IF k = 1 THEN 1 ELSE s[k - 1] + Pieces[Blocks[k - 1]]
    IN  s
PiecesOf(k) ==
    [i \in 1 .. Pieces[Blocks[k]] |->
        LET p == FirstPiece[k] + i - 1 IN IF p > Len(stream.yields) THEN 0 ELSE p]

Item(m, k) == [marker |-> m, block |-> k, intact |-> TRUE]

SessionInit ==
    /\ InitStream
    /\ patient \in BOOLEAN
    /\ host = "wait" /\ block = 1 /\ retries = 0
    /\ toStub = <<>> /\ toHost = <<>> /\ faults = 0

-----------------------------------------------------------------------------
Fault == faults < MaxFaults /\ faults' = faults + 1

Transmit(item) ==
    /\ Len(toStub) < MaxLine
    /\ \/ toStub' = Append(toStub, item) /\ UNCHANGED faults
       \/ Fault /\ UNCHANGED toStub
       \/ /\ Fault
          /\ toStub' = Append(toStub, IF item.marker = "EOT" THEN Item("junk", 0)
                                      ELSE [item EXCEPT !.intact = FALSE])

LoseReply ==
    /\ toHost # <<>> /\ Fault
    /\ toHost' = Tail(toHost)
    /\ UNCHANGED <<streamVars, hostVars, toStub>>

-----------------------------------------------------------------------------
Answers == toHost' = toHost \o reply'

StubWorks == Work /\ Answers /\ UNCHANGED <<hostVars, toStub, faults>>

(* A packet stays at the head of the line until its body is read.          *)
StubReadsMarker ==
    /\ toStub # <<>>
    /\ LET m == Head(toStub).marker
       IN  ReadMarker(m) \/ Finish(m)
    /\ toStub' = IF pc' = "packet" THEN toStub ELSE Tail(toStub)
    /\ Answers
    /\ UNCHANGED <<hostVars, faults>>

StubReadsPacket ==
    /\ pc = "packet" /\ toStub # <<>>
    /\ LET item == Head(toStub)  no == item.block % BlockMod
       IN  \/ RefusePacket(no, item.intact)
           \/ item.intact /\ AcceptPacket(no, PiecesOf(item.block))
    /\ toStub' = Tail(toStub)
    /\ Answers
    /\ UNCHANGED <<hostVars, faults>>

HostOver == host \in {"ok", "fail"}

(* The stub's timeouts are longer than the host's.                         *)
StubTimesOut ==
    /\ toStub = <<>>
    /\ patient => HostOver \/ (host = "wait" /\ toHost = <<>>)
    /\ GiveUp
    /\ Answers
    /\ UNCHANGED <<hostVars, toStub, faults>>

MainLoopSkips ==
    /\ pc = "done" /\ toStub # <<>>
    /\ toStub' = Tail(toStub)
    /\ UNCHANGED <<streamVars, hostVars, toHost, faults>>

-----------------------------------------------------------------------------
HostSend ==
    /\ \/ host = "send" /\ host' = "reply" /\ Transmit(Item(Blocks[block], block))
       \/ host = "eot" /\ host' = "eotReply" /\ Transmit(Item("EOT", 0))
    /\ retries' = retries + 1
    /\ UNCHANGED <<streamVars, patient, block, toHost>>

Again ==
    /\ host' = IF retries >= HostRetries THEN "fail"
               ELSE IF host = "reply" THEN "send" ELSE "eot"
    /\ UNCHANGED <<block, retries>>

Acknowledged ==
    /\ host' = IF host = "eotReply" THEN "ok"
               ELSE IF block < Len(Blocks) THEN "send" ELSE "eot"
    /\ block' = IF host' = "send" THEN block + 1 ELSE block
    /\ retries' = IF host' = "ok" THEN retries ELSE 0

HostReads ==
    /\ toHost # <<>> /\ host \in {"wait", "reply", "eotReply"}
    /\ toHost' = Tail(toHost)
    /\ LET b == Head(toHost)
       IN  CASE b = "CAN" -> host' = "fail" /\ UNCHANGED <<block, retries>>
             [] b = "C" /\ host = "wait" -> host' = "send" /\ UNCHANGED <<block, retries>>
             [] b = "ACK" /\ host # "wait" -> Acknowledged
             [] b = "NAK" /\ host # "wait" -> Again
             [] OTHER -> UNCHANGED <<host, block, retries>>
    /\ UNCHANGED <<streamVars, patient, toStub, faults>>

NothingComing == toStub = <<>> /\ pc \in {"first", "marker", "packet", "finish", "done"}

HostTimesOut ==
    /\ toHost = <<>>
    /\ \/ host \in {"reply", "eotReply"} /\ (patient => NothingComing) /\ Again
       \/ host = "wait" /\ pc = "done" /\ host' = "fail" /\ UNCHANGED <<block, retries>>
    /\ UNCHANGED <<streamVars, patient, toStub, toHost, faults>>

StubStep == StubWorks \/ StubReadsMarker \/ StubReadsPacket \/ MainLoopSkips
HostStep == HostSend \/ HostReads
SessionNext == StubStep \/ StubTimesOut \/ HostStep \/ HostTimesOut \/ LoseReply

SessionSpec ==
    /\ SessionInit /\ [][SessionNext]_sessionVars
    /\ WF_sessionVars(StubStep) /\ WF_sessionVars(StubTimesOut)
    /\ WF_sessionVars(HostStep) /\ WF_sessionVars(HostTimesOut)

-----------------------------------------------------------------------------
(* A transfer that can be done: the stream decompresses to the announced   *)
(* length, and its last piece is not the last of its block (lines 145-174  *)
(* of stub_miniz.c ask for a further block when the dictionary is full and *)
(* the input used up, and there is none).                                  *)
SumOfYields ==
    LET s[k \in 0 .. Len(stream.yields)] == IF k = 0 THEN 0 ELSE s[k - 1] + stream.yields[k]
    IN  s[Len(stream.yields)]
Padded == PiecesOf(Len(Blocks))[Pieces[Blocks[Len(Blocks)]]] = 0

(* With a patient host, and fewer faults than retries, the whole image     *)
(* comes to be in the flash, also when the transfer is reported as failed  *)
(* in the end: after the last block the stub takes nothing but EOT (line   *)
(* 380), and a repetition of that block ends it with CAN.                  *)
ImageComplete == written = Length /\ page = <<>>
FileInFlash ==
    (patient /\ pc = "marker" /\ SumOfYields = Length /\ Padded) ~> ImageComplete
=============================================================================
