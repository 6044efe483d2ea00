------------------------ MODULE XmodemWriteSession ------------------------
(***************************************************************************)
(* A whole OBK_CMD_FLASH_XMODEM_DL transfer: the stub's receiver, a host   *)
(* that sends a file with XMODEM, and the serial line between them, which  *)
(* may lose, damage or cut what the host sends, lose what the stub answers *)
(* and add noise.  The host and the line are external; the host is the     *)
(* usual XMODEM sender: it waits for 'C', sends a block until it is        *)
(* acknowledged, then sends EOT until that is acknowledged.                *)
(***************************************************************************)
EXTENDS XmodemReceive

CONSTANTS File,         \* the padded file, by unit
          Plans,        \* the ways the host may cut it into blocks
          HostRetries,  \* how often the host sends one block or EOT
          Faults,       \* the faults of the line, out of FaultKinds
          MaxFaults,    \* bound: faults in one transfer
          MaxLine,      \* bound: packets on the line that nobody has read
          Patient,      \* the host times out only when no answer can come
          StubPatient   \* the stub's timeouts are longer than the host's

FaultKinds == {"lose", "damage", "cut", "noise", "loseReply"}

VARIABLES plan,       \* the plan the host chose
          host,       \* "wait", "send", "reply", "eot", "eotReply", "ok", "fail"
          block,      \* the block the host is at, from 1
          retries,    \* how often it has been sent
          toStub,     \* bytes under way to the stub, as packets and bytes
          toHost,     \* bytes under way to the host
          faults      \* how many faults there have been

hostVars == <<plan, host, block, retries>>
lineVars == <<toStub, toHost, faults>>
sessionVars == <<vars, hostVars, lineVars>>

(* Where block k of a plan starts in the file. *)
Start(p) ==
    LET s[k \in 1 .. Len(p)] == IF k = 1 THEN 0 ELSE s[k - 1] + BlockUnits(p[k - 1])
    IN  s

(* The host cuts its file into blocks of data and uses 1024-byte blocks    *)
(* where a page of the flash begins: it falls back to short ones at the end.*)
ASSUME SessionAssumption ==
    /\ Faults \subseteq FaultKinds
    /\ {MaxFaults, MaxLine} \subseteq Nat /\ HostRetries \in Nat \ {0}
    /\ {Patient, StubPatient} \subseteq BOOLEAN
    /\ Plans \subseteq Seq({"SOH", "STX"}) \ {<<>>}
    /\ \A p \in Plans : \A k \in 1 .. Len(p) :
          /\ p[k] = "STX" => Start(p)[k] % PageUnits = 0
          /\ \A i \in 0 .. BlockUnits(p[k]) - 1 : File[Start(p)[k] + i] \in Readable

Payload(k) == [i \in 0 .. BlockUnits(plan[k]) - 1 |-> File[Start(plan)[k] + i]]

Item(m, k, state) == [marker |-> m, block |-> k, state |-> state]
Byte(m) == Item(m, 0, "whole")

SessionInit ==
    /\ Init
    /\ plan \in Plans
    /\ host = "wait"
    /\ block = 1
    /\ retries = 0
    /\ toStub = <<>>
    /\ toHost = <<>>
    /\ faults = 0

-----------------------------------------------------------------------------
(* The line.  What the host sends arrives, or meets one of the faults. *)
Fault(kind) ==
    /\ kind \in Faults
    /\ faults < MaxFaults
    /\ faults' = faults + 1

Transmit(item) ==
    /\ Len(toStub) < MaxLine
    /\ \/ toStub' = Append(toStub, item) /\ UNCHANGED faults
       \/ Fault("lose") /\ UNCHANGED toStub
       \/ Fault("noise") /\ toStub' = toStub \o <<Byte("junk"), item>>
       \/ /\ Fault("damage")
          /\ toStub' = Append(toStub, IF item.marker = "EOT" THEN Byte("junk")
                                      ELSE [item EXCEPT !.state = "damaged"])
       \/ /\ Fault("cut")
          /\ item.marker # "EOT"
          /\ toStub' = Append(toStub, [item EXCEPT !.state = "cut"])

LoseReply ==
    /\ toHost # <<>>
    /\ Fault("loseReply")
    /\ toHost' = Tail(toHost)
    /\ UNCHANGED <<vars, hostVars, toStub>>

-----------------------------------------------------------------------------
(* The stub, reading the line. *)
Answers == toHost' = toHost \o reply'

StubWorks ==
    /\ Work
    /\ Answers
    /\ UNCHANGED <<hostVars, toStub, faults>>

(* The packet at the head of the line stays there until its body is read. *)
StubReadsMarker ==
    /\ toStub # <<>>
    /\ LET m == Head(toStub).marker
       IN  /\ FirstMarker(m) \/ NextMarker(m)
           /\ toStub' = IF pc' = "packet" THEN toStub ELSE Tail(toStub)
    /\ Answers
    /\ UNCHANGED <<hostVars, faults>>

StubReadsPacket ==
    /\ pc = "packet"
    /\ toStub # <<>>
    /\ LET item == Head(toStub)
           no == item.block % BlockMod
       IN  \/ /\ item.state = "whole"
              /\ RefusePacket(no, TRUE) \/ AcceptPacket(no, Payload(item.block))
              /\ toStub' = Tail(toStub)
           \/ /\ item.state = "damaged"
              /\ RefusePacket(no, FALSE)
              /\ toStub' = Tail(toStub)
           \* A cut packet is completed by the bytes of what follows.
           \/ /\ item.state = "cut"
              /\ Len(toStub) > 1
              /\ RefusePacket(no, FALSE)
              /\ \/ toStub' = Tail(Tail(toStub))
                 \/ toStub' = <<Byte("junk")>> \o Tail(Tail(toStub))
    /\ Answers
    /\ UNCHANGED <<hostVars, faults>>

(* No byte is left for the stub to read. *)
StubStarves ==
    \/ toStub = <<>>
    \/ pc = "packet" /\ Len(toStub) = 1 /\ Head(toStub).state = "cut"

HostOver == host \in {"ok", "fail"}

StubTimesOut ==
    /\ StubStarves
    /\ StubPatient => HostOver \/ (host = "wait" /\ toHost = <<>>)
    /\ GiveUp
    /\ toStub' = IF pc' = "done" THEN <<>> ELSE toStub
    /\ Answers
    /\ UNCHANGED <<hostVars, faults>>

(* The transfer is over and the command loop drops what is no command. *)
MainLoopSkips ==
    /\ pc = "done"
    /\ toStub # <<>>
    /\ toStub' = Tail(toStub)
    /\ UNCHANGED <<vars, hostVars, toHost, faults>>

-----------------------------------------------------------------------------
(* The host. *)
HostSend ==
    /\ \/ /\ host = "send"
          /\ host' = "reply"
          /\ Transmit(Item(plan[block], block, "whole"))
       \/ /\ host = "eot"
          /\ host' = "eotReply"
          /\ Transmit(Byte("EOT"))
    /\ retries' = retries + 1
    /\ UNCHANGED <<vars, plan, block, toHost>>

(* Send again what was sent last, if it may be sent once more. *)
Again ==
    /\ host' = IF retries >= HostRetries THEN "fail"
               ELSE IF host = "reply" THEN "send" ELSE "eot"
    /\ UNCHANGED <<block, retries>>

Acknowledged ==
    \/ /\ host = "reply"
       /\ block < Len(plan)
       /\ host' = "send" /\ block' = block + 1 /\ retries' = 0
    \/ /\ host = "reply"
       /\ block = Len(plan)
       /\ host' = "eot" /\ retries' = 0 /\ UNCHANGED block
    \/ /\ host = "eotReply"
       /\ host' = "ok" /\ UNCHANGED <<block, retries>>

HostReads ==
    /\ toHost # <<>>
    /\ host \in {"wait", "reply", "eotReply"}
    /\ toHost' = Tail(toHost)
    /\ LET b == Head(toHost)
       IN  CASE b = "CAN" -> host' = "fail" /\ UNCHANGED <<block, retries>>
             [] b = "C" /\ host = "wait" -> host' = "send" /\ UNCHANGED <<block, retries>>
             [] b = "ACK" /\ host # "wait" -> Acknowledged
             [] b = "NAK" /\ host # "wait" -> Again
             [] OTHER -> UNCHANGED <<host, block, retries>>
    /\ UNCHANGED <<vars, plan, toStub, faults>>

(* Nothing the host could wait for is under way or in the making. *)
NothingComing ==
    /\ toHost = <<>>
    /\ StubStarves
    /\ pc \in {"first", "marker", "packet", "done"}

HostTimesOut ==
    /\ toHost = <<>>
    /\ \/ /\ host \in {"reply", "eotReply"}
          /\ Patient => NothingComing
          /\ Again
       \/ /\ host = "wait"
          /\ pc = "done"
          /\ host' = "fail"
          /\ UNCHANGED <<block, retries>>
    /\ UNCHANGED <<vars, plan, toStub, toHost, faults>>

StubStep == StubWorks \/ StubReadsMarker \/ StubReadsPacket \/ MainLoopSkips
HostStep == HostSend \/ HostReads

SessionNext ==
    StubStep \/ StubTimesOut \/ HostStep \/ HostTimesOut \/ LoseReply

(* Both sides run, and their timeouts expire if nothing else happens. *)
SessionFairness ==
    /\ WF_sessionVars(StubStep)
    /\ WF_sessionVars(StubTimesOut)
    /\ WF_sessionVars(HostStep)
    /\ WF_sessionVars(HostTimesOut)

SessionSpec == SessionInit /\ [][SessionNext]_sessionVars /\ SessionFairness
-----------------------------------------------------------------------------
SessionTypeOK ==
    /\ TypeOK
    /\ plan \in Plans
    /\ host \in {"wait", "send", "reply", "eot", "eotReply", "ok", "fail"}
    /\ block \in 1 .. Len(plan)
    /\ retries \in 0 .. HostRetries
    /\ faults \in 0 .. MaxFaults
    /\ \A i \in DOMAIN toStub :
          /\ toStub[i].marker \in Markers
          /\ toStub[i].block \in 0 .. Len(plan)
          /\ toStub[i].state \in {"whole", "damaged", "cut"}
    /\ \A i \in DOMAIN toHost : toHost[i] \in {"C", "ACK", "NAK", "CAN"}

(* What the stub has committed is a prefix of the host's file, whatever the*)
(* line lost, damaged or doubled: duplicates are acknowledged but never    *)
(* written again, and a skipped block ends the transfer.                   *)
FlashHoldsFilePrefix ==
    \A i \in 0 .. written - 1 : flash[Off + i] = File[i]

(* A host that was told of success has its whole file in the flash. *)
HostSuccessIsReal ==
    host = "ok" => /\ result = "ok"
                   /\ \A i \in Image : flash[Off + i] = File[i]

(* Whoever ends the transfer, both sides come to an end. *)
BothEnd == <>(HostOver /\ pc = "done")

(* Once the flash is erased, and as long as the line breaks fewer times    *)
(* than each side retries, the file arrives.  The host may still not learn *)
(* of it: the ACK of EOT is sent once, and the command loop the stub goes  *)
(* back to does not answer a second EOT.                                   *)
FileArrives == pc = "first" ~> result = "ok"
=============================================================================
