------------------------- MODULE XmodemReadSession -------------------------
(***************************************************************************)
(* A whole OBK_CMD_FLASH_XMODEM_UL transfer: the stub's sender, a host that*)
(* receives with XMODEM, and the serial line, which may lose or damage     *)
(* what either side sends and add noise.  The host and the line are        *)
(* external: the host asks for the transfer with 'C' or NAK, keeps the     *)
(* block it expects, acknowledges that one and the one before it, and      *)
(* answers damage and silence with NAK.                                    *)
(***************************************************************************)
EXTENDS XmodemSend

CONSTANTS Asks,         \* the bytes the host may start with: 'C', NAK
          HostTries,    \* how often the host asks, or repeats a NAK
          Faults,       \* the faults of the line, out of FaultKinds
          MaxFaults,    \* bound: faults in one transfer
          MaxAsked,     \* bound: bytes for the stub that it has not read
          Patient       \* no side times out while an answer is under way

FaultKinds == {"lose", "damage", "loseAnswer", "damageAnswer", "noise"}

ASSUME ReadSessionAssumption ==
    /\ Asks \subseteq {"C", "NAK"}
    /\ Faults \subseteq FaultKinds
    /\ {HostTries, MaxFaults, MaxAsked} \subseteq Nat
    /\ Patient \in BOOLEAN

VARIABLES host,        \* "start", "block", "ok", "fail"
          ask,         \* the byte the host starts with
          expect,      \* the block number the host waits for
          got,         \* what the host has kept, by unit
          hostTries,   \* its turns without a new block
          toStub, toHost, faults

hostVars == <<host, ask, expect, got, hostTries>>
lineVars == <<toStub, toHost, faults>>
vars == <<senderVars, hostVars, lineVars>>

SessionInit ==
    /\ SenderInit
    /\ host = "start"
    /\ ask \in Asks
    /\ expect = 1
    /\ got = <<>>
    /\ hostTries = 0
    /\ toStub = <<>>
    /\ toHost = <<>>
    /\ faults = 0

-----------------------------------------------------------------------------
(* The line. *)
Fault(kind) ==
    /\ kind \in Faults
    /\ faults < MaxFaults
    /\ faults' = faults + 1

Damaged(item) == IF item.kind = "packet" THEN [item EXCEPT !.intact = FALSE]
                 ELSE Byte("junk")

StubSends ==
    /\ Send
    /\ \/ toHost' = toHost \o reply' /\ UNCHANGED faults
       \/ Fault("lose") /\ UNCHANGED toHost
       \/ Fault("damage") /\ toHost' = Append(toHost, Damaged(reply'[1]))
    /\ UNCHANGED <<hostVars, toStub>>

Answer(b) ==
    \/ toStub' = Append(toStub, b) /\ UNCHANGED faults
    \/ Fault("loseAnswer") /\ UNCHANGED toStub
    \/ Fault("damageAnswer") /\ toStub' = Append(toStub, "junk")

Noise ==
    /\ Fault("noise")
    /\ Len(toStub) < MaxAsked
    /\ toStub' = Append(toStub, "junk")
    /\ UNCHANGED <<senderVars, hostVars, toHost>>

-----------------------------------------------------------------------------
(* The stub. *)
StubReads ==
    /\ toStub # <<>>
    /\ toStub' = Tail(toStub)
    /\ \/ ReadByte(Head(toStub)) /\ toHost' = toHost \o reply'
       \/ pc = "done" /\ UNCHANGED <<senderVars, toHost>>
    /\ UNCHANGED <<hostVars, faults>>

HostOver == host \in {"ok", "fail"}

(* Nothing is under way, and who is still there waits. *)
Silence ==
    /\ toStub = <<>> /\ toHost = <<>>
    /\ pc \in {"start", "answer", "eotAnswer", "done"}

StubTimesOut ==
    /\ toStub = <<>>
    /\ Patient => Silence /\ host # "start"
    /\ Timeout
    /\ toHost' = toHost \o reply'
    /\ UNCHANGED <<hostVars, toStub, faults>>

-----------------------------------------------------------------------------
(* The host. *)
HostAsks ==
    /\ host = "start"
    /\ Patient => Silence
    /\ Len(toStub) < MaxAsked
    /\ hostTries < HostTries
    /\ hostTries' = hostTries + 1
    /\ Answer(ask)
    /\ UNCHANGED <<senderVars, host, ask, expect, got, toHost>>

PayloadUnits(p) == IF 2 \in DOMAIN p.data THEN 16 ELSE 2

(* The number of a new block and the one before it are told apart as bytes.*)
HostReadsPacket(p) ==
    \/ /\ ~p.intact
       /\ Answer("NAK")
       /\ host' = "block"
       /\ UNCHANGED <<expect, got, hostTries>>
    \/ /\ p.intact /\ p.no = expect
       /\ got' = got \o [i \in 1 .. PayloadUnits(p) |-> p.data[i - 1]]
       /\ expect' = (expect + 1) % BlockMod
       /\ hostTries' = 0
       /\ host' = "block"
       /\ Answer("ACK")
    \/ /\ p.intact /\ p.no = (expect - 1) % BlockMod
       /\ host' = "block"
       /\ Answer("ACK")
       /\ UNCHANGED <<expect, got, hostTries>>
    \/ /\ p.intact /\ p.no \notin {expect, (expect - 1) % BlockMod}
       /\ host' = "fail"
       /\ Answer("CAN")
       /\ UNCHANGED <<expect, got, hostTries>>

HostReads ==
    /\ toHost # <<>>
    /\ toHost' = Tail(toHost)
    /\ LET p == Head(toHost)
       IN  CASE HostOver -> UNCHANGED <<hostVars, toStub, faults>>
             [] ~HostOver /\ p.kind = "packet" -> HostReadsPacket(p) /\ UNCHANGED ask
             [] ~HostOver /\ p.kind = "EOT" ->
                    /\ host' = "ok"
                    /\ Answer("ACK")
                    /\ UNCHANGED <<ask, expect, got, hostTries>>
             [] ~HostOver /\ p.kind = "CAN" ->
                    /\ host' = "fail"
                    /\ UNCHANGED <<ask, expect, got, hostTries, toStub, faults>>
             [] OTHER -> UNCHANGED <<hostVars, toStub, faults>>
    /\ UNCHANGED senderVars

(* Silence: NAK, or give up. *)
HostTimesOut ==
    /\ toHost = <<>>
    /\ Patient => Silence
    /\ \/ /\ host = "block"
          /\ hostTries < HostTries
          /\ Len(toStub) < MaxAsked
          /\ hostTries' = hostTries + 1
          /\ Answer("NAK")
          /\ UNCHANGED host
       \/ /\ host \in {"start", "block"}
          /\ hostTries = HostTries
          /\ host' = "fail"
          /\ UNCHANGED <<hostTries, toStub, faults>>
    /\ UNCHANGED <<senderVars, ask, expect, got, toHost>>

SessionNext ==
    StubSends \/ StubReads \/ StubTimesOut \/ HostAsks \/ HostReads \/ HostTimesOut \/ Noise

(* Both sides run, and their timeouts expire if nothing else happens. *)
SessionSpec ==
    /\ SessionInit /\ [][SessionNext]_vars
    /\ WF_vars(StubSends \/ StubReads)
    /\ WF_vars(StubTimesOut)
    /\ WF_vars(HostReads \/ HostAsks)
    /\ WF_vars(HostTimesOut)
-----------------------------------------------------------------------------
SessionTypeOK ==
    /\ pc \in {"start", "send", "answer", "eot", "eotAnswer", "done"}
    /\ tries \in 0 .. StartTries + MaxRetries + EotTries
    /\ off \in 0 .. Length
    /\ block \in 0 .. BlockMod - 1
    /\ host \in {"start", "block", "ok", "fail"}
    /\ expect \in 0 .. BlockMod - 1
    /\ hostTries \in 0 .. HostTries
    /\ \A i \in DOMAIN toStub : toStub[i] \in {"C", "ACK", "NAK", "CAN", "junk"}

(* What the host has kept is the memory it asked for, then nothing but     *)
(* padding: blocks that were sent twice, answers that answer an earlier    *)
(* block and lost packets never put a wrong unit in (lines 120-152).       *)
HostHoldsMemory ==
    \A i \in 1 .. Len(got) : got[i] = IF i <= Length THEN Memory[i - 1] ELSE Pad

(* A host that has seen EOT has seen everything before it. *)
HostSuccessIsComplete == host = "ok" => Len(got) >= Length

(* The sender never takes a block for delivered that the host has not got. *)
NeverAhead == off <= Len(got)

(* Whoever ends the transfer, both sides come to an end. *)
BothEnd == <>(HostOver /\ pc = "done")

(* Once the transfer has begun the host gets all of it, as long as the line*)
(* breaks fewer times than each side retries.                              *)
ReadArrives == pc \notin {"start", "done"} ~> host = "ok"
=============================================================================
