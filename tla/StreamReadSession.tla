-------------------------- MODULE StreamReadSession --------------------------
(***************************************************************************)
(* An OBK_CMD_FLASH_XMODEM_UL_Z transfer from end to end: StreamSend, a    *)
(* host that receives with XMODEM and sends nothing before the line is     *)
(* silent, and a line that may lose or damage what either side sends.      *)
(* Host and line are external.                                             *)
(***************************************************************************)
EXTENDS StreamSend

CONSTANTS HostTries,    \* how often the host asks, or repeats a NAK
          MaxFaults     \* bound: faults in one transfer

ASSUME ReadSessionAssumption == {HostTries, MaxFaults} \subseteq Nat

VARIABLES host,        \* "start", "block", "ok", "fail"
          ask,         \* the byte the host starts with
          expect,      \* the block number the host waits for
          got,         \* what the host has kept, by unit
          hostTries, toStub, toHost, faults

hostVars == <<host, ask, expect, got, hostTries>>
vars == <<senderVars, hostVars, toStub, toHost, faults>>

SessionInit ==
    /\ SenderInit
    /\ host = "start" /\ ask \in {"C", "NAK"}
    /\ expect = 1 /\ got = <<>> /\ hostTries = 0
    /\ toStub = <<>> /\ toHost = <<>> /\ faults = 0

Fault == faults < MaxFaults /\ faults' = faults + 1

Damaged(item) == IF item.kind = "packet" THEN [item EXCEPT !.intact = FALSE]
                 ELSE Byte("junk")

HostOver == host \in {"ok", "fail"}

Silence ==
    /\ toStub = <<>> /\ toHost = <<>>
    /\ pc \in {"start", "answer", "eotAnswer", "done"}

-----------------------------------------------------------------------------
StubWorks ==
    /\ Work /\ toHost' = toHost \o reply'
    /\ UNCHANGED <<hostVars, toStub, faults>>

StubSends ==
    /\ Send
    /\ \/ toHost' = toHost \o reply' /\ UNCHANGED faults
       \/ Fault /\ UNCHANGED toHost
       \/ Fault /\ toHost' = Append(toHost, Damaged(reply'[1]))
    /\ UNCHANGED <<hostVars, toStub>>

StubReads ==
    /\ toStub # <<>>
    /\ toStub' = Tail(toStub)
    /\ \/ ReadByte(Head(toStub)) /\ toHost' = toHost \o reply'
       \/ pc = "done" /\ UNCHANGED <<senderVars, toHost>>
    /\ UNCHANGED <<hostVars, faults>>

StubTimesOut ==
    /\ Silence /\ host # "start"
    /\ Timeout
    /\ toHost' = toHost \o reply'
    /\ UNCHANGED <<hostVars, toStub, faults>>

-----------------------------------------------------------------------------
Answer(b) ==
    \/ toStub' = Append(toStub, b) /\ UNCHANGED faults
    \/ Fault /\ UNCHANGED toStub
    \/ Fault /\ toStub' = Append(toStub, "junk")

HostAsks ==
    /\ host = "start" /\ Silence
    /\ hostTries < HostTries /\ hostTries' = hostTries + 1
    /\ Answer(ask)
    /\ UNCHANGED <<senderVars, host, ask, expect, got, toHost>>

HostReadsPacket(p) ==
    /\ \/ ~p.intact /\ Answer("NAK") /\ host' = "block"
          /\ UNCHANGED <<expect, got, hostTries>>
       \/ p.intact /\ p.no = expect /\ Answer("ACK") /\ host' = "block"
          /\ got' = got \o p.data
          /\ expect' = (expect + 1) % BlockMod /\ hostTries' = 0
       \/ p.intact /\ p.no = (expect - 1) % BlockMod /\ Answer("ACK") /\ host' = "block"
          /\ UNCHANGED <<expect, got, hostTries>>
       \/ p.intact /\ p.no \notin {expect, (expect - 1) % BlockMod}
          /\ Answer("CAN") /\ host' = "fail"
          /\ UNCHANGED <<expect, got, hostTries>>
    /\ UNCHANGED ask

HostReads ==
    /\ toHost # <<>>
    /\ toHost' = Tail(toHost)
    /\ LET p == Head(toHost)
       IN  CASE ~HostOver /\ p.kind = "packet" -> HostReadsPacket(p)
             [] ~HostOver /\ p.kind = "EOT" ->
                    host' = "ok" /\ Answer("ACK") /\ UNCHANGED <<ask, expect, got, hostTries>>
             [] ~HostOver /\ p.kind = "CAN" ->
                    host' = "fail" /\ UNCHANGED <<ask, expect, got, hostTries, toStub, faults>>
             [] OTHER -> UNCHANGED <<hostVars, toStub, faults>>
    /\ UNCHANGED senderVars

HostTimesOut ==
    /\ Silence
    /\ \/ host = "block" /\ hostTries < HostTries
          /\ hostTries' = hostTries + 1 /\ Answer("NAK") /\ UNCHANGED host
       \/ host \in {"start", "block"} /\ hostTries = HostTries
          /\ host' = "fail" /\ UNCHANGED <<hostTries, toStub, faults>>
    /\ UNCHANGED <<senderVars, ask, expect, got, toHost>>

SessionNext ==
    StubWorks \/ StubSends \/ StubReads \/ StubTimesOut \/ HostAsks \/ HostReads \/ HostTimesOut

SessionSpec ==
    /\ SessionInit /\ [][SessionNext]_vars
    /\ WF_vars(StubWorks \/ StubSends \/ StubReads)
    /\ WF_vars(StubTimesOut)
    /\ WF_vars(HostReads \/ HostAsks)
    /\ WF_vars(HostTimesOut)

-----------------------------------------------------------------------------
(* What the host keeps is what the deflater made, in order and once, with  *)
(* padding only behind the last unit of a stream that is finished; and a   *)
(* host that has seen EOT has all of it, for a raw DEFLATE stream that is  *)
(* cut short does not decompress.                                          *)
HostHoldsStream ==
    /\ \A i \in 1 .. Len(got) :
          \/ got[i] = i /\ i <= tdefl.given
          \/ got[i] = 0 /\ i > tdefl.made /\ tdefl.finished
    /\ host = "ok" => tdefl.finished /\ Len(got) >= tdefl.made

(* The chunked deflater has used up its input and holds more than one      *)
(* buffer of output: line 114 of stub_miniz.c.                             *)
Truncated == chunked /\ src.left = 0 /\ src.remaining = 0 /\ tdefl.made > tdefl.given

(* Once it has begun a compressed read comes to its end, however the       *)
(* deflater spreads its output, as long as the line breaks fewer times     *)
(* than each side retries, except for a stream whose last call of the      *)
(* chunked deflater does not fit in its buffer.                            *)
ReadArrives == (pc \notin {"start", "done"}) ~> (host = "ok" \/ Truncated)
=============================================================================
