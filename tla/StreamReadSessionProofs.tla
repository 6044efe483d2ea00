----------------------- MODULE StreamReadSessionProofs -----------------------
(***************************************************************************)
(* Proofs about a whole compressed upload over a line that loses and       *)
(* damages, for every deflater, both forms of stub_miniz_deflate_raw, every*)
(* length, block modulus, number of tries and number of faults.            *)
(***************************************************************************)
EXTENDS StreamReadSession, NumberProofs

-----------------------------------------------------------------------------
(* The invariant. *)

(* The units handed to put_buffer lie in the current block and in the      *)
(* chunk, in the order the deflater gave them out.                         *)
Base == tdefl.given - Len(out) - Len(tx.data)
UnitsOK ==
    /\ Base >= 0
    /\ \A i \in 1 .. Len(tx.data) : tx.data[i] = Base + i
    /\ \A i \in 1 .. Len(out) : out[i] = Base + Len(tx.data) + i

SenderTypeOK ==
    /\ pc \in {"start", "deflate", "put", "send", "answer", "finish", "eot", "eotAnswer", "done"}
    /\ chunked \in BOOLEAN
    /\ src \in [remaining : Nat, left : Nat]
    /\ tdefl \in [made : Nat, given : Nat, finished : BOOLEAN] /\ tdefl.given <= tdefl.made
    /\ out \in Seq(Nat)
    /\ tx \in [use1k : BOOLEAN, block : 0 .. BlockMod - 1, data : Seq(Nat)]
    /\ Len(tx.data) <= BlockLen
    /\ back \in {"put", "eot"}
HostTypeOK ==
    /\ host \in {"start", "block", "ok", "fail"} /\ ask \in {"C", "NAK"}
    /\ expect \in 0 .. BlockMod - 1 /\ got \in Seq(Nat)

(* The host waits for the block the sender is at, or has kept it.          *)
Level ==
    /\ expect = tx.block /\ Len(got) = Base
    /\ \A i \in 1 .. Len(got) : got[i] = i
Ahead ==
    /\ expect = BlockAfter /\ Len(got) = Base + BlockLen
    /\ \A i \in 1 .. Len(got) : got[i] = IF i <= Base + Len(tx.data) THEN i ELSE 0
Complete ==
    /\ StatusDone /\ Len(got) >= tdefl.made
    /\ \A i \in 1 .. Len(got) : got[i] = IF i <= tdefl.made THEN i ELSE 0

PhaseOK ==
    /\ pc \in {"start", "deflate", "finish"} => out = <<>>
    /\ pc = "start" => tx.data = <<>>
    /\ pc \in {"start", "deflate", "put", "finish"} => Level /\ Len(tx.data) < BlockLen
    /\ pc \in {"send", "answer"} =>
          /\ Level \/ Ahead
          /\ back = "put" => Len(tx.data) = BlockLen
          /\ back = "eot" => out = <<>> /\ StatusDone
    /\ pc = "finish" => StatusDone
    /\ pc \in {"eot", "eotAnswer"} => Complete
    /\ pc = "done" => HostHoldsStream
    /\ host = "ok" => pc \in {"eot", "eotAnswer", "done"}

(* One thing at a time is under way: a byte to the stub, a packet or an EOT*)
(* to the host, or the CANs of a stub that has given up.                   *)
Waiting == pc \in {"start", "answer", "eotAnswer", "done"}
ByteOK(b) == /\ pc = "start" => b # "ACK"
             /\ pc = "answer" /\ b = "ACK" => Ahead
ItemOK(p) ==
    \/ /\ pc = "answer" /\ p.kind = "packet"
       /\ p.intact => p.no = tx.block /\ p.data = Padded
    \/ pc = "eotAnswer" /\ p.kind \in {"EOT", "junk"}
    \/ pc = "done" /\ p.kind = "CAN"
TurnOK ==
    \/ toStub = <<>> /\ toHost = <<>>
    \/ toHost = <<>> /\ Waiting /\ \E b : toStub = <<b>> /\ ByteOK(b)
    \/ toStub = <<>> /\ \E p : toHost = <<p>> /\ ItemOK(p)
    \/ toStub = <<>> /\ pc = "done" /\ toHost = CanCan

SInv == SenderTypeOK /\ HostTypeOK /\ UnitsOK /\ PhaseOK /\ TurnOK

-----------------------------------------------------------------------------
(* The constants, and what the line and the host say. *)
LEMMA Constants ==
    /\ BlockMod \in Nat /\ BlockMod > 1
    /\ Large \in Nat \ {0} /\ Small \in Nat \ {0}
    /\ ChunkIn \in Nat \ {0} /\ ChunkOut \in Nat \ {0}
    /\ Makes \subseteq Nat /\ Lengths \subseteq Nat
    /\ BlockLen \in Nat \ {0}
  BY StreamSendAssumption DEF BlockLen

LEMMA Lines ==
    /\ <<>> \o <<>> = <<>> /\ <<>> \o CanCan = CanCan
    /\ \A x : /\ <<>> \o <<x>> = <<x>> /\ Append(<<>>, x) = <<x>>
              /\ Head(<<x>>) = x /\ Tail(<<x>>) = <<>> /\ <<x>> # <<>>
  <1>1. CanCan = <<Byte("CAN"), Byte("CAN")>>
    BY DEF CanCan
  <1>2. <<>> \o <<>> = <<>>
    OBVIOUS
  <1>3. <<>> \o CanCan = CanCan
    <2> DEFINE c == Byte("CAN")
    <2> HIDE DEF c
    <2>1. <<>> \o <<c, c>> = <<c, c>>
      OBVIOUS
    <2>2. QED
      BY <1>1, <2>1 DEF c
  <1>4. \A x : /\ <<>> \o <<x>> = <<x>> /\ Append(<<>>, x) = <<x>>
              /\ Head(<<x>>) = x /\ Tail(<<x>>) = <<>> /\ <<x>> # <<>>
    OBVIOUS
  <1>5. QED
    BY <1>2, <1>3, <1>4

LEMMA CanFacts == Head(CanCan) = Byte("CAN") /\ Tail(CanCan) = <<Byte("CAN")>> /\ CanCan # <<>>
  <1> DEFINE c == Byte("CAN")
  <1> HIDE DEF c
  <1>1. Head(<<c, c>>) = c /\ Tail(<<c, c>>) = <<c>> /\ <<c, c>> # <<>>
    OBVIOUS
  <1>2. QED
    BY <1>1 DEF c, CanCan

LEMMA InitSInv == SessionInit => SInv
  <1> SUFFICES ASSUME SessionInit PROVE SInv
    OBVIOUS
  <1>1. /\ pc = "start" /\ out = <<>> /\ tx = [use1k |-> TRUE, block |-> 1, data |-> <<>>]
        /\ src = [remaining |-> len, left |-> 0] /\ len \in Lengths /\ chunked \in BOOLEAN
        /\ tdefl = [made |-> 0, given |-> 0, finished |-> FALSE] /\ back = "put"
        /\ host = "start" /\ ask \in {"C", "NAK"} /\ expect = 1 /\ got = <<>>
        /\ toStub = <<>> /\ toHost = <<>>
    BY DEF SessionInit, SenderInit
  <1>2. SenderTypeOK /\ HostTypeOK
    BY <1>1, Constants DEF SenderTypeOK, HostTypeOK
  <1>3. UnitsOK /\ Level
    BY <1>1 DEF UnitsOK, Base, Level
  <1>4. PhaseOK
    BY <1>1, <1>3, Constants DEF PhaseOK
  <1>5. TurnOK
    BY <1>1 DEF TurnOK
  <1>6. QED
    BY <1>2, <1>3, <1>4, <1>5 DEF SInv

(* Wherever the sender is, the host has the stream so far.                 *)
LEMMA HostHolds == SInv => HostHoldsStream
  <1> SUFFICES ASSUME SInv PROVE HostHoldsStream
    OBVIOUS
  <1>1. /\ Base \in Nat /\ Base + Len(tx.data) <= tdefl.given /\ tdefl.given <= tdefl.made
        /\ tdefl.given \in Nat /\ tdefl.made \in Nat /\ Len(tx.data) \in Nat
        /\ Len(got) \in Nat /\ Len(out) \in Nat
        /\ Base + Len(tx.data) + Len(out) = tdefl.given
    BY DEF SInv, SenderTypeOK, HostTypeOK, UnitsOK, Base
  <1>2. CASE Level /\ host # "ok"
    BY <1>1, <1>2 DEF Level, HostHoldsStream
  <1>3. CASE Ahead /\ pc \in {"send", "answer"} /\ host # "ok"
    <2>1. CASE back = "put"
      <3>1. Len(tx.data) = BlockLen
        BY <1>3, <2>1 DEF SInv, PhaseOK
      <3>2. QED
        BY <1>1, <1>3, <3>1 DEF Ahead, HostHoldsStream
    <2>2. CASE back = "eot"
      <3>1. out = <<>> /\ StatusDone
        BY <1>3, <2>2 DEF SInv, PhaseOK
      <3>2. Base + Len(tx.data) = tdefl.made /\ tdefl.finished /\ tdefl.given = tdefl.made
        BY <1>1, <3>1 DEF StatusDone, Backlog
      <3>3. QED
        BY <1>1, <1>3, <3>2 DEF Ahead, HostHoldsStream
    <2>3. QED
      BY <2>1, <2>2 DEF SInv, SenderTypeOK
  <1>4. CASE Complete
    <2>1. tdefl.given = tdefl.made /\ tdefl.finished
      BY <1>1, <1>4 DEF Complete, StatusDone, Backlog
    <2>2. QED
      BY <1>1, <1>4, <2>1 DEF Complete, HostHoldsStream
  <1>5. QED
    BY <1>2, <1>3, <1>4 DEF SInv, PhaseOK, SenderTypeOK


-----------------------------------------------------------------------------
(* The deflater and the packets. *)
HostStays == UNCHANGED <<host, ask, expect, got>>
Working == pc \in {"deflate", "put", "send", "finish", "eot"}

LEMMA LineEmpty == ASSUME SInv, Working PROVE toStub = <<>> /\ toHost = <<>>
  BY DEF SInv, TurnOK, Working, Waiting, ItemOK

(* A step that leaves the units where they are.                            *)
SenderStays == UNCHANGED <<chunked, tdefl, out, tx>>
LEMMA StaysFacts ==
    ASSUME SInv, SenderStays, HostStays
    PROVE  /\ UnitsOK' /\ HostTypeOK' /\ BlockLen' = BlockLen /\ HostHoldsStream'
           /\ (Level => Level') /\ (Ahead => Ahead') /\ (Complete => Complete')
           /\ (StatusDone => StatusDone')
  <1>1. HostHoldsStream
    BY HostHolds
  <1>2. UnitsOK' /\ HostTypeOK' /\ BlockLen' = BlockLen
    BY DEF SInv, SenderStays, HostStays, UnitsOK, HostTypeOK, BlockLen, Base
  <1>3. HostHoldsStream'
    BY <1>1 DEF SenderStays, HostStays, HostHoldsStream
  <1>4. (Level => Level') /\ (Ahead => Ahead')
    BY DEF SenderStays, HostStays, Level, Ahead, Base, BlockLen, BlockAfter
  <1>5. (Complete => Complete') /\ (StatusDone => StatusDone')
    BY DEF SenderStays, HostStays, Complete, StatusDone, Backlog
  <1>6. QED
    BY <1>2, <1>3, <1>4, <1>5

LEMMA ReadChunkStep == ASSUME SInv, ReadChunk, HostStays PROVE (SenderTypeOK /\ UnitsOK /\ PhaseOK)'
  <1>1. /\ pc = "deflate" /\ pc' = pc /\ back' = back /\ SenderStays
    BY DEF ReadChunk, SenderStays
  <1>2. src' \in [remaining : Nat, left : Nat]
    <2> DEFINE n == IF chunked THEN Least(src.remaining, ChunkIn) ELSE src.remaining
    <2>1. src.remaining \in Nat
      BY DEF SInv, SenderTypeOK
    <2>2. n \in Nat /\ src.remaining - n \in Nat
      BY <2>1, Constants DEF Least
    <2> HIDE DEF n
    <2>3. src' = [remaining |-> src.remaining - n, left |-> n]
      BY DEF ReadChunk, n
    <2>4. QED
      BY <2>2, <2>3
  <1>3. SenderTypeOK'
    BY <1>1, <1>2, StaysFacts DEF SInv, SenderTypeOK, SenderStays
  <1>4. PhaseOK'
    BY <1>1, StaysFacts DEF SInv, PhaseOK, SenderStays, HostStays
  <1>5. QED
    BY <1>1, <1>3, <1>4, StaysFacts

(* What a call of the deflater gives out follows what went before.         *)
LEMMA GiveStep ==
    ASSUME SInv, pc = "deflate", HostStays, src' \in [remaining : Nat, left : Nat],
           NEW t \in [made : Nat, given : Nat, finished : BOOLEAN],
           t.given = tdefl.given, t.given <= t.made, Give(t)
    PROVE  (SenderTypeOK /\ UnitsOK /\ PhaseOK)' /\ reply' = <<>>
  <1> DEFINE m == Room(t.made - t.given)
  <1>1. m \in Nat /\ m <= t.made - t.given
    BY Constants DEF Room, Least
  <1> HIDE DEF m
  <1>2. /\ tdefl' = [t EXCEPT !.given = @ + m] /\ out' = [i \in 1 .. m |-> t.given + i]
        /\ pc' = "put" /\ reply' = <<>> /\ UNCHANGED <<chunked, tx, back>>
    BY DEF Give, m
  <1>3. out = <<>> /\ Level /\ Len(tx.data) < BlockLen /\ host # "ok"
    BY DEF SInv, PhaseOK
  <1>4. tdefl'.given = tdefl.given + m /\ tdefl'.made = t.made /\ tdefl'.finished = t.finished
    BY <1>2
  <1>5. out' \in Seq(Nat) /\ Len(out') = m /\ \A i \in 1 .. m : out'[i] = tdefl.given + i
    <2>1. tdefl.given \in Nat
      BY DEF SInv, SenderTypeOK
    <2>2. out' \in [1 .. m -> Nat] /\ \A i \in 1 .. m : out'[i] = tdefl.given + i
      BY <1>1, <1>2, <2>1
    <2>3. QED
      BY <1>1, <2>2
  <1>6. SenderTypeOK'
    <2>1. tdefl' \in [made : Nat, given : Nat, finished : BOOLEAN] /\ tdefl'.given <= tdefl'.made
      BY <1>1, <1>2
    <2>2. QED
      BY <1>2, <1>5, <2>1 DEF SInv, SenderTypeOK, BlockLen
  <1>7. Base' = Base /\ Base \in Int /\ Base + Len(tx.data) = tdefl.given
    BY SMTT(30), <1>1, <1>2, <1>3, <1>4, <1>5 DEF Base, SInv, SenderTypeOK
  <1>8. UnitsOK'
    BY <1>2, <1>5, <1>7 DEF SInv, UnitsOK
  <1>9. Level'
    BY <1>2, <1>3, <1>7 DEF Level, HostStays
  <1>10. PhaseOK'
    BY <1>2, <1>3, <1>9 DEF PhaseOK, BlockLen, HostStays
  <1>11. QED
    BY <1>2, <1>6, <1>8, <1>10

LEMMA DeflaterStep ==
    ASSUME SInv, GiveBacklog \/ Compress \/ CompressLast, HostStays
    PROVE  (SenderTypeOK /\ UnitsOK /\ PhaseOK)' /\ reply' = <<>>
  <1>1. tdefl \in [made : Nat, given : Nat, finished : BOOLEAN] /\ tdefl.given <= tdefl.made
        /\ src \in [remaining : Nat, left : Nat]
    BY DEF SInv, SenderTypeOK
  <1>2. CASE GiveBacklog
    BY <1>1, <1>2, GiveStep DEF GiveBacklog
  <1>3. CASE Compress
    <2>1. PICK k \in 1 .. src.left, n \in Makes :
              /\ src' = [src EXCEPT !.left = @ - k]
              /\ Give([tdefl EXCEPT !.made = @ + n])
      BY <1>3 DEF Compress
    <2> DEFINE t == [tdefl EXCEPT !.made = @ + n]
    <2>2. /\ t \in [made : Nat, given : Nat, finished : BOOLEAN]
          /\ t.given = tdefl.given /\ t.given <= t.made
      <3>1. n \in Nat
        BY Constants
      <3>2. QED
        BY <1>1, <3>1
    <2>3. src' \in [remaining : Nat, left : Nat]
      BY <1>1, <2>1
    <2> HIDE DEF t
    <2>4. Give(t) /\ pc = "deflate"
      BY <1>3, <2>1 DEF Compress, t
    <2>5. QED
      BY <2>2, <2>3, <2>4, GiveStep
  <1>4. CASE CompressLast
    <2>1. PICK n \in Makes \ {0} : Give([tdefl EXCEPT !.made = @ + n, !.finished = TRUE])
      BY <1>4 DEF CompressLast
    <2> DEFINE t == [tdefl EXCEPT !.made = @ + n, !.finished = TRUE]
    <2>2. /\ t \in [made : Nat, given : Nat, finished : BOOLEAN]
          /\ t.given = tdefl.given /\ t.given <= t.made
      <3>1. n \in Nat
        BY Constants
      <3> DEFINE u == [tdefl EXCEPT !.made = @ + n]
      <3>2. /\ u \in [made : Nat, given : Nat, finished : BOOLEAN]
            /\ u.given = tdefl.given /\ u.given <= u.made
        BY <1>1, <3>1
      <3> HIDE DEF u
      <3>3. t = [u EXCEPT !.finished = TRUE]
        BY DEF u
      <3> HIDE DEF t
      <3>4. QED
        BY <3>2, <3>3
    <2>3. src' \in [remaining : Nat, left : Nat]
      BY <1>1, <1>4 DEF CompressLast
    <2> HIDE DEF t
    <2>4. Give(t) /\ pc = "deflate"
      BY <1>4, <2>1 DEF CompressLast, t
    <2>5. QED
      BY <2>2, <2>3, <2>4, GiveStep
  <1>5. QED
    BY <1>2, <1>3, <1>4

LEMMA NextCallStep ==
    ASSUME SInv, NextCall, HostStays
    PROVE  /\ (SenderTypeOK /\ UnitsOK /\ PhaseOK)'
           /\ reply' = <<>> \/ (pc' = "done" /\ reply' = CanCan)
  <1>1. /\ pc = "put" /\ out = <<>> /\ SenderStays /\ UNCHANGED <<src, back>>
        /\ \/ StatusDone /\ pc' = "finish" /\ reply' = <<>>
           \/ pc' = "deflate" /\ reply' = <<>>
           \/ pc' = "done" /\ reply' = CanCan
    BY DEF NextCall, SenderStays, Leave
  <1>2. SenderTypeOK'
    BY <1>1, StaysFacts DEF SInv, SenderTypeOK, SenderStays
  <1>3. PhaseOK'
    BY <1>1, StaysFacts DEF SInv, PhaseOK, SenderStays, HostStays
  <1>4. QED
    BY <1>1, <1>2, <1>3, StaysFacts

LEMMA ConcatPart ==
    ASSUME NEW S, NEW s \in Seq(S), NEW u \in Seq(S)
    PROVE  /\ s \o u \in Seq(S) /\ Len(s \o u) = Len(s) + Len(u)
           /\ \A i \in 1 .. Len(s) : (s \o u)[i] = s[i]
           /\ \A i \in Len(s) + 1 .. Len(s) + Len(u) : (s \o u)[i] = u[i - Len(s)]
  <1>1. s \o u \in Seq(S) /\ Len(s \o u) = Len(s) + Len(u)
    OBVIOUS
  <1>2. \A i \in 1 .. Len(s) : (s \o u)[i] = s[i]
    OBVIOUS
  <1>3. \A i \in Len(s) + 1 .. Len(s) + Len(u) : (s \o u)[i] = u[i - Len(s)]
    OBVIOUS
  <1>4. QED
    BY <1>1, <1>2, <1>3

(* Moving the first units of a run that continues another keeps both runs. *)
LEMMA MoveUnits ==
    ASSUME NEW s \in Seq(Nat), NEW t \in Seq(Nat), NEW n \in 0 .. Len(t), NEW a \in Int,
           \A i \in 1 .. Len(s) : s[i] = a + i,
           \A i \in 1 .. Len(t) : t[i] = a + Len(s) + i
    PROVE  LET d == s \o SubSeq(t, 1, n)
               o == SubSeq(t, n + 1, Len(t))
           IN  /\ d \in Seq(Nat) /\ Len(d) = Len(s) + n
               /\ o \in Seq(Nat) /\ Len(o) = Len(t) - n
               /\ \A i \in 1 .. Len(d) : d[i] = a + i
               /\ \A i \in 1 .. Len(o) : o[i] = a + Len(d) + i
  <1> DEFINE u == SubSeq(t, 1, n)
             o == SubSeq(t, n + 1, Len(t))
             d == s \o u
             l == Len(s)
  <1>1. l \in Nat /\ Len(t) \in Nat
    OBVIOUS
  <1>2. u \in Seq(Nat) /\ Len(u) = n /\ \A i \in 1 .. n : u[i] = a + l + i
    OBVIOUS
  <1>3. o \in Seq(Nat) /\ Len(o) = Len(t) - n /\ \A i \in 1 .. Len(t) - n : o[i] = a + l + (n + i)
    <2>1. o \in Seq(Nat) /\ Len(o) = Len(t) - n
      OBVIOUS
    <2>2. ASSUME NEW i \in 1 .. Len(t) - n PROVE o[i] = a + l + (n + i)
      <3>1. o[i] = t[n + i] /\ n + i \in 1 .. Len(t)
        OBVIOUS
      <3>2. QED
        BY <3>1
    <2>3. QED
      BY <2>1, <2>2
  <1> HIDE DEF u, o
  <1>4. /\ d \in Seq(Nat) /\ Len(d) = l + n
        /\ \A i \in 1 .. l : d[i] = a + i
        /\ \A i \in l + 1 .. l + n : d[i] = u[i - l]
    <2>1. /\ d \in Seq(Nat) /\ Len(d) = l + Len(u)
          /\ \A i \in 1 .. l : d[i] = s[i]
          /\ \A i \in l + 1 .. l + Len(u) : d[i] = u[i - l]
      BY <1>2, ConcatPart
    <2> HIDE DEF d
    <2>2. QED
      BY <1>2, <2>1
  <1> HIDE DEF d, l
  <1>5. \A i \in 1 .. l + n : d[i] = a + i
    <2>1. ASSUME NEW i \in l + 1 .. l + n PROVE d[i] = a + i
      <3>1. i - l \in 1 .. n /\ i \in Int
        BY <1>1
      <3>2. d[i] = a + l + (i - l)
        BY <1>2, <1>4, <3>1
      <3>3. QED
        BY <1>1, <3>1, <3>2
    <2>2. QED
      BY <1>1, <1>4, <2>1
  <1>6. \A i \in 1 .. Len(o) : o[i] = a + Len(d) + i
    BY <1>1, <1>3, <1>4
  <1>7. QED
    BY <1>3, <1>4, <1>5, <1>6 DEF d, o, u, l

(* xmodem_tx_put_buffer moves units from the chunk to the block.           *)
LEMMA PutChunkStep ==
    ASSUME SInv, PutChunk, HostStays
    PROVE  (SenderTypeOK /\ UnitsOK /\ PhaseOK)' /\ reply' = <<>>
  <1> DEFINE n == Least(BlockLen - Len(tx.data), Len(out))
             d == tx.data \o SubSeq(out, 1, n)
             o == SubSeq(out, n + 1, Len(out))
  <1>1. /\ pc = "put" /\ tx' = [tx EXCEPT !.data = d] /\ out' = o
        /\ pc' = IF Len(d) = BlockLen THEN "send" ELSE "put"
        /\ back' = "put" /\ reply' = <<>> /\ UNCHANGED <<chunked, src, tdefl>>
    BY DEF PutChunk
  <1>2. /\ tx.data \in Seq(Nat) /\ out \in Seq(Nat) /\ BlockLen \in Nat
        /\ Level /\ Len(tx.data) < BlockLen /\ host # "ok"
    BY <1>1, Constants DEF SInv, SenderTypeOK, PhaseOK
  <1>3. n \in 0 .. Len(out) /\ Len(tx.data) + n <= BlockLen
    <2>1. Len(tx.data) \in Nat /\ Len(out) \in Nat
      BY <1>2
    <2>2. BlockLen - Len(tx.data) \in Nat
      BY <1>2, <2>1
    <2>3. n = BlockLen - Len(tx.data) \/ n = Len(out)
      BY DEF Least
    <2>4. n <= BlockLen - Len(tx.data) /\ n <= Len(out)
      BY <2>1, <2>2 DEF Least
    <2> HIDE DEF n
    <2>5. QED
      BY <1>2, <2>1, <2>2, <2>3, <2>4
  <1> HIDE DEF n
  <1>4. /\ Base \in Int
        /\ \A i \in 1 .. Len(tx.data) : tx.data[i] = Base + i
        /\ \A i \in 1 .. Len(out) : out[i] = Base + Len(tx.data) + i
    BY <1>2 DEF SInv, UnitsOK, SenderTypeOK, Base
  <1>5. /\ d \in Seq(Nat) /\ Len(d) = Len(tx.data) + n
        /\ o \in Seq(Nat) /\ Len(o) = Len(out) - n
        /\ \A i \in 1 .. Len(d) : d[i] = Base + i
        /\ \A i \in 1 .. Len(o) : o[i] = Base + Len(d) + i
    BY <1>2, <1>3, <1>4, MoveUnits
  <1> HIDE DEF d, o
  <1>6. tx'.data = d /\ tx'.block = tx.block /\ tx'.use1k = tx.use1k /\ BlockLen' = BlockLen
    BY <1>1 DEF SInv, SenderTypeOK, BlockLen
  <1>7. SenderTypeOK'
    BY <1>1, <1>2, <1>3, <1>4, <1>5, <1>6 DEF SInv, SenderTypeOK
  <1>8. Base' = Base /\ Base \in Int
    <2>1. Base' = tdefl.given - Len(o) - Len(d) /\ Base = tdefl.given - Len(out) - Len(tx.data)
      BY <1>1, <1>6 DEF Base
    <2>2. /\ tdefl.given \in Int /\ Len(out) \in Int /\ Len(tx.data) \in Int /\ n \in Int
          /\ Len(d) = Len(tx.data) + n /\ Len(o) = Len(out) - n
      BY <1>2, <1>3, <1>5 DEF SInv, SenderTypeOK
    <2>3. QED
      BY <2>1, <2>2
  <1>9. UnitsOK'
    <2>1. Base >= 0
      BY DEF SInv, UnitsOK
    <2>2. QED
      BY <1>1, <1>5, <1>6, <1>8, <2>1 DEF UnitsOK
  <1>10. Level'
    BY <1>2, <1>6, <1>8 DEF Level, HostStays
  <1>11. PhaseOK'
    BY <1>1, <1>2, <1>3, <1>5, <1>6, <1>10 DEF PhaseOK, HostStays
  <1>12. QED
    BY <1>1, <1>7, <1>9, <1>11

(* xmodem_tx_finish: what is left is sent in a padded block.               *)
LEMMA FinishStep ==
    ASSUME SInv, Finish, HostStays
    PROVE  (SenderTypeOK /\ UnitsOK /\ PhaseOK)' /\ reply' = <<>>
  <1>1. /\ pc = "finish" /\ pc' = (IF tx.data = <<>> THEN "eot" ELSE "send")
        /\ back' = "eot" /\ reply' = <<>> /\ SenderStays /\ src' = src
    BY DEF Finish, SenderStays
  <1>2. out = <<>> /\ StatusDone /\ Level /\ host # "ok"
    BY <1>1 DEF SInv, PhaseOK
  <1>3. SenderTypeOK'
    BY <1>1, StaysFacts DEF SInv, SenderTypeOK, SenderStays
  <1>4. tx.data = <<>> => Complete
    BY <1>2 DEF Complete, Level, Base, StatusDone, Backlog, SInv, SenderTypeOK
  <1>5. PhaseOK'
    BY <1>1, <1>2, <1>4, StaysFacts DEF PhaseOK, SenderStays, HostStays
  <1>6. QED
    BY <1>1, <1>3, <1>5, StaysFacts

LEMMA StubWorksStep == ASSUME SInv, StubWorks PROVE SInv'
  <1>1. HostStays /\ toStub' = toStub /\ toHost' = toHost \o reply' /\ Work
    BY DEF StubWorks, hostVars, HostStays
  <1>2. Working
    BY <1>1 DEF Working, Work, ReadChunk, GiveBacklog, Compress, CompressLast, NextCall,
                PutChunk, Finish
  <1>3. /\ (SenderTypeOK /\ UnitsOK /\ PhaseOK)'
        /\ reply' = <<>> \/ (pc' = "done" /\ reply' = CanCan)
    <2>1. CASE ReadChunk
      BY <1>1, <2>1, ReadChunkStep DEF ReadChunk
    <2>2. QED
      BY <1>1, <2>1, DeflaterStep, NextCallStep, PutChunkStep, FinishStep DEF Work
  <1>4. TurnOK'
    BY <1>1, <1>2, <1>3, LineEmpty, Lines DEF TurnOK
  <1>5. HostTypeOK'
    BY <1>1 DEF HostStays, HostTypeOK, SInv
  <1>6. QED
    BY <1>3, <1>4, <1>5 DEF SInv


-----------------------------------------------------------------------------
(* What leaves the stub may be lost or damaged.                            *)
LEMMA StubSendsStep == ASSUME SInv, StubSends PROVE SInv'
  <1>1. HostStays /\ toStub' = toStub /\ SenderStays /\ UNCHANGED <<src, back>>
    BY DEF StubSends, Send, SendPacket, SendEot, hostVars, HostStays, SenderStays
  <1>2. CASE SendPacket
    <2>1. pc = "send" /\ pc' = "answer" /\ reply' = <<Packet(tx.block, Padded)>>
      BY <1>2 DEF SendPacket
    <2>2. toStub = <<>> /\ toHost = <<>>
      BY <2>1, LineEmpty DEF Working
    <2> DEFINE p == Packet(tx.block, Padded)
    <2>3. /\ p.kind = "packet" /\ p.no = tx.block /\ p.data = Padded
          /\ Damaged(p).kind = "packet" /\ ~Damaged(p).intact
      BY DEF Packet, Damaged
    <2> HIDE DEF p
    <2>4. reply' = <<p>> /\ reply'[1] = p
      BY <2>1 DEF p
    <2>5. toHost' \in {<<>>, <<p>>, <<Damaged(p)>>}
      BY <2>2, <2>4, Lines DEF StubSends
    <2>6. tx' = tx /\ Padded' = Padded
      BY <1>1 DEF SenderStays, Padded, BlockLen
    <2>7. TurnOK'
      BY <1>1, <2>1, <2>2, <2>3, <2>5, <2>6 DEF TurnOK, ItemOK
    <2>8. SenderTypeOK'
      BY <1>1, <2>1, StaysFacts DEF SInv, SenderTypeOK, SenderStays
    <2>9. PhaseOK'
      BY <1>1, <2>1, StaysFacts DEF SInv, PhaseOK, SenderStays, HostStays
    <2>10. QED
      BY <1>1, <2>7, <2>8, <2>9, StaysFacts DEF SInv
  <1>3. CASE SendEot
    <2>1. pc = "eot" /\ pc' = "eotAnswer" /\ reply' = <<Byte("EOT")>>
      BY <1>3 DEF SendEot
    <2>2. toStub = <<>> /\ toHost = <<>>
      BY <2>1, LineEmpty DEF Working
    <2> DEFINE p == Byte("EOT")
    <2>3. p.kind = "EOT" /\ Damaged(p).kind = "junk"
      BY DEF Byte, Damaged
    <2> HIDE DEF p
    <2>4. reply' = <<p>> /\ reply'[1] = p
      BY <2>1 DEF p
    <2>5. toHost' \in {<<>>, <<p>>, <<Damaged(p)>>}
      BY <2>2, <2>4, Lines DEF StubSends
    <2>6. TurnOK'
      BY <1>1, <2>1, <2>2, <2>3, <2>5 DEF TurnOK, ItemOK
    <2>7. SenderTypeOK'
      BY <1>1, <2>1, StaysFacts DEF SInv, SenderTypeOK, SenderStays
    <2>8. PhaseOK'
      BY <1>1, <2>1, StaysFacts DEF SInv, PhaseOK, SenderStays, HostStays
    <2>9. QED
      BY <1>1, <2>6, <2>7, <2>8, StaysFacts DEF SInv
  <1>4. QED
    BY <1>2, <1>3 DEF StubSends, Send

-----------------------------------------------------------------------------
(* What the stub reads, or does after silence.                             *)
LEMMA RetryStep ==
    ASSUME SInv, HostStays, SenderStays, UNCHANGED <<src, back>>,
           toHost = <<>>, toStub' = <<>>, toHost' = toHost \o reply',
           NEW limit,
           \/ pc = "start" /\ Retry(limit, "start")
           \/ pc = "answer" /\ Retry(limit, "send")
           \/ pc = "eotAnswer" /\ Retry(limit, "eot")
    PROVE  SInv'
  <1>1. \/ /\ reply' = <<>>
           /\ \/ pc = "start" /\ pc' = "start"
              \/ pc = "answer" /\ pc' = "send"
              \/ pc = "eotAnswer" /\ pc' = "eot"
        \/ reply' = CanCan /\ pc' = "done"
    BY DEF Retry, Leave
  <1>2. SenderTypeOK'
    BY <1>1, StaysFacts DEF SInv, SenderTypeOK, SenderStays
  <1>3. PhaseOK'
    BY <1>1, StaysFacts DEF SInv, PhaseOK, SenderStays, HostStays
  <1>4. TurnOK'
    BY <1>1, Lines DEF TurnOK
  <1>5. QED
    BY <1>2, <1>3, <1>4, StaysFacts DEF SInv

LEMMA LeaveStep ==
    ASSUME SInv, HostStays, SenderStays, UNCHANGED <<src, back>>,
           toHost = <<>>, toStub' = <<>>, toHost' = toHost \o reply',
           Leave(CanCan) \/ Leave(<<>>)
    PROVE  SInv'
  <1>1. pc' = "done" /\ reply' \in {<<>>, CanCan}
    BY DEF Leave
  <1>2. SenderTypeOK'
    BY <1>1, StaysFacts DEF SInv, SenderTypeOK, SenderStays
  <1>3. PhaseOK'
    BY <1>1, StaysFacts DEF SInv, PhaseOK, SenderStays, HostStays
  <1>4. TurnOK'
    BY <1>1, Lines DEF TurnOK
  <1>5. QED
    BY <1>2, <1>3, <1>4, StaysFacts DEF SInv

(* The byte that starts the transfer says how long its blocks are.         *)
LEMMA StartsStep ==
    ASSUME SInv, HostStays, pc = "start", NEW b, b \in {"C", "NAK"}, StartByte(b),
           toHost = <<>>, toStub' = <<>>, toHost' = toHost \o reply'
    PROVE  SInv'
  <1>1. /\ tx' = [tx EXCEPT !.use1k = (b = "C")] /\ pc' = "deflate" /\ reply' = <<>>
        /\ UNCHANGED <<chunked, src, tdefl, out, back>>
    BY DEF StartByte
  <1>2. tx.data = <<>> /\ out = <<>> /\ Level /\ host # "ok"
    BY DEF SInv, PhaseOK
  <1>3. /\ tx' \in [use1k : BOOLEAN, block : 0 .. BlockMod - 1, data : Seq(Nat)]
        /\ tx'.data = <<>> /\ tx'.block = tx.block
    BY <1>1, <1>2 DEF SInv, SenderTypeOK
  <1>4. BlockLen' \in Nat /\ BlockLen' > 0
    BY Constants, StreamSendAssumption DEF BlockLen
  <1>5. SenderTypeOK'
    BY <1>1, <1>3, <1>4 DEF SInv, SenderTypeOK
  <1>6. Base' = Base
    BY <1>1, <1>2, <1>3 DEF Base
  <1>7. UnitsOK' /\ Level'
    BY <1>1, <1>2, <1>3, <1>6 DEF SInv, UnitsOK, Level, HostStays
  <1>8. PhaseOK'
    BY <1>1, <1>2, <1>3, <1>4, <1>7 DEF PhaseOK, HostStays
  <1>9. TurnOK'
    BY <1>1, Lines DEF TurnOK
  <1>10. HostTypeOK'
    BY DEF HostStays, HostTypeOK, SInv
  <1>11. QED
    BY <1>5, <1>7, <1>8, <1>9, <1>10 DEF SInv

(* An acknowledged block is behind: the host has all of it.                *)
LEMMA AckStep ==
    ASSUME SInv, HostStays, pc = "answer", Ahead, AnswerByte("ACK"),
           toHost = <<>>, toStub' = <<>>, toHost' = toHost \o reply'
    PROVE  SInv'
  <1>1. /\ tx' = [tx EXCEPT !.block = BlockAfter, !.data = <<>>] /\ pc' = back
        /\ reply' = <<>> /\ UNCHANGED <<chunked, src, tdefl, out, back>>
    BY DEF AnswerByte
  <1>2. /\ back = "put" => Len(tx.data) = BlockLen
        /\ back = "eot" => out = <<>> /\ StatusDone
        /\ host # "ok" /\ back \in {"put", "eot"}
    BY DEF SInv, PhaseOK, SenderTypeOK
  <1>3. BlockAfter \in 0 .. BlockMod - 1
    <2>1. tx.block + 1 \in Int /\ BlockMod \in Nat \ {0}
      BY Constants DEF SInv, SenderTypeOK
    <2>2. QED
      BY <2>1, ModRange DEF BlockAfter
  <1>4. /\ tx' \in [use1k : BOOLEAN, block : 0 .. BlockMod - 1, data : Seq(Nat)]
        /\ tx'.data = <<>> /\ tx'.block = BlockAfter /\ tx'.use1k = tx.use1k
    <2>1. tx \in [use1k : BOOLEAN, block : 0 .. BlockMod - 1, data : Seq(Nat)]
      BY DEF SInv, SenderTypeOK
    <2> DEFINE u == [tx EXCEPT !.block = BlockAfter]
    <2>2. /\ u \in [use1k : BOOLEAN, block : 0 .. BlockMod - 1, data : Seq(Nat)]
          /\ u.block = BlockAfter /\ u.use1k = tx.use1k
      BY <1>3, <2>1
    <2> HIDE DEF u
    <2>3. tx' = [u EXCEPT !.data = <<>>] /\ <<>> \in Seq(Nat)
      BY <1>1 DEF u
    <2>4. QED
      BY <2>2, <2>3
  <1>5. BlockLen' = BlockLen /\ BlockLen \in Nat \ {0}
    BY <1>4, Constants DEF BlockLen
  <1>6. SenderTypeOK'
    BY <1>1, <1>2, <1>4, <1>5 DEF SInv, SenderTypeOK
  <1>7. /\ Base' = Base + Len(tx.data) /\ Base \in Nat /\ Len(tx.data) \in Nat
        /\ Base + Len(tx.data) + Len(out) = tdefl.given
        /\ Len(tx.data) <= BlockLen
    BY <1>1, <1>4 DEF Base, SInv, SenderTypeOK, UnitsOK
  <1>8. UnitsOK'
    BY <1>1, <1>4, <1>7 DEF SInv, UnitsOK
  <1>9. CASE back = "put"
    <2>1. Level'
      BY <1>1, <1>2, <1>4, <1>7, <1>9 DEF Level, Ahead, HostStays
    <2>2. QED
      <3>1. PhaseOK'
        BY <1>1, <1>2, <1>4, <1>5, <1>9, <2>1 DEF PhaseOK, HostStays
      <3>2. TurnOK'
        BY <1>1, Lines DEF TurnOK
      <3>3. HostTypeOK'
        BY DEF HostStays, HostTypeOK, SInv
      <3>4. QED
        BY <1>6, <1>8, <3>1, <3>2, <3>3 DEF SInv
  <1>10. CASE back = "eot"
    <2>1. Base + Len(tx.data) = tdefl.made /\ StatusDone'
      BY <1>1, <1>2, <1>7, <1>10 DEF StatusDone, Backlog, SInv, SenderTypeOK
    <2>2. Complete'
      <3>1. tdefl' = tdefl /\ got' = got /\ Len(got) = Base + BlockLen
            /\ \A i \in 1 .. Len(got) : got[i] = IF i <= tdefl.made THEN i ELSE 0
        BY <1>1, <2>1 DEF Ahead, HostStays
      <3>2. Len(got) >= tdefl.made
        BY <1>5, <1>7, <2>1, <3>1
      <3>3. QED
        BY <2>1, <3>1, <3>2 DEF Complete
    <2>3. QED
      <3>1. PhaseOK'
        BY <1>1, <1>2, <1>10, <2>2 DEF PhaseOK, HostStays
      <3>2. TurnOK'
        BY <1>1, Lines DEF TurnOK
      <3>3. HostTypeOK'
        BY DEF HostStays, HostTypeOK, SInv
      <3>4. QED
        BY <1>6, <1>8, <3>1, <3>2, <3>3 DEF SInv
  <1>11. QED
    BY <1>2, <1>9, <1>10

LEMMA StubReadsStep == ASSUME SInv, StubReads PROVE SInv'
  <1>1. HostStays /\ toStub # <<>> /\ toStub' = Tail(toStub)
    BY DEF StubReads, hostVars, HostStays
  <1>2. PICK b : toStub = <<b>> /\ ByteOK(b) /\ toHost = <<>> /\ Waiting
    BY <1>1 DEF SInv, TurnOK
  <1>3. Head(toStub) = b /\ toStub' = <<>>
    BY <1>1, <1>2, Lines
  <1>4. CASE ReadByte(b) /\ toHost' = toHost \o reply'
    <2>1. CASE StartByte(b)
      <3>1. CASE b \in {"C", "NAK"}
        BY <1>1, <1>2, <1>3, <1>4, <2>1, <3>1, StartsStep DEF StartByte
      <3>2. CASE b \notin {"C", "NAK"}
        <4>1. /\ pc = "start" /\ SenderStays /\ UNCHANGED <<src, back>>
              /\ Leave(CanCan) \/ Retry(StartTries, "start")
          BY <2>1, <3>2 DEF StartByte, SenderStays
        <4>2. QED
          BY <1>1, <1>2, <1>3, <1>4, <4>1, RetryStep, LeaveStep
      <3>3. QED
        BY <3>1, <3>2
    <2>2. CASE AnswerByte(b)
      <3>1. CASE b = "ACK"
        <4>1. pc = "answer"
          BY <2>2 DEF AnswerByte
        <4>2. Ahead /\ AnswerByte("ACK")
          BY <1>2, <2>2, <3>1, <4>1 DEF ByteOK
        <4>3. QED
          BY <1>1, <1>2, <1>3, <1>4, <4>1, <4>2, AckStep
      <3>2. CASE b # "ACK"
        <4>1. /\ pc = "answer" /\ SenderStays /\ UNCHANGED <<src, back>>
              /\ Leave(CanCan) \/ Retry(MaxRetries, "send")
          BY <2>2, <3>2 DEF AnswerByte, SenderStays
        <4>2. QED
          BY <1>1, <1>2, <1>3, <1>4, <4>1, RetryStep, LeaveStep
      <3>3. QED
        BY <3>1, <3>2
    <2>3. CASE EotByte(b)
      <3>1. /\ pc = "eotAnswer" /\ SenderStays /\ UNCHANGED <<src, back>>
            /\ Leave(<<>>) \/ Retry(EotTries, "eot")
        BY <2>3 DEF EotByte, SenderStays
      <3>2. QED
        BY <1>1, <1>2, <1>3, <1>4, <3>1, RetryStep, LeaveStep
    <2>4. QED
      BY <1>4, <2>1, <2>2, <2>3 DEF ReadByte
  <1>5. CASE pc = "done" /\ UNCHANGED <<senderVars, toHost>>
    <2>1. SenderStays /\ UNCHANGED <<src, back, pc, toHost>>
      BY <1>5 DEF senderVars, SenderStays
    <2>2. SenderTypeOK' /\ PhaseOK'
      BY <1>1, <1>5, <2>1, StaysFacts DEF SInv, SenderTypeOK, PhaseOK, SenderStays, HostStays
    <2>3. TurnOK'
      BY <1>2, <1>3, <2>1 DEF TurnOK
    <2>4. QED
      BY <1>1, <2>1, <2>2, <2>3, StaysFacts DEF SInv
  <1>6. QED
    BY <1>3, <1>4, <1>5 DEF StubReads

LEMMA StubTimesOutStep == ASSUME SInv, StubTimesOut PROVE SInv'
  <1>1. /\ HostStays /\ SenderStays /\ UNCHANGED <<src, back>>
        /\ toStub = <<>> /\ toHost = <<>> /\ toStub' = <<>> /\ toHost' = toHost \o reply'
        /\ \/ pc = "start" /\ Retry(StartTries, "start")
           \/ pc = "answer" /\ Retry(MaxRetries, "send")
           \/ pc = "eotAnswer" /\ Retry(EotTries, "eot")
    BY DEF StubTimesOut, Silence, Timeout, hostVars, HostStays, SenderStays
  <1>2. QED
    BY <1>1, RetryStep


-----------------------------------------------------------------------------
(* The host. *)
StubStays == UNCHANGED <<pc, chunked, src, tdefl, out, tx, back>>
LEMMA StubStaysFacts ==
    ASSUME SInv, StubStays
    PROVE  /\ SenderTypeOK' /\ UnitsOK' /\ BlockLen' = BlockLen /\ Padded' = Padded
           /\ Base' = Base
           /\ StatusDone => StatusDone'
           /\ UNCHANGED <<expect, got>> =>
                 (Level => Level') /\ (Ahead => Ahead') /\ (Complete => Complete')
  <1>1. SenderTypeOK' /\ UnitsOK' /\ BlockLen' = BlockLen /\ Padded' = Padded /\ Base' = Base
    BY DEF SInv, StubStays, SenderTypeOK, UnitsOK, BlockLen, Base, Padded
  <1>2. StatusDone => StatusDone'
    BY DEF StubStays, StatusDone, Backlog
  <1>3. UNCHANGED <<expect, got>> => (Level => Level') /\ (Ahead => Ahead')
    BY <1>1 DEF StubStays, Level, Ahead, BlockAfter
  <1>4. UNCHANGED <<expect, got>> => (Complete => Complete')
    BY DEF StubStays, Complete, StatusDone, Backlog
  <1>5. QED
    BY <1>1, <1>2, <1>3, <1>4

(* A host that keeps nothing new.                                          *)
LEMMA HostKeeps ==
    ASSUME SInv, StubStays, UNCHANGED <<ask, expect, got>>,
           host' \in {"start", "block", "ok", "fail"},
           host' = "ok" => host = "ok" \/ pc = "eotAnswer"
    PROVE  (SenderTypeOK /\ UnitsOK /\ HostTypeOK /\ PhaseOK)'
  <1>1. HostTypeOK'
    BY DEF SInv, HostTypeOK
  <1>2. HostHoldsStream
    BY HostHolds
  <1>3. pc = "done" => HostHoldsStream'
    BY <1>2 DEF HostHoldsStream, StubStays
  <1>4. PhaseOK'
    BY <1>3, StubStaysFacts DEF SInv, PhaseOK, StubStays
  <1>5. QED
    BY <1>1, <1>4, StubStaysFacts

LEMMA HostSpeaks ==
    ASSUME SInv, StubStays, UNCHANGED <<ask, expect, got>>,
           host' \in {"start", "block", "ok", "fail"},
           host' = "ok" => host = "ok" \/ pc = "eotAnswer",
           Waiting, toHost' = <<>>, NEW b,
           b = "ACK" => pc = "eotAnswer" \/ (pc = "answer" /\ Ahead),
           toStub' \in {<<>>, <<b>>, <<"junk">>}
    PROVE  SInv'
  <1>1. (SenderTypeOK /\ UnitsOK /\ HostTypeOK /\ PhaseOK)'
    BY HostKeeps
  <1>2. pc' = pc /\ Waiting' /\ (Ahead => Ahead')
    BY StubStaysFacts DEF Waiting, StubStays
  <1>3. ByteOK(b)' /\ ByteOK("junk")'
    BY <1>2 DEF ByteOK
  <1>4. TurnOK'
    BY <1>2, <1>3 DEF TurnOK
  <1>5. QED
    BY <1>1, <1>4 DEF SInv

LEMMA AnswerFacts ==
    ASSUME NEW b, Answer(b), toStub = <<>>
    PROVE  toStub' \in {<<>>, <<b>>, <<"junk">>}
  BY Lines DEF Answer

LEMMA HostAsksStep == ASSUME SInv, HostAsks PROVE SInv'
  <1>1. /\ Answer(ask) /\ toStub = <<>> /\ toHost' = <<>> /\ Waiting
        /\ UNCHANGED <<ask, expect, got, host>> /\ StubStays
        /\ ask # "ACK" /\ host' = "start"
    BY DEF HostAsks, Silence, Waiting, senderVars, StubStays, SInv, HostTypeOK
  <1>2. toStub' \in {<<>>, <<ask>>, <<"junk">>}
    BY <1>1, AnswerFacts
  <1>3. QED
    BY <1>1, <1>2, HostSpeaks

LEMMA HostTimesOutStep == ASSUME SInv, HostTimesOut PROVE SInv'
  <1>1. /\ toStub = <<>> /\ toHost' = <<>> /\ Waiting
        /\ UNCHANGED <<ask, expect, got>> /\ StubStays
        /\ \/ host = "block" /\ host' = host /\ Answer("NAK")
           \/ host' = "fail" /\ toStub' = toStub
    BY DEF HostTimesOut, Silence, Waiting, senderVars, StubStays
  <1>2. toStub' \in {<<>>, <<"NAK">>, <<"junk">>}
    BY <1>1, AnswerFacts
  <1>3. host' \in {"start", "block", "ok", "fail"} /\ host' # "ok"
    BY <1>1
  <1>4. "NAK" # "ACK"
    OBVIOUS
  <1>5. QED
    BY <1>1, <1>2, <1>3, <1>4, HostSpeaks

(* The block that the host waited for.                                     *)
LEMMA HostTakes ==
    ASSUME SInv, StubStays, pc = "answer", Level, ask' = ask, host' = "block",
           got' = got \o Padded, expect' = (expect + 1) % BlockMod
    PROVE  (SenderTypeOK /\ UnitsOK /\ HostTypeOK /\ PhaseOK)' /\ Ahead'
  <1>1. /\ got \in Seq(Nat) /\ Len(got) = Base /\ tx.data \in Seq(Nat) /\ BlockLen \in Nat
        /\ Len(tx.data) <= BlockLen /\ Base \in Nat /\ expect = tx.block
        /\ \A i \in 1 .. Len(got) : got[i] = i
        /\ \A i \in 1 .. Len(tx.data) : tx.data[i] = Base + i
    BY Constants DEF SInv, HostTypeOK, SenderTypeOK, UnitsOK, Level
  <1> DEFINE f == Padded
  <1>2. /\ f \in Seq(Nat) /\ Len(f) = BlockLen
        /\ \A i \in 1 .. BlockLen : f[i] = IF i <= Len(tx.data) THEN Base + i ELSE 0
    <2>1. f = [i \in 1 .. BlockLen |-> IF i <= Len(tx.data) THEN tx.data[i] ELSE 0]
      BY DEF Padded
    <2> HIDE DEF f
    <2>2. ASSUME NEW i \in 1 .. BlockLen
          PROVE  f[i] \in Nat /\ f[i] = IF i <= Len(tx.data) THEN Base + i ELSE 0
      <3>1. f[i] = IF i <= Len(tx.data) THEN tx.data[i] ELSE 0
        BY <2>1
      <3>2. CASE i <= Len(tx.data)
        <4>1. i \in 1 .. Len(tx.data)
          BY <1>1, <3>2
        <4>2. f[i] = Base + i
          BY <1>1, <3>1, <4>1
        <4>3. QED
          BY <1>1, <3>2, <4>2
      <3>3. CASE ~(i <= Len(tx.data))
        BY <3>1, <3>3
      <3>4. QED
        BY <3>2, <3>3
    <2>3. f \in [1 .. BlockLen -> Nat]
      BY <2>1, <2>2
    <2>4. QED
      BY <1>1, <2>2, <2>3
  <1> HIDE DEF f
  <1>3. /\ got' \in Seq(Nat) /\ Len(got') = Base + Len(f)
        /\ \A i \in 1 .. Base : got'[i] = got[i]
        /\ \A i \in Base + 1 .. Base + Len(f) : got'[i] = f[i - Base]
    <2>1. got' = got \o f
      BY DEF f
    <2>2. /\ got \o f \in Seq(Nat) /\ Len(got \o f) = Len(got) + Len(f)
          /\ \A i \in 1 .. Len(got) : (got \o f)[i] = got[i]
          /\ \A i \in Len(got) + 1 .. Len(got) + Len(f) : (got \o f)[i] = f[i - Len(got)]
      BY <1>1, <1>2, ConcatPart
    <2>3. QED
      BY <1>1, <2>1, <2>2
  <1>4. \A i \in 1 .. Base + BlockLen : got'[i] = IF i <= Base + Len(tx.data) THEN i ELSE 0
    <2>1. ASSUME NEW i \in Base + 1 .. Base + BlockLen
          PROVE  got'[i] = IF i <= Base + Len(tx.data) THEN i ELSE 0
      <3>1. i - Base \in 1 .. BlockLen /\ got'[i] = f[i - Base]
        <4>1. Base \in Int /\ BlockLen \in Int /\ Len(f) = BlockLen
          BY <1>1, <1>2
        <4>2. i \in Base + 1 .. Base + Len(f)
          BY <4>1
        <4>3. i - Base \in 1 .. BlockLen
          BY <4>1
        <4>4. got'[i] = f[i - Base]
          BY <1>3, <4>2
        <4>5. QED
          BY <4>3, <4>4
      <3>2. f[i - Base] = IF i - Base <= Len(tx.data) THEN Base + (i - Base) ELSE 0
        BY <1>2, <3>1
      <3>3. QED
        BY <1>1, <3>1, <3>2
    <2>2. ASSUME NEW i \in 1 .. Base
          PROVE  got'[i] = IF i <= Base + Len(tx.data) THEN i ELSE 0
      BY <1>1, <1>3
    <2>3. ASSUME NEW i \in 1 .. Base + BlockLen
          PROVE  i \in 1 .. Base \/ i \in Base + 1 .. Base + BlockLen
      BY <1>1
    <2>4. QED
      BY <2>1, <2>2, <2>3
  <1>5. /\ SenderTypeOK' /\ UnitsOK' /\ BlockLen' = BlockLen /\ Base' = Base
        /\ StatusDone => StatusDone'
    BY StubStaysFacts
  <1>6. Ahead'
    BY <1>1, <1>2, <1>3, <1>4, <1>5 DEF Ahead, BlockAfter, StubStays
  <1>7. HostTypeOK'
    <2>1. expect' \in 0 .. BlockMod - 1
      <3>1. expect + 1 \in Int /\ BlockMod \in Nat \ {0}
        BY Constants DEF SInv, HostTypeOK
      <3>2. QED
        BY <3>1, ModRange
    <2>2. QED
      BY <1>3, <2>1 DEF SInv, HostTypeOK
  <1>8. PhaseOK'
    BY <1>5, <1>6 DEF SInv, PhaseOK, StubStays
  <1>9. QED
    BY <1>5, <1>6, <1>7, <1>8

(* A block is the one the host waits for, or the one before, which it has. *)
LEMMA HostReadsPacketStep ==
    ASSUME SInv, StubStays, NEW p, pc = "answer", p.kind = "packet",
           p.intact => p.no = tx.block /\ p.data = Padded,
           toStub = <<>>, toHost' = <<>>, HostReadsPacket(p)
    PROVE  SInv'
  <1>1. ask' = ask /\ Waiting
    BY DEF HostReadsPacket, Waiting
  <1>2. CASE ~p.intact
    <2>1. host' = "block" /\ UNCHANGED <<expect, got>> /\ Answer("NAK")
      BY <1>2 DEF HostReadsPacket
    <2>2. toStub' \in {<<>>, <<"NAK">>, <<"junk">>}
      BY <2>1, AnswerFacts
    <2>3. QED
      BY <1>1, <2>1, <2>2, HostSpeaks
  <1>3. CASE p.intact
    <2>1. /\ expect \in 0 .. BlockMod - 1 /\ tx.block \in 0 .. BlockMod - 1
          /\ BlockMod \in Nat \ {0} /\ BlockMod > 1
      BY Constants DEF SInv, HostTypeOK, SenderTypeOK
    <2>2. tx.block % BlockMod = tx.block
      BY <2>1, ModSmall
    <2>3. /\ (tx.block + 1) % BlockMod # tx.block
          /\ (((tx.block + 1) % BlockMod) - 1) % BlockMod = tx.block
          /\ (tx.block - 1) % BlockMod # tx.block
      <3>1. tx.block \in Int
        BY <2>1
      <3>2. QED
        BY ZenonT(30), <2>1, <2>2, <3>1, BlockNumberFacts
    <2>4. Level \/ Ahead
      BY DEF SInv, PhaseOK
    <2>5. CASE Level
      <3>1. p.no = expect /\ p.no # (expect - 1) % BlockMod
        BY <1>3, <2>3, <2>5 DEF Level
      <3>2. /\ Answer("ACK") /\ host' = "block" /\ got' = got \o Padded
            /\ expect' = (expect + 1) % BlockMod
        BY <1>3, <3>1 DEF HostReadsPacket
      <3>3. (SenderTypeOK /\ UnitsOK /\ HostTypeOK /\ PhaseOK)' /\ Ahead'
        BY <1>1, <2>5, <3>2, HostTakes
      <3>4. toStub' \in {<<>>, <<"ACK">>, <<"junk">>}
        BY <3>2, AnswerFacts
      <3>5. TurnOK'
        BY <3>3, <3>4 DEF TurnOK, ByteOK, Waiting, StubStays
      <3>6. QED
        BY <3>3, <3>5 DEF SInv
    <2>6. CASE Ahead
      <3>1. p.no # expect /\ p.no = (expect - 1) % BlockMod
        BY <1>3, <2>3, <2>6 DEF Ahead, BlockAfter
      <3>2. Answer("ACK") /\ host' = "block" /\ UNCHANGED <<expect, got>>
        BY <1>3, <3>1 DEF HostReadsPacket
      <3>3. toStub' \in {<<>>, <<"ACK">>, <<"junk">>}
        BY <3>2, AnswerFacts
      <3>4. QED
        BY <1>1, <2>6, <3>2, <3>3, HostSpeaks
    <2>7. QED
      BY <2>4, <2>5, <2>6
  <1>4. QED
    BY <1>2, <1>3

LEMMA HostReadsStep == ASSUME SInv, HostReads PROVE SInv'
  <1>1. StubStays /\ toHost # <<>> /\ toHost' = Tail(toHost)
    BY DEF HostReads, senderVars, StubStays
  <1>2. toStub = <<>>
    BY <1>1 DEF SInv, TurnOK
  <1>3. CASE \E p : toHost = <<p>> /\ ItemOK(p)
    <2>1. PICK p : toHost = <<p>> /\ ItemOK(p)
      BY <1>3
    <2>2. Head(toHost) = p /\ toHost' = <<>> /\ Waiting
      BY <1>1, <2>1, Lines DEF ItemOK, Waiting
    <2>3. CASE ~HostOver /\ p.kind = "packet"
      <3>1. HostReadsPacket(p)
        BY <2>2, <2>3 DEF HostReads
      <3>2. pc = "answer" /\ (p.intact => p.no = tx.block /\ p.data = Padded)
        BY <2>1, <2>3 DEF ItemOK
      <3>3. QED
        BY <1>1, <1>2, <2>2, <2>3, <3>1, <3>2, HostReadsPacketStep
    <2>4. CASE ~HostOver /\ p.kind = "EOT"
      <3>1. host' = "ok" /\ Answer("ACK") /\ UNCHANGED <<ask, expect, got>>
        BY <2>2, <2>4 DEF HostReads
      <3>2. pc = "eotAnswer"
        BY <2>1, <2>4 DEF ItemOK
      <3>3. toStub' \in {<<>>, <<"ACK">>, <<"junk">>}
        BY <1>2, <3>1, AnswerFacts
      <3>4. QED
        BY <1>1, <2>2, <3>1, <3>2, <3>3, HostSpeaks
    <2>5. CASE HostOver \/ p.kind \notin {"packet", "EOT"}
      <3>1. /\ UNCHANGED <<ask, expect, got, toStub>>
            /\ host' = host \/ host' = "fail"
        BY <2>2, <2>5 DEF HostReads, hostVars
      <3>2. host' \in {"start", "block", "ok", "fail"} /\ (host' = "ok" => host = "ok")
        BY <3>1 DEF SInv, HostTypeOK
      <3>3. toStub' \in {<<>>, <<"NAK">>, <<"junk">>} /\ "NAK" # "ACK"
        BY <1>2, <3>1
      <3>4. QED
        BY <1>1, <2>2, <3>1, <3>2, <3>3, HostSpeaks
    <2>6. QED
      BY <2>3, <2>4, <2>5
  <1>4. CASE pc = "done" /\ toHost = CanCan
    <2>1. Head(toHost) = Byte("CAN") /\ toHost' = <<Byte("CAN")>>
      BY <1>1, <1>4, CanFacts
    <2>2. Byte("CAN").kind = "CAN"
      BY DEF Byte
    <2>3. /\ UNCHANGED <<ask, expect, got, toStub>>
          /\ host' = host \/ host' = "fail"
      BY <2>1, <2>2 DEF HostReads, hostVars
    <2>4. host' \in {"start", "block", "ok", "fail"} /\ (host' = "ok" => host = "ok")
      BY <2>3 DEF SInv, HostTypeOK
    <2>5. (SenderTypeOK /\ UnitsOK /\ HostTypeOK /\ PhaseOK)'
      BY <1>1, <2>3, <2>4, HostKeeps
    <2>6. ItemOK(Byte("CAN"))'
      BY <1>1, <1>4, <2>2 DEF ItemOK, StubStays
    <2>7. TurnOK'
      BY <1>2, <2>1, <2>3, <2>6 DEF TurnOK
    <2>8. QED
      BY <2>5, <2>7 DEF SInv
  <1>5. QED
    BY <1>1, <1>3, <1>4 DEF SInv, TurnOK

-----------------------------------------------------------------------------
LEMMA StepSInv == ASSUME SInv, [SessionNext]_vars PROVE SInv'
  <1>1. CASE UNCHANGED vars
    <2>1. /\ UNCHANGED <<toStub, toHost, ask, expect, got, host>> /\ StubStays
      BY <1>1 DEF vars, senderVars, hostVars, StubStays
    <2>2. host' = "ok" => host = "ok" \/ pc = "eotAnswer"
      BY <2>1
    <2>3. (SenderTypeOK /\ UnitsOK /\ HostTypeOK /\ PhaseOK)'
      BY <2>1, <2>2, HostKeeps DEF SInv, HostTypeOK
    <2>4. pc' = pc /\ tx' = tx /\ Padded' = Padded /\ (Ahead => Ahead')
      BY <2>1, StubStaysFacts DEF StubStays
    <2>5. TurnOK'
      BY <2>1, <2>4 DEF SInv, TurnOK, Waiting, ByteOK, ItemOK, CanCan, Byte
    <2>6. QED
      BY <2>3, <2>5 DEF SInv
  <1>2. QED
    BY <1>1, StubWorksStep, StubSendsStep, StubReadsStep, StubTimesOutStep, HostAsksStep,
       HostReadsStep, HostTimesOutStep DEF SessionNext

(* Types, units, positions and whose turn it is, in every reachable state  *)
(* of the session of xmodem_send_compressed_memory and its host.           *)
THEOREM SessionInvariant == SessionSpec => []SInv
  <1>1. SInv /\ [SessionNext]_vars => SInv'
    BY StepSInv
  <1>2. QED
    BY <1>1, InitSInv, PTL DEF SessionSpec

(* Whatever the deflater makes of the memory, in whatever amounts, and     *)
(* however many packets and answers are lost or damaged: the host holds the*)
(* stream in order, padded only behind its end, and when it has seen EOT it*)
(* holds all of it.                                                        *)
THEOREM HostGetsStream == SessionSpec => []HostHoldsStream
  <1>1. QED
    BY HostHolds, SessionInvariant, PTL
=============================================================================
