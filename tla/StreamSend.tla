----------------------------- MODULE StreamSend -----------------------------
(***************************************************************************)
(* xmodem_send_compressed_memory: the deflater puts out what it makes of   *)
(* the memory, in amounts of its own, and XMODEM blocks are filled with    *)
(* it.  Two forms of stub_miniz_deflate_raw: on a chip with memory-mapped  *)
(* flash the deflater reads it in one call; without (PLATFORM_NO_XIP) the  *)
(* flash is copied chunk by chunk and every call has an output buffer of   *)
(* OUT_SIZE.                                                               *)
(*                                                                         *)
(* The deflater (miniz) is external: a call consumes its input and makes   *)
(* units of output whenever its block is full or the stream is to be       *)
(* finished; what does not fit in the output buffer stays inside, and the  *)
(* next call consumes nothing until it is out.  The units are numbered in  *)
(* the order they are made; 0 is padding.                                  *)
(***************************************************************************)
EXTENDS Integers, Sequences

CONSTANTS Lengths,     \* len of the command, in units of input
          ChunkIn,     \* input of one call without memory-mapped flash
          ChunkOut,    \* OUT_SIZE
          Makes,       \* how many units a call may make
          Large, Small,        \* data of a block: 1024 and 128 bytes
          BlockMod,    \* values of a block number (256)
          StartTries, MaxRetries, EotTries

ASSUME StreamSendAssumption ==
    /\ Lengths \subseteq Nat /\ Makes \subseteq Nat
    /\ {ChunkIn, ChunkOut, Large, Small} \subseteq Nat \ {0}
    /\ {StartTries, MaxRetries, EotTries} \subseteq Nat \ {0}
    /\ BlockMod \in Nat \ {0, 1}

VARIABLES pc,
          chunked,   \* whether the platform is PLATFORM_NO_XIP
          len,       \* len of the command
          src,       \* remaining, and left: input_len - input_pos
          tdefl,     \* the deflater: made, given out, finished
          out,       \* units handed to put_buffer and not yet in a packet
          tx,        \* xmodem_tx_stream_t: use1k, block, data
          back,      \* where xmodem_tx_send_packet was called: "put" or "eot"
          tries,
          reply

senderVars == <<pc, chunked, len, src, tdefl, out, tx, back, tries, reply>>

Packet(no, data) == [kind |-> "packet", no |-> no, data |-> data, intact |-> TRUE]
Byte(b) == [kind |-> b, no |-> 0, data |-> <<>>, intact |-> TRUE]
CanCan == <<Byte("CAN"), Byte("CAN")>>
Least(m, n) == IF m < n THEN m ELSE n

SenderInit ==
    /\ pc = "start" /\ chunked \in BOOLEAN /\ len \in Lengths
    /\ src = [remaining |-> len, left |-> 0]
    /\ tdefl = [made |-> 0, given |-> 0, finished |-> FALSE]
    /\ out = <<>>
    /\ tx = [use1k |-> TRUE, block |-> 1, data |-> <<>>]
    /\ back = "put" /\ tries = 0 /\ reply = <<>>

Leave(bytes) == pc' = "done" /\ reply' = bytes

Retry(limit, again) ==
    /\ tries' = tries + 1
    /\ \/ tries' < limit /\ pc' = again /\ reply' = <<>>
       \/ tries' = limit /\ Leave(CanCan)

-----------------------------------------------------------------------------
(* xmodem_tx_start: 'C', or NAK for small blocks with a sum.               *)
StartByte(b) ==
    /\ pc = "start"
    /\ \/ b \in {"C", "NAK"} /\ tx' = [tx EXCEPT !.use1k = (b = "C")]
          /\ tries' = 0 /\ pc' = "deflate" /\ reply' = <<>>
       \/ b = "CAN" /\ Leave(CanCan) /\ UNCHANGED <<tx, tries>>
       \/ b \notin {"C", "NAK", "CAN"} /\ Retry(StartTries, "start") /\ tx' = tx
    /\ UNCHANGED <<chunked, len, src, tdefl, out, back>>

-----------------------------------------------------------------------------
(* stub_miniz_deflate_raw.                                                 *)
Backlog == tdefl.made - tdefl.given

(* What a call gives out, of n units that wait.                            *)
Room(n) == IF chunked THEN Least(n, ChunkOut) ELSE n

Give(t) ==
    LET m == Room(t.made - t.given)
    IN  /\ tdefl' = [t EXCEPT !.given = @ + m]
        /\ out' = [i \in 1 .. m |-> t.given + i]
        /\ pc' = "put" /\ reply' = <<>>
        /\ UNCHANGED <<chunked, len, tx, back, tries>>

(* The next chunk of the flash; all of the memory where it is mapped.      *)
ReadChunk ==
    /\ pc = "deflate" /\ src.left = 0 /\ src.remaining > 0
    /\ LET n == IF chunked THEN Least(src.remaining, ChunkIn) ELSE src.remaining
       IN  src' = [remaining |-> src.remaining - n, left |-> n]
    /\ reply' = <<>>
    /\ UNCHANGED <<pc, chunked, len, tdefl, out, tx, back, tries>>

(* A call that still has output from the one before.                       *)
GiveBacklog ==
    /\ pc = "deflate" /\ src.left > 0 /\ Backlog > 0
    /\ Give(tdefl) /\ src' = src

(* A call stops in its input only at a block it cannot give out.           *)
Compress ==
    /\ pc = "deflate" /\ src.left > 0 /\ Backlog = 0
    /\ \E k \in 1 .. src.left, n \in Makes :
          /\ (k < src.left \/ src.remaining = 0) => Room(n) < n
          /\ src' = [src EXCEPT !.left = @ - k]
          /\ Give([tdefl EXCEPT !.made = @ + n])

(* TDEFL_FINISH with the last of the input ends the stream.                *)
CompressLast ==
    /\ pc = "deflate" /\ Backlog = 0 /\ src.remaining = 0
    /\ src.left > 0 \/ len = 0
    /\ ~tdefl.finished
    /\ \E n \in Makes \ {0} : Give([tdefl EXCEPT !.made = @ + n, !.finished = TRUE])
    /\ src' = [src EXCEPT !.left = 0]

(* fault: the stream is over when the input is. *)
InputDone == src.left = 0 /\ src.remaining = 0
StatusDone == tdefl.finished /\ Backlog = 0

(* put_buffer has returned.  Without input left the loop is over, whatever *)
(* the deflater still holds.                                               *)
NextCall ==
    /\ pc = "put" /\ out = <<>>
    /\ \/ StatusDone /\ pc' = "finish" /\ reply' = <<>>
       \/ ~StatusDone /\ src.left + src.remaining > 0 /\ pc' = "deflate" /\ reply' = <<>>
       \/ ~StatusDone /\ src.left + src.remaining = 0 /\ Leave(CanCan)
    /\ UNCHANGED <<chunked, len, src, tdefl, out, tx, back, tries>>

-----------------------------------------------------------------------------
(* xmodem_tx_put_buffer, xmodem_tx_send_packet, xmodem_tx_finish.          *)
BlockLen == IF tx.use1k THEN Large ELSE Small

PutChunk ==
    /\ pc = "put" /\ out # <<>>
    /\ LET n == Least(BlockLen - Len(tx.data), Len(out))
           d == tx.data \o SubSeq(out, 1, n)
       IN  /\ tx' = [tx EXCEPT !.data = d]
           /\ out' = SubSeq(out, n + 1, Len(out))
           /\ pc' = IF Len(d) = BlockLen THEN "send" ELSE "put"
    /\ back' = "put" /\ tries' = 0 /\ reply' = <<>>
    /\ UNCHANGED <<chunked, len, src, tdefl>>

Padded == [i \in 1 .. BlockLen |-> IF i <= Len(tx.data) THEN tx.data[i] ELSE 0]

SendPacket ==
    /\ pc = "send"
    /\ reply' = <<Packet(tx.block, Padded)>> /\ pc' = "answer"
    /\ UNCHANGED <<chunked, len, src, tdefl, out, tx, back, tries>>

(* fault: a counter that is not a byte. *)
BlockUncast == tx.block + 1
BlockAfter == (tx.block + 1) % BlockMod

AnswerByte(b) ==
    /\ pc = "answer"
    /\ \/ b = "ACK" /\ tx' = [tx EXCEPT !.block = BlockAfter, !.data = <<>>]
          /\ pc' = back /\ tries' = 0 /\ reply' = <<>>
       \/ b = "CAN" /\ Leave(CanCan) /\ UNCHANGED <<tx, tries>>
       \/ b \notin {"ACK", "CAN"} /\ Retry(MaxRetries, "send") /\ tx' = tx
    /\ UNCHANGED <<chunked, len, src, tdefl, out, back>>

Finish ==
    /\ pc = "finish"
    /\ pc' = IF tx.data = <<>> THEN "eot" ELSE "send"
    /\ back' = "eot" /\ tries' = 0 /\ reply' = <<>>
    /\ UNCHANGED <<chunked, len, src, tdefl, out, tx>>

SendEot ==
    /\ pc = "eot"
    /\ reply' = <<Byte("EOT")>> /\ pc' = "eotAnswer"
    /\ UNCHANGED <<chunked, len, src, tdefl, out, tx, back, tries>>

EotByte(b) ==
    /\ pc = "eotAnswer"
    /\ \/ b = "ACK" /\ Leave(<<>>) /\ tries' = tries
       \/ b # "ACK" /\ Retry(EotTries, "eot")
    /\ UNCHANGED <<chunked, len, src, tdefl, out, tx, back>>

(* uart_getc_timeout ran out.                                              *)
Timeout ==
    /\ \/ pc = "start" /\ Retry(StartTries, "start")
       \/ pc = "answer" /\ Retry(MaxRetries, "send")
       \/ pc = "eotAnswer" /\ Retry(EotTries, "eot")
    /\ UNCHANGED <<chunked, len, src, tdefl, out, tx, back>>

ReadByte(b) == StartByte(b) \/ AnswerByte(b) \/ EotByte(b)
Send == SendPacket \/ SendEot
Work == ReadChunk \/ GiveBacklog \/ Compress \/ CompressLast \/ NextCall \/ PutChunk \/ Finish
=============================================================================
