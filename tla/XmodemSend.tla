----------------------------- MODULE XmodemSend -----------------------------
(***************************************************************************)
(* xmodem_send_memory of src/flasher_stub.c: the XMODEM sender behind      *)
(* OBK_CMD_FLASH_XMODEM_UL and OBK_CMD_RAW_XMODEM_UL.  It waits for the    *)
(* receiver's 'C' or NAK, sends every block until it is acknowledged, then *)
(* EOT until that is acknowledged.                                         *)
(*                                                                         *)
(* One action is what the code does between two reads of the UART; sending *)
(* a packet is an action of its own.  XmodemReadSession supplies the bytes *)
(* it reads.                                                               *)
(***************************************************************************)
EXTENDS Integers, Sequences

CONSTANTS Memory,      \* what is to be sent, by unit of 64 bytes
          Length,      \* how many units the command asks for
          Pad,         \* a unit of 0xFF bytes
          BlockMod,    \* block numbers are bytes: 256 in the code
          StartTries,  \* how long 'C' or NAK is waited for: 100 in the code
          MaxRetries,  \* XMODEM_MAX_RETRIES: 30 in the code
          EotTries     \* how often EOT is sent: 10 in the code

ASSUME XmodemSendAssumption ==
    /\ Length \in Nat
    /\ DOMAIN Memory = 0 .. Length - 1
    /\ BlockMod \in Nat \ {0, 1}
    /\ {StartTries, MaxRetries, EotTries} \subseteq Nat \ {0}

VARIABLES pc,      \* "start", "send", "answer", "eot", "eotAnswer", "done"
          use1k,   \* 1024-byte blocks with a CRC, or 128-byte ones with a sum
          tries,   \* turns of the loop at hand: tries, or retry
          off,     \* units acknowledged
          block,   \* the block number
          reply    \* what the last step put on the UART

senderVars == <<pc, use1k, tries, off, block, reply>>

BlockUnits == IF use1k THEN 16 ELSE 2
Min(m, n) == IF m < n THEN m ELSE n
Chunk == Min(BlockUnits, Length - off)

Packet(no, data) == [kind |-> "packet", no |-> no, data |-> data, intact |-> TRUE]
Byte(b) == [kind |-> b, no |-> 0, data |-> <<>>, intact |-> TRUE]
CanCan == <<Byte("CAN"), Byte("CAN")>>

SenderInit ==
    /\ pc = "start"
    /\ use1k = TRUE
    /\ tries = 0
    /\ off = 0
    /\ block = 1
    /\ reply = <<>>

-----------------------------------------------------------------------------
Leave(bytes) ==
    /\ pc' = "done"
    /\ reply' = bytes

(* Where the loop over the blocks goes at offset o. *)
BlockLoopAt(o) == IF o < Length THEN "send" ELSE "eot"

(* One turn of a loop did not bring what was waited for. *)
Retry(limit, back) ==
    /\ tries' = tries + 1
    /\ \/ tries' < limit /\ pc' = back /\ reply' = <<>>
       \/ tries' = limit /\ Leave(CanCan)
    /\ UNCHANGED <<use1k, off, block>>

(* The receiver chooses the block size and the check with its first byte;  *)
(* bytes that mean nothing use up a try.                                   *)
StartByte(b) ==
    /\ pc = "start"
    /\ \/ /\ b \in {"C", "NAK"}
          /\ use1k' = (b = "C")
          /\ tries' = 0
          /\ pc' = BlockLoopAt(off)
          /\ reply' = <<>>
          /\ UNCHANGED <<off, block>>
       \/ b = "CAN" /\ Leave(<<>>) /\ UNCHANGED <<use1k, tries, off, block>>
       \/ b \notin {"C", "NAK", "CAN"} /\ Retry(StartTries, "start")

Unpadded == [i \in 0 .. BlockUnits - 1 |->                \* fault: no memset
                Memory[Min(off + i, Length - 1)]]
Payload == [i \in 0 .. BlockUnits - 1 |-> IF i < Chunk THEN Memory[off + i] ELSE Pad]

SendBlock ==
    /\ pc = "send"
    /\ reply' = <<Packet(block, Payload)>>
    /\ pc' = "answer"
    /\ UNCHANGED <<use1k, tries, off, block>>

BlockKept == block                                        \* fault
BlockUncast == block + 1                                  \* fault: int counter
BlockAfter == (block + 1) % BlockMod

AnyAnswer(b) == b # "CAN"                                 \* fault
Acknowledges(b) == b = "ACK"

(* The answer to a block: only ACK moves on, only CAN ends the transfer,   *)
(* any other byte makes the block be sent again at once.                   *)
AnswerByte(b) ==
    /\ pc = "answer"
    /\ \/ /\ Acknowledges(b)
          /\ off' = off + Chunk
          /\ block' = BlockAfter
          /\ tries' = 0
          /\ pc' = BlockLoopAt(off')
          /\ reply' = <<>>
          /\ UNCHANGED use1k
       \/ b = "CAN" /\ Leave(<<>>) /\ UNCHANGED <<use1k, tries, off, block>>
       \/ b # "CAN" /\ ~Acknowledges(b) /\ Retry(MaxRetries, "send")

SendEot ==
    /\ pc = "eot"
    /\ reply' = <<Byte("EOT")>>
    /\ pc' = "eotAnswer"
    /\ UNCHANGED <<use1k, tries, off, block>>

(* Here CAN is no more than a byte that is not ACK. *)
EotByte(b) ==
    /\ pc = "eotAnswer"
    /\ \/ b = "ACK" /\ Leave(<<>>) /\ UNCHANGED <<use1k, tries, off, block>>
       \/ b # "ACK" /\ Retry(EotTries, "eot")

(* Fault: a wait for an answer with uart_getc_inf. *)
NoTimeoutInAnswer == pc = "start" /\ Retry(StartTries, "start")

(* uart_getc_timeout ran out. *)
Timeout ==
    \/ pc = "start" /\ Retry(StartTries, "start")
    \/ pc = "answer" /\ Retry(MaxRetries, "send")
    \/ pc = "eotAnswer" /\ Retry(EotTries, "eot")

ReadByte(b) == StartByte(b) \/ AnswerByte(b) \/ EotByte(b)
Send == SendBlock \/ SendEot
=============================================================================
