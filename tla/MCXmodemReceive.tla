--------------------------- MODULE MCXmodemReceive ---------------------------
EXTENDS XmodemReceive

CONSTANTS x, y, old

(* Odd small blocks are real data or nothing but 0xFF, even ones begin with *)
(* 0xFF bytes.                                                              *)
Small(a, b) == [i \in 0 .. 1 |-> IF i = 0 THEN a ELSE b]
MCSmallPayloads ==
    [no \in 0 .. BlockMod - 1 |->
        IF no % 2 = 1 THEN {Small(y, x), Small(Blank, Blank)} ELSE {Small(Blank, x)}]

(* Large payloads have pages that differ and a second page that is all 0xFF. *)
MCLargePayloads ==
    [no \in 0 .. BlockMod - 1 |->
        {[i \in 0 .. 15 |-> CASE i \in 4 .. 7 -> Blank
                              [] i \in {0, 5, 9, 14} -> y
                              [] OTHER -> x]}]

MCData == {x, y, old}

(* Before the transfer the chip is full of old data. *)
MCFlashBefore == [u \in Addrs |-> old]
=============================================================================
