----------------------- MODULE MCXmodemWriteSession -----------------------
EXTENDS XmodemWriteSession

CONSTANTS x, y, pad, old

MCData == {x, y, pad, old}
MCFlashBefore == [u \in Addrs |-> old]

(* A file of 19 units: its second flash page is 0xFF, the rest alternates so*)
(* that no two neighbouring blocks are alike; then the host's padding.      *)
MCFile ==
    [u \in 0 .. 31 |->
        CASE u >= 19      -> pad
          [] u \in 4 .. 7 -> Blank
          [] u % 3 = 0    -> y
          [] OTHER        -> x]

(* 1024-byte blocks only, and 1024-byte blocks with a tail of short ones. *)
MCPlans == {<<"STX", "STX">>, <<"STX", "SOH", "SOH">>}

Cuts(n) == {[i \in 0 .. n - 1 |-> MCFile[s + i]] : s \in {0, 16, 18} \cap 0 .. 32 - n}
MCSmallPayloads == [no \in 0 .. BlockMod - 1 |-> Cuts(2)]
MCLargePayloads == [no \in 0 .. BlockMod - 1 |-> Cuts(16)]
=============================================================================
