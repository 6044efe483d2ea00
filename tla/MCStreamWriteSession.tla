----------------------- MODULE MCStreamWriteSession -----------------------
EXTENDS StreamWriteSession

CONSTANTS x, y, old, wrong

MCData == {x, y, old, wrong}

(* Ten units, two and a half pages, the second of them 0xFF.               *)
MCFile == [u \in 0 .. 9 |-> CASE u \in 4 .. 7 -> Blank
                              [] u % 3 = 0    -> y
                              [] OTHER        -> x]

(* From a sector boundary; from the last page of a sector, over old data   *)
(* and over a sector whose second half is blank.                           *)
Old == [u \in Addrs |-> old]
HalfBlank == [u \in Addrs |-> IF u \in 32 .. 63 THEN Blank ELSE old]
MCStarts == {[off |-> 64, before |-> Old], [off |-> 60, before |-> Old],
             [off |-> 60, before |-> HalfBlank]}

(* Streams of the right size with padding, without, one unit short and one *)
(* too long.                                                               *)
MCStreams ==
    {[yields |-> <<1, 0, 5, 4>>, blocks |-> <<"STX", "SOH", "STX">>],
     [yields |-> <<2, 8>>, blocks |-> <<"SOH", "SOH">>],
     [yields |-> <<1, 2, 3, 4>>, blocks |-> <<"SOH", "SOH", "SOH", "SOH">>],
     [yields |-> <<9>>, blocks |-> <<"STX">>],
     [yields |-> <<7, 4>>, blocks |-> <<"STX">>]}
=============================================================================
