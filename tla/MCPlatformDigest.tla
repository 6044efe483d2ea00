-------------------------- MODULE MCPlatformDigest --------------------------
EXTENDS PlatformDigest

(* Whole sectors and blocks, parts of them, ranges that start inside a     *)
(* sector or off a word, a long one among them, and an empty one.          *)
R(a, n) == [src |-> a, len |-> n]
MCEraseRanges == {R(0, 40), R(4, 8), R(8, 10), R(8, 24), R(1, 4), R(12, 32), R(8, 0)}
MCWriteRanges == {R(4, 4), R(8, 10), R(12, 3)}

(* Five chunks of the RDA5981; less than a chunk; chunks and a tail.       *)
MCReadRanges == {R(0, 40), R(16, 6), R(16, 20)}
=============================================================================
