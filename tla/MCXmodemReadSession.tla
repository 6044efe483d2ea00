------------------------ MODULE MCXmodemReadSession ------------------------
EXTENDS XmodemReadSession

CONSTANTS x, y, z

(* Neighbouring blocks differ, for both block sizes, also where the numbers *)
(* wrap.                                                                    *)
MCMemory == [u \in 0 .. Length - 1 |->
               CASE u % 5 = 0 -> x [] u % 5 \in {1, 2} -> y [] OTHER -> z]
=============================================================================
