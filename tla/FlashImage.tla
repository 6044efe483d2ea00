----------------------------- MODULE FlashImage -----------------------------
(***************************************************************************)
(* What an XMODEM write promises its caller, with no protocol and no pages:*)
(* an image that only grows at its end, never changes where it has been    *)
(* written, reads back as real data, and is reported as written only when  *)
(* it is complete.                                                         *)
(***************************************************************************)
EXTENDS Integers

CONSTANTS Length,        \* the length the command announced
          Readable    \* the contents a unit of an image may have

VARIABLES image,      \* what has been committed so far, indexed from 0
          outcome     \* "busy", "ok" or "fail"

imageVars == <<image, outcome>>

Images(n) == [0 .. n - 1 -> Readable]

Init == image \in Images(0) /\ outcome = "busy"

(* One block is committed: the image gets longer, its old part is kept. *)
Extend ==
    /\ outcome = "busy"
    /\ outcome' = outcome
    /\ \E m, n \in 0 .. Length :
        /\ m < n
        /\ image \in Images(m)
        /\ image' \in Images(n)
        /\ \A i \in 0 .. m - 1 : image'[i] = image[i]

(* Success is reported, and the image has the announced length. *)
Succeed ==
    /\ outcome = "busy"
    /\ outcome' = "ok"
    /\ image \in Images(Length)
    /\ image' = image

(* The write is given up; what was committed stays. *)
Fail ==
    /\ outcome = "busy"
    /\ outcome' = "fail"
    /\ image' = image

Next == Extend \/ Succeed \/ Fail

Spec == Init /\ [][Next]_imageVars
=============================================================================
