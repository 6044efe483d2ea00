-------------------------- MODULE MCFrameDownload --------------------------
EXTENDS FrameDownload

CONSTANTS a, b, c

MCData == {a, b, c}

(* Ten units, two and a half flash pages, no period of a page or a frame. *)
MCFile ==
    [i \in 0 .. 9 |-> CASE i \in {0, 4, 5, 9} -> a
                        [] i \in {1, 6, 7}    -> b
                        [] OTHER              -> c]
=============================================================================
