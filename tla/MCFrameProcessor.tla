-------------------------- MODULE MCFrameProcessor --------------------------
EXTENDS FrameProcessor

(* Blank, full, or one pixel set.                                          *)
MCScreens ==
    {[o \in Offsets |-> IF o \in set THEN 1 ELSE 0] :
        set \in {{}, Offsets} \cup {{o} : o \in Offsets}}
=============================================================================
