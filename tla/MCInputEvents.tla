--------------------------- MODULE MCInputEvents ---------------------------
EXTENDS InputEvents

(* A step of the pointer is a pixel of the remote screen, and half a pixel *)
(* of the size assumed before the first frame or the other way round.      *)
MCGrid == <<4, 1>>
MCAssumed == <<3, 1>>
MCScreens == { <<4, 1>> }
=============================================================================
