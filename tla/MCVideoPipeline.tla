-------------------------- MODULE MCVideoPipeline --------------------------
EXTENDS VideoPipeline

OddAndEven == {<<2, 2>>, <<3, 2>>}
Even == {<<2, 2>>}

(* Linux, and a desktop whose encoder can or cannot be made for the screen. *)
AnyProbe == {<<FALSE, FALSE>>, <<TRUE, TRUE>>, <<TRUE, FALSE>>}

(* A desktop: its encoder can or cannot be made for the screen.            *)
Desktop == {<<TRUE, TRUE>>, <<TRUE, FALSE>>}
=============================================================================
