----------------------------- MODULE MCFraming -----------------------------
EXTENDS Framing

(* Bytes are bits, so that a length of up to 15 fills its four bytes; one  *)
(* payload looks like a length, one is empty.                              *)
MCPayloads == {<<>>, <<1, 0>>, <<0, 0, 0, 1>>}
MCDisconnect == <<0, 0, 0, 1>>
=============================================================================
