------------------------- MODULE MCBandwidthMonitor -------------------------
EXTENDS BandwidthMonitor

(* A prompt answer, a late one, and one of a clock that is behind.         *)
MCAckDelays == {5, 1200, -40}
=============================================================================
