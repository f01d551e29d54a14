---------------------------- MODULE MCTagMonitor ----------------------------
(* Two application goroutines and a dedicated event reader.               *)
EXTENDS TagMonitor

CONSTANTS g1, g2

MCCtls == {g1, g2}
=============================================================================
