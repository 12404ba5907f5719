----------------------------- MODULE MCSenderIO -----------------------------
(* A sender with a buffer of a few samples.                                  *)
EXTENDS SenderIO

MCSilence == [position |-> 0, gain |-> 2]
=============================================================================
