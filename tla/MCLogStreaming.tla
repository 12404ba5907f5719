--------------------------- MODULE MCLogStreaming ---------------------------
(* Two runs of logcat and short queues: a write blocks behind one entry that *)
(* is not read, and the queue overruns.                                      *)
EXTENDS LogStreaming
=============================================================================
