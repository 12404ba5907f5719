------------------------- MODULE MCRingBufferCalls --------------------------
(* A buffer of 4 samples, used over two turns around it.                     *)
EXTENDS RingBufferCalls

MCSilence == <<0, 0>>
=============================================================================
