---------------------------- MODULE MCReceiverIO ----------------------------
(* A receiver with a buffer of a few samples.                                *)
EXTENDS ReceiverIO

MCSilence == [id |-> 0, gain |-> 0]
=============================================================================
