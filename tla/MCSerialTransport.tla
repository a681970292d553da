------------------------- MODULE MCSerialTransport -------------------------
(***************************************************************************)
(* Instances of the serial transport's output ring for TLC.                *)
(***************************************************************************)
EXTENDS SerialTransport
=============================================================================
