------------------------- MODULE MCServerDispatch -------------------------
(***************************************************************************)
(* An instance of the dispatch loop for TLC.                               *)
(***************************************************************************)
EXTENDS ServerDispatch

\* A malformed packet, and one whose payload can pass for a length.
Few == {<<>>, <<2>>}
=============================================================================
