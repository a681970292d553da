------------------------- MODULE MCClientExchange --------------------------
(***************************************************************************)
(* Instances of the client transaction for TLC.                            *)
(***************************************************************************)
EXTENDS ClientExchange

\* A plugin that may stay silent, fill the workspace or exceed it.
AnyResponse == {<<>>, <<0>>, <<1>>, <<1, 0>>, <<0, 1, 1>>}

\* A plugin that always answers.
SomeResponse == {<<1>>, <<1, 0, 1>>}
=============================================================================
