----------------------------- MODULE ByteQueue ------------------------------
(***************************************************************************)
(* A bounded queue of bytes between libsquid and a device: what the serial *)
(* transport's output ring is for.  Bytes leave in the order they came.    *)
(***************************************************************************)
EXTENDS Integers, Sequences

CONSTANTS Byte, Capacity

VARIABLES
    queue,          \* accepted and not yet written
    output          \* written to the device

vars == <<queue, output>>

Init ==
    /\ queue = <<>>
    /\ output = <<>>

Enqueue(b) ==
    /\ Len(queue) < Capacity
    /\ queue' = Append(queue, b)
    /\ output' = output

Transmit(n) ==
    /\ output' = output \o SubSeq(queue, 1, n)
    /\ queue' = SubSeq(queue, n + 1, Len(queue))

Next ==
    \/ \E b \in Byte : Enqueue(b)
    \/ \E n \in 1..Len(queue) : Transmit(n)

Spec == Init /\ [][Next]_vars
=============================================================================
