-------------------------- MODULE SerialTransport ---------------------------
(***************************************************************************)
(* The output side of the serial transport                                 *)
(* (src/transport/serial/serial_transport.c): send_char puts a byte into a *)
(* userspace ring, serial_transport_wait polls the device and flushes the  *)
(* ring in as many writes as the device takes.                             *)
(***************************************************************************)
EXTENDS Integers, Sequences

CONSTANTS
    Capacity,       \* serial_transport_tx_capacity
    Byte,
    MaxBytes        \* bound: bytes accepted in a run

ASSUME SerialAssumption ==
    /\ Capacity \in Nat \ {0}
    /\ MaxBytes \in Nat

VARIABLES
    pc,             \* "burst", "flush", "failed", "closed"
    tx_queue,
    tx_head,
    tx_count,
    revents,        \* error bits poll() returned along with POLLOUT
    accepted,       \* history: bytes send_char accepted
    output          \* history: bytes write() took

ring == <<tx_queue, tx_head, tx_count>>
vars == <<pc, ring, revents, accepted, output>>

Slots == 0..(Capacity - 1)

TypeOK ==
    /\ pc \in {"burst", "flush", "failed", "closed"}
    /\ tx_queue \in [Slots -> Byte]
    /\ tx_head \in Slots
    /\ tx_count \in 0..Capacity
    /\ revents \in BOOLEAN
    /\ accepted \in Seq(Byte)
    /\ output \in Seq(Byte)

\* serial_transport_open and serial_transport_activate; the fields are
\* zeroed, the content of the ring does not matter.
Init ==
    /\ pc = "burst"
    /\ tx_queue \in [Slots -> Byte]
    /\ tx_head = 0
    /\ tx_count = 0
    /\ revents = FALSE
    /\ accepted = <<>>
    /\ output = <<>>
-----------------------------------------------------------------------------
\* Mutant: the tail is computed without the head.
SendCharAtCount(b) ==
    /\ pc = "burst"
    /\ tx_count < Capacity
    /\ Len(accepted) < MaxBytes
    /\ tx_queue' = [tx_queue EXCEPT ![tx_count] = b]
    /\ tx_count' = tx_count + 1
    /\ accepted' = Append(accepted, b)
    /\ UNCHANGED <<pc, tx_head, revents, output>>

\* serial_send_char.
SendChar(b) ==
    /\ pc = "burst"
    /\ tx_count < Capacity
    /\ Len(accepted) < MaxBytes
    /\ tx_queue' = [tx_queue EXCEPT ![(tx_head + tx_count) % Capacity] = b]
    /\ tx_count' = tx_count + 1
    /\ accepted' = Append(accepted, b)
    /\ UNCHANGED <<pc, tx_head, revents, output>>

RefuseChar ==
    /\ pc = "burst"
    /\ tx_count >= Capacity
    /\ UNCHANGED vars

\* serial_transport_wait, called after a burst, up to the flush.  POLLOUT is
\* only asked for when bytes are queued; a poll interrupted by a signal is
\* tried again.  First, a timeout or input alone.
PollIdle ==
    /\ pc = "burst"
    /\ UNCHANGED vars

\* Mutant: POLLOUT is asked for only when the ring is full.
PollWritableIfFull ==
    /\ pc = "burst"
    /\ tx_count = Capacity
    /\ pc' = "flush"
    /\ revents' \in BOOLEAN
    /\ UNCHANGED <<ring, accepted, output>>

PollWritable ==
    /\ pc = "burst"
    /\ tx_count # 0
    /\ pc' = "flush"
    /\ revents' \in BOOLEAN
    /\ UNCHANGED <<ring, accepted, output>>

\* poll fails, or reports an error and no POLLOUT.
PollFails ==
    /\ pc = "burst"
    /\ pc' = "failed"
    /\ UNCHANGED <<ring, revents, accepted, output>>

\* flush_output: one write, of at most the contiguous part of the ring.
Contiguous ==
    IF Capacity - tx_head > tx_count THEN tx_count ELSE Capacity - tx_head

\* Mutant: the head does not wrap around.
WriteUnwrapped(n) ==
    /\ pc = "flush"
    /\ tx_count # 0
    /\ output' = output \o [i \in 1..n |-> tx_queue[tx_head + i - 1]]
    /\ tx_head' = tx_head + n
    /\ tx_count' = tx_count - n
    /\ UNCHANGED <<pc, tx_queue, revents, accepted>>

Write(n) ==
    /\ pc = "flush"
    /\ tx_count # 0
    /\ output' = output \o [i \in 1..n |-> tx_queue[tx_head + i - 1]]
    /\ tx_head' = (tx_head + n) % Capacity
    /\ tx_count' = tx_count - n
    /\ UNCHANGED <<pc, tx_queue, revents, accepted>>

\* A write interrupted by a signal is tried again.
WriteInterrupted ==
    /\ pc = "flush"
    /\ tx_count # 0
    /\ UNCHANGED vars

\* What wait returns after a flush that did not fail.
AfterFlush == pc' = IF revents THEN "failed" ELSE "burst"

\* Mutant: EAGAIN leaves the loop instead of the function, and the head is
\* reset with bytes still queued.
WriteBlockedRewinding ==
    /\ pc = "flush"
    /\ tx_count # 0
    /\ tx_head' = 0
    /\ AfterFlush
    /\ UNCHANGED <<tx_queue, tx_count, revents, accepted, output>>

\* The device takes no more: EAGAIN.
WriteBlocked ==
    /\ pc = "flush"
    /\ tx_count # 0
    /\ AfterFlush
    /\ UNCHANGED <<ring, revents, accepted, output>>

WriteFails ==
    /\ pc = "flush"
    /\ tx_count # 0
    /\ pc' = "failed"
    /\ UNCHANGED <<ring, revents, accepted, output>>

\* The ring is empty and starts again at its first slot.
Flushed ==
    /\ pc = "flush"
    /\ tx_count = 0
    /\ tx_head' = 0
    /\ AfterFlush
    /\ UNCHANGED <<tx_queue, tx_count, revents, accepted, output>>

\* serial_transport_close, after a failed wait or on shutdown; queued bytes
\* are not written any more.
Close ==
    /\ pc \in {"burst", "failed"}
    /\ pc' = "closed"
    /\ UNCHANGED <<ring, revents, accepted, output>>

Closed ==
    /\ pc = "closed"
    /\ UNCHANGED vars

Next ==
    \/ \E b \in Byte : SendChar(b)
    \/ RefuseChar
    \/ PollIdle
    \/ PollWritable
    \/ PollFails
    \/ \E n \in 1..Contiguous : Write(n)
    \/ WriteInterrupted
    \/ WriteBlocked
    \/ WriteFails
    \/ Flushed
    \/ Close
    \/ Closed

Spec == Init /\ [][Next]_vars
-----------------------------------------------------------------------------
\* The bytes in the ring, oldest first.
Queued == [i \in 1..tx_count |-> tx_queue[(tx_head + i - 1) % Capacity]]

\* The ring is a queue: wrap-around, partial writes, the reset of the head
\* when it runs empty and a full ring neither lose, repeat nor reorder bytes.
Queue == INSTANCE ByteQueue WITH queue <- Queued
ImplementsQueue == Queue!Spec

\* Every byte send_char accepted was written or is in the ring, in order.
NothingLost == accepted = output \o Queued

(***************************************************************************)
(* Liveness: the runtime goes on calling serial_transport_wait, and a      *)
(* device whose other end reads is writable again and again.               *)
(***************************************************************************)
FairSpec ==
    /\ Spec
    /\ WF_vars(Flushed \/ WriteBlocked)
    /\ SF_vars(PollWritable)
    /\ SF_vars(\E n \in 1..Contiguous : Write(n))

\* While the transport works, every accepted byte is written.
BytesWritten ==
    \A n \in 1..MaxBytes :
      Len(accepted) >= n ~> (Len(output) >= n \/ pc \in {"failed", "closed"})
=============================================================================
