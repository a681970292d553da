--------------------------- MODULE PacketService ----------------------------
(***************************************************************************)
(* What the server promises a client, without buffers, bursts or passes:   *)
(* on each port of a link session the packets are taken whole and in the   *)
(* order they were sent, each one once, and the response stream is the     *)
(* framed answers in that order.  Losing the link empties the session.     *)
(***************************************************************************)
EXTENDS Framing

CONSTANTS
    Ports,
    MaxPackets      \* bound: packets a client sends on a port per session

VARIABLES
    link,           \* is there a session
    packets,        \* packets the client sent in it
    consumed,       \* packets the server took
    produced,       \* bytes of the responses
    delivered       \* how many of them reached the client

vars == <<link, packets, consumed, produced, delivered>>

Init ==
    /\ link = FALSE
    /\ packets = [p \in Ports |-> <<>>]
    /\ consumed = [p \in Ports |-> <<>>]
    /\ produced = [p \in Ports |-> <<>>]
    /\ delivered = [p \in Ports |-> 0]

Send(p, packet) ==
    /\ link
    /\ Len(packets[p]) < MaxPackets
    /\ packets' = [packets EXCEPT ![p] = Append(@, packet)]
    /\ UNCHANGED <<link, consumed, produced, delivered>>

\* The oldest packet not yet taken.
Oldest(p) == packets[p][Len(consumed[p]) + 1]

\* No bytes answer an empty packet, or a plugin that has no response.
Answer(packet, response) ==
    IF packet = <<>> \/ response = <<>> THEN <<>> ELSE Frame(response)

Serve(p, response) ==
    /\ link
    /\ Len(consumed[p]) < Len(packets[p])
    /\ consumed' = [consumed EXCEPT ![p] = Append(@, Oldest(p))]
    /\ produced' = [produced EXCEPT ![p] = @ \o Answer(Oldest(p), response)]
    /\ UNCHANGED <<link, packets, delivered>>

Deliver(p) ==
    /\ link
    /\ delivered[p] < Len(produced[p])
    /\ delivered' = [delivered EXCEPT ![p] = @ + 1]
    /\ UNCHANGED <<link, packets, consumed, produced>>

Connect ==
    /\ ~link
    /\ link' = TRUE
    /\ UNCHANGED <<packets, consumed, produced, delivered>>

Disconnect ==
    /\ link
    /\ link' = FALSE
    /\ packets' = [p \in Ports |-> <<>>]
    /\ consumed' = [p \in Ports |-> <<>>]
    /\ produced' = [p \in Ports |-> <<>>]
    /\ delivered' = [p \in Ports |-> 0]

Next ==
    \/ \E p \in Ports : \E packet \in Packets : Send(p, packet)
    \/ \E p \in Ports : \E response \in Packets : Serve(p, response)
    \/ \E p \in Ports : Deliver(p)
    \/ Connect
    \/ Disconnect

Spec == Init /\ [][Next]_vars
=============================================================================
