------------------------------ MODULE Framing -------------------------------
(***************************************************************************)
(* Packets and their form on a libsquid channel, which is a byte stream:   *)
(* a packet travels as its length, one byte, followed by its bytes.        *)
(***************************************************************************)
EXTENDS Integers, Sequences

CONSTANTS
    PacketMax,      \* server_packet_max, and the largest byte value
    Payload         \* byte values that occur in packets

Byte == 0..PacketMax

ASSUME FramingAssumption ==
    /\ PacketMax \in Nat \ {0}
    /\ Payload \subseteq Byte

\* Packet contents, the malformed empty one included.
Packets == UNION {[1..n -> Payload] : n \in 0..PacketMax}

Frame(packet) == <<Len(packet)>> \o packet
=============================================================================
