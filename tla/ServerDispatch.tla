--------------------------- MODULE ServerDispatch ---------------------------
(***************************************************************************)
(* The packet dispatch loop of squid-server (src/runtime/server_runtime.c) *)
(* on top of libsquid, which is external to the repository.                *)
(*                                                                         *)
(* The server is one thread.  It alternates bursts, in which libsquid      *)
(* moves bytes and may gain or lose the link, with a pass over the plugin  *)
(* ports.  A channel is a byte stream in each direction; the server puts   *)
(* packets back together from a one-byte length prefix, hands each one to  *)
(* the plugin of the port, and keeps a response that libsquid's full send  *)
(* queue refuses until a later pass.                                       *)
(*                                                                         *)
(* The streams of the current link session are kept whole: sent[p] is      *)
(* everything the client wrote, arrived[p] and taken[p] say how much of it *)
(* reached the server's receive queue and how much was read from there, so *)
(* the queue holds the bytes taken[p]+1 .. arrived[p] of sent[p].          *)
(***************************************************************************)
EXTENDS Framing

CONSTANTS
    MaxPort,        \* server_plugin_port_max; ports 1 .. MaxPort
    Registered,     \* ports with a plugin in the registry
    Handlers,       \* ports whose plugin has a handle_packet callback
    Readers,        \* ports whose clients go on reading responses
    QueueCapacity,  \* server_squid_queue_capacity
    Requests,       \* packets that clients send
    MaxPackets,     \* bound: packets a client sends on a port per session
    RelinkInPass    \* can the link be lost and regained between two checks

Ports == 1..MaxPort

ASSUME DispatchAssumption ==
    /\ MaxPort \in Nat \ {0}
    /\ Registered \subseteq Ports
    /\ Handlers \subseteq Registered
    /\ Readers \subseteq Ports
    /\ Requests \subseteq Packets
    /\ QueueCapacity \in Nat
    /\ QueueCapacity > PacketMax
    /\ MaxPackets \in Nat
    /\ RelinkInPass \in BOOLEAN

VARIABLES
    keep_running,   \* the flag cleared by a signal or a transport failure
    pc,             \* where the runtime is in its loop
    port,           \* the port dispatch_received_packets is at
    open,           \* ports whose squid_fds entry is a bound socket
    expected,       \* request_packet_expected
    request,        \* request_packets, as long as request_packet_sizes says
    pending,        \* pending_responses, as long as its size says
    link,           \* snet_link_is_up()
    sent,           \* bytes the client wrote in this session
    arrived,        \* how many of them reached the receive queue
    taken,          \* how many of them squid_recv() returned
    reply,          \* bytes squid_send() accepted in this session
    delivered,      \* how many of them left the send queue
    packets,        \* history: packets the client sent in this session
    starts,         \* history: offset in sent of each packet, and the end
    consumed,       \* history: packets the server took off the stream
    produced        \* history: framed responses of the plugins, as bytes

runtime == <<expected, request, pending>>
streams == <<sent, arrived, taken, reply, delivered, packets, starts,
             consumed, produced>>
vars == <<keep_running, pc, port, open, runtime, link, streams>>

None == [p \in Ports |-> <<>>]
Zero == [p \in Ports |-> 0]

TypeOK ==
    /\ keep_running \in BOOLEAN
    /\ pc \in {"open", "handshake", "burst1", "dispatch", "burst2", "exit"}
    /\ port \in Ports
    /\ open \subseteq Registered
    /\ expected \in [Ports -> Byte]
    /\ request \in [Ports -> Seq(Byte)]
    /\ pending \in [Ports -> Seq(Byte)]
    /\ link \in BOOLEAN
    /\ sent \in [Ports -> Seq(Byte)]
    /\ arrived \in [Ports -> Nat]
    /\ taken \in [Ports -> Nat]
    /\ reply \in [Ports -> Seq(Byte)]
    /\ delivered \in [Ports -> Nat]
    /\ packets \in [Ports -> Seq(Seq(Byte))]
    /\ starts \in [Ports -> Seq(Nat)]
    /\ consumed \in [Ports -> Seq(Seq(Byte))]
    /\ produced \in [Ports -> Seq(Byte)]

\* init_server_runtime; keep_running is statically 1.
Init ==
    /\ keep_running = TRUE
    /\ pc = "open"
    /\ port = 1
    /\ open = {}
    /\ expected = Zero
    /\ request = None
    /\ pending = None
    /\ link = FALSE
    /\ sent = None
    /\ arrived = Zero
    /\ taken = Zero
    /\ reply = None
    /\ delivered = Zero
    /\ packets = None
    /\ starts = [p \in Ports |-> <<0>>]
    /\ consumed = None
    /\ produced = None
-----------------------------------------------------------------------------
(***************************************************************************)
(* The client and libsquid.  Inside a burst, libsquid takes any number of  *)
(* the steps below; outside a burst the server's queues do not change      *)
(* except by squid_send and squid_recv.                                    *)
(***************************************************************************)
InBurst == pc \in {"handshake", "burst1", "burst2"}

\* The client writes one framed packet into the session's stream.
ClientSend(p, packet) ==
    /\ link
    /\ p \in open
    /\ Len(packets[p]) < MaxPackets
    /\ sent' = [sent EXCEPT ![p] = @ \o Frame(packet)]
    /\ packets' = [packets EXCEPT ![p] = Append(@, packet)]
    /\ starts' = [starts EXCEPT
                    ![p] = Append(@, Len(sent[p]) + 1 + Len(packet))]
    /\ UNCHANGED <<keep_running, pc, port, open, runtime, link, arrived,
                   taken, reply, delivered, consumed, produced>>

\* A byte enters the receive queue, which has room for QueueCapacity bytes.
Arrive(p) ==
    /\ InBurst
    /\ link
    /\ p \in open
    /\ arrived[p] < Len(sent[p])
    /\ arrived[p] - taken[p] < QueueCapacity
    /\ arrived' = [arrived EXCEPT ![p] = @ + 1]
    /\ UNCHANGED <<keep_running, pc, port, open, runtime, link, sent, taken,
                   reply, delivered, packets, starts, consumed, produced>>

\* A byte leaves the send queue: the client acknowledged it.
Depart(p) ==
    /\ InBurst
    /\ link
    /\ delivered[p] < Len(reply[p])
    /\ delivered' = [delivered EXCEPT ![p] = @ + 1]
    /\ UNCHANGED <<keep_running, pc, port, open, runtime, link, sent, arrived,
                   taken, reply, packets, starts, consumed, produced>>

\* The handshake completes.
LinkUp ==
    /\ InBurst
    /\ ~link
    /\ pc = "handshake" \/ RelinkInPass
    /\ link' = TRUE
    /\ UNCHANGED <<keep_running, pc, port, open, runtime, streams>>

\* The link is declared lost; libsquid drops what its queues held.
LinkDown ==
    /\ InBurst
    /\ link
    /\ link' = FALSE
    /\ sent' = None
    /\ arrived' = Zero
    /\ taken' = Zero
    /\ reply' = None
    /\ delivered' = Zero
    /\ packets' = None
    /\ starts' = [p \in Ports |-> <<0>>]
    /\ consumed' = None
    /\ produced' = None
    /\ UNCHANGED <<keep_running, pc, port, open, runtime>>

\* handle_termination_signal, at any time.
Signal ==
    /\ pc # "exit"
    /\ keep_running
    /\ keep_running' = FALSE
    /\ UNCHANGED <<pc, port, open, runtime, link, streams>>
-----------------------------------------------------------------------------
(***************************************************************************)
(* The runtime.                                                            *)
(***************************************************************************)

\* open_plugin_sockets: a registered port whose squid_open or squid_bind
\* fails stays without a socket.
OpenPluginSockets ==
    /\ pc = "open"
    /\ open' \in SUBSET Registered
    /\ pc' = IF keep_running THEN "handshake" ELSE "exit"
    /\ UNCHANGED <<keep_running, port, runtime, link, streams>>

\* The first snet_burst of an iteration returns and the pass begins.
BeginPass ==
    /\ pc = "burst1"
    /\ pc' = "dispatch"
    /\ port' = 1
    /\ UNCHANGED <<keep_running, open, runtime, link, streams>>

\* Mutants of NextPort: the loop runs one port too far; it ends at a refused
\* response.
NextPortOneTooFar ==
    /\ IF port > MaxPort
         THEN pc' = "burst2" /\ port' = 1
         ELSE pc' = "dispatch" /\ port' = port + 1
    /\ UNCHANGED <<keep_running, open, link>>

NextPortUnlessPending ==
    /\ IF port = MaxPort \/ pending'[port] # <<>>
         THEN pc' = "burst2" /\ port' = 1
         ELSE pc' = "dispatch" /\ port' = port + 1
    /\ UNCHANGED <<keep_running, open, link>>

\* The loop header of dispatch_received_packets.
NextPort ==
    /\ IF port = MaxPort
         THEN pc' = "burst2" /\ port' = 1
         ELSE pc' = "dispatch" /\ port' = port + 1
    /\ UNCHANGED <<keep_running, open, link>>

\* Does squid_send accept these bytes behind what it accepted before?  It
\* takes all of them or none.
Accepts(p, accepted, bytes) ==
    /\ link
    /\ Len(accepted) + Len(bytes) - delivered[p] =< QueueCapacity

\* No socket on the port.
SkipPort(p) ==
    /\ p \notin open
    /\ UNCHANGED <<runtime, streams>>

\* The pending response is still refused: the port is left alone.
HoldPort(p) ==
    /\ p \in open
    /\ pending[p] # <<>>
    /\ ~Accepts(p, reply[p], pending[p])
    /\ UNCHANGED <<runtime, streams>>

\* The pending response, if any, is accepted, and the port goes on.
Ready(p) ==
    /\ p \in open
    /\ pending[p] = <<>> \/ Accepts(p, reply[p], pending[p])

Flushed(p) == reply[p] \o pending[p]

Lesser(m, n) == IF m < n THEN m ELSE n

\* receive_plugin_packet, first half: is the length of the next packet known
\* or waiting in the queue?
LengthKnown(p) == expected[p] # 0 \/ taken[p] < arrived[p]
Wanted(p) == IF expected[p] = 0 THEN sent[p][taken[p] + 1] ELSE expected[p]

\* Mutant of PayloadFrom: the length byte is read again as payload.
PayloadFromHeader(p) == taken[p]

\* Second half: read what is there of the rest of the packet.
PayloadFrom(p) == IF expected[p] = 0 THEN taken[p] + 1 ELSE taken[p]
Received(p) == Lesser(Wanted(p) - Len(request[p]), arrived[p] - PayloadFrom(p))
Packet(p) ==
    request[p] \o SubSeq(sent[p], PayloadFrom(p) + 1,
                                  PayloadFrom(p) + Received(p))

\* No length byte yet.
ReceiveNothing(p) ==
    /\ Ready(p)
    /\ ~LengthKnown(p)
    /\ reply' = [reply EXCEPT ![p] = Flushed(p)]
    /\ pending' = [pending EXCEPT ![p] = <<>>]
    /\ UNCHANGED <<expected, request, sent, arrived, taken, delivered,
                   packets, starts, consumed, produced>>

\* A zero length byte is dropped with a warning.
RejectEmpty(p) ==
    /\ Ready(p)
    /\ LengthKnown(p)
    /\ Wanted(p) = 0
    /\ taken' = [taken EXCEPT ![p] = @ + 1]
    /\ consumed' = [consumed EXCEPT ![p] = Append(@, <<>>)]
    /\ reply' = [reply EXCEPT ![p] = Flushed(p)]
    /\ pending' = [pending EXCEPT ![p] = <<>>]
    /\ UNCHANGED <<expected, request, sent, arrived, delivered, packets,
                   starts, produced>>

\* The packet is not complete, or it is and no plugin callback takes it: the
\* partial or whole packet stays in the port's buffer.
KeepPacket(p) ==
    /\ Ready(p)
    /\ LengthKnown(p)
    /\ Wanted(p) # 0
    /\ Len(Packet(p)) < Wanted(p) \/ p \notin Handlers
    /\ expected' = [expected EXCEPT ![p] = Wanted(p)]
    /\ request' = [request EXCEPT ![p] = Packet(p)]
    /\ taken' = [taken EXCEPT ![p] = PayloadFrom(p) + Received(p)]
    /\ reply' = [reply EXCEPT ![p] = Flushed(p)]
    /\ pending' = [pending EXCEPT ![p] = <<>>]
    /\ UNCHANGED <<sent, arrived, delivered, packets, starts, consumed,
                   produced>>

\* Mutant of Respond: a refused response is not kept.
RespondOnce(p, response) ==
    LET framed == IF response = <<>> THEN <<>> ELSE Frame(response)
    IN  /\ reply' = [reply EXCEPT
                       ![p] = IF Accepts(p, Flushed(p), framed)
                                THEN Flushed(p) \o framed
                                ELSE Flushed(p)]
        /\ pending' = [pending EXCEPT ![p] = <<>>]
        /\ produced' = [produced EXCEPT ![p] = @ \o framed]

\* The framed response is queued at once or becomes the pending one.
Respond(p, response) ==
    LET framed == IF response = <<>> THEN <<>> ELSE Frame(response)
        queued == Accepts(p, Flushed(p), framed)
    IN  /\ reply' = [reply EXCEPT
                       ![p] = IF queued THEN Flushed(p) \o framed
                                        ELSE Flushed(p)]
        /\ pending' = [pending EXCEPT ![p] = IF queued THEN <<>> ELSE framed]
        /\ produced' = [produced EXCEPT ![p] = @ \o framed]

\* The plugin handles the whole packet.  The empty response stands for the
\* outcomes that send nothing: a non-zero result, no response bytes, or a
\* response outside the server's buffer, which is discarded.
HandlePacket(p, response) ==
    /\ Ready(p)
    /\ LengthKnown(p)
    /\ Wanted(p) # 0
    /\ Len(Packet(p)) = Wanted(p)
    /\ p \in Handlers
    /\ Respond(p, response)
    /\ consumed' = [consumed EXCEPT ![p] = Append(@, Packet(p))]
    /\ taken' = [taken EXCEPT ![p] = PayloadFrom(p) + Received(p)]
    /\ expected' = [expected EXCEPT ![p] = 0]
    /\ request' = [request EXCEPT ![p] = <<>>]
    /\ UNCHANGED <<sent, arrived, delivered, packets, starts>>

\* One iteration of the loop in dispatch_received_packets.
DispatchPort ==
    /\ pc = "dispatch"
    /\ \/ SkipPort(port)
       \/ HoldPort(port)
       \/ ReceiveNothing(port)
       \/ RejectEmpty(port)
       \/ KeepPacket(port)
       \/ \E response \in Packets : HandlePacket(port, response)
    /\ NextPort

\* wait_for_transport: a failed wait ends the server.
Wait ==
    \/ keep_running' = keep_running
    \/ keep_running' = FALSE

\* Mutant of AwaitLink: the handshake loop does not look at keep_running.
AwaitLinkOnly ==
    /\ pc = "handshake"
    /\ Wait
    /\ pc' = IF link THEN "burst1" ELSE "handshake"
    /\ UNCHANGED <<port, open, runtime, link, streams>>

\* The handshake loop of run_dispatch_loop: burst, wait, check.
AwaitLink ==
    /\ pc = "handshake"
    /\ Wait
    /\ pc' = CASE ~keep_running' -> "exit"
               [] keep_running' /\ link -> "burst1"
               [] keep_running' /\ ~link -> "handshake"
    /\ UNCHANGED <<port, open, runtime, link, streams>>

\* The end of an iteration with the link still up.
EndPass ==
    /\ pc = "burst2"
    /\ link
    /\ Wait
    /\ pc' = IF keep_running' THEN "burst1" ELSE "exit"
    /\ UNCHANGED <<port, open, runtime, link, streams>>

\* Mutants of LoseLink: a partial request, or a pending response, survives
\* into the next session.
LoseLinkKeepingRequests ==
    /\ pc = "burst2"
    /\ ~link
    /\ Wait
    /\ pending' = None
    /\ pc' = IF keep_running' THEN "handshake" ELSE "exit"
    /\ UNCHANGED <<port, open, expected, request, link, streams>>

LoseLinkKeepingResponses ==
    /\ pc = "burst2"
    /\ ~link
    /\ Wait
    /\ expected' = Zero
    /\ request' = None
    /\ pc' = IF keep_running' THEN "handshake" ELSE "exit"
    /\ UNCHANGED <<port, open, pending, link, streams>>

\* The end of an iteration that lost the link: the packet state is cleared.
LoseLink ==
    /\ pc = "burst2"
    /\ ~link
    /\ Wait
    /\ expected' = Zero
    /\ request' = None
    /\ pending' = None
    /\ pc' = IF keep_running' THEN "handshake" ELSE "exit"
    /\ UNCHANGED <<port, open, link, streams>>

\* run_dispatch_loop has returned.
Stopped ==
    /\ pc = "exit"
    /\ UNCHANGED vars

Server ==
    \/ OpenPluginSockets
    \/ BeginPass
    \/ DispatchPort
    \/ AwaitLink
    \/ EndPass
    \/ LoseLink

Environment ==
    \/ \E p \in Ports : \E packet \in Requests : ClientSend(p, packet)
    \/ \E p \in Ports : Arrive(p) \/ Depart(p)
    \/ LinkUp
    \/ LinkDown
    \/ Signal

Next == Server \/ Environment \/ Stopped

Spec == Init /\ [][Next]_vars
-----------------------------------------------------------------------------
IsPrefixOf(s, t) ==
    /\ Len(s) =< Len(t)
    /\ \A i \in 1..Len(s) : s[i] = t[i]

\* Whatever the burst boundaries at which bytes arrive, the packets
\* receive_plugin_packet takes off a channel are the packets the client sent
\* on it in this session: each one whole, none skipped, repeated or merged,
\* in order.
RequestsIntact == \A p \in Ports : IsPrefixOf(consumed[p], packets[p])

\* The response stream of a session is exactly what the plugins answered in
\* it, in order: backpressure neither loses a response, nor sends one twice,
\* nor lets a later one overtake the pending one, and a response that was
\* pending when the link was lost never reaches the next session.
ResponsesIntact ==
    link => \A p \in Ports : produced[p] = reply[p] \o pending[p]

\* The server, with its buffers, bursts, passes and backpressure, gives a
\* client what PacketService promises.
Service == INSTANCE PacketService
ImplementsService == Service!Spec

\* The inductive invariant behind these.
StreamsInBounds(p) ==
    /\ taken[p] =< arrived[p]
    /\ arrived[p] =< Len(sent[p])
    /\ delivered[p] =< Len(reply[p])

\* A stream is the concatenation of frames: packet i starts at offset
\* offsets[i], and the last offset is the end of the stream.
IsFrames(stream, frames, offsets) ==
    /\ Len(offsets) = Len(frames) + 1
    /\ offsets[1] = 0
    /\ offsets[Len(frames) + 1] = Len(stream)
    /\ \A i \in 1..Len(frames) :
         /\ frames[i] \in Packets
         /\ offsets[i] + 1 + Len(frames[i]) = offsets[i + 1]
         /\ offsets[i + 1] =< Len(stream)
         /\ stream[offsets[i] + 1] = Len(frames[i])
         /\ \A j \in 1..Len(frames[i]) :
              stream[offsets[i] + 1 + j] = frames[i][j]

StreamIsFrames(p) == IsFrames(sent[p], packets[p], starts[p])

\* The reader stands at a packet boundary, or inside the packet it expects.
Reading(p) == Len(consumed[p]) + 1

AtBoundary(p) ==
    /\ expected[p] = 0
    /\ request[p] = <<>>
    /\ taken[p] = starts[p][Reading(p)]

InsidePacket(p) ==
    /\ expected[p] # 0
    /\ Reading(p) =< Len(packets[p])
    /\ expected[p] = Len(packets[p][Reading(p)])
    /\ taken[p] = starts[p][Reading(p)] + 1 + Len(request[p])
    /\ IsPrefixOf(request[p], packets[p][Reading(p)])
    /\ p \in Handlers => Len(request[p]) < expected[p]

\* Without a link the session is empty and a buffered packet stays partial,
\* unless no callback takes it; in the handshake loop nothing is left over.
Unlinked(p) ==
    /\ sent[p] = <<>>
    /\ consumed[p] = <<>>
    /\ reply[p] = <<>>
    /\ produced[p] = <<>>
    /\ expected[p] = 0 => request[p] = <<>>
    /\ expected[p] # 0 =>
         /\ Len(request[p]) =< expected[p]
         /\ p \in Handlers => Len(request[p]) < expected[p]

Clear(p) ==
    /\ expected[p] = 0
    /\ request[p] = <<>>
    /\ pending[p] = <<>>

PortInv(p) ==
    /\ StreamsInBounds(p)
    /\ StreamIsFrames(p)
    /\ IsPrefixOf(consumed[p], packets[p])
    /\ link => produced[p] = reply[p] \o pending[p]
    /\ IF link THEN AtBoundary(p) \/ InsidePacket(p) ELSE Unlinked(p)
    /\ pc \in {"open", "handshake"} => Clear(p)

DispatchInv ==
    /\ \A p \in Ports : PortInv(p)
    /\ pc = "open" => ~link
-----------------------------------------------------------------------------
(***************************************************************************)
(* Liveness.  The server thread keeps running and plugin callbacks return. *)
(* libsquid retransmits until a byte is through or the link is lost, so a  *)
(* byte that could move in infinitely many bursts moves in one of them,    *)
(* if at the other end somebody reads it.                                  *)
(***************************************************************************)
FairSpec ==
    /\ Spec
    /\ WF_vars(Server)
    /\ \A p \in Ports : SF_vars(Arrive(p))
    /\ \A p \in Readers : SF_vars(Depart(p))

Over == ~link \/ pc = "exit"

\* Every packet a client sends to a port with a socket and a callback, and
\* whose responses it reads, is taken by the server, unless the session or
\* the server ends first.  Ports do not hold each other up: a client that
\* never reads, or a packet that no callback takes, stops its own port only.
EveryPacketServed ==
    \A p \in Handlers \cap Readers :
      (p \in open /\ consumed[p] # packets[p])
        ~> (consumed[p] = packets[p] \/ Over)

\* A termination signal or a failed transport ends the dispatch loop.
ShutsDown == ~keep_running ~> (pc = "exit")
=============================================================================
