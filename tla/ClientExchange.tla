--------------------------- MODULE ClientExchange ---------------------------
(***************************************************************************)
(* The synchronous transaction of the client library                       *)
(* (lib/client/portable/client.c) on one channel of the packet service.    *)
(*                                                                         *)
(* squid_client_exchange writes a framed request, then reads a length byte *)
(* and that many bytes, calling the idle callback while nothing has come.  *)
(* A polling program runs libsquid's bursts in that callback, so delivery  *)
(* and link changes happen there or between exchanges; in an interrupt-    *)
(* driven program they happen between any two statements.                  *)
(***************************************************************************)
EXTENDS PacketService

CONSTANTS
    Channel,        \* the port the client's socket is connected to
    Capacity,       \* client->packet_capacity
    Responses,      \* what the plugin may answer; <<>> is no response
    Interrupts,     \* are bursts driven by interrupts
    Cancels,        \* may the idle callback cancel
    MaxSessions     \* bound: link sessions; below the 256 epochs of a byte

ASSUME ClientAssumption ==
    /\ Channel \in Ports
    /\ Capacity \in 1..PacketMax
    /\ Responses \subseteq Packets
    /\ Interrupts \in BOOLEAN
    /\ Cancels \in BOOLEAN
    /\ MaxSessions \in Nat

VARIABLES
    session,        \* snet_link_epoch(): counts handshakes
    read,           \* bytes squid_recv() returned in this session
    at,             \* where squid_client_exchange is
    waiting,        \* is it in the idle callback
    request,        \* the request it was called with
    epoch,          \* the epoch it read
    packet,         \* what it has read of the length or the response
    remaining,      \* bytes of the response not yet read, part included
    outcome,        \* what the last call returned
    mine,           \* history: <<session, index>> of the request sent
    abandoned,      \* history: was a request of this session given up
    answers         \* history: the plugin's response to each request taken

client == <<at, waiting, request, epoch, packet, remaining, outcome, mine,
            abandoned>>
allvars == <<vars, session, read, client, answers>>

Errors == {"argument", "link", "io", "protocol", "overflow", "cancelled"}

TypeOK ==
    /\ link \in BOOLEAN
    /\ session \in 0..MaxSessions
    /\ read \in 0..delivered[Channel]
    /\ at \in {"idle", "send", "length", "payload", "drain"}
    /\ waiting \in BOOLEAN
    /\ request \in Packets
    /\ epoch \in 0..session
    /\ packet \in Seq(Byte) /\ Len(packet) =< Capacity
    /\ remaining \in 0..PacketMax
    /\ outcome \in Errors \cup {"none", "ok"}
    /\ abandoned \in BOOLEAN
    /\ Len(answers) = Len(consumed[Channel])

ClientInit ==
    /\ Init
    /\ session = 0
    /\ read = 0
    /\ at = "idle"
    /\ waiting = FALSE
    /\ request = <<>>
    /\ epoch = 0
    /\ packet = <<>>
    /\ remaining = 0
    /\ outcome = "none"
    /\ mine = <<0, 0>>
    /\ abandoned = FALSE
    /\ answers = <<>>
-----------------------------------------------------------------------------
(***************************************************************************)
(* The server takes requests at any time.  What the client sees of the     *)
(* link changes in its own bursts.                                         *)
(***************************************************************************)
InBurst == Interrupts \/ waiting \/ at = "idle"

ServerAnswers ==
    \E response \in Responses :
      /\ Serve(Channel, response)
      /\ answers' = Append(answers, response)
      /\ UNCHANGED <<session, read, client>>

BytesArrive ==
    /\ InBurst
    /\ Deliver(Channel)
    /\ UNCHANGED <<session, read, client, answers>>

LinkUp ==
    /\ InBurst
    /\ session < MaxSessions
    /\ Connect
    /\ session' = session + 1
    /\ UNCHANGED <<read, client, answers>>

LinkDown ==
    /\ InBurst
    /\ Disconnect
    /\ read' = 0
    /\ answers' = <<>>
    /\ abandoned' = FALSE
    /\ UNCHANGED <<session, at, waiting, request, epoch, packet, remaining,
                   outcome, mine>>
-----------------------------------------------------------------------------
(***************************************************************************)
(* squid_client_exchange.                                                  *)
(***************************************************************************)
Return(result) ==
    /\ at' = "idle"
    /\ waiting' = FALSE
    /\ outcome' = result

\* A call gives up the request it sent, if the session is still the same.
GiveUp(result) ==
    /\ Return(result)
    /\ abandoned' = (abandoned \/ (link /\ mine[1] = session))

\* Entry: the argument checks, the link check and the epoch.
Begin(bytes) ==
    /\ at = "idle"
    /\ Len(packets[Channel]) < MaxPackets
    /\ request' = bytes
    /\ IF Len(bytes) = 0 \/ Len(bytes) > Capacity
         THEN Return("argument") /\ epoch' = epoch
         ELSE IF ~link
         THEN Return("link") /\ epoch' = epoch
         ELSE /\ at' = "send"
              /\ epoch' = session
              /\ UNCHANGED <<waiting, outcome>>
    /\ UNCHANGED <<vars, session, read, packet, remaining, mine, abandoned,
                   answers>>

\* squid_send takes the whole frame, or nothing.
SendRequest ==
    /\ at = "send"
    /\ Send(Channel, request)
    /\ mine' = <<session, Len(packets[Channel]) + 1>>
    /\ at' = "length"
    /\ packet' = <<>>
    /\ remaining' = 1
    /\ UNCHANGED <<session, read, waiting, request, epoch, outcome,
                   abandoned, answers>>

SendRefused ==
    /\ at = "send"
    /\ Return("io")
    /\ UNCHANGED <<vars, session, read, request, epoch, packet, remaining,
                   mine, abandoned, answers>>

\* One squid_recv of receive_bytes, for what is missing of the part it reads.
Lesser(m, n) == IF m < n THEN m ELSE n

\* Mutant of Part: the workspace does not limit what is read at once.
PartUnlimited == remaining

Part == Lesser(remaining, Capacity)
Count == Lesser(Part - Len(packet), delivered[Channel] - read)
Bytes == packet \o SubSeq(produced[Channel], read + 1, read + Count)

Receiving == at \in {"length", "payload", "drain"} /\ ~waiting

\* The part is not complete: to the idle callback.
ReceivePart ==
    /\ Receiving
    /\ Len(Bytes) < Part
    /\ read' = read + Count
    /\ packet' = Bytes
    /\ waiting' = TRUE
    /\ UNCHANGED <<vars, session, at, request, epoch, remaining, outcome,
                   mine, abandoned, answers>>

\* Mutant of ReceiveLength: a response longer than the workspace is read
\* into it.
ReceiveLengthUnchecked ==
    /\ Receiving
    /\ at = "length"
    /\ Len(Bytes) = Part
    /\ read' = read + Count
    /\ packet' = <<>>
    /\ remaining' = Bytes[1]
    /\ IF Bytes[1] = 0 THEN Return("protocol")
                       ELSE at' = "payload" /\ UNCHANGED <<waiting, outcome>>
    /\ UNCHANGED <<vars, session, request, epoch, mine, abandoned, answers>>

\* The length byte decides what follows.
ReceiveLength ==
    /\ Receiving
    /\ at = "length"
    /\ Len(Bytes) = Part
    /\ read' = read + Count
    /\ packet' = <<>>
    /\ remaining' = Bytes[1]
    /\ CASE Bytes[1] = 0 -> Return("protocol")
         [] Bytes[1] > Capacity -> at' = "drain" /\ UNCHANGED <<waiting, outcome>>
         [] OTHER -> at' = "payload" /\ UNCHANGED <<waiting, outcome>>
    /\ UNCHANGED <<vars, session, request, epoch, mine, abandoned, answers>>

ReceivePayload ==
    /\ Receiving
    /\ at = "payload"
    /\ Len(Bytes) = Part
    /\ read' = read + Count
    /\ packet' = Bytes
    /\ remaining' = 0
    /\ Return("ok")
    /\ UNCHANGED <<vars, session, request, epoch, mine, abandoned, answers>>

\* Mutant of Drain: only the first part is read away.
DrainOnePart ==
    /\ Receiving
    /\ at = "drain"
    /\ Len(Bytes) = Part
    /\ read' = read + Count
    /\ packet' = <<>>
    /\ remaining' = remaining - Part
    /\ Return("overflow")
    /\ UNCHANGED <<vars, session, request, epoch, mine, abandoned, answers>>

\* A response that does not fit is read away part by part.
Drain ==
    /\ Receiving
    /\ at = "drain"
    /\ Len(Bytes) = Part
    /\ read' = read + Count
    /\ packet' = <<>>
    /\ remaining' = remaining - Part
    /\ IF remaining = Part THEN Return("overflow")
                           ELSE UNCHANGED <<at, waiting, outcome>>
    /\ UNCHANGED <<vars, session, request, epoch, mine, abandoned, answers>>

\* squid_recv fails; it does so only when the link is gone.
ReceiveFails ==
    /\ Receiving
    /\ ~link
    /\ GiveUp("io")
    /\ UNCHANGED <<vars, session, read, request, epoch, packet, remaining,
                   mine, answers>>

\* Mutant of SameLink: the epoch is not compared.
AnyLink == link

\* wait_for_progress, after the idle callback.
SameLink == link /\ session = epoch

Cancel ==
    /\ waiting
    /\ Cancels
    /\ GiveUp("cancelled")
    /\ UNCHANGED <<vars, session, read, request, epoch, packet, remaining,
                   mine, answers>>

LinkChanged ==
    /\ waiting
    /\ ~SameLink
    /\ GiveUp("link")
    /\ UNCHANGED <<vars, session, read, request, epoch, packet, remaining,
                   mine, answers>>

KeepWaiting ==
    /\ waiting
    /\ SameLink
    /\ waiting' = FALSE
    /\ UNCHANGED <<vars, session, read, at, request, epoch, packet,
                   remaining, outcome, mine, abandoned, answers>>

Exchange ==
    \/ SendRequest
    \/ SendRefused
    \/ ReceivePart
    \/ ReceiveLength
    \/ ReceivePayload
    \/ Drain
    \/ ReceiveFails
    \/ Cancel
    \/ LinkChanged
    \/ KeepWaiting

ClientNext ==
    \/ \E bytes \in Packets : Begin(bytes)
    \/ Exchange
    \/ ServerAnswers
    \/ BytesArrive
    \/ LinkUp
    \/ LinkDown

ClientSpec == ClientInit /\ [][ClientNext]_allvars
-----------------------------------------------------------------------------
\* The response a call returned is the plugin's to the request of that call.
OwnAnswer ==
    /\ mine[1] = session
    /\ mine[2] =< Len(answers)
    /\ packet' = answers[mine[2]]

Succeeds == at # "idle" /\ at' = "idle" /\ outcome' = "ok"

\* A successful exchange returns the response to its own request, whatever
\* was lost, refused, too long or left unanswered in the calls before it,
\* unless one of them gave up a request of the same session.
AnswersUnlessAbandoned == [][Succeeds /\ ~abandoned => OwnAnswer]_allvars

\* The same for every successful exchange.
AnswersOwnRequest == [][Succeeds => OwnAnswer]_allvars

\* The length byte the client reads is never zero, unless a request of the
\* session was given up: a zero means that it takes a payload byte for one.
InStepUnlessAbandoned ==
    [][at # "idle" /\ at' = "idle" /\ outcome' = "protocol"
         => abandoned]_allvars

(***************************************************************************)
(* Liveness.  The program runs, its callback runs bursts in which bytes    *)
(* move, and the server takes every request.                               *)
(***************************************************************************)
ClientFairSpec ==
    /\ ClientSpec
    /\ WF_allvars(Exchange)
    /\ WF_allvars(ServerAnswers)
    /\ SF_allvars(BytesArrive)

\* An exchange returns, unless the plugin had no response to a request of
\* the session: the client then waits as long as the link stays up.
ExchangeEnds ==
    at # "idle" ~> (at = "idle" \/ \E i \in 1..Len(answers) : answers[i] = <<>>)
=============================================================================
