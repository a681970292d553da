------------------------------ MODULE TcpProxy ------------------------------
(***************************************************************************)
(* The TCP proxy plugin (lib/tcp_proxy): one stream on behalf of a client  *)
(* that may lose its link in the middle of a call, the remote peers, and   *)
(* the typed client (lib/client/tcp_proxy.c).                              *)
(*                                                                         *)
(* The plugin blocks the server while it polls, so what happens meanwhile  *)
(* is up to the peers and the link.  poll and the call that follows it are *)
(* one step: a peer acting between them is a peer acting before both, or   *)
(* the spurious EAGAIN the code expects.                                   *)
(***************************************************************************)
EXTENDS PluginCall, Integers, Sequences, FiniteSetsExt

CONSTANTS
    Descriptors,    \* file descriptors the process has left
    Hosts,          \* host names a client may ask for
    ValidHosts,     \* those host_is_valid accepts
    AllowedHosts,   \* the names in SQUID_TCP_ALLOWED_HOSTS
    MaxAddresses,   \* bound: addresses a name resolves to
    Capacity,       \* data bytes in a READ response
    WriteMax,       \* bound: data bytes in a WRITE
    Window,         \* bound: bytes a peer takes on one connection
    MaxSent         \* bound: bytes a peer sends on one connection

ASSUME TcpAssumption ==
    /\ Descriptors \subseteq Nat
    /\ ValidHosts \subseteq Hosts
    /\ {MaxAddresses, Capacity, WriteMax, Window, MaxSent} \subseteq Nat \ {0}

VARIABLES
    socket_fd,      \* context->socket_fd
    fds,            \* descriptors open in the process
    stream,         \* what the connection behind each open descriptor did
    connecting,     \* handle_connect: addresses left, errno of the last try,
                    \* socket of the present one
    belief,         \* what the client knows: "up", "down" or "unknown"
    mine,           \* descriptor of the stream the client connected
    acked,          \* bytes of it the server acknowledged
    received,       \* bytes of it the client has read
    ended,          \* did the client see its end of file
    since,          \* history: where that stream was when the client took it up
    finished        \* history: bytes the peer sent on the last stream closed

conn == <<socket_fd, fds, stream, connecting, finished>>
client == <<belief, mine, acked, received, ended, since>>
vars == <<callvars, conn, client>>

Closed == -1        \* socket_fd

\* A connection: the bytes the peer was given, how many it sent and how many
\* of those the proxy took, and what became of the peer.
New == [got |-> <<>>, sent |-> 0, taken |-> 0, peer |-> "open"]
Streams == [got : Seq(1..Window), sent : 0..MaxSent, taken : 0..MaxSent,
            peer : {"open", "ended", "reset"}]

\* Places in the two directions of a connection.
Places == [written : 0..Window, read : 0..MaxSent]
Start == [written |-> 0, read |-> 0]

TypeOK ==
    /\ request.op \in {"none", "bad", "capabilities", "connect", "write",
                       "read", "close", "status"}
    /\ reply.op \in {"none", "bad", "capabilities", "connect", "write",
                     "read", "close", "status"}
    /\ awaited \in BOOLEAN
    /\ socket_fd \in fds \cup {Closed}
    /\ fds \subseteq Descriptors
    /\ stream \in [fds -> Streams]
    /\ \A fd \in fds : /\ Len(stream[fd].got) =< Window
                       /\ stream[fd].taken =< stream[fd].sent
    /\ connecting.left \in 0..MaxAddresses
    /\ connecting.errno \in {"none", "ETIMEDOUT", "other"}
    /\ connecting.fd \in fds \cup {Closed}
    /\ belief \in {"up", "down", "unknown"}
    /\ mine \in Descriptors \cup {Closed}
    /\ acked \in 0..Window
    /\ received \in Seq(1..MaxSent) /\ Len(received) =< MaxSent
    /\ ended \in BOOLEAN
    /\ since \in Places
    /\ finished \in 0..MaxSent

Resting == [left |-> 0, errno |-> "none", fd |-> Closed]

\* init_squid_tcp_context.
Init ==
    /\ CallInit
    /\ socket_fd = Closed
    /\ fds = {}
    /\ stream = <<>>
    /\ connecting = Resting
    /\ belief = "down"
    /\ mine = Closed
    /\ acked = 0
    /\ received = <<>>
    /\ ended = FALSE
    /\ since = Start
    /\ finished = 0
-----------------------------------------------------------------------------
(***************************************************************************)
(* The peers.                                                              *)
(***************************************************************************)
PeerSends(fd) ==
    /\ stream[fd].peer = "open"
    /\ stream[fd].sent < MaxSent
    /\ stream' = [stream EXCEPT ![fd].sent = @ + 1]
    /\ UNCHANGED <<callvars, socket_fd, fds, connecting, finished, client>>

\* It sends no more, and may still read.
PeerEnds(fd) ==
    /\ stream[fd].peer = "open"
    /\ stream' = [stream EXCEPT ![fd].peer = "ended"]
    /\ UNCHANGED <<callvars, socket_fd, fds, connecting, finished, client>>

PeerResets(fd) ==
    /\ stream[fd].peer # "reset"
    /\ stream' = [stream EXCEPT ![fd].peer = "reset"]
    /\ UNCHANGED <<callvars, socket_fd, fds, connecting, finished, client>>
-----------------------------------------------------------------------------
(***************************************************************************)
(* The plugin.                                                             *)
(***************************************************************************)
Status(status) == [op |-> request.op, status |-> status, body |-> <<>>]
Ok(body) == [op |-> request.op, status |-> "OK", body |-> body]

Pending ==
    IF socket_fd = Closed THEN 0
    ELSE stream[socket_fd].sent - stream[socket_fd].taken

Without(fd) ==
    /\ fds' = fds \ {fd}
    /\ stream' = [f \in fds \ {fd} |-> stream[f]]

Finish ==
    finished' = IF socket_fd = Closed THEN finished ELSE stream[socket_fd].sent

\* close_connection, and the connection installed in its place.
CloseConnection ==
    /\ socket_fd' = Closed
    /\ Without(socket_fd)
    /\ Finish

CloseAndReplace(fd) ==
    /\ socket_fd' = fd
    /\ Without(socket_fd)
    /\ Finish

Keep == UNCHANGED <<socket_fd, fds, stream, finished>>

HostIsAllowed(host) ==
    AllowedHosts \in {{}, {"*"}} \/ host \in AllowedHosts

\* handle_connect, before any address is tried.
ConnectRefused ==
    /\ request.op = "connect" /\ connecting = Resting
    /\ Keep /\ UNCHANGED <<connecting, client>>
    /\ \/ request.host \notin ValidHosts /\ Answer(Status("BAD_REQUEST"))
       \/ /\ request.host \in ValidHosts
          /\ ~HostIsAllowed(request.host)
          /\ Answer(Status("DENIED"))
       \/ /\ request.host \in ValidHosts
          /\ HostIsAllowed(request.host)
          /\ Answer(Status("DNS_FAILED"))

ConnectResolved ==
    /\ request.op = "connect" /\ connecting = Resting
    /\ request.host \in ValidHosts
    /\ HostIsAllowed(request.host)
    /\ \E n \in 1..MaxAddresses :
         connecting' = [left |-> n, errno |-> "none", fd |-> Closed]
    /\ Keep /\ UNCHANGED <<callvars, client>>

\* connect_address: a socket for the address.
AddressOpens ==
    /\ connecting.left > 0 /\ connecting.fd = Closed
    /\ \E fd \in Descriptors \ fds :
         /\ fds' = fds \cup {fd}
         /\ stream' = [f \in fds \cup {fd} |->
                         IF f = fd THEN New ELSE stream[f]]
         /\ connecting' = [left |-> connecting.left,
                            errno |-> connecting.errno, fd |-> fd]
    /\ UNCHANGED <<callvars, socket_fd, finished, client>>

\* The loop of handle_connect goes on after a try that failed.
NextAddress(errno) ==
    IF connecting.left > 1
    THEN /\ connecting' = [left |-> connecting.left - 1, errno |-> errno,
                           fd |-> Closed]
         /\ UNCHANGED callvars
    ELSE /\ connecting' = Resting
         /\ Answer(Status(IF errno = "ETIMEDOUT" THEN "TIMEOUT"
                                                 ELSE "CONNECT_FAILED"))

\* Mutant of AddressFails: the socket of an address that failed stays open.
AddressFailsOpen ==
    /\ connecting.left > 0
    /\ \/ NextAddress("other")
       \/ connecting.fd # Closed /\ NextAddress("ETIMEDOUT")
    /\ UNCHANGED <<socket_fd, fds, stream, finished, client>>

\* connect_address fails, before it has a socket or after: the socket is
\* closed.
AddressFails ==
    /\ connecting.left > 0
    /\ Without(connecting.fd)
    /\ \/ NextAddress("other")
       \/ connecting.fd # Closed /\ NextAddress("ETIMEDOUT")
    /\ UNCHANGED <<socket_fd, finished, client>>

\* connect_address succeeds: the new stream replaces the old.
AddressConnects ==
    /\ connecting.fd # Closed
    /\ CloseAndReplace(connecting.fd)
    /\ \E family \in {4, 6} : Answer(Ok(<<family>>))
    /\ connecting' = Resting
    /\ UNCHANGED client
-----------------------------------------------------------------------------
NotConnected ==
    /\ request.op \in {"write", "read"}
    /\ socket_fd = Closed
    /\ Answer(Status("NOT_CONNECTED"))
    /\ UNCHANGED <<conn, client>>

\* wait_for_socket or the call after it fails: POLLERR, a reset peer, no memory.
StreamFails ==
    /\ request.op \in {"write", "read"}
    /\ socket_fd # Closed
    /\ CloseConnection
    /\ Answer(Status("IO_ERROR"))
    /\ UNCHANGED <<connecting, client>>

Live == socket_fd # Closed /\ stream[socket_fd].peer # "reset"

\* handle_write: send() takes what there is room for.
Room == Window - Len(stream[socket_fd].got)

WriteSome ==
    /\ request.op = "write" /\ Live
    /\ \E n \in 1..Min({Len(request.data), Room}) :
         /\ stream' = [stream EXCEPT
                         ![socket_fd].got = @ \o SubSeq(request.data, 1, n)]
         /\ Answer(Ok(<<n>>))
    /\ UNCHANGED <<socket_fd, fds, connecting, finished, client>>

\* There is no room, or not in time.
WriteTimesOut ==
    /\ request.op = "write" /\ Live
    /\ Answer(Status("TIMEOUT"))
    /\ UNCHANGED <<conn, client>>

\* Mutant of Chunk: as much as was asked for, there or not.
ChunkAsked(maximum) == Min({Capacity} \cup ({maximum} \ {0}))

\* The n bytes of a direction that follow the first m.
After(m, n) == [i \in 1..n |-> m + i]

\* handle_read.
Chunk(maximum) ==
    Min({Pending, Capacity} \cup ({maximum} \ {0}))

\* Nothing came in the time the client allows, or recv said EAGAIN.
ReadNothing ==
    /\ request.op = "read" /\ Live
    /\ Pending = 0 /\ stream[socket_fd].peer = "open"
    /\ Answer(Ok(<<0, 0>>))
    /\ UNCHANGED <<conn, client>>

ReadSome ==
    /\ request.op = "read" /\ Live
    /\ Pending > 0
    /\ LET n == Chunk(request.maximum)
           data == After(stream[socket_fd].taken, n)
       IN  /\ stream' = [stream EXCEPT ![socket_fd].taken = @ + n]
           /\ Answer(Ok(<<0, n>> \o data))
    /\ UNCHANGED <<socket_fd, fds, connecting, finished, client>>

\* Mutants of ReadEnd: end of file looks like nothing to read, or is reported
\* while bytes are still to be read.
ReadEndSilent ==
    /\ request.op = "read" /\ Live
    /\ stream[socket_fd].peer = "ended"
    /\ Pending = 0
    /\ Answer(Ok(<<0, 0>>))
    /\ UNCHANGED <<conn, client>>

ReadEndEarly ==
    /\ request.op = "read" /\ Live
    /\ stream[socket_fd].peer = "ended"
    /\ CloseConnection
    /\ Answer(Ok(<<1, 0>>))
    /\ UNCHANGED <<connecting, client>>

ReadEnd ==
    /\ request.op = "read" /\ Live
    /\ stream[socket_fd].peer = "ended"
    /\ Pending = 0
    /\ CloseConnection
    /\ Answer(Ok(<<1, 0>>))
    /\ UNCHANGED <<connecting, client>>

\* CLOSE succeeds whether or not there is a stream.
Close ==
    /\ request.op = "close"
    /\ CloseConnection
    /\ Answer(Ok(<<>>))
    /\ UNCHANGED <<connecting, client>>

\* Requests that change nothing.
HandleCapabilities == request.op = "capabilities" /\ Answer(Ok(<<1>>))

HandleStatus ==
    /\ request.op = "status"
    /\ Answer(Ok(<<IF socket_fd = Closed THEN 0 ELSE 1>>))

Enquire ==
    /\ \/ request.op = "bad" /\ Answer(Status("BAD_REQUEST"))
       \/ HandleCapabilities
       \/ HandleStatus
    /\ UNCHANGED <<conn, client>>

Handle ==
    \/ ConnectRefused \/ ConnectResolved
    \/ AddressOpens \/ AddressFails \/ AddressConnects
    \/ NotConnected \/ StreamFails
    \/ WriteSome \/ WriteTimesOut
    \/ ReadNothing \/ ReadSome \/ ReadEnd
    \/ Close \/ Enquire
-----------------------------------------------------------------------------
(***************************************************************************)
(* The typed client and the program that uses it.  A program that lost a   *)
(* reply asks or starts over before it uses the stream again.              *)
(***************************************************************************)
Ask(what) == Call(what) /\ UNCHANGED <<conn, client>>

\* squid_client_tcp_write: the unacknowledged bytes, from the first.
Unsent == After(acked, Min({WriteMax, Window - acked}))

ClientCalls ==
    \/ \E host \in Hosts : Ask([op |-> "connect", host |-> host])
    \/ Ask([op |-> "close"])
    \/ Ask([op |-> "status"])
    \/ Ask([op |-> "capabilities"])
    \/ Ask([op |-> "bad"])
    \/ \E maximum \in 0..Capacity :
         belief # "unknown" /\ Ask([op |-> "read", maximum |-> maximum])
    \/ /\ belief # "unknown" /\ acked < Window
       /\ Ask([op |-> "write", data |-> Unsent])

Learns(what) ==
    belief' = what /\ UNCHANGED <<mine, acked, received, ended, since>>

Starts(what, fd, place) ==
    /\ belief' = what
    /\ mine' = fd
    /\ acked' = 0
    /\ received' = <<>>
    /\ ended' = FALSE
    /\ since' = place

\* The size and range checks of the typed calls; a response that fails them
\* is an error the program can do nothing with.
WellFormed ==
    LET body == reply.body
    IN  CASE reply.op = "connect" -> Len(body) = 1 /\ body[1] \in {4, 6}
          [] reply.op = "write" -> Len(body) = 1 /\ body[1] =< Len(Unsent)
          [] reply.op = "read" -> /\ Len(body) >= 2
                                  /\ Len(body) = body[2] + 2
                                  /\ body[1] \in {0, 1}
          [] reply.op = "status" -> Len(body) = 1 /\ body[1] =< 1
          [] OTHER -> TRUE

\* IO_ERROR and NOT_CONNECTED mean there is no stream.  Any other error, a
\* failed CONNECT included, leaves what there was.
ClientFails ==
    IF reply.status \in {"IO_ERROR", "NOT_CONNECTED"} THEN Learns("down")
                                                      ELSE UNCHANGED client

\* Mutant of ClientWrites: a short write is taken for a full one.
ClientWritesAll ==
    /\ acked' = acked + Len(Unsent)
    /\ UNCHANGED <<belief, mine, received, ended, since>>

ClientWrites ==
    /\ acked' = acked + reply.body[1]
    /\ UNCHANGED <<belief, mine, received, ended, since>>

ClientReads ==
    /\ received' = received \o SubSeq(reply.body, 3, reply.body[2] + 2)
    /\ belief' = IF reply.body[1] = 1 THEN "down" ELSE belief
    /\ ended' = (reply.body[1] = 1)
    /\ UNCHANGED <<mine, acked, since>>

\* Where the plugin's stream is.
Here == [written |-> Len(stream[socket_fd].got),
         read |-> stream[socket_fd].taken]

\* A stream found by asking is not one this client connected: it takes it up
\* where it is.
ClientLearns ==
    IF reply.body[1] = 0 THEN Learns("down")
    ELSE IF belief = "up" THEN UNCHANGED client
    ELSE Starts("up", Closed, Here)

ClientTakes ==
    /\ Take
    /\ IF reply.status # "OK" THEN ClientFails
       ELSE IF ~WellFormed THEN UNCHANGED client
       ELSE CASE reply.op = "connect" -> Starts("up", socket_fd, Start)
              [] reply.op = "write" -> ClientWrites
              [] reply.op = "read" -> ClientReads
              [] reply.op = "close" -> Learns("down")
              [] reply.op = "status" -> ClientLearns
              [] OTHER -> UNCHANGED client
    /\ UNCHANGED conn

\* The plugin keeps its stream: the next session finds it.
ClientLosesLink ==
    /\ GiveUp(connecting # Resting)
    /\ Starts("unknown", Closed, Start)
    /\ UNCHANGED conn

\* The server stops and is started again: free_squid_tcp_context closes the
\* stream, and the session is gone.
Restart ==
    /\ request = None
    /\ CloseConnection
    /\ Restarted
    /\ Starts("unknown", Closed, Start)
    /\ UNCHANGED connecting
-----------------------------------------------------------------------------
Next ==
    \/ \E fd \in fds \ {connecting.fd} :
         PeerSends(fd) \/ PeerEnds(fd) \/ PeerResets(fd)
    \/ Handle
    \/ Restart
    \/ ClientCalls
    \/ ClientTakes
    \/ ClientLosesLink

Spec == Init /\ [][Next]_vars

\* The program keeps reading a stream it believes in, the server answers and
\* the program takes the answers.
ReadCall ==
    /\ belief = "up"
    /\ \E maximum \in 0..Capacity : Ask([op |-> "read", maximum |-> maximum])

FairSpec ==
    /\ Spec
    /\ SF_vars(ReadCall)
    /\ WF_vars(Handle)
    /\ WF_vars(ClientTakes)
-----------------------------------------------------------------------------
\* Between calls the client and the plugin agree.  A client that believes in
\* its stream has it, and the plugin's socket is that stream, not another; one
\* that was told the stream is gone is right.  The process holds no descriptor
\* but the socket: neither a failed address nor a replaced stream leaks one.
InStep ==
    Quiet =>
      /\ belief = "up" => /\ socket_fd # Closed
                          /\ mine \in {socket_fd, Closed}
      /\ belief = "down" => socket_fd = Closed
      /\ fds = {socket_fd} \ {Closed}

\* Both directions of a stream are exact from where the client took it up,
\* which is its start when the client connected it: short writes, timeouts and
\* chunked reads neither skip nor repeat a byte.  After a lost response that is
\* where the stream was then: the bytes of a READ that the client never got are
\* gone, and the next ones follow without a gap.
StreamIntact ==
    Quiet /\ belief = "up" =>
      LET s == stream[socket_fd]
      IN  /\ SubSeq(s.got, since.written + 1, Len(s.got)) = After(0, acked)
          /\ received = After(since.read, s.taken - since.read)

\* A client told of the end of file has every byte the peer sent before it, from
\* where the client took the stream up to the last.
EndAfterAll == ended => received = After(since.read, finished - since.read)

\* A peer that stopped sending is noticed: a program that keeps reading comes
\* to the end of the stream, or to an error, whatever else it calls.
HasEnded ==
    /\ belief = "up"
    /\ socket_fd # Closed
    /\ stream[socket_fd].peer = "ended"
EndIsSeen == []<>~HasEnded
=============================================================================
