--------------------------- MODULE TcpProxyProofs ---------------------------
(***************************************************************************)
(* Proofs about the TCP proxy and its typed client, for every window,      *)
(* chunk and number of bytes, and every set of hosts and descriptors.      *)
(***************************************************************************)
EXTENDS TcpProxy, TLAPS

Ops == {"bad", "capabilities", "connect", "write", "read", "close", "status"}

\* The types, but for the client's counters, which follow from Whole.
StateOK ==
    /\ awaited \in BOOLEAN
    /\ socket_fd \in fds \cup {Closed}
    /\ fds \subseteq Descriptors
    /\ fds = {socket_fd, connecting.fd} \ {Closed}
    /\ stream \in [fds -> Streams]
    /\ \A fd \in fds : /\ Len(stream[fd].got) =< Window
                       /\ stream[fd].taken =< stream[fd].sent
    /\ connecting.left \in 0..MaxAddresses
    /\ connecting.errno \in {"none", "ETIMEDOUT", "other"}
    /\ connecting.left = 0 => connecting = Resting
    /\ connecting.fd # Closed => /\ connecting.fd # socket_fd
                                 /\ stream[connecting.fd] = New
    /\ finished \in 0..MaxSent

ClientOK ==
    /\ belief \in {"up", "down", "unknown"}
    /\ mine \in Descriptors \cup {Closed}
    /\ acked \in 0..Window
    /\ received \in Seq(1..MaxSent) /\ Len(received) =< MaxSent
    /\ ended \in BOOLEAN
    /\ since \in Places

\* What the plugin has been asked.  A call still awaited was made by the client
\* in its present state; one that is not is left over from a session that lost
\* its link, of which the client believes nothing.
RequestInv ==
    /\ request = None \/ request.op \in Ops
    /\ request.op = "read" => request.maximum \in 0..Capacity
    /\ request.op = "write" => /\ request.data \in Seq(1..Window)
                               /\ awaited => request.data = Unsent
    /\ awaited /\ request.op \in {"read", "write"} => belief # "unknown"
    /\ request # None /\ ~awaited => belief = "unknown"
    /\ connecting # Resting => request.op = "connect"

Agree ==
    /\ belief = "up" => socket_fd # Closed /\ mine \in {socket_fd, Closed}
    /\ belief = "down" => socket_fd = Closed

\* A client with these counters is at the place of the stream it believes in.
Whole(a, r) ==
    belief = "up" =>
      LET s == stream[socket_fd]
      IN  /\ since.written =< Len(s.got)
          /\ SubSeq(s.got, since.written + 1, Len(s.got)) = After(0, a)
          /\ since.read =< s.taken
          /\ r = After(since.read, s.taken - since.read)

Level == Agree /\ Whole(acked, received)

\* The client has all that its last stream, now closed, had for it.
ReadAll == received = After(since.read, finished - since.read)

\* The body of a READ response with data.
Carries(body, data) == body = <<0, Len(data)>> \o data

\* A response on its way tells the truth about the plugin, and makes the client
\* level with it once it is taken.
Truthful ==
    /\ reply.status # "OK" =>
         IF reply.status \in {"IO_ERROR", "NOT_CONNECTED"}
           THEN socket_fd = Closed ELSE Level
    /\ reply.status = "OK" =>
         /\ reply.op = "connect" => /\ reply.body \in {<<4>>, <<6>>}
                                    /\ socket_fd # Closed
                                    /\ stream[socket_fd].got = <<>>
                                    /\ stream[socket_fd].taken = 0
         /\ reply.op = "write" =>
              \E n \in 1..Len(Unsent) :
                 reply.body = <<n>> /\ belief = "up" /\ Agree /\ Whole(acked + n, received)
         /\ reply.op = "read" =>
              \/ reply.body = <<1, 0>> /\ socket_fd = Closed /\ ReadAll
              \/ \E data \in Seq(1..MaxSent) :
                   /\ Carries(reply.body, data)
                   /\ belief = "up" /\ Agree /\ Whole(acked, received \o data)
         /\ reply.op = "close" => socket_fd = Closed
         /\ reply.op = "status" =>
              reply.body = <<IF socket_fd = Closed THEN 0 ELSE 1>> /\ Level
         /\ reply.op \in {"bad", "capabilities"} => Level

ReplyInv ==
    IF reply = None THEN Level
    ELSE awaited /\ request = None /\ reply.op \in Ops /\ Truthful

EndInv == ended => belief = "down" /\ ReadAll

Inv == StateOK /\ ClientOK /\ RequestInv /\ ReplyInv /\ EndInv
-----------------------------------------------------------------------------
(***************************************************************************)
(* Runs of bytes.                                                          *)
(***************************************************************************)

LEMMA MinPair ==
    ASSUME NEW a \in Int, NEW b \in Int
    PROVE  Min({a, b}) \in {a, b} /\ Min({a, b}) =< a /\ Min({a, b}) =< b
<1>1. \E x \in {a, b} : \A y \in {a, b} : x =< y
  OBVIOUS
<1> QED BY <1>1 DEF Min

\* handle_read takes some of what there is, and no more than fits.
LEMMA ChunkIs ==
    ASSUME NEW maximum \in Nat, Pending \in Nat, Pending > 0
    PROVE  Chunk(maximum) \in 1..Pending
<1> DEFINE S == {Pending, Capacity} \cup ({maximum} \ {0})
<1>0. Capacity \in Nat /\ Capacity > 0
  BY TcpAssumption
<1> HIDE DEF Pending
<1>1. \E x \in S : \A y \in S : x =< y
  BY <1>0
<1>2. Min(S) \in S /\ \A y \in S : Min(S) =< y
  BY <1>1 DEF Min
<1> QED BY <1>0, <1>2 DEF Chunk

LEMMA AfterIs ==
    ASSUME NEW S, NEW n \in Nat, NEW a \in Nat, \A i \in 1..n : a + i \in S
    PROVE  After(a, n) \in Seq(S) /\ Len(After(a, n)) = n
  BY DEF After

LEMMA AfterFront ==
    ASSUME NEW a \in Nat, NEW m \in Nat, NEW n \in 1..m
    PROVE  SubSeq(After(a, m), 1, n) = After(a, n)
  BY DEF After

LEMMA AfterMore ==
    ASSUME NEW a \in Nat, NEW m \in Nat, NEW n \in Nat
    PROVE  After(a, m) \o After(a + m, n) = After(a, m + n)
  BY DEF After

LEMMA AfterNothing ==
    \A a \in Nat : After(a, 0) = <<>>
  BY DEF After

\* What follows place w of a stream grows by what is appended to it.
LEMMA TailMore ==
    ASSUME NEW S, NEW s \in Seq(S), NEW t \in Seq(S),
           NEW w \in Nat, w =< Len(s)
    PROVE  SubSeq(s \o t, w + 1, Len(s \o t)) = SubSeq(s, w + 1, Len(s)) \o t
<1>1. Len(s) \in Nat /\ Len(t) \in Nat /\ Len(s \o t) = Len(s) + Len(t)
  OBVIOUS
<1> DEFINE n == Len(s) + Len(t) - w
           whole == SubSeq(s \o t, w + 1, Len(s \o t))
           tail == SubSeq(s, w + 1, Len(s))
<1>2. whole = [i \in 1..n |-> (s \o t)[w + i]]
  BY <1>1
<1>3. tail \in Seq(S) /\ Len(tail) = Len(s) - w
  BY <1>1
<1>4. \A i \in 1..(Len(s) - w) : tail[i] = s[w + i]
  BY <1>1
<1>5. \A i \in 1..n : (tail \o t)[i] = (s \o t)[w + i]
  <2> SUFFICES ASSUME NEW i \in 1..n PROVE (tail \o t)[i] = (s \o t)[w + i]
    OBVIOUS
  <2> HIDE DEF tail
  <2>1. CASE i =< Len(s) - w
    BY <1>1, <1>3, <1>4, <2>1
  <2>2. CASE i > Len(s) - w
    <3>1. (tail \o t)[i] = t[i - (Len(s) - w)]
      BY <1>1, <1>3, <2>2
    <3>2. (s \o t)[w + i] = t[w + i - Len(s)]
      BY <1>1, <2>2
    <3> QED BY <1>1, <3>1, <3>2
  <2>3. i =< Len(s) - w \/ i > Len(s) - w
    BY <1>1
  <2> QED BY <2>1, <2>2, <2>3, Zenon
<1>6. tail \o t = [i \in 1..n |-> (tail \o t)[i]]
  <2> HIDE DEF tail
  <2>1. tail \o t \in Seq(S) /\ Len(tail \o t) = Len(tail) + Len(t)
    BY <1>3
  <2>2. Len(tail) + Len(t) = n
    BY <1>1, <1>3
  <2>3. ASSUME NEW z \in Seq(S) PROVE z = [i \in 1..Len(z) |-> z[i]]
    OBVIOUS
  <2> QED BY <2>1, <2>2, <2>3
<1> HIDE DEF tail, whole, n
<1> QED BY <1>2, <1>5, <1>6 DEF tail, whole

LEMMA TailNothing ==
    ASSUME NEW S, NEW s \in Seq(S)
    PROVE  SubSeq(s, Len(s) + 1, Len(s)) = <<>>
  OBVIOUS

LEMMA FirstPart ==
    ASSUME NEW S, NEW s \in Seq(S), NEW n \in 1..Len(s)
    PROVE  SubSeq(s, 1, n) \in Seq(S) /\ Len(SubSeq(s, 1, n)) = n
<1>1. n \in Nat /\ Len(s) \in Nat /\ n =< Len(s)
  OBVIOUS
<1>2. \A i \in 1..n : s[i] \in S
  BY <1>1
<1>3. Len(SubSeq(s, 1, n)) = n
  BY <1>1
<1>4. SubSeq(s, 1, n) = [i \in 1..n |-> s[i]]
  BY <1>1
<1>5. [i \in 1..n |-> s[i]] \in Seq(S)
  BY <1>1, <1>2
<1> QED BY <1>3, <1>4, <1>5

\* squid_client_tcp_read finds in the response the bytes it carries.
LEMMA CarriedData ==
    ASSUME NEW S, NEW data \in Seq(S), NEW body, Carries(body, data)
    PROVE  /\ Len(body) = Len(data) + 2 /\ Len(data) \in Nat
           /\ body[1] = 0 /\ body[2] = Len(data)
           /\ SubSeq(body, 3, body[2] + 2) = data
<1>1. Len(data) \in Nat
  OBVIOUS
<1>2. /\ Len(<<0, Len(data)>> \o data) = Len(data) + 2
      /\ (<<0, Len(data)>> \o data)[1] = 0
      /\ (<<0, Len(data)>> \o data)[2] = Len(data)
  OBVIOUS
<1>3. SubSeq(<<0, Len(data)>> \o data, 3, Len(data) + 2) = data
  OBVIOUS
<1> QED BY <1>1, <1>2, <1>3 DEF Carries

\* squid_client_tcp_write sends what follows the acknowledged bytes.
LEMMA UnsentIs ==
    ASSUME acked \in 0..Window
    PROVE  \E m \in 0..(Window - acked) :
             /\ Unsent = After(acked, m)
             /\ Unsent \in Seq(1..Window) /\ Len(Unsent) = m
<1> DEFINE m == Min({WriteMax, Window - acked})
<1>0. WriteMax \in Nat /\ Window \in Nat
  BY TcpAssumption
<1>1. m \in 0..(Window - acked)
  <2> DEFINE w == Window - acked
  <2>1. w \in Int /\ w >= 0
    BY <1>0
  <2> HIDE DEF w
  <2>2. Min({WriteMax, w}) \in {WriteMax, w} /\ Min({WriteMax, w}) =< w
    BY <1>0, <2>1, MinPair
  <2> QED BY <1>0, <2>1, <2>2 DEF w
<1> HIDE DEF m
<1>2. After(acked, m) \in Seq(1..Window) /\ Len(After(acked, m)) = m
  <2>1. m \in Nat /\ acked \in Nat /\ \A i \in 1..m : acked + i \in 1..Window
    BY <1>0, <1>1
  <2> QED BY <2>1, AfterIs
<1>3. Unsent = After(acked, m)
  BY DEF Unsent, m
<1> QED BY <1>1, <1>2, <1>3
-----------------------------------------------------------------------------
(***************************************************************************)
(* The plugin.                                                             *)
(***************************************************************************)

\* A request that is being handled finds the client level with the plugin, or
\* gone.
LEMMA Handling ==
    ASSUME Inv, request # None
    PROVE  /\ reply = None /\ Level
           /\ request.op \in Ops
           /\ ~awaited => belief = "unknown"
  BY DEF Inv, RequestInv, ReplyInv

LEMMA RequestIs ==
    ASSUME request.op # "none"
    PROVE  request # None
  BY DEF None

LEMMA CurrentStream ==
    ASSUME Inv, socket_fd # Closed
    PROVE  /\ socket_fd \in fds
           /\ stream[socket_fd] \in Streams
           /\ stream[socket_fd].got \in Seq(1..Window)
           /\ stream[socket_fd].sent \in 0..MaxSent
           /\ stream[socket_fd].taken \in 0..MaxSent
           /\ stream[socket_fd].taken =< stream[socket_fd].sent
           /\ Pending = stream[socket_fd].sent - stream[socket_fd].taken
<1>1. socket_fd \in fds /\ stream \in [fds -> Streams]
  BY DEF Inv, StateOK
<1>2. stream[socket_fd] \in Streams
  BY <1>1
<1> QED BY <1>1, <1>2 DEF Inv, StateOK, Streams, Pending

LEMMA PendingIs ==
    ASSUME Inv
    PROVE  Pending \in 0..MaxSent /\ (socket_fd = Closed => Pending = 0)
<1>1. MaxSent \in Nat
  BY TcpAssumption
<1>2. CASE socket_fd = Closed
  BY <1>1, <1>2 DEF Pending
<1>3. CASE socket_fd # Closed
  BY <1>1, <1>3, CurrentStream
<1> QED BY <1>2, <1>3

\* A client that has seen the end of its stream has lost nothing by what
\* close_connection does.
LEMMA Finishing ==
    ASSUME Inv, Finish, UNCHANGED client, request # None
    PROVE  finished' \in 0..MaxSent /\ EndInv'
<1>1. finished' \in 0..MaxSent
  BY CurrentStream DEF Inv, StateOK, Finish
<1>2. ended => belief = "down" /\ ReadAll /\ socket_fd = Closed
  BY Handling DEF Inv, EndInv, Level, Agree
<1>3. ended => finished' = finished
  BY <1>2 DEF Finish
<1> QED BY <1>1, <1>2, <1>3 DEF EndInv, ReadAll, client

\* close_connection leaves no descriptor.
LEMMA Closing ==
    ASSUME Inv, connecting = Resting, CloseConnection
    PROVE  socket_fd' = Closed /\ fds' = {} /\ stream' \in [fds' -> Streams]
<1>1. fds = {socket_fd} \ {Closed}
  BY DEF Inv, StateOK, Resting
<1>2. fds' = {}
  BY <1>1 DEF CloseConnection, Without
<1>3. stream' \in [fds' -> Streams]
  BY <1>1, <1>2 DEF CloseConnection, Without
<1> QED BY <1>2, <1>3 DEF CloseConnection

LEMMA AtRest ==
    /\ Resting.left = 0 /\ Resting.errno = "none" /\ Resting.fd = Closed
    /\ MaxAddresses \in Nat /\ 0 \in 0..MaxAddresses
  BY TcpAssumption DEF Resting

\* A response keeps the calls in order, provided it tells the truth.
LEMMA Answering ==
    ASSUME Inv, request # None, UNCHANGED client, connecting' = Resting,
           NEW r, Answer(r), r.op = request.op, awaited => Truthful'
    PROVE  ClientOK' /\ RequestInv' /\ ReplyInv'
<1>0. /\ belief' = belief /\ mine' = mine /\ acked' = acked
      /\ received' = received /\ ended' = ended /\ since' = since
  BY DEF client
<1>1. ClientOK'
  BY <1>0 DEF Inv, ClientOK
<1>2. request' = None /\ awaited' = awaited /\ None.op = "none"
  BY DEF Answer, None
<1>3. RequestInv'
  BY <1>2 DEF RequestInv
<1>4. CASE awaited
  <2>1. reply' = r /\ r.op \in Ops /\ r # None
    BY <1>4, Handling DEF Answer, None, Ops
  <2> QED BY <1>1, <1>2, <1>3, <1>4, <2>1 DEF ReplyInv
<1>5. CASE ~awaited
  <2>1. reply' = None /\ belief' = "unknown"
    BY <1>0, <1>5, Handling DEF Answer
  <2>2. Level'
    BY <2>1 DEF Level, Agree, Whole
  <2> QED BY <1>1, <1>3, <2>1, <2>2 DEF ReplyInv
<1>6. awaited \in BOOLEAN
  BY DEF Inv, StateOK
<1> QED BY <1>4, <1>5, <1>6

LEMMA LevelKept ==
    ASSUME Level, UNCHANGED <<socket_fd, client>>,
           socket_fd # Closed => stream'[socket_fd] = stream[socket_fd]
    PROVE  Level'
  BY DEF Level, Agree, Whole, client

\* The socket of an address that is given up goes, and the stream stays.
LEMMA Giving ==
    ASSUME Inv, Without(connecting.fd), UNCHANGED <<socket_fd, finished, awaited>>,
           connecting'.fd = Closed, connecting'.left \in 0..MaxAddresses,
           connecting'.errno \in {"none", "ETIMEDOUT", "other"},
           connecting'.left = 0 => connecting' = Resting
    PROVE  /\ StateOK'
           /\ socket_fd # Closed => stream'[socket_fd] = stream[socket_fd]
<1>1. /\ fds = {socket_fd, connecting.fd} \ {Closed}
      /\ socket_fd # Closed => connecting.fd # socket_fd
  BY DEF Inv, StateOK
<1>2. fds' = {socket_fd} \ {Closed} /\ fds' \subseteq fds
  BY <1>1 DEF Without
<1>3. stream' = [f \in fds' |-> stream[f]]
  BY DEF Without
<1>4. stream' \in [fds' -> Streams] /\ \A f \in fds' : stream'[f] = stream[f]
  BY <1>2, <1>3 DEF Inv, StateOK
<1> QED BY <1>2, <1>4 DEF Inv, StateOK

\* A response to a request that moves nothing.
LEMMA Unmoved ==
    ASSUME Inv, request # None, UNCHANGED <<socket_fd, finished, client>>,
           Without(connecting.fd), connecting' = Resting,
           NEW r, Answer(r), r.op = request.op,
           \/ r.status \notin {"OK", "IO_ERROR", "NOT_CONNECTED"}
           \/ r.status = "NOT_CONNECTED" /\ socket_fd = Closed
           \/ r.status = "OK" /\ r.op \in {"bad", "capabilities"}
           \/ /\ r.status = "OK" /\ r.op = "status"
              /\ r.body = <<IF socket_fd = Closed THEN 0 ELSE 1>>
           \/ /\ r.status = "OK" /\ r.op = "read" /\ Carries(r.body, <<>>)
              /\ awaited => belief = "up"
    PROVE  Inv'
<1>0. awaited' = awaited
  BY DEF Answer
<1>1. /\ StateOK'
      /\ socket_fd # Closed => stream'[socket_fd] = stream[socket_fd]
  BY <1>0, AtRest, Giving
<1>2. EndInv'
  BY DEF Inv, EndInv, ReadAll, client
<1>3. Level'
  BY <1>1, Handling, LevelKept
<1>4. ASSUME awaited PROVE Truthful'
  <2>1. reply' = r
    BY <1>4 DEF Answer
  <2>2. CASE ~(r.status = "OK" /\ r.op = "read")
    BY <1>3, <2>1, <2>2 DEF Truthful
  <2>3. CASE r.status = "OK" /\ r.op = "read"
    <3>1. <<>> \in Seq(1..MaxSent) /\ received \in Seq(1..MaxSent)
      BY DEF Inv, ClientOK
    <3>2. received' = received /\ received' \o <<>> = received'
      BY <3>1 DEF client
    <3>3. belief' = "up" /\ Agree' /\ Whole(acked, received \o <<>>)'
      BY <1>3, <1>4, <2>3, <3>2 DEF Level, client
    <3>4. Carries(reply'.body, <<>>)
      BY <2>1, <2>3
    <3> QED BY <2>1, <2>3, <3>1, <3>3, <3>4 DEF Truthful
  <2> QED BY <2>2, <2>3
<1>5. ClientOK' /\ RequestInv' /\ ReplyInv'
  BY <1>4, Answering
<1> QED BY <1>1, <1>2, <1>5 DEF Inv

\* Such a response when no address is being tried.
LEMMA Still ==
    ASSUME Inv, connecting = Resting, Keep
    PROVE  Without(connecting.fd)
<1>1. connecting.fd = Closed /\ fds \ {Closed} = fds
  BY AtRest DEF Inv, StateOK
<1>2. stream = [f \in fds |-> stream[f]]
  BY DEF Inv, StateOK
<1> QED BY <1>1, <1>2 DEF Keep, Without

\* A response to a request that closed the stream.
LEMMA Ending ==
    ASSUME Inv, request # None, UNCHANGED client, CloseConnection,
           connecting = Resting, connecting' = Resting,
           NEW r, Answer(r), r.op = request.op,
           \/ r.status = "IO_ERROR"
           \/ r.status = "OK" /\ r.op = "close"
           \/ /\ r.status = "OK" /\ r.op = "read" /\ r.body = <<1, 0>>
              /\ awaited => ReadAll'
    PROVE  Inv'
<1>0. socket_fd' = Closed /\ fds' = {} /\ stream' \in [fds' -> Streams]
  BY Closing
<1>1. finished' \in 0..MaxSent /\ EndInv'
  BY Finishing DEF CloseConnection
<1>2. StateOK'
  BY <1>0, <1>1, AtRest DEF Inv, StateOK, Answer
<1>3. ASSUME awaited PROVE Truthful'
  <2>1. reply' = r
    BY <1>3 DEF Answer
  <2> QED BY <1>0, <1>3, <2>1 DEF Truthful
<1>4. ClientOK' /\ RequestInv' /\ ReplyInv'
  BY <1>3, Answering
<1> QED BY <1>1, <1>2, <1>4 DEF Inv

\* A client that awaits a READ or a WRITE of an open stream believes in it.
LEMMA Reading ==
    ASSUME Inv, request.op \in {"read", "write"}, socket_fd # Closed
    PROVE  /\ request # None
           /\ connecting = Resting
           /\ awaited => belief = "up"
<1>1. request # None /\ request.op # "connect"
  BY RequestIs
<1> QED BY <1>1, Handling DEF Inv, RequestInv, ClientOK, Level, Agree

\* A step that changes only what the current stream has got or given.
LEMMA StreamMoves ==
    ASSUME Inv, socket_fd # Closed, NEW s \in Streams,
           stream' = [stream EXCEPT ![socket_fd] = s],
           Len(s.got) =< Window, s.taken =< s.sent,
           UNCHANGED <<socket_fd, fds, connecting, finished, client, awaited>>
    PROVE  StateOK' /\ EndInv' /\ stream'[socket_fd] = s
<1>1. stream' \in [fds' -> Streams]
  BY DEF Inv, StateOK
<1>2. stream'[socket_fd] = s
  BY DEF Inv, StateOK
<1>3. \A f \in fds \ {socket_fd} : stream'[f] = stream[f]
  BY DEF Inv, StateOK
<1>4. StateOK'
  BY <1>1, <1>2, <1>3 DEF Inv, StateOK
<1> QED BY <1>2, <1>4 DEF Inv, EndInv, ReadAll, client

\* handle_write adds to what the peer got the bytes it acknowledges.
LEMMA WriteStep ==
    ASSUME Inv, WriteSome
    PROVE  Inv'
<1>0. /\ request.op = "write" /\ socket_fd # Closed
      /\ UNCHANGED <<socket_fd, fds, connecting, finished, client>>
  BY DEF WriteSome, Live
<1>1. request # None /\ connecting = Resting /\ (awaited => belief = "up")
  BY <1>0, Reading
<1>2. /\ stream[socket_fd] \in Streams /\ stream[socket_fd].got \in Seq(1..Window)
      /\ stream[socket_fd].taken =< stream[socket_fd].sent
  BY <1>0, CurrentStream
<1> DEFINE got == stream[socket_fd].got
<1>3. PICK n \in 1..Min({Len(request.data), Room}) :
        /\ stream' = [stream EXCEPT
                        ![socket_fd].got = @ \o SubSeq(request.data, 1, n)]
        /\ Answer(Ok(<<n>>))
  BY DEF WriteSome
<1>4. request.data \in Seq(1..Window) /\ (awaited => request.data = Unsent)
  BY <1>0 DEF Inv, RequestInv
<1>5. n \in 1..Len(request.data) /\ n + Len(got) =< Window
  <2> DEFINE room == Window - Len(got)
             size == Len(request.data)
  <2>1. room \in Int /\ Window \in Nat /\ Len(got) \in Nat /\ size \in Nat
    BY <1>2, <1>4, TcpAssumption
  <2>2. n \in 1..Min({size, room})
    BY DEF Room
  <2> HIDE DEF room, size
  <2>5. size \in Int /\ room \in Int
    BY <2>1
  <2>3. Min({size, room}) \in {size, room} /\ Min({size, room}) =< size /\ Min({size, room}) =< room
    BY ONLY <2>5, MinPair, Zenon
  <2>4. n =< room /\ n =< size /\ n \in Nat /\ n > 0
    BY <2>1, <2>2, <2>3
  <2> QED BY <2>1, <2>4 DEF room, size
<1> DEFINE part == SubSeq(request.data, 1, n)
           more == [stream[socket_fd] EXCEPT !.got = got \o part]
<1>6. part \in Seq(1..Window) /\ Len(part) = n
  BY <1>4, <1>5, FirstPart
<1> HIDE DEF part
<1>7. /\ more \in Streams /\ more.got = got \o part
      /\ Len(more.got) =< Window
      /\ more.taken = stream[socket_fd].taken /\ more.taken =< more.sent
  <2>0. got \in Seq(1..Window)
    BY <1>2
  <2>1. got \o part \in Seq(1..Window) /\ Len(got \o part) = Len(got) + n
    <3> HIDE DEF got
    <3> QED BY <1>6, <2>0
  <2>2. Len(got) + n =< Window
    BY <1>2, <1>5, TcpAssumption
  <2> QED BY <1>2, <2>1, <2>2 DEF Streams
<1>8. stream' = [stream EXCEPT ![socket_fd] = more]
  BY <1>3 DEF part
<1>9. awaited' = awaited
  BY <1>3 DEF Answer
<1> HIDE DEF more
<1>10. StateOK' /\ EndInv' /\ stream'[socket_fd] = more
  BY <1>0, <1>7, <1>8, <1>9, StreamMoves
<1>11. ASSUME awaited PROVE Truthful'
  <2>1. /\ reply' = Ok(<<n>>) /\ reply'.status = "OK" /\ reply'.op = "write"
        /\ reply'.body = <<n>>
    BY <1>0, <1>3, <1>11 DEF Answer, Ok
  <2>2. /\ belief' = belief /\ mine' = mine /\ acked' = acked /\ received' = received
        /\ socket_fd' = socket_fd /\ since' = since /\ belief = "up"
    BY <1>0, <1>1, <1>11 DEF client
  <2>3. Level /\ acked \in 0..Window
    BY <1>1, Handling DEF Inv, ClientOK
  <2>4. PICK m \in 0..(Window - acked) :
          /\ Unsent = After(acked, m)
          /\ Unsent \in Seq(1..Window) /\ Len(Unsent) = m
    BY <2>3, UnsentIs
  <2>5. /\ n \in 1..Len(Unsent) /\ n \in 1..m /\ n \in Nat /\ m \in Nat /\ acked \in Nat
    BY <1>4, <1>5, <1>11, <2>3, <2>4, TcpAssumption
  <2>6. part = After(acked, n)
    BY <1>4, <1>11, <2>4, <2>5, AfterFront DEF part
  <2>7. Unsent' = Unsent
    BY <2>2 DEF Unsent
  <2>8. Agree'
    BY <2>2, <2>3 DEF Level, Agree
  <2>9. After(0, acked) \o part = After(0, acked + n)
    <3>1. 0 \in Nat /\ 0 + acked = acked
      BY <2>5
    <3>2. After(0, acked) \o After(0 + acked, n) = After(0, acked + n)
      BY <2>5, <3>1, AfterMore
    <3> QED BY <2>6, <3>1, <3>2
  <2>10. Whole(acked + n, received)'
    <3> HIDE DEF got
    <3>0. stream'[socket_fd'] = more
      BY <1>10, <2>2, Zenon
    <3>1. stream'[socket_fd'].got = got \o part
      BY <1>7, <3>0, Zenon
    <3>2. stream'[socket_fd'].taken = stream[socket_fd].taken
      BY <1>7, <3>0, Zenon
    <3>3. /\ since.written =< Len(got)
          /\ SubSeq(got, since.written + 1, Len(got)) = After(0, acked)
          /\ since.read =< stream[socket_fd].taken
          /\ received = After(since.read, stream[socket_fd].taken - since.read)
      BY <2>2, <2>3 DEF Level, Whole, got
    <3>4. since.written \in Nat /\ got \in Seq(1..Window)
      BY <1>2, TcpAssumption DEF Inv, ClientOK, Places, got
    <3>5. SubSeq(got \o part, since.written + 1, Len(got \o part))
            = After(0, acked + n)
      <4>1. SubSeq(got \o part, since.written + 1, Len(got \o part))
              = SubSeq(got, since.written + 1, Len(got)) \o part
        BY <1>6, <3>3, <3>4, TailMore
      <4> QED BY <2>9, <3>3, <4>1
    <3>6. since.written =< Len(got \o part)
      BY <1>6, <2>5, <3>3, <3>4
    <3> QED BY <2>2, <3>1, <3>2, <3>3, <3>5, <3>6 DEF Whole
  <2> QED BY <2>1, <2>2, <2>5, <2>7, <2>8, <2>10 DEF Truthful
<1>12. ClientOK' /\ RequestInv' /\ ReplyInv'
  <2>1. Ok(<<n>>).op = request.op /\ connecting' = Resting
    BY <1>0, <1>1 DEF Ok
  <2> QED BY <1>0, <1>1, <1>3, <1>11, <2>1, Answering
<1> QED BY <1>10, <1>12 DEF Inv

\* handle_read gives the next bytes of those the peer sent.
LEMMA ReadStep ==
    ASSUME Inv, ReadSome
    PROVE  Inv'
<1>0. /\ request.op = "read" /\ socket_fd # Closed /\ Pending > 0
      /\ UNCHANGED <<socket_fd, fds, connecting, finished, client>>
  BY DEF ReadSome, Live
<1>1. request # None /\ connecting = Resting /\ (awaited => belief = "up")
  BY <1>0, Reading
<1> DEFINE taken == stream[socket_fd].taken
           n == Chunk(request.maximum)
           data == After(taken, n)
           more == [stream[socket_fd] EXCEPT !.taken = taken + n]
<1>2. /\ stream[socket_fd] \in Streams
      /\ taken \in 0..MaxSent /\ stream[socket_fd].sent \in 0..MaxSent
      /\ Pending = stream[socket_fd].sent - taken
      /\ stream[socket_fd].got \in Seq(1..Window)
      /\ Len(stream[socket_fd].got) =< Window
      /\ MaxSent \in Nat
  BY <1>0, CurrentStream, TcpAssumption DEF Inv, StateOK
<1>3. stream' = [stream EXCEPT ![socket_fd] = more] /\ Answer(Ok(<<0, n>> \o data))
  BY DEF ReadSome
<1>4. n \in 1..Pending
  <2>1. request.maximum \in Nat
    BY <1>0, TcpAssumption DEF Inv, RequestInv
  <2>2. Pending \in Nat
    BY <1>2, PendingIs
  <2> HIDE DEF Pending
  <2> QED BY <1>0, <2>1, <2>2, ChunkIs
<1> HIDE DEF n
<1>5. n \in Nat /\ taken \in Nat /\ taken + n =< stream[socket_fd].sent
  <2> HIDE DEF taken, Pending
  <2> QED BY <1>2, <1>4
<1>6. data \in Seq(1..MaxSent) /\ Len(data) = n
  <2>1. \A i \in 1..n : taken + i \in 1..MaxSent
    <3> HIDE DEF taken
    <3> QED BY <1>2, <1>5
  <2> QED BY <1>5, <2>1, AfterIs
<1> HIDE DEF data
<1>7. /\ more \in Streams /\ Len(more.got) =< Window
      /\ more.got = stream[socket_fd].got
      /\ more.taken = taken + n /\ more.taken =< more.sent
  <2>1. taken + n \in 0..MaxSent
    <3> HIDE DEF taken
    <3> QED BY <1>2, <1>5
  <2> QED BY <1>2, <1>5, <2>1 DEF Streams
<1> HIDE DEF more
<1>8. StateOK' /\ EndInv' /\ stream'[socket_fd] = more
  BY <1>0, <1>3, <1>7, StreamMoves DEF Answer
<1>9. ASSUME awaited PROVE Truthful'
  <2>1. /\ reply'.status = "OK" /\ reply'.op = "read"
        /\ reply'.body = <<0, n>> \o data
    BY <1>0, <1>3, <1>9 DEF Answer, Ok
  <2>0. PICK d \in Seq(1..MaxSent) : d = data
    BY <1>6
  <2>2. Carries(reply'.body, d)
    BY <1>6, <2>0, <2>1 DEF Carries
  <2>3. /\ belief' = belief /\ mine' = mine /\ acked' = acked /\ received' = received
        /\ socket_fd' = socket_fd /\ since' = since /\ belief = "up"
    BY <1>0, <1>1, <1>9 DEF client
  <2>4. Level /\ received \in Seq(1..MaxSent)
    BY <1>1, Handling DEF Inv, ClientOK
  <2>5. Agree'
    BY <2>3, <2>4 DEF Level, Agree
  <2>6. Whole(acked, received \o d)'
    <3>1. stream'[socket_fd'] = more
      BY <1>8, <2>3
    <3>2. /\ since.written =< Len(stream[socket_fd].got)
          /\ SubSeq(stream[socket_fd].got, since.written + 1,
                    Len(stream[socket_fd].got)) = After(0, acked)
          /\ since.read =< taken
          /\ received = After(since.read, taken - since.read)
      BY <2>3, <2>4 DEF Level, Whole
    <3>3. since.read \in Nat
      BY TcpAssumption DEF Inv, ClientOK, Places
    <3> HIDE DEF taken
    <3> DEFINE m == taken - since.read
    <3>4. m \in Nat /\ since.read + m = taken /\ m + n = (taken + n) - since.read
      BY <1>5, <3>2, <3>3
    <3>5. received = After(since.read, m) /\ data = After(since.read + m, n)
      BY <3>2, <3>4 DEF data
    <3> HIDE DEF m
    <3>6. received \o d = After(since.read, m + n)
      BY <1>5, <2>0, <3>3, <3>4, <3>5, AfterMore
    <3>7. since.read =< taken + n
      BY <1>5, <3>2, <3>3
    <3>8. /\ stream'[socket_fd'].got = stream[socket_fd].got
          /\ stream'[socket_fd'].taken = taken + n
      BY <1>7, <3>1
    <3>9. received \o d = After(since.read, (taken + n) - since.read)
      BY <3>4, <3>6
    <3> QED BY <2>3, <3>2, <3>7, <3>8, <3>9 DEF Whole
  <2> QED BY <2>1, <2>2, <2>3, <2>5, <2>6 DEF Truthful
<1>10. ClientOK' /\ RequestInv' /\ ReplyInv'
  <2>1. Ok(<<0, n>> \o data).op = request.op /\ connecting' = Resting
    BY <1>0, <1>1 DEF Ok
  <2> QED BY <1>0, <1>1, <1>3, <1>9, <2>1, Answering
<1> QED BY <1>8, <1>10 DEF Inv

\* handle_connect, at the address that answers: the new stream is the only one.
LEMMA ConnectStep ==
    ASSUME Inv, AddressConnects
    PROVE  Inv'
<1> DEFINE fd == connecting.fd
<1>0. /\ fd # Closed /\ connecting' = Resting /\ UNCHANGED client
      /\ CloseAndReplace(fd)
  BY DEF AddressConnects
<1>1. request.op = "connect" /\ request # None
  <2>1. connecting # Resting
    BY <1>0, AtRest
  <2> QED BY <2>1, RequestIs DEF Inv, RequestInv
<1>3. PICK family \in {4, 6} : Answer(Ok(<<family>>))
  BY DEF AddressConnects
<1>4. /\ fds = {socket_fd, fd} \ {Closed} /\ fd # socket_fd
      /\ fd \in fds /\ stream[fd] = New
  BY <1>0 DEF Inv, StateOK
<1> HIDE DEF fd
<1>5. socket_fd' = fd /\ fds' = {fd}
  BY <1>0, <1>4 DEF CloseAndReplace, Without
<1>6. /\ New \in Streams /\ New.got = <<>> /\ Len(New.got) = 0
      /\ New.taken = 0 /\ New.sent = 0 /\ Window \in Nat
  BY TcpAssumption DEF New, Streams
<1>7. stream' = [f \in fds' |-> New]
  BY <1>0, <1>4, <1>5 DEF CloseAndReplace, Without
<1>8. stream' \in [fds' -> Streams] /\ stream'[fd] = New
  BY <1>5, <1>6, <1>7
<1>9. finished' \in 0..MaxSent /\ EndInv'
  BY <1>0, <1>1, Finishing DEF CloseAndReplace
<1>10. StateOK'
  <2>1. connecting'.left = 0 /\ connecting'.errno = "none" /\ connecting'.fd = Closed
    BY <1>0, AtRest
  <2>2. awaited' = awaited
    BY <1>3 DEF Answer
  <2> QED BY <1>0, <1>4, <1>5, <1>6, <1>8, <1>9, <2>1, <2>2, AtRest DEF Inv, StateOK
<1>12. ASSUME awaited PROVE Truthful'
  <2>1. /\ reply'.status = "OK" /\ reply'.op = "connect" /\ reply'.body = <<family>>
    BY <1>1, <1>3, <1>12 DEF Answer, Ok
  <2> QED BY <1>0, <1>5, <1>6, <1>8, <2>1 DEF Truthful
<1>13. ClientOK' /\ RequestInv' /\ ReplyInv'
  <2>1. Ok(<<family>>).op = request.op
    BY DEF Ok
  <2> QED BY <1>0, <1>1, <1>3, <1>12, <2>1, Answering
<1> QED BY <1>9, <1>10, <1>13 DEF Inv

\* handle_connect on its way through the addresses.
LEMMA TryStep ==
    ASSUME Inv, request.op = "connect", StateOK',
           socket_fd # Closed => stream'[socket_fd] = stream[socket_fd],
           UNCHANGED <<callvars, socket_fd, finished, client>>
    PROVE  Inv'
<1>0. /\ request' = request /\ reply' = reply /\ awaited' = awaited
      /\ belief' = belief /\ mine' = mine /\ acked' = acked
      /\ received' = received /\ ended' = ended /\ since' = since
  BY DEF callvars, client
<1>1. ClientOK' /\ EndInv'
  BY <1>0 DEF Inv, ClientOK, EndInv, ReadAll
<1>2. RequestInv'
  BY <1>0 DEF Inv, RequestInv, Unsent
<1>3. ReplyInv'
  <2>1. request # None
    BY RequestIs
  <2> QED BY <1>0, <2>1, Handling, LevelKept DEF ReplyInv
<1> QED BY <1>1, <1>2, <1>3 DEF Inv

\* The socket of an address is none of those open.
LEMMA OpenStep ==
    ASSUME Inv, AddressOpens
    PROVE  Inv'
<1>1. /\ connecting.left > 0 /\ connecting.fd = Closed
      /\ UNCHANGED <<callvars, socket_fd, finished, client>>
  BY DEF AddressOpens
<1>2. PICK fd \in Descriptors \ fds :
        /\ fds' = fds \cup {fd}
        /\ stream' = [f \in fds \cup {fd} |-> IF f = fd THEN New ELSE stream[f]]
        /\ connecting' = [left |-> connecting.left,
                          errno |-> connecting.errno, fd |-> fd]
  BY DEF AddressOpens
<1>3. request.op = "connect"
  <2>1. connecting # Resting
    BY <1>1, AtRest
  <2> QED BY <2>1 DEF Inv, RequestInv
<1>4. /\ fds = {socket_fd} \ {Closed} /\ fd # Closed /\ fd # socket_fd
  BY <1>1, TcpAssumption DEF Inv, StateOK, Closed
<1>5. PICK c : /\ connecting' = c /\ c.left = connecting.left
               /\ c.errno = connecting.errno /\ c.fd = fd
  BY <1>2
<1>6. /\ New \in Streams /\ Len(New.got) = 0 /\ New.taken = 0 /\ New.sent = 0
      /\ Window \in Nat
  BY TcpAssumption DEF New, Streams
<1>7. /\ stream' \in [fds' -> Streams] /\ stream'[fd] = New
      /\ \A f \in fds : stream'[f] = stream[f]
  BY <1>2, <1>6 DEF Inv, StateOK
<1>8. StateOK'
  BY <1>1, <1>2, <1>4, <1>5, <1>6, <1>7 DEF Inv, StateOK, callvars
<1>9. socket_fd # Closed => stream'[socket_fd] = stream[socket_fd]
  BY <1>4, <1>7
<1> QED BY <1>1, <1>3, <1>8, <1>9, TryStep

LEMMA HandleStep ==
    ASSUME Inv, Handle
    PROVE  Inv'
<1>0. /\ request.op # "none" => request # None
      /\ connecting # Resting => request.op = "connect"
      /\ connecting.left \in 0..MaxAddresses /\ MaxAddresses \in Nat
  BY RequestIs, TcpAssumption DEF Inv, RequestInv, StateOK
<1>s. \A status : Status(status).op = request.op /\ Status(status).status = status
  BY DEF Status
<1>o. \A body : Ok(body).op = request.op /\ Ok(body).status = "OK" /\ Ok(body).body = body
  BY DEF Ok
<1>1. CASE ConnectRefused
  <2>1. PICK status \in {"BAD_REQUEST", "DENIED", "DNS_FAILED"} : Answer(Status(status))
    BY <1>1 DEF ConnectRefused
  <2>2. /\ request # None /\ connecting' = Resting /\ Without(connecting.fd)
        /\ UNCHANGED <<socket_fd, finished, client>>
    BY <1>0, <1>1, Still DEF ConnectRefused, Keep
  <2> QED BY <1>s, <2>1, <2>2, Unmoved
<1>2. CASE ConnectResolved
  <2>1. PICK n \in 1..MaxAddresses :
          connecting' = [left |-> n, errno |-> "none", fd |-> Closed]
    BY <1>2 DEF ConnectResolved
  <2>2. /\ connecting'.left \in 0..MaxAddresses /\ connecting'.errno = "none"
        /\ connecting'.fd = Closed /\ connecting'.left # 0
    BY <1>0, <2>1
  <2>3. /\ request.op = "connect" /\ Without(connecting.fd)
        /\ UNCHANGED <<callvars, socket_fd, finished, client>>
    BY <1>2, Still DEF ConnectResolved, Keep
  <2>4. StateOK' /\ (socket_fd # Closed => stream'[socket_fd] = stream[socket_fd])
    BY <2>2, <2>3, Giving DEF callvars
  <2> QED BY <2>3, <2>4, TryStep
<1>3. CASE AddressFails
  <2>1. request.op = "connect" /\ request # None
    BY <1>0, <1>3, AtRest DEF AddressFails
  <2>2. /\ Without(connecting.fd) /\ UNCHANGED <<socket_fd, finished, client>>
        /\ connecting.left > 0
    BY <1>3 DEF AddressFails
  <2>0. PICK errno \in {"ETIMEDOUT", "other"} : NextAddress(errno)
    BY <1>3 DEF AddressFails
  <2>3. CASE connecting.left > 1
    <3>1. /\ connecting' = [left |-> connecting.left - 1, errno |-> errno,
                            fd |-> Closed]
          /\ UNCHANGED callvars
      BY <2>0, <2>3 DEF NextAddress
    <3>2. /\ connecting'.left \in 0..MaxAddresses /\ connecting'.left # 0
          /\ connecting'.errno = errno /\ connecting'.fd = Closed
      BY <1>0, <2>3, <3>1
    <3>3. StateOK' /\ (socket_fd # Closed => stream'[socket_fd] = stream[socket_fd])
      BY <2>2, <3>1, <3>2, Giving DEF callvars
    <3> QED BY <2>1, <2>2, <3>1, <3>3, TryStep
  <2>4. CASE ~(connecting.left > 1)
    <3>1. connecting' = Resting
      BY <2>0, <2>4 DEF NextAddress
    <3>2. PICK status \in {"TIMEOUT", "CONNECT_FAILED"} : Answer(Status(status))
      BY <2>0, <2>4 DEF NextAddress
    <3> QED BY <1>s, <2>1, <2>2, <3>1, <3>2, Unmoved
  <2> QED BY <2>3, <2>4
<1>14. CASE AddressOpens
  BY <1>14, OpenStep
<1>4. CASE AddressConnects
  BY <1>4, ConnectStep
<1>5. CASE NotConnected
  <2>1. /\ request # None /\ connecting' = Resting /\ Without(connecting.fd)
        /\ UNCHANGED <<socket_fd, finished, client>>
        /\ socket_fd = Closed /\ Answer(Status("NOT_CONNECTED"))
    BY <1>0, <1>5, Still DEF NotConnected, conn, Keep
  <2> QED BY <1>s, <2>1, Unmoved
<1>6. CASE StreamFails
  <2>1. /\ request # None /\ CloseConnection
        /\ connecting = Resting /\ connecting' = Resting
        /\ UNCHANGED client /\ Answer(Status("IO_ERROR"))
    BY <1>0, <1>6 DEF StreamFails
  <2> QED BY <1>s, <2>1, Ending
<1>7. CASE WriteSome
  BY <1>7, WriteStep
<1>8. CASE WriteTimesOut
  <2>1. /\ request # None /\ connecting' = Resting /\ Without(connecting.fd)
        /\ UNCHANGED <<socket_fd, finished, client>>
        /\ Answer(Status("TIMEOUT"))
    BY <1>0, <1>8, Still DEF WriteTimesOut, conn, Keep
  <2> QED BY <1>s, <2>1, Unmoved
<1>9. CASE ReadNothing
  <2>1. /\ request.op = "read" /\ socket_fd # Closed /\ Keep
        /\ connecting' = connecting /\ UNCHANGED client /\ Answer(Ok(<<0, 0>>))
    BY <1>9 DEF ReadNothing, Live, conn, Keep
  <2>2. request # None /\ connecting = Resting /\ (awaited => belief = "up")
    BY <2>1, Reading
  <2>3. Carries(<<0, 0>>, <<>>)
    BY DEF Carries
  <2>4. /\ connecting' = Resting /\ Without(connecting.fd)
        /\ UNCHANGED <<socket_fd, finished>>
    BY <2>1, <2>2, Still DEF Keep
  <2> QED BY <1>o, <2>1, <2>2, <2>3, <2>4, Unmoved
<1>10. CASE ReadSome
  BY <1>10, ReadStep
<1>11. CASE ReadEnd
  <2>1. /\ request.op = "read" /\ request # None /\ CloseConnection
        /\ connecting = Resting /\ connecting' = Resting
        /\ UNCHANGED client /\ Answer(Ok(<<1, 0>>))
        /\ Pending = 0 /\ socket_fd # Closed
    BY <1>0, <1>11 DEF ReadEnd, Live
  <2>2. ASSUME awaited PROVE ReadAll'
    <3>1. belief = "up" /\ Level
      BY <2>1, <2>2, Reading, Handling
    <3>2. received = After(since.read, stream[socket_fd].taken - since.read)
      BY <3>1 DEF Level, Whole
    <3>3. /\ stream[socket_fd].taken \in Nat /\ stream[socket_fd].sent \in Nat
          /\ Pending = stream[socket_fd].sent - stream[socket_fd].taken
      BY <2>1, CurrentStream, TcpAssumption
    <3>4. stream[socket_fd].taken = stream[socket_fd].sent
      BY <2>1, <3>3
    <3>5. finished' = stream[socket_fd].taken
      BY <2>1, <3>4 DEF CloseConnection, Finish
    <3> QED BY <2>1, <3>2, <3>5 DEF ReadAll, client
  <2> QED BY <1>o, <2>1, <2>2, Ending
<1>12. CASE Close
  <2>1. /\ request.op = "close" /\ request # None /\ CloseConnection
        /\ connecting = Resting /\ connecting' = Resting /\ UNCHANGED client /\ Answer(Ok(<<>>))
    BY <1>0, <1>12 DEF Close
  <2> QED BY <1>o, <2>1, Ending
<1>13. CASE Enquire
  <2>1. /\ request # None /\ connecting' = Resting /\ Without(connecting.fd)
        /\ UNCHANGED <<socket_fd, finished, client>>
    BY <1>0, <1>13, Still DEF Enquire, HandleCapabilities, HandleStatus, conn, Keep
  <2>2. CASE request.op = "bad" /\ Answer(Status("BAD_REQUEST"))
    BY <1>s, <2>1, <2>2, Unmoved
  <2>3. CASE HandleCapabilities
    BY <1>o, <2>1, <2>3, Unmoved DEF HandleCapabilities
  <2>4. CASE HandleStatus
    BY <1>o, <2>1, <2>4, Unmoved DEF HandleStatus
  <2> QED BY <1>13, <2>2, <2>3, <2>4 DEF Enquire
<1> QED BY <1>1, <1>2, <1>3, <1>4, <1>5, <1>6, <1>7, <1>8, <1>9, <1>10, <1>11,
           <1>12, <1>13, <1>14 DEF Handle
-----------------------------------------------------------------------------
(***************************************************************************)
(* The peers and the client.                                               *)
(***************************************************************************)

\* What a peer does changes neither what it got nor what the proxy took.
LEMMA PeerStep ==
    ASSUME Inv, NEW fd \in fds \ {connecting.fd},
           PeerSends(fd) \/ PeerEnds(fd) \/ PeerResets(fd)
    PROVE  Inv'
<1>0. /\ socket_fd' = socket_fd /\ fds' = fds /\ connecting' = connecting
      /\ finished' = finished /\ request' = request /\ reply' = reply
      /\ awaited' = awaited
      /\ belief' = belief /\ mine' = mine /\ acked' = acked
      /\ received' = received /\ ended' = ended /\ since' = since
  BY DEF PeerSends, PeerEnds, PeerResets, callvars, client
<1>1. socket_fd = fd /\ socket_fd # Closed
  BY DEF Inv, StateOK
<1>2. /\ stream[fd] \in Streams /\ stream[fd].sent \in 0..MaxSent
      /\ stream[fd].taken \in 0..MaxSent /\ stream[fd].taken =< stream[fd].sent
      /\ Len(stream[fd].got) =< Window /\ MaxSent \in Nat
  BY <1>1, CurrentStream, TcpAssumption DEF Inv, StateOK
<1>3. PICK s \in Streams :
        /\ stream' = [stream EXCEPT ![fd] = s]
        /\ s.got = stream[fd].got /\ s.taken = stream[fd].taken
        /\ s.taken =< s.sent
  <2>1. CASE PeerSends(fd)
    <3> DEFINE s == [stream[fd] EXCEPT !.sent = @ + 1]
    <3>1. stream' = [stream EXCEPT ![fd] = s] /\ stream[fd].sent < MaxSent
      BY <2>1 DEF PeerSends
    <3>2. s \in Streams /\ s.got = stream[fd].got /\ s.taken = stream[fd].taken
          /\ s.taken =< s.sent
      <4>1. stream[fd].sent + 1 \in 0..MaxSent /\ stream[fd].taken =< stream[fd].sent + 1
        BY <1>2, <3>1
      <4> QED BY <1>2, <4>1 DEF Streams
    <3> QED BY <3>1, <3>2
  <2>2. CASE PeerEnds(fd)
    <3> DEFINE s == [stream[fd] EXCEPT !.peer = "ended"]
    <3>1. stream' = [stream EXCEPT ![fd] = s]
      BY <2>2 DEF PeerEnds
    <3>2. s \in Streams /\ s.got = stream[fd].got /\ s.taken = stream[fd].taken
          /\ s.taken =< s.sent
      BY <1>2 DEF Streams
    <3> QED BY <3>1, <3>2
  <2>3. CASE PeerResets(fd)
    <3> DEFINE s == [stream[fd] EXCEPT !.peer = "reset"]
    <3>1. stream' = [stream EXCEPT ![fd] = s]
      BY <2>3 DEF PeerResets
    <3>2. s \in Streams /\ s.got = stream[fd].got /\ s.taken = stream[fd].taken
          /\ s.taken =< s.sent
      BY <1>2 DEF Streams
    <3> QED BY <3>1, <3>2
  <2> QED BY <2>1, <2>2, <2>3
<1>4. StateOK' /\ EndInv' /\ stream'[socket_fd] = s
  BY <1>0, <1>1, <1>2, <1>3, StreamMoves DEF client
<1>5. /\ stream'[socket_fd'].got = stream[socket_fd].got
      /\ stream'[socket_fd'].taken = stream[socket_fd].taken
  BY <1>0, <1>1, <1>3, <1>4
<1>6. /\ Agree' = Agree /\ Level' = Level /\ Unsent' = Unsent
      /\ Truthful' = Truthful
  <2>1. /\ Agree' = Agree /\ ReadAll' = ReadAll
        /\ \A a, r : Whole(a, r)' = Whole(a, r)
    BY <1>0, <1>5 DEF Agree, ReadAll, Whole
  <2>2. Unsent' = Unsent /\ Level' = Level
    BY <1>0, <2>1 DEF Unsent, Level
  <2> QED BY <1>0, <1>5, <2>1, <2>2 DEF Truthful
<1>7. ClientOK' /\ RequestInv' /\ ReplyInv'
  BY <1>0, <1>6 DEF Inv, ClientOK, RequestInv, ReplyInv
<1> QED BY <1>4, <1>7 DEF Inv

LEMMA CallStep ==
    ASSUME Inv, ClientCalls
    PROVE  Inv'
<1>0. /\ Quiet /\ reply' = reply /\ awaited' = TRUE
      /\ socket_fd' = socket_fd /\ fds' = fds /\ stream' = stream
      /\ connecting' = connecting /\ finished' = finished
      /\ belief' = belief /\ mine' = mine /\ acked' = acked
      /\ received' = received /\ ended' = ended /\ since' = since
  <2>1. PICK what : Ask(what)
    BY DEF ClientCalls
  <2> QED BY <2>1 DEF Ask, Call, conn, client
<1>1. request = None /\ reply = None /\ Level /\ connecting = Resting
  BY <1>0 DEF Quiet, Inv, ReplyInv, RequestInv, None
<1>2. StateOK' /\ ClientOK' /\ EndInv'
  BY <1>0 DEF Inv, StateOK, ClientOK, EndInv, ReadAll
<1>3. ReplyInv'
  BY <1>0, <1>1, LevelKept DEF ReplyInv, client
<1>4. /\ request'.op \in Ops
      /\ request'.op = "read" => request'.maximum \in 0..Capacity
      /\ request'.op = "write" => request'.data = Unsent
      /\ request'.op \in {"read", "write"} => belief # "unknown"
  BY DEF ClientCalls, Ask, Call, Ops
<1>5. Unsent' = Unsent /\ Unsent \in Seq(1..Window)
  BY <1>0, UnsentIs DEF Unsent, Inv, ClientOK
<1>6. RequestInv'
  BY <1>0, <1>1, <1>4, <1>5 DEF RequestInv
<1> QED BY <1>2, <1>3, <1>6 DEF Inv

LEMMA StartIs ==
    Start \in Places /\ Start.written = 0 /\ Start.read = 0
  BY TcpAssumption DEF Start, Places

\* The client comes to believe nothing, or that it has a stream it knows.
LEMMA StartingOK ==
    ASSUME Inv, NEW what \in {"up", "unknown"}, NEW fd \in {socket_fd, Closed},
           NEW place \in Places, Starts(what, fd, place)
    PROVE  ClientOK' /\ EndInv'
<1>1. 0 \in 0..Window /\ <<>> \in Seq(1..MaxSent) /\ Len(<<>>) =< MaxSent
  BY TcpAssumption
<1>2. fd \in Descriptors \cup {Closed}
  BY DEF Inv, StateOK
<1> QED BY <1>1, <1>2 DEF Starts, ClientOK, EndInv

LEMMA LoseStep ==
    ASSUME Inv, ClientLosesLink
    PROVE  Inv'
<1>0. /\ awaited' = FALSE /\ reply' = None
      /\ request' = request \/ (connecting = Resting /\ request' = None)
      /\ socket_fd' = socket_fd /\ fds' = fds /\ stream' = stream
      /\ connecting' = connecting /\ finished' = finished
      /\ Starts("unknown", Closed, Start)
  BY DEF ClientLosesLink, GiveUp, conn
<1>1. ClientOK' /\ EndInv' /\ belief' = "unknown"
  BY <1>0, StartingOK, StartIs DEF Starts
<1>2. StateOK'
  BY <1>0 DEF Inv, StateOK
<1>3. RequestInv'
  BY <1>0, <1>1 DEF Inv, RequestInv, None
<1>4. ReplyInv'
  BY <1>0, <1>1 DEF ReplyInv, Level, Agree, Whole
<1> QED BY <1>1, <1>2, <1>3, <1>4 DEF Inv

LEMMA RestartStep ==
    ASSUME Inv, Restart
    PROVE  Inv'
<1>0. /\ awaited' = FALSE /\ reply' = None /\ request' = None /\ request = None
      /\ CloseConnection /\ connecting' = connecting /\ Starts("unknown", Closed, Start)
  BY DEF Restart, Restarted
<1>1. ClientOK' /\ EndInv' /\ belief' = "unknown"
  BY <1>0, StartingOK, StartIs DEF Starts
<1>2. StateOK'
  <2>1. connecting = Resting
    BY <1>0 DEF Inv, RequestInv, None
  <2>2. socket_fd' = Closed /\ fds' = {} /\ stream' \in [fds' -> Streams]
    BY <1>0, <2>1, Closing
  <2>3. finished' \in 0..MaxSent
    BY <1>0, CurrentStream DEF Inv, StateOK, CloseConnection, Finish
  <2> QED BY <1>0, <2>1, <2>2, <2>3, AtRest DEF Inv, StateOK
<1>3. RequestInv'
  BY <1>0 DEF Inv, RequestInv, None
<1>4. ReplyInv'
  BY <1>0, <1>1 DEF ReplyInv, Level, Agree, Whole
<1> QED BY <1>1, <1>2, <1>3, <1>4 DEF Inv

\* A client that takes the response is level with the plugin.
LEMMA TakeStep ==
    ASSUME Inv, ClientTakes
    PROVE  Inv'
<1>0. /\ reply # None /\ reply' = None /\ awaited' = FALSE /\ request' = request
      /\ socket_fd' = socket_fd /\ fds' = fds /\ stream' = stream
      /\ connecting' = connecting /\ finished' = finished
  BY DEF ClientTakes, Take, conn
<1>1. Truthful /\ reply.op \in Ops /\ request = None /\ ClientOK /\ EndInv
  BY <1>0 DEF Inv, ReplyInv
<1>2. StateOK'
  BY <1>0 DEF Inv, StateOK
<1>3. RequestInv'
  BY <1>0, <1>1 DEF Inv, RequestInv, None
<1>g. SUFFICES ClientOK' /\ EndInv' /\ Level'
  BY <1>0, <1>2, <1>3 DEF Inv, ReplyInv
<1>d. ASSUME Learns("down"), socket_fd = Closed PROVE ClientOK' /\ EndInv' /\ Level'
  BY <1>0, <1>1, <1>d DEF Learns, ClientOK, EndInv, ReadAll, Level, Agree, Whole
<1>u. ASSUME UNCHANGED client, Level PROVE ClientOK' /\ EndInv' /\ Level'
  <2>1. Level'
    BY <1>0, <1>u, LevelKept DEF client
  <2> QED BY <1>0, <1>1, <1>u, <2>1 DEF client, ClientOK, EndInv, ReadAll
<1>4. CASE reply.status # "OK"
  <2>1. ClientFails
    BY <1>4 DEF ClientTakes
  <2>2. CASE reply.status \in {"IO_ERROR", "NOT_CONNECTED"}
    BY <1>1, <1>4, <1>d, <2>1, <2>2 DEF ClientFails, Truthful
  <2>3. CASE reply.status \notin {"IO_ERROR", "NOT_CONNECTED"}
    BY <1>1, <1>4, <1>u, <2>1, <2>3 DEF ClientFails, Truthful
  <2> QED BY <2>2, <2>3
<1>5. CASE reply.status = "OK" /\ reply.op = "connect"
  <2>1. /\ reply.body \in {<<4>>, <<6>>} /\ socket_fd # Closed
        /\ stream[socket_fd].got = <<>> /\ stream[socket_fd].taken = 0
    BY <1>1, <1>5 DEF Truthful
  <2>2. Len(reply.body) = 1 /\ reply.body[1] \in {4, 6}
    BY <2>1
  <2>3. WellFormed
    BY <1>5, <2>2 DEF WellFormed
  <2>4. Starts("up", socket_fd, Start)
    BY <1>5, <2>3 DEF ClientTakes
  <2>5. ClientOK' /\ EndInv'
    BY <2>4, StartingOK, StartIs
  <2>6. After(0, 0) = <<>> /\ SubSeq(<<>>, 0 + 1, 0) = <<>> /\ Len(<<>>) = 0
    BY AfterNothing
  <2>7. belief' = "up" /\ Agree'
    BY <1>0, <2>1, <2>4 DEF Starts, Agree
  <2>8. Whole(acked, received)'
    <3>1. /\ since'.written = 0 /\ since'.read = 0 /\ acked' = 0 /\ received' = <<>>
          /\ stream'[socket_fd'].got = <<>> /\ stream'[socket_fd'].taken = 0
      BY <1>0, <2>1, <2>4, StartIs DEF Starts
    <3>2. /\ SubSeq(<<>>, 0 + 1, Len(<<>>)) = <<>> /\ 0 - 0 = 0
          /\ 0 =< Len(<<>>) /\ 0 =< 0
      OBVIOUS
    <3> QED BY <2>6, <3>1, <3>2 DEF Whole
  <2>9. Level'
    BY <2>7, <2>8 DEF Level
  <2> QED BY <2>5, <2>9
<1>6. CASE reply.status = "OK" /\ reply.op = "write"
  <2>1. PICK n \in 1..Len(Unsent) :
          reply.body = <<n>> /\ belief = "up" /\ Agree /\ Whole(acked + n, received)
    BY <1>1, <1>6 DEF Truthful
  <2>2. PICK m \in 0..(Window - acked) : Len(Unsent) = m
    BY <1>1, UnsentIs DEF ClientOK
  <2>3. n \in Nat /\ n =< Len(Unsent) /\ acked + n \in 0..Window
    BY <1>1, <2>2, TcpAssumption DEF ClientOK
  <2>4. WellFormed
    <3>1. Len(reply.body) = 1 /\ reply.body[1] = n
      BY <2>1
    <3> QED BY <1>6, <2>3, <3>1 DEF WellFormed
  <2>5. ClientWrites
    BY <1>6, <2>4 DEF ClientTakes
  <2>6. acked' = acked + n /\ UNCHANGED <<belief, mine, received, ended, since>>
    BY <2>1, <2>5 DEF ClientWrites
  <2>7. ClientOK' /\ EndInv'
    BY <1>0, <1>1, <2>3, <2>6 DEF ClientOK, EndInv, ReadAll
  <2>8. Level'
    BY <1>0, <2>1, <2>6 DEF Level, Agree, Whole
  <2> QED BY <2>7, <2>8
<1>7. CASE reply.status = "OK" /\ reply.op = "read" /\ reply.body = <<1, 0>>
  <2>1. socket_fd = Closed /\ ReadAll
    <3>1. ~\E data \in Seq(1..MaxSent) : Carries(reply.body, data)
      <4>1. reply.body[1] = 1
        BY <1>7
      <4> QED BY <4>1, CarriedData
    <3> QED BY <1>1, <1>7, <3>1 DEF Truthful
  <2>2. Len(reply.body) = 2 /\ reply.body[1] = 1 /\ reply.body[2] = 0
    BY <1>7
  <2>3. WellFormed
    BY <1>7, <2>2 DEF WellFormed
  <2>4. ClientReads
    BY <1>7, <2>3 DEF ClientTakes
  <2>5. received \o SubSeq(reply.body, 3, reply.body[2] + 2) = received
    <3>1. SubSeq(<<1, 0>>, 3, 2) = <<>>
      OBVIOUS
    <3>2. received \in Seq(1..MaxSent)
      BY <1>1 DEF ClientOK
    <3>3. reply.body[2] + 2 = 2
      BY <2>2
    <3> QED BY <1>7, <3>1, <3>2, <3>3
  <2>6. /\ received' = received /\ belief' = "down" /\ ended' = TRUE
        /\ mine' = mine /\ acked' = acked /\ since' = since
    BY <2>2, <2>4, <2>5 DEF ClientReads
  <2> QED BY <1>0, <1>1, <2>1, <2>6
          DEF ClientOK, EndInv, ReadAll, Level, Agree, Whole
<1>8. CASE reply.status = "OK" /\ reply.op = "read" /\ reply.body # <<1, 0>>
  <2>1. PICK data \in Seq(1..MaxSent) :
          /\ Carries(reply.body, data)
          /\ belief = "up" /\ Agree /\ Whole(acked, received \o data)
    BY <1>1, <1>8 DEF Truthful
  <2>2. /\ Len(reply.body) = Len(data) + 2 /\ Len(data) \in Nat
        /\ reply.body[1] = 0 /\ reply.body[2] = Len(data)
        /\ SubSeq(reply.body, 3, reply.body[2] + 2) = data
    BY <2>1, CarriedData
  <2>3. WellFormed
    BY <1>8, <2>2 DEF WellFormed
  <2>4. ClientReads
    BY <1>8, <2>3 DEF ClientTakes
  <2>5. /\ received' = received \o data /\ belief' = belief /\ ended' = FALSE
        /\ mine' = mine /\ acked' = acked /\ since' = since
    <3>1. reply.body[1] # 1
      BY <2>2
    <3> QED BY <2>2, <2>4, <3>1, Zenon DEF ClientReads
  <2>6. /\ received \o data \in Seq(1..MaxSent)
        /\ Len(received \o data) =< MaxSent
    <3>1. received \in Seq(1..MaxSent)
      BY <1>1 DEF ClientOK
    <3>2. received \o data \in Seq(1..MaxSent)
      BY <3>1
    <3>3. /\ since.read =< stream[socket_fd].taken
          /\ received \o data = After(since.read, stream[socket_fd].taken - since.read)
          /\ stream[socket_fd].taken \in 0..MaxSent
      BY <2>1, CurrentStream DEF Agree, Whole
    <3>4. since.read \in Nat /\ MaxSent \in Nat
      BY <1>1, TcpAssumption DEF ClientOK, Places
    <3>5. /\ stream[socket_fd].taken - since.read \in Nat
          /\ stream[socket_fd].taken - since.read =< MaxSent
      BY <3>3, <3>4
    <3>6. Len(received \o data) = stream[socket_fd].taken - since.read
      BY <3>3, <3>4, <3>5 DEF After
    <3> QED BY <3>2, <3>5, <3>6
  <2> QED BY <1>0, <1>1, <2>1, <2>5, <2>6 DEF ClientOK, EndInv, Level, Agree, Whole
<1>9. CASE reply.status = "OK" /\ reply.op = "close"
  <2>1. WellFormed
    BY <1>9 DEF WellFormed
  <2> QED BY <1>1, <1>9, <1>d, <2>1 DEF ClientTakes, Truthful
<1>10. CASE reply.status = "OK" /\ reply.op = "status"
  <2>1. reply.body = <<IF socket_fd = Closed THEN 0 ELSE 1>> /\ Level
    BY <1>1, <1>10 DEF Truthful
  <2>2. Len(reply.body) = 1 /\ reply.body[1] = IF socket_fd = Closed THEN 0 ELSE 1
    BY <2>1
  <2>3. WellFormed
    BY <1>10, <2>2 DEF WellFormed
  <2>4. ClientLearns
    BY <1>10, <2>3 DEF ClientTakes
  <2>5. CASE socket_fd = Closed
    BY <1>d, <2>2, <2>4, <2>5 DEF ClientLearns
  <2>6. CASE socket_fd # Closed /\ belief = "up"
    BY <1>u, <2>1, <2>2, <2>4, <2>6 DEF ClientLearns
  <2>7. CASE socket_fd # Closed /\ belief # "up"
    <3>1. Starts("up", Closed, Here)
      BY <2>2, <2>4, <2>7 DEF ClientLearns
    <3> DEFINE s == stream[socket_fd]
    <3>2. /\ s.taken \in 0..MaxSent /\ s.got \in Seq(1..Window)
          /\ Len(s.got) =< Window /\ MaxSent \in Nat /\ Window \in Nat
      BY <2>7, CurrentStream, TcpAssumption DEF Inv, StateOK
    <3>3. /\ Here.written = Len(s.got) /\ Here.read = s.taken
          /\ Here \in Places
      BY <3>2 DEF Here, Places
    <3>4. ClientOK' /\ EndInv'
      BY <3>1, <3>3, StartingOK
    <3>5. /\ s.taken \in Nat /\ s.taken - s.taken = 0
          /\ After(s.taken, 0) = <<>> /\ After(0, 0) = <<>>
      BY <3>2, AfterNothing
    <3>6. SubSeq(s.got, Len(s.got) + 1, Len(s.got)) = <<>> /\ Len(s.got) \in Nat
      BY <3>2, TailNothing
    <3>7. Agree' /\ stream'[socket_fd'] = s
      BY <1>0, <2>7, <3>1 DEF Starts, Agree
    <3>8. since' = Here /\ acked' = 0 /\ received' = <<>>
      BY <3>1 DEF Starts
    <3> HIDE DEF s
    <3>9. Whole(acked, received)'
      <4>1. /\ since'.written = Len(s.got) /\ since'.read = s.taken
            /\ Len(s.got) =< Len(s.got) /\ s.taken =< s.taken
        BY <3>3, <3>5, <3>6, <3>8
      <4> QED BY <3>5, <3>6, <3>7, <3>8, <4>1 DEF Whole
    <3> QED BY <3>4, <3>7, <3>9 DEF Level
  <2> QED BY <2>5, <2>6, <2>7
<1>11. CASE reply.status = "OK" /\ reply.op \in {"bad", "capabilities"}
  <2>1. WellFormed
    BY <1>11 DEF WellFormed
  <2>2. UNCHANGED client
    BY <1>11, <2>1 DEF ClientTakes
  <2>3. Level
    BY <1>1, <1>11 DEF Truthful
  <2> QED BY <1>u, <2>2, <2>3
<1> QED BY <1>1, <1>4, <1>5, <1>6, <1>7, <1>8, <1>9, <1>10, <1>11 DEF Ops
-----------------------------------------------------------------------------
(***************************************************************************)
(* The results.                                                            *)
(***************************************************************************)

LEMMA InvInit ==
    Init => Inv
<1> SUFFICES ASSUME Init PROVE Inv
  OBVIOUS
<1>0. 0 \in 0..MaxAddresses /\ 0 \in 0..Window /\ 0 \in 0..MaxSent
  BY TcpAssumption
<1>1. /\ socket_fd = Closed /\ fds = {} /\ stream \in [fds -> Streams]
      /\ request = None /\ reply = None /\ awaited = FALSE
  BY DEF Init, CallInit
<1>2. StateOK
  <2>1. /\ connecting = Resting /\ connecting.left = 0
        /\ connecting.errno = "none" /\ connecting.fd = Closed
    BY AtRest DEF Init
  <2>2. finished = 0
    BY DEF Init
  <2> QED BY <1>0, <1>1, <2>1, <2>2 DEF StateOK
<1>3. ClientOK /\ EndInv
  <2>1. <<>> \in Seq(1..MaxSent) /\ Len(<<>>) = 0 /\ 0 =< MaxSent
    BY TcpAssumption
  <2> QED BY <1>0, <2>1, StartIs DEF Init, ClientOK, EndInv
<1>4. RequestInv
  BY <1>1 DEF Init, RequestInv, None
<1>5. ReplyInv
  BY <1>1 DEF Init, ReplyInv, Level, Agree, Whole
<1> QED BY <1>2, <1>3, <1>4, <1>5 DEF Inv

LEMMA InvNext ==
    Inv /\ [Next]_vars => Inv'
<1>1. ASSUME Inv, Next PROVE Inv'
  BY <1>1, PeerStep, HandleStep, RestartStep, CallStep, TakeStep, LoseStep
     DEF Next
<1>2. ASSUME Inv, UNCHANGED vars PROVE Inv'
  <2>0. /\ socket_fd' = socket_fd /\ fds' = fds /\ stream' = stream
        /\ connecting' = connecting /\ finished' = finished
        /\ request' = request /\ reply' = reply /\ awaited' = awaited
        /\ belief' = belief /\ mine' = mine /\ acked' = acked
        /\ received' = received /\ ended' = ended /\ since' = since
    BY <1>2 DEF vars, callvars, conn, client
  <2>1. StateOK' /\ ClientOK' /\ EndInv'
    BY <1>2, <2>0 DEF Inv, StateOK, ClientOK, EndInv, ReadAll
  <2>2. /\ Unsent' = Unsent /\ Agree' = Agree /\ ReadAll' = ReadAll
        /\ \A a, r : Whole(a, r)' = Whole(a, r)
    BY <2>0 DEF Unsent, Agree, ReadAll, Whole
  <2>3. Level' = Level
    BY <2>0, <2>2 DEF Level
  <2>4. Truthful' = Truthful
    BY <2>0, <2>2, <2>3 DEF Truthful
  <2>5. RequestInv' /\ ReplyInv'
    BY <1>2, <2>0, <2>2, <2>3, <2>4 DEF Inv, RequestInv, ReplyInv
  <2> QED BY <2>1, <2>5 DEF Inv
<1> QED BY <1>1, <1>2

\* The inductive invariant: what is asked, what the response on its way tells,
\* and where it leaves the client.
THEOREM ProxyInvariant == Spec => []Inv
  BY InvInit, InvNext, PTL DEF Spec

\* Type correctness of the plugin, its streams and the client's counters.
THEOREM ProxyTypeCorrect == Spec => []TypeOK
<1>1. Inv => TypeOK
  <2> SUFFICES ASSUME Inv PROVE TypeOK
    OBVIOUS
  <2>1. None.op = "none"
    BY DEF None
  <2> QED BY <2>1 DEF Inv, StateOK, ClientOK, RequestInv, ReplyInv, Ops, TypeOK
<1> QED BY <1>1, ProxyInvariant, PTL

\* Between calls the client and the plugin agree on whether there is a stream
\* and which, and the process holds no other descriptor.
THEOREM ClientAndProxyAgree == Spec => []InStep
<1>1. Inv => InStep
  <2> SUFFICES ASSUME Inv, Quiet PROVE InStep
    BY DEF InStep
  <2>1. connecting = Resting /\ reply = None
    BY DEF Inv, RequestInv, ReplyInv, Quiet, None
  <2>2. fds = {socket_fd} \ {Closed}
    BY <2>1, AtRest DEF Inv, StateOK
  <2> QED BY <2>1, <2>2 DEF Inv, ReplyInv, Level, Agree, InStep
<1> QED BY <1>1, ProxyInvariant, PTL

\* handle_write, handle_read and the typed calls neither skip nor repeat a
\* byte, whatever is short, chunked or timed out, from where the client took up
\* the stream: its start, or where a lost response left it.
THEOREM StreamsExact == Spec => []StreamIntact
<1>1. Inv => StreamIntact
  BY DEF Inv, ReplyInv, Level, Agree, Whole, StreamIntact, Quiet
<1> QED BY <1>1, ProxyInvariant, PTL

\* handle_read reports the end of file after the last byte: the client has all
\* that the peer sent since the client took up the stream.
THEOREM EndComesLast == Spec => []EndAfterAll
<1>1. Inv => EndAfterAll
  BY DEF Inv, EndInv, ReadAll, EndAfterAll
<1> QED BY <1>1, ProxyInvariant, PTL
=============================================================================
