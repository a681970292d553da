------------------------ MODULE ClientExchangeProofs ------------------------
(***************************************************************************)
(* Proofs about the client's transaction, for every workspace, packet      *)
(* size, set of responses and number of link sessions.                     *)
(***************************************************************************)
EXTENDS ClientExchange, TLAPS

Reading == at \in {"length", "payload", "drain"}

\* Requests of this session so far, and the stream of the responses to them.
Sent == Len(packets[Channel])
Stream == produced[Channel]

StreamsOK ==
    /\ packets \in [Ports -> Seq(Packets)]
    /\ consumed \in [Ports -> Seq(Packets)]
    /\ produced \in [Ports -> Seq(Byte)]
    /\ delivered \in [Ports -> Nat]
    /\ delivered[Channel] =< Len(Stream)
    /\ answers \in Seq(Packets)
    /\ Len(answers) =< Sent
    /\ mine \in Nat \X Nat
    /\ mine[1] =< session

\* A part is never complete before a call to squid_recv.
PartInv ==
    Reading => /\ remaining > 0
               /\ Len(packet) < Part
               /\ at = "length" => remaining = 1
               /\ at = "payload" => remaining =< Capacity

\* The client sends no empty request, and a session starts with nothing.
SessionInv ==
    /\ at = "send" => request # <<>>
    /\ \A i \in 1..Sent : packets[Channel][i] # <<>>
    /\ ~link => Sent = 0 /\ Stream = <<>> /\ ~abandoned

\* Is the request of the call in hand one of this session?
Current == link /\ Reading /\ mine[1] = session

Answered == Len(answers) = Sent /\ answers[Sent] # <<>>

\* Where the response to the last request starts in the stream.
Base == Len(Stream) - 1 - Len(answers[Sent])

\* The response to the last request ends the stream.
LastAnswer ==
    /\ Base \in Nat
    /\ Stream[Base + 1] = Len(answers[Sent])
    /\ \A j \in 1..Len(answers[Sent]) : Stream[Base + 1 + j] = answers[Sent][j]

\* As long as no request of the session was given up, the client is at the
\* end of the stream between calls, and in a call at the place in the response
\* to its own request that it takes itself to be at.
FollowInv ==
    link /\ ~abandoned =>
      /\ ~Current => Len(answers) = Sent /\ read = Len(Stream)
      /\ Current =>
           /\ mine = <<session, Sent>>
           /\ Sent > 0 /\ Sent =< Len(answers) + 1
           /\ ~Answered => at = "length" /\ read = Len(Stream)
           /\ Answered =>
                /\ LastAnswer
                /\ at = "length" => read = Base
                /\ at = "payload" =>
                     /\ remaining = Len(answers[Sent])
                     /\ read = Base + 1 + Len(packet)
                     /\ \A j \in 1..Len(packet) : packet[j] = answers[Sent][j]
                /\ at = "drain" =>
                     /\ remaining =< Len(answers[Sent])
                     /\ read = Len(Stream) - remaining + Len(packet)

Inv == TypeOK /\ StreamsOK /\ PartInv /\ SessionInv /\ FollowInv
-----------------------------------------------------------------------------
(***************************************************************************)
(* Sequences and frames.                                                   *)
(***************************************************************************)
\* What Append makes of a sequence.
LEMMA AppendFacts ==
    ASSUME NEW S, NEW s \in Seq(S), NEW e \in S
    PROVE  /\ Append(s, e) \in Seq(S)
           /\ Len(Append(s, e)) = Len(s) + 1
           /\ \A i \in 1..Len(s) : Append(s, e)[i] = s[i]
           /\ Append(s, e)[Len(s) + 1] = e
PROOF OBVIOUS

\* What concatenation makes of two sequences.
LEMMA ConcatFacts ==
    ASSUME NEW S, NEW s \in Seq(S), NEW t \in Seq(S)
    PROVE  /\ s \o t \in Seq(S)
           /\ Len(s \o t) = Len(s) + Len(t)
           /\ \A i \in 1..Len(s) : (s \o t)[i] = s[i]
           /\ \A i \in 1..Len(t) : (s \o t)[Len(s) + i] = t[i]
PROOF OBVIOUS

\* The n elements of a sequence that follow the first m.
LEMMA SliceFacts ==
    ASSUME NEW S, NEW s \in Seq(S), NEW m \in Nat, NEW n \in Nat,
           m + n =< Len(s)
    PROVE  /\ SubSeq(s, m + 1, m + n) \in Seq(S)
           /\ Len(SubSeq(s, m + 1, m + n)) = n
           /\ \A i \in 1..n : SubSeq(s, m + 1, m + n)[i] = s[m + i]
PROOF OBVIOUS

\* Sequences with the same elements are the same.
LEMMA SameElements ==
    ASSUME NEW S, NEW s \in Seq(S), NEW t \in Seq(S), Len(s) = Len(t),
           \A i \in 1..Len(s) : s[i] = t[i]
    PROVE  s = t
PROOF OBVIOUS

\* Packets are byte sequences no longer than PacketMax.
LEMMA PacketType ==
    ASSUME NEW p \in Packets
    PROVE  /\ p \in Seq(Byte)
           /\ Len(p) \in Nat
           /\ Len(p) =< PacketMax
           /\ p # <<>> => Len(p) > 0
PROOF
<1>1. PICK n \in 0..PacketMax : p \in [1..n -> Payload]
  BY DEF Packets
<1>2. n \in Nat /\ n =< PacketMax
  BY FramingAssumption
<1>3. p \in [1..n -> Byte]
  BY <1>1, FramingAssumption
<1>4. p \in Seq(Byte) /\ Len(p) = n
  BY <1>2, <1>3
<1> QED BY <1>2, <1>4

\* The empty sequence is a packet.
LEMMA EmptyPacket == <<>> \in Packets
PROOF
<1>1. <<>> \in [1..0 -> Payload]
  OBVIOUS
<1>2. 0 \in 0..PacketMax
  BY FramingAssumption
<1> QED BY <1>1, <1>2 DEF Packets

\* A frame is the length of the packet and then its bytes.
LEMMA FrameFacts ==
    ASSUME NEW p \in Packets
    PROVE  /\ Frame(p) \in Seq(Byte)
           /\ Len(Frame(p)) = Len(p) + 1
           /\ Frame(p)[1] = Len(p)
           /\ \A j \in 1..Len(p) : Frame(p)[1 + j] = p[j]
PROOF
<1>1. p \in Seq(Byte) /\ Len(p) \in Nat /\ Len(p) \in Byte
  BY PacketType, FramingAssumption DEF Byte
<1>2. <<Len(p)>> \in Seq(Byte) /\ Len(<<Len(p)>>) = 1 /\ <<Len(p)>>[1] = Len(p)
  BY <1>1
<1> QED BY <1>1, <1>2, ConcatFacts DEF Frame
-----------------------------------------------------------------------------
(***************************************************************************)
(* What a state that satisfies Inv gives to every step.                    *)
(***************************************************************************)
\* The types that Inv fixes.
LEMMA Numbers ==
    ASSUME TypeOK, StreamsOK
    PROVE  /\ Capacity \in Nat /\ Capacity > 0 /\ Capacity =< PacketMax
           /\ PacketMax \in Nat /\ MaxSessions \in Nat
           /\ session \in Nat /\ read \in Nat
           /\ delivered[Channel] \in Nat /\ read =< delivered[Channel]
           /\ Stream \in Seq(Byte) /\ Len(Stream) \in Nat
           /\ delivered[Channel] =< Len(Stream)
           /\ packet \in Seq(Byte) /\ Len(packet) \in Nat
           /\ remaining \in Nat /\ remaining =< PacketMax
           /\ packets[Channel] \in Seq(Packets) /\ Sent \in Nat
           /\ consumed[Channel] \in Seq(Packets)
           /\ answers \in Seq(Packets) /\ Len(answers) \in Nat
           /\ mine[1] \in Nat /\ mine[2] \in Nat
PROOF
<1>1. Channel \in Ports /\ Capacity \in 1..PacketMax /\ MaxSessions \in Nat
  BY ClientAssumption
<1>2. PacketMax \in Nat
  BY FramingAssumption
<1>3. /\ packets[Channel] \in Seq(Packets) /\ consumed[Channel] \in Seq(Packets)
      /\ Stream \in Seq(Byte) /\ delivered[Channel] \in Nat
  BY <1>1 DEF StreamsOK, Stream
<1>4. /\ delivered[Channel] =< Len(Stream)
      /\ answers \in Seq(Packets) /\ mine \in Nat \X Nat
  BY DEF StreamsOK
<1>5. /\ session \in 0..MaxSessions /\ read \in 0..delivered[Channel]
      /\ packet \in Seq(Byte) /\ remaining \in 0..PacketMax
  BY DEF TypeOK
<1>6. /\ Len(Stream) \in Nat /\ Len(packet) \in Nat /\ Sent \in Nat
      /\ Len(answers) \in Nat
  BY <1>3, <1>4, <1>5 DEF Sent
<1> QED BY <1>1, <1>2, <1>3, <1>4, <1>5, <1>6

\* One call of squid_recv: it adds the next bytes of the stream, at most what
\* the part misses and what has arrived.
LEMMA Received ==
    ASSUME Inv, Reading
    PROVE  /\ Part \in Nat /\ Part > 0 /\ Part =< remaining /\ Part =< Capacity
           /\ remaining =< Capacity => Part = remaining
           /\ Count \in Nat /\ read + Count =< delivered[Channel]
           /\ Bytes \in Seq(Byte) /\ Len(Bytes) = Len(packet) + Count
           /\ Len(Bytes) =< Part
           /\ \A i \in 1..Len(packet) : Bytes[i] = packet[i]
           /\ \A i \in 1..Count : Bytes[Len(packet) + i] = Stream[read + i]
PROOF
<1> USE DEF Inv
<1>1. /\ Capacity \in Nat /\ Capacity > 0
      /\ read \in Nat /\ delivered[Channel] \in Nat /\ read =< delivered[Channel]
      /\ Stream \in Seq(Byte) /\ Len(Stream) \in Nat
      /\ delivered[Channel] =< Len(Stream)
      /\ packet \in Seq(Byte) /\ Len(packet) \in Nat /\ remaining \in Nat
  BY Numbers
<1>2. remaining > 0 /\ Len(packet) < Part
  BY DEF PartInv
<1>3. /\ Part \in Nat /\ Part > 0 /\ Part =< remaining /\ Part =< Capacity
      /\ remaining =< Capacity => Part = remaining
  BY <1>1, <1>2 DEF Part, Lesser
<1>4. /\ Count \in Nat /\ read + Count =< delivered[Channel]
      /\ Len(packet) + Count =< Part
  <2> HIDE DEF Part
  <2> QED BY <1>1, <1>2, <1>3 DEF Count, Lesser
<1>5. /\ SubSeq(Stream, read + 1, read + Count) \in Seq(Byte)
      /\ Len(SubSeq(Stream, read + 1, read + Count)) = Count
      /\ \A i \in 1..Count :
           SubSeq(Stream, read + 1, read + Count)[i] = Stream[read + i]
  <2>1. read + Count =< Len(Stream)
    BY <1>1, <1>4
  <2> QED BY <1>1, <1>4, <2>1, SliceFacts
<1>6. Bytes = packet \o SubSeq(Stream, read + 1, read + Count)
  BY DEF Bytes, Stream
<1>7. /\ Bytes \in Seq(Byte) /\ Len(Bytes) = Len(packet) + Count
      /\ \A i \in 1..Len(packet) : Bytes[i] = packet[i]
      /\ \A i \in 1..Count : Bytes[Len(packet) + i] = Stream[read + i]
  <2> DEFINE piece == SubSeq(Stream, read + 1, read + Count)
  <2> HIDE DEF piece
  <2>1. /\ piece \in Seq(Byte) /\ Len(piece) = Count
        /\ \A i \in 1..Count : piece[i] = Stream[read + i]
        /\ Bytes = packet \o piece
    BY <1>5, <1>6 DEF piece
  <2>2. /\ packet \o piece \in Seq(Byte)
        /\ Len(packet \o piece) = Len(packet) + Len(piece)
        /\ \A i \in 1..Len(packet) : (packet \o piece)[i] = packet[i]
        /\ \A i \in 1..Len(piece) : (packet \o piece)[Len(packet) + i] = piece[i]
    <3>1. packet \in Seq(Byte) /\ piece \in Seq(Byte)
      BY <1>1, <2>1
    <3> QED BY ONLY <3>1, SMTT(30)
  <2> QED BY <2>1, <2>2, Zenon
<1> QED BY <1>1, <1>3, <1>4, <1>7

\* A call whose request is not one of this session finds nothing to read.
LEMMA NothingToRead ==
    ASSUME Inv, Reading, ~abandoned, ~Current
    PROVE  Count = 0
PROOF
<1>1. /\ read \in Nat /\ delivered[Channel] \in Nat /\ Len(Stream) \in Nat
      /\ read =< delivered[Channel] /\ delivered[Channel] =< Len(Stream)
  BY Numbers DEF Inv
<1>2. Count \in Nat /\ read + Count =< delivered[Channel]
  BY Received
<1>3. CASE link
  BY <1>1, <1>2, <1>3 DEF Inv, FollowInv
<1>4. CASE ~link
  <2>1. Len(Stream) = 0
    BY <1>4 DEF Inv, SessionInv
  <2> QED BY <1>1, <1>2, <2>1
<1> QED BY <1>3, <1>4

\* A part that is complete is a part of the response to the call's own
\* request.
LEMMA PartIsOwn ==
    ASSUME Inv, Reading, ~abandoned, Len(Bytes) = Part
    PROVE  /\ Current /\ Answered
           /\ mine = <<session, Sent>> /\ Sent > 0
           /\ answers[Sent] \in Packets /\ Len(answers[Sent]) > 0
           /\ LastAnswer
           /\ at = "length" => /\ Bytes[1] = Len(answers[Sent])
                               /\ read + Count = Base + 1
           /\ at = "payload" => /\ Bytes = answers[Sent]
                                /\ read + Count = Len(Stream)
           /\ at = "drain" => /\ remaining =< Len(answers[Sent])
                              /\ read + Count = Len(Stream) - (remaining - Part)
PROOF
<1>n. /\ read \in Nat /\ delivered[Channel] \in Nat /\ Len(Stream) \in Nat
      /\ read =< delivered[Channel] /\ delivered[Channel] =< Len(Stream)
      /\ Len(packet) \in Nat /\ remaining \in Nat /\ Capacity \in Nat
      /\ Capacity > 0
      /\ answers \in Seq(Packets) /\ Sent \in Nat
  BY Numbers DEF Inv
<1>p. /\ Part \in Nat /\ Part > 0 /\ Part =< remaining /\ Part =< Capacity
      /\ remaining =< Capacity => Part = remaining
      /\ Count \in Nat /\ read + Count =< delivered[Channel]
      /\ Bytes \in Seq(Byte) /\ Len(Bytes) = Len(packet) + Count
      /\ \A i \in 1..Len(packet) : Bytes[i] = packet[i]
      /\ \A i \in 1..Count : Bytes[Len(packet) + i] = Stream[read + i]
  BY Received
<1>i. /\ Len(packet) < Part
      /\ at = "length" => remaining = 1
      /\ at = "payload" => remaining =< Capacity
  BY DEF Inv, PartInv
<1>1. Count > 0
  BY <1>n, <1>p, <1>i
<1>2. Current
  BY <1>1, <1>p, NothingToRead
<1>3. link
  BY <1>2 DEF Current
<1>4. /\ mine = <<session, Sent>> /\ Sent > 0
      /\ ~Answered => read = Len(Stream)
      /\ Answered =>
           /\ LastAnswer
           /\ at = "length" => read = Base
           /\ at = "payload" =>
                /\ remaining = Len(answers[Sent])
                /\ read = Base + 1 + Len(packet)
                /\ \A j \in 1..Len(packet) : packet[j] = answers[Sent][j]
           /\ at = "drain" =>
                /\ remaining =< Len(answers[Sent])
                /\ read = Len(Stream) - remaining + Len(packet)
  BY <1>2, <1>3 DEF Inv, FollowInv
<1>5. Answered
  BY <1>1, <1>4, <1>n, <1>p
<1>6. /\ answers[Sent] \in Packets /\ answers[Sent] \in Seq(Byte)
      /\ Len(answers[Sent]) \in Nat /\ Len(answers[Sent]) > 0
  <2>1. Sent \in 1..Len(answers)
    BY <1>4, <1>5, <1>n DEF Answered
  <2>2. answers[Sent] \in Packets
    BY <1>n, <2>1
  <2> QED BY <2>2, <1>5, PacketType DEF Answered
<1>7. LastAnswer
  BY <1>4, <1>5
<1>8. /\ Base \in Nat /\ Base = Len(Stream) - 1 - Len(answers[Sent])
      /\ Stream[Base + 1] = Len(answers[Sent])
      /\ \A j \in 1..Len(answers[Sent]) : Stream[Base + 1 + j] = answers[Sent][j]
  BY <1>7 DEF LastAnswer, Base
<1>9. ASSUME at = "length"
      PROVE  /\ Bytes[1] = Len(answers[Sent])
             /\ read + Count = Base + 1
  <2>1. remaining = 1 /\ read = Base
    BY <1>i, <1>4, <1>5, <1>9
  <2>2. Part = 1 /\ Len(packet) = 0 /\ Count = 1
    BY <2>1, <1>n, <1>p, <1>i
  <2>3. Bytes[Len(packet) + 1] = Stream[read + 1]
    BY <2>2, <1>p
  <2> QED BY <2>1, <2>2, <2>3, <1>8
<1>10. ASSUME at = "payload"
       PROVE  /\ Bytes = answers[Sent]
              /\ read + Count = Len(Stream)
  <2>1. /\ remaining = Len(answers[Sent])
        /\ read = Base + 1 + Len(packet)
        /\ \A j \in 1..Len(packet) : packet[j] = answers[Sent][j]
        /\ remaining =< Capacity
    BY <1>i, <1>4, <1>5, <1>10
  <2>2. Len(Bytes) = Len(answers[Sent])
    BY <2>1, <1>p
  <2>3. ASSUME NEW i \in 1..Len(Bytes)
        PROVE  Bytes[i] = answers[Sent][i]
    <3>1. CASE i \in 1..Len(packet)
      BY <3>1, <2>1, <1>p
    <3>2. CASE i \notin 1..Len(packet)
      <4> DEFINE k == i - Len(packet)
      <4>1. i \in Nat /\ i > Len(packet) /\ i =< Len(packet) + Count
        BY <3>2, <1>n, <1>p
      <4>2. k \in 1..Count /\ i = Len(packet) + k
        BY <4>1, <1>n, <1>p
      <4> HIDE DEF k
      <4>3. Bytes[i] = Stream[read + k]
        BY <4>2, <1>p
      <4>4. read + k = Base + 1 + i
        BY <4>2, <2>1, <1>n, <1>8
      <4>5. i \in 1..Len(answers[Sent])
        BY <2>2
      <4> QED BY <4>3, <4>4, <4>5, <1>8
    <3> QED BY <3>1, <3>2
  <2>4. Bytes = answers[Sent]
    BY <2>2, <2>3, <1>p, <1>6, SameElements
  <2>5. read + Count = Len(Stream)
    BY <2>1, <2>2, <1>8, <1>n, <1>p, <1>6
  <2> QED BY <2>4, <2>5
<1>11. ASSUME at = "drain"
       PROVE  /\ remaining =< Len(answers[Sent])
              /\ read + Count = Len(Stream) - (remaining - Part)
  <2>1. /\ remaining =< Len(answers[Sent])
        /\ read = Len(Stream) - remaining + Len(packet)
    BY <1>4, <1>5, <1>11, Zenon
  <2>2. /\ Part \in Nat /\ Count \in Nat /\ Part = Len(packet) + Count
        /\ read \in Nat /\ Len(Stream) \in Nat /\ remaining \in Nat
        /\ Len(packet) \in Nat
    BY <1>n, <1>p, Zenon
  <2> QED BY ONLY <2>1, <2>2
<1> QED BY <1>2, <1>4, <1>5, <1>6, <1>7, <1>9, <1>10, <1>11
-----------------------------------------------------------------------------
(***************************************************************************)
(* Every step keeps Inv.                                                   *)
(***************************************************************************)
LEMMA ClientInitially == ClientInit => Inv
PROOF
<1> SUFFICES ASSUME ClientInit PROVE Inv
  OBVIOUS
<1> USE ClientAssumption, FramingAssumption DEF ClientInit, Init
<1>1. Channel \in Ports /\ <<>> \in Packets
  BY EmptyPacket
<1>2. /\ packets[Channel] = <<>> /\ produced[Channel] = <<>>
      /\ consumed[Channel] = <<>> /\ delivered[Channel] = 0
      /\ Len(packets[Channel]) = 0 /\ Len(produced[Channel]) = 0
      /\ Len(consumed[Channel]) = 0 /\ Len(answers) = 0 /\ Len(packet) = 0
  BY <1>1
<1>3. TypeOK
  <2>1. /\ link \in BOOLEAN /\ waiting \in BOOLEAN /\ abandoned \in BOOLEAN
        /\ request \in Packets
        /\ at \in {"idle", "send", "length", "payload", "drain"}
        /\ outcome \in Errors \cup {"none", "ok"}
    BY <1>1
  <2>2. /\ session \in 0..MaxSessions /\ read \in 0..delivered[Channel]
        /\ epoch \in 0..session /\ remaining \in 0..PacketMax
        /\ packet \in Seq(Byte) /\ Len(packet) =< Capacity
    BY <1>2
  <2> QED BY <1>2, <2>1, <2>2 DEF TypeOK
<1>4. StreamsOK
  <2>1. /\ packets \in [Ports -> Seq(Packets)]
        /\ consumed \in [Ports -> Seq(Packets)]
        /\ produced \in [Ports -> Seq(Byte)]
        /\ delivered \in [Ports -> Nat]
    OBVIOUS
  <2>2. answers \in Seq(Packets) /\ mine \in Nat \X Nat /\ mine[1] =< session
    OBVIOUS
  <2> QED BY <1>2, <2>1, <2>2 DEF StreamsOK, Stream, Sent
<1>5. PartInv
  BY DEF PartInv, Reading
<1>6. SessionInv
  BY <1>2 DEF SessionInv, Sent, Stream
<1>7. FollowInv
  BY DEF FollowInv
<1> QED BY <1>3, <1>4, <1>5, <1>6, <1>7 DEF Inv

\* While the service and the history of the session stay as they are.
LEMMA StillThere ==
    ASSUME UNCHANGED <<vars, answers>>
    PROVE  /\ link' = link /\ Sent' = Sent /\ Stream' = Stream /\ Base' = Base
           /\ packets' = packets /\ consumed' = consumed
           /\ produced' = produced /\ delivered' = delivered
           /\ answers' = answers
           /\ Answered' = Answered /\ LastAnswer' = LastAnswer
PROOF
<1>1. /\ link' = link /\ packets' = packets /\ consumed' = consumed
      /\ produced' = produced /\ delivered' = delivered
      /\ answers' = answers
  BY DEF vars
<1>2. Sent' = Sent /\ Stream' = Stream
  BY <1>1 DEF Sent, Stream
<1>3. Base' = Base
  BY <1>1, <1>2 DEF Base
<1>4. Answered' = Answered
  BY <1>1, <1>2, Zenon DEF Answered
<1>5. LastAnswer' = LastAnswer
  BY <1>1, <1>2, <1>3, Zenon DEF LastAnswer
<1> QED BY <1>1, <1>2, <1>3, <1>4, <1>5

\* A step between calls, or one that ends a call without reading: a request
\* of this session that is given up is recorded as abandoned.
LEMMA QuietStep ==
    ASSUME Inv,
           UNCHANGED <<vars, session, read, packet, remaining, mine, answers>>,
           at' \in {"idle", "send"},
           at' = "send" => request' # <<>>,
           ~link => ~abandoned',
           link /\ ~abandoned' => ~abandoned /\ ~Current
    PROVE  StreamsOK' /\ PartInv' /\ SessionInv' /\ FollowInv'
PROOF
<1>1. /\ link' = link /\ Sent' = Sent /\ Stream' = Stream
      /\ packets' = packets /\ consumed' = consumed
      /\ produced' = produced /\ delivered' = delivered
      /\ answers' = answers
      /\ mine' = mine /\ session' = session /\ read' = read
  BY StillThere DEF vars
<1>2. StreamsOK'
  BY <1>1 DEF Inv, StreamsOK
<1>3. ~Reading' /\ ~Current'
  BY DEF Reading, Current
<1>4. PartInv'
  BY <1>3 DEF PartInv
<1>5. SessionInv'
  BY <1>1 DEF Inv, SessionInv
<1>6. FollowInv'
  <2> SUFFICES ASSUME link, ~abandoned'
               PROVE  Len(answers) = Sent /\ read = Len(Stream)
    BY <1>1, <1>3 DEF FollowInv
  <2> QED BY DEF Inv, FollowInv
<1> QED BY <1>2, <1>4, <1>5, <1>6

LEMMA BeginStep ==
    ASSUME Inv, NEW bytes \in Packets, Begin(bytes)
    PROVE  Inv'
PROOF
<1>1. /\ at = "idle" /\ request' = bytes
      /\ UNCHANGED <<vars, session, read, packet, remaining, mine, abandoned,
                     answers>>
  BY DEF Begin
<1>2. \/ /\ at' = "idle" /\ waiting' = FALSE /\ epoch' = epoch
         /\ outcome' \in {"argument", "link"}
      \/ /\ at' = "send" /\ epoch' = session /\ UNCHANGED <<waiting, outcome>>
         /\ Len(bytes) # 0
  BY DEF Begin, Return
<1>3. ~Current
  BY <1>1 DEF Current, Reading
<1>4. ~link => ~abandoned
  BY DEF Inv, SessionInv
<1>5. at' = "send" => request' # <<>>
  BY <1>1, <1>2
<1>6. at' \in {"idle", "send"}
  BY <1>2
<1>7. StreamsOK' /\ PartInv' /\ SessionInv' /\ FollowInv'
  BY <1>1, <1>3, <1>4, <1>5, <1>6, QuietStep
<1>8. TypeOK'
  <2>1. /\ link' = link /\ consumed' = consumed /\ delivered' = delivered
        /\ answers' = answers
    BY <1>1 DEF vars
  <2>2. session \in 0..MaxSessions /\ MaxSessions \in Nat /\ epoch \in 0..session
    BY ClientAssumption DEF Inv, TypeOK
  <2>3. epoch' \in 0..session
    BY <1>2, <2>2
  <2>5. waiting' \in BOOLEAN
    BY <1>2, Zenon DEF Inv, TypeOK
  <2>4. outcome' \in Errors \cup {"none", "ok"}
    BY <1>2 DEF Inv, TypeOK, Errors
  <2> QED BY <1>1, <1>6, <2>1, <2>3, <2>4, <2>5 DEF Inv, TypeOK
<1> QED BY <1>7, <1>8 DEF Inv

\* The steps that end a call without reading.
LEMMA EndStep ==
    ASSUME Inv, SendRefused \/ ReceiveFails \/ Cancel \/ LinkChanged
    PROVE  Inv'
PROOF
<1>1. /\ at' = "idle" /\ waiting' = FALSE
      /\ outcome' \in {"io", "cancelled", "link"}
      /\ UNCHANGED <<vars, session, read, request, epoch, packet, remaining,
                     mine, answers>>
  BY DEF SendRefused, ReceiveFails, Cancel, LinkChanged, GiveUp, Return
<1>2. abandoned \in BOOLEAN /\ (~link => ~abandoned)
  BY DEF Inv, TypeOK, SessionInv
<1>3. \/ at = "send" /\ abandoned' = abandoned
      \/ abandoned' = (abandoned \/ (link /\ mine[1] = session))
  BY DEF SendRefused, ReceiveFails, Cancel, LinkChanged, GiveUp
<1>4. /\ abandoned' \in BOOLEAN
      /\ ~link => ~abandoned'
      /\ link /\ ~abandoned' => ~abandoned /\ ~Current
  <2>1. CASE at = "send" /\ abandoned' = abandoned
    <3>1. ~Current
      BY <2>1 DEF Current, Reading
    <3> QED BY <1>2, <2>1, <3>1
  <2>2. CASE abandoned' = (abandoned \/ (link /\ mine[1] = session))
    BY <1>2, <2>2, Zenon DEF Current
  <2> QED BY <1>3, <2>1, <2>2
<1>5. StreamsOK' /\ PartInv' /\ SessionInv' /\ FollowInv'
  <2>1. at' \in {"idle", "send"} /\ (at' = "send" => request' # <<>>)
    BY <1>1
  <2> QED BY <1>1, <1>4, <2>1, QuietStep
<1>6. TypeOK'
  <2>1. /\ link' = link /\ consumed' = consumed /\ delivered' = delivered
        /\ answers' = answers
    BY <1>1 DEF vars
  <2>2. outcome' \in Errors \cup {"none", "ok"}
    BY <1>1 DEF Errors
  <2> QED BY <1>1, <1>4, <2>1, <2>2 DEF Inv, TypeOK
<1> QED BY <1>5, <1>6 DEF Inv

\* Back from the idle callback.
LEMMA KeepWaitingStep ==
    ASSUME Inv, KeepWaiting
    PROVE  Inv'
PROOF
<1>1. /\ waiting' = FALSE
      /\ UNCHANGED <<vars, session, read, at, request, epoch, packet,
                     remaining, outcome, mine, abandoned, answers>>
  BY DEF KeepWaiting
<1>2. /\ link' = link /\ Sent' = Sent /\ Stream' = Stream /\ Base' = Base
      /\ packets' = packets /\ consumed' = consumed
      /\ produced' = produced /\ delivered' = delivered
      /\ answers' = answers
      /\ Answered' = Answered /\ LastAnswer' = LastAnswer
  BY <1>1, StillThere
<1>3. TypeOK'
  BY <1>1, <1>2 DEF Inv, TypeOK
<1>4. StreamsOK'
  BY <1>1, <1>2 DEF Inv, StreamsOK
<1>5. Part' = Part /\ Reading' = Reading /\ Current' = Current
  BY <1>1, <1>2, Zenon DEF Part, Reading, Current
<1>6. PartInv'
  BY <1>1, <1>5 DEF Inv, PartInv
<1>7. SessionInv'
  BY <1>1, <1>2 DEF Inv, SessionInv
<1>8. FollowInv'
  BY <1>1, <1>2, <1>5 DEF Inv, FollowInv
<1> QED BY <1>3, <1>4, <1>6, <1>7, <1>8 DEF Inv

\* squid_send: the request is the newest of the session, and the client is at
\* the end of the stream it will be answered on.
LEMMA SendRequestStep ==
    ASSUME Inv, SendRequest
    PROVE  Inv'
PROOF
<1>1. /\ at = "send" /\ at' = "length" /\ packet' = <<>> /\ remaining' = 1
      /\ link /\ packets' = [packets EXCEPT ![Channel] = Append(@, request)]
      /\ UNCHANGED <<link, consumed, produced, delivered>>
      /\ mine' = <<session, Sent + 1>>
      /\ UNCHANGED <<session, read, waiting, request, epoch, outcome,
                     abandoned, answers>>
  BY DEF SendRequest, Send, Sent
<1>n. /\ Capacity \in Nat /\ Capacity > 0 /\ PacketMax \in Nat
      /\ session \in Nat /\ Sent \in Nat /\ Len(answers) \in Nat
      /\ packets[Channel] \in Seq(Packets)
  BY Numbers DEF Inv
<1>2. request \in Packets /\ request # <<>>
  BY <1>1 DEF Inv, TypeOK, SessionInv
<1>3. /\ packets'[Channel] = Append(packets[Channel], request)
      /\ packets' \in [Ports -> Seq(Packets)]
  BY <1>1, <1>2, <1>n, ClientAssumption DEF Inv, StreamsOK
<1>4. Sent' = Sent + 1 /\ Stream' = Stream
  BY <1>1, <1>2, <1>3, <1>n DEF Sent, Stream
<1>5. Len(packet') = 0 /\ packet' \in Seq(Byte)
  BY <1>1
<1>6. TypeOK'
  <2>1. remaining' \in 0..PacketMax /\ Len(packet') =< Capacity
    BY <1>1, <1>5, <1>n, FramingAssumption
  <2> QED BY <1>1, <1>5, <2>1 DEF Inv, TypeOK
<1>7. StreamsOK'
  <2>1. /\ consumed' \in [Ports -> Seq(Packets)]
        /\ produced' \in [Ports -> Seq(Byte)]
        /\ delivered' \in [Ports -> Nat]
        /\ delivered'[Channel] =< Len(Stream')
        /\ answers' \in Seq(Packets)
    BY <1>1, <1>4 DEF Inv, StreamsOK
  <2>2. Len(answers') =< Sent'
    BY <1>1, <1>4, <1>n DEF Inv, StreamsOK
  <2>3. mine' \in Nat \X Nat /\ mine'[1] =< session'
    BY <1>1, <1>n
  <2> QED BY <1>3, <2>1, <2>2, <2>3 DEF StreamsOK
<1>8. PartInv'
  <2>1. Part' = 1
    BY <1>1, <1>n DEF Part, Lesser
  <2> QED BY <1>1, <1>5, <2>1 DEF PartInv
<1>9. SessionInv'
  <2>1. \A i \in 1..Sent' : packets'[Channel][i] # <<>>
    <3> TAKE i \in 1..Sent'
    <3>1. i \in 1..Sent \/ i = Sent + 1
      BY <1>4, <1>n
    <3>2. CASE i \in 1..Sent
      <4>1. packets'[Channel][i] = packets[Channel][i]
        BY <1>2, <1>3, <1>n, <3>2, AppendFacts DEF Sent
      <4> QED BY <3>2, <4>1 DEF Inv, SessionInv
    <3>3. CASE i = Sent + 1
      BY <1>2, <1>3, <1>n, <3>3, AppendFacts DEF Sent
    <3> QED BY <3>1, <3>2, <3>3
  <2> QED BY <1>1, <2>1 DEF SessionInv
<1>10. FollowInv'
  <2> SUFFICES ASSUME ~abandoned PROVE FollowInv'
    BY <1>1 DEF FollowInv
  <2>1. Len(answers) = Sent /\ read = Len(Stream)
    BY <1>1 DEF Inv, FollowInv, Current, Reading
  <2>2. Current'
    BY <1>1 DEF Current, Reading
  <2>3. ~Answered'
    BY <1>1, <1>4, <1>n, <2>1 DEF Answered
  <2>4. Sent' > 0 /\ Sent' =< Len(answers') + 1
    BY <1>1, <1>4, <1>n, <2>1
  <2> QED BY <1>1, <1>4, <2>1, <2>2, <2>3, <2>4 DEF FollowInv
<1> QED BY <1>6, <1>7, <1>8, <1>9, <1>10 DEF Inv
-----------------------------------------------------------------------------
(***************************************************************************)
(* squid_recv leaves the service alone and moves on in the stream.         *)
(***************************************************************************)
LEMMA ReceiveFrame ==
    ASSUME Inv, Reading, read' = read + Count,
           UNCHANGED <<vars, session, request, epoch, mine, abandoned, answers>>,
           at' # "send",
           packet' \in Seq(Byte) /\ Len(packet') =< Capacity,
           at' \in {"idle", "send", "length", "payload", "drain"},
           waiting' \in BOOLEAN, remaining' \in 0..PacketMax,
           outcome' \in Errors \cup {"none", "ok"}
    PROVE  TypeOK' /\ StreamsOK' /\ SessionInv'
PROOF
<1>1. /\ link' = link /\ Sent' = Sent /\ Stream' = Stream
      /\ packets' = packets /\ consumed' = consumed
      /\ produced' = produced /\ delivered' = delivered
      /\ answers' = answers
  BY StillThere
<1>2. read' \in 0..delivered[Channel]
  <2>1. read \in Nat /\ delivered[Channel] \in Nat
    BY Numbers DEF Inv
  <2>2. Count \in Nat /\ read + Count =< delivered[Channel]
    BY Received
  <2> QED BY <2>1, <2>2
<1>3. TypeOK'
  BY <1>1, <1>2 DEF Inv, TypeOK
<1>4. StreamsOK'
  BY <1>1 DEF Inv, StreamsOK
<1>5. SessionInv'
  BY <1>1 DEF Inv, SessionInv
<1> QED BY <1>3, <1>4, <1>5

\* The part is not complete.
LEMMA ReceivePartStep ==
    ASSUME Inv, ReceivePart
    PROVE  Inv'
PROOF
<1>1. /\ Reading /\ Len(Bytes) < Part
      /\ read' = read + Count /\ packet' = Bytes /\ waiting' = TRUE
      /\ UNCHANGED <<vars, session, at, request, epoch, remaining, outcome,
                     mine, abandoned, answers>>
  BY DEF ReceivePart, Receiving, Reading
<1>2. /\ link' = link /\ Sent' = Sent /\ Stream' = Stream /\ Base' = Base
      /\ delivered' = delivered /\ answers' = answers
      /\ Answered' = Answered /\ LastAnswer' = LastAnswer
  BY <1>1, StillThere
<1>n. /\ read \in Nat /\ delivered[Channel] \in Nat /\ Len(Stream) \in Nat
      /\ delivered[Channel] =< Len(Stream) /\ read =< delivered[Channel]
      /\ Len(packet) \in Nat /\ remaining \in Nat /\ Capacity \in Nat
      /\ answers \in Seq(Packets) /\ Sent \in Nat
  BY Numbers DEF Inv
<1>p. /\ Part \in Nat /\ Part =< Capacity /\ Part =< remaining
      /\ Count \in Nat /\ read + Count =< delivered[Channel]
      /\ Bytes \in Seq(Byte) /\ Len(Bytes) = Len(packet) + Count
      /\ \A i \in 1..Len(packet) : Bytes[i] = packet[i]
      /\ \A i \in 1..Count : Bytes[Len(packet) + i] = Stream[read + i]
  BY <1>1, Received
<1>3. TypeOK' /\ StreamsOK' /\ SessionInv'
  <2>1. Len(packet') =< Capacity /\ packet' \in Seq(Byte)
    BY <1>1, <1>n, <1>p
  <2>2. /\ at' # "send" /\ at' \in {"idle", "send", "length", "payload", "drain"}
        /\ waiting' \in BOOLEAN
        /\ remaining' \in 0..PacketMax /\ outcome' \in Errors \cup {"none", "ok"}
    BY <1>1 DEF Reading, Inv, TypeOK
  <2> QED BY <1>1, <2>1, <2>2, ReceiveFrame
<1>4. Part' = Part /\ Reading' = Reading /\ Current' = Current
  BY <1>1, <1>2, Zenon DEF Part, Reading, Current
<1>5. PartInv'
  BY <1>1, <1>4 DEF Inv, PartInv
<1>6. FollowInv'
  <2> SUFFICES ASSUME link, ~abandoned PROVE FollowInv'
    BY <1>1, <1>2 DEF FollowInv
  <2>1. CASE ~Current
    <3>1. Count = 0
      BY <1>1, <2>1, NothingToRead
    <3>2. read' = read
      BY <1>1, <1>n, <3>1
    <3>3. Len(answers) = Sent /\ read = Len(Stream)
      BY <2>1 DEF Inv, FollowInv
    <3> QED BY <1>1, <1>2, <1>4, <2>1, <3>2, <3>3 DEF FollowInv
  <2>2. CASE Current
    <3>1. /\ mine = <<session, Sent>>
          /\ Sent > 0 /\ Sent =< Len(answers) + 1
      BY <2>2 DEF Inv, FollowInv
    <3>2. CASE ~Answered
      <4>1. at = "length" /\ read = Len(Stream)
        BY <2>2, <3>2 DEF Inv, FollowInv
      <4>2. read' = read
        BY <1>1, <1>n, <1>p, <4>1
      <4> QED BY <1>1, <1>2, <1>4, <2>2, <3>1, <3>2, <4>1, <4>2 DEF FollowInv
    <3>3. CASE Answered
      <4>1. /\ LastAnswer
            /\ at = "length" => read = Base
            /\ at = "payload" =>
                 /\ remaining = Len(answers[Sent])
                 /\ read = Base + 1 + Len(packet)
                 /\ \A j \in 1..Len(packet) : packet[j] = answers[Sent][j]
            /\ at = "drain" =>
                 /\ remaining =< Len(answers[Sent])
                 /\ read = Len(Stream) - remaining + Len(packet)
        BY <2>2, <3>3 DEF Inv, FollowInv
      <4>2. /\ Base \in Nat
            /\ \A j \in 1..Len(answers[Sent]) :
                 Stream[Base + 1 + j] = answers[Sent][j]
        BY <4>1 DEF LastAnswer
      <4>3. at = "length" => read' = Base
        <5>1. at = "length" => remaining = 1
          BY <1>1 DEF Inv, PartInv
        <5>2. at = "length" => Len(packet) = 0 /\ Count = 0
          BY <5>1, <1>1, <1>n, <1>p
        <5> QED BY <1>1, <1>n, <4>1, <5>2
      <4>4. ASSUME at = "drain"
            PROVE  /\ remaining =< Len(answers[Sent])
                   /\ read' = Len(Stream) - remaining + Len(Bytes)
        <5>1. /\ remaining =< Len(answers[Sent])
              /\ read = Len(Stream) - remaining + Len(packet)
          BY <4>1, <4>4
        <5> QED BY <1>1, <1>n, <1>p, <5>1
      <4>5. ASSUME at = "payload"
            PROVE  /\ read' = Base + 1 + Len(Bytes)
                   /\ \A j \in 1..Len(Bytes) : Bytes[j] = answers[Sent][j]
        <5>1. read' = Base + 1 + Len(Bytes)
          BY <1>1, <1>n, <1>p, <4>1, <4>2, <4>5
        <5>2. ASSUME NEW j \in 1..Len(Bytes)
              PROVE  Bytes[j] = answers[Sent][j]
          <6>1. CASE j \in 1..Len(packet)
            BY <4>1, <4>5, <6>1, <1>p
          <6>2. CASE j \notin 1..Len(packet)
            <7> DEFINE k == j - Len(packet)
            <7>1. /\ j \in Nat /\ j > Len(packet) /\ j =< Len(packet) + Count
              BY <6>2, <1>n, <1>p
            <7>2. k \in 1..Count /\ j = Len(packet) + k
              BY <7>1, <1>n, <1>p
            <7> HIDE DEF k
            <7>3. Bytes[j] = Stream[read + k]
              BY <7>2, <1>p
            <7>4. read + k = Base + 1 + j
              BY <7>2, <4>1, <4>2, <4>5, <1>n
            <7>5. j \in 1..Len(answers[Sent])
              BY <7>1, <1>1, <1>n, <1>p, <4>1, <4>5
            <7> QED BY <7>3, <7>4, <7>5, <4>2
          <6> QED BY <6>1, <6>2
        <5> QED BY <5>1, <5>2
      <4> QED BY <1>1, <1>2, <1>4, <2>2, <3>1, <3>3, <4>1, <4>3, <4>4, <4>5
          DEF FollowInv
    <3> QED BY <3>2, <3>3
  <2> QED BY <2>1, <2>2
<1> QED BY <1>3, <1>5, <1>6 DEF Inv

\* The length byte: that of the response to the client's own request.
LEMMA ReceiveLengthStep ==
    ASSUME Inv, ReceiveLength
    PROVE  Inv'
PROOF
<1>1. /\ Reading /\ at = "length" /\ waiting = FALSE /\ Len(Bytes) = Part
      /\ read' = read + Count /\ packet' = <<>> /\ remaining' = Bytes[1]
      /\ UNCHANGED <<vars, session, request, epoch, mine, abandoned, answers>>
  BY DEF ReceiveLength, Receiving, Reading, Inv, TypeOK
<1>2. /\ link' = link /\ Sent' = Sent /\ Stream' = Stream /\ Base' = Base
      /\ delivered' = delivered /\ answers' = answers
      /\ Answered' = Answered /\ LastAnswer' = LastAnswer
  BY <1>1, StillThere
<1>n. /\ Capacity \in Nat /\ Capacity > 0 /\ PacketMax \in Nat
      /\ Len(Stream) \in Nat
  BY Numbers DEF Inv
<1>3. Bytes[1] \in Nat /\ Bytes[1] =< PacketMax
  <2>1. Part \in Nat /\ Part > 0 /\ Bytes \in Seq(Byte)
    BY <1>1, Received
  <2>2. Bytes[1] \in Byte
    BY <1>1, <2>1
  <2> QED BY <2>2, <1>n DEF Byte
<1>4. \/ Bytes[1] = 0 /\ at' = "idle" /\ waiting' = FALSE /\ outcome' = "protocol"
      \/ /\ Bytes[1] > 0 /\ Bytes[1] > Capacity /\ at' = "drain"
         /\ waiting' = FALSE /\ outcome' = outcome
      \/ /\ Bytes[1] > 0 /\ Bytes[1] =< Capacity /\ at' = "payload"
         /\ waiting' = FALSE /\ outcome' = outcome
  BY <1>1, <1>3, <1>n DEF ReceiveLength, Return
<1>5. Len(packet') = 0 /\ packet' \in Seq(Byte)
  BY <1>1
<1>6. TypeOK' /\ StreamsOK' /\ SessionInv'
  <2>1. /\ at' # "send" /\ at' \in {"idle", "send", "length", "payload", "drain"}
        /\ waiting' \in BOOLEAN
    BY <1>4
  <2>2. outcome' \in Errors \cup {"none", "ok"}
    BY <1>4 DEF Inv, TypeOK, Errors
  <2>3. remaining' \in 0..PacketMax /\ Len(packet') =< Capacity
    BY <1>1, <1>3, <1>5, <1>n
  <2> QED BY <1>1, <1>5, <2>1, <2>2, <2>3, ReceiveFrame
<1>7. PartInv'
  <2> SUFFICES ASSUME Reading' PROVE PartInv'
    BY DEF PartInv
  <2>1. Bytes[1] > 0 /\ at' # "length"
    BY <1>4 DEF Reading
  <2>2. at' = "payload" => remaining' =< Capacity
    BY <1>1, <1>4
  <2>3. Len(packet') < Part'
    BY <1>1, <1>3, <1>5, <1>n, <2>1 DEF Part, Lesser
  <2> QED BY <1>1, <2>1, <2>2, <2>3 DEF PartInv
<1>8. FollowInv'
  <2> SUFFICES ASSUME link, ~abandoned PROVE FollowInv'
    BY <1>1, <1>2 DEF FollowInv
  <2>1. /\ Current /\ Answered /\ LastAnswer
        /\ mine = <<session, Sent>> /\ Sent > 0
        /\ answers[Sent] \in Packets /\ Len(answers[Sent]) > 0
        /\ Bytes[1] = Len(answers[Sent]) /\ read + Count = Base + 1
    BY <1>1, PartIsOwn
  <2>2. Len(answers) = Sent /\ Sent =< Len(answers) + 1
    BY <2>1, Numbers DEF Answered, Inv
  <2>3. at' = "payload" \/ at' = "drain"
    BY <1>3, <1>4, <2>1
  <2>4. Current'
    BY <1>1, <1>2, <2>1, <2>3 DEF Current, Reading
  <2>5. Base \in Nat /\ Base = Len(Stream) - 1 - Len(answers[Sent])
    BY <2>1 DEF LastAnswer, Base
  <2>6. /\ read' = Base + 1 + Len(packet')
        /\ read' = Len(Stream) - remaining' + Len(packet')
        /\ remaining' = Len(answers[Sent])
        /\ remaining' =< Len(answers[Sent])
    BY <1>1, <1>3, <1>5, <1>n, <2>1, <2>5
  <2>7. \A j \in 1..Len(packet') : packet'[j] = answers[Sent][j]
    BY <1>5
  <2>8. mine' = mine /\ session' = session /\ at' # "length"
    BY <1>1, <2>3
  <2> QED BY <1>2, <2>1, <2>2, <2>3, <2>4, <2>6, <2>7, <2>8 DEF FollowInv
<1> QED BY <1>6, <1>7, <1>8 DEF Inv

\* The response is complete.
LEMMA ReceivePayloadStep ==
    ASSUME Inv, ReceivePayload
    PROVE  Inv'
PROOF
<1>1. /\ Reading /\ at = "payload" /\ Len(Bytes) = Part
      /\ read' = read + Count /\ packet' = Bytes /\ remaining' = 0
      /\ at' = "idle" /\ waiting' = FALSE /\ outcome' = "ok"
      /\ UNCHANGED <<vars, session, request, epoch, mine, abandoned, answers>>
  BY DEF ReceivePayload, Receiving, Reading, Return
<1>2. /\ link' = link /\ Sent' = Sent /\ Stream' = Stream /\ answers' = answers
  BY <1>1, StillThere
<1>3. TypeOK' /\ StreamsOK' /\ SessionInv'
  <2>1. packet' \in Seq(Byte) /\ Len(packet') =< Capacity
    BY <1>1, Received
  <2>2. /\ at' # "send" /\ at' \in {"idle", "send", "length", "payload", "drain"}
        /\ waiting' \in BOOLEAN /\ outcome' \in Errors \cup {"none", "ok"}
    BY <1>1
  <2>3. remaining' \in 0..PacketMax
    BY <1>1, FramingAssumption
  <2> QED BY <1>1, <2>1, <2>2, <2>3, ReceiveFrame
<1>4. ~Reading' /\ ~Current'
  BY <1>1 DEF Reading, Current
<1>5. PartInv'
  BY <1>4 DEF PartInv
<1>6. FollowInv'
  <2> SUFFICES ASSUME link, ~abandoned
               PROVE  Len(answers) = Sent /\ read' = Len(Stream)
    BY <1>1, <1>2, <1>4 DEF FollowInv
  <2> QED BY <1>1, PartIsOwn DEF Answered
<1> QED BY <1>3, <1>5, <1>6 DEF Inv

\* A part of a response that does not fit.
LEMMA DrainStep ==
    ASSUME Inv, Drain
    PROVE  Inv'
PROOF
<1>1. /\ Reading /\ at = "drain" /\ waiting = FALSE /\ Len(Bytes) = Part
      /\ read' = read + Count /\ packet' = <<>>
      /\ remaining' = remaining - Part
      /\ UNCHANGED <<vars, session, request, epoch, mine, abandoned, answers>>
  BY DEF Drain, Receiving, Reading, Inv, TypeOK
<1>2. /\ link' = link /\ Sent' = Sent /\ Stream' = Stream /\ Base' = Base
      /\ delivered' = delivered /\ answers' = answers
      /\ Answered' = Answered /\ LastAnswer' = LastAnswer
  BY <1>1, StillThere
<1>n. /\ Capacity \in Nat /\ Capacity > 0 /\ PacketMax \in Nat
      /\ remaining \in Nat /\ remaining =< PacketMax
      /\ Len(Stream) \in Nat
      /\ Part \in Nat /\ Part > 0 /\ Part =< remaining
  BY <1>1, Numbers, Received DEF Inv
<1>3. \/ /\ remaining = Part /\ at' = "idle" /\ waiting' = FALSE
         /\ outcome' = "overflow"
      \/ /\ remaining # Part /\ at' = "drain" /\ waiting' = FALSE
         /\ outcome' = outcome
  BY <1>1 DEF Drain, Return
<1>4. Len(packet') = 0 /\ packet' \in Seq(Byte)
  BY <1>1
<1>5. TypeOK' /\ StreamsOK' /\ SessionInv'
  <2>1. /\ at' # "send" /\ at' \in {"idle", "send", "length", "payload", "drain"}
        /\ waiting' \in BOOLEAN
    BY <1>3
  <2>2. outcome' \in Errors \cup {"none", "ok"}
    BY <1>3 DEF Inv, TypeOK, Errors
  <2>3. remaining' \in 0..PacketMax /\ Len(packet') =< Capacity
    BY <1>1, <1>4, <1>n
  <2> QED BY <1>1, <1>4, <2>1, <2>2, <2>3, ReceiveFrame
<1>6. PartInv'
  <2> SUFFICES ASSUME Reading' PROVE PartInv'
    BY DEF PartInv
  <2>1. at' = "drain" /\ remaining # Part
    BY <1>3 DEF Reading
  <2>2. remaining' \in Nat /\ remaining' > 0
    BY <1>1, <1>n, <2>1
  <2>3. Len(packet') < Part'
    BY <1>4, <1>n, <2>2 DEF Part, Lesser
  <2> QED BY <2>1, <2>2, <2>3 DEF PartInv
<1>7. FollowInv'
  <2> SUFFICES ASSUME link, ~abandoned PROVE FollowInv'
    BY <1>1, <1>2 DEF FollowInv
  <2>1. /\ Current /\ Answered /\ LastAnswer
        /\ mine = <<session, Sent>> /\ Sent > 0
        /\ remaining =< Len(answers[Sent])
        /\ read + Count = Len(Stream) - (remaining - Part)
        /\ answers[Sent] \in Packets
    BY <1>1, PartIsOwn
  <2>2. Len(answers) = Sent /\ Sent =< Len(answers) + 1
    BY <2>1, Numbers DEF Answered, Inv
  <2>3. CASE remaining = Part
    <3>1. at' = "idle" /\ ~Current'
      BY <1>3, <2>3 DEF Current, Reading
    <3>2. read' = Len(Stream)
      BY <1>1, <1>n, <2>1, <2>3
    <3> QED BY <1>2, <2>2, <3>1, <3>2 DEF FollowInv
  <2>4. CASE remaining # Part
    <3>1. at' = "drain" /\ Current'
      BY <1>1, <1>2, <1>3, <2>1, <2>4 DEF Current, Reading
    <3>2. Len(answers[Sent]) \in Nat
      BY <2>1, PacketType
    <3>3. /\ remaining' =< Len(answers[Sent])
          /\ read' = Len(Stream) - remaining' + Len(packet')
      BY <1>1, <1>4, <1>n, <2>1, <3>2
    <3>4. mine' = mine /\ session' = session
      BY <1>1
    <3> QED BY <1>2, <2>1, <2>2, <3>1, <3>3, <3>4 DEF FollowInv
  <2> QED BY <2>3, <2>4
<1> QED BY <1>5, <1>6, <1>7 DEF Inv
-----------------------------------------------------------------------------
(***************************************************************************)
(* The server and the link.                                                *)
(***************************************************************************)
\* What the server adds to the stream.
LEMMA AnswerAppended ==
    ASSUME Inv, NEW response \in Responses, Serve(Channel, response)
    PROVE  /\ response \in Packets
           /\ response = <<>> => Stream' = Stream
           /\ response # <<>> => Stream' = Stream \o Frame(response)
           /\ produced' \in [Ports -> Seq(Byte)]
           /\ consumed' \in [Ports -> Seq(Packets)]
           /\ Len(consumed'[Channel]) = Len(consumed[Channel]) + 1
PROOF
<1>1. /\ Len(consumed[Channel]) < Len(packets[Channel])
      /\ consumed' = [consumed EXCEPT ![Channel] = Append(@, Oldest(Channel))]
      /\ produced' = [produced EXCEPT ![Channel] =
                        @ \o Answer(Oldest(Channel), response)]
  BY DEF Serve
<1>2. response \in Packets /\ Channel \in Ports
  BY ClientAssumption
<1>n. /\ Stream \in Seq(Byte) /\ packets[Channel] \in Seq(Packets)
      /\ consumed[Channel] \in Seq(Packets)
      /\ produced \in [Ports -> Seq(Byte)]
      /\ consumed \in [Ports -> Seq(Packets)]
  BY Numbers DEF Inv, StreamsOK
<1>3. Oldest(Channel) \in Packets /\ Oldest(Channel) # <<>>
  <2>1. Len(consumed[Channel]) + 1 \in 1..Sent
    BY <1>1, <1>n DEF Sent
  <2>2. Oldest(Channel) \in Packets
    BY <1>n, <2>1 DEF Oldest, Sent
  <2>3. Oldest(Channel) # <<>>
    BY <2>1 DEF Inv, SessionInv, Oldest
  <2> QED BY <2>2, <2>3
<1>4. /\ Answer(Oldest(Channel), response) \in Seq(Byte)
      /\ response = <<>> => Answer(Oldest(Channel), response) = <<>>
      /\ response # <<>> => Answer(Oldest(Channel), response) = Frame(response)
  <2>1. Frame(response) \in Seq(Byte) /\ <<>> \in Seq(Byte)
    BY <1>2, FrameFacts
  <2> QED BY <1>3, <2>1 DEF Answer
<1> HIDE DEF Answer, Oldest
<1>5. Stream' = Stream \o Answer(Oldest(Channel), response)
  BY <1>1, <1>2, <1>n DEF Stream
<1>6. Stream \o Answer(Oldest(Channel), response) \in Seq(Byte)
  BY <1>4, <1>n, ConcatFacts
<1>7. produced' \in [Ports -> Seq(Byte)]
  BY <1>1, <1>2, <1>n, <1>6 DEF Stream
<1>8. Stream \o <<>> = Stream
  BY <1>n
<1>9. /\ Append(consumed[Channel], Oldest(Channel)) \in Seq(Packets)
      /\ Len(Append(consumed[Channel], Oldest(Channel)))
           = Len(consumed[Channel]) + 1
  BY <1>3, <1>n, AppendFacts
<1>10. /\ consumed' \in [Ports -> Seq(Packets)]
       /\ consumed'[Channel] = Append(consumed[Channel], Oldest(Channel))
  BY <1>1, <1>2, <1>n, <1>9
<1> QED BY <1>2, <1>4, <1>5, <1>7, <1>8, <1>9, <1>10

\* The server can only answer the request the client waits for.
LEMMA ServerAnswersStep ==
    ASSUME Inv, ServerAnswers
    PROVE  Inv'
PROOF
<1>1. PICK response \in Responses :
        /\ Serve(Channel, response)
        /\ answers' = Append(answers, response)
        /\ UNCHANGED <<session, read, client>>
  BY DEF ServerAnswers
<1>2. /\ link /\ Len(consumed[Channel]) < Sent
      /\ UNCHANGED <<link, packets, delivered>>
      /\ UNCHANGED <<session, read, at, waiting, request, epoch, packet,
                     remaining, outcome, mine, abandoned>>
  BY <1>1 DEF Serve, client, Sent
<1>3. /\ response \in Packets
      /\ response = <<>> => Stream' = Stream
      /\ response # <<>> => Stream' = Stream \o Frame(response)
      /\ produced' \in [Ports -> Seq(Byte)]
      /\ consumed' \in [Ports -> Seq(Packets)]
      /\ Len(consumed'[Channel]) = Len(consumed[Channel]) + 1
  BY <1>1, AnswerAppended
<1>n. /\ Stream \in Seq(Byte) /\ Len(Stream) \in Nat /\ Sent \in Nat
      /\ answers \in Seq(Packets) /\ Len(answers) \in Nat
      /\ delivered[Channel] \in Nat /\ delivered[Channel] =< Len(Stream)
      /\ Len(answers) = Len(consumed[Channel])
  BY Numbers DEF Inv, TypeOK
<1>4. /\ answers' \in Seq(Packets) /\ Len(answers') = Len(answers) + 1
      /\ answers'[Len(answers) + 1] = response
  BY <1>1, <1>3, <1>n, AppendFacts
<1>5. /\ Frame(response) \in Seq(Byte)
      /\ Len(response) \in Nat /\ (response # <<>> => Len(response) > 0)
      /\ Len(Frame(response)) = Len(response) + 1
      /\ Frame(response)[1] = Len(response)
      /\ \A j \in 1..Len(response) : Frame(response)[1 + j] = response[j]
  BY <1>3, FrameFacts, PacketType
<1>c. /\ Len(Stream \o Frame(response)) = Len(Stream) + Len(Frame(response))
      /\ \A i \in 1..Len(Frame(response)) :
           (Stream \o Frame(response))[Len(Stream) + i] = Frame(response)[i]
  <2>1. Stream \in Seq(Byte) /\ Frame(response) \in Seq(Byte)
    BY <1>5, <1>n
  <2> QED BY ONLY <2>1, SMTT(30)
<1>6. Sent' = Sent
  BY <1>2 DEF Sent
<1>7. Len(Stream') \in Nat /\ delivered[Channel] =< Len(Stream')
  <2>1. CASE response = <<>>
    BY <1>3, <1>n, <2>1
  <2>2. CASE response # <<>>
    <3>1. Len(Stream') = Len(Stream) + Len(response) + 1
      <4>1. Stream' = Stream \o Frame(response)
        BY <1>3, <2>2, Zenon
      <4>2. Len(Stream') = Len(Stream) + Len(Frame(response))
        BY ONLY <1>c, <4>1, Zenon
      <4>3. /\ Len(Frame(response)) = Len(response) + 1
            /\ Len(response) \in Nat /\ Len(Stream) \in Nat
        BY <1>5, <1>n, Zenon
      <4> QED BY ONLY <4>2, <4>3
    <3> QED BY <1>5, <1>n, <3>1
  <2> QED BY <2>1, <2>2
<1>8. TypeOK'
  <2>1. Len(answers') = Len(consumed'[Channel])
    BY <1>3, <1>4, <1>n
  <2> QED BY <1>2, <2>1 DEF Inv, TypeOK
<1>9. StreamsOK'
  <2>1. Len(answers') =< Sent'
    BY <1>2, <1>4, <1>6, <1>n
  <2> QED BY <1>2, <1>3, <1>4, <1>7, <2>1 DEF Inv, StreamsOK
<1>10. PartInv'
  <2>1. Part' = Part /\ Reading' = Reading
    BY <1>2, Zenon DEF Part, Reading
  <2> QED BY <1>2, <2>1 DEF Inv, PartInv
<1>11. SessionInv'
  BY <1>2, <1>6 DEF Inv, SessionInv
<1>12. FollowInv'
  <2> SUFFICES ASSUME ~abandoned PROVE FollowInv'
    BY <1>2 DEF FollowInv
  <2>1. Current
    BY <1>2, <1>n DEF Inv, FollowInv
  <2>2. /\ mine = <<session, Sent>>
        /\ Sent > 0 /\ Sent =< Len(answers) + 1
    BY <1>2, <2>1 DEF Inv, FollowInv
  <2>3. Len(answers) + 1 = Sent /\ ~Answered
    BY <1>2, <1>n, <2>2 DEF Answered
  <2>4. at = "length" /\ read = Len(Stream)
    BY <1>2, <2>1, <2>3 DEF Inv, FollowInv
  <2>5. Current'
    BY <1>2, <2>1 DEF Current, Reading
  <2>6. answers'[Sent'] = response /\ Len(answers') = Sent'
    BY <1>4, <1>6, <2>3
  <2>7. Sent' > 0 /\ Sent' =< Len(answers') + 1
    BY <1>6, <1>n, <2>2, <2>6
  <2>8. at' = "length" /\ read' = read /\ mine' = <<session', Sent'>>
    BY <1>2, <1>6, <2>2, <2>4
  <2>9. CASE response = <<>>
    <3>1. ~Answered'
      BY <2>6, <2>9 DEF Answered
    <3>2. Stream' = Stream
      BY <1>3, <2>9
    <3> QED BY <2>4, <2>5, <2>7, <2>8, <3>1, <3>2 DEF FollowInv
  <2>10. CASE response # <<>>
    <3>1. Answered'
      BY <2>6, <2>10 DEF Answered
    <3>2. /\ Stream' = Stream \o Frame(response)
          /\ Len(Stream') = Len(Stream) + Len(response) + 1
          /\ \A i \in 1..(Len(response) + 1) :
               Stream'[Len(Stream) + i] = Frame(response)[i]
      <4>1. Stream' = Stream \o Frame(response)
        BY <1>3, <2>10, Zenon
      <4>2. /\ Len(Stream') = Len(Stream) + Len(Frame(response))
            /\ \A i \in 1..Len(Frame(response)) :
                 Stream'[Len(Stream) + i] = Frame(response)[i]
        BY ONLY <1>c, <4>1, Zenon
      <4>3. /\ Len(Frame(response)) = Len(response) + 1
            /\ Len(response) \in Nat /\ Len(Stream) \in Nat
        BY <1>5, <1>n, Zenon
      <4>4. Len(Stream) + (Len(response) + 1) = Len(Stream) + Len(response) + 1
        BY ONLY <4>3
      <4> QED BY ONLY <4>1, <4>2, <4>3, <4>4, Zenon
    <3>3. Base' = Len(Stream)
      BY <1>5, <1>n, <2>6, <3>2 DEF Base
    <3>4. Stream'[Base' + 1] = Len(response)
      BY <1>5, <1>n, <3>2, <3>3
    <3>5. ASSUME NEW j \in 1..Len(response)
          PROVE  Stream'[Base' + 1 + j] = response[j]
      <4>1. 1 + j \in 1..(Len(response) + 1)
        BY <1>5
      <4>2. Stream'[Len(Stream) + (1 + j)] = Frame(response)[1 + j]
        BY <3>2, <4>1
      <4>3. Len(Stream) + (1 + j) = Base' + 1 + j
        BY <1>n, <1>5, <3>3
      <4> QED BY <1>5, <4>2, <4>3
    <3>6. LastAnswer'
      BY <1>n, <2>6, <3>3, <3>4, <3>5 DEF LastAnswer
    <3>7. read' = Base'
      BY <2>4, <2>8, <3>3
    <3> QED BY <2>5, <2>7, <2>8, <3>1, <3>6, <3>7 DEF FollowInv
  <2> QED BY <2>9, <2>10
<1> QED BY <1>8, <1>9, <1>10, <1>11, <1>12 DEF Inv

LEMMA BytesArriveStep ==
    ASSUME Inv, BytesArrive
    PROVE  Inv'
PROOF
<1>1. /\ delivered[Channel] < Len(Stream)
      /\ delivered' = [delivered EXCEPT ![Channel] = @ + 1]
      /\ UNCHANGED <<link, packets, consumed, produced, answers>>
      /\ UNCHANGED <<session, read, at, waiting, request, epoch, packet,
                     remaining, outcome, mine, abandoned>>
  BY DEF BytesArrive, Deliver, client, Stream
<1>n. /\ delivered[Channel] \in Nat /\ read \in Nat /\ Len(Stream) \in Nat
      /\ read =< delivered[Channel]
  BY Numbers DEF Inv
<1>2. /\ delivered'[Channel] = delivered[Channel] + 1
      /\ delivered' \in [Ports -> Nat]
  BY <1>1, <1>n, ClientAssumption DEF Inv, StreamsOK
<1>3. /\ Sent' = Sent /\ Stream' = Stream
  BY <1>1 DEF Sent, Stream
<1>4. Base' = Base
  BY <1>1, <1>3 DEF Base
<1>5. Answered' = Answered /\ LastAnswer' = LastAnswer
  BY <1>1, <1>3, <1>4, Zenon DEF Answered, LastAnswer
<1>6. TypeOK'
  <2>1. read \in 0..delivered'[Channel]
    BY <1>2, <1>n
  <2> QED BY <1>1, <2>1 DEF Inv, TypeOK
<1>7. StreamsOK'
  BY <1>1, <1>2, <1>3, <1>n DEF Inv, StreamsOK
<1>8. Part' = Part /\ Reading' = Reading /\ Current' = Current
  BY <1>1, Zenon DEF Part, Reading, Current
<1>9. PartInv'
  BY <1>1, <1>8 DEF Inv, PartInv
<1>10. SessionInv'
  BY <1>1, <1>3 DEF Inv, SessionInv
<1>11. FollowInv'
  BY <1>1, <1>3, <1>4, <1>5, <1>8 DEF Inv, FollowInv
<1> QED BY <1>6, <1>7, <1>9, <1>10, <1>11 DEF Inv

\* A new session: a call of the last one has nothing to do with it.
LEMMA LinkUpStep ==
    ASSUME Inv, LinkUp
    PROVE  Inv'
PROOF
<1>1. /\ ~link /\ link' = TRUE /\ session < MaxSessions
      /\ session' = session + 1
      /\ UNCHANGED <<packets, consumed, produced, delivered, read, answers>>
      /\ UNCHANGED <<at, waiting, request, epoch, packet, remaining, outcome,
                     mine, abandoned>>
  BY DEF LinkUp, Connect, client
<1>n. /\ session \in Nat /\ MaxSessions \in Nat /\ read \in Nat
      /\ delivered[Channel] \in Nat /\ read =< delivered[Channel]
      /\ delivered[Channel] =< Len(Stream) /\ Len(Stream) \in Nat
      /\ Sent \in Nat /\ Len(answers) \in Nat /\ mine[1] \in Nat
      /\ epoch \in 0..session
  BY Numbers DEF Inv, TypeOK
<1>2. Sent' = Sent /\ Stream' = Stream
  BY <1>1 DEF Sent, Stream
<1>3. TypeOK'
  <2>1. session' \in 0..MaxSessions /\ epoch \in 0..session' /\ link' \in BOOLEAN
    BY <1>1, <1>n
  <2> QED BY <1>1, <2>1 DEF Inv, TypeOK
<1>4. StreamsOK' /\ mine'[1] # session'
  <2>1. mine[1] =< session /\ mine[1] =< session' /\ mine[1] # session'
    BY <1>1, <1>n DEF Inv, StreamsOK
  <2> QED BY <1>1, <1>2, <2>1 DEF Inv, StreamsOK
<1>5. PartInv'
  <2>1. Part' = Part /\ Reading' = Reading
    BY <1>1, Zenon DEF Part, Reading
  <2> QED BY <1>1, <2>1 DEF Inv, PartInv
<1>6. SessionInv'
  BY <1>1, <1>2 DEF Inv, SessionInv
<1>7. FollowInv'
  <2>1. ~Current'
    BY <1>4 DEF Current
  <2>2. Sent = 0 /\ Len(Stream) = 0 /\ Len(answers) =< Sent
    BY <1>1 DEF Inv, SessionInv, StreamsOK
  <2>3. Len(answers) = Sent /\ read = Len(Stream)
    BY <1>n, <2>2
  <2> QED BY <1>1, <1>2, <2>1, <2>3 DEF FollowInv
<1> QED BY <1>3, <1>4, <1>5, <1>6, <1>7 DEF Inv

LEMMA LinkDownStep ==
    ASSUME Inv, LinkDown
    PROVE  Inv'
PROOF
<1>1. /\ link' = FALSE /\ read' = 0 /\ answers' = <<>> /\ abandoned' = FALSE
      /\ packets' = [p \in Ports |-> <<>>]
      /\ consumed' = [p \in Ports |-> <<>>]
      /\ produced' = [p \in Ports |-> <<>>]
      /\ delivered' = [p \in Ports |-> 0]
      /\ UNCHANGED <<session, at, waiting, request, epoch, packet, remaining,
                     outcome, mine>>
  BY DEF LinkDown, Disconnect
<1>2. /\ packets'[Channel] = <<>> /\ produced'[Channel] = <<>>
      /\ consumed'[Channel] = <<>> /\ delivered'[Channel] = 0
  BY <1>1, ClientAssumption
<1>3. /\ Sent' = 0 /\ Stream' = <<>> /\ Len(Stream') = 0
      /\ Len(answers') = 0 /\ Len(consumed'[Channel]) = 0
  BY <1>1, <1>2 DEF Sent, Stream
<1>4. TypeOK'
  <2>1. read' \in 0..delivered'[Channel]
    BY <1>1, <1>2
  <2>2. link' \in BOOLEAN /\ abandoned' \in BOOLEAN
    BY <1>1
  <2> QED BY <1>1, <1>3, <2>1, <2>2 DEF Inv, TypeOK
<1>5. StreamsOK'
  <2>1. /\ packets' \in [Ports -> Seq(Packets)]
        /\ consumed' \in [Ports -> Seq(Packets)]
        /\ produced' \in [Ports -> Seq(Byte)]
        /\ delivered' \in [Ports -> Nat]
        /\ answers' \in Seq(Packets)
    BY <1>1
  <2>2. mine' \in Nat \X Nat /\ mine'[1] =< session'
    BY <1>1 DEF Inv, StreamsOK
  <2>3. delivered'[Channel] =< Len(Stream') /\ Len(answers') =< Sent'
    BY <1>2, <1>3
  <2> QED BY <2>1, <2>2, <2>3 DEF StreamsOK
<1>6. PartInv'
  <2>1. Part' = Part /\ Reading' = Reading
    BY <1>1, Zenon DEF Part, Reading
  <2> QED BY <1>1, <2>1 DEF Inv, PartInv
<1>7. SessionInv'
  BY <1>1, <1>3 DEF Inv, SessionInv
<1>8. FollowInv'
  BY <1>1 DEF FollowInv
<1> QED BY <1>4, <1>5, <1>6, <1>7, <1>8 DEF Inv
-----------------------------------------------------------------------------
(***************************************************************************)
(* The theorems.                                                           *)
(***************************************************************************)
LEMMA ClientNextStep ==
    ASSUME Inv, [ClientNext]_allvars
    PROVE  Inv'
PROOF
<1>1. CASE \E bytes \in Packets : Begin(bytes)
  BY <1>1, BeginStep
<1>2. CASE Exchange
  BY <1>2, SendRequestStep, EndStep, KeepWaitingStep, ReceivePartStep,
     ReceiveLengthStep, ReceivePayloadStep, DrainStep DEF Exchange
<1>3. CASE ServerAnswers
  BY <1>3, ServerAnswersStep
<1>4. CASE BytesArrive
  BY <1>4, BytesArriveStep
<1>5. CASE LinkUp
  BY <1>5, LinkUpStep
<1>6. CASE LinkDown
  BY <1>6, LinkDownStep
<1>7. CASE UNCHANGED allvars
  <2>1. /\ UNCHANGED <<vars, answers>>
        /\ UNCHANGED <<session, read, at, waiting, request, epoch, packet,
                       remaining, outcome, mine, abandoned>>
    BY <1>7 DEF allvars, client
  <2>2. /\ link' = link /\ Sent' = Sent /\ Stream' = Stream /\ Base' = Base
        /\ packets' = packets /\ consumed' = consumed
        /\ produced' = produced /\ delivered' = delivered
        /\ answers' = answers
        /\ Answered' = Answered /\ LastAnswer' = LastAnswer
    BY <2>1, StillThere
  <2>3. Part' = Part /\ Reading' = Reading /\ Current' = Current
    BY <2>1, <2>2, Zenon DEF Part, Reading, Current
  <2>4. TypeOK' /\ StreamsOK'
    BY <2>1, <2>2 DEF Inv, TypeOK, StreamsOK
  <2>5. PartInv' /\ SessionInv'
    BY <2>1, <2>2, <2>3 DEF Inv, PartInv, SessionInv
  <2>6. FollowInv'
    BY <2>1, <2>2, <2>3 DEF Inv, FollowInv
  <2> QED BY <2>4, <2>5, <2>6 DEF Inv
<1> QED BY <1>1, <1>2, <1>3, <1>4, <1>5, <1>6, <1>7 DEF ClientNext

\* The client's place in the response stream: as long as no request of the
\* session was given up, squid_client_exchange is always where it takes itself
\* to be, whatever the link did and however long the responses were.
THEOREM ClientInvariant == ClientSpec => []Inv
PROOF
<1>1. ClientInit => Inv
  BY ClientInitially
<1>2. Inv /\ [ClientNext]_allvars => Inv'
  BY ClientNextStep
<1> QED BY <1>1, <1>2, PTL DEF ClientSpec

\* The client's variables stay in their types: in particular nothing is read
\* into the workspace beyond client->packet_capacity.
THEOREM ClientTypeCorrect == ClientSpec => []TypeOK
PROOF
<1>1. Inv => TypeOK
  BY DEF Inv
<1> QED BY <1>1, ClientInvariant, PTL

\* A call succeeds only by completing a payload.
LEMMA SuccessIsPayload ==
    ASSUME ClientNext, Succeeds
    PROVE  ReceivePayload
PROOF
<1>1. at # "idle" /\ at' = "idle" /\ outcome' = "ok"
  BY DEF Succeeds
<1>2. Exchange
  BY <1>1 DEF ClientNext, Begin, ServerAnswers, BytesArrive, LinkUp, LinkDown,
     client
<1> QED BY <1>1, <1>2
    DEF Exchange, SendRequest, SendRefused, ReceivePart, ReceiveLength, Drain,
        ReceiveFails, Cancel, LinkChanged, KeepWaiting, GiveUp, Return

\* A successful exchange returns the plugin's response to its own request,
\* unless a request of the same session was given up before.
THEOREM OwnAnswers == ClientSpec => AnswersUnlessAbandoned
PROOF
<1>1. ASSUME Inv, ClientNext, Succeeds, ~abandoned
      PROVE  OwnAnswer
  <2>1. /\ Reading /\ at = "payload" /\ Len(Bytes) = Part /\ packet' = Bytes
    BY <1>1, SuccessIsPayload DEF ReceivePayload, Receiving, Reading
  <2>2. /\ mine = <<session, Sent>> /\ Bytes = answers[Sent] /\ Answered
    BY <1>1, <2>1, PartIsOwn
  <2>3. Sent \in Nat
    BY <1>1, Numbers DEF Inv
  <2> QED BY <2>1, <2>2, <2>3 DEF OwnAnswer, Answered
<1>2. Inv /\ [ClientNext]_allvars
        => [Succeeds /\ ~abandoned => OwnAnswer]_allvars
  BY <1>1
<1> QED BY <1>2, ClientInvariant, PTL DEF ClientSpec, AnswersUnlessAbandoned

\* A call ends with a protocol error only on a length byte of zero.
LEMMA ProtocolIsLength ==
    ASSUME ClientNext, at # "idle", at' = "idle", outcome' = "protocol"
    PROVE  ReceiveLength /\ Bytes[1] = 0
PROOF
<1>1. Exchange
  BY DEF ClientNext, Begin, ServerAnswers, BytesArrive, LinkUp, LinkDown, client
<1>2. ReceiveLength
  BY <1>1
  DEF Exchange, SendRequest, SendRefused, ReceivePart, ReceivePayload, Drain,
      ReceiveFails, Cancel, LinkChanged, KeepWaiting, GiveUp, Return
<1> QED BY <1>2 DEF ReceiveLength

\* A length byte of zero, the protocol error, is read only when a request of
\* the session was given up.
THEOREM InStepWithServer == ClientSpec => InStepUnlessAbandoned
PROOF
<1>1. ASSUME Inv, ClientNext, at # "idle", at' = "idle", outcome' = "protocol",
             ~abandoned
      PROVE  FALSE
  <2>1. Reading /\ at = "length" /\ Len(Bytes) = Part /\ Bytes[1] = 0
    BY <1>1, ProtocolIsLength DEF ReceiveLength, Receiving, Reading
  <2>2. Bytes[1] = Len(answers[Sent]) /\ Len(answers[Sent]) > 0
    BY <1>1, <2>1, PartIsOwn
  <2> QED BY <2>1, <2>2
<1>2. Inv /\ [ClientNext]_allvars
        => [at # "idle" /\ at' = "idle" /\ outcome' = "protocol"
              => abandoned]_allvars
  BY <1>1
<1> QED BY <1>2, ClientInvariant, PTL DEF ClientSpec, InStepUnlessAbandoned
-----------------------------------------------------------------------------
(***************************************************************************)
(* A polling program that never cancels.  Its link changes only while it   *)
(* waits or is outside a call, so the epoch it compares with is that of    *)
(* the session its request went to.                                        *)
(***************************************************************************)
PollInv ==
    /\ ~abandoned
    /\ waiting => Reading
    /\ at = "send" => link /\ epoch = session
    /\ Reading => mine[1] = epoch

\* Nothing has been sent.
LEMMA PollInitially == ClientInit => PollInv
PROOF BY DEF ClientInit, PollInv, Reading

\* No step of such a program abandons a request.
LEMMA PollNextStep ==
    ASSUME ~Interrupts, ~Cancels, PollInv, [ClientNext]_allvars
    PROVE  PollInv'
PROOF
<1> USE DEF PollInv, Reading
<1>1. ASSUME NEW bytes \in Packets, Begin(bytes) PROVE PollInv'
  BY <1>1 DEF Begin, Return, vars
<1>2. CASE SendRequest
  BY <1>2 DEF SendRequest, Send
<1>3. CASE SendRefused
  BY <1>3 DEF SendRefused, Return
<1>4. CASE ReceivePart
  BY <1>4 DEF ReceivePart, Receiving
<1>5. CASE ReceiveLength
  BY <1>5 DEF ReceiveLength, Receiving, Return
<1>6. CASE ReceivePayload
  BY <1>6 DEF ReceivePayload, Receiving, Return
<1>7. CASE Drain
  BY <1>7 DEF Drain, Receiving, Return
<1>8. CASE ReceiveFails
  BY <1>8 DEF ReceiveFails, GiveUp, Return
<1>9. CASE Cancel
  BY <1>9 DEF Cancel
<1>10. CASE LinkChanged
  BY <1>10 DEF LinkChanged, SameLink, GiveUp, Return
<1>11. CASE KeepWaiting
  BY <1>11 DEF KeepWaiting
<1>12. CASE ServerAnswers
  BY <1>12 DEF ServerAnswers, Serve, client
<1>13. CASE BytesArrive
  BY <1>13 DEF BytesArrive, Deliver, client
<1>14. CASE LinkUp
  BY <1>14 DEF LinkUp, InBurst, Connect, client
<1>15. CASE LinkDown
  BY <1>15 DEF LinkDown, InBurst, Disconnect
<1>16. CASE UNCHANGED allvars
  BY <1>16 DEF allvars, client, vars
<1> QED BY <1>1, <1>2, <1>3, <1>4, <1>5, <1>6, <1>7, <1>8, <1>9, <1>10, <1>11,
           <1>12, <1>13, <1>14, <1>15, <1>16 DEF ClientNext, Exchange

\* A program that polls and never cancels always gets the response to its own
\* request: nothing it does gives one up in a session that lasts.
THEOREM PollingOwnAnswers ==
    ASSUME ~Interrupts, ~Cancels
    PROVE  ClientSpec => AnswersOwnRequest
PROOF
<1>1. ClientInit => PollInv
  BY PollInitially
<1>2. PollInv /\ [ClientNext]_allvars => PollInv'
  BY PollNextStep
<1>3. PollInv /\ [Succeeds /\ ~abandoned => OwnAnswer]_allvars
        => [Succeeds => OwnAnswer]_allvars
  BY DEF PollInv
<1> QED BY <1>1, <1>2, <1>3, OwnAnswers, PTL
    DEF ClientSpec, AnswersUnlessAbandoned, AnswersOwnRequest
=============================================================================
