------------------------ MODULE ServerDispatchProofs ------------------------
(***************************************************************************)
(* Proofs about the dispatch loop, for every number of ports, packet size, *)
(* queue capacity and number of packets.                                   *)
(***************************************************************************)
EXTENDS ServerDispatch, SequenceTheorems, TLAPS

IInv == TypeOK /\ DispatchInv

LEMMA PacketType ==
    ASSUME NEW packet \in Packets
    PROVE  /\ packet \in Seq(Byte)
           /\ Len(packet) \in Byte
PROOF
<1>1. PICK n \in 0..PacketMax : packet \in [1..n -> Payload]
  BY DEF Packets
<1>2. n \in Nat /\ n \in Byte
  BY FramingAssumption DEF Byte
<1>3. packet \in [1..n -> Byte]
  BY <1>1, FramingAssumption
<1>4. packet \in Seq(Byte) /\ Len(packet) = n
  BY <1>2, <1>3
<1> QED BY <1>2, <1>4

LEMMA FrameType ==
    ASSUME NEW packet \in Packets
    PROVE  /\ Frame(packet) \in Seq(Byte)
           /\ Len(Frame(packet)) = Len(packet) + 1
           /\ Frame(packet)[1] = Len(packet)
           /\ \A j \in 1..Len(packet) : Frame(packet)[j + 1] = packet[j]
PROOF
<1>1. packet \in Seq(Byte) /\ Len(packet) \in Byte /\ Len(packet) \in Nat
  BY PacketType, FramingAssumption DEF Byte
<1>2. <<Len(packet)>> \in Seq(Byte) /\ Len(<<Len(packet)>>) = 1
  BY <1>1
<1>3. Frame(packet) \in Seq(Byte) /\ Len(Frame(packet)) = Len(packet) + 1
  BY <1>1, <1>2 DEF Frame
<1>4. Frame(packet)[1] = Len(packet)
  BY <1>1, <1>2 DEF Frame
<1>5. \A j \in 1..Len(packet) : Frame(packet)[j + 1] = packet[j]
  BY <1>1, <1>2 DEF Frame
<1> QED BY <1>3, <1>4, <1>5

LEMMA ConcatExtends ==
    ASSUME NEW S, NEW s \in Seq(S), NEW t \in Seq(S)
    PROVE  /\ s \o t \in Seq(S)
           /\ Len(s \o t) = Len(s) + Len(t)
           /\ \A i \in 1..Len(s) : (s \o t)[i] = s[i]
           /\ \A i \in 1..Len(t) : (s \o t)[Len(s) + i] = t[i]
PROOF BY ConcatProperties

LEMMA EmptyStreamIsFrames == IsFrames(<<>>, <<>>, <<0>>)
PROOF
<1>1. Len(<<>>) = 0 /\ Len(<<0>>) = 1 /\ <<0>>[1] = 0
  OBVIOUS
<1>2. 1..0 = {}
  OBVIOUS
<1> QED BY ONLY <1>1, <1>2 DEF IsFrames

LEMMA AppendExtends ==
    ASSUME NEW S, NEW s \in Seq(S), NEW e \in S
    PROVE  /\ Append(s, e) \in Seq(S)
           /\ Len(Append(s, e)) = Len(s) + 1
           /\ \A i \in 1..Len(s) : Append(s, e)[i] = s[i]
           /\ Append(s, e)[Len(s) + 1] = e
PROOF BY AppendProperties

LEMMA LesserFits ==
    ASSUME NEW a \in Nat, NEW b \in Nat, NEW c \in Nat, NEW d \in Nat,
           b =< a, d =< c
    PROVE  /\ Lesser(a - b, c - d) \in Nat
           /\ b + Lesser(a - b, c - d) =< a
           /\ d + Lesser(a - b, c - d) =< c
PROOF BY DEF Lesser

\* What receive_plugin_packet has in hand while the link is up: the next
\* bytes of the packet the client sent after the ones already consumed.
LEMMA ReceivedIsPrefix ==
    ASSUME IInv, link, NEW p \in Ports, LengthKnown(p)
    PROVE  /\ Reading(p) \in 1..Len(packets[p])
           /\ Wanted(p) = Len(packets[p][Reading(p)])
           /\ Wanted(p) \in Byte
           /\ PayloadFrom(p) = starts[p][Reading(p)] + 1 + Len(request[p])
           /\ Wanted(p) # 0 =>
                /\ Received(p) \in Nat
                /\ Len(request[p]) + Received(p) =< Wanted(p)
                /\ PayloadFrom(p) + Received(p) =< arrived[p]
                /\ Packet(p) \in Seq(Byte)
                /\ Len(Packet(p)) = Len(request[p]) + Received(p)
                /\ IsPrefixOf(Packet(p), packets[p][Reading(p)])
PROOF
<1> DEFINE r == Reading(p)
<1>1. PortInv(p) /\ TypeOK
  BY DEF IInv, DispatchInv
<1>2. /\ expected[p] \in Byte
      /\ request[p] \in Seq(Byte) /\ sent[p] \in Seq(Byte)
      /\ arrived[p] \in Nat /\ taken[p] \in Nat
      /\ packets[p] \in Seq(Seq(Byte)) /\ starts[p] \in Seq(Nat)
      /\ consumed[p] \in Seq(Seq(Byte))
  BY <1>1 DEF TypeOK
<1>n. /\ arrived[p] \in Nat /\ taken[p] \in Nat
      /\ Len(request[p]) \in Nat /\ Len(sent[p]) \in Nat
      /\ Len(packets[p]) \in Nat /\ Len(consumed[p]) \in Nat
  BY <1>2
<1>3. r \in 1..Len(packets[p])
  <2>1. CASE AtBoundary(p)
    <3>1. taken[p] < Len(sent[p])
      BY <1>1, <1>2, <2>1 DEF AtBoundary, LengthKnown, PortInv, StreamsInBounds
    <3>2. r # Len(packets[p]) + 1
      BY <1>1, <1>2, <2>1, <3>1
      DEF AtBoundary, PortInv, StreamIsFrames, IsFrames
    <3>3. Len(consumed[p]) =< Len(packets[p])
      BY <1>1 DEF PortInv, IsPrefixOf
    <3>4. Len(consumed[p]) \in Nat /\ Len(packets[p]) \in Nat
      BY <1>2
    <3> QED BY <3>2, <3>3, <3>4 DEF Reading
  <2>2. CASE InsidePacket(p)
    BY <1>2, <2>2 DEF InsidePacket, Reading
  <2> QED BY <1>1, <2>1, <2>2 DEF PortInv
<1>4. /\ packets[p][r] \in Packets
      /\ packets[p][r] \in Seq(Byte)
      /\ Len(packets[p][r]) \in Byte
      /\ starts[p][r] \in Nat
      /\ starts[p][r] + 1 + Len(packets[p][r]) =< Len(sent[p])
      /\ sent[p][starts[p][r] + 1] = Len(packets[p][r])
      /\ \A j \in 1..Len(packets[p][r]) :
           sent[p][starts[p][r] + 1 + j] = packets[p][r][j]
  <2>1. packets[p][r] \in Packets
    BY <1>1, <1>3 DEF PortInv, StreamIsFrames, IsFrames
  <2>2. starts[p][r] \in Nat
    <3>1. Len(starts[p]) = Len(packets[p]) + 1
      BY <1>1 DEF PortInv, StreamIsFrames, IsFrames
    <3>2. r \in 1..Len(starts[p])
      BY <1>2, <1>3, <3>1
    <3> QED BY <1>2, <3>2, SMTT(30)
  <2>3. starts[p][r] + 1 + Len(packets[p][r]) =< Len(sent[p])
    BY <1>1, <1>3 DEF PortInv, StreamIsFrames, IsFrames
  <2> QED BY <1>1, <1>3, <2>1, <2>2, <2>3, PacketType, Zenon
          DEF PortInv, StreamIsFrames, IsFrames
<1>5. /\ Wanted(p) = Len(packets[p][r])
      /\ PayloadFrom(p) = starts[p][r] + 1 + Len(request[p])
      /\ IsPrefixOf(request[p], packets[p][r])
      /\ PayloadFrom(p) =< arrived[p]
  <2>1. CASE AtBoundary(p)
    <3>1. expected[p] = 0 /\ request[p] = <<>> /\ taken[p] = starts[p][r]
      BY <2>1 DEF AtBoundary
    <3>2. Len(request[p]) = 0 /\ taken[p] < arrived[p]
      BY <3>1 DEF LengthKnown
    <3>3. Wanted(p) = Len(packets[p][r])
      BY <1>4, <3>1 DEF Wanted
    <3>4. PayloadFrom(p) = starts[p][r] + 1
      BY <3>1 DEF PayloadFrom
    <3>5. IsPrefixOf(request[p], packets[p][r])
      BY <1>4, <3>2, FramingAssumption DEF IsPrefixOf, Byte
    <3> QED BY <1>n, <3>1, <3>2, <3>3, <3>4, <3>5
  <2>2. CASE InsidePacket(p)
    <3>1. /\ expected[p] # 0 /\ expected[p] = Len(packets[p][r])
          /\ taken[p] = starts[p][r] + 1 + Len(request[p])
          /\ IsPrefixOf(request[p], packets[p][r])
      BY <2>2 DEF InsidePacket
    <3>2. taken[p] =< arrived[p]
      BY <1>1 DEF PortInv, StreamsInBounds
    <3> QED BY <3>1, <3>2 DEF Wanted, PayloadFrom
  <2> QED BY <1>1, <2>1, <2>2 DEF PortInv
<1>m. PayloadFrom(p) \in Nat /\ Wanted(p) \in Nat /\ Len(request[p]) =< Wanted(p)
  <2>1. Len(packets[p][r]) \in Nat
    BY <1>4, FramingAssumption DEF Byte
  <2>2. Len(request[p]) =< Len(packets[p][r])
    BY <1>5 DEF IsPrefixOf
  <2>3. PayloadFrom(p) = starts[p][r] + 1 + Len(request[p]) /\ starts[p][r] \in Nat
    BY <1>4, <1>5
  <2> QED BY <1>5, <1>n, <2>1, <2>2, <2>3, SMTT(30)
<1> HIDE DEF r
<1>6. ASSUME Wanted(p) # 0
      PROVE  /\ Received(p) \in Nat
             /\ Len(request[p]) + Received(p) =< Wanted(p)
             /\ PayloadFrom(p) + Received(p) =< arrived[p]
  <2>1. PayloadFrom(p) =< arrived[p]
    BY <1>5
  <2>2. Received(p) = Lesser(Wanted(p) - Len(request[p]), arrived[p] - PayloadFrom(p))
    BY DEF Received
  <2>3. /\ Wanted(p) \in Nat /\ Len(request[p]) \in Nat /\ arrived[p] \in Nat
        /\ PayloadFrom(p) \in Nat /\ Len(request[p]) =< Wanted(p)
    BY <1>m, <1>n
  <2>4. Lesser(Wanted(p) - Len(request[p]), arrived[p] - PayloadFrom(p)) \in Nat
    BY <2>1, <2>3, LesserFits, Zenon
  <2>5. Len(request[p]) + Lesser(Wanted(p) - Len(request[p]), arrived[p] - PayloadFrom(p)) =< Wanted(p)
    BY <2>1, <2>3, LesserFits, Zenon
  <2>6. PayloadFrom(p) + Lesser(Wanted(p) - Len(request[p]), arrived[p] - PayloadFrom(p)) =< arrived[p]
    BY <2>1, <2>3, LesserFits, Zenon
  <2> QED BY <2>4, <2>5, <2>6, <2>2
<1>7. ASSUME Wanted(p) # 0
      PROVE  /\ Packet(p) \in Seq(Byte)
             /\ Len(Packet(p)) = Len(request[p]) + Received(p)
             /\ IsPrefixOf(Packet(p), packets[p][r])
  <2> DEFINE from == PayloadFrom(p)
             k == Received(p)
             read == SubSeq(sent[p], from + 1, from + k)
  <2>1. from \in Nat /\ k \in Nat /\ from + k =< Len(sent[p])
    <3>1. arrived[p] =< Len(sent[p])
      BY <1>1 DEF PortInv, StreamsInBounds
    <3> QED BY <1>2, <1>6, <1>7, <1>m, <1>n, <3>1
  <2> HIDE DEF from, k
  <2>2. /\ read \in Seq(Byte)
        /\ Len(read) = k
        /\ \A j \in 1..k : read[j] = sent[p][from + j]
    BY <1>2, <2>1
  <2> HIDE DEF read
  <2>3. Packet(p) = request[p] \o read
    BY DEF Packet, read, from, k
  <2>4. /\ Packet(p) \in Seq(Byte)
        /\ Len(Packet(p)) = Len(request[p]) + k
    BY <1>2, <2>1, <2>2, <2>3, ConcatProperties
  <2>5. ASSUME NEW i \in 1..Len(Packet(p))
        PROVE  Packet(p)[i] = packets[p][r][i]
    <3>1. CASE i =< Len(request[p])
      BY <1>2, <1>5, <2>2, <2>3, <2>4, <3>1 DEF IsPrefixOf
    <3>2. CASE i > Len(request[p])
      <4>1. Packet(p)[i] = sent[p][from + (i - Len(request[p]))]
        <5>1. i \in Len(request[p]) + 1 .. Len(request[p]) + k
          BY <1>n, <2>1, <2>4, <3>2
        <5>2. Packet(p)[i] = read[i - Len(request[p])]
          BY <1>2, <1>n, <2>1, <2>2, <2>3, <5>1, ConcatProperties
        <5>3. i - Len(request[p]) \in 1..k
          BY <1>n, <2>1, <5>1
        <5> QED BY <2>2, <5>2, <5>3
      <4>2. from + (i - Len(request[p])) = starts[p][r] + 1 + i
        BY <1>n, <1>4, <1>5 DEF from
      <4>3. i \in 1..Len(packets[p][r])
        <5>1. Len(Packet(p)) = Len(request[p]) + k /\ Len(request[p]) + k =< Wanted(p)
          BY <1>6, <1>7, <2>4 DEF k
        <5>2. Wanted(p) = Len(packets[p][r])
          BY <1>5
        <5> QED BY <1>n, <1>m, <2>1, <5>1, <5>2
      <4> QED BY <1>4, <4>1, <4>2, <4>3
    <3> QED BY <1>2, <3>1, <3>2
  <2>6. Len(Packet(p)) =< Len(packets[p][r])
    BY <1>5, <1>6, <1>7, <2>4 DEF k
  <2> QED BY <2>4, <2>5, <2>6 DEF IsPrefixOf, k
<1> QED BY <1>3, <1>4, <1>5, <1>6, <1>7 DEF r
-----------------------------------------------------------------------------
\* A step that leaves a port's part of the state alone keeps its invariant.
Untouched(p) ==
    /\ expected'[p] = expected[p]
    /\ request'[p] = request[p]
    /\ pending'[p] = pending[p]
    /\ sent'[p] = sent[p]
    /\ arrived'[p] = arrived[p]
    /\ taken'[p] = taken[p]
    /\ reply'[p] = reply[p]
    /\ delivered'[p] = delivered[p]
    /\ packets'[p] = packets[p]
    /\ starts'[p] = starts[p]
    /\ consumed'[p] = consumed[p]
    /\ produced'[p] = produced[p]

LEMMA UntouchedPort ==
    ASSUME NEW p \in Ports, PortInv(p), Untouched(p), link' = link,
           pc' \in {"open", "handshake"} => Clear(p)
    PROVE  PortInv(p)'
PROOF
<1>1. StreamsInBounds(p)' /\ StreamIsFrames(p)'
  BY DEF PortInv, Untouched, StreamsInBounds, StreamIsFrames
<1>2. IsPrefixOf(consumed[p], packets[p])'
  BY DEF PortInv, Untouched, IsPrefixOf
<1>3. (link => produced[p] = reply[p] \o pending[p])'
  BY Zenon DEF PortInv, Untouched
<1>4. (IF link THEN AtBoundary(p) \/ InsidePacket(p) ELSE Unlinked(p))'
  BY
  DEF PortInv, Untouched, AtBoundary, InsidePacket, Unlinked, Reading, IsPrefixOf
<1>5. (pc \in {"open", "handshake"} => Clear(p))'
  BY DEF Untouched, Clear
<1> QED BY <1>1, <1>2, <1>3, <1>4, <1>5, Zenon DEF PortInv

LEMMA InitEstablishes == Init => IInv
PROOF
<1> SUFFICES ASSUME Init PROVE IInv
  OBVIOUS
<1>0. 1 \in Ports /\ 0 \in Byte
  BY DispatchAssumption, FramingAssumption DEF Ports, Byte
<1>1. TypeOK
  <2>1. Zero \in [Ports -> Nat] /\ Zero \in [Ports -> Byte]
    BY <1>0 DEF Zero
  <2>2. /\ None \in [Ports -> Seq(Byte)] /\ None \in [Ports -> Seq(Seq(Byte))]
        /\ [p \in Ports |-> <<0>>] \in [Ports -> Seq(Nat)]
    BY DEF None
  <2> QED BY <1>0, <2>1, <2>2, Zenon DEF Init, TypeOK
<1>2. ASSUME NEW p \in Ports PROVE PortInv(p)
  <2>1. /\ sent[p] = <<>> /\ arrived[p] = 0 /\ taken[p] = 0 /\ reply[p] = <<>>
        /\ delivered[p] = 0 /\ packets[p] = <<>> /\ starts[p] = <<0>>
        /\ consumed[p] = <<>> /\ expected[p] = 0 /\ request[p] = <<>>
        /\ pending[p] = <<>> /\ produced[p] = <<>> /\ ~link
    BY DEF Init, None, Zero
  <2>2. StreamsInBounds(p) /\ IsPrefixOf(consumed[p], packets[p])
    BY <2>1 DEF StreamsInBounds, IsPrefixOf
  <2>3. StreamIsFrames(p)
    BY <2>1 DEF StreamIsFrames, IsFrames
  <2>4. Unlinked(p) /\ Clear(p)
    BY <2>1 DEF Unlinked, Clear
  <2> QED BY <2>1, <2>2, <2>3, <2>4 DEF PortInv
<1>3. ~link
  BY DEF Init
<1> QED BY <1>1, <1>2, <1>3 DEF IInv, DispatchInv

LEMMA FramesGrow ==
    ASSUME NEW s \in Seq(Byte), NEW ps \in Seq(Seq(Byte)), NEW os \in Seq(Nat),
           NEW packet \in Packets, IsFrames(s, ps, os)
    PROVE  IsFrames(s \o Frame(packet), Append(ps, packet),
                    Append(os, Len(s) + 1 + Len(packet)))
PROOF
<1> DEFINE f == Frame(packet)
           k == Len(packet)
           e == Len(s)
           n == Len(ps)
           t == s \o f
           qs == Append(ps, packet)
           rs == Append(os, e + 1 + k)
<1>1. /\ f \in Seq(Byte) /\ packet \in Seq(Byte)
      /\ Len(f) = k + 1 /\ f[1] = k /\ \A j \in 1..k : f[j + 1] = packet[j]
  BY FrameType, PacketType
<1>2. e \in Nat /\ n \in Nat /\ k \in Nat /\ Len(f) \in Nat
  BY <1>1
<1>3. /\ Len(t) = e + Len(f)
      /\ \A i \in 1..e : t[i] = s[i]
      /\ \A i \in 1..Len(f) : t[e + i] = f[i]
  <2>1. f \in Seq(Byte)
    BY <1>1
  <2> HIDE DEF f
  <2> QED BY <2>1, ConcatExtends
<1>4. /\ Len(qs) = n + 1
      /\ \A i \in 1..n : qs[i] = ps[i]
      /\ qs[n + 1] = packet
  BY <1>1, AppendExtends
<1>5. Len(os) = n + 1 /\ os[n + 1] = e /\ os[1] = 0
  BY DEF IsFrames
<1>6. /\ Len(rs) = n + 2
      /\ \A i \in 1..(n + 1) : rs[i] = os[i]
      /\ rs[n + 2] = e + 1 + k
  <2>1. e + 1 + k \in Nat
    BY <1>2
  <2> HIDE DEF e, k, n
  <2> QED BY <1>2, <1>5, <2>1, AppendExtends
<1> HIDE DEF f, k, e, n, t, qs, rs
<1>7. Len(t) = e + 1 + k /\ t[e + 1] = k /\ \A j \in 1..k : t[e + 1 + j] = packet[j]
  <2>1. Len(t) = e + 1 + k
    BY <1>1, <1>2, <1>3
  <2>2. t[e + 1] = k
    BY <1>1, <1>2, <1>3
  <2>3. ASSUME NEW j \in 1..k PROVE t[e + 1 + j] = packet[j]
    <3>1. j + 1 \in 1..Len(f) /\ e + (j + 1) = e + 1 + j
      BY <1>1, <1>2
    <3> QED BY <1>1, <1>3, <3>1
  <2> QED BY <2>1, <2>2, <2>3
<1>8. /\ Len(rs) = Len(qs) + 1
      /\ rs[1] = 0
      /\ rs[Len(qs) + 1] = Len(t)
  BY <1>2, <1>4, <1>5, <1>6, <1>7
<1>9. ASSUME NEW i \in 1..Len(qs)
      PROVE  /\ qs[i] \in Packets
             /\ rs[i] + 1 + Len(qs[i]) = rs[i + 1]
             /\ rs[i + 1] =< Len(t)
             /\ t[rs[i] + 1] = Len(qs[i])
             /\ \A j \in 1..Len(qs[i]) : t[rs[i] + 1 + j] = qs[i][j]
  <2>1. CASE i = n + 1
    <3>1. qs[i] = packet /\ rs[i] = e /\ rs[i + 1] = e + 1 + k /\ Len(packet) = k
      <4>1. i + 1 = n + 2 /\ n + 1 \in 1..(n + 1)
        BY <1>2, <2>1
      <4> QED BY <1>4, <1>5, <1>6, <2>1, <4>1 DEF k
    <3>2. e + 1 + k =< Len(t)
      BY <1>2, <1>7
    <3> QED BY <1>7, <3>1, <3>2
  <2>2. CASE i \in 1..n
    <3> DEFINE x == ps[i]
               l == Len(x)
               o == os[i]
    <3>1. qs[i] = x /\ rs[i] = o /\ rs[i + 1] = os[i + 1]
      <4>1. i \in 1..(n + 1) /\ i + 1 \in 1..(n + 1)
        BY <1>2, <2>2
      <4> QED BY <1>4, <1>6, <2>2, <4>1
    <3>2. /\ x \in Packets
          /\ o + 1 + l = os[i + 1]
          /\ os[i + 1] =< e
          /\ s[o + 1] = l
          /\ \A j \in 1..l : s[o + 1 + j] = x[j]
      BY <2>2 DEF IsFrames, n, e
    <3>3. l \in Nat
      <4>1. l \in Byte
        BY <3>2, PacketType
      <4> QED BY <4>1, FramingAssumption DEF Byte
    <3>4. o \in Nat
      <4>1. i \in 1..Len(os)
        BY <1>2, <1>5, <2>2
      <4> QED BY <4>1
    <3> HIDE DEF x, l, o
    <3>5. o + 1 + l =< e
      BY <3>2
    <3>6. o + 1 \in 1..e /\ o + 1 + l =< Len(t)
      BY <1>2, <1>7, <3>3, <3>4, <3>5
    <3>7. ASSUME NEW j \in 1..l PROVE t[o + 1 + j] = x[j]
      <4>1. o + 1 + j \in 1..e
        BY <1>2, <3>3, <3>4, <3>5
      <4> QED BY <1>3, <3>2, <4>1, Zenon
    <3>8. Len(x) = l
      BY DEF l
    <3> QED BY <1>3, <3>1, <3>2, <3>6, <3>7, <3>8
  <2> QED BY <1>2, <1>4, <2>1, <2>2
<1>10. IsFrames(t, qs, rs)
  BY <1>8, <1>9 DEF IsFrames
<1> QED BY <1>10 DEF t, f, qs, rs, e, k

LEMMA ClientSendKeeps ==
    ASSUME IInv, NEW q \in Ports, NEW packet \in Packets, ClientSend(q, packet)
    PROVE  IInv'
PROOF
<1>0. TypeOK /\ DispatchInv /\ link /\ link' = link /\ pc' = pc
  BY DEF IInv, ClientSend
<1>1. /\ sent[q] \in Seq(Byte) /\ packets[q] \in Seq(Seq(Byte))
      /\ starts[q] \in Seq(Nat) /\ consumed[q] \in Seq(Seq(Byte))
      /\ arrived[q] \in Nat /\ packet \in Seq(Byte) /\ Frame(packet) \in Seq(Byte)
  BY <1>0, PacketType, FrameType DEF TypeOK
<1>2. /\ sent'[q] = sent[q] \o Frame(packet)
      /\ packets'[q] = Append(packets[q], packet)
      /\ starts'[q] = Append(starts[q], Len(sent[q]) + 1 + Len(packet))
  BY <1>0, Zenon DEF ClientSend, TypeOK
<1>3. Len(sent[q]) + 1 + Len(packet) \in Nat
  <2>1. Len(sent[q]) \in Nat /\ Len(packet) \in Nat
    BY <1>1, LenProperties
  <2> QED BY <2>1
<1>4. TypeOK'
  <2>1. sent[q] \o Frame(packet) \in Seq(Byte)
    BY <1>1, ConcatExtends
  <2>2. Append(packets[q], packet) \in Seq(Seq(Byte))
    BY <1>1, AppendExtends
  <2>3. Append(starts[q], Len(sent[q]) + 1 + Len(packet)) \in Seq(Nat)
    BY <1>1, <1>3, AppendExtends
  <2>4. sent' \in [Ports -> Seq(Byte)]
    BY <1>0, <2>1 DEF TypeOK, ClientSend
  <2>5. packets' \in [Ports -> Seq(Seq(Byte))] /\ starts' \in [Ports -> Seq(Nat)]
    BY <1>0, <2>2, <2>3, Zenon DEF TypeOK, ClientSend
  <2> QED BY <1>0, <2>4, <2>5, Zenon DEF TypeOK, ClientSend, runtime
<1>5. ASSUME NEW p \in Ports, p # q PROVE PortInv(p)'
  <2>1. PortInv(p) /\ Untouched(p)
    BY <1>0, <1>5 DEF DispatchInv, ClientSend, TypeOK, Untouched, runtime
  <2>2. pc' \in {"open", "handshake"} => Clear(p)
    BY <1>0, <2>1 DEF PortInv
  <2> QED BY <1>0, <2>1, <2>2, UntouchedPort
<1>6. PortInv(q)'
  <2>0. /\ PortInv(q)
        /\ expected'[q] = expected[q] /\ request'[q] = request[q]
        /\ pending'[q] = pending[q] /\ arrived'[q] = arrived[q]
        /\ taken'[q] = taken[q] /\ reply'[q] = reply[q]
        /\ delivered'[q] = delivered[q] /\ consumed'[q] = consumed[q]
        /\ produced'[q] = produced[q]
    BY <1>0 DEF DispatchInv, ClientSend, runtime
  <2>1. StreamIsFrames(q)'
    BY <1>1, <1>2, <2>0, FramesGrow, ZenonT(30) DEF PortInv, StreamIsFrames
  <2>2. StreamsInBounds(q)'
    <3> DEFINE e == Len(sent[q])
               g == Len(sent'[q])
    <3>1. g = e + Len(Frame(packet)) /\ e \in Nat /\ Len(Frame(packet)) \in Nat
      BY <1>1, <1>2, ConcatExtends, LenProperties, SMTT(30)
    <3>2. taken[q] =< arrived[q] /\ arrived[q] =< e /\ delivered[q] =< Len(reply[q])
      BY <2>0 DEF PortInv, StreamsInBounds
    <3> HIDE DEF e, g
    <3>3. arrived[q] =< g
      BY <1>1, <3>1, <3>2
    <3> QED BY <2>0, <3>2, <3>3 DEF StreamsInBounds, g
  <2> DEFINE n == Len(packets[q])
             r == Reading(q)
  <2>3. n \in Nat /\ r \in 1..(n + 1) /\ r = Len(consumed[q]) + 1 /\ Reading(q)' = r
    <3>1. Len(consumed[q]) =< n
      BY <2>0 DEF PortInv, IsPrefixOf
    <3>2. Len(consumed[q]) \in Nat /\ n \in Nat
      BY <1>1, LenProperties
    <3>3. r = Len(consumed[q]) + 1 /\ Reading(q)' = r
      BY <2>0 DEF Reading
    <3> DEFINE c == Len(consumed[q])
    <3> HIDE DEF n, c, r
    <3> QED BY <3>1, <3>2, <3>3 DEF c
  <2>4. /\ Len(packets'[q]) = n + 1
        /\ \A i \in 1..n : packets'[q][i] = packets[q][i]
    BY <1>1, <1>2, AppendExtends
  <2>5. \A i \in 1..(n + 1) : starts'[q][i] = starts[q][i]
    <3>1. Len(starts[q]) = n + 1
      BY <2>0 DEF PortInv, StreamIsFrames, IsFrames
    <3>2. \A i \in 1..Len(starts[q]) : starts'[q][i] = starts[q][i]
      BY <1>1, <1>2, <1>3, AppendExtends, SMTT(30)
    <3> QED BY <3>1, <3>2, SMTT(30)
  <2> HIDE DEF n, r
  <2>6. IsPrefixOf(consumed[q], packets[q])'
    <3> DEFINE c == Len(consumed[q])
               m == Len(packets'[q])
    <3>1. c =< n /\ \A i \in 1..c : consumed[q][i] = packets[q][i]
      BY <2>0, ZenonT(30) DEF PortInv, IsPrefixOf, n
    <3>2. c \in Nat /\ m = n + 1
      BY <1>1, <2>4, LenProperties
    <3> HIDE DEF c, m
    <3>3. c =< m /\ \A i \in 1..c : i \in 1..n
      BY <2>3, <3>1, <3>2
    <3>4. \A i \in 1..c : consumed[q][i] = packets'[q][i]
      BY <2>4, <3>1, <3>3, SMTT(30)
    <3> QED BY <2>0, <3>3, <3>4, ZenonT(30) DEF IsPrefixOf, c, m
  <2>7. (AtBoundary(q) \/ InsidePacket(q))'
    <3>1. CASE AtBoundary(q)
      BY <2>0, <2>3, <2>5, <3>1 DEF AtBoundary, r
    <3>2. CASE InsidePacket(q)
      <4>1. r \in 1..n /\ r =< n + 1
        BY <2>3, <3>2 DEF InsidePacket, n, r
      <4>2. packets'[q][r] = packets[q][r] /\ starts'[q][r] = starts[q][r]
        BY <2>3, <2>4, <2>5, <4>1, SMTT(30)
      <4> QED BY <2>0, <2>3, <2>4, <3>2, <4>1, <4>2 DEF InsidePacket, r
    <3> QED BY <1>0, <2>0, <3>1, <3>2 DEF PortInv
  <2>8. (pc \in {"open", "handshake"} => Clear(q))'
    BY <1>0, <2>0, Zenon DEF PortInv, Clear
  <2>9. (link => produced[q] = reply[q] \o pending[q])'
    BY <1>0, <2>0, Zenon DEF PortInv
  <2> QED BY <1>0, <2>1, <2>2, <2>6, <2>7, <2>8, <2>9, Zenon DEF PortInv
<1>7. (pc = "open" => ~link)'
  BY <1>0 DEF DispatchInv
<1> QED BY <1>4, <1>5, <1>6, <1>7 DEF IInv, DispatchInv
-----------------------------------------------------------------------------
(***************************************************************************)
(* One iteration of dispatch_received_packets.                             *)
(***************************************************************************)

\* Without a link there is nothing to read and nothing can be flushed.
LEMMA UnlinkedPort ==
    ASSUME IInv, ~link, NEW q \in Ports
    PROVE  /\ Ready(q) => pending[q] = <<>>
           /\ LengthKnown(q) =>
                /\ expected[q] # 0 /\ Wanted(q) = expected[q]
                /\ PayloadFrom(q) = taken[q] /\ Received(q) = 0
                /\ Packet(q) = request[q]
PROOF
<1>1. PortInv(q) /\ TypeOK
  BY DEF IInv, DispatchInv
<1>2. /\ expected[q] \in Byte /\ request[q] \in Seq(Byte)
      /\ taken[q] \in Nat /\ arrived[q] \in Nat
  BY <1>1 DEF TypeOK
<1>3. Unlinked(q) /\ StreamsInBounds(q)
  BY <1>1 DEF PortInv
<1>4. sent[q] = <<>> /\ taken[q] =< arrived[q] /\ arrived[q] =< Len(sent[q])
  BY <1>3 DEF Unlinked, StreamsInBounds
<1>5. Len(sent[q]) = 0
  BY <1>4
<1>6. taken[q] = 0 /\ arrived[q] = 0
  BY <1>2, <1>4, <1>5
<1>7. Ready(q) => pending[q] = <<>>
  BY DEF Ready, Accepts
<1>8. ASSUME LengthKnown(q)
      PROVE  /\ expected[q] # 0 /\ Wanted(q) = expected[q]
             /\ PayloadFrom(q) = taken[q] /\ Received(q) = 0
             /\ Packet(q) = request[q]
  <2>1. expected[q] # 0
    BY <1>6, <1>8 DEF LengthKnown
  <2>2. Wanted(q) = expected[q] /\ PayloadFrom(q) = taken[q]
    BY <2>1 DEF Wanted, PayloadFrom
  <2> DEFINE l == Len(request[q])
             w == expected[q]
  <2>3. l =< w /\ l \in Nat /\ w \in Nat
    BY <1>2, <1>3, <2>1, LenProperties DEF Unlinked, Byte
  <2>4. Received(q) = Lesser(w - l, 0)
    BY <1>6, <2>2 DEF Received
  <2> HIDE DEF l, w
  <2>5. Lesser(w - l, 0) = 0
    BY <2>3 DEF Lesser
  <2>6. Received(q) = 0
    BY <2>4, <2>5
  <2>7. SubSeq(sent[q], PayloadFrom(q) + 1, PayloadFrom(q) + Received(q)) = <<>>
    BY <1>4, <1>6, <2>2, <2>6
  <2>8. Packet(q) = request[q] \o <<>>
    BY <2>7, ZenonT(30) DEF Packet
  <2>9. Packet(q) = request[q]
    BY <1>2, <2>8, ConcatEmptySeq
  <2> QED BY <2>1, <2>2, <2>6, <2>9
<1> QED BY <1>7, <1>8

\* Taking the next packet off the stream leaves the reader at a boundary.
LEMMA ConsumeNext ==
    ASSUME IInv, NEW q \in Ports, Reading(q) \in 1..Len(packets[q]),
           NEW x, x = packets[q][Reading(q)],
           consumed' = [consumed EXCEPT ![q] = Append(@, x)],
           taken'[q] = starts[q][Reading(q)] + 1 + Len(x),
           expected'[q] = 0, request'[q] = <<>>,
           packets' = packets, starts' = starts
    PROVE  /\ consumed' \in [Ports -> Seq(Seq(Byte))]
           /\ AtBoundary(q)'
           /\ IsPrefixOf(consumed[q], packets[q])'
PROOF
<1> DEFINE r == Reading(q)
           c == Len(consumed[q])
           n == Len(packets[q])
<1>1. PortInv(q) /\ TypeOK
  BY DEF IInv, DispatchInv
<1>2. /\ consumed[q] \in Seq(Seq(Byte)) /\ packets[q] \in Seq(Seq(Byte))
      /\ consumed \in [Ports -> Seq(Seq(Byte))]
  BY <1>1 DEF TypeOK
<1>3. x \in Seq(Byte)
  BY <1>2, SMTT(30)
<1>4. c \in Nat /\ n \in Nat /\ r = c + 1 /\ r \in 1..n
  BY <1>2, LenProperties DEF Reading
<1>5. consumed'[q] = Append(consumed[q], x)
  BY <1>2
<1>6. /\ consumed'[q] \in Seq(Seq(Byte))
      /\ Len(consumed'[q]) = c + 1
      /\ \A i \in 1..c : consumed'[q][i] = consumed[q][i]
      /\ consumed'[q][c + 1] = x
  BY <1>2, <1>3, <1>5, AppendExtends
<1>7. consumed' \in [Ports -> Seq(Seq(Byte))]
  BY <1>2, <1>5, <1>6
<1>8. c =< n /\ \A i \in 1..c : consumed[q][i] = packets[q][i]
  BY <1>1 DEF PortInv, IsPrefixOf
<1>9. starts[q][r] + 1 + Len(packets[q][r]) = starts[q][r + 1]
  BY <1>1, <1>4, Zenon DEF PortInv, StreamIsFrames, IsFrames
<1>10. Reading(q)' = r + 1
  BY <1>4, <1>6 DEF Reading
<1>11. AtBoundary(q)'
  BY <1>9, <1>10 DEF AtBoundary
<1> HIDE DEF c, n, r
<1>12. c + 1 =< n /\ \A i \in 1..(c + 1) : i \in 1..c \/ i = c + 1
  BY <1>4
<1>13. x = packets[q][c + 1]
  BY <1>4 DEF r
<1>14. \A i \in 1..(c + 1) : consumed'[q][i] = packets[q][i]
  BY <1>6, <1>8, <1>12, <1>13, Zenon
<1>15. IsPrefixOf(consumed[q], packets[q])'
  BY <1>6, <1>12, <1>14 DEF IsPrefixOf, n
<1> QED BY <1>7, <1>11, <1>15

\* What an iteration changes is the state of the one port it is at.
RestOfTypes ==
    /\ sent \in [Ports -> Seq(Byte)]
    /\ arrived \in [Ports -> Nat]
    /\ delivered \in [Ports -> Nat]
    /\ packets \in [Ports -> Seq(Seq(Byte))]
    /\ starts \in [Ports -> Seq(Nat)]

PortTypes ==
    /\ expected \in [Ports -> Byte]
    /\ request \in [Ports -> Seq(Byte)]
    /\ pending \in [Ports -> Seq(Byte)]
    /\ taken \in [Ports -> Nat]
    /\ reply \in [Ports -> Seq(Byte)]
    /\ consumed \in [Ports -> Seq(Seq(Byte))]
    /\ produced \in [Ports -> Seq(Byte)]

LEMMA IterationKeeps ==
    ASSUME IInv, NEW q \in Ports, pc = "dispatch", NextPort,
           RestOfTypes', PortTypes', PortInv(q)',
           \A p \in Ports \ {q} : Untouched(p)
    PROVE  IInv'
PROOF
<1>1. TypeOK /\ DispatchInv
  BY DEF IInv
<1>2. /\ pc' \in {"burst2", "dispatch"} /\ link' = link
      /\ keep_running' = keep_running /\ open' = open
  BY DEF NextPort
<1>3. port' \in Ports
  <2>1. port \in 1..MaxPort /\ MaxPort \in Nat
    BY <1>1, DispatchAssumption DEF TypeOK, Ports
  <2> QED BY <2>1 DEF NextPort, Ports
<1>4. TypeOK'
  BY <1>1, <1>2, <1>3, Zenon DEF TypeOK, RestOfTypes, PortTypes
<1>5. ASSUME NEW p \in Ports PROVE PortInv(p)'
  <2>1. CASE p = q
    BY <2>1
  <2>2. CASE p # q
    <3>1. PortInv(p) /\ Untouched(p)
      BY <1>1, <2>2 DEF DispatchInv
    <3>2. pc' \in {"open", "handshake"} => Clear(p)
      BY <1>2
    <3> QED BY <1>2, <3>1, <3>2, UntouchedPort
  <2> QED BY <2>1, <2>2
<1>6. (pc = "open" => ~link)'
  BY <1>2
<1> QED BY <1>4, <1>5, <1>6 DEF IInv, DispatchInv

\* The pending response, once accepted, is part of the response stream.
LEMMA FlushKeeps ==
    ASSUME IInv, NEW q \in Ports, Ready(q),
           reply' = [reply EXCEPT ![q] = Flushed(q)],
           pending' = [pending EXCEPT ![q] = <<>>],
           produced' = produced, delivered' = delivered, link' = link
    PROVE  /\ reply' \in [Ports -> Seq(Byte)]
           /\ pending' \in [Ports -> Seq(Byte)]
           /\ produced' \in [Ports -> Seq(Byte)]
           /\ (delivered[q] =< Len(reply[q]))'
           /\ (link => produced[q] = reply[q] \o pending[q])'
           /\ ~link => reply'[q] = <<>> /\ produced'[q] = <<>>
PROOF
<1>1. PortInv(q) /\ TypeOK
  BY DEF IInv, DispatchInv
<1>2. /\ reply[q] \in Seq(Byte) /\ pending[q] \in Seq(Byte)
      /\ reply \in [Ports -> Seq(Byte)] /\ pending \in [Ports -> Seq(Byte)]
      /\ produced \in [Ports -> Seq(Byte)] /\ delivered[q] \in Nat
  BY <1>1, Zenon DEF TypeOK
<1> DEFINE u == reply[q] \o pending[q]
<1>3. /\ u \in Seq(Byte) /\ Len(u) = Len(reply[q]) + Len(pending[q])
      /\ Len(reply[q]) \in Nat /\ Len(pending[q]) \in Nat
  BY <1>2, ConcatExtends, LenProperties
<1>4. reply'[q] = u /\ pending'[q] = <<>> /\ delivered'[q] = delivered[q]
  BY <1>2 DEF Flushed
<1>5. delivered[q] =< Len(reply[q])
  BY <1>1 DEF PortInv, StreamsInBounds
<1>6. link => produced[q] = u
  BY <1>1, Zenon DEF PortInv
<1> DEFINE a == Len(reply[q])
           b == Len(pending[q])
           v == Len(u)
<1>7. a \in Nat /\ b \in Nat /\ v = a + b /\ delivered[q] =< a
  BY <1>3, <1>5
<1>8. delivered'[q] =< Len(reply'[q])
  <2>1. delivered[q] =< v
    <3> HIDE DEF a, b, v, u
    <3> QED BY <1>2, <1>7
  <2> QED BY <1>4, <2>1, Zenon
<1>9. u \o <<>> = u
  BY <1>3, ConcatEmptySeq
<1> HIDE DEF u, a, b, v
<1>10. (link => produced[q] = reply[q] \o pending[q])'
  BY <1>4, <1>6, <1>9, Zenon
<1>11. reply' \in [Ports -> Seq(Byte)] /\ pending' \in [Ports -> Seq(Byte)]
  BY <1>2, <1>3 DEF Flushed, u
<1>12. ASSUME ~link PROVE reply'[q] = <<>> /\ produced'[q] = <<>>
  <2>1. pending[q] = <<>>
    BY <1>12, UnlinkedPort, SMTT(30)
  <2>2. reply[q] = <<>> /\ produced[q] = <<>>
    BY <1>1, <1>12 DEF PortInv, Unlinked
  <2>3. reply[q] \o <<>> = reply[q]
    BY <1>2, ConcatEmptySeq
  <2> QED BY <1>4, <2>1, <2>2, <2>3 DEF u
<1> QED BY <1>2, <1>8, <1>10, <1>11, <1>12

LEMMA SkipOrHoldKeeps ==
    ASSUME IInv, NEW q \in Ports, pc = "dispatch", NextPort,
           SkipPort(q) \/ HoldPort(q)
    PROVE  IInv'
PROOF
<1>1. TypeOK /\ PortInv(q)
  BY DEF IInv, DispatchInv
<1>2. UNCHANGED <<runtime, streams>>
  BY DEF SkipPort, HoldPort
<1>3. RestOfTypes' /\ PortTypes'
  BY <1>1, <1>2, Zenon DEF TypeOK, RestOfTypes, PortTypes, runtime, streams
<1>4. \A p \in Ports : Untouched(p)
  BY <1>2, Zenon DEF Untouched, runtime, streams
<1>5. PortInv(q)'
  <2>1. Untouched(q) /\ link' = link
    BY <1>4 DEF NextPort
  <2>2. pc' \in {"open", "handshake"} => Clear(q)
    BY DEF NextPort
  <2> QED BY <1>1, <2>1, <2>2, UntouchedPort
<1> QED BY <1>3, <1>4, <1>5, IterationKeeps

LEMMA ReceiveNothingKeeps ==
    ASSUME IInv, NEW q \in Ports, pc = "dispatch", NextPort, ReceiveNothing(q)
    PROVE  IInv'
PROOF
<1>1. TypeOK /\ PortInv(q) /\ link' = link
  BY DEF IInv, DispatchInv, NextPort
<1>2. /\ reply' \in [Ports -> Seq(Byte)] /\ pending' \in [Ports -> Seq(Byte)]
      /\ produced' \in [Ports -> Seq(Byte)]
      /\ (delivered[q] =< Len(reply[q]))'
      /\ (link => produced[q] = reply[q] \o pending[q])'
      /\ ~link => reply'[q] = <<>> /\ produced'[q] = <<>>
  BY <1>1, FlushKeeps, Zenon DEF ReceiveNothing
<1>3. RestOfTypes' /\ PortTypes'
  BY <1>1, <1>2, Zenon DEF TypeOK, RestOfTypes, PortTypes, ReceiveNothing
<1>4. \A p \in Ports \ {q} : Untouched(p)
  BY <1>1, SMTT(30) DEF Untouched, ReceiveNothing, TypeOK
<1>5. PortInv(q)'
  <2>1. StreamsInBounds(q)' /\ StreamIsFrames(q)'
    BY <1>1, <1>2, Zenon
    DEF PortInv, StreamsInBounds, StreamIsFrames, ReceiveNothing
  <2>2. IsPrefixOf(consumed[q], packets[q])'
    BY <1>1, Zenon DEF PortInv, ReceiveNothing
  <2>3. (IF link THEN AtBoundary(q) \/ InsidePacket(q) ELSE Unlinked(q))'
    BY <1>1, <1>2, Zenon
    DEF PortInv, ReceiveNothing, AtBoundary, InsidePacket, Unlinked, Reading
  <2>4. (pc \in {"open", "handshake"} => Clear(q))'
    BY DEF NextPort
  <2> QED BY <1>2, <2>1, <2>2, <2>3, <2>4 DEF PortInv
<1> QED BY <1>3, <1>4, <1>5, IterationKeeps

LEMMA RejectEmptyKeeps ==
    ASSUME IInv, NEW q \in Ports, pc = "dispatch", NextPort, RejectEmpty(q)
    PROVE  IInv'
PROOF
<1>1. TypeOK /\ PortInv(q) /\ link' = link
  BY DEF IInv, DispatchInv, NextPort
<1>2. /\ reply' \in [Ports -> Seq(Byte)] /\ pending' \in [Ports -> Seq(Byte)]
      /\ produced' \in [Ports -> Seq(Byte)]
      /\ (delivered[q] =< Len(reply[q]))'
      /\ (link => produced[q] = reply[q] \o pending[q])'
  BY <1>1, FlushKeeps, Zenon DEF RejectEmpty
<1>3. LengthKnown(q) /\ Wanted(q) = 0
  BY SMTT(30) DEF RejectEmpty
<1>4. link
  BY <1>3, UnlinkedPort, SMTT(30)
<1> DEFINE r == Reading(q)
<1>5. /\ r \in 1..Len(packets[q])
      /\ Len(packets[q][r]) = 0
      /\ packets[q][r] \in Seq(Byte)
  <2>1. r \in 1..Len(packets[q]) /\ Wanted(q) = Len(packets[q][r])
    BY <1>3, <1>4, ReceivedIsPrefix
  <2>2. packets[q] \in Seq(Seq(Byte))
    BY <1>1 DEF TypeOK
  <2> QED BY <1>3, <2>1, <2>2
<1>6. packets[q][r] = <<>>
  BY <1>5, EmptySeq, SMTT(30)
<1>7. expected[q] = 0 /\ request[q] = <<>> /\ taken[q] = starts[q][r]
  <2>1. expected[q] = 0
    BY <1>3 DEF Wanted
  <2> QED BY <1>1, <1>4, <2>1 DEF PortInv, AtBoundary, InsidePacket
<1>8. taken[q] \in Nat /\ arrived[q] \in Nat /\ taken[q] + 1 =< arrived[q]
  <2>1. taken[q] \in Nat /\ arrived[q] \in Nat
    BY <1>1 DEF TypeOK
  <2> QED BY <1>3, <1>7, <2>1 DEF LengthKnown
<1>9. /\ taken'[q] = taken[q] + 1 /\ taken' \in [Ports -> Nat]
      /\ expected'[q] = 0 /\ request'[q] = <<>>
      /\ packets' = packets /\ starts' = starts /\ arrived' = arrived
      /\ sent' = sent /\ delivered' = delivered
  <2>0. taken \in [Ports -> Nat]
    BY <1>1 DEF TypeOK
  <2>1. taken \in [Ports -> Nat] /\ taken[q] + 1 \in Nat
    BY <1>8, <2>0
  <2>2. taken' = [taken EXCEPT ![q] = taken[q] + 1]
    BY DEF RejectEmpty
  <2>3. taken'[q] = taken[q] + 1 /\ taken' \in [Ports -> Nat]
    BY <2>1, <2>2, SMTT(30)
  <2> QED BY <1>7, <2>3 DEF RejectEmpty
<1>10. taken'[q] = starts[q][r] + 1 + Len(<<>>)
  BY <1>7, <1>8, <1>9
<1>11. /\ consumed' \in [Ports -> Seq(Seq(Byte))]
       /\ AtBoundary(q)'
       /\ IsPrefixOf(consumed[q], packets[q])'
  BY <1>5, <1>6, <1>9, <1>10, ConsumeNext, Zenon DEF RejectEmpty
<1>12. RestOfTypes' /\ PortTypes'
  BY <1>1, <1>2, <1>9, <1>11, ZenonT(30)
  DEF TypeOK, RestOfTypes, PortTypes, RejectEmpty
<1>13. \A p \in Ports \ {q} : Untouched(p)
  BY <1>1, SMTT(30) DEF Untouched, RejectEmpty, TypeOK
<1>14. PortInv(q)'
  <2>1. StreamsInBounds(q)'
    BY <1>1, <1>2, <1>8, <1>9, ZenonT(30) DEF PortInv, StreamsInBounds
  <2>2. StreamIsFrames(q)'
    BY <1>1, <1>9, Zenon DEF PortInv, StreamIsFrames
  <2>3. (pc \in {"open", "handshake"} => Clear(q))'
    BY DEF NextPort
  <2> QED BY <1>1, <1>2, <1>4, <1>11, <2>1, <2>2, <2>3 DEF PortInv
<1> QED BY <1>12, <1>13, <1>14, IterationKeeps

\* The bytes read so far stay in the port's buffer.
LEMMA KeepPacketKeeps ==
    ASSUME IInv, NEW q \in Ports, pc = "dispatch", NextPort, KeepPacket(q)
    PROVE  IInv'
PROOF
<1> DEFINE r == Reading(q)
           upto == PayloadFrom(q) + Received(q)
<1>1. TypeOK /\ PortInv(q) /\ link' = link /\ LengthKnown(q) /\ Wanted(q) # 0
  BY DEF IInv, DispatchInv, NextPort, KeepPacket
<1>2. /\ reply' \in [Ports -> Seq(Byte)] /\ pending' \in [Ports -> Seq(Byte)]
      /\ produced' \in [Ports -> Seq(Byte)]
      /\ (delivered[q] =< Len(reply[q]))'
      /\ (link => produced[q] = reply[q] \o pending[q])'
      /\ ~link => reply'[q] = <<>> /\ produced'[q] = <<>>
  BY <1>1, FlushKeeps, Zenon DEF KeepPacket
<1>3. /\ Wanted(q) \in Byte /\ Packet(q) \in Seq(Byte)
      /\ upto \in Nat /\ upto =< arrived[q]
  <2>1. CASE link
    <3>1. /\ Wanted(q) \in Byte /\ Packet(q) \in Seq(Byte)
          /\ Received(q) \in Nat /\ upto =< arrived[q]
      BY <1>1, <2>1, ReceivedIsPrefix
    <3>2. PayloadFrom(q) \in Nat
      <4>1. taken[q] \in Nat
        BY <1>1, SMTT(30) DEF TypeOK
      <4> QED BY <4>1 DEF PayloadFrom
    <3> QED BY <3>1, <3>2
  <2>2. CASE ~link
    <3>1. /\ Wanted(q) = expected[q] /\ Packet(q) = request[q]
          /\ PayloadFrom(q) = taken[q] /\ Received(q) = 0
      BY <1>1, <2>2, UnlinkedPort
    <3>2. expected[q] \in Byte /\ request[q] \in Seq(Byte) /\ taken[q] \in Nat
      BY <1>1, SMTT(30) DEF TypeOK
    <3>3. taken[q] =< arrived[q] /\ upto = taken[q]
      BY <1>1, <3>1, <3>2 DEF PortInv, StreamsInBounds
    <3> QED BY <3>1, <3>2, <3>3
  <2> QED BY <2>1, <2>2
<1>4. /\ expected' = [expected EXCEPT ![q] = Wanted(q)]
      /\ request' = [request EXCEPT ![q] = Packet(q)]
      /\ taken' = [taken EXCEPT ![q] = upto]
      /\ UNCHANGED <<sent, arrived, delivered, packets, starts, consumed>>
  BY DEF KeepPacket
<1> HIDE DEF upto
<1>5. /\ expected' \in [Ports -> Byte] /\ request' \in [Ports -> Seq(Byte)]
      /\ taken' \in [Ports -> Nat]
      /\ expected'[q] = Wanted(q) /\ request'[q] = Packet(q) /\ taken'[q] = upto
  BY <1>1, <1>3, <1>4, Zenon DEF TypeOK
<1>6. RestOfTypes' /\ PortTypes'
  BY <1>1, <1>2, <1>4, <1>5, ZenonT(30) DEF TypeOK, RestOfTypes, PortTypes
<1>7. \A p \in Ports \ {q} : Untouched(p)
  BY <1>1, SMTT(30) DEF Untouched, KeepPacket, TypeOK
<1>8. StreamsInBounds(q)' /\ StreamIsFrames(q)' /\ IsPrefixOf(consumed[q], packets[q])'
  BY <1>1, <1>2, <1>3, <1>4, <1>5, Zenon
  DEF PortInv, StreamsInBounds, StreamIsFrames
<1>9. CASE link
  <2>1. /\ r \in 1..Len(packets[q])
        /\ Wanted(q) = Len(packets[q][r])
        /\ PayloadFrom(q) = starts[q][r] + 1 + Len(request[q])
        /\ Received(q) \in Nat
        /\ Len(Packet(q)) = Len(request[q]) + Received(q)
        /\ IsPrefixOf(Packet(q), packets[q][r])
    BY <1>1, <1>9, ReceivedIsPrefix, Zenon
  <2>2. upto = starts[q][r] + 1 + Len(Packet(q))
    <3>1. starts[q] \in Seq(Nat) /\ packets[q] \in Seq(Seq(Byte)) /\ request[q] \in Seq(Byte)
      BY <1>1, SMTT(30) DEF TypeOK
    <3> DEFINE n == Len(packets[q])
               l == Len(request[q])
               o == starts[q][r]
    <3>2. Len(starts[q]) = n + 1 /\ n \in Nat /\ l \in Nat
      BY <1>1, <3>1, LenProperties DEF PortInv, StreamIsFrames, IsFrames
    <3>3. o \in Nat
      <4>1. r \in 1..n
        BY <2>1
      <4> HIDE DEF n, r
      <4>2. r \in 1..(n + 1)
        BY <3>2, <4>1
      <4> QED BY <3>1, <3>2, <4>2
    <3>4. /\ upto = (o + 1 + l) + Received(q)
          /\ Len(Packet(q)) = l + Received(q)
      BY <2>1 DEF upto
    <3> HIDE DEF l, o
    <3>5. (o + 1 + l) + Received(q) = o + 1 + (l + Received(q))
      BY <2>1, <3>2, <3>3
    <3> QED BY <3>4, <3>5 DEF o
  <2>3. Reading(q)' = r /\ r =< Len(packets[q])
    BY <1>4, <2>1, SMTT(30) DEF Reading
  <2>4. InsidePacket(q)'
    <3>1. q \in Handlers => Len(Packet(q)) < Wanted(q)
      BY DEF KeepPacket
    <3> QED BY <1>1, <1>4, <1>5, <2>1, <2>2, <2>3, <3>1, SMTT(30)
            DEF InsidePacket
  <2> QED
    <3>1. (pc \in {"open", "handshake"} => Clear(q))'
      BY DEF NextPort
    <3>2. PortInv(q)'
      BY <1>1, <1>2, <1>8, <1>9, <2>4, <3>1, ZenonT(30) DEF PortInv
    <3> QED BY <1>6, <1>7, <3>2, IterationKeeps
<1>10. CASE ~link
  <2>1. Wanted(q) = expected[q] /\ Packet(q) = request[q]
    BY <1>1, <1>10, UnlinkedPort
  <2>2. Unlinked(q)'
    BY <1>1, <1>2, <1>4, <1>5, <1>10, <2>1, ZenonT(30)
    DEF PortInv, Unlinked, KeepPacket
  <2>3. (pc \in {"open", "handshake"} => Clear(q))'
    BY DEF NextPort
  <2>4. PortInv(q)'
    BY <1>1, <1>2, <1>8, <1>10, <2>2, <2>3, Zenon DEF PortInv
  <2> QED BY <1>6, <1>7, <2>4, IterationKeeps
<1> QED BY <1>9, <1>10

\* A response joins the response stream or becomes the pending one.
LEMMA RespondKeeps ==
    ASSUME IInv, link, NEW q \in Ports, NEW response \in Packets,
           Respond(q, response), delivered' = delivered, link' = link
    PROVE  /\ reply' \in [Ports -> Seq(Byte)]
           /\ pending' \in [Ports -> Seq(Byte)]
           /\ produced' \in [Ports -> Seq(Byte)]
           /\ (delivered[q] =< Len(reply[q]))'
           /\ (link => produced[q] = reply[q] \o pending[q])'
PROOF
<1> DEFINE framed == IF response = <<>> THEN <<>> ELSE Frame(response)
           u == reply[q] \o pending[q]
           queued == Accepts(q, Flushed(q), framed)
<1>1. PortInv(q) /\ TypeOK
  BY DEF IInv, DispatchInv
<1>2. /\ reply[q] \in Seq(Byte) /\ pending[q] \in Seq(Byte)
      /\ reply \in [Ports -> Seq(Byte)] /\ pending \in [Ports -> Seq(Byte)]
      /\ produced \in [Ports -> Seq(Byte)] /\ delivered[q] \in Nat
  BY <1>1, Zenon DEF TypeOK
<1>3. framed \in Seq(Byte)
  BY FrameType
<1>4. /\ reply' = [reply EXCEPT ![q] = IF queued THEN u \o framed ELSE u]
      /\ pending' = [pending EXCEPT ![q] = IF queued THEN <<>> ELSE framed]
      /\ produced' = [produced EXCEPT ![q] = produced[q] \o framed]
  BY DEF Respond, Flushed
<1> HIDE DEF framed, queued
<1>5. /\ u \in Seq(Byte) /\ Len(u) = Len(reply[q]) + Len(pending[q])
      /\ Len(reply[q]) \in Nat /\ Len(pending[q]) \in Nat
  BY <1>2, ConcatExtends, LenProperties
<1>6. /\ u \o framed \in Seq(Byte) /\ Len(u \o framed) = Len(u) + Len(framed)
      /\ Len(framed) \in Nat
  BY <1>3, <1>5, ConcatExtends, LenProperties
<1>7. produced[q] = u
  BY <1>1, Zenon DEF PortInv
<1>8. /\ delivered[q] =< Len(u) /\ delivered[q] =< Len(u \o framed)
  <2> DEFINE a == Len(reply[q])
             b == Len(pending[q])
             c == Len(framed)
             v == Len(u)
             w == Len(u \o framed)
  <2>1. delivered[q] =< a
    BY <1>1 DEF PortInv, StreamsInBounds
  <2>2. a \in Nat /\ b \in Nat /\ c \in Nat /\ v = a + b /\ w = v + c
    BY <1>5, <1>6
  <2>3. delivered[q] =< v /\ delivered[q] =< w
    <3> HIDE DEF a, b, c, v, w
    <3> QED BY <1>2, <2>1, <2>2
  <2> QED BY <2>3, Zenon
<1> HIDE DEF u
<1>9. /\ reply' \in [Ports -> Seq(Byte)] /\ pending' \in [Ports -> Seq(Byte)]
      /\ produced' \in [Ports -> Seq(Byte)]
  <2>1. /\ (IF queued THEN u \o framed ELSE u) \in Seq(Byte)
        /\ (IF queued THEN <<>> ELSE framed) \in Seq(Byte)
        /\ produced[q] \o framed \in Seq(Byte)
    BY <1>3, <1>5, <1>6, <1>7
  <2> QED BY <1>2, <1>4, <2>1
<1>10. /\ reply'[q] = IF queued THEN u \o framed ELSE u
       /\ pending'[q] = IF queued THEN <<>> ELSE framed
       /\ produced'[q] = u \o framed /\ delivered'[q] = delivered[q]
  BY <1>2, <1>4, <1>7
<1>11. (u \o framed) \o <<>> = u \o framed
  BY <1>6, ConcatEmptySeq
<1>12. delivered'[q] =< Len(reply'[q])
  BY <1>8, <1>10
<1>13. produced'[q] = reply'[q] \o pending'[q]
  BY <1>10, <1>11
<1> QED BY <1>9, <1>12, <1>13
\* The packet a plugin is handed is the oldest one not yet taken.
LEMMA HandledIsOldest ==
    ASSUME IInv, NEW q \in Ports, NEW response \in Packets,
           HandlePacket(q, response)
    PROVE  /\ link
           /\ Reading(q) \in 1..Len(packets[q])
           /\ Packet(q) = packets[q][Reading(q)]
           /\ Len(Packet(q)) # 0
PROOF
<1> DEFINE r == Reading(q)
<1>1. /\ TypeOK /\ PortInv(q) /\ LengthKnown(q)
      /\ Wanted(q) # 0 /\ Len(Packet(q)) = Wanted(q) /\ q \in Handlers
  BY DEF IInv, DispatchInv, HandlePacket
<1>2. link
  <2>1. ASSUME ~link PROVE FALSE
    <3>1. expected[q] # 0 /\ Wanted(q) = expected[q] /\ Packet(q) = request[q]
      BY <1>1, <2>1, UnlinkedPort, SMTT(30)
    <3>2. Len(request[q]) < expected[q] /\ Len(request[q]) = expected[q]
      BY <1>1, <2>1, <3>1 DEF PortInv, Unlinked
    <3>3. expected[q] \in Nat
      BY <1>1, FramingAssumption, SMTT(30) DEF TypeOK, Byte
    <3> QED BY <3>2, <3>3, SMTT(30)
  <2> QED BY <2>1
<1>4. /\ r \in 1..Len(packets[q])
      /\ Wanted(q) = Len(packets[q][r])
      /\ Packet(q) \in Seq(Byte)
      /\ IsPrefixOf(Packet(q), packets[q][r])
  BY <1>1, <1>2, ReceivedIsPrefix
<1>8. Packet(q) = packets[q][r]
  <2> DEFINE x == Packet(q)
             y == packets[q][r]
  <2>1. x \in Seq(Byte) /\ y \in Seq(Byte)
    <3>1. packets[q] \in Seq(Seq(Byte))
      BY <1>1 DEF TypeOK
    <3> QED BY <1>4, <3>1
  <2>2. Len(x) = Len(y) /\ \A i \in 1..Len(x) : x[i] = y[i]
    BY <1>1, <1>4 DEF IsPrefixOf
  <2> HIDE DEF x, y
  <2>3. x = y
    BY <2>1, <2>2, SeqEqual
  <2> QED BY <2>3, SMTT(30) DEF x, y
<1> QED BY <1>1, <1>2, <1>4, <1>8


LEMMA HandlePacketKeeps ==
    ASSUME IInv, NEW q \in Ports, NEW response \in Packets, pc = "dispatch",
           NextPort, HandlePacket(q, response)
    PROVE  IInv'
PROOF
<1> DEFINE r == Reading(q)
           upto == PayloadFrom(q) + Received(q)
<1>1. /\ TypeOK /\ PortInv(q) /\ link' = link /\ LengthKnown(q)
      /\ Wanted(q) # 0 /\ Len(Packet(q)) = Wanted(q) /\ q \in Handlers
  BY DEF IInv, DispatchInv, NextPort, HandlePacket
<1>2. link /\ Packet(q) = packets[q][r]
  BY HandledIsOldest
<1>3. /\ reply' \in [Ports -> Seq(Byte)] /\ pending' \in [Ports -> Seq(Byte)]
      /\ produced' \in [Ports -> Seq(Byte)]
      /\ (delivered[q] =< Len(reply[q]))'
      /\ (link => produced[q] = reply[q] \o pending[q])'
  BY <1>1, <1>2, RespondKeeps, Zenon DEF HandlePacket
<1>4. /\ r \in 1..Len(packets[q])
      /\ Wanted(q) = Len(packets[q][r])
      /\ PayloadFrom(q) = starts[q][r] + 1 + Len(request[q])
      /\ Received(q) \in Nat /\ upto =< arrived[q]
      /\ Packet(q) \in Seq(Byte)
      /\ Len(Packet(q)) = Len(request[q]) + Received(q)
      /\ IsPrefixOf(Packet(q), packets[q][r])
  BY <1>1, <1>2, ReceivedIsPrefix
<1>5. /\ expected' = [expected EXCEPT ![q] = 0]
      /\ request' = [request EXCEPT ![q] = <<>>]
      /\ taken' = [taken EXCEPT ![q] = upto]
      /\ consumed' = [consumed EXCEPT ![q] = Append(@, Packet(q))]
      /\ UNCHANGED <<sent, arrived, delivered, packets, starts>>
  BY SMTT(30) DEF HandlePacket
<1>6. upto \in Nat
  <2>1. PayloadFrom(q) \in Nat
    <3>1. taken[q] \in Nat
      BY <1>1, SMTT(30) DEF TypeOK
    <3> QED BY <3>1 DEF PayloadFrom
  <2> QED BY <1>4, <2>1
<1>7. upto = starts[q][r] + 1 + Len(Packet(q))
  <2>1. starts[q] \in Seq(Nat) /\ packets[q] \in Seq(Seq(Byte)) /\ request[q] \in Seq(Byte)
    BY <1>1, SMTT(30) DEF TypeOK
  <2> DEFINE n == Len(packets[q])
             l == Len(request[q])
             o == starts[q][r]
  <2>2. Len(starts[q]) = n + 1 /\ n \in Nat /\ l \in Nat
    BY <1>1, <2>1, LenProperties DEF PortInv, StreamIsFrames, IsFrames
  <2>3. o \in Nat
    <3>1. r \in 1..n
      BY <1>4
    <3> HIDE DEF n, r
    <3>2. r \in 1..(n + 1)
      BY <2>2, <3>1, SMTT(30)
    <3> QED BY <2>1, <2>2, <3>2
  <2>4. /\ upto = (o + 1 + l) + Received(q)
        /\ Len(Packet(q)) = l + Received(q)
    BY <1>4
  <2> HIDE DEF l, o, upto
  <2>5. (o + 1 + l) + Received(q) = o + 1 + (l + Received(q))
    BY <1>4, <2>2, <2>3
  <2> QED BY <2>4, <2>5 DEF o
<1> HIDE DEF upto
<1>8. Packet(q) = packets[q][r]
  BY <1>2
<1>9. /\ expected' \in [Ports -> Byte] /\ request' \in [Ports -> Seq(Byte)]
      /\ taken' \in [Ports -> Nat]
      /\ expected'[q] = 0 /\ request'[q] = <<>> /\ taken'[q] = upto
  <2>1. 0 \in Byte /\ <<>> \in Seq(Byte)
    BY FramingAssumption DEF Byte
  <2>2. /\ expected \in [Ports -> Byte] /\ request \in [Ports -> Seq(Byte)]
        /\ taken \in [Ports -> Nat]
    BY <1>1, ZenonT(30) DEF TypeOK
  <2>3. expected' \in [Ports -> Byte] /\ expected'[q] = 0
    BY <1>5, <2>1, <2>2
  <2>4. request' \in [Ports -> Seq(Byte)] /\ request'[q] = <<>>
    BY <1>5, <2>1, <2>2
  <2>5. taken' \in [Ports -> Nat] /\ taken'[q] = upto
    BY <1>5, <1>6, <2>2
  <2> QED BY <2>3, <2>4, <2>5
<1>10. /\ consumed' \in [Ports -> Seq(Seq(Byte))]
       /\ AtBoundary(q)'
       /\ IsPrefixOf(consumed[q], packets[q])'
  BY <1>4, <1>5, <1>7, <1>8, <1>9, ConsumeNext, Zenon
<1>11. RestOfTypes' /\ PortTypes'
  BY <1>1, <1>3, <1>5, <1>9, <1>10, ZenonT(30)
  DEF TypeOK, RestOfTypes, PortTypes
<1>12. \A p \in Ports \ {q} : Untouched(p)
  BY <1>1, <1>5 DEF Untouched, HandlePacket, Respond, TypeOK
<1>13. PortInv(q)'
  <2>1. StreamsInBounds(q)' /\ StreamIsFrames(q)'
    BY <1>1, <1>3, <1>4, <1>5, <1>9, Zenon
    DEF PortInv, StreamsInBounds, StreamIsFrames, upto
  <2>2. (pc \in {"open", "handshake"} => Clear(q))'
    BY DEF NextPort
  <2> QED BY <1>1, <1>2, <1>3, <1>10, <2>1, <2>2, ZenonT(30) DEF PortInv
<1> QED BY <1>11, <1>12, <1>13, IterationKeeps

LEMMA DispatchPortKeeps ==
    ASSUME IInv, DispatchPort
    PROVE  IInv'
PROOF
<1>1. port \in Ports /\ pc = "dispatch" /\ NextPort
  BY DEF IInv, TypeOK, DispatchPort
<1> DEFINE q == port
<1>2. CASE SkipPort(q) \/ HoldPort(q)
  BY <1>1, <1>2, SkipOrHoldKeeps
<1>3. CASE ReceiveNothing(q)
  BY <1>1, <1>3, ReceiveNothingKeeps
<1>4. CASE RejectEmpty(q)
  BY <1>1, <1>4, RejectEmptyKeeps
<1>5. CASE KeepPacket(q)
  BY <1>1, <1>5, KeepPacketKeeps
<1>6. CASE \E response \in Packets : HandlePacket(q, response)
  BY <1>1, <1>6, HandlePacketKeeps
<1> QED BY <1>2, <1>3, <1>4, <1>5, <1>6 DEF DispatchPort
-----------------------------------------------------------------------------
(***************************************************************************)
(* The other steps.                                                        *)
(***************************************************************************)

\* A step that leaves every port's state alone.
LEMMA QuietKeeps ==
    ASSUME IInv, UNCHANGED <<runtime, link, streams>>,
           keep_running' \in BOOLEAN, port' \in Ports, open' \subseteq Registered,
           pc' \in {"open", "handshake", "burst1", "dispatch", "burst2", "exit"},
           pc' \in {"open", "handshake"} => pc \in {"open", "handshake"},
           pc' = "open" => pc = "open"
    PROVE  IInv'
PROOF
<1>1. TypeOK /\ DispatchInv
  BY DEF IInv
<1>2. TypeOK'
  BY <1>1, Zenon DEF TypeOK, runtime, streams
<1>3. ASSUME NEW p \in Ports PROVE PortInv(p)'
  <2>1. PortInv(p) /\ Untouched(p) /\ link' = link
    BY <1>1, SMTT(30) DEF DispatchInv, Untouched, runtime, streams
  <2>2. pc' \in {"open", "handshake"} => Clear(p)
    BY <2>1, Zenon DEF PortInv
  <2> QED BY <2>1, <2>2, UntouchedPort
<1>4. (pc = "open" => ~link)'
  BY <1>1 DEF DispatchInv
<1> QED BY <1>2, <1>3, <1>4 DEF IInv, DispatchInv

LEMMA QuietSteps ==
    ASSUME IInv,
           \/ Signal \/ OpenPluginSockets \/ BeginPass
           \/ AwaitLink \/ EndPass \/ UNCHANGED vars
    PROVE  IInv'
PROOF
<1>1. TypeOK
  BY DEF IInv
<1>2. CASE Signal
  BY <1>1, <1>2, QuietKeeps, Zenon DEF Signal, TypeOK
<1>3. CASE OpenPluginSockets
  BY <1>1, <1>3, QuietKeeps DEF OpenPluginSockets, TypeOK
<1>4. CASE BeginPass
  <2>1. 1 \in Ports
    BY DispatchAssumption DEF Ports
  <2> QED BY <1>1, <1>4, <2>1, QuietKeeps DEF BeginPass, TypeOK
<1>5. CASE AwaitLink
  <2>1. keep_running' \in BOOLEAN
    BY <1>1, <1>5, Zenon DEF AwaitLink, Wait, TypeOK
  <2>2. pc' \in {"exit", "burst1", "handshake"}
    <3>1. CASE ~keep_running'
      BY <1>5, <3>1 DEF AwaitLink
    <3>2. CASE keep_running' /\ link
      BY <1>5, <3>2 DEF AwaitLink
    <3>3. CASE keep_running' /\ ~link
      BY <1>5, <3>3 DEF AwaitLink
    <3> QED BY <1>1, <2>1, <3>1, <3>2, <3>3 DEF TypeOK
  <2> QED BY <1>1, <1>5, <2>1, <2>2, QuietKeeps DEF AwaitLink, TypeOK
<1>6. CASE EndPass
  BY <1>1, <1>6, QuietKeeps, Zenon DEF EndPass, Wait, TypeOK
<1>7. CASE UNCHANGED vars
  BY <1>1, <1>7, QuietKeeps DEF vars, TypeOK
<1> QED BY <1>2, <1>3, <1>4, <1>5, <1>6, <1>7

LEMMA ArriveKeeps ==
    ASSUME IInv, NEW q \in Ports, Arrive(q)
    PROVE  IInv'
PROOF
<1>1. TypeOK /\ DispatchInv
  BY DEF IInv
<1>2. /\ arrived \in [Ports -> Nat] /\ taken[q] \in Nat
      /\ arrived[q] \in Nat /\ Len(sent[q]) \in Nat
  <2>1. /\ sent[q] \in Seq(Byte)
        /\ arrived \in [Ports -> Nat] /\ taken \in [Ports -> Nat]
    BY <1>1, Zenon DEF TypeOK
  <2> QED BY <2>1
<1>3. arrived' \in [Ports -> Nat] /\ arrived'[q] = arrived[q] + 1
  BY <1>2 DEF Arrive
<1>4. TypeOK'
  BY <1>1, <1>3, ZenonT(30) DEF TypeOK, Arrive, runtime
<1>5. ASSUME NEW p \in Ports PROVE PortInv(p)'
  <2>1. CASE p # q
    <3>1. Untouched(p) /\ link' = link /\ pc' = pc
      BY <1>2, <2>1, Zenon DEF Arrive, Untouched, runtime
    <3>2. PortInv(p)
      BY <1>1 DEF DispatchInv
    <3> QED BY <3>1, <3>2, UntouchedPort, Zenon DEF PortInv
  <2>2. CASE p = q
    <3>1. PortInv(q)
      BY <1>1 DEF DispatchInv
    <3>2. taken[q] =< arrived'[q] /\ arrived'[q] =< Len(sent[q])
      <4>1. taken[q] =< arrived[q]
        BY <3>1 DEF PortInv, StreamsInBounds
      <4>2. arrived[q] < Len(sent[q])
        BY SMTT(30) DEF Arrive
      <4> QED BY <1>2, <1>3, <4>1, <4>2
    <3>3. UNCHANGED <<runtime, link, pc, sent, taken, reply, delivered,
                      packets, starts, consumed, produced>>
      BY ZenonT(30) DEF Arrive
    <3>4. StreamsInBounds(q)'
      BY <3>1, <3>2, <3>3, ZenonT(30) DEF PortInv, StreamsInBounds
    <3> QED
      BY <2>2, <3>1, <3>3, <3>4, Zenon
      DEF PortInv, StreamIsFrames, AtBoundary, InsidePacket, Unlinked,
          Reading, Clear, runtime
  <2> QED BY <2>1, <2>2
<1>6. (pc = "open" => ~link)'
  BY <1>1 DEF DispatchInv, Arrive
<1> QED BY <1>4, <1>5, <1>6 DEF IInv, DispatchInv

LEMMA DepartKeeps ==
    ASSUME IInv, NEW q \in Ports, Depart(q)
    PROVE  IInv'
PROOF
<1>1. TypeOK /\ DispatchInv
  BY DEF IInv
<1>2. /\ delivered \in [Ports -> Nat]
      /\ delivered[q] \in Nat /\ Len(reply[q]) \in Nat
  <2>1. reply[q] \in Seq(Byte) /\ delivered \in [Ports -> Nat]
    BY <1>1 DEF TypeOK
  <2> QED BY <2>1
<1>3. delivered' \in [Ports -> Nat] /\ delivered'[q] = delivered[q] + 1
  BY <1>2 DEF Depart
<1>4. TypeOK'
  BY <1>1, <1>3, ZenonT(30) DEF TypeOK, Depart, runtime
<1>5. ASSUME NEW p \in Ports PROVE PortInv(p)'
  <2>1. CASE p # q
    <3>1. Untouched(p) /\ link' = link /\ pc' = pc
      BY <1>2, <2>1, ZenonT(30) DEF Depart, Untouched, runtime
    <3>2. PortInv(p)
      BY <1>1 DEF DispatchInv
    <3> QED BY <3>1, <3>2, UntouchedPort, Zenon DEF PortInv
  <2>2. CASE p = q
    <3>1. PortInv(q)
      BY <1>1 DEF DispatchInv
    <3>2. delivered'[q] =< Len(reply[q])
      <4>1. delivered[q] < Len(reply[q])
        BY DEF Depart
      <4> QED BY <1>2, <1>3, <4>1
    <3>3. UNCHANGED <<runtime, link, pc, sent, arrived, taken, reply,
                      packets, starts, consumed, produced>>
      BY SMTT(30) DEF Depart
    <3>4. StreamsInBounds(q)'
      BY <3>1, <3>2, <3>3 DEF PortInv, StreamsInBounds
    <3> QED
      BY <2>2, <3>1, <3>3, <3>4, Zenon
      DEF PortInv, StreamIsFrames, AtBoundary, InsidePacket, Unlinked,
          Reading, Clear, runtime
  <2> QED BY <2>1, <2>2
<1>6. (pc = "open" => ~link)'
  BY <1>1 DEF DispatchInv, Depart
<1> QED BY <1>4, <1>5, <1>6 DEF IInv, DispatchInv

\* The handshake loop is entered with cleared buffers, so the new session's
\* streams are read from their first byte.  This is the step that needs the
\* link not to come back between two checks of it.
LEMMA LinkUpKeeps ==
    ASSUME IInv, ~RelinkInPass, LinkUp
    PROVE  IInv'
PROOF
<1>1. TypeOK /\ DispatchInv
  BY DEF IInv
<1>2. /\ UNCHANGED <<keep_running, pc, port, open, runtime, streams>>
      /\ link' = TRUE /\ ~link /\ pc = "handshake"
  BY DEF LinkUp
<1>3. TypeOK'
  BY <1>1, <1>2, SMTT(30) DEF TypeOK, runtime, streams
<1>4. ASSUME NEW p \in Ports PROVE PortInv(p)'
  <2>1. PortInv(p) /\ Unlinked(p) /\ Clear(p)
    BY <1>1, <1>2, ZenonT(30) DEF DispatchInv, PortInv
  <2>2. /\ taken[p] \in Nat /\ arrived[p] \in Nat
    BY <1>1 DEF TypeOK
  <2>3. taken[p] = 0
    <3>1. Len(sent[p]) = 0
      BY <2>1 DEF Unlinked
    <3>2. taken[p] =< arrived[p] /\ arrived[p] =< Len(sent[p])
      BY <2>1, SMTT(30) DEF PortInv, StreamsInBounds
    <3> QED BY <2>2, <3>1, <3>2
  <2>4. starts[p][Reading(p)] = 0
    <3>1. Reading(p) = 1
      BY <2>1 DEF Unlinked, Reading
    <3> QED BY <2>1, <3>1 DEF PortInv, StreamIsFrames, IsFrames
  <2>5. AtBoundary(p)'
    BY <1>2, <2>1, <2>3, <2>4, ZenonT(30)
    DEF AtBoundary, Clear, Reading, runtime, streams
  <2>6. produced'[p] = reply'[p] \o pending'[p]
    BY <1>2, <2>1, SMTT(30) DEF Unlinked, Clear, runtime, streams
  <2>7. /\ StreamsInBounds(p)' /\ StreamIsFrames(p)' /\ Clear(p)'
        /\ IsPrefixOf(consumed[p], packets[p])'
    BY <1>2, <2>1
    DEF PortInv, StreamsInBounds, StreamIsFrames, Clear, runtime, streams
  <2> QED BY <2>5, <2>6, <2>7, <1>2, ZenonT(30) DEF PortInv
<1>5. (pc = "open" => ~link)'
  BY <1>2
<1> QED BY <1>3, <1>4, <1>5 DEF IInv, DispatchInv

LEMMA LinkDownKeeps ==
    ASSUME IInv, LinkDown
    PROVE  IInv'
PROOF
<1>1. TypeOK /\ DispatchInv
  BY DEF IInv
<1>2. TypeOK'
  <2>1. Zero \in [Ports -> Nat]
    BY DEF Zero
  <2>2. None \in [Ports -> Seq(Byte)] /\ None \in [Ports -> Seq(Seq(Byte))]
    BY DEF None
  <2>3. [p \in Ports |-> <<0>>] \in [Ports -> Seq(Nat)]
    OBVIOUS
  <2> QED BY <1>1, <2>1, <2>2, <2>3, Zenon DEF TypeOK, LinkDown, runtime
<1>3. ASSUME NEW p \in Ports PROVE PortInv(p)'
  <2>1. PortInv(p)
    BY <1>1 DEF DispatchInv
  <2>2. /\ sent'[p] = <<>> /\ arrived'[p] = 0 /\ taken'[p] = 0
        /\ reply'[p] = <<>> /\ delivered'[p] = 0 /\ packets'[p] = <<>>
        /\ starts'[p] = <<0>> /\ consumed'[p] = <<>> /\ produced'[p] = <<>>
        /\ expected' = expected /\ request' = request /\ pending' = pending
        /\ ~link' /\ pc' = pc /\ link
    BY DEF LinkDown, None, Zero, runtime
  <2>3. StreamsInBounds(p)'
    <3>1. Len(<<>>) = 0
      OBVIOUS
    <3>2. /\ taken'[p] = 0 /\ arrived'[p] = 0 /\ delivered'[p] = 0
          /\ Len(sent'[p]) = 0 /\ Len(reply'[p]) = 0
      BY <2>2, <3>1, ZenonT(30)
    <3> QED BY ONLY <3>2 DEF StreamsInBounds
  <2>4. StreamIsFrames(p)'
    <3>1. /\ sent'[p] = <<>> /\ packets'[p] = <<>> /\ starts'[p] = <<0>>
      BY <2>2
    <3> QED BY ONLY <3>1, EmptyStreamIsFrames DEF StreamIsFrames
  <2>5. IsPrefixOf(consumed[p], packets[p])'
    BY <2>2 DEF IsPrefixOf
  <2>6. /\ expected[p] = 0 => request[p] = <<>>
        /\ expected[p] # 0 =>
             /\ Len(request[p]) =< expected[p]
             /\ p \in Handlers => Len(request[p]) < expected[p]
    <3>1. CASE AtBoundary(p)
      BY <3>1 DEF AtBoundary
    <3>2. CASE InsidePacket(p)
      BY <2>1, <2>2, <3>2 DEF InsidePacket, IsPrefixOf
    <3> QED BY <2>1, <2>2, <3>1, <3>2, Zenon DEF PortInv
  <2>7. Unlinked(p)'
    BY <2>2, <2>6, SMTT(30) DEF Unlinked
  <2>8. (pc \in {"open", "handshake"} => Clear(p))'
    BY <2>1, <2>2 DEF PortInv, Clear
  <2> QED BY <2>2, <2>3, <2>4, <2>5, <2>7, <2>8, Zenon DEF PortInv
<1>4. (pc = "open" => ~link)'
  BY DEF LinkDown
<1> QED BY <1>2, <1>3, <1>4 DEF IInv, DispatchInv

LEMMA LoseLinkKeeps ==
    ASSUME IInv, LoseLink
    PROVE  IInv'
PROOF
<1>1. TypeOK /\ DispatchInv
  BY DEF IInv
<1>2. TypeOK'
  <2>1. 0 \in Byte
    BY FramingAssumption DEF Byte
  <2>2. Zero \in [Ports -> Byte]
    BY <2>1 DEF Zero
  <2>3. None \in [Ports -> Seq(Byte)]
    BY DEF None
  <2>4. keep_running' \in BOOLEAN
    BY <1>1, Zenon DEF TypeOK, LoseLink, Wait
  <2>5. UNCHANGED <<port, open, link, streams>>
        /\ pc' \in {"handshake", "exit"}
        /\ expected' = Zero /\ request' = None /\ pending' = None
    BY DEF LoseLink
  <2> QED BY <1>1, <2>2, <2>3, <2>4, <2>5, SMTT(30) DEF TypeOK, streams
<1>3. ASSUME NEW p \in Ports PROVE PortInv(p)'
  <2>1. PortInv(p)
    BY <1>1 DEF DispatchInv
  <2>2. /\ expected'[p] = 0 /\ request'[p] = <<>> /\ pending'[p] = <<>>
        /\ UNCHANGED streams /\ link' = link /\ ~link
    BY DEF LoseLink, None, Zero
  <2>3. Clear(p)' /\ Unlinked(p)'
    BY <2>1, <2>2, Zenon DEF PortInv, Clear, Unlinked, streams
  <2>4. /\ StreamsInBounds(p)' /\ StreamIsFrames(p)'
        /\ IsPrefixOf(consumed[p], packets[p])'
    BY <2>1, <2>2, Zenon DEF PortInv, StreamsInBounds, StreamIsFrames, streams
  <2> QED BY <2>2, <2>3, <2>4, Zenon DEF PortInv
<1>4. (pc = "open" => ~link)'
  BY DEF LoseLink
<1> QED BY <1>2, <1>3, <1>4 DEF IInv, DispatchInv
-----------------------------------------------------------------------------
LEMMA NextKeeps ==
    ASSUME ~RelinkInPass, IInv, [Next]_vars
    PROVE  IInv'
PROOF
<1>1. CASE Server
  BY <1>1, QuietSteps, DispatchPortKeeps, LoseLinkKeeps DEF Server
<1>2. CASE Environment
  BY <1>2, ClientSendKeeps, ArriveKeeps, DepartKeeps, LinkUpKeeps,
     LinkDownKeeps, QuietSteps, DispatchAssumption DEF Environment
<1>3. CASE Stopped \/ UNCHANGED vars
  BY <1>3, QuietSteps DEF Stopped
<1> QED BY <1>1, <1>2, <1>3 DEF Next

\* When the link does not come back between two checks of it, the types and
\* the framing invariant hold in every state the server reaches.
THEOREM DispatchCorrect ==
    ASSUME ~RelinkInPass
    PROVE  Spec => [](TypeOK /\ DispatchInv)
PROOF
<1>1. Init => IInv
  BY InitEstablishes
<1>2. IInv /\ [Next]_vars => IInv'
  BY NextKeeps
<1>3. Spec => []IInv
  BY <1>1, <1>2, PTL DEF Spec
<1> QED BY <1>3, PTL DEF IInv

\* Every variable of the dispatcher keeps its type: in particular the stored
\* part of a request and the pending response of every port stay within the
\* buffers that process_all_plugins and flush_plugin_response index.
THEOREM DispatchTypes ==
    ASSUME ~RelinkInPass
    PROVE  Spec => []TypeOK
PROOF
  BY DispatchCorrect, PTL

\* receive_plugin_packet recovers exactly the packets the client framed, for
\* every packet size, queue capacity and interleaving of bursts with passes.
THEOREM RequestsAreIntact ==
    ASSUME ~RelinkInPass
    PROVE  Spec => []RequestsIntact
PROOF
<1>1. TypeOK /\ DispatchInv => RequestsIntact
  BY Zenon DEF DispatchInv, PortInv, RequestsIntact
<1> QED BY <1>1, DispatchCorrect, PTL

\* The pending-response buffer neither loses, repeats nor reorders what the
\* plugins answer, whatever squid_send refuses and whenever.
THEOREM ResponsesAreIntact ==
    ASSUME ~RelinkInPass
    PROVE  Spec => []ResponsesIntact
PROOF
<1>1. TypeOK /\ DispatchInv => ResponsesIntact
  BY Zenon DEF DispatchInv, PortInv, ResponsesIntact
<1> QED BY <1>1, DispatchCorrect, PTL
-----------------------------------------------------------------------------
(***************************************************************************)
(* The server implements PacketService.                                    *)
(***************************************************************************)

\* A step that does not take a packet, move a response byte or change the
\* session is a stutter of the service.
LEMMA StutterServes ==
    ASSUME UNCHANGED <<link, packets, consumed, produced, delivered>>
    PROVE  [Service!Next]_(Service!vars)
PROOF BY DEF Service!vars

LEMMA RejectServes ==
    ASSUME IInv, NEW q \in Ports, RejectEmpty(q), NextPort
    PROVE  Service!Serve(q, <<>>)
PROOF
<1>1. TypeOK
  BY DEF IInv
<1>2. LengthKnown(q) /\ Wanted(q) = 0
  BY DEF RejectEmpty
<1>3. link
  BY <1>2, UnlinkedPort, ZenonT(30)
<1> DEFINE r == Reading(q)
<1>4. r \in 1..Len(packets[q]) /\ Len(packets[q][r]) = 0
  BY <1>2, <1>3, ReceivedIsPrefix, Zenon
<1>5. packets[q] \in Seq(Seq(Byte)) /\ consumed[q] \in Seq(Seq(Byte))
      /\ produced[q] \in Seq(Byte) /\ produced \in [Ports -> Seq(Byte)]
  BY <1>1, SMTT(30) DEF TypeOK
<1>6. packets[q][r] = <<>>
  <2> HIDE DEF r
  <2>1. packets[q][r] \in Seq(Byte)
    BY ONLY <1>4, <1>5
  <2> QED BY <1>4, <2>1, EmptySeq, ZenonT(30)
<1>7. Len(consumed[q]) < Len(packets[q])
  BY <1>4, <1>5, LenProperties DEF Reading
<1>8. Service!Oldest(q) = <<>>
  BY <1>6 DEF Service!Oldest, Reading
<1>9. Service!Answer(<<>>, <<>>) = <<>>
  BY DEF Service!Answer
<1>10. produced' = [produced EXCEPT ![q] = @ \o <<>>]
  <2>1. produced[q] \o <<>> = produced[q]
    BY <1>5, ConcatEmptySeq
  <2>2. produced' = produced
    BY DEF RejectEmpty
  <2> QED BY <1>5, <2>1, <2>2
<1>11. consumed' = [consumed EXCEPT ![q] = Append(@, <<>>)]
       /\ UNCHANGED <<link, packets, delivered>>
  BY DEF RejectEmpty, NextPort
<1> QED BY <1>3, <1>7, <1>8, <1>9, <1>10, <1>11, ZenonT(30) DEF Service!Serve

LEMMA HandleServes ==
    ASSUME IInv, NEW q \in Ports, NEW response \in Packets,
           HandlePacket(q, response), NextPort
    PROVE  Service!Serve(q, response)
PROOF
<1> DEFINE r == Reading(q)
<1>1. /\ link /\ r \in 1..Len(packets[q]) /\ Packet(q) = packets[q][r]
      /\ Len(Packet(q)) # 0
  BY HandledIsOldest
<1>2. packets[q] \in Seq(Seq(Byte)) /\ consumed[q] \in Seq(Seq(Byte))
  BY DEF IInv, TypeOK
<1>3. Len(consumed[q]) < Len(packets[q])
  <2> DEFINE m == Len(consumed[q])
             n == Len(packets[q])
  <2>1. m \in Nat /\ n \in Nat
    BY ONLY <1>2, LenProperties, Zenon
  <2>2. m + 1 \in 1..n
    BY <1>1 DEF Reading
  <2> HIDE DEF m, n
  <2>3. m < n
    BY ONLY <2>1, <2>2
  <2> QED BY <2>3 DEF m, n
<1>4. Service!Oldest(q) = Packet(q) /\ Packet(q) # <<>>
  BY <1>1 DEF Service!Oldest, Reading
<1>5. Service!Answer(Packet(q), response)
        = IF response = <<>> THEN <<>> ELSE Frame(response)
  BY <1>4 DEF Service!Answer, Service!Frame, Frame
<1>6. /\ consumed' = [consumed EXCEPT ![q] = Append(@, Packet(q))]
      /\ UNCHANGED <<link, packets, delivered>>
  BY DEF HandlePacket, NextPort
<1>7. produced' = [produced EXCEPT ![q] =
                     @ \o IF response = <<>> THEN <<>> ELSE Frame(response)]
  BY DEF HandlePacket, Respond
<1> QED BY <1>1, <1>3, <1>4, <1>5, <1>6, <1>7 DEF Service!Serve

LEMMA DispatchPortServes ==
    ASSUME IInv, DispatchPort
    PROVE  [Service!Next]_(Service!vars)
PROOF
<1>1. port \in Ports /\ NextPort
  BY DEF IInv, TypeOK, DispatchPort
<1>2. CASE SkipPort(port) \/ HoldPort(port)
  BY <1>1, <1>2, StutterServes, ZenonT(30)
  DEF SkipPort, HoldPort, NextPort, streams
<1>3. CASE ReceiveNothing(port) \/ KeepPacket(port)
  BY <1>1, <1>3, StutterServes DEF ReceiveNothing, KeepPacket, NextPort
<1>4. CASE RejectEmpty(port)
  <2>1. Service!Serve(port, <<>>)
    BY <1>1, <1>4, RejectServes
  <2>2. <<>> \in Service!Packets
    <3>1. <<>> \in [1..0 -> Payload] /\ 0 \in 0..PacketMax
      BY FramingAssumption
    <3> QED BY <3>1 DEF Service!Packets
  <2> QED BY <1>1, <2>1, <2>2 DEF Service!Next
<1>5. CASE \E response \in Packets : HandlePacket(port, response)
  <2>1. PICK response \in Packets : HandlePacket(port, response)
    BY <1>5
  <2>2. Service!Serve(port, response)
    BY <1>1, <2>1, HandleServes
  <2> QED BY <1>1, <2>2 DEF Service!Next, Service!Packets, Packets
<1> QED BY <1>2, <1>3, <1>4, <1>5 DEF DispatchPort

LEMMA EnvironmentServes ==
    ASSUME IInv, Environment
    PROVE  [Service!Next]_(Service!vars)
PROOF
<1>1. ASSUME NEW p \in Ports, NEW packet \in Requests, ClientSend(p, packet)
      PROVE  [Service!Next]_(Service!vars)
  <2>1. Service!Send(p, packet)
    BY <1>1 DEF ClientSend, Service!Send
  <2>2. packet \in Packets
    BY DispatchAssumption
  <2> QED BY <2>1, <2>2, Zenon DEF Service!Next, Service!Packets, Packets
<1>2. ASSUME NEW p \in Ports, Arrive(p)
      PROVE  [Service!Next]_(Service!vars)
  BY <1>2, StutterServes DEF Arrive
<1>3. ASSUME NEW p \in Ports, Depart(p)
      PROVE  [Service!Next]_(Service!vars)
  <2>1. link /\ delivered[p] < Len(reply[p])
    BY <1>3 DEF Depart
  <2>2. /\ produced[p] = reply[p] \o pending[p]
        /\ reply[p] \in Seq(Byte) /\ pending[p] \in Seq(Byte)
        /\ delivered[p] \in Nat
    BY <2>1, Zenon DEF IInv, DispatchInv, PortInv, TypeOK
  <2> DEFINE m == Len(reply[p])
             n == Len(pending[p])
             d == delivered[p]
  <2>3. Len(produced[p]) = m + n /\ m \in Nat /\ n \in Nat /\ d \in Nat /\ d < m
    <3>1. Len(reply[p] \o pending[p]) = Len(reply[p]) + Len(pending[p])
      BY ONLY <2>2, ConcatExtends
    <3>2. Len(reply[p]) \in Nat /\ Len(pending[p]) \in Nat
      BY ONLY <2>2, LenProperties
    <3> QED BY ONLY <2>1, <2>2, <3>1, <3>2, Zenon DEF m, n, d
  <2> HIDE DEF m, n, d
  <2>4. d < m + n
    BY <2>3
  <2>5. Service!Deliver(p)
    BY <1>3, <2>1, <2>3, <2>4 DEF Service!Deliver, Depart, d
  <2> QED BY <2>5 DEF Service!Next
<1>4. CASE LinkUp
  BY <1>4 DEF LinkUp, streams, Service!Next, Service!Connect
<1>5. CASE LinkDown
  BY <1>5 DEF LinkDown, None, Zero, Service!Next, Service!Disconnect
<1>6. CASE Signal
  BY <1>6, StutterServes DEF Signal, streams
<1> QED BY <1>1, <1>2, <1>3, <1>4, <1>5, <1>6 DEF Environment

\* Every step of the server and its environment is a step of the service or
\* leaves it alone: a client cannot tell the buffered, burst-driven server
\* from one that takes packets whole and in order.
THEOREM DispatchImplementsService ==
    ASSUME ~RelinkInPass
    PROVE  Spec => ImplementsService
PROOF
<1>1. Init => Service!Init
  BY DEF Init, Service!Init, None, Zero
<1>2. IInv /\ [Next]_vars => [Service!Next]_(Service!vars)
  <2> SUFFICES ASSUME IInv, [Next]_vars
               PROVE  [Service!Next]_(Service!vars)
    OBVIOUS
  <2>1. CASE DispatchPort
    BY <2>1, DispatchPortServes
  <2>2. CASE Environment
    BY <2>2, EnvironmentServes
  <2>3. CASE \/ OpenPluginSockets \/ BeginPass \/ AwaitLink \/ EndPass
             \/ LoseLink \/ Stopped \/ UNCHANGED vars
    BY <2>3, StutterServes
    DEF OpenPluginSockets, BeginPass, AwaitLink, EndPass, LoseLink, Stopped,
        vars, streams
  <2> QED BY <2>1, <2>2, <2>3 DEF Next, Server
<1>3. Spec => []IInv
  BY DispatchCorrect, PTL DEF IInv
<1> QED BY <1>1, <1>2, <1>3, PTL DEF Spec, ImplementsService, Service!Spec
=============================================================================
