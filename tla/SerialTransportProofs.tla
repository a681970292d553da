----------------------- MODULE SerialTransportProofs ------------------------
(***************************************************************************)
(* The serial transport's output ring is a queue, for every capacity.      *)
(* The steps that change the ring are a store behind the last byte and a   *)
(* removal of at most the contiguous part; the lemmas say what they do to  *)
(* the sequence of queued bytes, and the theorems follow step by step.     *)
(***************************************************************************)
EXTENDS SerialTransport, TLAPS

\* Indices run over at most one turn of the ring, where the remainder is a
\* subtraction.
LEMMA Wrap ==
    ASSUME NEW x \in Nat, x < 2 * Capacity
    PROVE  x % Capacity = IF x < Capacity THEN x ELSE x - Capacity
  <1>1. Capacity \in Nat \ {0}
    BY SerialAssumption
  <1>2. CASE x < Capacity
    BY <1>1, <1>2
  <1>3. CASE x >= Capacity
    <2>1. x - Capacity \in 0..(Capacity - 1)
      BY <1>1, <1>3
    <2>2. x = Capacity * 1 + (x - Capacity)
      BY <1>1
    <2>. QED  BY <1>1, <1>3, <2>1, <2>2
  <1>. QED  BY <1>1, <1>2, <1>3

\* The bytes of a ring with the given content, head and count.
RingBytes(f, head, count) ==
    [i \in 1..count |-> f[(head + i - 1) % Capacity]]

LEMMA RingBytesType ==
    ASSUME NEW f \in [Slots -> Byte], NEW head \in Slots,
           NEW count \in 0..Capacity
    PROVE  /\ RingBytes(f, head, count) \in Seq(Byte)
           /\ Len(RingBytes(f, head, count)) = count
  <1>1. Capacity \in Nat \ {0}
    BY SerialAssumption
  <1>2. \A i \in 1..count : (head + i - 1) % Capacity \in Slots
    BY <1>1 DEF Slots
  <1>3. RingBytes(f, head, count) \in [1..count -> Byte]
    BY <1>2 DEF RingBytes
  <1>. QED  BY <1>1, <1>3

\* The sequence new is the sequence old with b after it.
OneMore(new, old, b) ==
    new = Append(old, b)

\* Storing a byte behind the last one appends it.
LEMMA Store ==
    ASSUME NEW f \in [Slots -> Byte], NEW head \in Slots,
           NEW count \in 0..Capacity, count < Capacity, NEW b \in Byte,
           NEW g, g = [f EXCEPT ![(head + count) % Capacity] = b],
           NEW m, m = count + 1
    PROVE  /\ g \in [Slots -> Byte]
           /\ OneMore(RingBytes(g, head, m), RingBytes(f, head, count), b)
  <1>. DEFINE old == RingBytes(f, head, count)
              new == RingBytes(g, head, count + 1)
  <1>1. Capacity \in Nat \ {0} /\ head \in Nat /\ head < Capacity /\ count \in Nat
    BY SerialAssumption DEF Slots
  <1>2. (head + count) % Capacity \in Slots
    BY <1>1 DEF Slots
  <1>3. g \in [Slots -> Byte]
    BY <1>2
  <1>4. old \in Seq(Byte) /\ Len(old) = count
    BY RingBytesType
  <1>5. new \in Seq(Byte) /\ Len(new) = count + 1
    <2>1. count + 1 \in 0..Capacity
      BY <1>1
    <2>. QED  BY <1>3, <2>1, RingBytesType, Zenon
  <1>6. ASSUME NEW i \in 1..count
        PROVE  new[i] = old[i]
    <2>1. (head + i - 1) % Capacity \in Slots
      BY <1>1 DEF Slots
    <2>2. (head + i - 1) % Capacity # (head + count) % Capacity
      <3>1. /\ head + i - 1 \in Nat /\ head + i - 1 < 2 * Capacity
            /\ head + count \in Nat /\ head + count < 2 * Capacity
        BY <1>1
      <3>. DEFINE x == head + i - 1
                  y == head + count
      <3>2. x % Capacity = IF x < Capacity THEN x ELSE x - Capacity
        <4>1. x \in Nat /\ x < 2 * Capacity
          BY <3>1
        <4>. HIDE DEF x
        <4>. QED  BY <4>1, Wrap
      <3>3. y % Capacity = IF y < Capacity THEN y ELSE y - Capacity
        <4>1. y \in Nat /\ y < 2 * Capacity
          BY <3>1
        <4>. HIDE DEF y
        <4>. QED  BY <4>1, Wrap
      <3>. QED  BY <1>1, <3>2, <3>3
    <2>3. new[i] = g[(head + i - 1) % Capacity]
      BY <1>1 DEF RingBytes
    <2>4. old[i] = f[(head + i - 1) % Capacity]
      BY DEF RingBytes
    <2>. QED  BY <1>2, <2>1, <2>2, <2>3, <2>4
  <1>7. new[count + 1] = b
    <2>1. new[count + 1] = g[(head + (count + 1) - 1) % Capacity]
      BY <1>1 DEF RingBytes
    <2>2. head + (count + 1) - 1 = head + count
      BY <1>1
    <2>. QED  BY <1>2, <2>1, <2>2
  <1>8. new = Append(old, b)
    <2>. HIDE DEF new, old
    <2>. QED  BY <1>1, <1>4, <1>5, <1>6, <1>7
  <1>9. OneMore(RingBytes(g, head, m), old, b)
    BY <1>8, Zenon DEF OneMore
  <1>. QED  BY <1>3, <1>9

\* Removing at most the contiguous part removes the oldest bytes, and the
\* bytes removed are those between the head and the end of that part.
LEMMA Remove ==
    ASSUME NEW f \in [Slots -> Byte], NEW head \in Slots,
           NEW count \in 0..Capacity, NEW n \in Nat,
           0 < n, n =< count, n =< Capacity - head
    PROVE  /\ (head + n) % Capacity \in Slots
           /\ [i \in 1..n |-> f[head + i - 1]]
                = SubSeq(RingBytes(f, head, count), 1, n)
           /\ RingBytes(f, (head + n) % Capacity, count - n)
                = SubSeq(RingBytes(f, head, count), n + 1, count)
  <1>. DEFINE old == RingBytes(f, head, count)
              rest == RingBytes(f, (head + n) % Capacity, count - n)
              part == [i \in 1..n |-> f[head + i - 1]]
  <1>1. Capacity \in Nat \ {0} /\ head \in Nat /\ head < Capacity /\ count \in Nat
    BY SerialAssumption DEF Slots
  <1>2. (head + n) % Capacity \in Slots
    BY <1>1 DEF Slots
  <1>3. (head + n) % Capacity = IF head + n < Capacity THEN head + n ELSE 0
    <2>1. head + n \in Nat /\ head + n < 2 * Capacity
      BY <1>1
    <2>. QED  BY <1>1, <2>1, Wrap
  <1>4. old \in Seq(Byte) /\ Len(old) = count
    BY RingBytesType
  <1>5. rest \in Seq(Byte) /\ Len(rest) = count - n
    <2>. DEFINE h == (head + n) % Capacity
                m == count - n
    <2>1. m \in 0..Capacity /\ h \in Slots
      BY <1>1, <1>2
    <2>. HIDE DEF h, m
    <2>2. RingBytes(f, h, m) \in Seq(Byte) /\ Len(RingBytes(f, h, m)) = m
      BY <2>1, RingBytesType
    <2>. QED  BY <2>2 DEF h, m
  <1>6. ASSUME NEW i \in 1..n
        PROVE  part[i] = old[i]
    <2>1. (head + i - 1) % Capacity = head + i - 1
      BY <1>1, Wrap
    <2>. QED  BY <1>1, <2>1 DEF RingBytes
  <1>7. part \in Seq(Byte) /\ Len(part) = n
    <2>1. \A i \in 1..n : head + i - 1 \in Slots
      BY <1>1 DEF Slots
    <2>2. part \in [1..n -> Byte]
      BY <2>1
    <2>. QED  BY <2>2
  <1>8. ASSUME NEW i \in 1..(count - n)
        PROVE  rest[i] = old[n + i]
    <2>1. (((head + n) % Capacity) + i - 1) % Capacity = (head + (n + i) - 1) % Capacity
      <3>1. /\ ((head + n) % Capacity) + i - 1 \in Nat
            /\ ((head + n) % Capacity) + i - 1 < 2 * Capacity
            /\ head + (n + i) - 1 \in Nat
            /\ head + (n + i) - 1 < 2 * Capacity
        BY <1>1, <1>3
      <3>. DEFINE x == ((head + n) % Capacity) + i - 1
                  y == head + (n + i) - 1
      <3>2. x % Capacity = IF x < Capacity THEN x ELSE x - Capacity
        <4>1. x \in Nat /\ x < 2 * Capacity
          BY <3>1
        <4>. HIDE DEF x
        <4>. QED  BY <4>1, Wrap
      <3>3. y % Capacity = IF y < Capacity THEN y ELSE y - Capacity
        <4>1. y \in Nat /\ y < 2 * Capacity
          BY <3>1
        <4>. HIDE DEF y
        <4>. QED  BY <4>1, Wrap
      <3>. QED  BY <1>1, <1>3, <3>1, <3>2, <3>3
    <2>2. n + i \in 1..count
      BY <1>1
    <2>. QED  BY <2>1, <2>2 DEF RingBytes
  <1>9. part = SubSeq(old, 1, n)
    <2>. HIDE DEF part, old
    <2>. QED  BY <1>1, <1>4, <1>6, <1>7
  <1>10. rest = SubSeq(old, n + 1, count)
    <2>. HIDE DEF rest, old
    <2>. QED  BY <1>1, <1>4, <1>5, <1>8
  <1>. QED  BY <1>2, <1>9, <1>10
-----------------------------------------------------------------------------
\* Two facts on sequences.
LEMMA AppendToConcat ==
    ASSUME NEW s \in Seq(Byte), NEW t \in Seq(Byte), NEW e \in Byte
    PROVE  Append(s \o t, e) = s \o Append(t, e)
  <1>. DEFINE l == Append(s \o t, e)
              r == s \o Append(t, e)
  <1>1. Len(s) \in Nat /\ Len(t) \in Nat
    OBVIOUS
  <1>2. l \in Seq(Byte) /\ r \in Seq(Byte)
    OBVIOUS
  <1>3. Len(l) = Len(s) + Len(t) + 1 /\ Len(r) = Len(s) + Len(t) + 1
    BY <1>1
  <1>4. ASSUME NEW i \in 1..(Len(s) + Len(t) + 1)
        PROVE  l[i] = r[i]
    <2>1. CASE i =< Len(s)
      BY <1>1, <2>1
    <2>2. CASE Len(s) < i /\ i =< Len(s) + Len(t)
      BY <1>1, <2>2
    <2>3. CASE i = Len(s) + Len(t) + 1
      BY <1>1, <2>3
    <2>. QED  BY <1>1, <2>1, <2>2, <2>3
  <1>. HIDE DEF l, r
  <1>5. l = r
    BY <1>1, <1>2, <1>3, <1>4
  <1>. QED  BY <1>5 DEF l, r

LEMMA ConcatOfParts ==
    ASSUME NEW s \in Seq(Byte), NEW t \in Seq(Byte), NEW n \in 1..Len(t)
    PROVE  s \o t = (s \o SubSeq(t, 1, n)) \o SubSeq(t, n + 1, Len(t))
  <1>. DEFINE u == SubSeq(t, 1, n)
              v == SubSeq(t, n + 1, Len(t))
              l == s \o t
              w == s \o u
              r == w \o v
  <1>1. Len(s) \in Nat /\ Len(t) \in Nat /\ n \in Nat /\ n =< Len(t)
    OBVIOUS
  <1>2. /\ u \in Seq(Byte) /\ Len(u) = n
        /\ \A i \in 1..n : u[i] = t[i]
    BY <1>1
  <1>3. /\ v \in Seq(Byte) /\ Len(v) = Len(t) - n
        /\ \A i \in 1..(Len(t) - n) : v[i] = t[n + i]
    BY <1>1
  <1>. HIDE DEF u, v
  <1>4. w \in Seq(Byte) /\ Len(w) = Len(s) + n
    <2>1. w \in Seq(Byte) /\ Len(w) = Len(s) + Len(u)
      BY ONLY <1>2, s \in Seq(Byte)
    <2>. QED  BY <1>2, <2>1
  <1>. HIDE DEF w
  <1>5. /\ l \in Seq(Byte) /\ Len(l) = Len(s) + Len(t)
        /\ r \in Seq(Byte) /\ Len(r) = Len(s) + Len(t)
    <2>1. l \in Seq(Byte) /\ Len(l) = Len(s) + Len(t)
      BY ONLY s \in Seq(Byte), t \in Seq(Byte)
    <2>2. r \in Seq(Byte) /\ Len(r) = Len(w) + Len(v)
      <3>1. w \in Seq(Byte) /\ v \in Seq(Byte)
        BY <1>3, <1>4
      <3>. QED  BY ONLY <3>1
    <2>. HIDE DEF l, r
    <2>. QED  BY <1>1, <1>3, <1>4, <2>1, <2>2
  <1>6. ASSUME NEW i \in 1..(Len(s) + Len(t))
        PROVE  l[i] = r[i]
    <2>1. CASE i =< Len(s) + n
      <3>1. r[i] = w[i]
        BY <1>1, <1>3, <1>4, <2>1
      <3>2. w[i] = IF i =< Len(s) THEN s[i] ELSE u[i - Len(s)]
        BY <1>1, <1>2, <2>1 DEF w
      <3>3. l[i] = IF i =< Len(s) THEN s[i] ELSE t[i - Len(s)]
        BY <1>1
      <3>4. ~(i =< Len(s)) => i - Len(s) \in 1..n
        BY <1>1, <2>1
      <3>. QED  BY <1>2, <3>1, <3>2, <3>3, <3>4
    <2>2. CASE i > Len(s) + n
      <3>1. i - (Len(s) + n) \in 1..(Len(t) - n)
        BY <1>1, <2>2
      <3>2. r[i] = v[i - (Len(s) + n)]
        BY <1>1, <1>3, <1>4, <2>2
      <3>3. v[i - (Len(s) + n)] = t[n + (i - (Len(s) + n))]
        BY <1>3, <3>1
      <3>4. n + (i - (Len(s) + n)) = i - Len(s)
        BY <1>1
      <3>5. l[i] = t[i - Len(s)]
        BY <1>1, <2>2
      <3>. QED  BY <3>2, <3>3, <3>4, <3>5
    <2>. HIDE DEF l, r
    <2>. QED  BY <1>1, <2>1, <2>2
  <1>. HIDE DEF l, r
  <1>7. l = r
    BY <1>1, <1>5, <1>6
  <1>. QED  BY <1>7 DEF l, r, w, u, v

\* The queue the model is mapped to is the ring's content.
LEMMA QueuedIsRing ==
    Queued = RingBytes(tx_queue, tx_head, tx_count)
  BY DEF Queued, RingBytes

LEMMA QueuedIsRingPrimed ==
    Queued' = RingBytes(tx_queue', tx_head', tx_count')
  BY DEF Queued, RingBytes

\* What is queued when the types are right.
LEMMA QueuedType ==
    ASSUME TypeOK
    PROVE  Queued \in Seq(Byte) /\ Len(Queued) = tx_count
  <1>1. tx_queue \in [Slots -> Byte] /\ tx_head \in Slots /\ tx_count \in 0..Capacity
    BY DEF TypeOK
  <1>. QED  BY <1>1, RingBytesType, QueuedIsRing

\* A step that stores a byte appends it to the queue.
LEMMA SendCharStep ==
    ASSUME TypeOK, NEW b \in Byte, SendChar(b)
    PROVE  /\ TypeOK'
           /\ Queued' = Append(Queued, b)
           /\ tx_count < Capacity
  <1>1. tx_queue \in [Slots -> Byte] /\ tx_head \in Slots /\ tx_count \in 0..Capacity
    BY DEF TypeOK
  <1>2. /\ tx_count < Capacity
        /\ tx_queue' = [tx_queue EXCEPT ![(tx_head + tx_count) % Capacity] = b]
        /\ tx_head' = tx_head
        /\ tx_count' = tx_count + 1
    BY DEF SendChar
  <1>3. tx_queue' \in [Slots -> Byte]
    BY <1>1, <1>2, Store, Zenon
  <1>4. OneMore(RingBytes(tx_queue', tx_head, tx_count'),
                RingBytes(tx_queue, tx_head, tx_count), b)
    BY <1>1, <1>2, Store, Zenon
  <1>5. Queued' = Append(Queued, b)
    <2>1. OneMore(Queued', Queued, b)
      BY <1>2, <1>4, QueuedIsRing, QueuedIsRingPrimed
    <2>. QED  BY <2>1 DEF OneMore
  <1>6. tx_count' \in 0..Capacity
    BY <1>1, <1>2, SerialAssumption
  <1>7. accepted' \in Seq(Byte)
    BY DEF TypeOK, SendChar
  <1>8. TypeOK'
    BY <1>1, <1>2, <1>3, <1>6, <1>7 DEF TypeOK, SendChar
  <1>. QED  BY <1>2, <1>5, <1>8

\* A write removes the oldest bytes from the queue and puts them out.
LEMMA WriteStep ==
    ASSUME TypeOK, NEW n \in 1..Contiguous, Write(n)
    PROVE  /\ TypeOK'
           /\ n \in 1..tx_count
           /\ output' = output \o SubSeq(Queued, 1, n)
           /\ Queued' = SubSeq(Queued, n + 1, tx_count)
  <1>1. tx_queue \in [Slots -> Byte] /\ tx_head \in Slots /\ tx_count \in 0..Capacity
    BY DEF TypeOK
  <1>2. Capacity \in Nat \ {0} /\ tx_head \in Nat /\ tx_head < Capacity /\ tx_count \in Nat
    BY <1>1, SerialAssumption DEF Slots
  <1>3. n \in Nat /\ 0 < n /\ n =< tx_count /\ n =< Capacity - tx_head
    BY <1>2 DEF Contiguous
  <1>4. /\ (tx_head + n) % Capacity \in Slots
        /\ [i \in 1..n |-> tx_queue[tx_head + i - 1]]
             = SubSeq(RingBytes(tx_queue, tx_head, tx_count), 1, n)
        /\ RingBytes(tx_queue, (tx_head + n) % Capacity, tx_count - n)
             = SubSeq(RingBytes(tx_queue, tx_head, tx_count), n + 1, tx_count)
    BY <1>1, <1>3, Remove
  <1>5. output' = output \o SubSeq(Queued, 1, n)
    BY <1>4, QueuedIsRing DEF Write
  <1>6. Queued' = SubSeq(Queued, n + 1, tx_count)
    BY <1>4, QueuedIsRing, QueuedIsRingPrimed DEF Write
  <1>7. SubSeq(Queued, 1, n) \in Seq(Byte)
    BY <1>3, QueuedType
  <1>8. output' \in Seq(Byte)
    BY <1>5, <1>7 DEF TypeOK
  <1>9. tx_count' \in 0..Capacity /\ tx_head' \in Slots
    <2>1. tx_count' = tx_count - n /\ tx_head' = (tx_head + n) % Capacity
      BY DEF Write
    <2>2. tx_count - n \in 0..Capacity
      BY <1>1, <1>2, <1>3
    <2>. QED  BY <1>4, <2>1, <2>2
  <1>10. TypeOK'
    BY <1>8, <1>9 DEF TypeOK, Write
  <1>. QED  BY <1>2, <1>3, <1>5, <1>6, <1>10

\* No other step changes the queue or what was put out.
LEMMA OtherSteps ==
    ASSUME TypeOK, [Next]_vars,
           ~\E b \in Byte : SendChar(b),
           ~\E n \in 1..Contiguous : Write(n)
    PROVE  /\ TypeOK'
           /\ Queued' = Queued
           /\ output' = output
           /\ accepted' = accepted
  <1>1. CASE UNCHANGED vars
    BY <1>1 DEF TypeOK, Queued, vars, ring
  <1>2. CASE RefuseChar \/ PollIdle \/ WriteInterrupted \/ Closed
    BY <1>2 DEF TypeOK, Queued, vars, ring, RefuseChar, PollIdle,
                WriteInterrupted, Closed
  <1>3. CASE PollWritable
    BY <1>3 DEF TypeOK, Queued, ring, PollWritable
  <1>4. CASE PollFails \/ WriteFails \/ Close
    BY <1>4 DEF TypeOK, Queued, ring, PollFails, WriteFails, Close
  <1>5. CASE WriteBlocked
    BY <1>5 DEF TypeOK, Queued, ring, WriteBlocked, AfterFlush
  <1>6. CASE Flushed
    <2>1. Queued' = <<>> /\ Queued = <<>>
      BY <1>6 DEF Queued, Flushed
    <2>2. 0 \in Slots
      BY SerialAssumption DEF Slots
    <2>3. TypeOK'
      BY <1>6, <2>2 DEF TypeOK, Flushed, AfterFlush
    <2>. QED  BY <1>6, <2>1, <2>3 DEF Flushed
  <1>. QED  BY <1>1, <1>2, <1>3, <1>4, <1>5, <1>6 DEF Next

LEMMA InitialQueue ==
    ASSUME Init
    PROVE  TypeOK /\ Queued = <<>>
  <1>1. Queued = <<>>
    BY DEF Init, Queued
  <1>2. 0 \in Slots /\ 0 \in 0..Capacity
    BY SerialAssumption DEF Slots
  <1>3. <<>> \in Seq(Byte)
    OBVIOUS
  <1>4. TypeOK
    BY <1>2, <1>3 DEF Init, TypeOK
  <1>. QED  BY <1>1, <1>4
-----------------------------------------------------------------------------
\* Whatever the capacity and however the device takes the bytes, what
\* serial_send_char accepted is what flush_output wrote followed by what the
\* ring holds, in order.
THEOREM OutputIsIntact == Spec => [](TypeOK /\ NothingLost)
  <1>1. Init => TypeOK /\ NothingLost
    <2>1. <<>> = <<>> \o <<>>
      OBVIOUS
    <2>. QED  BY <2>1, InitialQueue, Zenon DEF Init, NothingLost
  <1>2. TypeOK /\ NothingLost /\ [Next]_vars => TypeOK' /\ NothingLost'
    <2>. SUFFICES ASSUME TypeOK, NothingLost, [Next]_vars
                  PROVE  TypeOK' /\ NothingLost'
      OBVIOUS
    <2>0. /\ output \in Seq(Byte)
          /\ Queued \in Seq(Byte)
          /\ Len(Queued) = tx_count
          /\ tx_count \in Nat
          /\ accepted = output \o Queued
      BY QueuedType, SerialAssumption DEF TypeOK, NothingLost
    <2>1. ASSUME NEW b \in Byte, SendChar(b)
          PROVE  TypeOK' /\ NothingLost'
      <3>1. TypeOK' /\ Queued' = Append(Queued, b)
        BY <2>1, SendCharStep
      <3>2. accepted' = Append(accepted, b) /\ output' = output
        BY <2>1 DEF SendChar
      <3>3. Append(output \o Queued, b) = output \o Append(Queued, b)
        BY <2>0, AppendToConcat, Zenon
      <3>. QED  BY <2>0, <3>1, <3>2, <3>3 DEF NothingLost
    <2>2. ASSUME NEW n \in 1..Contiguous, Write(n)
          PROVE  TypeOK' /\ NothingLost'
      <3>1. /\ TypeOK'
            /\ n \in 1..tx_count
            /\ output' = output \o SubSeq(Queued, 1, n)
            /\ Queued' = SubSeq(Queued, n + 1, tx_count)
        BY <2>2, WriteStep
      <3>2. accepted' = accepted
        BY <2>2 DEF Write
      <3>3. output \o Queued
              = (output \o SubSeq(Queued, 1, n))
                   \o SubSeq(Queued, n + 1, tx_count)
        BY <2>0, <3>1, ConcatOfParts, Zenon
      <3>. QED  BY <2>0, <3>1, <3>2, <3>3 DEF NothingLost
    <2>. QED  BY <2>1, <2>2, OtherSteps DEF NothingLost
  <1>. QED  BY <1>1, <1>2, PTL DEF Spec

\* The ring's indices stay inside tx_buffer and its count within the capacity,
\* whatever the calls of squid_serial_send_char and the partial writes.
THEOREM RingIndices == Spec => []TypeOK
  BY OutputIsIntact, PTL

\* The ring implements a bounded queue of bytes: each step of the transport
\* enqueues a byte, transmits some of the oldest, or does nothing to it.
THEOREM RingImplementsQueue == Spec => ImplementsQueue
  <1>1. Init => Queue!Init
    BY InitialQueue, Zenon DEF Init, Queue!Init
  <1>2. TypeOK /\ [Next]_vars => [Queue!Next]_(Queue!vars)
    <2>. SUFFICES ASSUME TypeOK, [Next]_vars
                  PROVE  [Queue!Next]_(Queue!vars)
      OBVIOUS
    <2>1. ASSUME NEW b \in Byte, SendChar(b)
          PROVE  Queue!Enqueue(b)
      <3>1. Queued' = Append(Queued, b) /\ tx_count < Capacity
        BY <2>1, SendCharStep
      <3>. QED  BY <2>1, <3>1, QueuedType DEF Queue!Enqueue, SendChar
    <2>2. ASSUME NEW n \in 1..Contiguous, Write(n)
          PROVE  n \in 1..Len(Queued) /\ Queue!Transmit(n)
      BY <2>2, WriteStep, QueuedType DEF Queue!Transmit
    <2>3. ASSUME ~\E b \in Byte : SendChar(b),
                 ~\E n \in 1..Contiguous : Write(n)
          PROVE  UNCHANGED Queue!vars
      BY <2>3, OtherSteps DEF Queue!vars
    <2>. QED  BY <2>1, <2>2, <2>3 DEF Queue!Next
  <1>. QED  BY <1>1, <1>2, OutputIsIntact, PTL
            DEF Spec, ImplementsQueue, Queue!Spec
=============================================================================
