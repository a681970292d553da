------------------------ MODULE FilesystemListProofs ------------------------
(***************************************************************************)
(* Proofs about the paged listing, for every directory, page size, number  *)
(* of cursors and batch of the kernel.                                     *)
(***************************************************************************)
EXTENDS FilesystemList, FiniteSetTheorems, TLAPS

\* Where a walk of a directory that can be listed is.
WalkInv(d) ==
    walk[d] = "walking" /\ d \notin stale /\ Numbered(d) =>
      /\ cursor[d] =< Len(entries[d])
      /\ seen[d] = SubSeq(entries[d], 1, cursor[d])

ListInv ==
    /\ TypeOK
    /\ \A d \in Subdirectories : WalkInv(d) /\ Listed(d)
-----------------------------------------------------------------------------
(***************************************************************************)
(* Numbers, sequences and sets.                                            *)
(***************************************************************************)
\* Division with a positive divisor.
LEMMA DivFacts ==
    ASSUME NEW a \in Nat, NEW s \in Nat \ {0}
    PROVE  /\ a \div s \in Nat
           /\ a % s \in 0..(s - 1)
           /\ a = s * (a \div s) + (a % s)
PROOF OBVIOUS

LEMMA DivSmall ==
    ASSUME NEW a \in Nat, NEW s \in Nat \ {0}, a < s
    PROVE  a \div s = 0 /\ a % s = a
PROOF OBVIOUS

LEMMA DivMonotone ==
    ASSUME NEW a \in Nat, NEW b \in Nat, NEW s \in Nat \ {0}, a =< b
    PROVE  a \div s =< b \div s
PROOF
<1> DEFINE p == a \div s
           q == b \div s
           r == a % s
           t == b % s
<1>1. p \in Nat /\ q \in Nat /\ r \in 0..(s - 1) /\ t \in 0..(s - 1)
  BY DivFacts
<1>2. a = s * p + r /\ b = s * q + t
  BY DivFacts
<1> HIDE DEF p, q, r, t
<1> SUFFICES ASSUME p > q PROVE FALSE
  BY <1>1 DEF p, q
<1>3. PICK k \in Nat : p = q + 1 + k
  <2>1. p - q - 1 \in Nat /\ p = q + 1 + (p - q - 1)
    BY <1>1
  <2> QED BY <2>1
<1>4. s * p = s * q + s + s * k /\ s * k \in Nat /\ s * q \in Nat
  BY <1>1, <1>3
<1> QED BY <1>1, <1>2, <1>4

\* The larger and the smaller of two numbers.
LEMMA MaxPair ==
    ASSUME NEW a \in Nat, NEW b \in Nat
    PROVE  Max({a, b}) \in Nat
PROOF
<1>1. \E x \in {a, b} : \A y \in {a, b} : x >= y
  OBVIOUS
<1> QED BY <1>1 DEF Max

LEMMA MinPair ==
    ASSUME NEW a \in Nat, NEW b \in Nat
    PROVE  Min({a, b}) \in Nat
PROOF
<1>1. \E x \in {a, b} : \A y \in {a, b} : x =< y
  OBVIOUS
<1> QED BY <1>1 DEF Min

\* A set of positions that has every earlier one is an initial segment.
LEMMA InitialSegment ==
    ASSUME NEW n \in Nat, NEW S \in SUBSET (1..n),
           \A i \in S : \A j \in 1..i : j \in S
    PROVE  Cardinality(S) \in Nat /\ S = 1..Cardinality(S)
PROOF
<1>1. \A m \in Nat : IsFiniteSet(1..m) /\ Cardinality(1..m) = m
  <2> TAKE m \in Nat
  <2>1. IsFiniteSet(1..m) /\ Cardinality(1..m) = IF 1 > m THEN 0 ELSE m - 1 + 1
    BY FS_Interval, 1 \in Int, m \in Int, Zenon
  <2> QED BY <2>1
<1>2. IsFiniteSet(S)
  BY <1>1, FS_Subset
<1>3. Cardinality(S) \in Nat
  BY <1>2, FS_CardinalityType
<1>4. ASSUME NEW i \in S PROVE i \in 1..Cardinality(S)
  <2>1. i \in Nat /\ i >= 1 /\ 1..i \subseteq S
    OBVIOUS
  <2>2. Cardinality(1..i) =< Cardinality(S)
    BY <1>2, <2>1, FS_Subset
  <2> QED BY <1>1, <1>3, <2>1, <2>2
<1>5. ASSUME NEW i \in 1..Cardinality(S) PROVE i \in S
  <2> SUFFICES ASSUME i \notin S PROVE FALSE
    OBVIOUS
  <2>1. i \in Nat /\ i - 1 \in Nat /\ i =< Cardinality(S)
    BY <1>3
  <2>2. S \subseteq 1..(i - 1)
    <3> SUFFICES ASSUME NEW j \in S PROVE j \in 1..(i - 1)
      OBVIOUS
    <3>1. j \in Nat /\ j >= 1 /\ (i \in 1..j => i \in S)
      OBVIOUS
    <3> QED BY <2>1, <3>1
  <2>3. Cardinality(S) =< Cardinality(1..(i - 1))
    BY <1>1, <2>1, <2>2, FS_Subset
  <2> QED BY <1>1, <1>3, <2>1, <2>3
<1> QED BY <1>3, <1>4, <1>5
-----------------------------------------------------------------------------
(***************************************************************************)
(* What handle_list does with the entries of a directory.                  *)
(***************************************************************************)
LEMMA Constants ==
    /\ CursorEnd \in Nat /\ CursorEnd > 0 /\ Numbers \in Nat /\ Numbers > 0
    /\ Batch \in Nat \ {0} /\ Size \in [Names -> Nat \ {0}]
PROOF BY ListAssumption DEF Numbers

\* A listed entry comes after the entries listed before it and those passed
\* over, and in the order of the directory.
LEMMA PlaceFacts ==
    ASSUME NEW c \in 0..CursorEnd, NEW k \in Nat \ {0}
    PROVE  /\ Place(c, k) \in Nat
           /\ k + c =< Place(c, k)
           /\ k =< Numbers - c => Place(c, k) = k + c
           /\ \A j \in 1..k : Place(c, j) =< Place(c, k)
PROOF
<1>1. c \in Nat /\ Numbers - c \in Nat \ {0} /\ k - 1 \in Nat
  BY Constants DEF Numbers
<1> DEFINE q(j) == (j - 1) \div (Numbers - c)
<1>2. \A j \in Nat \ {0} : Place(c, j) = j + c + c * q(j) /\ q(j) \in Nat
  <2> TAKE j \in Nat \ {0}
  <2>1. q(j) \in Nat
    BY <1>1, DivFacts
  <2> HIDE DEF q
  <2>2. Place(c, j) = j + c * (1 + q(j))
    BY DEF Place, q
  <2> QED BY <1>1, <2>1, <2>2
<1>3. ASSUME k =< Numbers - c PROVE q(k) = 0
  <2>1. k - 1 < Numbers - c
    BY <1>1, <1>3
  <2> QED BY <1>1, <2>1, DivSmall
<1>4. \A j \in 1..k : q(j) =< q(k)
  <2> TAKE j \in 1..k
  <2>1. j - 1 \in Nat /\ j - 1 =< k - 1
    OBVIOUS
  <2> QED BY <1>1, <2>1, DivMonotone
<1> HIDE DEF q
<1>5. Place(c, k) = k + c + c * q(k) /\ q(k) \in Nat /\ c * q(k) \in Nat
  BY <1>1, <1>2
<1>6. ASSUME NEW j \in 1..k PROVE Place(c, j) =< Place(c, k)
  <2>1. j \in Nat \ {0} /\ j =< k
    OBVIOUS
  <2>2. Place(c, j) = j + c + c * q(j) /\ q(j) \in Nat /\ q(j) =< q(k)
    BY <1>2, <1>4, <2>1
  <2>3. PICK e \in Nat : q(k) = q(j) + e
    <3>1. q(k) - q(j) \in Nat /\ q(k) = q(j) + (q(k) - q(j))
      BY <1>5, <2>2
    <3> QED BY <3>1
  <2>4. c * q(k) = c * q(j) + c * e /\ c * e \in Nat /\ c * q(j) \in Nat
    BY <1>1, <2>2, <2>3
  <2> QED BY <1>1, <1>5, <2>1, <2>2, <2>4
<1>7. k =< Numbers - c => Place(c, k) = k + c
  BY <1>1, <1>3, <1>5
<1> QED BY <1>1, <1>5, <1>6, <1>7

\* What readdir yields.
LEMMA YieldsType ==
    ASSUME TypeOK, NEW d \in Dirs
    PROVE  /\ Start(d) \in Nat
           /\ Yields(d) \in Seq(Names)
           /\ Len(Yields(d)) \in Nat
           /\ cursor[d] \in 0..CursorEnd
           /\ entries[d] \in Seq(Names) /\ Len(entries[d]) \in Nat
           /\ seen[d] \in Seq(Names)
PROOF
<1>1. /\ entries[d] \in Seq(Names) /\ seen[d] \in Seq(Names)
      /\ cursor[d] \in 0..CursorEnd /\ root_offset \in Nat
  BY DEF TypeOK
<1>2. Start(d) \in Nat
  BY <1>1 DEF Start
<1>3. Yields(d) \in Seq(Names) /\ Len(Yields(d)) \in Nat
  <2>1. PICK m \in Nat : m = Start(d)
    BY <1>2
  <2>2. ASSUME NEW i \in (m + 1)..Len(entries[d])
        PROVE  i \in 1..Len(entries[d])
    OBVIOUS
  <2>3. SubSeq(entries[d], m + 1, Len(entries[d])) \in Seq(Names)
    BY <1>1, <2>2
  <2> QED BY <2>1, <2>3 DEF Yields
<1> QED BY <1>1, <1>2, <1>3

\* What is left of it, and how much of that fits in a page.
LEMMA AfterType ==
    ASSUME TypeOK, NEW d \in Dirs
    PROVE  /\ After(d) \in Seq(Names)
           /\ Len(After(d)) \in Nat
           /\ Count(d) \in 0..Len(After(d))
PROOF
<1> DEFINE last == Len(Yields(d))
           S == {j \in 1..last : Place(cursor[d], j) =< last}
<1>1. /\ Yields(d) \in Seq(Names) /\ last \in Nat /\ cursor[d] \in 0..CursorEnd
  BY YieldsType
<1>2. \A i \in S : \A j \in 1..i : j \in S
  <2> TAKE i \in S
  <2> TAKE j \in 1..i
  <2>1. /\ i \in Nat \ {0} /\ i =< last /\ Place(cursor[d], i) =< last
        /\ j \in 1..last /\ j \in Nat \ {0}
    BY <1>1
  <2>2. Place(cursor[d], j) =< Place(cursor[d], i)
    BY <1>1, <2>1, PlaceFacts
  <2>3. Place(cursor[d], i) \in Nat /\ Place(cursor[d], j) \in Nat
    BY <1>1, <2>1, PlaceFacts
  <2> QED BY <1>1, <2>1, <2>2, <2>3
<1>3. PICK n \in Nat : S = 1..n
  <2>1. S \in SUBSET (1..last)
    OBVIOUS
  <2> HIDE DEF S, last
  <2> QED BY <1>1, <1>2, <2>1, InitialSegment
<1>4. \A k \in 1..n : Yields(d)[Place(cursor[d], k)] \in Names
  <2> TAKE k \in 1..n
  <2>1. k \in Nat \ {0} /\ Place(cursor[d], k) =< last
    BY <1>3
  <2>2. /\ Place(cursor[d], k) \in Nat /\ k + cursor[d] =< Place(cursor[d], k)
    BY <1>1, <2>1, PlaceFacts
  <2>3. Place(cursor[d], k) \in 1..last
    BY <1>1, <2>1, <2>2
  <2> QED BY <1>1, <2>3
<1>5. After(d) = [k \in 1..n |-> Yields(d)[Place(cursor[d], k)]]
  BY <1>3 DEF After
<1>6. After(d) \in Seq(Names) /\ Len(After(d)) = n
  BY <1>4, <1>5
<1>7. Count(d) \in 0..n
  <2> DEFINE T == {k \in 1..n : Fits(SubSeq(After(d), 1, k))}
  <2>1. Count(d) = Cardinality(T)
    BY <1>6 DEF Count
  <2>2. T \in SUBSET (1..n)
    OBVIOUS
  <2> HIDE DEF T
  <2>3. IsFiniteSet(1..n) /\ Cardinality(1..n) = n
    <3>1. /\ IsFiniteSet(1..n)
          /\ Cardinality(1..n) = IF 1 > n THEN 0 ELSE n - 1 + 1
      BY FS_Interval, 1 \in Int, n \in Int, Zenon
    <3> QED BY <3>1
  <2>4. IsFiniteSet(T) /\ Cardinality(T) =< n
    BY <2>2, <2>3, FS_Subset
  <2>5. Cardinality(T) \in Nat
    BY <2>4, FS_CardinalityType
  <2> QED BY <2>1, <2>4, <2>5
<1> QED BY <1>6, <1>7

\* Where the page leaves the cursor and the position of the directory.
LEMMA NextType ==
    ASSUME TypeOK, NEW d \in Dirs
    PROVE  /\ NextCursor(d) \in 0..CursorEnd
           /\ Examined(d) \in Nat
           /\ \A k \in Nat : PositionAfter(d, k) \in Nat
           /\ Moved(d) => root_offset' \in Nat
PROOF
<1>1. /\ cursor[d] \in 0..CursorEnd /\ Start(d) \in Nat
      /\ Len(Yields(d)) \in Nat /\ Len(entries[d]) \in Nat
  BY YieldsType
<1>2. Count(d) \in Nat /\ Count(d) + 1 \in Nat \ {0}
  BY AfterType
<1>3. Place(cursor[d], Count(d) + 1) \in Nat \ {0}
  <2>1. /\ Place(cursor[d], Count(d) + 1) \in Nat
        /\ Count(d) + 1 + cursor[d] =< Place(cursor[d], Count(d) + 1)
    BY <1>1, <1>2, PlaceFacts
  <2> QED BY <1>1, <1>2, <2>1
<1>4. NextCursor(d) \in 0..CursorEnd
  <2>1. (Place(cursor[d], Count(d) + 1) - 1) % Numbers \in 0..(Numbers - 1)
    <3>1. /\ Place(cursor[d], Count(d) + 1) - 1 \in Nat
          /\ Numbers \in Nat \ {0}
      BY <1>3, Constants
    <3> QED BY ONLY <3>1, DivFacts
  <2>2. CursorEnd \in 0..CursorEnd /\ Numbers - 1 = CursorEnd
    BY Constants DEF Numbers
  <2> QED BY <2>1, <2>2 DEF NextCursor
<1>5. Examined(d) \in Nat
  BY <1>1, <1>3 DEF Examined
<1>6. ASSUME NEW k \in Nat PROVE PositionAfter(d, k) \in Nat
  <2> DEFINE b == (k + Batch - 1) \div Batch
             m == Max({Start(d), Len(entries[d])})
  <2>1. b \in Nat
    BY Constants, DivFacts
  <2>2. m \in Nat
    BY <1>1, MaxPair
  <2>3. PositionAfter(d, k) = Min({Start(d) + b * Batch, m})
    BY DEF PositionAfter
  <2> HIDE DEF b, m
  <2>4. Start(d) + b * Batch \in Nat
    BY <1>1, <2>1, Constants
  <2> QED BY <2>2, <2>3, <2>4, MinPair
<1>7. Moved(d) => root_offset' \in Nat
  BY <1>5, <1>6 DEF Moved, Position, TypeOK
<1> QED BY <1>4, <1>5, <1>6, <1>7

\* A page of a subdirectory with no more entries than cursors is the next
\* entries of the directory, and the next cursor is their end.
LEMMA PageOfNumbered ==
    ASSUME TypeOK, NEW d \in Subdirectories, Numbered(d),
           cursor[d] =< Len(entries[d])
    PROVE  /\ Count(d) \in Nat /\ cursor[d] + Count(d) =< Len(entries[d])
           /\ Complete(d) <=> cursor[d] + Count(d) = Len(entries[d])
           /\ SubSeq(After(d), 1, Count(d)) \in Seq(Names)
           /\ Len(SubSeq(After(d), 1, Count(d))) = Count(d)
           /\ \A k \in 1..Count(d) :
                SubSeq(After(d), 1, Count(d))[k] = entries[d][cursor[d] + k]
           /\ ~Complete(d) => /\ NextCursor(d) = cursor[d] + Count(d)
                              /\ NextCursor(d) # CursorEnd
PROOF
<1>1. d \in Dirs /\ d # Root
  BY ListAssumption DEF Dirs
<1>2. /\ entries[d] \in Seq(Names) /\ Len(entries[d]) \in Nat
      /\ cursor[d] \in 0..CursorEnd /\ cursor[d] \in Nat
      /\ Len(entries[d]) =< CursorEnd
  BY <1>1, YieldsType DEF Numbered
<1>3. Yields(d) = entries[d]
  <2>1. Start(d) = 0
    BY <1>1 DEF Start
  <2>2. SubSeq(entries[d], 1, Len(entries[d])) = entries[d]
    BY <1>2
  <2> QED BY <2>1, <2>2 DEF Yields
<1> DEFINE last == Len(entries[d])
           n == last - cursor[d]
<1>4. n \in Nat /\ n =< last
  BY <1>2
<1>5. \A k \in Nat \ {0} :
        /\ Place(cursor[d], k) \in Nat
        /\ k + cursor[d] =< Place(cursor[d], k)
        /\ k =< n + 1 => Place(cursor[d], k) = k + cursor[d]
  <2> TAKE k \in Nat \ {0}
  <2>1. /\ Place(cursor[d], k) \in Nat /\ k + cursor[d] =< Place(cursor[d], k)
        /\ k =< Numbers - cursor[d] => Place(cursor[d], k) = k + cursor[d]
    BY <1>2, PlaceFacts
  <2>2. n + 1 =< Numbers - cursor[d]
    BY <1>2, Constants DEF Numbers
  <2>3. Numbers - cursor[d] \in Int /\ n + 1 \in Int
    BY <1>2, Constants
  <2> HIDE DEF n
  <2> QED BY <2>1, <2>2, <2>3
<1>6. {j \in 1..last : Place(cursor[d], j) =< last} = 1..n
  <2>1. ASSUME NEW j \in 1..last, Place(cursor[d], j) =< last
        PROVE  j \in 1..n
    <3>1. Place(cursor[d], j) \in Nat /\ j + cursor[d] =< Place(cursor[d], j)
      BY <1>5, <1>2
    <3> QED BY <1>2, <2>1, <3>1
  <2>2. ASSUME NEW j \in 1..n
        PROVE  j \in 1..last /\ Place(cursor[d], j) =< last
    <3>1. j \in Nat \ {0} /\ j =< n + 1 /\ j \in 1..last
      BY <1>4
    <3>2. Place(cursor[d], j) = j + cursor[d]
      BY <1>5, <3>1
    <3> QED BY <1>2, <3>1, <3>2
  <2> HIDE DEF last, n
  <2> QED BY <2>1, <2>2
<1>7. After(d) = [k \in 1..n |-> entries[d][cursor[d] + k]]
  <2>1. After(d) = [k \in 1..n |-> entries[d][Place(cursor[d], k)]]
    BY <1>3, <1>6 DEF After
  <2>2. \A k \in 1..n : Place(cursor[d], k) = cursor[d] + k
    <3> TAKE k \in 1..n
    <3>1. k \in Nat \ {0} /\ k =< n + 1
      BY <1>4
    <3>2. Place(cursor[d], k) = k + cursor[d]
      BY <1>5, <3>1
    <3> QED BY <1>2, <3>1, <3>2
  <2> HIDE DEF n
  <2> QED BY <2>1, <2>2
<1>8. Count(d) \in 0..Len(After(d)) /\ After(d) \in Seq(Names)
  BY <1>1, AfterType
<1>9. Len(After(d)) = n
  <2> HIDE DEF n
  <2> QED BY <1>4, <1>7, <1>8
<1>10. Count(d) \in Nat /\ Count(d) =< n
  BY <1>4, <1>8, <1>9
<1>11. Complete(d) <=> cursor[d] + Count(d) = last
  BY <1>2, <1>9, <1>10 DEF Complete
<1>12. /\ SubSeq(After(d), 1, Count(d)) \in Seq(Names)
       /\ Len(SubSeq(After(d), 1, Count(d))) = Count(d)
       /\ \A k \in 1..Count(d) :
            SubSeq(After(d), 1, Count(d))[k] = After(d)[k]
  BY <1>8, <1>9, <1>10
<1>13. \A k \in 1..Count(d) : After(d)[k] = entries[d][cursor[d] + k]
  <2> TAKE k \in 1..Count(d)
  <2>1. k \in 1..n
    BY <1>4, <1>10
  <2> HIDE DEF n
  <2> QED BY <1>7, <2>1
<1>14. ASSUME ~Complete(d)
       PROVE  /\ NextCursor(d) = cursor[d] + Count(d)
              /\ NextCursor(d) # CursorEnd
  <2>1. cursor[d] + Count(d) < last
    BY <1>2, <1>10, <1>11, <1>14
  <2>2. Place(cursor[d], Count(d) + 1) = Count(d) + 1 + cursor[d]
    <3>1. Count(d) + 1 \in Nat \ {0} /\ Count(d) + 1 =< n + 1
      BY <1>4, <1>10
    <3> QED BY <1>5, <3>1
  <2>3. PICK m \in Nat : m = cursor[d] + Count(d)
    BY <1>2, <1>10
  <2>4. m < Numbers /\ m # CursorEnd /\ Numbers \in Nat \ {0}
    BY <1>2, <2>1, <2>3, Constants DEF Numbers
  <2>5. m % Numbers = m
    BY ONLY <2>4, m \in Nat, DivSmall
  <2>6. Place(cursor[d], Count(d) + 1) - 1 = m
    BY <1>2, <1>10, <2>2, <2>3
  <2> QED BY <1>14, <2>3, <2>4, <2>5, <2>6 DEF NextCursor
<1> HIDE DEF last, n
<1>15. cursor[d] + Count(d) =< Len(entries[d])
  BY <1>2, <1>10 DEF last, n
<1> QED BY <1>10, <1>11, <1>12, <1>13, <1>14, <1>15 DEF last

\* Sequences with the same elements are the same.
LEMMA SameElements ==
    ASSUME NEW S, NEW s \in Seq(S), NEW t \in Seq(S), Len(s) = Len(t),
           \A i \in 1..Len(s) : s[i] = t[i]
    PROVE  s = t
PROOF OBVIOUS

\* A prefix and the entries after it are a longer prefix.
LEMMA PrefixGrows ==
    ASSUME NEW S, NEW s \in Seq(S), NEW m \in Nat, NEW n \in Nat,
           m + n =< Len(s), NEW t \in Seq(S), Len(t) = n,
           \A k \in 1..n : t[k] = s[m + k]
    PROVE  SubSeq(s, 1, m) \o t = SubSeq(s, 1, m + n)
PROOF
<1>1. /\ SubSeq(s, 1, m) \in Seq(S) /\ Len(SubSeq(s, 1, m)) = m
      /\ \A i \in 1..m : SubSeq(s, 1, m)[i] = s[i]
  OBVIOUS
<1>2. /\ SubSeq(s, 1, m + n) \in Seq(S) /\ Len(SubSeq(s, 1, m + n)) = m + n
      /\ \A i \in 1..(m + n) : SubSeq(s, 1, m + n)[i] = s[i]
  OBVIOUS
<1> DEFINE u == SubSeq(s, 1, m)
           v == SubSeq(s, 1, m + n)
<1> HIDE DEF u, v
<1>3. /\ u \o t \in Seq(S) /\ Len(u \o t) = m + n
      /\ \A i \in 1..m : (u \o t)[i] = u[i]
      /\ \A i \in 1..n : (u \o t)[m + i] = t[i]
  <2>1. u \in Seq(S) /\ Len(u) = m
    BY <1>1 DEF u
  <2> QED BY ONLY <2>1, m \in Nat, n \in Nat, t \in Seq(S), Len(t) = n
<1>4. ASSUME NEW i \in 1..(m + n) PROVE (u \o t)[i] = v[i]
  <2>1. v[i] = s[i]
    BY <1>2 DEF v
  <2>2. CASE i \in 1..m
    <3>1. u[i] = s[i]
      BY <1>1, <2>2 DEF u
    <3> QED BY <1>3, <2>1, <2>2, <3>1
  <2>3. CASE i \notin 1..m
    <3>1. i - m \in 1..n /\ m + (i - m) = i
      BY <2>3
    <3> QED BY <1>3, <2>1, <3>1
  <2> QED BY <2>2, <2>3
<1>5. v \in Seq(S) /\ Len(v) = m + n
  BY <1>2 DEF v
<1>6. u \o t = v
  <2>1. Len(u \o t) = Len(v) /\ \A i \in 1..Len(u \o t) : (u \o t)[i] = v[i]
    BY <1>3, <1>4, <1>5, Zenon
  <2> QED BY ONLY <1>3, <1>5, <2>1, SameElements
<1> QED BY <1>6 DEF u, v
-----------------------------------------------------------------------------
(***************************************************************************)
(* Every step keeps ListInv.                                               *)
(***************************************************************************)
LEMMA ListInitially == Init => ListInv
PROOF
<1> SUFFICES ASSUME Init PROVE ListInv
  OBVIOUS
<1>1. TypeOK
  <2>1. /\ entries \in [Dirs -> Seq(Names)] /\ root_offset \in Nat
        /\ seen \in [Dirs -> Seq(Names)]
        /\ walk \in [Dirs -> {"idle", "walking", "done", "failed"}]
        /\ stale \subseteq Dirs
    BY ListAssumption DEF Init
  <2>2. cursor \in [Dirs -> 0..CursorEnd] /\ changes \in 0..MaxChanges
    BY ListAssumption DEF Init
  <2> QED BY <2>1, <2>2 DEF TypeOK
<1>2. ASSUME NEW d \in Subdirectories PROVE WalkInv(d) /\ Listed(d)
  <2>1. walk[d] = "idle"
    BY DEF Init, Dirs
  <2> QED BY <2>1 DEF WalkInv, Listed
<1> QED BY <1>1, <1>2 DEF ListInv

\* A directory nothing happened to.
LEMMA OtherDirectory ==
    ASSUME ListInv, NEW e \in Subdirectories,
           entries'[e] = entries[e], cursor'[e] = cursor[e],
           seen'[e] = seen[e], walk'[e] = walk[e],
           e \in stale' <=> e \in stale
    PROVE  WalkInv(e)' /\ Listed(e)'
PROOF
<1>1. WalkInv(e) /\ Listed(e)
  BY DEF ListInv
<1> QED BY <1>1 DEF WalkInv, Listed, Numbered

\* A page: the walk of its directory gets on by the entries of the page.
LEMMA ListPageStep ==
    ASSUME ListInv, NEW d \in Dirs, ListPage(d)
    PROVE  ListInv'
PROOF
<1> DEFINE page == SubSeq(After(d), 1, Count(d))
<1>1. /\ walk[d] = "walking" /\ Moved(d)
      /\ seen' = [seen EXCEPT ![d] = @ \o page]
      /\ cursor' = [cursor EXCEPT ![d] = NextCursor(d)]
      /\ walk' = [walk EXCEPT
                    ![d] = IF cursor'[d] = CursorEnd THEN "done" ELSE @]
      /\ UNCHANGED <<entries, stale, changes>>
  BY DEF ListPage
<1>2. TypeOK
  BY DEF ListInv
<1>3. page \in Seq(Names)
  BY <1>2, AfterType
<1> HIDE DEF page
<1>4. seen[d] \in Seq(Names) /\ seen[d] \o page \in Seq(Names)
  BY <1>2, <1>3, YieldsType
<1>5. NextCursor(d) \in 0..CursorEnd /\ root_offset' \in Nat
  BY <1>1, <1>2, NextType
<1>6. /\ seen'[d] = seen[d] \o page /\ cursor'[d] = NextCursor(d)
      /\ walk'[d] = IF NextCursor(d) = CursorEnd THEN "done" ELSE "walking"
  BY <1>1, <1>2 DEF TypeOK
<1>7. TypeOK'
  <2>1. /\ seen' \in [Dirs -> Seq(Names)] /\ cursor' \in [Dirs -> 0..CursorEnd]
    BY <1>1, <1>2, <1>4, <1>5 DEF TypeOK
  <2>2. walk' \in [Dirs -> {"idle", "walking", "done", "failed"}]
    BY <1>1, <1>2 DEF TypeOK
  <2> QED BY <1>1, <1>2, <1>5, <2>1, <2>2 DEF TypeOK
<1>8. ASSUME NEW e \in Subdirectories PROVE WalkInv(e)' /\ Listed(e)'
  <2>1. CASE e # d
    <3>1. e \in Dirs
      BY DEF Dirs
    <3>2. /\ entries'[e] = entries[e] /\ cursor'[e] = cursor[e]
          /\ seen'[e] = seen[e] /\ walk'[e] = walk[e]
          /\ e \in stale' <=> e \in stale
      BY <1>1, <1>2, <2>1, <3>1 DEF TypeOK
    <3> QED BY <3>2, OtherDirectory
  <2>2. CASE e = d
    <3>1. CASE d \in stale \/ ~Numbered(d)
      BY <1>1, <2>2, <3>1 DEF WalkInv, Listed, Numbered
    <3>2. CASE d \notin stale /\ Numbered(d)
      <4>1. /\ cursor[d] =< Len(entries[d])
            /\ seen[d] = SubSeq(entries[d], 1, cursor[d])
        BY <1>1, <2>2, <3>2 DEF ListInv, WalkInv
      <4>2. /\ Count(d) \in Nat /\ cursor[d] + Count(d) =< Len(entries[d])
            /\ Complete(d) <=> cursor[d] + Count(d) = Len(entries[d])
            /\ Len(page) = Count(d)
            /\ \A k \in 1..Count(d) : page[k] = entries[d][cursor[d] + k]
            /\ ~Complete(d) => /\ NextCursor(d) = cursor[d] + Count(d)
                               /\ NextCursor(d) # CursorEnd
        BY <1>2, <2>2, <3>2, <4>1, PageOfNumbered DEF page
      <4>3. entries[d] \in Seq(Names) /\ cursor[d] \in Nat
        BY <1>2, YieldsType
      <4>4. seen'[d] = SubSeq(entries[d], 1, cursor[d] + Count(d))
        <5>1. SubSeq(entries[d], 1, cursor[d]) \o page
                = SubSeq(entries[d], 1, cursor[d] + Count(d))
          BY ONLY <1>3, <4>2, <4>3, PrefixGrows
        <5> QED BY <1>6, <4>1, <5>1
      <4>5. CASE Complete(d)
        <5>1. NextCursor(d) = CursorEnd
          BY <4>5 DEF NextCursor
        <5>2. walk'[d] = "done"
          BY <1>6, <5>1
        <5>3. SubSeq(entries[d], 1, Len(entries[d])) = entries[d]
          BY <4>3
        <5>4. seen'[d] = entries[d]
          BY <4>2, <4>4, <4>5, <5>3
        <5> QED BY <1>1, <2>2, <5>2, <5>4 DEF WalkInv, Listed
      <4>6. CASE ~Complete(d)
        <5>1. cursor'[d] = cursor[d] + Count(d) /\ walk'[d] = "walking"
          BY <1>6, <4>2, <4>6
        <5> QED BY <1>1, <2>2, <4>2, <4>4, <5>1 DEF WalkInv, Listed
      <4> QED BY <4>5, <4>6
    <3> QED BY <3>1, <3>2
  <2> QED BY <2>1, <2>2
<1> QED BY <1>7, <1>8 DEF ListInv

\* A listing that fails ends its walk.
LEMMA ListFailsStep ==
    ASSUME ListInv, NEW d \in Dirs, ListTooLarge(d) \/ ListFails(d)
    PROVE  ListInv'
PROOF
<1>1. /\ walk' = [walk EXCEPT ![d] = "failed"]
      /\ UNCHANGED <<entries, cursor, seen, stale, changes>>
  BY DEF ListTooLarge, ListFails
<1>2. TypeOK
  BY DEF ListInv
<1>3. root_offset' \in Nat
  <2>1. CASE ListTooLarge(d)
    BY <1>2, <2>1, NextType DEF ListTooLarge
  <2>2. CASE ListFails(d)
    <3>1. CASE UNCHANGED root_offset
      BY <1>2, <3>1 DEF TypeOK
    <3>2. CASE \E k \in 1..Examined(d) : root_offset' = PositionAfter(d, k)
      <4>1. PICK k \in 1..Examined(d) : root_offset' = PositionAfter(d, k)
        BY <3>2
      <4>2. k \in Nat
        BY <1>2, NextType
      <4> QED BY <1>2, <4>1, <4>2, NextType
    <3> QED BY <2>2, <3>1, <3>2 DEF ListFails
  <2> QED BY <2>1, <2>2
<1>4. TypeOK'
  BY <1>1, <1>2, <1>3 DEF TypeOK
<1>5. ASSUME NEW e \in Subdirectories PROVE WalkInv(e)' /\ Listed(e)'
  <2>1. e \in Dirs
    BY DEF Dirs
  <2>2. CASE e # d
    <3>1. walk'[e] = walk[e]
      BY <1>1, <1>2, <2>1, <2>2 DEF TypeOK
    <3> QED BY <1>1, <3>1, OtherDirectory
  <2>3. CASE e = d
    <3>1. walk'[e] = "failed"
      BY <1>1, <1>2, <2>3 DEF TypeOK
    <3> QED BY <3>1 DEF WalkInv, Listed
  <2> QED BY <2>2, <2>3
<1> QED BY <1>4, <1>5 DEF ListInv

\* A walk begins with nothing.
LEMMA BeginStep ==
    ASSUME ListInv, NEW d \in Dirs, Begin(d)
    PROVE  ListInv'
PROOF
<1>1. /\ cursor' = [cursor EXCEPT ![d] = 0]
      /\ seen' = [seen EXCEPT ![d] = <<>>]
      /\ walk' = [walk EXCEPT ![d] = "walking"]
      /\ stale' = stale \ {d}
      /\ UNCHANGED <<entries, root_offset, changes>>
  BY DEF Begin
<1>2. TypeOK
  BY DEF ListInv
<1>3. cursor'[d] = 0 /\ seen'[d] = <<>> /\ walk'[d] = "walking"
  BY <1>1, <1>2 DEF TypeOK
<1>4. TypeOK'
  <2>1. 0 \in 0..CursorEnd
    BY Constants
  <2> QED BY <1>1, <1>2, <2>1 DEF TypeOK
<1>5. ASSUME NEW e \in Subdirectories PROVE WalkInv(e)' /\ Listed(e)'
  <2>1. e \in Dirs
    BY DEF Dirs
  <2>2. CASE e # d
    <3>1. /\ entries'[e] = entries[e] /\ cursor'[e] = cursor[e]
          /\ seen'[e] = seen[e] /\ walk'[e] = walk[e]
          /\ e \in stale' <=> e \in stale
      BY <1>1, <1>2, <2>1, <2>2 DEF TypeOK
    <3> QED BY <3>1, OtherDirectory
  <2>3. CASE e = d
    <3>1. entries[d] \in Seq(Names) /\ Len(entries[d]) \in Nat
      BY <1>2, YieldsType
    <3>2. SubSeq(entries[d], 1, 0) = <<>>
      BY <3>1
    <3>3. 0 =< Len(entries[d]) /\ entries'[d] = entries[d]
      BY <1>1, <3>1
    <3>4. WalkInv(e)'
      BY <1>3, <2>3, <3>2, <3>3, Zenon DEF WalkInv
    <3>5. Listed(e)'
      BY <1>3, <2>3 DEF Listed
    <3> QED BY <3>4, <3>5
  <2> QED BY <2>2, <2>3
<1> QED BY <1>4, <1>5 DEF ListInv

\* A directory that changes is stale.
LEMMA ChangeStep ==
    ASSUME ListInv, NEW d \in Dirs, NEW new \in Directories, Change(d, new)
    PROVE  ListInv'
PROOF
<1>1. /\ changes < MaxChanges /\ changes' = changes + 1
      /\ entries' = [entries EXCEPT ![d] = new]
      /\ stale' = stale \cup {d}
      /\ UNCHANGED <<root_offset, cursor, seen, walk>>
  BY DEF Change, client
<1>2. TypeOK
  BY DEF ListInv
<1>3. TypeOK'
  <2>1. entries' \in [Dirs -> Seq(Names)]
    BY <1>1, <1>2, ListAssumption DEF TypeOK
  <2>2. changes' \in 0..MaxChanges
    BY <1>1, <1>2, ListAssumption DEF TypeOK
  <2> QED BY <1>1, <1>2, <2>1, <2>2 DEF TypeOK
<1>4. ASSUME NEW e \in Subdirectories PROVE WalkInv(e)' /\ Listed(e)'
  <2>1. e \in Dirs
    BY DEF Dirs
  <2>2. CASE e # d
    <3>1. entries'[e] = entries[e] /\ (e \in stale' <=> e \in stale)
      BY <1>1, <1>2, <2>1, <2>2 DEF TypeOK
    <3> QED BY <1>1, <3>1, OtherDirectory
  <2>3. CASE e = d
    BY <1>1, <2>3 DEF WalkInv, Listed
  <2> QED BY <2>2, <2>3
<1> QED BY <1>3, <1>4 DEF ListInv

LEMMA ListNextStep ==
    ASSUME ListInv, [Next]_vars
    PROVE  ListInv'
PROOF
<1>1. ASSUME NEW d \in Dirs, List(d) PROVE ListInv'
  BY <1>1, ListPageStep, ListFailsStep DEF List
<1>2. ASSUME NEW d \in Dirs, Begin(d) PROVE ListInv'
  BY <1>2, BeginStep
<1>3. ASSUME NEW d \in Dirs, NEW new \in Directories, Change(d, new)
      PROVE  ListInv'
  BY <1>3, ChangeStep
<1>4. CASE UNCHANGED vars
  <2>1. UNCHANGED <<entries, root_offset, cursor, seen, walk, stale, changes>>
    BY <1>4 DEF vars, client
  <2>2. TypeOK'
    BY <2>1 DEF ListInv, TypeOK
  <2>3. ASSUME NEW e \in Subdirectories PROVE WalkInv(e)' /\ Listed(e)'
    BY <2>1, OtherDirectory
  <2> QED BY <2>2, <2>3 DEF ListInv
<1> QED BY <1>1, <1>2, <1>3, <1>4 DEF Next
-----------------------------------------------------------------------------
\* The inductive invariant of the listing.
THEOREM ListInvariant == Spec => []ListInv
PROOF
<1>1. Init => ListInv
  BY ListInitially
<1>2. ListInv /\ [Next]_vars => ListInv'
  BY ListNextStep
<1> QED BY <1>1, <1>2, PTL DEF Spec

\* The variables of the listing stay in their types: in particular no cursor
\* is larger than a 16-bit number.
THEOREM ListTypeCorrect == Spec => []TypeOK
PROOF
<1>1. ListInv => TypeOK
  BY DEF ListInv
<1> QED BY <1>1, ListInvariant, PTL

\* A walk of a subdirectory that nobody changed and that has no more entries
\* than there are cursors gives every entry once and in order, for every size
\* of page and of entry and whatever other directories are walked in between.
THEOREM WalksListAll == Spec => []SubdirectoriesListed
PROOF
<1>1. ListInv => SubdirectoriesListed
  BY DEF ListInv, SubdirectoriesListed
<1> QED BY <1>1, ListInvariant, PTL
=============================================================================
