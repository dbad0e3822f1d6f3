----------------------------- MODULE RingProofs -----------------------------
(***************************************************************************)
(* The ring implements the byte queue, and its searches find what the      *)
(* definition of a match says, for every capacity, every sequence of       *)
(* calls and every pattern.                                                *)
(***************************************************************************)
EXTENDS PatternSearch, WellFoundedInduction, SequenceTheorems, TLAPS

-----------------------------------------------------------------------------
(* Induction over the naturals *)

Below == {ss \in Nat \X Nat : ss[1] < ss[2]}

(* The order that the first of a set of positions is taken in is well-founded. *)
LEMMA BelowWellFounded == IsWellFoundedOn(Below, Nat)
BY NatLessThanWellFounded, Zenon DEF OpToRel, Below

Least(S) == CHOOSE x \in S : \A y \in S : x <= y

(* Every non-empty set of naturals has a least element. *)
LEMMA LeastProperty ==
    ASSUME NEW S \in SUBSET Nat, S # {}
    PROVE  Least(S) \in S /\ \A y \in S : Least(S) <= y
<1>1. PICK x \in S : \A y \in S : ~(<<y, x>> \in Below)
  BY BelowWellFounded, WFMin, Zenon
<1>2. ASSUME NEW y \in S PROVE x <= y
  <2>1. x \in Nat /\ y \in Nat /\ <<y, x>> \in Nat \X Nat
    OBVIOUS
  <2>2. ~(y < x)
    BY <1>1, <2>1, Zenon DEF Below
  <2> QED BY <2>1, <2>2
<1> QED BY <1>2 DEF Least

(* A set that holds zero and, with any number, the next holds them all. *)
LEMMA SetInduction ==
    ASSUME NEW S, 0 \in S, \A n \in Nat : n \in S => n + 1 \in S
    PROVE  \A n \in Nat : n \in S
<1> DEFINE T == Nat \ S
<1>1. SUFFICES ASSUME T # {} PROVE FALSE
  BY <1>1
<1>2. T \in SUBSET Nat
  OBVIOUS
<1> HIDE DEF T
<1>3. Least(T) \in T /\ \A y \in T : Least(T) <= y
  BY <1>1, <1>2, LeastProperty
<1> DEFINE m == Least(T)
<1>4. m \in Nat /\ m \notin S
  BY <1>3 DEF T
<1> HIDE DEF m
<1>5. m - 1 \in Nat /\ m = (m - 1) + 1
  BY <1>4
<1>6. m - 1 \notin T
  BY <1>3, <1>4, <1>5 DEF m
<1>7. m - 1 \in S
  BY <1>5, <1>6 DEF T
<1> QED BY <1>4, <1>5, <1>7

-----------------------------------------------------------------------------
(* The capacity *)

(* u doubles from one, up to u[n]. *)
Doubles(u, n) ==
    /\ u \in [0 .. n -> Nat] /\ u[0] = 1
    /\ \A k \in 1 .. n : u[k] = 2 * u[k - 1]

(* There are powers of two. *)
LEMMA DoublesExist == \A n \in Nat : \E u : Doubles(u, n)
<1> DEFINE S == {n \in Nat : \E u : Doubles(u, n)}
<1>1. 0 \in S
  <2> DEFINE u == [k \in 0 .. 0 |-> 1]
  <2>1. Doubles(u, 0)
    BY DEF Doubles
  <2> HIDE DEF u
  <2> QED BY <2>1
<1>2. ASSUME NEW n \in Nat, n \in S PROVE n + 1 \in S
  <2>1. PICK u : Doubles(u, n)
    BY <1>2
  <2> DEFINE v == [k \in 0 .. n + 1 |-> IF k = n + 1 THEN 2 * u[n] ELSE u[k]]
  <2>2. u \in [0 .. n -> Nat] /\ u[0] = 1 /\ \A k \in 1 .. n : u[k] = 2 * u[k - 1]
    BY <2>1 DEF Doubles
  <2>3. v \in [0 .. n + 1 -> Nat]
    BY <2>2
  <2>4. v[0] = 1
    BY <2>2
  <2>5. ASSUME NEW k \in 1 .. n + 1 PROVE v[k] = 2 * v[k - 1]
    <3>1. k \in 0 .. n + 1 /\ k - 1 \in 0 .. n + 1 /\ k - 1 # n + 1
      OBVIOUS
    <3>2. v[k - 1] = u[k - 1]
      BY <3>1
    <3>3. CASE k = n + 1
      BY <3>1, <3>2, <3>3
    <3>4. CASE k # n + 1
      BY <2>2, <3>1, <3>2, <3>4
    <3> QED BY <3>3, <3>4
  <2> HIDE DEF v
  <2>6. Doubles(v, n + 1)
    BY <2>3, <2>4, <2>5 DEF Doubles
  <2> QED BY <2>6
<1> HIDE DEF S
<1>3. \A n \in Nat : n \in S
  BY <1>1, <1>2, SetInduction
<1> QED BY <1>3 DEF S

(* The k-th power of two is at least k, and more than one from the first on. *)
LEMMA DoublesGrow ==
    ASSUME NEW n \in Nat, NEW u, Doubles(u, n)
    PROVE  \A k \in 0 .. n : u[k] > k
<1> DEFINE S == {k \in Nat : k <= n => u[k] > k}
<1>1. 0 \in S
  BY DEF Doubles
<1>2. ASSUME NEW k \in Nat, k \in S PROVE k + 1 \in S
  <2> SUFFICES ASSUME k + 1 <= n PROVE u[k + 1] > k + 1
    BY k + 1 \in Nat
  <2>1. k + 1 \in 1 .. n /\ k \in 0 .. n /\ k <= n /\ (k + 1) - 1 = k
    OBVIOUS
  <2>2. u[k + 1] = 2 * u[k] /\ u[k] \in Nat
    BY <2>1 DEF Doubles
  <2>3. u[k] > k
    BY <1>2, <2>1
  <2> QED BY <2>2, <2>3
<1> HIDE DEF S
<1>3. \A k \in Nat : k \in S
  BY <1>1, <1>2, SetInduction
<1> QED BY <1>3 DEF S

(* The capacity is at least the one asked for, and at least two. *)
LEMMA CapacityIsEnough ==
    ASSUME NEW value \in Nat
    PROVE  /\ roundUpToPowerOfTwo(value) \in Nat
           /\ roundUpToPowerOfTwo(value) >= 2 /\ roundUpToPowerOfTwo(value) >= value
<1> DEFINE n == value + 1
           power[k \in 0 .. n] == IF k = 0 THEN 1 ELSE 2 * power[k - 1]
           fits == {k \in 1 .. n : power[k] >= value}
<1>1. PICK u : Doubles(u, n)
  BY DoublesExist
<1>2. u = [k \in 0 .. n |-> IF k = 0 THEN 1 ELSE 2 * u[k - 1]]
  <2>1. /\ u = [k \in 0 .. n |-> u[k]]
        /\ \A k \in 0 .. n : u[k] = IF k = 0 THEN 1 ELSE 2 * u[k - 1]
    BY <1>1 DEF Doubles
  <2> QED BY <2>1, Zenon
<1>3. power = [k \in 0 .. n |-> IF k = 0 THEN 1 ELSE 2 * power[k - 1]]
  BY <1>2, Zenon
<1>4. roundUpToPowerOfTwo(value) = power[Least(fits)]
  BY Zenon DEF roundUpToPowerOfTwo, Least
<1> HIDE DEF power
<1>5. Doubles(power, n)
  <2>1. power[0] = 1 /\ \A k \in 1 .. n : power[k] = 2 * power[k - 1]
    <3>1. 0 \in 0 .. n /\ \A k \in 1 .. n : k \in 0 .. n /\ k # 0
      OBVIOUS
    <3> QED BY <1>3, <3>1
  <2> DEFINE S == {k \in Nat : k <= n => power[k] \in Nat}
  <2>2. 0 \in S
    BY <2>1
  <2>3. ASSUME NEW k \in Nat, k \in S PROVE k + 1 \in S
    <3> SUFFICES ASSUME k + 1 <= n PROVE power[k + 1] \in Nat
      BY k + 1 \in Nat
    <3>1. k + 1 \in 1 .. n /\ k <= n /\ (k + 1) - 1 = k
      OBVIOUS
    <3>2. power[k + 1] = 2 * power[k]
      BY <2>1, <3>1
    <3> QED BY <2>3, <3>1, <3>2
  <2> HIDE DEF S
  <2>4. \A k \in Nat : k \in S
    BY <2>2, <2>3, SetInduction
  <2>5. \A k \in 0 .. n : power[k] \in Nat
    BY <2>4 DEF S
  <2>6. power \in [0 .. n -> Nat]
    <3>1. DOMAIN power = 0 .. n /\ power = [k \in 0 .. n |-> power[k]]
      BY <1>3
    <3> QED BY <2>5, <3>1
  <2> QED BY <2>1, <2>6 DEF Doubles
<1>6. \A k \in 0 .. n : power[k] \in Nat /\ power[k] > k
  <2>1. n \in Nat
    OBVIOUS
  <2> HIDE DEF n
  <2>2. \A k \in 0 .. n : power[k] > k
    BY <1>5, <2>1, DoublesGrow
  <2> QED BY <1>5, <2>2 DEF Doubles
<1>7. fits # {} /\ fits \in SUBSET Nat
  <2>1. n \in 1 .. n /\ power[n] >= value
    BY <1>6
  <2> QED BY <2>1
<1>8. Least(fits) \in fits
  BY <1>7, LeastProperty
<1>9. Least(fits) \in 1 .. n /\ power[Least(fits)] >= value
  BY <1>8
<1> HIDE DEF fits
<1>10. power[Least(fits)] \in Nat /\ power[Least(fits)] > 1
  <2>1. Least(fits) \in 0 .. n /\ Least(fits) >= 1
    BY <1>9
  <2> HIDE DEF n
  <2>2. power[Least(fits)] \in Nat /\ power[Least(fits)] > Least(fits)
    BY <1>6, <2>1
  <2> QED BY <2>1, <2>2
<1> QED BY <1>4, <1>9, <1>10

-----------------------------------------------------------------------------
(* Positions in the ring *)

(* Head and tail are slots, and every slot holds a byte. *)
RingInv ==
    /\ capacity \in Nat /\ capacity >= 2
    /\ head \in 0 .. capacity - 1 /\ tail \in 0 .. capacity - 1
    /\ mem \in [0 .. capacity - 1 -> Byte]
    /\ overflow \in Nat

(* The mask takes a position that passed the end of the storage back once. *)
LEMMA MaskedIs ==
    ASSUME capacity \in Nat, capacity >= 2, NEW i \in 0 .. 2 * capacity - 1
    PROVE  Masked(i) = IF i < capacity THEN i ELSE i - capacity
<1>1. CASE i < capacity
  <2>1. i \in 0 .. capacity - 1
    BY <1>1
  <2> QED BY <1>1, <2>1 DEF Masked
<1>2. CASE ~(i < capacity)
  <2>1. i \in capacity .. 2 * capacity - 1
    BY <1>2
  <2> QED BY <1>2, <2>1 DEF Masked
<1> QED BY <1>1, <1>2

(* The slots from head on, n of them. *)
Part(m, h, n) == [i \in 1 .. n |-> m[Masked(h + i - 1)]]

(* The size is what lies between head and tail, at most all slots but one. *)
LEMMA SizeFacts ==
    ASSUME RingInv
    PROVE  /\ size \in 0 .. capacity - 1 /\ Masked(head + size) = tail
           /\ Content = Part(mem, head, size)
<1>1. size \in 0 .. capacity - 1
  BY DEF RingInv, size
<1>2. head + size \in 0 .. 2 * capacity - 1
  BY <1>1 DEF RingInv
<1>3. Masked(head + size) = IF head + size < capacity THEN head + size ELSE head + size - capacity
  <2>1. capacity \in Nat /\ capacity >= 2
    BY DEF RingInv
  <2>2. \A i \in 0 .. 2 * capacity - 1 : Masked(i) = IF i < capacity THEN i ELSE i - capacity
    BY <2>1, MaskedIs
  <2>3. head \in Int /\ size \in Int /\ capacity \in Int
    BY <1>1 DEF RingInv
  <2> QED BY <1>2, <2>2, <2>3
<1>4. Masked(head + size) = tail
  BY <1>3 DEF RingInv, size
<1> QED BY <1>1, <1>4 DEF Content, Part

(* A part of the ring is a sequence of bytes. *)
LEMMA PartType ==
    ASSUME capacity \in Nat, capacity >= 2, NEW m \in [0 .. capacity - 1 -> Byte],
           NEW h \in 0 .. capacity - 1, NEW n \in 0 .. capacity
    PROVE  /\ Part(m, h, n) \in Seq(Byte) /\ Len(Part(m, h, n)) = n
           /\ \A i \in 1 .. n : /\ Part(m, h, n)[i] = m[Masked(h + i - 1)]
                                /\ Masked(h + i - 1) \in 0 .. capacity - 1
                                /\ Masked(h + i - 1) = IF h + i - 1 < capacity THEN h + i - 1
                                                       ELSE h + i - 1 - capacity
<1>1. ASSUME NEW i \in 1 .. n
      PROVE  /\ Masked(h + i - 1) \in 0 .. capacity - 1
             /\ Masked(h + i - 1) = IF h + i - 1 < capacity THEN h + i - 1
                                    ELSE h + i - 1 - capacity
  <2>1. h + i - 1 \in 0 .. 2 * capacity - 1
    OBVIOUS
  <2>2. Masked(h + i - 1) = IF h + i - 1 < capacity THEN h + i - 1 ELSE h + i - 1 - capacity
    BY <2>1, MaskedIs
  <2> QED BY <2>1, <2>2
<1>2. Part(m, h, n) \in [1 .. n -> Byte]
  BY <1>1 DEF Part
<1>3. Part(m, h, n) \in Seq(Byte) /\ Len(Part(m, h, n)) = n
  <2>1. n \in Nat
    OBVIOUS
  <2>2. \A i \in 1 .. n : m[Masked(h + i - 1)] \in Byte
    BY <1>1
  <2> QED BY <2>1, <2>2, IsASeq DEF Part
<1> QED BY <1>1, <1>3 DEF Part

(* Moving the head drops from the front. *)
LEMMA PartDrop ==
    ASSUME capacity \in Nat, capacity >= 2, NEW m \in [0 .. capacity - 1 -> Byte],
           NEW h \in 0 .. capacity - 1, NEW n \in 0 .. capacity - 1, NEW k \in 0 .. n
    PROVE  /\ Masked(h + k) \in 0 .. capacity - 1
           /\ Part(m, Masked(h + k), n - k) = SubSeq(Part(m, h, n), k + 1, n)
<1>1. Masked(h + k) = IF h + k < capacity THEN h + k ELSE h + k - capacity
  <2>1. h + k \in 0 .. 2 * capacity - 1
    OBVIOUS
  <2> QED BY <2>1, MaskedIs
<1>2. Masked(h + k) \in 0 .. capacity - 1 /\ n - k \in 0 .. capacity /\ n \in 0 .. capacity
  BY <1>1
<1> DEFINE h2 == Masked(h + k)
           s  == Part(m, h, n)
           t  == Part(m, h2, n - k)
<1> HIDE DEF h2
<1>3. /\ s \in Seq(Byte) /\ Len(s) = n
      /\ \A i \in 1 .. n : /\ s[i] = m[Masked(h + i - 1)]
                           /\ Masked(h + i - 1) = IF h + i - 1 < capacity THEN h + i - 1
                                                  ELSE h + i - 1 - capacity
  BY <1>2, PartType
<1>4. /\ t \in Seq(Byte) /\ Len(t) = n - k
      /\ \A i \in 1 .. n - k : /\ t[i] = m[Masked(h2 + i - 1)]
                               /\ Masked(h2 + i - 1) = IF h2 + i - 1 < capacity THEN h2 + i - 1
                                                       ELSE h2 + i - 1 - capacity
  <2>1. h2 \in 0 .. capacity - 1
    BY <1>2 DEF h2
  <2> QED BY <1>2, <2>1, PartType
<1> HIDE DEF s, t
<1>5. /\ SubSeq(s, k + 1, n) \in Seq(Byte) /\ Len(SubSeq(s, k + 1, n)) = n - k
      /\ \A i \in 1 .. n - k : SubSeq(s, k + 1, n)[i] = s[i + k]
  <2>1. \A i \in k + 1 .. n : s[i] \in Byte
    BY <1>3, ElementOfSeq
  <2> DEFINE r == SubSeq(s, k + 1, n)
  <2>2. /\ r \in Seq(Byte) /\ Len(r) = IF k + 1 <= n THEN n - (k + 1) + 1 ELSE 0
        /\ \A i \in 1 .. n - (k + 1) + 1 : r[i] = s[(k + 1) + i - 1]
    <3>1. k + 1 \in Int /\ n \in Int
      OBVIOUS
    <3> QED BY <2>1, <3>1, SubSeqProperties
  <2> HIDE DEF r
  <2>3. \A i \in 1 .. n - k : i \in 1 .. n - (k + 1) + 1 /\ (k + 1) + i - 1 = i + k
    OBVIOUS
  <2>4. \A i \in 1 .. n - k : r[i] = s[i + k]
    BY <2>2, <2>3
  <2>5. Len(r) = n - k
    BY <2>2
  <2> QED BY <2>2, <2>4, <2>5 DEF r
<1>6. ASSUME NEW i \in 1 .. n - k PROVE t[i] = SubSeq(s, k + 1, n)[i]
  <2>1. i + k \in 1 .. n
    OBVIOUS
  <2>2. Masked(h2 + i - 1) = IF h2 + i - 1 < capacity THEN h2 + i - 1 ELSE h2 + i - 1 - capacity
    BY <1>4
  <2>3. Masked(h + (i + k) - 1) = IF h + (i + k) - 1 < capacity THEN h + (i + k) - 1
                                  ELSE h + (i + k) - 1 - capacity
    BY <1>3, <2>1
  <2>4. h2 = IF h + k < capacity THEN h + k ELSE h + k - capacity
    BY <1>1 DEF h2
  <2>5. Masked(h2 + i - 1) = Masked(h + (i + k) - 1)
    BY <2>2, <2>3, <2>4
  <2> QED BY <1>3, <1>4, <1>5, <2>1, <2>5
<1>7. t = SubSeq(s, k + 1, n)
  BY <1>4, <1>5, <1>6, SeqEqual
<1> QED BY <1>2, <1>7 DEF s, t, h2

(* The bytes in the ring. *)
LEMMA ContentType ==
    ASSUME RingInv
    PROVE  Content \in Seq(Byte) /\ Len(Content) = size /\ size \in 0 .. capacity - 1
<1>1. size \in 0 .. capacity
  BY SizeFacts DEF RingInv
<1> QED BY <1>1, SizeFacts, PartType DEF RingInv

-----------------------------------------------------------------------------
(* The ring implements the byte queue *)

(* A new ring is an empty queue. *)
LEMMA InitRing == Init => RingInv /\ Queue!QInit
<1> SUFFICES ASSUME Init PROVE RingInv /\ Queue!QInit
  OBVIOUS
<1>1. capacity \in Nat /\ capacity >= 2
  BY CapacityIsEnough, SizesAssumption DEF Init
<1>2. RingInv
  BY <1>1, ByteAssumption DEF Init, RingInv
<1>3. size = 0
  BY DEF Init, size
<1>4. Content = <<>>
  <2>1. Content \in Seq(Byte) /\ Len(Content) = 0
    BY <1>2, <1>3, ContentType
  <2> QED BY <2>1, EmptySeq
<1>5. capacity - 1 \in Nat
  BY <1>1
<1> QED BY <1>2, <1>4, <1>5 DEF Queue!QInit, Init

(* Bytes that the head passes leave the queue in order. *)
LEMMA HeadMoves ==
    ASSUME RingInv, NEW k \in 0 .. size, head' = Masked(head + k),
           UNCHANGED <<capacity, tail, mem, overflow>>
    PROVE  RingInv' /\ size' = size - k /\ Content' = SubSeq(Content, k + 1, size)
<1>1. size \in 0 .. capacity - 1
  BY SizeFacts
<1>2. head' \in 0 .. capacity - 1
  BY <1>1, PartDrop DEF RingInv
<1>3. RingInv'
  BY <1>2 DEF RingInv
<1>4. head' = IF head + k < capacity THEN head + k ELSE head + k - capacity
  <2>1. head + k \in 0 .. 2 * capacity - 1
    BY <1>1 DEF RingInv
  <2> QED BY <2>1, MaskedIs DEF RingInv
<1>5. size' = size - k
  BY <1>1, <1>4 DEF RingInv, size
<1>6. Content' = Part(mem, Masked(head + k), size - k)
  BY <1>5 DEF Content, Part, Masked
<1>7. Content = Part(mem, head, size)
  BY SizeFacts
<1> QED BY <1>1, <1>3, <1>5, <1>6, <1>7, PartDrop DEF RingInv

(* discard takes bytes off the front. *)
LEMMA DiscardStep ==
    ASSUME RingInv, NEW n \in 0 .. MaxRequest, discard(n)
    PROVE  RingInv' /\ Queue!Discard(n)
<1>1. n \in Nat /\ size \in Nat
  BY RingBounds, SizeFacts DEF RingInv
<1> DEFINE k == SmallerOf(n, size)
<1>2. k \in 0 .. size /\ head' = Masked(head + k) /\ UNCHANGED <<capacity, tail, mem, overflow>>
  BY <1>1 DEF SmallerOf, discard
<1>3. Queue!LessOf(n, Len(Content)) = k
  BY ContentType DEF Queue!LessOf, SmallerOf
<1> HIDE DEF k
<1>4. RingInv' /\ Content' = SubSeq(Content, k + 1, size)
  BY <1>2, HeadMoves
<1> QED BY <1>2, <1>3, <1>4, ContentType DEF Queue!Discard, Queue!Remove, Queue!Silent, discard, Silent

(* The two copies out of the ring give the oldest bytes in order. *)
LEMMA PeekIsPrefix ==
    ASSUME RingInv, NEW n \in 0 .. size
    PROVE  peekRange(0, n) = SubSeq(Content, 1, n)
<1>1. /\ size \in 0 .. capacity - 1 /\ capacity \in Nat /\ capacity >= 2
      /\ head \in 0 .. capacity - 1 /\ mem \in [0 .. capacity - 1 -> Byte]
  BY SizeFacts DEF RingInv
<1>2. /\ SubSeq(Content, 1, n) \in Seq(Byte) /\ Len(SubSeq(Content, 1, n)) = n
      /\ \A i \in 1 .. n : SubSeq(Content, 1, n)[i] = Content[i]
  <2>1. \A i \in 1 .. n : Content[i] \in Byte
    BY <1>1, ContentType, ElementOfSeq
  <2>2. n \in Nat
    BY <1>1
  <2> QED BY <2>1, <2>2, SubSeqProperties
<1>3. CASE n = 0
  <2>1. peekRange(0, n) = <<>>
    BY <1>3 DEF peekRange
  <2> QED BY <1>2, <1>3, <2>1, EmptySeq
<1>4. CASE n # 0
  <2> DEFINE first == SmallerOf(n, capacity - head)
             q == [i \in 1 .. n |-> IF i <= first THEN mem[head + i - 1] ELSE mem[i - first - 1]]
  <2>1. SmallerOf(n, size - 0) = n /\ Masked(head + 0) = head /\ ~(0 >= size \/ n <= 0)
    <3>1. head + 0 \in 0 .. 2 * capacity - 1 /\ head + 0 < capacity /\ head + 0 = head
      BY <1>1
    <3>2. Masked(head + 0) = head
      BY <1>1, <3>1, MaskedIs
    <3> QED BY <1>1, <1>4, <3>2 DEF SmallerOf
  <2>2. peekRange(0, n) = q
    BY <2>1 DEF peekRange
  <2>3. ASSUME NEW i \in 1 .. n PROVE q[i] = Content[i]
    <3>1. Content[i] = mem[Masked(head + i - 1)]
          /\ Masked(head + i - 1) = IF head + i - 1 < capacity THEN head + i - 1
                                    ELSE head + i - 1 - capacity
      <4>1. i \in 1 .. size /\ size \in 0 .. capacity
        BY <1>1
      <4>2. Content = Part(mem, head, size)
        BY SizeFacts
      <4> QED BY <1>1, <4>1, <4>2, PartType
    <3>2. i <= first <=> head + i - 1 < capacity
      BY <1>1 DEF SmallerOf
    <3>3. ~(i <= first) => i - first - 1 = head + i - 1 - capacity
      BY <1>1 DEF SmallerOf
    <3> HIDE DEF first
    <3> QED BY <3>1, <3>2, <3>3
  <2> HIDE DEF q
  <2>4. q \in Seq(Byte) /\ Len(q) = n
    <3>1. \A i \in 1 .. n : q[i] \in Byte
      BY <1>1, <2>3, ContentType, ElementOfSeq
    <3>2. q \in [1 .. n -> Byte]
      BY <3>1 DEF q
    <3>3. n \in Nat
      BY <1>1
    <3> QED BY <3>2, <3>3, IsASeq
  <2>5. q = SubSeq(Content, 1, n)
    BY <1>2, <2>3, <2>4, SeqEqual
  <2> QED BY <2>2, <2>5
<1> QED BY <1>3, <1>4

(* read returns the oldest bytes and removes them, or nothing. *)
LEMMA ReadStep ==
    ASSUME RingInv, NEW n \in 0 .. MaxRequest, read(n)
    PROVE  RingInv' /\ Queue!Read(n)
<1>1. n \in Nat /\ size \in Nat /\ Len(Content) = size
  BY RingBounds, SizeFacts, ContentType DEF RingInv
<1>2. CASE n > size
  <2>1. UNCHANGED <<capacity, head, tail, mem, overflow>> /\ result' = <<>>
    BY <1>2 DEF read
  <2>2. Content' = Content
    BY <2>1 DEF Content, size, Masked
  <2>3. ~(n <= Len(Content))
    BY <1>1, <1>2
  <2> QED BY <2>1, <2>2, <2>3 DEF RingInv, Queue!Read
<1>3. CASE ~(n > size)
  <2>1. n \in 0 .. size /\ n <= Len(Content) /\ Queue!LessOf(n, Len(Content)) = n
    BY <1>1, <1>3 DEF Queue!LessOf
  <2>2. /\ result' = SubSeq(Content, 1, n) /\ head' = Masked(head + n)
        /\ UNCHANGED <<capacity, tail, mem, overflow>>
    BY <1>3, <2>1, PeekIsPrefix DEF read
  <2>3. RingInv' /\ Content' = SubSeq(Content, n + 1, size)
    BY <2>1, <2>2, HeadMoves
  <2> QED BY <1>1, <2>1, <2>2, <2>3 DEF Queue!Read, Queue!Remove
<1> QED BY <1>2, <1>3

(* A write goes to the slots from the tail on and nowhere else. *)
LEMMA StoredIs ==
    ASSUME RingInv, NEW d \in Seq(Byte), Len(d) <= capacity - 1
    PROVE  /\ Stored(d) \in [0 .. capacity - 1 -> Byte]
           /\ \A j \in 1 .. Len(d) : Stored(d)[Masked(tail + j - 1)] = d[j]
           /\ \A k \in 0 .. capacity - 1 :
                 (\A j \in 1 .. Len(d) : k # Masked(tail + j - 1)) => Stored(d)[k] = mem[k]
<1> DEFINE n     == Len(d)
           first == SmallerOf(Len(d), capacity - tail)
<1>1. /\ n \in Nat /\ n <= capacity - 1 /\ \A j \in 1 .. n : d[j] \in Byte
      /\ capacity \in Nat /\ capacity >= 2 /\ tail \in 0 .. capacity - 1
      /\ mem \in [0 .. capacity - 1 -> Byte]
  BY LenProperties, ElementOfSeq DEF RingInv
<1>2. /\ first \in 0 .. n /\ tail + first <= capacity
      /\ first < n => tail + first = capacity
  BY <1>1 DEF SmallerOf
<1>3. Stored(d) = [k \in 0 .. capacity - 1 |->
                      IF k \in tail .. tail + first - 1 THEN d[k - tail + 1]
                      ELSE IF k < n - first THEN d[first + k + 1] ELSE mem[k]]
  BY DEF Stored
<1> DEFINE w == Stored(d)
<1> HIDE DEF n, first, w
<1>4. \A j \in 1 .. n : /\ Masked(tail + j - 1) \in 0 .. capacity - 1
                        /\ Masked(tail + j - 1) = IF tail + j - 1 < capacity THEN tail + j - 1
                                                  ELSE tail + j - 1 - capacity
  <2> SUFFICES ASSUME NEW j \in 1 .. n
               PROVE  /\ Masked(tail + j - 1) \in 0 .. capacity - 1
                      /\ Masked(tail + j - 1) = IF tail + j - 1 < capacity THEN tail + j - 1
                                                ELSE tail + j - 1 - capacity
    OBVIOUS
  <2>1. tail + j - 1 \in 0 .. 2 * capacity - 1
    BY <1>1
  <2>2. Masked(tail + j - 1) = IF tail + j - 1 < capacity THEN tail + j - 1
                               ELSE tail + j - 1 - capacity
    BY <1>1, <2>1, MaskedIs
  <2> QED BY <1>1, <2>2
<1>5. w \in [0 .. capacity - 1 -> Byte]
  <2>1. ASSUME NEW k \in 0 .. capacity - 1
        PROVE  /\ k \in tail .. tail + first - 1 => d[k - tail + 1] \in Byte
               /\ k < n - first => d[first + k + 1] \in Byte
               /\ mem[k] \in Byte
    <3>1. k \in tail .. tail + first - 1 => k - tail + 1 \in 1 .. n
      BY <1>1, <1>2
    <3>2. k < n - first => first + k + 1 \in 1 .. n
      BY <1>1, <1>2
    <3> QED BY <1>1, <3>1, <3>2
  <2> QED BY <1>3, <2>1 DEF w
<1>6. ASSUME NEW j \in 1 .. n PROVE w[Masked(tail + j - 1)] = d[j]
  <2> DEFINE k == Masked(tail + j - 1)
  <2>1. k \in 0 .. capacity - 1 /\ k = IF tail + j - 1 < capacity THEN tail + j - 1
                                       ELSE tail + j - 1 - capacity
    BY <1>4
  <2> HIDE DEF k
  <2>2. w[k] = IF k \in tail .. tail + first - 1 THEN d[k - tail + 1]
               ELSE IF k < n - first THEN d[first + k + 1] ELSE mem[k]
    BY <1>3, <2>1 DEF w
  <2>3. CASE j <= first
    <3>1. k \in tail .. tail + first - 1 /\ k - tail + 1 = j
      BY <1>1, <1>2, <2>1, <2>3
    <3> QED BY <2>2, <3>1 DEF k
  <2>4. CASE first < j
    <3>1. ~(k \in tail .. tail + first - 1) /\ k < n - first /\ first + k + 1 = j
      BY <1>1, <1>2, <2>1, <2>4
    <3> QED BY <2>2, <3>1 DEF k
  <2> QED BY <1>2, <2>3, <2>4
<1>7. ASSUME NEW k \in 0 .. capacity - 1, \A j \in 1 .. n : k # Masked(tail + j - 1)
      PROVE  w[k] = mem[k]
  <2>1. ~(k \in tail .. tail + first - 1)
    <3> SUFFICES ASSUME k \in tail .. tail + first - 1 PROVE FALSE
      OBVIOUS
    <3> DEFINE j == k - tail + 1
    <3>1. j \in 1 .. n /\ tail + j - 1 = k /\ tail + j - 1 < capacity
      BY <1>1, <1>2
    <3> HIDE DEF j
    <3> QED BY <1>4, <1>7, <3>1
  <2>2. ~(k < n - first)
    <3> SUFFICES ASSUME k < n - first PROVE FALSE
      OBVIOUS
    <3> DEFINE j == first + k + 1
    <3>1. j \in 1 .. n /\ tail + j - 1 - capacity = k /\ ~(tail + j - 1 < capacity)
      BY <1>1, <1>2
    <3> HIDE DEF j
    <3> QED BY <1>4, <1>7, <3>1
  <2> QED BY <1>3, <2>1, <2>2 DEF w
<1> QED BY <1>5, <1>6, <1>7 DEF n, w

(* What append leaves: the newest bytes that fit, the oldest given up and counted. *)
LEMMA AppendStep ==
    ASSUME RingInv, NEW data \in Chunks, append(data)
    PROVE  RingInv' /\ Queue!Put(data)
<1> DEFINE cut  == Len(data) - SmallerOf(Len(data), Usable)
           kept == SubSeq(data, cut + 1, Len(data))
           n    == Len(kept)
           over == n - SmallerOf(n, Usable - size)
           g    == Content \o data
<1>1. /\ capacity \in Nat /\ capacity >= 2 /\ tail \in 0 .. capacity - 1
      /\ head \in 0 .. capacity - 1 /\ size \in 0 .. capacity - 1 /\ overflow \in Nat
      /\ mem \in [0 .. capacity - 1 -> Byte]
      /\ data \in Seq(Byte) /\ Len(data) \in Nat /\ Usable = capacity - 1
  BY ChunksAssumption, LenProperties, SizeFacts DEF RingInv, Usable
<1>2. /\ cut \in 0 .. Len(data) /\ Len(data) - cut <= capacity - 1
      /\ cut > 0 => Len(data) - cut = capacity - 1
  BY <1>1 DEF SmallerOf
<1>3. /\ head' = IF over > 0 THEN Masked(head + over) ELSE head
      /\ tail' = Masked(tail + n) /\ mem' = Stored(kept) /\ overflow' = overflow + cut + over
      /\ result' = <<>> /\ capacity' = capacity
  BY DEF append, Silent
<1> HIDE DEF cut
<1>4. /\ kept \in Seq(Byte) /\ n = Len(data) - cut
      /\ \A j \in 1 .. n : kept[j] = data[j + cut]
  <2>1. \A i \in cut + 1 .. Len(data) : data[i] \in Byte
    BY <1>1, <1>2, ElementOfSeq
  <2>2. cut + 1 \in Int /\ Len(data) \in Int
    BY <1>1, <1>2
  <2>3. /\ kept \in Seq(Byte) /\ n = (IF cut + 1 <= Len(data) THEN Len(data) - (cut + 1) + 1 ELSE 0)
        /\ \A i \in 1 .. Len(data) - (cut + 1) + 1 : kept[i] = data[(cut + 1) + i - 1]
    BY <2>1, <2>2, SubSeqProperties
  <2> HIDE DEF kept, n
  <2>4. n = Len(data) - cut
    BY <1>1, <1>2, <2>3
  <2>5. \A j \in 1 .. n : j \in 1 .. Len(data) - (cut + 1) + 1 /\ (cut + 1) + j - 1 = j + cut
    BY <1>1, <1>2, <2>4
  <2> QED BY <2>3, <2>4, <2>5
<1>5. n \in 0 .. capacity - 1
  <2> HIDE DEF n
  <2> QED BY <1>1, <1>2, <1>4
<1>6. /\ Stored(kept) \in [0 .. capacity - 1 -> Byte]
      /\ \A j \in 1 .. n : Stored(kept)[Masked(tail + j - 1)] = kept[j]
      /\ \A k \in 0 .. capacity - 1 :
            (\A j \in 1 .. n : k # Masked(tail + j - 1)) => Stored(kept)[k] = mem[k]
  <2> HIDE DEF kept
  <2> QED BY <1>4, <1>5, StoredIs
<1> HIDE DEF kept, n
<1>7. /\ over \in 0 .. size /\ size + n - over \in 0 .. capacity - 1
      /\ over > 0 => size + n - over = capacity - 1
      /\ cut > 0 => over = size
  <2>1. /\ capacity \in Int /\ size \in 0 .. capacity - 1 /\ n \in 0 .. capacity - 1
        /\ cut > 0 => n = capacity - 1
    BY <1>1, <1>2, <1>4, <1>5
  <2>2. over = IF n <= (capacity - 1) - size THEN 0 ELSE n - ((capacity - 1) - size)
    <3>1. over = n - SmallerOf(n, (capacity - 1) - size)
      BY <1>1
    <3> QED BY <2>1, <3>1 DEF SmallerOf
  <2> HIDE DEF over
  <2> QED BY <2>1, <2>2
<1> HIDE DEF over
<1>8. \A i \in 0 .. 2 * capacity - 1 : Masked(i) = IF i < capacity THEN i ELSE i - capacity
  BY <1>1, MaskedIs
<1>9. /\ head' \in 0 .. capacity - 1 /\ tail' \in 0 .. capacity - 1
      /\ head' = IF head + over < capacity THEN head + over ELSE head + over - capacity
      /\ tail' = IF tail + n < capacity THEN tail + n ELSE tail + n - capacity
  <2>1. head + over \in 0 .. 2 * capacity - 1 /\ tail + n \in 0 .. 2 * capacity - 1
    BY <1>1, <1>5, <1>7
  <2>2. Masked(tail + n) = IF tail + n < capacity THEN tail + n ELSE tail + n - capacity
    BY <1>1, <1>5, <1>8, <2>1
  <2>3. Masked(head + over) = IF head + over < capacity THEN head + over ELSE head + over - capacity
    BY <1>1, <1>7, <1>8, <2>1
  <2>4. head' = IF head + over < capacity THEN head + over ELSE head + over - capacity
    BY <1>1, <1>3, <1>7, <2>3
  <2> QED BY <1>1, <1>3, <1>5, <1>7, <2>2, <2>4
<1>10. RingInv'
  BY <1>1, <1>2, <1>3, <1>6, <1>7, <1>9 DEF RingInv
<1>11. tail = IF head + size < capacity THEN head + size ELSE head + size - capacity
  BY <1>1 DEF size
<1>12. size' = size + n - over
  <2>1. size' = IF tail' >= head' THEN tail' - head' ELSE capacity - head' + tail'
    BY <1>3 DEF size
  <2> QED BY <1>1, <1>5, <1>7, <1>9, <1>11, <2>1
<1>13. /\ Content' \in Seq(Byte) /\ Len(Content') = size'
       /\ \A i \in 1 .. size' : /\ Content'[i] = Stored(kept)[Masked(head' + i - 1)]
                                /\ Masked(head' + i - 1) \in 0 .. capacity - 1
                                /\ Masked(head' + i - 1) = IF head' + i - 1 < capacity THEN head' + i - 1
                                                           ELSE head' + i - 1 - capacity
  <2>1. Content' = Part(Stored(kept), head', size')
    BY <1>3 DEF Content, Part, Masked
  <2>2. size' \in 0 .. capacity
    BY <1>1, <1>7, <1>12
  <2> QED BY <1>1, <1>6, <1>9, <2>1, <2>2, PartType
<1>14. /\ Content \in Seq(Byte) /\ Len(Content) = size
       /\ \A i \in 1 .. size : /\ Content[i] = mem[Masked(head + i - 1)]
                               /\ Masked(head + i - 1) \in 0 .. capacity - 1
                               /\ Masked(head + i - 1) = IF head + i - 1 < capacity THEN head + i - 1
                                                         ELSE head + i - 1 - capacity
  <2>1. Content = Part(mem, head, size) /\ size \in 0 .. capacity
    BY <1>1, SizeFacts
  <2> QED BY <1>1, <2>1, PartType
<1>15. /\ g \in Seq(Byte) /\ Len(g) = size + Len(data)
       /\ \A i \in 1 .. size + Len(data) : g[i] = IF i <= size THEN Content[i] ELSE data[i - size]
  BY <1>1, <1>14, ConcatProperties
<1> HIDE DEF g
<1> DEFINE gone == cut + over
<1>16. gone \in 0 .. Len(g) /\ Len(g) - gone = size'
  BY <1>1, <1>2, <1>4, <1>7, <1>12, <1>15
<1>0. /\ size \in Int /\ size' \in Int /\ n \in Int /\ over \in Int /\ cut \in Int /\ capacity \in Int
      /\ Len(data) \in Int /\ Len(g) \in Int /\ gone \in Int /\ overflow \in Int
      /\ gone = cut + over /\ Len(g) = size + Len(data) /\ Len(g) - gone = size'
      /\ size' = size + n - over /\ n = Len(data) - cut /\ overflow' = overflow + cut + over
      /\ over \in 0 .. size /\ cut \in 0 .. Len(data) /\ size' \in 0 .. capacity - 1
      /\ over > 0 => size' = capacity - 1
      /\ cut > 0 => n = capacity - 1 /\ over = size
  <2>1. Len(g) \in Int /\ size \in Int /\ n \in Int /\ over \in Int /\ cut \in Int /\ Len(data) \in Int
    BY <1>1, <1>2, <1>5, <1>7, <1>15
  <2>2. overflow' = overflow + cut + over
    BY <1>3
  <2> QED BY <1>1, <1>2, <1>4, <1>5, <1>7, <1>12, <1>15, <1>16, <2>1, <2>2
<1>17. ASSUME NEW i \in 1 .. size' PROVE Content'[i] = g[i + gone]
  <2> DEFINE k == Masked(head' + i - 1)
  <2>1. /\ Content'[i] = Stored(kept)[k] /\ k \in 0 .. capacity - 1
        /\ k = IF head' + i - 1 < capacity THEN head' + i - 1 ELSE head' + i - 1 - capacity
    BY <1>13
  <2> HIDE DEF k
  <2>2. i + gone \in 1 .. size + Len(data) /\ i \in 1 .. size + n - over
    BY <1>1, <1>12, <1>15, <1>16
  <2>3. CASE i + over <= size
    <3>1. cut = 0 /\ i + over \in 1 .. size /\ gone = over
      BY <1>1, <1>2, <1>7, <2>2, <2>3
    <3>2. g[i + gone] = mem[Masked(head + (i + over) - 1)]
          /\ Masked(head + (i + over) - 1) = IF head + (i + over) - 1 < capacity THEN head + (i + over) - 1
                                             ELSE head + (i + over) - 1 - capacity
      BY <1>14, <1>15, <2>2, <3>1
    <3>3. k = Masked(head + (i + over) - 1)
      BY <1>1, <1>7, <1>9, <2>1, <2>2, <3>1, <3>2
    <3>4. \A j \in 1 .. n : k # Masked(tail + j - 1)
      <4> SUFFICES ASSUME NEW j \in 1 .. n PROVE k # Masked(tail + j - 1)
        OBVIOUS
      <4>1. tail + j - 1 \in 0 .. 2 * capacity - 1
        BY <1>1, <1>5
      <4>2. Masked(tail + j - 1) = IF tail + j - 1 < capacity THEN tail + j - 1 ELSE tail + j - 1 - capacity
        BY <1>1, <1>5, <1>8, <4>1
      <4> QED BY <1>1, <1>5, <1>7, <1>9, <1>11, <2>1, <2>2, <2>3, <4>2
    <3> QED BY <1>6, <2>1, <3>2, <3>3, <3>4
  <2>4. CASE ~(i + over <= size)
    <3> DEFINE j == i + over - size
    <3>1. j \in 1 .. n /\ i + gone = size + (j + cut) /\ ~(i + gone <= size) /\ (i + gone) - size = j + cut
      BY <1>1, <1>2, <1>5, <1>7, <2>2, <2>4
    <3>2. k = Masked(tail + j - 1)
      <4>1. tail + j - 1 \in 0 .. 2 * capacity - 1
        BY <1>1, <1>5, <3>1
      <4>2. Masked(tail + j - 1) = IF tail + j - 1 < capacity THEN tail + j - 1 ELSE tail + j - 1 - capacity
        <5> HIDE DEF j
        <5> QED BY <1>1, <1>5, <1>8, <3>1, <4>1
      <4> QED BY <1>1, <1>5, <1>7, <1>9, <1>11, <2>1, <2>2, <2>4, <4>2
    <3> HIDE DEF j
    <3>3. Content'[i] = kept[j]
      BY <1>6, <2>1, <3>1, <3>2
    <3> QED BY <1>4, <1>15, <2>2, <3>1, <3>3
  <2> QED BY <2>3, <2>4
<1> HIDE DEF gone
<1>18. Content' = SubSeq(g, gone + 1, Len(g))
  <2> DEFINE r == SubSeq(g, gone + 1, Len(g))
  <2>1. \A i \in gone + 1 .. Len(g) : g[i] \in Byte
    BY <1>15, <1>16, ElementOfSeq
  <2>2. gone + 1 \in Int /\ Len(g) \in Int
    BY <1>1, <1>15, <1>16
  <2>3. /\ r \in Seq(Byte) /\ Len(r) = (IF gone + 1 <= Len(g) THEN Len(g) - (gone + 1) + 1 ELSE 0)
        /\ \A i \in 1 .. Len(g) - (gone + 1) + 1 : r[i] = g[(gone + 1) + i - 1]
    BY <2>1, <2>2, SubSeqProperties
  <2> HIDE DEF r
  <2>4. Len(r) = size'
    <3>1. Len(r) = IF gone + 1 <= Len(g) THEN Len(g) - (gone + 1) + 1 ELSE 0
      BY <2>3
    <3> HIDE DEF gone
    <3>2. size' >= 0
      BY <1>0
    <3>3. Len(g) \in Int /\ gone \in Int /\ Len(g) - gone = size'
      BY <1>0
    <3> QED BY <3>1, <3>2, <3>3
  <2>5. \A i \in 1 .. size' : i \in 1 .. Len(g) - (gone + 1) + 1 /\ (gone + 1) + i - 1 = i + gone
    BY <1>16, <2>2
  <2>6. \A i \in 1 .. size' : Content'[i] = r[i]
    BY <1>17, <2>3, <2>5
  <2>7. Content' = r
    BY <1>13, <2>3, <2>4, <2>6, SeqEqual
  <2> QED BY <2>7 DEF r
<1>19. Content' = Queue!Newest(g, capacity - 1)
  <2>1. CASE Len(g) <= capacity - 1
    <3>1. gone = 0
      BY <1>1, <1>2, <1>4, <1>5, <1>7, <1>12, <1>15, <1>16, <2>1 DEF gone
    <3>2. SubSeq(g, 0 + 1, Len(g)) = g
      BY <1>15, SubSeqFull
    <3> QED BY <1>18, <2>1, <3>1, <3>2 DEF Queue!Newest
  <2>2. CASE ~(Len(g) <= capacity - 1)
    <3>1. size' = capacity - 1
      BY <1>0, <2>2
    <3>2. gone + 1 = Len(g) - (capacity - 1) + 1
      BY <1>0, <3>1
    <3> QED BY <1>18, <2>2, <3>2 DEF Queue!Newest
  <2> QED BY <2>1, <2>2
<1>20. overflow' = overflow + (Len(g) - Len(Content'))
  <2>1. Len(Content') = size'
    BY <1>13
  <2> QED BY <1>0, <2>1
<1>21. capacity' - 1 = capacity - 1
  BY <1>3
<1> QED BY <1>3, <1>10, <1>19, <1>20, <1>21 DEF Queue!Put, Queue!Silent, g

(* Every step of the ring is one of the queue. *)
LEMMA NextRing ==
    ASSUME RingInv, [Next]_ringVars
    PROVE  RingInv' /\ [Queue!QNext]_(Queue!qvars)
<1>1. ASSUME NEW data \in Chunks, append(data) PROVE RingInv' /\ Queue!QNext
  BY <1>1, AppendStep DEF Queue!QNext
<1>2. ASSUME NEW n \in 0 .. MaxRequest, discard(n) PROVE RingInv' /\ Queue!QNext
  BY <1>2, DiscardStep DEF Queue!QNext
<1>3. ASSUME NEW n \in 0 .. MaxRequest, read(n) PROVE RingInv' /\ Queue!QNext
  BY <1>3, ReadStep DEF Queue!QNext
<1>4. ASSUME RingInv', head' = 0, tail' = 0 PROVE Content' = <<>>
  <2>1. size' = 0
    BY <1>4 DEF size, RingInv
  <2>2. Content' = [i \in 1 .. 0 |-> mem'[Masked(head + i - 1)']]
    BY <2>1 DEF Content
  <2> QED BY <2>2
<1>5. CASE clear
  <2>1. RingInv' /\ overflow' = 0 /\ result' = <<>> /\ capacity' = capacity
    BY <1>5 DEF RingInv, clear, Silent
  <2>2. Content' = <<>>
    BY <1>4, <1>5, <2>1 DEF clear
  <2> QED BY <2>1, <2>2 DEF Queue!QNext, Queue!Clear, Queue!Silent
<1>6. ASSUME NEW s \in Sizes, setCapacity(s) PROVE RingInv' /\ Queue!QNext
  <2>1. /\ head' = 0 /\ tail' = 0 /\ overflow' = 0 /\ result' = <<>>
        /\ capacity' \in Nat /\ capacity' >= 2
        /\ mem' = [k \in 0 .. capacity' - 1 |-> IF k < capacity THEN mem[k] ELSE 0]
    BY <1>6, CapacityIsEnough, SizesAssumption DEF setCapacity, Silent
  <2>2. mem' \in [0 .. capacity' - 1 -> Byte]
    BY <2>1, ByteAssumption DEF RingInv
  <2>3. RingInv'
    BY <2>1, <2>2 DEF RingInv
  <2>4. Content' = <<>> /\ capacity' - 1 \in Nat
    BY <1>4, <2>1, <2>3
  <2> QED BY <2>1, <2>3, <2>4 DEF Queue!QNext, Queue!Resize, Queue!Silent
<1>7. CASE resetOverflowCount
  <2>1. overflow' = 0 /\ result' = <<>> /\ UNCHANGED <<capacity, head, tail, mem>>
    BY <1>7 DEF resetOverflowCount, Silent
  <2>2. Content' = Content
    BY <2>1 DEF Content, size, Masked
  <2> QED BY <2>1, <2>2 DEF RingInv, Queue!QNext, Queue!ForgetLost, Queue!Silent
<1>8. CASE UNCHANGED ringVars
  <2>1. UNCHANGED <<capacity, head, tail, mem, overflow, result>>
    BY <1>8 DEF ringVars
  <2>2. Content' = Content
    BY <2>1 DEF Content, size, Masked
  <2> QED BY <2>1, <2>2 DEF RingInv, Queue!qvars
<1> QED BY <1>1, <1>2, <1>3, <1>5, <1>6, <1>7, <1>8 DEF Next

(* The ring is always one. *)
LEMMA RingInvariance == Spec => []RingInv
<1>1. Init => RingInv
  BY InitRing
<1>2. RingInv /\ [Next]_ringVars => RingInv'
  BY NextRing
<1> QED BY <1>1, <1>2, PTL DEF Spec

(* For every capacity and every sequence of appends, reads, discards, clears and
   resizes, the ring is a byte queue that keeps the newest bytes, hands them out in
   order and counts what it gave up. *)
THEOREM RingIsByteQueue == Spec => ImplementsByteQueue
<1>1. Init => Queue!QInit
  BY InitRing
<1>2. RingInv /\ [Next]_ringVars => [Queue!QNext]_(Queue!qvars)
  BY NextRing
<1> QED BY <1>1, <1>2, RingInvariance, PTL DEF Spec, ImplementsByteQueue, Queue!QSpec

-----------------------------------------------------------------------------
(* The first of a set of offsets, and what a match is *)

(* p stands at offset i, byte by byte. *)
FitsAt(p, i) == i + Len(p) <= size /\ \A k \in 1 .. Len(p) : ByteAt(i + k - 1) = p[k]

(* FirstIn is the least of a set of offsets, -1 of none. *)
LEMMA FirstInIs ==
    ASSUME NEW S \in SUBSET Nat
    PROVE  /\ S = {} => FirstIn(S) = -1
           /\ S # {} => FirstIn(S) \in S /\ \A j \in S : FirstIn(S) <= j
<1>1. S # {} => FirstIn(S) = Least(S)
  BY Zenon DEF FirstIn, Least
<1>2. S = {} => FirstIn(S) = -1
  BY Zenon DEF FirstIn
<1> QED BY <1>1, <1>2, LeastProperty

(* An offset of the set that none is below is the first. *)
LEMMA FirstInUnique ==
    ASSUME NEW S \in SUBSET Int, NEW i \in S, \A j \in S : i <= j
    PROVE  FirstIn(S) = i
<1> DEFINE c == CHOOSE x \in S : \A y \in S : x <= y
<1>1. FirstIn(S) = c
  BY DEF FirstIn
<1>2. c \in S /\ \A y \in S : c <= y
  BY Zenon
<1> HIDE DEF c
<1>3. c <= i /\ i <= c /\ c \in Int /\ i \in Int
  BY <1>2
<1> QED BY <1>1, <1>3

(* The first of two sets of offsets, one before the other. *)
LEMMA FirstInSplit ==
    ASSUME NEW A \in SUBSET Nat, NEW B \in SUBSET Nat, \A a \in A, b \in B : a <= b
    PROVE  FirstIn(A \cup B) = IF A # {} THEN FirstIn(A) ELSE FirstIn(B)
<1>1. CASE A = {}
  <2>1. A \cup B = B
    BY <1>1
  <2> QED BY <1>1, <2>1
<1>2. CASE A # {}
  <2>1. FirstIn(A) \in A /\ \A j \in A : FirstIn(A) <= j
    BY <1>2, FirstInIs
  <2>2. \A j \in A \cup B : FirstIn(A) <= j
    BY <2>1
  <2>3. A \cup B \in SUBSET Int /\ FirstIn(A) \in A \cup B
    BY <2>1
  <2>4. FirstIn(A \cup B) = FirstIn(A)
    BY <2>2, <2>3, FirstInUnique
  <2> QED BY <1>2, <2>4
<1> QED BY <1>1, <1>2

(* The byte at a logical offset is the one the ring holds there. *)
LEMMA ByteAtIs ==
    ASSUME RingInv
    PROVE  \A i \in 0 .. size - 1 : ByteAt(i) = Content[i + 1]
<1>1. \A i \in 0 .. size - 1 : i + 1 \in 1 .. size /\ head + (i + 1) - 1 = head + i
  <2>1. size \in Int /\ head \in Int
    BY SizeFacts DEF RingInv
  <2> QED BY <2>1
<1>2. \A i \in 0 .. size - 1 : Content[i + 1] = mem[Masked(head + (i + 1) - 1)]
  BY <1>1 DEF Content
<1> QED BY <1>1, <1>2 DEF ByteAt

(* A match of the definition is one byte by byte. *)
LEMMA MatchesIs ==
    ASSUME RingInv, NEW p \in Seq(Byte) \ {<<>>}, NEW i \in Nat
    PROVE  Matches(p, i) <=> FitsAt(p, i)
<1> DEFINE c == Content
           m == Len(p)
           s == SubSeq(c, i + 1, i + m)
<1>1. c \in Seq(Byte) /\ Len(c) = size /\ size \in Nat /\ m \in Nat \ {0}
  BY ContentType, SizeFacts, LenProperties
<1>2. CASE ~(i + m <= size)
  BY <1>2 DEF Matches, FitsAt
<1>3. CASE i + m <= size
  <2> HIDE DEF c, m
  <2> DEFINE lo == i + 1
             hi == i + m
  <2>1. /\ lo \in Int /\ hi \in Int /\ lo <= hi /\ hi - lo + 1 = m
        /\ \A k \in lo .. hi : k \in 1 .. size
    BY <1>1, <1>3
  <2>2. \A k \in lo .. hi : c[k] \in Byte
    BY <1>1, <2>1, ElementOfSeq
  <2> HIDE DEF lo, hi
  <2>3. /\ SubSeq(c, lo, hi) \in Seq(Byte)
        /\ Len(SubSeq(c, lo, hi)) = (IF lo <= hi THEN hi - lo + 1 ELSE 0)
        /\ \A k \in 1 .. hi - lo + 1 : SubSeq(c, lo, hi)[k] = c[lo + k - 1]
    BY <2>1, <2>2, SubSeqProperties
  <2>4. /\ s \in Seq(Byte) /\ Len(s) = m
        /\ \A k \in 1 .. m : s[k] = c[(i + 1) + k - 1]
    <3>1. s = SubSeq(c, lo, hi)
      BY DEF lo, hi
    <3> HIDE DEF s
    <3>2. \A k \in 1 .. m : s[k] = c[lo + k - 1]
      BY <2>1, <2>3, <3>1
    <3> QED BY <2>1, <2>3, <3>1, <3>2 DEF lo
  <2>5. \A k \in 1 .. m : (i + 1) + k - 1 = (i + k - 1) + 1 /\ i + k - 1 \in 0 .. size - 1
    BY <1>1, <1>3
  <2>6. \A k \in 1 .. m : s[k] = ByteAt(i + k - 1)
    BY <2>4, <2>5, ByteAtIs DEF c
  <2> HIDE DEF s
  <2>7. s = p <=> \A k \in 1 .. m : s[k] = p[k]
    <3>1. p \in Seq(Byte) /\ Len(p) = m
      BY DEF m
    <3> QED BY <2>4, <3>1, SeqEqual
  <2>8. Matches(p, i) <=> s = p
    BY <1>3 DEF Matches, s, c, m
  <2>9. FitsAt(p, i) <=> \A k \in 1 .. m : ByteAt(i + k - 1) = p[k]
    BY <1>3 DEF FitsAt, m
  <2> QED BY <2>6, <2>7, <2>8, <2>9
<1> QED BY <1>2, <1>3

-----------------------------------------------------------------------------
(* Borders of a pattern *)

(* The lengths of the proper borders of the first i bytes of p. *)
Borders(p, i) == {b \in 0 .. i - 1 : \A k \in 1 .. b : p[k] = p[i - b + k]}

Greatest(S) == CHOOSE x \in S : \A y \in S : y <= x

(* The longest one. *)
Border(p, i) == Greatest(Borders(p, i))

(* Of the first len bytes of p and their borders, those that byte i of p continues. *)
Extensions(p, i, len) ==
    {0} \cup {b + 1 : b \in {x \in {len} \cup Borders(p, len) : p[x + 1] = p[i]}}

(* A non-empty set of bounded naturals has a greatest element. *)
LEMMA GreatestIs ==
    ASSUME NEW n \in Nat, NEW S \in SUBSET (0 .. n), S # {}
    PROVE  Greatest(S) \in S /\ \A y \in S : y <= Greatest(S)
<1> DEFINE T == {m \in 0 .. n : n - m \in S}
<1>1. T \in SUBSET Nat /\ T # {}
  <2>1. PICK x \in S : TRUE
    OBVIOUS
  <2>2. x \in 0 .. n /\ n - x \in 0 .. n /\ n - (n - x) = x
    OBVIOUS
  <2>3. n - x \in T
    BY <2>1, <2>2
  <2>4. \A m \in T : m \in Nat
    OBVIOUS
  <2> HIDE DEF T
  <2> QED BY <2>3, <2>4
<1>2. Least(T) \in T /\ \A y \in T : Least(T) <= y
  BY <1>1, LeastProperty
<1> DEFINE g == n - Least(T)
<1>3. g \in S /\ g \in Int
  BY <1>2
<1>4. ASSUME NEW y \in S PROVE y <= g
  <2>1. n - y \in T /\ y \in Int
    OBVIOUS
  <2>2. Least(T) <= n - y /\ Least(T) \in Int
    BY <1>2, <2>1
  <2> HIDE DEF T
  <2> QED BY <2>1, <2>2
<1> HIDE DEF g
<1> QED BY <1>3, <1>4, Zenon DEF Greatest

(* An element that none is above is the greatest. *)
LEMMA GreatestUnique ==
    ASSUME NEW S \in SUBSET Int, NEW x \in S, \A y \in S : y <= x
    PROVE  Greatest(S) = x
<1> DEFINE c == CHOOSE z \in S : \A y \in S : y <= z
<1>1. c \in S /\ \A y \in S : y <= c
  BY Zenon
<1> HIDE DEF c
<1>2. c <= x /\ x <= c /\ c \in Int /\ x \in Int
  BY <1>1
<1>3. Greatest(S) = c
  BY DEF Greatest, c
<1> QED BY <1>2, <1>3

(* Every prefix has a longest border, which is shorter than it. *)
LEMMA BorderIs ==
    ASSUME NEW p, NEW i \in Nat \ {0}
    PROVE  /\ Border(p, i) \in Borders(p, i) /\ Border(p, i) \in 0 .. i - 1
           /\ \A b \in Borders(p, i) : b <= Border(p, i)
<1>1. Borders(p, i) \in SUBSET (0 .. i) /\ 0 \in Borders(p, i)
  BY DEF Borders
<1>2. Border(p, i) \in Borders(p, i) /\ \A b \in Borders(p, i) : b <= Border(p, i)
  BY <1>1, GreatestIs DEF Border
<1>3. Border(p, i) \in 0 .. i - 1
  BY <1>2 DEF Borders
<1> QED BY <1>2, <1>3

(* The borders are the longest one and its own borders. *)
LEMMA BordersChain ==
    ASSUME NEW p, NEW i \in Nat \ {0}
    PROVE  Borders(p, i) = {Border(p, i)} \cup Borders(p, Border(p, i))
<1> DEFINE b == Border(p, i)
<1>1. b \in 0 .. i - 1 /\ (\A k \in 1 .. b : p[k] = p[i - b + k]) /\ b \in Borders(p, i)
  BY BorderIs DEF Borders
<1>2. \A c \in Borders(p, i) : c <= b
  BY BorderIs
<1> HIDE DEF b
<1>3. ASSUME NEW c \in Borders(p, i), c # b PROVE c \in Borders(p, b)
  <2>1. c \in 0 .. i - 1 /\ \A k \in 1 .. c : p[k] = p[i - c + k]
    BY DEF Borders
  <2>2. c \in 0 .. b - 1
    BY <1>1, <1>2, <1>3, <2>1
  <2>3. ASSUME NEW k \in 1 .. c PROVE p[k] = p[b - c + k]
    <3>1. b - c + k \in 1 .. b /\ i - b + (b - c + k) = i - c + k
      BY <1>1, <2>1, <2>2
    <3>2. p[b - c + k] = p[i - b + (b - c + k)]
      BY <1>1, <3>1
    <3> QED BY <2>1, <3>1, <3>2
  <2> QED BY <2>2, <2>3 DEF Borders
<1>4. ASSUME NEW c \in Borders(p, b) PROVE c \in Borders(p, i)
  <2>1. c \in 0 .. b - 1 /\ \A k \in 1 .. c : p[k] = p[b - c + k]
    BY DEF Borders
  <2>2. c \in 0 .. i - 1
    BY <1>1, <2>1
  <2>3. ASSUME NEW k \in 1 .. c PROVE p[k] = p[i - c + k]
    <3>1. b - c + k \in 1 .. b /\ i - b + (b - c + k) = i - c + k
      BY <1>1, <2>1, <2>2
    <3>2. p[b - c + k] = p[i - b + (b - c + k)]
      BY <1>1, <3>1
    <3> QED BY <2>1, <3>1, <3>2
  <2> QED BY <2>2, <2>3 DEF Borders
<1> QED BY <1>1, <1>3, <1>4 DEF b

(* A border of one byte more continues a border. *)
LEMMA BordersGrow ==
    ASSUME NEW p, NEW i \in Nat \ {0, 1}
    PROVE  Borders(p, i) = Extensions(p, i, Border(p, i - 1))
<1> DEFINE B == Borders(p, i - 1)
<1>1. B = {Border(p, i - 1)} \cup Borders(p, Border(p, i - 1))
  <2>1. i - 1 \in Nat \ {0}
    OBVIOUS
  <2> QED BY <2>1, BordersChain
<1>2. Extensions(p, i, Border(p, i - 1)) = {0} \cup {b + 1 : b \in {x \in B : p[x + 1] = p[i]}}
  BY <1>1, Zenon DEF Extensions
<1>3. 0 \in Borders(p, i)
  BY DEF Borders
<1>4. ASSUME NEW c \in Borders(p, i), c # 0 PROVE c - 1 \in B /\ p[(c - 1) + 1] = p[i] /\ c = (c - 1) + 1
  <2>1. c \in 1 .. i - 1 /\ \A k \in 1 .. c : p[k] = p[i - c + k]
    BY <1>4 DEF Borders
  <2>2. p[c] = p[i] /\ c = (c - 1) + 1
    <3>1. c \in 1 .. c /\ i - c + c = i /\ c = (c - 1) + 1
      BY <2>1
    <3> QED BY <2>1, <3>1
  <2>3. c - 1 \in 0 .. (i - 1) - 1
    BY <2>1
  <2>4. ASSUME NEW k \in 1 .. c - 1 PROVE p[k] = p[(i - 1) - (c - 1) + k]
    <3>1. k \in 1 .. c /\ (i - 1) - (c - 1) + k = i - c + k
      BY <2>1
    <3> QED BY <2>1, <3>1
  <2> QED BY <2>2, <2>3, <2>4 DEF Borders
<1>5. ASSUME NEW b \in B, p[b + 1] = p[i] PROVE b + 1 \in Borders(p, i)
  <2>1. b \in 0 .. (i - 1) - 1 /\ \A k \in 1 .. b : p[k] = p[(i - 1) - b + k]
    BY DEF Borders
  <2>2. b + 1 \in 0 .. i - 1
    BY <2>1
  <2>3. ASSUME NEW k \in 1 .. b + 1 PROVE p[k] = p[i - (b + 1) + k]
    <3>1. CASE k = b + 1
      <4>1. i - (b + 1) + k = i
        BY <2>1, <3>1
      <4> QED BY <1>5, <3>1, <4>1
    <3>2. CASE k # b + 1
      <4>1. k \in 1 .. b /\ (i - 1) - b + k = i - (b + 1) + k
        BY <2>1, <3>2
      <4> QED BY <2>1, <4>1
    <3> QED BY <3>1, <3>2
  <2> QED BY <2>2, <2>3 DEF Borders
<1> HIDE DEF B
<1> QED BY <1>2, <1>3, <1>4, <1>5

-----------------------------------------------------------------------------
(* computeKMPTable *)

(* What following the borders of the first len bytes finds for byte i. *)
Continued(p, i, len) == Greatest(Extensions(p, i, len))

(* One look of the loop of computeKMPTable, L the table so far. *)
FallLook(f, len, p, i, L) ==
    IF p[i] = p[len + 1] THEN len + 1
    ELSE IF len # 0 THEN f[L[len]] ELSE 0

Fall(p, i, L) ==
    LET fall[len \in 0 .. i - 1] ==
            IF p[i] = p[len + 1] THEN len + 1
            ELSE IF len # 0 THEN fall[L[len]] ELSE 0
    IN  fall

(* The table says of every prefix how long its longest border is. *)
IsTable(L, p, n) == \A i \in 1 .. n : L[i] = Border(p, i)

(* One look finds what the looks after it do. *)
LEMMA LookFinds ==
    ASSUME NEW p, NEW i \in Nat \ {0}, NEW L, IsTable(L, p, i - 1), NEW f, NEW len \in 0 .. i - 1,
           len # 0 => f[Border(p, len)] = Continued(p, i, Border(p, len))
    PROVE  FallLook(f, len, p, i, L) = Continued(p, i, len)
<1> DEFINE E == Extensions(p, i, len)
<1>1. len \in Nat /\ \A b \in Borders(p, len) : b \in 0 .. len - 1
  BY DEF Borders
<1>2. E \in SUBSET Int /\ \A e \in E : e <= len + 1
  BY <1>1 DEF Extensions
<1>3. CASE p[i] = p[len + 1]
  <2>1. len + 1 \in E
    BY <1>3 DEF Extensions
  <2> HIDE DEF E
  <2>2. Greatest(E) = len + 1
    BY <1>2, <2>1, GreatestUnique
  <2> QED BY <1>3, <2>2 DEF FallLook, Continued, E
<1>4. CASE p[i] # p[len + 1] /\ len = 0
  <2>1. Borders(p, len) = {}
    BY <1>1, <1>4
  <2>2. E = {0}
    BY <1>4, <2>1, Zenon DEF Extensions
  <2> HIDE DEF E
  <2>3. Greatest(E) = 0
    BY <2>2, GreatestUnique
  <2> QED BY <1>4, <2>3 DEF FallLook, Continued, E
<1>5. CASE p[i] # p[len + 1] /\ len # 0
  <2>1. len \in 1 .. i - 1 /\ len \in Nat \ {0}
    BY <1>1, <1>5
  <2>2. Borders(p, len) = {Border(p, len)} \cup Borders(p, Border(p, len))
    BY <2>1, BordersChain
  <2>3. E = Extensions(p, i, Border(p, len))
    BY <1>5, <2>2 DEF Extensions
  <2>4. L[len] = Border(p, len)
    BY <2>1 DEF IsTable
  <2> HIDE DEF E
  <2> QED BY <1>5, <2>3, <2>4 DEF FallLook, Continued, E
<1> QED BY <1>3, <1>4, <1>5

(* The loop has the value that its looks add up to. *)
LEMMA FallFinds ==
    ASSUME NEW p, NEW i \in Nat \ {0}, NEW L, IsTable(L, p, i - 1)
    PROVE  \A len \in 0 .. i - 1 : Fall(p, i, L)[len] = Continued(p, i, len)
<1> DEFINE D == 0 .. i - 1
           w == [len \in D |-> Continued(p, i, len)]
<1>1. \A len \in D : len # 0 => Border(p, len) \in D /\ Border(p, len) < len
  <2> SUFFICES ASSUME NEW len \in D, len # 0 PROVE Border(p, len) \in D /\ Border(p, len) < len
    OBVIOUS
  <2>1. len \in Nat \ {0}
    OBVIOUS
  <2>2. Border(p, len) \in 0 .. len - 1
    BY <2>1, BorderIs
  <2> QED BY <2>2
<1>2. \A len \in D : w[len] = FallLook(w, len, p, i, L)
  <2> SUFFICES ASSUME NEW len \in D PROVE w[len] = FallLook(w, len, p, i, L)
    OBVIOUS
  <2>1. w[len] = Continued(p, i, len)
    OBVIOUS
  <2>2. len # 0 => w[Border(p, len)] = Continued(p, i, Border(p, len))
    BY <1>1
  <2> HIDE DEF w
  <2> QED BY <2>1, <2>2, LookFinds
<1>3. w = [len \in D |-> FallLook(w, len, p, i, L)]
  <2>1. w = [len \in D |-> w[len]]
    OBVIOUS
  <2> HIDE DEF w
  <2> QED BY <1>2, <2>1, Zenon
<1> DEFINE f == Fall(p, i, L)
<1>4. f = [len \in D |-> FallLook(f, len, p, i, L)]
  <2> HIDE DEF w
  <2> QED BY <1>3, Zenon DEF Fall, FallLook
<1> HIDE DEF f, w
<1>5. \A len \in D : f[len] = FallLook(f, len, p, i, L)
  BY <1>4, Zenon
<1> DEFINE bad == {len \in D : f[len] # Continued(p, i, len)}
<1>6. SUFFICES ASSUME bad # {} PROVE FALSE
  BY <1>6 DEF f
<1> DEFINE least == Least(bad)
<1>7. least \in bad /\ \A len \in bad : least <= len
  BY <1>6, LeastProperty
<1> HIDE DEF least
<1>8. least \in D /\ f[least] # Continued(p, i, least)
  BY <1>7
<1>9. least # 0 => f[Border(p, least)] = Continued(p, i, Border(p, least))
  <2> SUFFICES ASSUME least # 0 PROVE Border(p, least) \in D /\ Border(p, least) \notin bad
    OBVIOUS
  <2>1. Border(p, least) \in D /\ Border(p, least) < least /\ least \in Int
    BY <1>1, <1>8
  <2> HIDE DEF bad
  <2> QED BY <1>7, <2>1
<1>10. FallLook(f, least, p, i, L) = Continued(p, i, least)
  <2>1. least \in 0 .. i - 1
    BY <1>8
  <2> HIDE DEF bad, D
  <2> QED BY <1>9, <2>1, LookFinds
<1> QED BY <1>5, <1>8, <1>10

(* computeKMPTable finds the longest border of every prefix. *)
LEMMA TableCorrect ==
    ASSUME NEW p \in Seq(Byte)
    PROVE  IsTable(computeKMPTable(p), p, Len(p))
<1> DEFINE D == 1 .. Len(p)
           Entry(L, i) == IF i = 1 THEN 0 ELSE Fall(p, i, L)[L[i - 1]]
           w == [i \in D |-> Border(p, i)]
<1>1. ASSUME NEW L, NEW i \in D, IsTable(L, p, i - 1)
      PROVE  Entry(L, i) = Border(p, i)
  <2>1. i \in Nat \ {0}
    OBVIOUS
  <2>2. CASE i = 1
    <3>1. Border(p, 1) \in 0 .. 1 - 1
      BY BorderIs
    <3> QED BY <2>2, <3>1
  <2>3. CASE i # 1
    <3>1. i \in Nat \ {0, 1} /\ i - 1 \in Nat \ {0} /\ i - 1 \in 1 .. i - 1
      BY <2>1, <2>3
    <3>2. L[i - 1] = Border(p, i - 1)
      BY <1>1, <3>1 DEF IsTable
    <3>3. Border(p, i - 1) \in 0 .. i - 1
      <4>1. Border(p, i - 1) \in 0 .. (i - 1) - 1
        BY <3>1, BorderIs
      <4> QED BY <2>1, <4>1
    <3>4. Fall(p, i, L)[Border(p, i - 1)] = Continued(p, i, Border(p, i - 1))
      BY <1>1, <2>1, <3>3, FallFinds
    <3>5. Continued(p, i, Border(p, i - 1)) = Border(p, i)
      BY <3>1, BordersGrow DEF Continued, Border
    <3> QED BY <2>3, <3>2, <3>4, <3>5
  <2> QED BY <2>2, <2>3
<1>2. \A i \in D : w[i] = Entry(w, i)
  <2> SUFFICES ASSUME NEW i \in D PROVE w[i] = Entry(w, i)
    OBVIOUS
  <2>1. IsTable(w, p, i - 1)
    BY LenProperties DEF IsTable
  <2>2. w[i] = Border(p, i)
    OBVIOUS
  <2> HIDE DEF w, Entry
  <2> QED BY <1>1, <2>1, <2>2
<1>3. w = [i \in D |-> Entry(w, i)]
  <2>1. w = [i \in D |-> w[i]]
    OBVIOUS
  <2> HIDE DEF w, Entry
  <2> QED BY <1>2, <2>1, Zenon
<1> DEFINE lps == computeKMPTable(p)
<1>4. lps = [i \in D |-> Entry(lps, i)]
  <2> HIDE DEF w
  <2> QED BY <1>3, Zenon DEF computeKMPTable, Fall
<1> HIDE DEF lps, w, Entry
<1>5. \A i \in D : lps[i] = Entry(lps, i)
  BY <1>4, Zenon
<1> DEFINE bad == {i \in D : lps[i] # Border(p, i)}
<1>6. SUFFICES ASSUME bad # {} PROVE FALSE
  BY <1>6 DEF IsTable, lps
<1> DEFINE least == Least(bad)
<1>7. least \in bad /\ \A i \in bad : least <= i
  <2>1. bad \in SUBSET Nat
    BY LenProperties
  <2> QED BY <1>6, <2>1, LeastProperty
<1> HIDE DEF least
<1>8. least \in D /\ lps[least] # Border(p, least)
  BY <1>7
<1>9. IsTable(lps, p, least - 1)
  <2> SUFFICES ASSUME NEW i \in 1 .. least - 1 PROVE lps[i] = Border(p, i)
    BY DEF IsTable
  <2>1. i \in D /\ ~(least <= i)
    BY <1>8, LenProperties
  <2>2. i \notin bad
    BY <1>7, <2>1
  <2> QED BY <2>1, <2>2
<1> QED BY <1>1, <1>5, <1>8, <1>9

-----------------------------------------------------------------------------
(* kmpScan *)

(* The text as the scan sees it with i bytes read and j matched: p itself is taken to
   stand before byte i. *)
Overlay(i, j, p, x) == IF x >= i THEN ByteAt(x) ELSE p[x - (i - j) + 1]

(* Where p stands in that text. *)
Ahead(i, j, p) ==
    {k \in i - j .. size - Len(p) : \A q \in 1 .. Len(p) : Overlay(i, j, p, k + q - 1) = p[q]}

(* One look of the loop of kmpScan. *)
RunLook(r, i, j, p, L) ==
    IF j = Len(p) THEN i - j
    ELSE IF i >= size THEN -1
    ELSE IF ByteAt(i) = p[j + 1] THEN r[<<i + 1, j + 1>>]
    ELSE IF j # 0 THEN r[<<i, L[j]>>]
    ELSE r[<<i + 1, 0>>]

(* After a mismatch, nothing before the longest border can be a match. *)
LEMMA BorderIsEnough ==
    ASSUME size \in Nat, NEW p, Len(p) \in Nat, NEW i \in 0 .. size, NEW j \in 1 .. Len(p) - 1,
           ByteAt(i) # p[j + 1]
    PROVE  Ahead(i, Border(p, j), p) = Ahead(i, j, p)
<1> DEFINE b == Border(p, j)
           m == Len(p)
<1>1. /\ b \in 0 .. j - 1 /\ (\A k \in 1 .. b : p[k] = p[j - b + k])
      /\ \A c \in Borders(p, j) : c <= b
  <2>1. j \in Nat \ {0}
    OBVIOUS
  <2> QED BY <2>1, BorderIs DEF Borders
<1>0. m \in Nat /\ j \in 1 .. m - 1 /\ i \in Int /\ size \in Int
  OBVIOUS
<1> HIDE DEF b
<1>2. ASSUME NEW x \in Int, x >= i - b PROVE Overlay(i, b, p, x) = Overlay(i, j, p, x)
  <2>1. CASE x >= i
    BY <2>1 DEF Overlay
  <2>2. CASE ~(x >= i)
    <3> DEFINE k == x - (i - b) + 1
    <3>1. k \in 1 .. b /\ j - b + k = x - (i - j) + 1
      BY <1>0, <1>1, <1>2, <2>2
    <3>2. p[k] = p[j - b + k]
      BY <1>1, <3>1
    <3> QED BY <2>2, <3>1, <3>2 DEF Overlay
  <2> QED BY <2>1, <2>2
<1>3. ASSUME NEW k \in Ahead(i, j, p) PROVE k >= i - b
  <2> SUFFICES ASSUME ~(k >= i - b) PROVE FALSE
    OBVIOUS
  <2>1. k \in i - j .. size - m /\ \A q \in 1 .. m : Overlay(i, j, p, k + q - 1) = p[q]
    BY DEF Ahead
  <2> DEFINE c == i - k
  <2>2. c \in b + 1 .. j /\ k \in Int
    BY <1>0, <1>1, <2>1
  <2>3. CASE c = j
    <3>1. j + 1 \in 1 .. m /\ k + (j + 1) - 1 = i
      BY <1>0, <2>2, <2>3
    <3>2. Overlay(i, j, p, i) = p[j + 1]
      BY <2>1, <3>1
    <3> QED BY <1>0, <3>2 DEF Overlay
  <2>4. CASE c # j
    <3>1. c \in 0 .. j - 1
      BY <1>0, <1>1, <2>2, <2>4
    <3>2. ASSUME NEW q \in 1 .. c PROVE p[q] = p[j - c + q]
      <4>1. q \in 1 .. m /\ ~(k + q - 1 >= i) /\ (k + q - 1) - (i - j) + 1 = j - c + q
        BY <1>0, <2>2, <3>1
      <4>2. Overlay(i, j, p, k + q - 1) = p[q]
        BY <2>1, <4>1
      <4> QED BY <4>1, <4>2 DEF Overlay
    <3>3. c \in Borders(p, j)
      BY <3>1, <3>2 DEF Borders
    <3>4. c <= b
      BY <1>1, <3>3
    <3> HIDE DEF c
    <3> QED BY <1>1, <2>2, <3>4
  <2> QED BY <2>3, <2>4
<1>4. ASSUME NEW k \in i - j .. size - m, k >= i - b
      PROVE  \A q \in 1 .. m : Overlay(i, b, p, k + q - 1) = Overlay(i, j, p, k + q - 1)
  <2> SUFFICES ASSUME NEW q \in 1 .. m
               PROVE  Overlay(i, b, p, k + q - 1) = Overlay(i, j, p, k + q - 1)
    OBVIOUS
  <2>1. k + q - 1 \in Int /\ k + q - 1 >= i - b
    BY <1>0, <1>1, <1>4
  <2> QED BY <1>2, <2>1
<1>5. \A k \in i - j .. size - m : k >= i - b <=> k \in i - b .. size - m
  BY <1>0, <1>1
<1>6. \A k \in i - b .. size - m : k \in i - j .. size - m
  BY <1>0, <1>1
<1>7. ASSUME NEW k \in Ahead(i, j, p) PROVE k \in Ahead(i, b, p)
  <2>1. k \in i - j .. size - m /\ \A q \in 1 .. m : Overlay(i, j, p, k + q - 1) = p[q]
    BY DEF Ahead
  <2>2. \A q \in 1 .. m : Overlay(i, b, p, k + q - 1) = p[q]
    BY <1>3, <1>4, <2>1
  <2> QED BY <1>3, <1>5, <2>1, <2>2 DEF Ahead
<1>8. ASSUME NEW k \in Ahead(i, b, p) PROVE k \in Ahead(i, j, p)
  <2>1. k \in i - b .. size - m /\ \A q \in 1 .. m : Overlay(i, b, p, k + q - 1) = p[q]
    BY DEF Ahead
  <2>2. k \in i - j .. size - m /\ k >= i - b
    BY <1>5, <1>6, <2>1
  <2>3. \A q \in 1 .. m : Overlay(i, j, p, k + q - 1) = p[q]
    BY <1>4, <2>1, <2>2
  <2> QED BY <2>2, <2>3 DEF Ahead
<1> QED BY <1>7, <1>8 DEF b

(* One look finds what the looks after it do. *)
LEMMA RunLookFinds ==
    ASSUME size \in Nat, NEW p, Len(p) \in Nat \ {0}, NEW L, IsTable(L, p, Len(p)),
           NEW i \in 0 .. size, NEW j \in 0 .. Len(p), NEW r,
           i < size /\ j < Len(p) =>
              /\ r[<<i + 1, j + 1>>] = FirstIn(Ahead(i + 1, j + 1, p))
              /\ r[<<i + 1, 0>>] = FirstIn(Ahead(i + 1, 0, p)),
           0 < j /\ j < Len(p) => r[<<i, Border(p, j)>>] = FirstIn(Ahead(i, Border(p, j), p))
    PROVE  RunLook(r, i, j, p, L) = FirstIn(Ahead(i, j, p))
<1> DEFINE m == Len(p)
<1>0. m \in Nat \ {0} /\ i \in Int /\ size \in Int /\ j \in Int
  OBVIOUS
<1>1. CASE j = m
  <2>1. i - j \in i - j .. size - m
    BY <1>0, <1>1
  <2>2. ASSUME NEW q \in 1 .. m PROVE Overlay(i, j, p, (i - j) + q - 1) = p[q]
    <3>1. ~((i - j) + q - 1 >= i) /\ ((i - j) + q - 1) - (i - j) + 1 = q
      BY <1>0, <1>1
    <3> QED BY <3>1 DEF Overlay
  <2>3. i - j \in Ahead(i, j, p)
    BY <2>1, <2>2 DEF Ahead
  <2>4. Ahead(i, j, p) \in SUBSET Int /\ \A k \in Ahead(i, j, p) : i - j <= k
    BY <1>0 DEF Ahead
  <2>5. FirstIn(Ahead(i, j, p)) = i - j
    BY <2>3, <2>4, FirstInUnique
  <2> QED BY <1>1, <2>5 DEF RunLook
<1>2. CASE j # m /\ i >= size
  <2>1. i - j .. size - m = {}
    BY <1>0, <1>2
  <2>2. Ahead(i, j, p) = {}
    BY <2>1 DEF Ahead
  <2> QED BY <1>2, <2>2 DEF RunLook, FirstIn
<1>3. CASE j # m /\ ~(i >= size) /\ ByteAt(i) = p[j + 1]
  <2>1. (i + 1) - (j + 1) = i - j
    BY <1>0
  <2>2. ASSUME NEW x \in Int PROVE Overlay(i + 1, j + 1, p, x) = Overlay(i, j, p, x)
    <3>1. CASE x = i
      <4>1. ~(x >= i + 1) /\ x >= i /\ x - ((i + 1) - (j + 1)) + 1 = j + 1
        BY <1>0, <3>1
      <4> QED BY <1>3, <3>1, <4>1 DEF Overlay
    <3>2. CASE x # i
      <4>1. (x >= i + 1) <=> (x >= i)
        BY <1>0, <3>2
      <4> QED BY <2>1, <4>1 DEF Overlay
    <3> QED BY <3>1, <3>2
  <2>3. \A k \in i - j .. size - m : \A q \in 1 .. m : k + q - 1 \in Int
    BY <1>0
  <2>4. Ahead(i + 1, j + 1, p) = Ahead(i, j, p)
    BY <2>1, <2>2, <2>3 DEF Ahead
  <2>5. i < size /\ j < m
    BY <1>0, <1>3
  <2> QED BY <1>3, <2>4, <2>5 DEF RunLook
<1>4. CASE j # m /\ ~(i >= size) /\ ByteAt(i) # p[j + 1] /\ j # 0
  <2>1. j \in 1 .. m - 1 /\ j \in 1 .. m /\ 0 < j /\ j < m
    BY <1>0, <1>4
  <2>2. L[j] = Border(p, j)
    BY <2>1 DEF IsTable
  <2>3. Ahead(i, Border(p, j), p) = Ahead(i, j, p)
    BY <1>0, <1>4, <2>1, BorderIsEnough
  <2> QED BY <1>4, <2>1, <2>2, <2>3 DEF RunLook
<1>5. CASE j # m /\ ~(i >= size) /\ ByteAt(i) # p[j + 1] /\ j = 0
  <2>1. ASSUME NEW x \in Int, x >= i + 1 PROVE Overlay(i + 1, 0, p, x) = Overlay(i, 0, p, x)
    <3>1. x >= i
      BY <1>0, <2>1
    <3> QED BY <2>1, <3>1 DEF Overlay
  <2>2. i \notin Ahead(i, 0, p)
    <3>1. 1 \in 1 .. m /\ i + 1 - 1 = i
      BY <1>0
    <3>2. Overlay(i, 0, p, i) = ByteAt(i) /\ ByteAt(i) # p[1]
      BY <1>0, <1>5 DEF Overlay
    <3> QED BY <3>1, <3>2 DEF Ahead
  <2>3. \A k : k \in i - 0 .. size - m /\ k # i <=> k \in (i + 1) - 0 .. size - m
    BY <1>0
  <2>4. \A k \in (i + 1) - 0 .. size - m : \A q \in 1 .. m : k + q - 1 \in Int /\ k + q - 1 >= i + 1
    BY <1>0
  <2>5. \A k \in (i + 1) - 0 .. size - m : \A q \in 1 .. m :
           Overlay(i + 1, 0, p, k + q - 1) = Overlay(i, 0, p, k + q - 1)
    BY <2>1, <2>4
  <2>6. Ahead(i + 1, 0, p) = Ahead(i, 0, p)
    BY <2>2, <2>3, <2>5 DEF Ahead
  <2>7. i < size /\ j < m
    BY <1>0, <1>5
  <2> QED BY <1>5, <2>6, <2>7 DEF RunLook
<1> QED BY <1>1, <1>2, <1>3, <1>4, <1>5

(* Where p stands in the ring at or after pos. *)
Places(p, pos) == {i \in pos .. size - 1 : FitsAt(p, i)}

(* kmpScanLinear and kmpScanWrap find the first place. *)
LEMMA KmpScanFinds ==
    ASSUME size \in Nat, NEW p \in Seq(Byte) \ {<<>>}, NEW pos \in 0 .. size
    PROVE  kmpScan(pos, p) = FirstIn(Places(p, pos))
<1> DEFINE m   == Len(p)
           D   == (pos .. size) \X (0 .. m)
           lps == computeKMPTable(p)
           w   == [at \in D |-> FirstIn(Ahead(at[1], at[2], p))]
<1>0. m \in Nat \ {0} /\ pos \in Int /\ size \in Int
  BY LenProperties
<1>1. IsTable(lps, p, m)
  BY TableCorrect
<1> HIDE DEF lps
<1>2. ASSUME NEW i \in pos .. size, NEW j \in 0 .. m
      PROVE  /\ i \in 0 .. size /\ <<i, j>> \in D
             /\ i < size /\ j < m => <<i + 1, j + 1>> \in D /\ <<i + 1, 0>> \in D
             /\ 0 < j /\ j < m => <<i, Border(p, j)>> \in D /\ Border(p, j) < j
  <2>1. i < size => i + 1 \in pos .. size
    BY <1>0
  <2>2. j < m => j + 1 \in 0 .. m
    BY <1>0
  <2>3. 0 < j => Border(p, j) \in 0 .. m /\ Border(p, j) < j
    <3> SUFFICES ASSUME 0 < j PROVE Border(p, j) \in 0 .. m /\ Border(p, j) < j
      OBVIOUS
    <3>1. j \in Nat \ {0}
      BY <1>0
    <3>2. Border(p, j) \in 0 .. j - 1
      BY <3>1, BorderIs
    <3> QED BY <1>0, <3>2
  <2>4. i \in 0 .. size /\ 0 \in 0 .. m
    BY <1>0
  <2> QED BY <2>1, <2>2, <2>3, <2>4
<1>3. \A at \in D : w[at] = RunLook(w, at[1], at[2], p, lps)
  <2> SUFFICES ASSUME NEW i \in pos .. size, NEW j \in 0 .. m
               PROVE  w[<<i, j>>] = RunLook(w, i, j, p, lps)
    OBVIOUS
  <2>1. \A a \in pos .. size, b \in 0 .. m : w[<<a, b>>] = FirstIn(Ahead(a, b, p))
    OBVIOUS
  <2>2. \A a, b : <<a, b>> \in D => w[<<a, b>>] = FirstIn(Ahead(a, b, p))
    OBVIOUS
  <2> HIDE DEF w, D
  <2>3. /\ i < size /\ j < m => /\ w[<<i + 1, j + 1>>] = FirstIn(Ahead(i + 1, j + 1, p))
                                /\ w[<<i + 1, 0>>] = FirstIn(Ahead(i + 1, 0, p))
        /\ 0 < j /\ j < m => w[<<i, Border(p, j)>>] = FirstIn(Ahead(i, Border(p, j), p))
    BY <1>2, <2>2
  <2>4. i \in 0 .. size
    BY <1>2
  <2>5. RunLook(w, i, j, p, lps) = FirstIn(Ahead(i, j, p))
    BY <1>0, <1>1, <2>3, <2>4, RunLookFinds
  <2> QED BY <2>1, <2>5
<1>4. w = [at \in D |-> RunLook(w, at[1], at[2], p, lps)]
  <2>1. w = [at \in D |-> w[at]]
    OBVIOUS
  <2> HIDE DEF w
  <2> QED BY <1>3, <2>1, Zenon
<1>5. PICK r : /\ r = [at \in D |-> RunLook(r, at[1], at[2], p, lps)]
               /\ kmpScan(pos, p) = IF pos >= size THEN -1 ELSE r[<<pos, 0>>]
  <2> HIDE DEF w
  <2> DEFINE run[at \in (pos .. size) \X (0 .. Len(p))] ==
                LET i == at[1]
                    j == at[2]
                IN  IF j = Len(p) THEN i - j
                    ELSE IF i >= size THEN -1
                    ELSE IF ByteAt(i) = p[j + 1] THEN run[<<i + 1, j + 1>>]
                    ELSE IF j # 0 THEN run[<<i, computeKMPTable(p)[j]>>]
                    ELSE run[<<i + 1, 0>>]
  <2>1. kmpScan(pos, p) = IF pos >= size THEN -1 ELSE run[<<pos, 0>>]
    BY Zenon DEF kmpScan
  <2>2. run = [at \in D |-> RunLook(run, at[1], at[2], p, lps)]
    BY <1>4, Zenon DEF RunLook, lps
  <2> HIDE DEF run
  <2> QED BY <2>1, <2>2, Zenon
<1> HIDE DEF w
<1>6. \A i \in pos .. size, j \in 0 .. m : r[<<i, j>>] = RunLook(r, i, j, p, lps)
  BY <1>5
<1> DEFINE Bad(i, j) == r[<<i, j>>] # FirstIn(Ahead(i, j, p))
           rows == {i \in pos .. size : \E j \in 0 .. m : Bad(i, j)}
<1>7. \A i \in pos .. size, j \in 0 .. m : ~Bad(i, j)
  <2>1. SUFFICES ASSUME rows # {} PROVE FALSE
    BY <2>1
  <2> DEFINE i0 == Greatest(rows)
             row == {j \in 0 .. m : Bad(i0, j)}
             j0 == Least(row)
  <2>2. i0 \in rows /\ \A i \in rows : i <= i0
    <3>1. rows \in SUBSET (0 .. size) /\ size \in Nat
      BY <1>0
    <3> HIDE DEF rows
    <3> QED BY <2>1, <3>1, GreatestIs
  <2> HIDE DEF i0
  <2>3. j0 \in row /\ \A j \in row : j0 <= j
    <3>1. row # {} /\ row \in SUBSET Nat
      <4> HIDE DEF Bad
      <4>1. \E j \in 0 .. m : Bad(i0, j)
        BY <2>2
      <4>2. row # {}
        BY <4>1
      <4>3. row \in SUBSET Nat
        BY <1>0
      <4> QED BY <4>2, <4>3
    <3> HIDE DEF row
    <3> QED BY <3>1, LeastProperty
  <2> HIDE DEF j0
  <2>4. i0 \in pos .. size /\ j0 \in 0 .. m /\ Bad(i0, j0)
    BY <2>2, <2>3
  <2>5. \A i \in pos .. size, j \in 0 .. m : Bad(i, j) => i <= i0
    BY <2>2
  <2>6. \A j \in 0 .. m : Bad(i0, j) => j0 <= j
    BY <2>3
  <2> HIDE DEF rows, row
  <2>7. i0 < size /\ j0 < m => ~Bad(i0 + 1, j0 + 1) /\ ~Bad(i0 + 1, 0)
    <3> SUFFICES ASSUME i0 < size, j0 < m PROVE ~Bad(i0 + 1, j0 + 1) /\ ~Bad(i0 + 1, 0)
      OBVIOUS
    <3>1. i0 + 1 \in pos .. size /\ j0 + 1 \in 0 .. m /\ 0 \in 0 .. m /\ ~(i0 + 1 <= i0)
      BY <1>0, <2>4
    <3> HIDE DEF Bad
    <3> QED BY <2>5, <3>1
  <2>8. 0 < j0 /\ j0 < m => ~Bad(i0, Border(p, j0))
    <3> SUFFICES ASSUME 0 < j0, j0 < m PROVE ~Bad(i0, Border(p, j0))
      OBVIOUS
    <3>1. j0 \in Nat \ {0}
      BY <1>0, <2>4
    <3>2. Border(p, j0) \in 0 .. j0 - 1
      BY <3>1, BorderIs
    <3>3. Border(p, j0) \in 0 .. m /\ ~(j0 <= Border(p, j0))
      BY <1>0, <2>4, <3>2
    <3> HIDE DEF Bad
    <3> QED BY <2>6, <3>3
  <2>9. i0 \in 0 .. size
    BY <1>2, <2>4
  <2>10. RunLook(r, i0, j0, p, lps) = FirstIn(Ahead(i0, j0, p))
    BY <1>0, <1>1, <2>4, <2>7, <2>8, <2>9, RunLookFinds
  <2>11. r[<<i0, j0>>] = RunLook(r, i0, j0, p, lps)
    BY <1>6, <2>4
  <2> QED BY <2>4, <2>10, <2>11
<1>8. CASE pos >= size
  <2>1. Places(p, pos) = {}
    BY <1>0, <1>8 DEF Places
  <2> QED BY <1>5, <1>8, <2>1 DEF FirstIn
<1>9. CASE ~(pos >= size)
  <2>1. r[<<pos, 0>>] = FirstIn(Ahead(pos, 0, p))
    <3>1. pos \in pos .. size /\ 0 \in 0 .. m
      BY <1>0
    <3> QED BY <1>7, <3>1
  <2>2. \A k \in pos - 0 .. size - m : \A q \in 1 .. m : Overlay(pos, 0, p, k + q - 1) = ByteAt(k + q - 1)
    <3>1. \A k \in pos - 0 .. size - m : \A q \in 1 .. m : k + q - 1 >= pos
      BY <1>0
    <3> QED BY <3>1 DEF Overlay
  <2>3. \A k : k \in pos - 0 .. size - m <=> k \in pos .. size - 1 /\ k + m <= size
    BY <1>0
  <2>4. Ahead(pos, 0, p) = Places(p, pos)
    BY <2>2, <2>3 DEF Ahead, Places, FitsAt
  <2> QED BY <1>5, <1>9, <2>1, <2>4
<1> QED BY <1>8, <1>9

-----------------------------------------------------------------------------
(* shortPatternScanLinear *)

(* One look of the loop of shortPatternScanLinear. *)
ShortLook(f, i, last, p) ==
    LET hit == memchr(i, last + 1, p[1]) IN
    IF hit = -1 THEN -1
    ELSE IF \A k \in 1 .. Len(p) : ByteAt(hit + k - 1) = p[k] THEN hit
    ELSE f[hit + 1]

(* One look finds what the looks after it do. *)
LEMMA ShortLookFinds ==
    ASSUME size \in Nat, NEW p, Len(p) \in Nat \ {0}, Len(p) <= size,
           NEW last, last = size - Len(p), NEW i \in 0 .. last + 1, NEW f,
           \A h \in i + 1 .. last + 1 : f[h] = FirstIn(Places(p, h))
    PROVE  ShortLook(f, i, last, p) = FirstIn(Places(p, i))
<1> DEFINE m == Len(p)
           H == {x \in i .. (last + 1) - 1 : ByteAt(x) = p[1]}
           hit == FirstIn(H)
<1>1. m \in Nat \ {0} /\ size \in Nat /\ m <= size /\ last \in Nat /\ last = size - m /\ i \in Nat
  OBVIOUS
<1>2. hit = memchr(i, last + 1, p[1])
  BY DEF memchr
<1>3. /\ H = {} => hit = -1
      /\ H # {} => hit \in H /\ \A x \in H : hit <= x
  <2>1. H \in SUBSET Nat
    BY <1>1
  <2> HIDE DEF H
  <2> QED BY <2>1, FirstInIs
<1>4. ASSUME NEW x \in Places(p, i) PROVE x \in H
  <2>1. x \in i .. size - 1 /\ x + m <= size /\ \A k \in 1 .. m : ByteAt(x + k - 1) = p[k]
    BY DEF Places, FitsAt
  <2>2. 1 \in 1 .. m /\ x + 1 - 1 = x /\ x \in i .. (last + 1) - 1
    BY <1>1, <2>1
  <2>3. ByteAt(x) = p[1]
    BY <2>1, <2>2
  <2> QED BY <2>2, <2>3
<1>5. \A x \in H : x \in Nat /\ x \in i .. size - 1 /\ x + m <= size /\ x + 1 \in i + 1 .. last + 1
  BY <1>1
<1> HIDE DEF H, hit
<1>6. CASE H = {}
  <2>1. Places(p, i) = {}
    BY <1>4, <1>6
  <2> QED BY <1>2, <1>3, <1>6, <2>1 DEF ShortLook, FirstIn
<1>7. CASE H # {}
  <2>1. hit \in H /\ hit # -1 /\ (\A x \in H : hit <= x) /\ hit \in Nat
    BY <1>3, <1>5, <1>7
  <2>2. CASE \A k \in 1 .. m : ByteAt(hit + k - 1) = p[k]
    <3>1. hit \in Places(p, i)
      BY <1>5, <2>1, <2>2 DEF Places, FitsAt
    <3>2. Places(p, i) \in SUBSET Int /\ \A x \in Places(p, i) : hit <= x
      <4>1. \A x \in Places(p, i) : x \in Int
        BY <1>4, <1>5
      <4>2. \A x \in Places(p, i) : hit <= x
        BY <1>4, <2>1
      <4> QED BY <4>1, <4>2
    <3>3. FirstIn(Places(p, i)) = hit
      BY <3>1, <3>2, FirstInUnique
    <3> QED BY <1>2, <2>1, <2>2, <3>3 DEF ShortLook
  <2>3. CASE ~(\A k \in 1 .. m : ByteAt(hit + k - 1) = p[k])
    <3>1. hit \notin Places(p, i)
      BY <2>3 DEF Places, FitsAt
    <3>2. \A x \in Places(p, i) : x \in hit + 1 .. size - 1
      <4> SUFFICES ASSUME NEW x \in Places(p, i) PROVE x \in hit + 1 .. size - 1
        OBVIOUS
      <4>1. x \in H /\ x # hit
        BY <1>4, <3>1
      <4>2. hit <= x /\ x \in i .. size - 1
        BY <1>5, <2>1, <4>1
      <4> QED BY <1>1, <2>1, <4>1, <4>2
    <3>3. \A x \in hit + 1 .. size - 1 : x \in i .. size - 1
      <4>1. i <= hit
        BY <1>1, <1>5, <2>1
      <4> QED BY <1>1, <2>1, <4>1
    <3>4. Places(p, hit + 1) = Places(p, i)
      BY <3>2, <3>3 DEF Places
    <3>5. f[hit + 1] = FirstIn(Places(p, hit + 1))
      BY <1>5, <2>1
    <3> QED BY <1>2, <2>1, <2>3, <3>4, <3>5 DEF ShortLook
  <2> QED BY <2>2, <2>3
<1> QED BY <1>6, <1>7

(* shortPatternScanLinear finds the first place. *)
LEMMA ShortScanFinds ==
    ASSUME size \in Nat, NEW p \in Seq(Byte) \ {<<>>}, Len(p) <= size, NEW pos \in 0 .. size
    PROVE  shortPatternScanLinear(pos, p) = FirstIn(Places(p, pos))
<1> DEFINE last == size - Len(p)
           D    == pos .. last + 1
           w    == [i \in D |-> FirstIn(Places(p, i))]
<1>1. Len(p) \in Nat \ {0} /\ Len(p) <= size /\ last \in Nat /\ pos \in Nat
  BY LenProperties
<1>2. \A i \in D : i \in 0 .. last + 1 /\ \A h \in i + 1 .. last + 1 : h \in D
  BY <1>1
<1>3. \A i \in D : w[i] = ShortLook(w, i, last, p)
  <2> SUFFICES ASSUME NEW i \in D PROVE w[i] = ShortLook(w, i, last, p)
    OBVIOUS
  <2>1. \A h \in D : w[h] = FirstIn(Places(p, h))
    OBVIOUS
  <2>2. i \in 0 .. last + 1 /\ \A h \in i + 1 .. last + 1 : w[h] = FirstIn(Places(p, h))
    BY <1>2, <2>1
  <2> HIDE DEF w, D
  <2>3. last = size - Len(p)
    OBVIOUS
  <2> HIDE DEF last
  <2> QED BY <1>1, <2>1, <2>2, <2>3, ShortLookFinds
<1>4. w = [i \in D |-> ShortLook(w, i, last, p)]
  <2>1. w = [i \in D |-> w[i]]
    OBVIOUS
  <2> HIDE DEF w
  <2> QED BY <1>3, <2>1, Zenon
<1>5. PICK f : /\ f = [i \in D |-> ShortLook(f, i, last, p)]
               /\ shortPatternScanLinear(pos, p) = IF pos > last THEN -1 ELSE f[pos]
  <2> HIDE DEF w
  <2> DEFINE scan[i \in pos .. last + 1] ==
                LET hit == memchr(i, last + 1, p[1]) IN
                IF hit = -1 THEN -1
                ELSE IF \A k \in 1 .. Len(p) : ByteAt(hit + k - 1) = p[k] THEN hit
                ELSE scan[hit + 1]
  <2>1. shortPatternScanLinear(pos, p) = IF pos > last THEN -1 ELSE scan[pos]
    BY Zenon DEF shortPatternScanLinear
  <2>2. scan = [i \in D |-> ShortLook(scan, i, last, p)]
    BY <1>4, Zenon DEF ShortLook
  <2> HIDE DEF scan
  <2> QED BY <2>1, <2>2, Zenon
<1> HIDE DEF w
<1>6. \A i \in D : f[i] = ShortLook(f, i, last, p)
  BY <1>5, Zenon
<1>7. \A i \in D : f[i] = FirstIn(Places(p, i))
  <2> DEFINE bad == {i \in D : f[i] # FirstIn(Places(p, i))}
             i0  == Greatest(bad)
  <2>1. SUFFICES ASSUME bad # {} PROVE FALSE
    BY <2>1
  <2>2. i0 \in bad /\ \A i \in bad : i <= i0
    <3>1. bad \in SUBSET (0 .. last + 1) /\ last + 1 \in Nat
      BY <1>1, <1>2
    <3> HIDE DEF bad
    <3> QED BY <2>1, <3>1, GreatestIs
  <2> HIDE DEF i0
  <2>3. i0 \in D /\ f[i0] # FirstIn(Places(p, i0))
    BY <2>2
  <2>4. \A h \in i0 + 1 .. last + 1 : f[h] = FirstIn(Places(p, h))
    <3> SUFFICES ASSUME NEW h \in i0 + 1 .. last + 1 PROVE h \in D /\ h \notin bad
      OBVIOUS
    <3>1. h \in D /\ i0 \in Int /\ ~(h <= i0)
      BY <1>1, <1>2, <2>3
    <3> HIDE DEF bad
    <3> QED BY <2>2, <3>1
  <2>5. i0 \in 0 .. last + 1 /\ last = size - Len(p)
    BY <1>2, <2>3
  <2> HIDE DEF bad, D, last
  <2>6. ShortLook(f, i0, last, p) = FirstIn(Places(p, i0))
    BY <1>1, <2>4, <2>5, ShortLookFinds
  <2> QED BY <1>6, <2>3, <2>6
<1>8. CASE pos > last
  <2>1. Places(p, pos) = {}
    BY <1>1, <1>8 DEF Places, FitsAt
  <2> QED BY <1>5, <1>8, <2>1 DEF FirstIn
<1>9. CASE ~(pos > last)
  <2>1. pos \in D
    BY <1>1, <1>9
  <2> QED BY <1>5, <1>7, <1>9, <2>1
<1> QED BY <1>8, <1>9

-----------------------------------------------------------------------------
(* The searches *)

(* The places of a single byte. *)
LEMMA PlacesOfByte ==
    ASSUME size \in Nat, NEW p, Len(p) = 1, NEW pos \in Nat
    PROVE  Places(p, pos) = {i \in pos .. size - 1 : ByteAt(i) = p[1]}
<1>1. \A i \in pos .. size - 1 : FitsAt(p, i) <=> ByteAt(i) = p[1]
  <2> SUFFICES ASSUME NEW i \in pos .. size - 1 PROVE FitsAt(p, i) <=> ByteAt(i) = p[1]
    OBVIOUS
  <2>1. i + Len(p) <= size /\ i + 1 - 1 = i /\ 1 .. Len(p) = {1}
    OBVIOUS
  <2> QED BY <2>1 DEF FitsAt
<1> QED BY <1>1 DEF Places

(* byteScanWrap finds the first place, before the end of the storage or after it. *)
LEMMA ByteScanFinds ==
    ASSUME RingInv, NEW p, Len(p) = 1, NEW pos \in 0 .. size
    PROVE  /\ byteScanLinear(pos, p[1]) = FirstIn(Places(p, pos))
           /\ ~Linear => byteScanWrap(pos, p[1]) = FirstIn(Places(p, pos))
<1> DEFINE firstLen == capacity - head
           start2   == IF pos > firstLen THEN pos ELSE firstLen
           A == {i \in pos .. firstLen - 1 : ByteAt(i) = p[1]}
           B == {i \in start2 .. size - 1 : ByteAt(i) = p[1]}
<1>1. /\ size \in Nat /\ pos \in Nat /\ pos <= size /\ firstLen \in Nat
      /\ size <= capacity - 1 /\ head \in Nat /\ capacity \in Nat
  BY SizeFacts DEF RingInv
<1>2. Places(p, pos) = {i \in pos .. size - 1 : ByteAt(i) = p[1]}
  BY <1>1, PlacesOfByte
<1>3. byteScanLinear(pos, p[1]) = FirstIn(Places(p, pos))
  BY <1>2 DEF byteScanLinear, memchr
<1>4. ASSUME ~Linear PROVE byteScanWrap(pos, p[1]) = FirstIn(Places(p, pos))
  <2>1. firstLen <= size
    BY <1>1, <1>4 DEF Linear
  <2>2. byteScanWrap(pos, p[1]) = IF FirstIn(A) # -1 THEN FirstIn(A) ELSE FirstIn(B)
    BY DEF byteScanWrap, memchr
  <2>3. \A i : i \in pos .. size - 1 <=> i \in pos .. firstLen - 1 \/ i \in start2 .. size - 1
    BY <1>1, <2>1
  <2>4. Places(p, pos) = A \cup B
    BY <1>2, <2>3
  <2>5. A \in SUBSET Nat /\ B \in SUBSET Nat /\ \A a \in A, b \in B : a <= b
    BY <1>1
  <2> HIDE DEF A, B
  <2>6. FirstIn(A \cup B) = IF A # {} THEN FirstIn(A) ELSE FirstIn(B)
    BY <2>5, FirstInSplit
  <2>7. /\ A = {} => FirstIn(A) = -1
        /\ A # {} => FirstIn(A) \in Nat
    BY <2>5, FirstInIs
  <2>8. A # {} <=> FirstIn(A) # -1
    BY <2>7
  <2> QED BY <2>2, <2>4, <2>6, <2>8
<1> QED BY <1>3, <1>4

(* Whatever scan is chosen. *)
LEMMA FindPatternFinds ==
    ASSUME RingInv, NEW p \in Seq(Byte) \ {<<>>}, NEW pos \in 0 .. size
    PROVE  findPatternKMP(p, pos) = FirstIn({i \in pos .. size - 1 : Matches(p, i)})
<1>1. size \in Nat /\ pos \in Nat /\ Len(p) \in Nat \ {0}
  BY SizeFacts, LenProperties DEF RingInv
<1>2. Places(p, pos) = {i \in pos .. size - 1 : Matches(p, i)}
  <2>1. \A i \in pos .. size - 1 : i \in Nat
    BY <1>1
  <2>2. \A i \in pos .. size - 1 : Matches(p, i) <=> FitsAt(p, i)
    BY <2>1, MatchesIs
  <2> QED BY <2>2 DEF Places
<1>3. findPatternKMP(p, pos) = FirstIn(Places(p, pos))
  <2>1. CASE size < Len(p)
    <3>1. Places(p, pos) = {}
      BY <1>1, <2>1 DEF Places, FitsAt
    <3> QED BY <2>1, <3>1 DEF findPatternKMP, FirstIn
  <2>2. CASE ~(size < Len(p)) /\ Len(p) = 1
    BY <2>2, ByteScanFinds DEF findPatternKMP
  <2>3. CASE ~(size < Len(p)) /\ Len(p) # 1
    <3>1. Len(p) <= size
      BY <1>1, <2>3
    <3>2. shortPatternScanLinear(pos, p) = FirstIn(Places(p, pos))
      BY <1>1, <3>1, ShortScanFinds
    <3>3. kmpScan(pos, p) = FirstIn(Places(p, pos))
      BY <1>1, KmpScanFinds
    <3> QED BY <2>3, <3>2, <3>3 DEF findPatternKMP
  <2> QED BY <2>1, <2>2, <2>3
<1> QED BY <1>2, <1>3

(* Of several finish sequences, the earliest place and the first listed there. *)
LEMMA FindFirstFinds ==
    ASSUME RingInv, NEW list \in Seq(Seq(Byte) \ {<<>>}) \ {<<>>}
    PROVE  LET hits == {i \in 0 .. size - 1 : \E n \in DOMAIN list : Matches(list[n], i)}
               got  == findFirstOfPatterns(list)
           IN  /\ got.pos = FirstIn(hits)
               /\ hits # {} => /\ Matches(list[got.index], got.pos)
                               /\ \A n \in 1 .. got.index - 1 : ~Matches(list[n], got.pos)
<1> DEFINE N       == DOMAIN list
           hits    == {i \in 0 .. size - 1 : \E n \in N : Matches(list[n], i)}
           lens    == {Len(list[n]) : n \in N} \cup {size}
           anchors == {list[n][1] : n \in N}
           visited == {i \in 0 .. scanEnd(list) - 1 : Linear => ByteAt(i) \in anchors}
           seen    == {i \in visited : matchAt(i, list) # 0}
           fits(i) == {n \in N : FitsAt(list[n], i)}
           hit     == FirstIn(hits)
<1>1. size \in Nat
  BY SizeFacts DEF RingInv
<1>2. N = 1 .. Len(list) /\ Len(list) \in Nat /\ \A n \in N : list[n] \in Seq(Byte) \ {<<>>}
  BY LenProperties, ElementOfSeq
<1>3. \A n \in N : Len(list[n]) \in Nat \ {0}
  BY <1>2, LenProperties
<1>4. \A i \in Nat : \A n \in N : Matches(list[n], i) <=> FitsAt(list[n], i)
  BY <1>2, MatchesIs
<1> HIDE DEF N
<1>5. \A i : matchAt(i, list) = IF fits(i) = {} THEN 0 ELSE FirstIn(fits(i))
  BY DEF matchAt, FitsAt, N
<1>6. \A i : fits(i) \in SUBSET Nat /\ \A n \in fits(i) : n \in N /\ n # 0
  BY <1>2
<1>7. ASSUME NEW i, fits(i) # {}
      PROVE  matchAt(i, list) \in fits(i) /\ \A n \in fits(i) : matchAt(i, list) <= n
  <2>1. fits(i) \in SUBSET Nat
    BY <1>6
  <2> DEFINE F == fits(i)
  <2> HIDE DEF F
  <2>2. F # {} /\ F \in SUBSET Nat
    BY <1>7, <2>1 DEF F
  <2>3. FirstIn(F) \in F /\ \A n \in F : FirstIn(F) <= n
    BY <2>2, FirstInIs
  <2>4. matchAt(i, list) = FirstIn(F)
    BY <1>5, <1>7 DEF F
  <2> QED BY <2>3, <2>4 DEF F
<1>8. \A i : matchAt(i, list) # 0 <=> fits(i) # {}
  BY <1>5, <1>6, <1>7
<1>9. \A i \in Nat : fits(i) # {} <=> \E n \in N : Matches(list[n], i)
  BY <1>4
<1>10. /\ scanEnd(list) \in Int /\ scanEnd(list) <= size + 1
       /\ \A n \in N : scanEnd(list) > size - Len(list[n])
       /\ (scanEnd(list) = size + 1 => size = 0)
  <2> DEFINE a == Least(lens)
  <2>1. scanEnd(list) = size - a + 1
    BY DEF scanEnd, Least, N
  <2>2. lens \in SUBSET Nat /\ lens # {}
    BY <1>1, <1>3
  <2> HIDE DEF lens
  <2>3. a \in lens /\ \A b \in lens : a <= b
    BY <2>2, LeastProperty
  <2> HIDE DEF a
  <2>4. a \in Nat /\ (\A n \in N : a <= Len(list[n])) /\ (a = 0 => size = 0)
    BY <1>3, <2>2, <2>3 DEF lens
  <2> QED BY <1>1, <1>3, <2>1, <2>4
<1>11. CASE size = 0
  <2>1. hits = {}
    BY <1>11
  <2> QED BY <1>11, <2>1 DEF findFirstOfPatterns, FirstIn, N
<1>12. CASE size # 0
  <2>1. ASSUME NEW i \in hits PROVE i \in seen
    <3>1. i \in 0 .. size - 1 /\ i \in Nat
      BY <1>1
    <3>2. PICK n \in N : Matches(list[n], i)
      OBVIOUS
    <3>3. FitsAt(list[n], i)
      BY <1>4, <3>1, <3>2
    <3>4. i + Len(list[n]) <= size /\ ByteAt(i + 1 - 1) = list[n][1]
      BY <1>3, <3>3 DEF FitsAt
    <3>5. i + 1 - 1 = i /\ i \in 0 .. scanEnd(list) - 1
      <4> DEFINE l == Len(list[n])
                 e == scanEnd(list)
      <4>1. l \in Nat /\ e \in Int /\ e > size - l /\ i + l <= size
        BY <1>3, <1>10, <3>4
      <4> HIDE DEF l, e
      <4>2. i \in 0 .. e - 1
        BY <1>1, <3>1, <4>1
      <4> QED BY <3>1, <4>2 DEF e
    <3>6. ByteAt(i) \in anchors
      BY <3>4, <3>5
    <3>7. matchAt(i, list) # 0
      BY <1>8, <3>3
    <3> QED BY <3>5, <3>6, <3>7
  <2>2. ASSUME NEW i \in seen PROVE i \in hits
    <3>1. i \in 0 .. scanEnd(list) - 1 /\ matchAt(i, list) # 0
      OBVIOUS
    <3>2. i \in 0 .. size - 1 /\ i \in Nat
      <4> DEFINE e == scanEnd(list)
      <4>1. e \in Int /\ e <= size + 1 /\ (e = size + 1 => size = 0)
        BY <1>10
      <4>2. i \in 0 .. e - 1
        BY <3>1
      <4> HIDE DEF e
      <4> QED BY <1>1, <1>12, <4>1, <4>2
    <3>3. fits(i) # {}
      BY <1>8, <3>1
    <3> QED BY <1>9, <3>2, <3>3
  <2>3. seen = hits
    BY <2>1, <2>2
  <2>4. /\ hits = {} => hit = -1
        /\ hits # {} => hit \in hits
    <3>1. hits \in SUBSET Nat
      BY <1>1
    <3> HIDE DEF hits
    <3> QED BY <3>1, FirstInIs
  <2>5. findFirstOfPatterns(list) =
           IF size = 0 \/ FirstIn(seen) = -1 THEN [pos |-> -1, index |-> 0]
           ELSE [pos |-> FirstIn(seen), index |-> matchAt(FirstIn(seen), list)]
    BY DEF findFirstOfPatterns, N
  <2> HIDE DEF hit, seen
  <2>6. CASE hits = {}
    <3>1. findFirstOfPatterns(list) = [pos |-> -1, index |-> 0] /\ FirstIn(hits) = -1
      BY <2>3, <2>4, <2>5, <2>6 DEF hit
    <3> QED BY <2>6, <3>1 DEF N
  <2>7. CASE hits # {}
    <3>1. hit \in 0 .. size - 1 /\ hit \in Nat /\ hit # -1 /\ \E n \in N : Matches(list[n], hit)
      BY <1>1, <2>4, <2>7
    <3> DEFINE index == matchAt(hit, list)
    <3>2. findFirstOfPatterns(list) = [pos |-> hit, index |-> index]
      BY <1>12, <2>3, <2>5, <3>1 DEF hit
    <3>3. fits(hit) # {}
      BY <1>9, <3>1
    <3>4. index \in fits(hit) /\ \A n \in fits(hit) : index <= n
      BY <1>7, <3>3
    <3>5. Matches(list[index], hit)
      BY <1>4, <3>1, <3>4
    <3>6. ASSUME NEW n \in 1 .. index - 1 PROVE ~Matches(list[n], hit)
      <4>1. index \in 1 .. Len(list)
        BY <1>2, <3>4
      <4>2. n \in N /\ ~(index <= n)
        BY <1>2, <4>1
      <4>3. n \notin fits(hit)
        BY <3>4, <4>2
      <4> QED BY <1>4, <3>1, <4>2, <4>3
    <3> HIDE DEF index
    <3>7. /\ findFirstOfPatterns(list).pos = hit /\ findFirstOfPatterns(list).index = index
      BY <3>2
    <3> QED BY <3>5, <3>6, <3>7 DEF hit, N
  <2> QED BY <2>6, <2>7
<1> QED BY <1>11, <1>12

(* The header and body rules, over both segments of the storage. *)
LEMMA ScanMaskedFinds ==
    ASSUME RingInv, NEW rule, NEW wanted \in BOOLEAN, NEW from \in 0 .. size, NEW to \in 0 .. size + 1
    PROVE  scanMasked(rule, wanted, from, to) =
              FirstIn({i \in from .. SmallerOf(to, size) - 1 : (Content[i + 1] \in rule) = wanted})
<1> DEFINE end      == SmallerOf(to, size)
           firstLen == SmallerOf(end, capacity - head)
           seg1 == {i \in from .. firstLen - 1 : (mem[head + i] \in rule) = wanted}
           seg2 == {i \in firstLen .. end - 1 : i >= from /\ (mem[i - firstLen] \in rule) = wanted}
           all  == {i \in from .. end - 1 : (Content[i + 1] \in rule) = wanted}
<1>1. /\ size \in Nat /\ size <= capacity - 1 /\ capacity \in Nat /\ capacity >= 2
      /\ head \in 0 .. capacity - 1 /\ from \in Nat
  BY SizeFacts DEF RingInv
<1>2. /\ end \in Nat /\ end <= size
      /\ firstLen \in Nat /\ firstLen <= end /\ firstLen <= capacity - head
      /\ firstLen < end => firstLen = capacity - head
  BY <1>1 DEF SmallerOf
<1>3. scanMasked(rule, wanted, from, to) = IF seg1 # {} THEN FirstIn(seg1) ELSE FirstIn(seg2)
  BY DEF scanMasked
<1> HIDE DEF end, firstLen
<1>4. \A i \in 0 .. size - 1 : Content[i + 1] = mem[Masked(head + i)]
  BY ByteAtIs DEF ByteAt
<1>5. \A i \in 0 .. size - 1 :
         Masked(head + i) = IF head + i < capacity THEN head + i ELSE head + i - capacity
  <2> SUFFICES ASSUME NEW i \in 0 .. size - 1
               PROVE  Masked(head + i) = IF head + i < capacity THEN head + i ELSE head + i - capacity
    OBVIOUS
  <2>1. head + i \in 0 .. 2 * capacity - 1
    BY <1>1
  <2> QED BY <1>1, <2>1, MaskedIs
<1>6. \A i \in from .. firstLen - 1 : i \in from .. end - 1 /\ Content[i + 1] = mem[head + i]
  <2> SUFFICES ASSUME NEW i \in from .. firstLen - 1
               PROVE  i \in from .. end - 1 /\ Content[i + 1] = mem[head + i]
    OBVIOUS
  <2>1. i \in 0 .. size - 1 /\ head + i < capacity /\ i \in from .. end - 1
    BY <1>1, <1>2
  <2>2. Masked(head + i) = head + i
    BY <1>5, <2>1
  <2> QED BY <1>4, <2>1, <2>2
<1>7. \A i \in firstLen .. end - 1 : Content[i + 1] = mem[i - firstLen]
  <2> SUFFICES ASSUME NEW i \in firstLen .. end - 1 PROVE Content[i + 1] = mem[i - firstLen]
    OBVIOUS
  <2>1. i \in 0 .. size - 1 /\ ~(head + i < capacity) /\ head + i - capacity = i - firstLen
    BY <1>1, <1>2
  <2>2. Masked(head + i) = i - firstLen
    BY <1>5, <2>1
  <2> QED BY <1>4, <2>1, <2>2
<1>8. \A i : i \in from .. end - 1 <=> i \in from .. firstLen - 1 \/ (i \in firstLen .. end - 1 /\ i >= from)
  BY <1>1, <1>2
<1>9. all = seg1 \cup seg2
  <2>1. ASSUME NEW i \in all PROVE i \in seg1 \cup seg2
    <3>1. i \in from .. end - 1 /\ (Content[i + 1] \in rule) = wanted
      OBVIOUS
    <3> QED BY <1>6, <1>7, <1>8, <3>1
  <2>2. ASSUME NEW i \in seg1 PROVE i \in all
    BY <1>6, <1>8
  <2>3. ASSUME NEW i \in seg2 PROVE i \in all
    BY <1>7, <1>8
  <2> HIDE DEF all, seg1, seg2
  <2> QED BY <2>1, <2>2, <2>3
<1>10. seg1 \in SUBSET Nat /\ seg2 \in SUBSET Nat /\ \A a \in seg1, b \in seg2 : a <= b
  BY <1>1, <1>2
<1> HIDE DEF seg1, seg2, all
<1>11. FirstIn(seg1 \cup seg2) = IF seg1 # {} THEN FirstIn(seg1) ELSE FirstIn(seg2)
  BY <1>10, FirstInSplit
<1> QED BY <1>3, <1>9, <1>11 DEF all, end

(* All searches of a ring agree with the definition of a match. *)
LEMMA SearchesFind == RingInv => SearchesAgree
<1> SUFFICES ASSUME RingInv PROVE SearchesAgree
  OBVIOUS
<1>1. \A p \in Patterns, pos \in 0 .. size :
         findPatternKMP(p, pos) = FirstIn({i \in pos .. size - 1 : Matches(p, i)})
  BY FindPatternFinds, PatternsAssumption
<1>2. \A list \in PatternLists :
         LET hits == {i \in 0 .. size - 1 : \E n \in DOMAIN list : Matches(list[n], i)}
             got  == findFirstOfPatterns(list)
         IN  /\ got.pos = FirstIn(hits)
             /\ hits # {} => /\ Matches(list[got.index], got.pos)
                             /\ \A n \in 1 .. got.index - 1 : ~Matches(list[n], got.pos)
  BY FindFirstFinds, PatternsAssumption, Zenon
<1>3. \A rule \in Rules, wanted \in BOOLEAN, from \in 0 .. size, to \in 0 .. size + 1 :
         scanMasked(rule, wanted, from, to) =
             FirstIn({i \in from .. SmallerOf(to, size) - 1 : (Content[i + 1] \in rule) = wanted})
  BY ScanMaskedFinds
<1> QED BY <1>1, <1>2, <1>3, Zenon DEF SearchesAgree

(* For every ring, content, pattern and rule, whichever scan is chosen: a search
   finds the first match and nothing else, across the wrap and over any borders. *)
THEOREM SearchesAreCorrect == Spec => []SearchesAgree
BY RingInvariance, SearchesFind, PTL
=============================================================================
