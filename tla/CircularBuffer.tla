---------------------------- MODULE CircularBuffer ----------------------------
(***************************************************************************)
(* The ring of core/Core/CircularBuffer.h: storage, head, tail and the     *)
(* overflow counter, one action per operation that changes them.  Every    *)
(* user calls it from one thread, so an operation is one step.             *)
(***************************************************************************)
EXTENDS Integers, Sequences

CONSTANTS
    Byte,           \* bytes; 0 among them
    Sizes,          \* capacities asked of the constructor and of setCapacity
    Chunks,         \* byte sequences given to append
    MaxRequest,     \* bound: largest count asked of read and discard
    MaxOverflow     \* bound: overflow count above which nothing is appended

ASSUME ByteAssumption   == 0 \in Byte
ASSUME SizesAssumption  == Sizes \subseteq Nat
ASSUME ChunksAssumption == Chunks \subseteq Seq(Byte)
ASSUME RingBounds       == MaxRequest \in Nat /\ MaxOverflow \in Nat

VARIABLES
    capacity,       \* m_capacity
    head,           \* m_head
    tail,           \* m_tail
    mem,            \* m_buffer
    overflow,       \* m_overflowCount
    result          \* bytes that the last call returned, none unless it was a read

ringVars == <<capacity, head, tail, mem, overflow, result>>

SmallerOf(a, b) == IF a <= b THEN a ELSE b

(* The smallest power of two that holds value, at least 2. *)
roundUpToPowerOfTwo(value) ==
    LET power[k \in 0 .. value + 1] == IF k = 0 THEN 1 ELSE 2 * power[k - 1]
        fits == {k \in 1 .. value + 1 : power[k] >= value}
    IN  power[CHOOSE k \in fits : \A j \in fits : k <= j]

(* & m_capacityMask *)
Masked(i) == i % capacity

size == IF tail >= head THEN tail - head ELSE capacity - head + tail

(* The two memcpy of append: up to the end of the storage, then from its start. *)
Stored(data) ==
    LET firstChunk == SmallerOf(Len(data), capacity - tail) IN
    [k \in 0 .. capacity - 1 |->
        IF k \in tail .. tail + firstChunk - 1 THEN data[k - tail + 1]
        ELSE IF k < Len(data) - firstChunk THEN data[firstChunk + k + 1]
        ELSE mem[k]]

(* peekRangeInto: the two memcpy out of the ring, clamped to its size. *)
peekRange(offset, n) ==
    LET count      == SmallerOf(n, size - offset)
        start      == Masked(head + offset)
        firstChunk == SmallerOf(count, capacity - start)
    IN  IF offset >= size \/ n <= 0 THEN <<>>
        ELSE [i \in 1 .. count |-> IF i <= firstChunk THEN mem[start + i - 1]
                                                      ELSE mem[i - firstChunk - 1]]

-----------------------------------------------------------------------------
Init ==
    /\ \E s \in Sizes : capacity = roundUpToPowerOfTwo(s)
    /\ head = 0 /\ tail = 0 /\ overflow = 0
    /\ mem = [k \in 0 .. capacity - 1 |-> 0]
    /\ result = <<>>

(* Mutant: no slot stays free, and an exactly full ring reads back empty. *)
FullCapacity == capacity

(* One slot stays free, so that head = tail always means empty. *)
Usable == capacity - 1

(* A call that returns no bytes *)
Silent == result' = <<>>

append(data) ==
    LET cut       == Len(data) - SmallerOf(Len(data), Usable)
        kept      == SubSeq(data, cut + 1, Len(data))
        free      == Usable - size
        overwrite == Len(kept) - SmallerOf(Len(kept), free)
    IN
    /\ overflow <= MaxOverflow
    /\ data # <<>>
    /\ overflow' = overflow + cut + overwrite
    /\ head' = IF overwrite > 0 THEN Masked(head + overwrite) ELSE head
    /\ mem' = Stored(kept)
    /\ tail' = Masked(tail + Len(kept))
    /\ Silent /\ UNCHANGED capacity

discard(n) ==
    /\ n > 0 /\ size > 0
    /\ head' = Masked(head + SmallerOf(n, size))
    /\ Silent /\ UNCHANGED <<capacity, tail, mem, overflow>>

read(n) ==
    /\ IF n > size THEN result' = <<>> /\ UNCHANGED head
                   ELSE result' = peekRange(0, n) /\ head' = Masked(head + n)
    /\ UNCHANGED <<capacity, tail, mem, overflow>>

clear ==
    /\ head' = 0 /\ tail' = 0 /\ overflow' = 0
    /\ Silent /\ UNCHANGED <<capacity, mem>>

(* setCapacity: clear, then resize; the storage keeps what it still holds. *)
setCapacity(s) ==
    /\ head' = 0 /\ tail' = 0 /\ overflow' = 0
    /\ capacity' = roundUpToPowerOfTwo(s)
    /\ mem' = [k \in 0 .. capacity' - 1 |-> IF k < capacity THEN mem[k] ELSE 0]
    /\ Silent

resetOverflowCount == overflow' = 0 /\ Silent /\ UNCHANGED <<capacity, head, tail, mem>>

Next ==
    \/ \E data \in Chunks : append(data)
    \/ \E n \in 0 .. MaxRequest : discard(n) \/ read(n)
    \/ clear
    \/ \E s \in Sizes : setCapacity(s)
    \/ resetOverflowCount

Spec == Init /\ [][Next]_ringVars

-----------------------------------------------------------------------------
(* Properties. *)

(* The bytes between head and tail, oldest first. *)
Content == [i \in 1 .. size |-> mem[Masked(head + i - 1)]]

Queue == INSTANCE ByteQueue WITH usable <- capacity - 1, content <- Content, lost <- overflow

(* The ring implements the byte queue: wrapped copies, the head moved by an
   overwriting append and the slot that stays free never lose, repeat or
   reorder a byte, and every byte given up is counted. *)
ImplementsByteQueue == Queue!QSpec
=============================================================================
