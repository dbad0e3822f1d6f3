------------------------------ MODULE ByteQueue ------------------------------
(***************************************************************************)
(* What core/Core/CircularBuffer.h promises its single-threaded users: a   *)
(* byte queue that keeps the newest usable bytes, counts the ones it had   *)
(* to give up, and hands bytes out in the order in which they came in.     *)
(***************************************************************************)
EXTENDS Integers, Sequences

CONSTANTS Chunks, MaxRequest

VARIABLES usable, content, lost, result

qvars == <<usable, content, lost, result>>

LessOf(a, b) == IF a <= b THEN a ELSE b

(* The newest n elements of s, all of them when there are fewer. *)
Newest(s, n) == IF Len(s) <= n THEN s ELSE SubSeq(s, Len(s) - n + 1, Len(s))

QInit == content = <<>> /\ lost = 0 /\ result = <<>> /\ usable \in Nat

(* A call that returns no bytes *)
Silent == result' = <<>>

Put(data) ==
    /\ content' = Newest(content \o data, usable)
    /\ lost' = lost + (Len(content \o data) - Len(content'))
    /\ Silent /\ UNCHANGED usable

Remove(n) == content' = SubSeq(content, LessOf(n, Len(content)) + 1, Len(content))

Discard(n) == Remove(n) /\ Silent /\ UNCHANGED <<usable, lost>>

(* A read of more than there is returns nothing and removes nothing. *)
Read(n) ==
    /\ IF n <= Len(content) THEN result' = SubSeq(content, 1, n) /\ Remove(n)
                            ELSE result' = <<>> /\ UNCHANGED content
    /\ UNCHANGED <<usable, lost>>

Clear == content' = <<>> /\ lost' = 0 /\ Silent /\ UNCHANGED usable

Resize == content' = <<>> /\ lost' = 0 /\ usable' \in Nat /\ Silent

ForgetLost == lost' = 0 /\ Silent /\ UNCHANGED <<usable, content>>

QNext ==
    \/ \E data \in Chunks : Put(data)
    \/ \E n \in 0 .. MaxRequest : Discard(n) \/ Read(n)
    \/ Clear \/ Resize \/ ForgetLost

QSpec == QInit /\ [][QNext]_qvars
=============================================================================
