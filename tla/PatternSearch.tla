---------------------------- MODULE PatternSearch ----------------------------
(***************************************************************************)
(* The searches of core/Core/CircularBuffer.h over the ring: one of five   *)
(* scans is chosen by the length of the pattern and by whether the bytes   *)
(* are contiguous.  Each loop is a recursive function of its indices, and  *)
(* SearchesAgree compares what it returns with the definition of a match.  *)
(* Offsets count from 0; -1 means not found.                               *)
(***************************************************************************)
EXTENDS CircularBuffer

CONSTANTS
    Patterns,           \* patterns searched for, non-empty
    PatternLists,       \* sequences of patterns for findFirstOfPatterns
    kShortPatternMax,   \* 8: longest pattern of the anchored scan
    Rules               \* sets of bytes accepted by a mask and value

ASSUME PatternsAssumption ==
    /\ Patterns \subseteq Seq(Byte) \ {<<>>}
    /\ PatternLists \subseteq Seq(Seq(Byte) \ {<<>>}) \ {<<>>}
    /\ kShortPatternMax \in Nat

(* Byte at logical offset i: through base[] or through the masked index. *)
ByteAt(i) == mem[Masked(head + i)]

Linear == head + size <= capacity

FirstIn(S) == IF S = {} THEN -1 ELSE CHOOSE i \in S : \A j \in S : i <= j

(* memchr over the logical range from .. to - 1. *)
memchr(from, to, b) == FirstIn({i \in from .. to - 1 : ByteAt(i) = b})

byteScanLinear(pos, b) == memchr(pos, size, b)

byteScanWrap(pos, b) ==
    LET firstLen == capacity - head
        hit      == memchr(pos, firstLen, b)
        start2   == IF pos > firstLen THEN pos ELSE firstLen
    IN  IF hit # -1 THEN hit ELSE memchr(start2, size, b)

(* First-byte hits, each verified by memcmp, up to the last place that fits. *)
shortPatternScanLinear(pos, p) ==
    LET last == size - Len(p)
        scan[i \in pos .. last + 1] ==
            LET hit == memchr(i, last + 1, p[1]) IN
            IF hit = -1 THEN -1
            ELSE IF \A k \in 1 .. Len(p) : ByteAt(hit + k - 1) = p[k] THEN hit
            ELSE scan[hit + 1]
    IN  IF pos > last THEN -1 ELSE scan[pos]

(* computeKMPTable: lps[i] for the first i bytes; fall follows the borders. *)
computeKMPTable(p) ==
    LET lps[i \in 1 .. Len(p)] ==
            LET fall[len \in 0 .. i - 1] ==
                    IF p[i] = p[len + 1] THEN len + 1
                    ELSE IF len # 0 THEN fall[lps[len]] ELSE 0
            IN  IF i = 1 THEN 0 ELSE fall[lps[i - 1]]
    IN  lps

(* Mutant: a mismatch gives up everything matched so far. *)
KmpForgetsBorder(pos, p) ==
    LET run[at \in (pos .. size) \X (0 .. Len(p))] ==
            LET i == at[1]
                j == at[2]
            IN  IF j = Len(p) THEN i - j
                ELSE IF i >= size THEN -1
                ELSE IF ByteAt(i) = p[j + 1] THEN run[<<i + 1, j + 1>>]
                ELSE IF j # 0 THEN run[<<i, 0>>]
                ELSE run[<<i + 1, 0>>]
    IN  IF pos >= size THEN -1 ELSE run[<<pos, 0>>]

(* kmpScanLinear and kmpScanWrap: i bytes read, j of them matched. *)
kmpScan(pos, p) ==
    LET lps == computeKMPTable(p)
        run[at \in (pos .. size) \X (0 .. Len(p))] ==
            LET i == at[1]
                j == at[2]
            IN  IF j = Len(p) THEN i - j
                ELSE IF i >= size THEN -1
                ELSE IF ByteAt(i) = p[j + 1] THEN run[<<i + 1, j + 1>>]
                ELSE IF j # 0 THEN run[<<i, lps[j]>>]
                ELSE run[<<i + 1, 0>>]
    IN  IF pos >= size THEN -1 ELSE run[<<pos, 0>>]

findPatternKMP(p, pos) ==
    IF size < Len(p) THEN -1
    ELSE IF Len(p) = 1 THEN IF Linear THEN byteScanLinear(pos, p[1]) ELSE byteScanWrap(pos, p[1])
    ELSE IF Linear /\ Len(p) <= kShortPatternMax THEN shortPatternScanLinear(pos, p)
    ELSE kmpScan(pos, p)

(* matchAt: the first listed pattern that matches at offset i, 0 for none. *)
matchAt(i, list) ==
    LET fits == {n \in DOMAIN list : /\ i + Len(list[n]) <= size
                                     /\ \A k \in 1 .. Len(list[n]) : ByteAt(i + k - 1) = list[n][k]}
    IN  IF fits = {} THEN 0 ELSE FirstIn(fits)

(* Offsets below this one can start the shortest pattern. *)
scanEnd(list) ==
    LET lens == {Len(list[n]) : n \in DOMAIN list} \union {size}
    IN  size - (CHOOSE a \in lens : \A b \in lens : a <= b) + 1

(* findFirstOfPatterns: contiguous bytes are visited at the anchors only. *)
findFirstOfPatterns(list) ==
    LET anchors == {list[n][1] : n \in DOMAIN list}
        visited == {i \in 0 .. scanEnd(list) - 1 : Linear => ByteAt(i) \in anchors}
        hit     == FirstIn({i \in visited : matchAt(i, list) # 0})
    IN  IF size = 0 \/ hit = -1 THEN [pos |-> -1, index |-> 0]
        ELSE [pos |-> hit, index |-> matchAt(hit, list)]

(* scanMasked: first offset whose byte is in (or, for a mismatch, not in) rule. *)
scanMasked(rule, wanted, from, to) ==
    LET end      == SmallerOf(to, size)
        firstLen == SmallerOf(end, capacity - head)
        seg1     == {i \in from .. firstLen - 1 : (mem[head + i] \in rule) = wanted}
        seg2     == {i \in firstLen .. end - 1 : i >= from /\ (mem[i - firstLen] \in rule) = wanted}
    IN  IF seg1 # {} THEN FirstIn(seg1) ELSE FirstIn(seg2)

-----------------------------------------------------------------------------
(* Properties. *)

Matches(p, i) == i + Len(p) <= size /\ SubSeq(Content, i + 1, i + Len(p)) = p

(* Whatever the layout of the ring and the scan chosen for it, a search returns
   the first match at or after pos, and -1 only when there is none: no skipped
   border, wrap point or last position.  Of several finish sequences the
   earliest match wins, and among those that start there the first listed; the
   header and body rules see the bytes in logical order. *)
SearchesAgree ==
    /\ \A p \in Patterns, pos \in 0 .. size :
          findPatternKMP(p, pos) = FirstIn({i \in pos .. size - 1 : Matches(p, i)})
    /\ \A list \in PatternLists :
          LET hits == {i \in 0 .. size - 1 : \E n \in DOMAIN list : Matches(list[n], i)}
              got  == findFirstOfPatterns(list)
          IN  /\ got.pos = FirstIn(hits)
              /\ hits # {} => /\ Matches(list[got.index], got.pos)
                              /\ \A n \in 1 .. got.index - 1 : ~Matches(list[n], got.pos)
    /\ \A rule \in Rules, wanted \in BOOLEAN, from \in 0 .. size, to \in 0 .. size + 1 :
          scanMasked(rule, wanted, from, to) =
              FirstIn({i \in from .. SmallerOf(to, size) - 1 : (Content[i + 1] \in rule) = wanted})
=============================================================================
