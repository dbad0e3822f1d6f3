--------------------------- MODULE TaskTreeProofs ---------------------------
(***************************************************************************)
(* Theorems about the task engine, for every tree and every attempt limit. *)
(*                                                                         *)
(* The properties hold in the middle of a cascade only because of what the *)
(* calls in progress have still to do, so the invariant is about them:     *)
(*   - CallsOK: what each call on the stack may count on, such as a report *)
(*     that comes when the children of its task are stopped or being swept;*)
(*   - NestingOK: which calls may lie over which, such as over a           *)
(*     cancellation only further cancellations, within its task's subtree; *)
(*   - NodesOK, OwnerOK: tasks and owner stand where these calls leave     *)
(*     them.  A running task waits for a child, a timer or a signal, unless*)
(*     a call that stops it is in progress.                                *)
(* Steps are split in two: those of a cancellation (Unwinding) start       *)
(* nothing and only stop; the others (Growing) start at most one task.     *)
(***************************************************************************)
EXTENDS TaskTree, SequenceTheorems, FiniteSetTheorems, WellFoundedInduction, TLAPS

Ops    == {"start", "startAll", "report", "cancel", "sweep", "cancelled", "run"}
Frames == [op : Ops, at : Nodes, i : Nat \ {0}, outcome : Outcomes \union {"Nothing"}]
Depth  == Len(calls)

Kids(n)     == {m \in Nodes \ {Root} : tree.parent[m] = n}
Below(n)    == n + 1..tree.last[n]
Bound(n, i) == IF i <= childCount(n) THEN childAt(n, i) - 1 ELSE tree.last[n]

TypeOK ==
    /\ tree \in Trees
    /\ running \in [Nodes -> BOOLEAN] /\ done \in [Nodes -> BOOLEAN]
    /\ said \in [Nodes -> Outcomes \union {"Nothing"}]
    /\ cancelling \in [Nodes -> BOOLEAN] /\ index \in [Nodes -> Nat] /\ pending \in [Nodes -> Int]
    /\ expired \in [Nodes -> BOOLEAN] /\ attempt \in [Nodes -> Nat] /\ timer \in [Nodes -> BOOLEAN]
    /\ calls \in Seq(Frames)
    /\ connected \in BOOLEAN /\ heard \in Seq(Outcomes \union {"Nothing"}) /\ tripped \in BOOLEAN /\ runs \in Nat

-----------------------------------------------------------------------------
(* Trees *)

LEMMA TreeTypes ==
    ASSUME TypeOK
    PROVE  /\ tree.last[1] \in Nat \ {0} /\ Root \in Nodes /\ Nodes \subseteq Nat
           /\ tree.kind \in [Nodes -> Kinds] /\ tree.children \in [Nodes -> Seq(Nodes)]
           /\ tree.parent \in [Nodes -> Nodes] /\ tree.last \in [Nodes -> Nodes]
<1>1. IsTree(tree)
  BY TreesAssumption DEF TypeOK
<1>2. tree.last[1] \in Nat \ {0}
  BY <1>1 DEF IsTree
<1>3. /\ tree.kind \in [Nodes -> Kinds] /\ tree.children \in [Nodes -> Seq(Nodes)]
      /\ tree.parent \in [Nodes -> Nodes] /\ tree.last \in [Nodes -> Nodes]
  BY <1>1 DEF IsTree, Nodes
<1>4. Root \in Nodes /\ Nodes \subseteq Nat
  BY <1>2 DEF Nodes, Root
<1>. QED
  BY <1>2, <1>3, <1>4

LEMMA TreeNodes ==
    ASSUME TypeOK, NEW n \in Nodes
    PROVE  /\ n \in Nat \ {0} /\ kind(n) \in Kinds /\ tree.parent[n] \in Nodes /\ tree.last[n] \in Nodes
           /\ tree.last[n] \in Nat /\ n <= tree.last[n] /\ childCount(n) \in Nat
           /\ \A i \in 1..childCount(n) : childAt(n, i) \in Nodes
<1>1. IsTree(tree)
  BY TreesAssumption DEF TypeOK
<1>2. n \in 1..tree.last[1]
  BY DEF Nodes
<1>3. tree.children[n] \in Seq(Nodes)
  BY TreeTypes
<1>4. n <= tree.last[n]
  BY <1>1, <1>2 DEF IsTree
<1>5. childCount(n) \in Nat /\ \A i \in 1..childCount(n) : childAt(n, i) \in Nodes
  BY <1>3 DEF childCount, childAt
<1>6. /\ kind(n) \in Kinds /\ tree.parent[n] \in Nodes /\ tree.last[n] \in Nodes
      /\ n \in Nat \ {0} /\ tree.last[n] \in Nat
  BY <1>2, TreeTypes DEF kind
<1>. QED
  BY <1>4, <1>5, <1>6

LEMMA Children ==
    ASSUME TypeOK, NEW n \in Nodes, NEW i \in 1..childCount(n)
    PROVE  /\ childAt(n, i) \in Kids(n)
           /\ \A j \in i + 1..childCount(n) :
                 tree.last[childAt(n, i)] < childAt(n, j) /\ childAt(n, i) # childAt(n, j)
<1>1. IsTree(tree)
  BY TreesAssumption DEF TypeOK
<1>2. n \in 1..tree.last[1]
  BY DEF Nodes
<1>3. /\ tree.parent[childAt(n, i)] = n /\ n < childAt(n, i)
      /\ \A j \in i + 1..childCount(n) : tree.last[childAt(n, i)] < childAt(n, j)
  BY <1>1, <1>2 DEF IsTree, childAt, childCount
<1>4. childAt(n, i) \in Nodes /\ n \in Nat \ {0} /\ childCount(n) \in Nat
  BY TreeNodes
<1>5. childAt(n, i) \in Nat /\ tree.last[childAt(n, i)] \in Nat /\ childAt(n, i) <= tree.last[childAt(n, i)]
  BY <1>4, TreeNodes, TreeTypes
<1>6. childAt(n, i) # Root
  BY <1>3, <1>4, <1>5 DEF Root
<1>7. ASSUME NEW j \in i + 1..childCount(n)
      PROVE  childAt(n, i) # childAt(n, j)
  BY <1>3, <1>5, <1>4
<1>. QED
  BY <1>3, <1>4, <1>6, <1>7 DEF Kids

LEMMA KidsOf ==
    ASSUME TypeOK, NEW n \in Nodes, NEW c \in Kids(n)
    PROVE  /\ c \in Nodes /\ c # Root /\ tree.parent[c] = n /\ n < c /\ tree.last[c] <= tree.last[n]
           /\ c \in Below(n)
           /\ \E i \in 1..childCount(n) : c = childAt(n, i)
           /\ kind(n) \in Wrappers => c = Child(n)
           /\ kind(n) \notin Leaves
<1>1. IsTree(tree)
  BY TreesAssumption DEF TypeOK
<1>2. c \in Nodes /\ c # Root /\ tree.parent[c] = n
  BY DEF Kids
<1>3. n \in 1..tree.last[1] /\ c \in 1..tree.last[1]
  BY <1>2 DEF Nodes
<1>4. PICK i \in 1..Len(tree.children[n]) : tree.children[n][i] = c
  BY <1>1, <1>2, <1>3 DEF IsTree, Root
<1>5. n < c /\ tree.last[c] <= tree.last[n]
  BY <1>1, <1>3, <1>4 DEF IsTree
<1>6. n \in Nat /\ c \in Nat /\ tree.last[n] \in Nat /\ tree.last[c] \in Nat /\ c <= tree.last[c]
  BY <1>2, TreeNodes
<1>7. c \in Below(n)
  BY <1>5, <1>6 DEF Below
<1>8. kind(n) \in Wrappers => i = 1
  BY <1>1, <1>3, <1>4 DEF IsTree, kind
<1>9. kind(n) \notin Leaves
  BY <1>1, <1>3, <1>4 DEF IsTree, kind
<1>. QED
  BY <1>2, <1>4, <1>5, <1>7, <1>8, <1>9 DEF childCount, childAt, Child

LEMMA HasParent ==
    ASSUME TypeOK, NEW n \in Nodes, n # Root
    PROVE  tree.parent[n] \in Nodes /\ n \in Kids(tree.parent[n])
BY TreeTypes DEF Kids

LEMMA ChildOf ==
    ASSUME TypeOK, NEW n \in Nodes, kind(n) \in Wrappers
    PROVE  childCount(n) = 1 /\ Child(n) \in Kids(n) /\ Kids(n) = {Child(n)} /\ Child(n) \in Nodes
<1>1. IsTree(tree)
  BY TreesAssumption DEF TypeOK
<1>2. n \in 1..tree.last[1]
  BY DEF Nodes
<1>3. childCount(n) = 1
  BY <1>1, <1>2 DEF IsTree, kind, childCount
<1>4. Child(n) \in Kids(n)
  BY <1>3, Children DEF Child
<1>. QED
  BY <1>3, <1>4, KidsOf

LEMMA LeafHasNone ==
    ASSUME TypeOK, NEW n \in Nodes, kind(n) \in Leaves
    PROVE  Kids(n) = {} /\ childCount(n) = 0
<1>1. IsTree(tree)
  BY TreesAssumption DEF TypeOK
<1>2. childCount(n) = 0
  BY <1>1 DEF IsTree, kind, childCount, Nodes
<1>3. ASSUME NEW c \in Kids(n)
      PROVE  FALSE
  BY KidsOf
<1>. QED
  BY <1>2, <1>3

(* A task's subtree holds the parents of what is below it, and their subtrees. *)
LEMMA Subtree ==
    ASSUME TypeOK, NEW n \in Nodes, NEW m \in Nodes, m \in Below(n)
    PROVE  /\ m # Root /\ tree.parent[m] >= n /\ tree.last[m] <= tree.last[n]
           /\ tree.parent[m] # n => tree.parent[m] \in Below(n)
           /\ Kids(m) \subseteq Below(n) /\ n < m
<1>1. IsTree(tree)
  BY TreesAssumption DEF TypeOK
<1>2. n \in 1..tree.last[1] /\ m \in n + 1..tree.last[n]
  BY DEF Nodes, Below
<1>3. tree.parent[m] >= n /\ tree.last[m] <= tree.last[n]
  BY <1>1, <1>2 DEF IsTree
<1>4. /\ n \in Nat \ {0} /\ m \in Nat \ {0} /\ tree.last[n] \in Nat /\ tree.last[m] \in Nat
      /\ tree.parent[m] \in Nat /\ tree.parent[m] \in Nodes
  BY TreeNodes, TreeTypes
<1>5. n < m /\ m # Root /\ m <= tree.last[n]
  BY <1>2, <1>4 DEF Root
<1>6. m \in Kids(tree.parent[m])
  BY <1>5, HasParent
<1>7. tree.parent[m] < m
  BY <1>4, <1>6, KidsOf
<1>8. tree.parent[m] # n => tree.parent[m] \in Below(n)
  BY <1>3, <1>4, <1>5, <1>7 DEF Below
<1>9. ASSUME NEW c \in Kids(m)
      PROVE  c \in Below(n)
  <2>1. c \in Nodes /\ m < c /\ tree.last[c] <= tree.last[m]
    BY KidsOf
  <2>2. c \in Nat /\ tree.last[c] \in Nat /\ c <= tree.last[c]
    BY <2>1, TreeNodes
  <2>. QED
    BY <1>3, <1>4, <1>5, <2>1, <2>2 DEF Below
<1>. QED
  BY <1>3, <1>5, <1>8, <1>9

-----------------------------------------------------------------------------
(* The stack *)

LEMMA CallTypes ==
    ASSUME TypeOK, NEW n \in Nodes
    PROVE  /\ \A op \in Ops : Call(op, n) \in Frames
           /\ \A op \in Ops, i \in Nat \ {0} : From(op, n, i) \in Frames
           /\ \A outcome \in Outcomes \union {"Nothing"} : Says(n, outcome) \in Frames
BY DEF Call, From, Says, Frames, Ops

LEMMA TopType ==
    ASSUME TypeOK, calls # <<>>
    PROVE  /\ Depth \in Nat \ {0} /\ Top \in Frames /\ Top = calls[Depth]
           /\ Top.op \in Ops /\ Top.at \in Nodes /\ Top.i \in Nat \ {0}
           /\ Top.outcome \in Outcomes \union {"Nothing"}
<1>1. Depth \in Nat \ {0} /\ Top \in Frames /\ Top = calls[Depth]
  BY DEF TypeOK, Depth, Top
<1>. QED
  BY <1>1 DEF Frames

LEMMA FrameType ==
    ASSUME TypeOK, NEW k \in 1..Depth
    PROVE  /\ Depth \in Nat /\ calls # <<>>
           /\ calls[k].op \in Ops /\ calls[k].at \in Nodes /\ calls[k].i \in Nat \ {0}
           /\ calls[k].outcome \in Outcomes \union {"Nothing"}
<1>1. calls[k] \in Frames /\ Depth \in Nat
  BY DEF TypeOK, Depth
<1>2. calls # <<>>
  BY DEF TypeOK, Depth
<1>. QED
  BY <1>1, <1>2 DEF Frames

(* The callers of the innermost call are still there. *)
Kept         == \A k \in 1..Depth - 1 : calls'[k] = calls[k]
Pops         == Kept /\ Len(calls') = Depth - 1
Puts(f)      == Kept /\ Len(calls') = Depth /\ calls'[Depth] = f
Pushes(f, g) == Kept /\ Len(calls') = Depth + 1 /\ calls'[Depth] = f /\ calls'[Depth + 1] = g

LEMMA Replaced ==
    ASSUME TypeOK, calls # <<>>, NEW new \in Seq(Frames), Makes(new)
    PROVE  /\ calls' \in Seq(Frames) /\ Len(calls') = Depth - 1 + Len(new) /\ Kept
           /\ \A k \in 1..Len(new) : calls'[Depth - 1 + k] = new[k]
<1>. DEFINE old == SubSeq(calls, 1, Depth - 1)
<1>1. Depth \in Nat \ {0} /\ calls \in Seq(Frames)
  BY TopType DEF TypeOK
<1>2. \A k \in 1..Depth - 1 : calls[k] \in Frames
  BY <1>1 DEF Depth
<1>3. /\ old \in Seq(Frames) /\ Len(old) = (IF 1 <= Depth - 1 THEN Depth - 1 - 1 + 1 ELSE 0)
      /\ \A k \in 1..Depth - 1 - 1 + 1 : old[k] = calls[1 + k - 1]
  BY <1>1, <1>2, SubSeqProperties
<1>4. calls' = old \o new
  BY DEF Makes, Depth
<1>. HIDE DEF old
<1>5. Len(old) = Depth - 1 /\ \A k \in 1..Depth - 1 : old[k] = calls[k]
  BY <1>1, <1>3
<1>6. /\ calls' \in Seq(Frames) /\ Len(calls') = Len(old) + Len(new)
      /\ \A k \in 1..Len(old) + Len(new) :
            calls'[k] = IF k <= Len(old) THEN old[k] ELSE new[k - Len(old)]
  BY <1>3, <1>4, ConcatProperties
<1>10. \A k \in 1..Len(old) + Len(new) : ~(k <= Len(old)) => calls'[k] = new[k - Len(old)]
  BY <1>6
<1>. HIDE DEF Depth
<1>8. Len(new) \in Nat
  OBVIOUS
<1>9. Kept
  BY <1>1, <1>5, <1>6, <1>8 DEF Kept
<1>7. ASSUME NEW k \in 1..Len(new)
      PROVE  calls'[Depth - 1 + k] = new[k]
  <2>. DEFINE m == Depth - 1 + k
  <2>1. m \in 1..Len(old) + Len(new) /\ ~(m <= Len(old)) /\ m - Len(old) = k
    BY <1>1, <1>5, <1>8
  <2>. HIDE DEF m
  <2>2. calls'[m] = new[m - Len(old)]
    BY ONLY <1>10, <2>1
  <2>3. calls'[m] = new[k]
    BY ONLY <2>1, <2>2
  <2>. QED
    BY ONLY <2>3 DEF m
<1>. QED
  BY <1>5, <1>6, <1>7, <1>9

LEMMA Joined ==
    ASSUME NEW a \in Frames, NEW b \in Frames
    PROVE  <<a>> \o <<b>> = <<a, b>> /\ <<a>> \o <<>> = <<a>>
<1>1. /\ <<a>> \in Seq(Frames) /\ <<b>> \in Seq(Frames)
      /\ Len(<<a>>) = 1 /\ Len(<<b>>) = 1 /\ <<a>>[1] = a /\ <<b>>[1] = b
  OBVIOUS
<1>2. <<a>> \o <<>> = <<a>>
  BY <1>1, ConcatEmptySeq
<1>. DEFINE s == <<a>> \o <<b>>
            t == <<a, b>>
<1>3. s \in Seq(Frames) /\ Len(s) = 2 /\ s[1] = a /\ s[2] = b
  <2>1. /\ s \in Seq(Frames) /\ Len(s) = Len(<<a>>) + Len(<<b>>)
        /\ \A i \in 1..Len(<<a>>) + Len(<<b>>) :
              s[i] = IF i <= Len(<<a>>) THEN <<a>>[i] ELSE <<b>>[i - Len(<<a>>)]
    BY <1>1, ConcatProperties
  <2>. HIDE DEF s
  <2>2. /\ Len(s) = 2 /\ \A i \in 1..2 : s[i] = IF i <= 1 THEN <<a>>[i] ELSE <<b>>[i - 1]
    BY <1>1, <2>1
  <2>. QED
    BY <1>1, <2>1, <2>2
<1>4. t \in Seq(Frames) /\ Len(t) = 2 /\ t[1] = a /\ t[2] = b
  OBVIOUS
<1>. HIDE DEF s, t
<1>5. s = t
  BY <1>3, <1>4, SeqEqual
<1>. QED
  BY <1>2, <1>5 DEF s, t

LEMMA PopsWhen ==
    ASSUME TypeOK, calls # <<>>, Makes(<<>>)
    PROVE  calls' \in Seq(Frames) /\ Pops
<1>1. <<>> \in Seq(Frames) /\ Len(<<>>) = 0
  OBVIOUS
<1>2. calls' \in Seq(Frames) /\ Len(calls') = Depth - 1 + 0 /\ Kept
  BY <1>1, Replaced
<1>3. Depth \in Nat
  BY TopType
<1>. QED
  BY <1>2, <1>3 DEF Pops

LEMMA PutsWhen ==
    ASSUME TypeOK, calls # <<>>, NEW f \in Frames, Makes(<<f>>)
    PROVE  calls' \in Seq(Frames) /\ Puts(f)
<1>1. <<f>> \in Seq(Frames) /\ Len(<<f>>) = 1 /\ <<f>>[1] = f
  OBVIOUS
<1>2. /\ calls' \in Seq(Frames) /\ Len(calls') = Depth - 1 + 1 /\ Kept
      /\ \A k \in 1..1 : calls'[Depth - 1 + k] = <<f>>[k]
  BY <1>1, Replaced
<1>3. Depth \in Nat
  BY TopType
<1>4. calls'[Depth] = f
  BY <1>1, <1>2, <1>3
<1>. QED
  BY <1>2, <1>3, <1>4 DEF Puts

LEMMA PushesWhen ==
    ASSUME TypeOK, calls # <<>>, NEW f \in Frames, NEW g \in Frames, Makes(<<f, g>>)
    PROVE  calls' \in Seq(Frames) /\ Pushes(f, g)
<1>1. <<f, g>> \in Seq(Frames) /\ Len(<<f, g>>) = 2 /\ <<f, g>>[1] = f /\ <<f, g>>[2] = g
  OBVIOUS
<1>2. /\ calls' \in Seq(Frames) /\ Len(calls') = Depth - 1 + 2 /\ Kept
      /\ \A k \in 1..2 : calls'[Depth - 1 + k] = <<f, g>>[k]
  BY <1>1, Replaced
<1>3. Depth \in Nat
  BY TopType
<1>4. calls'[Depth] = f /\ calls'[Depth + 1] = g
  BY <1>1, <1>2, <1>3
<1>. QED
  BY <1>2, <1>3, <1>4 DEF Pushes

-----------------------------------------------------------------------------
(* Types *)

LEMMA StartTypes ==
    ASSUME TypeOK, NEW n \in Nodes, start(n)
    PROVE  TypeOK'
<1>1. /\ calls # <<>> /\ UNCHANGED <<cancelling, tree, connected, heard, runs>>
      /\ childCount(n) \in Nat /\ \A i \in 1..childCount(n) : childAt(n, i) \in Nodes
  BY TreeNodes DEF start, Called, runner
<1>2. \A outcome \in Outcomes : Says(n, outcome) \in Frames
  BY CallTypes
<1>3. \A c \in Nodes : Call("start", c) \in Frames
  BY CallTypes DEF Ops
<1>4. Call("startAll", n) \in Frames
  BY CallTypes DEF Ops
<1>5. CASE running[n]
  <2>1. UNCHANGED <<running, done, said, index, pending, expired, attempt, timer>> /\ Assert(FALSE) /\ Makes(<<>>)
    BY <1>5 DEF start, wrappers
  <2>2. calls' \in Seq(Frames)
    BY <1>1, <2>1, PopsWhen
  <2>. QED
    BY <1>1, <2>1, <2>2 DEF TypeOK, Assert, Nodes, Frames
<1>6. CASE ~running[n]
  <2>1. /\ running' \in [Nodes -> BOOLEAN] /\ done' \in [Nodes -> BOOLEAN]
        /\ said' \in [Nodes -> Outcomes \union {"Nothing"}]
    BY <1>6 DEF start, TypeOK
  <2>2. CASE kind(n) = "invoke" /\ invokeStart(n)
    <3>1. calls' \in Seq(Frames)
      BY <2>2, <1>1, <1>2, PutsWhen DEF invokeStart, Outcomes
    <3>. QED
      BY <1>1, <2>1, <2>2, <3>1 DEF TypeOK, invokeStart, wrappers, Nodes, Frames
  <2>3. CASE kind(n) = "signal" /\ signalStart(n)
    <3>1. calls' \in Seq(Frames)
      BY <2>3, <1>1, <1>2, PutsWhen, PopsWhen DEF signalStart, Outcomes
    <3>. QED
      BY <1>1, <2>1, <2>3, <3>1 DEF TypeOK, signalStart, wrappers, Nodes, Frames
  <2>4. CASE kind(n) = "sequential" /\ sequentialStart(n)
    <3>1. childCount(n) = 0 \/ childAt(n, 1) \in Nodes
      BY <1>1
    <3>2. \/ childCount(n) = 0 /\ Makes(<<Says(n, "Success")>>)
          \/ childCount(n) # 0 /\ Makes(<<Call("start", childAt(n, 1))>>)
      BY <2>4 DEF sequentialStart, Makes
    <3>3. calls' \in Seq(Frames)
      BY <3>1, <3>2, <1>1, <1>2, <1>3, PutsWhen DEF Outcomes
    <3>. QED
      BY <1>1, <2>1, <2>4, <3>3 DEF TypeOK, sequentialStart, wrappers, Nodes, Frames
  <2>5. CASE kind(n) = "parallel" /\ parallelStart(n)
    <3>1. Makes(<<Says(n, "Success")>>) \/ Makes(<<Call("startAll", n)>>)
      BY <2>5 DEF parallelStart, Makes
    <3>2. calls' \in Seq(Frames)
      BY <3>1, <1>1, <1>2, <1>4, PutsWhen DEF Outcomes
    <3>. QED
      BY <1>1, <2>1, <2>5, <3>2 DEF TypeOK, parallelStart, wrappers, Nodes, Frames
  <2>6. CASE kind(n) = "timeout" /\ timeoutStart(n)
    <3>1. Child(n) \in Nodes
      BY <2>6, ChildOf DEF Wrappers
    <3>2. calls' \in Seq(Frames)
      BY <2>6, <3>1, <1>1, <1>3, PutsWhen DEF timeoutStart
    <3>. QED
      BY <1>1, <2>1, <2>6, <3>2 DEF TypeOK, timeoutStart, Assert, Nodes, Frames
  <2>7. CASE kind(n) = "retry" /\ retryStart(n)
    <3>1. Child(n) \in Nodes
      BY <2>7, ChildOf DEF Wrappers
    <3>2. Makes(<<>>) \/ Makes(<<Call("start", Child(n))>>)
      BY <2>7 DEF retryStart, beginAttempt, Makes
    <3>3. calls' \in Seq(Frames)
      BY <3>1, <3>2, <1>1, <1>3, PutsWhen, PopsWhen
    <3>4. attempt' \in [Nodes -> Nat]
      BY <2>7 DEF TypeOK, retryStart, beginAttempt
    <3>5. UNCHANGED <<index, pending, expired>> /\ timer' \in [Nodes -> BOOLEAN] /\ tripped' \in BOOLEAN
      BY <2>7 DEF TypeOK, retryStart, beginAttempt, Assert
    <3>. QED
      BY <1>1, <2>1, <3>3, <3>4, <3>5 DEF TypeOK, Nodes, Frames
  <2>. QED
    BY <1>6, <2>2, <2>3, <2>4, <2>5, <2>6, <2>7 DEF start
<1>. QED
  BY <1>5, <1>6

LEMMA LoopTypes ==
    ASSUME TypeOK, NEW n \in Nodes, startAll(n) \/ sweep(n) \/ cancelled(n)
    PROVE  TypeOK'
<1>1. calls # <<>> /\ UNCHANGED <<running, done, said, index, pending, expired, attempt, timer, tripped,
                                   tree, connected, heard, runs>>
  BY DEF startAll, sweep, cancelled, Called, members, wrappers, runner
<1>2. /\ Top.i \in Nat \ {0} /\ Top.i + 1 \in Nat \ {0} /\ childCount(n) \in Nat
      /\ \A i \in 1..childCount(n) : childAt(n, i) \in Nodes
  BY <1>1, TopType, TreeNodes
<1>3. \A c \in Nodes : Call("start", c) \in Frames /\ Call("cancel", c) \in Frames
  BY CallTypes DEF Ops
<1>4. From("startAll", n, Top.i + 1) \in Frames /\ From("sweep", n, Top.i + 1) \in Frames
  BY <1>2, CallTypes DEF Ops
<1>5. Says(n, "Cancelled") \in Frames
  BY CallTypes DEF Outcomes
<1>6. CASE startAll(n)
  <2>0. Top.i > childCount(n) \/ childAt(n, Top.i) \in Nodes
    BY <1>2
  <2>1. \/ Makes(<<>>)
        \/ /\ childAt(n, Top.i) \in Nodes
           /\ Makes(<<From("startAll", n, Top.i + 1), Call("start", childAt(n, Top.i))>>)
    BY <1>6, <2>0 DEF startAll, Makes
  <2>2. calls' \in Seq(Frames)
    BY <2>1, <1>1, <1>3, <1>4, PopsWhen, PushesWhen
  <2>. QED
    BY <1>1, <1>6, <2>2 DEF TypeOK, startAll, members, Nodes, Frames
<1>7. CASE sweep(n)
  <2>0. Top.i > childCount(n) \/ childAt(n, Top.i) \in Nodes
    BY <1>2
  <2>1. \/ Makes(<<>>)
        \/ /\ childAt(n, Top.i) \in Nodes
           /\ Makes(<<From("sweep", n, Top.i + 1), Call("cancel", childAt(n, Top.i))>>)
    BY <1>7, <2>0 DEF sweep, Makes
  <2>2. calls' \in Seq(Frames)
    BY <2>1, <1>1, <1>3, <1>4, PopsWhen, PushesWhen
  <2>. QED
    BY <1>1, <1>7, <2>2 DEF TypeOK, sweep, Nodes, Frames
<1>8. CASE cancelled(n)
  <2>1. Makes(<<>>) \/ Makes(<<Says(n, "Cancelled")>>)
    BY <1>8 DEF cancelled
  <2>2. calls' \in Seq(Frames)
    BY <2>1, <1>1, <1>5, PopsWhen, PutsWhen
  <2>. QED
    BY <1>1, <1>8, <2>2 DEF TypeOK, cancelled, members, Nodes, Frames
<1>. QED
  BY <1>6, <1>7, <1>8

LEMMA CancelTypes ==
    ASSUME TypeOK, NEW n \in Nodes, cancelTask(n)
    PROVE  TypeOK'
<1>1. /\ calls # <<>> /\ UNCHANGED <<running, done, said, index, pending, tree, connected, heard, runs>>
      /\ Call("cancelled", n) \in Frames /\ Call("sweep", n) \in Frames
      /\ \A c \in Nodes : Call("cancel", c) \in Frames
  BY CallTypes DEF cancelTask, Called, runner, Ops
<1>2. \/ Makes(<<>>) \/ Makes(<<Call("cancelled", n)>>)
      \/ Makes(<<Call("cancelled", n), Call("sweep", n)>>)
      \/ Child(n) \in Nodes /\ Makes(<<Call("cancelled", n), Call("cancel", Child(n))>>)
  <2>1. CASE ~running[n]
    BY <2>1 DEF cancelTask
  <2>2. CASE running[n] /\ kind(n) \in Groups /\ groupCancel(n, <<Call("cancelled", n)>>)
    <3>1. \/ Makes(<<Call("cancelled", n)>> \o <<>>)
          \/ Makes(<<Call("cancelled", n)>> \o <<Call("sweep", n)>>)
      BY <2>2 DEF groupCancel, cancelChildren, Makes
    <3>2. /\ <<Call("cancelled", n)>> \o <<>> = <<Call("cancelled", n)>>
          /\ <<Call("cancelled", n)>> \o <<Call("sweep", n)>> = <<Call("cancelled", n), Call("sweep", n)>>
      BY <1>1, Joined
    <3>. QED
      BY <3>1, <3>2
  <2>3. CASE running[n] /\ kind(n) \in Wrappers /\ wrapperCancel(n, <<Call("cancelled", n)>>)
    <3>1. Child(n) \in Nodes /\ Makes(<<Call("cancelled", n)>> \o <<Call("cancel", Child(n))>>)
      BY <2>3, ChildOf DEF wrapperCancel
    <3>2. <<Call("cancelled", n)>> \o <<Call("cancel", Child(n))>> = <<Call("cancelled", n), Call("cancel", Child(n))>>
      BY <1>1, <3>1, Joined
    <3>. QED
      BY <3>1, <3>2
  <2>4. CASE running[n] /\ kind(n) \in Leaves /\ doCancel(n, <<Call("cancelled", n)>>)
    BY <2>4 DEF doCancel
  <2>. QED
    BY <2>1, <2>2, <2>3, <2>4 DEF cancelTask
<1>3. calls' \in Seq(Frames)
  BY <1>1, <1>2, PopsWhen, PutsWhen, PushesWhen
<1>4. /\ cancelling' \in [Nodes -> BOOLEAN] /\ timer' \in [Nodes -> BOOLEAN]
      /\ UNCHANGED <<expired, attempt>> /\ tripped' \in BOOLEAN
  BY DEF cancelTask, groupCancel, cancelChildren, wrapperCancel, doCancel, wrappers, Assert, TypeOK
<1>. QED
  BY <1>1, <1>3, <1>4 DEF TypeOK, Nodes, Frames

LEMMA ReportTypes ==
    ASSUME TypeOK, NEW n \in Nodes, report(n)
    PROVE  TypeOK'
<1>1. calls # <<>> /\ UNCHANGED <<tree, connected, runs>> /\ Top.op = "report" /\ Top.at = n
  BY DEF report, Called
<1>. DEFINE outcome == Top.outcome  p == tree.parent[n]
<1>2. outcome \in Outcomes \union {"Nothing"} /\ p \in Nodes
  BY <1>1, TopType, TreeNodes
<1>. HIDE DEF outcome
<1>3. /\ \A q \in Nodes, w \in Outcomes \union {"Nothing"} : Says(q, w) \in Frames
      /\ \A c \in Nodes : Call("start", c) \in Frames /\ Call("sweep", c) \in Frames
  BY CallTypes DEF Ops
<1>4. /\ running' \in [Nodes -> BOOLEAN] /\ done' \in [Nodes -> BOOLEAN]
      /\ said' \in [Nodes -> Outcomes \union {"Nothing"}]
  BY <1>2 DEF report, TypeOK, outcome, members
<1>. DEFINE Rest == /\ calls' \in Seq(Frames) /\ heard' \in Seq(Outcomes \union {"Nothing"}) /\ tripped' \in BOOLEAN
                    /\ cancelling' \in [Nodes -> BOOLEAN] /\ index' \in [Nodes -> Nat]
                    /\ pending' \in [Nodes -> Int] /\ expired' \in [Nodes -> BOOLEAN]
                    /\ attempt' \in [Nodes -> Nat] /\ timer' \in [Nodes -> BOOLEAN]
<1>. HIDE DEF Rest
<1>5. ASSUME running[n] /\ ~done[n] /\ n # Root /\ childFinished(p, outcome) /\ UNCHANGED heard
      PROVE  Rest
  <2>. USE DEF Rest
  <2>1. CASE ~running[p] \/ cancelling[p]
    <3>1. Makes(<<>>) /\ UNCHANGED <<cancelling, index, pending, expired, attempt, timer, tripped>>
      BY <1>5, <2>1 DEF childFinished, wrappers
    <3>. QED
      BY <1>1, <1>5, <3>1, PopsWhen DEF TypeOK
  <2>2. CASE ~(~running[p] \/ cancelling[p]) /\ kind(p) = "sequential" /\ sequentialChildFinished(p, outcome)
    <3>1. /\ Assert(index[p] <= childCount(p)) /\ UNCHANGED <<cancelling, pending, expired, attempt, timer>>
          /\ \/ UNCHANGED index
             \/ index' = [index EXCEPT ![p] = index[p] + 1]
      BY <2>2 DEF sequentialChildFinished, wrappers
    <3>2. /\ index' \in [Nodes -> Nat] /\ tripped' \in BOOLEAN
      BY <1>2, <3>1 DEF TypeOK, Assert
    <3>3. \/ Makes(<<Says(p, outcome)>>) \/ Makes(<<Says(p, "Success")>>)
          \/ ~(index[p] + 1 > childCount(p)) /\ Makes(<<Call("start", childAt(p, index[p] + 1))>>)
      BY <2>2 DEF sequentialChildFinished, Makes
    <3>4. ~(index[p] + 1 > childCount(p)) => childAt(p, index[p] + 1) \in Nodes
      <4>1. index[p] \in Nat /\ childCount(p) \in Nat
        BY <1>2, TreeNodes DEF TypeOK
      <4>. QED
        BY <4>1, <1>2, TreeNodes
    <3>5. calls' \in Seq(Frames)
      BY <1>1, <1>2, <1>3, <3>3, <3>4, PutsWhen DEF Outcomes
    <3>. QED
      BY <1>5, <3>1, <3>2, <3>5 DEF TypeOK
  <2>3. CASE ~(~running[p] \/ cancelling[p]) /\ kind(p) = "parallel" /\ parallelChildFinished(p, outcome)
    <3>1. /\ UNCHANGED <<index, expired, attempt, timer>> /\ pending' = [pending EXCEPT ![p] = @ - 1]
          /\ tripped' \in BOOLEAN
          /\ cancelling' = cancelling \/ cancelling' = [cancelling EXCEPT ![p] = TRUE]
      BY <2>3 DEF parallelChildFinished, cancelChildren, wrappers, Assert, TypeOK
    <3>2. \/ Makes(<<Says(p, "Success")>>) \/ Makes(<<>>)
          \/ Makes(<<Says(p, outcome)>> \o <<>>) \/ Makes(<<Says(p, outcome)>> \o <<Call("sweep", p)>>)
      BY <2>3 DEF parallelChildFinished, cancelChildren, Makes
    <3>3. \/ Makes(<<Says(p, "Success")>>) \/ Makes(<<>>)
          \/ Makes(<<Says(p, outcome)>>) \/ Makes(<<Says(p, outcome), Call("sweep", p)>>)
      <4>1. /\ <<Says(p, outcome)>> \o <<>> = <<Says(p, outcome)>>
            /\ <<Says(p, outcome)>> \o <<Call("sweep", p)>> = <<Says(p, outcome), Call("sweep", p)>>
        BY <1>2, <1>3, Joined
      <4>. QED
        BY <3>2, <4>1
    <3>4. calls' \in Seq(Frames)
      BY <1>1, <1>2, <1>3, <3>3, PopsWhen, PutsWhen, PushesWhen DEF Outcomes
    <3>5. pending' \in [Nodes -> Int] /\ cancelling' \in [Nodes -> BOOLEAN]
      <4>1. pending \in [Nodes -> Int] /\ cancelling \in [Nodes -> BOOLEAN]
        BY DEF TypeOK
      <4>2. pending' \in [Nodes -> Int]
        BY <1>2, <3>1, <4>1
      <4>. QED
        BY <1>2, <3>1, <4>1, <4>2
    <3>. QED
      BY <1>5, <3>1, <3>4, <3>5 DEF TypeOK
  <2>4. CASE ~(~running[p] \/ cancelling[p]) /\ kind(p) = "timeout" /\ timeoutChildFinished(p, outcome)
    <3>1. calls' \in Seq(Frames)
      BY <1>1, <1>2, <1>3, <2>4, PopsWhen, PutsWhen DEF timeoutChildFinished
    <3>. QED
      BY <1>2, <1>5, <2>4, <3>1 DEF timeoutChildFinished, TypeOK
  <2>5. CASE ~(~running[p] \/ cancelling[p]) /\ kind(p) = "retry" /\ retryChildFinished(p, outcome)
    <3>1. calls' \in Seq(Frames)
      BY <1>1, <1>2, <1>3, <2>5, PopsWhen, PutsWhen DEF retryChildFinished
    <3>2. attempt' \in [Nodes -> Nat]
      BY <1>2, <2>5 DEF retryChildFinished, TypeOK
    <3>3. UNCHANGED <<cancelling, index, pending, expired>> /\ timer' \in [Nodes -> BOOLEAN] /\ tripped' \in BOOLEAN
      BY <1>2, <2>5 DEF retryChildFinished, TypeOK, Assert
    <3>. QED
      BY <1>5, <3>1, <3>2, <3>3 DEF TypeOK
  <2>. QED
    BY <1>5, <2>1, <2>2, <2>3, <2>4, <2>5 DEF childFinished
<1>6. ASSUME running[n] /\ ~done[n] /\ n = Root /\ rootFinished(outcome)
      PROVE  Rest
  <2>. USE DEF Rest
  <2>1. calls' \in Seq(Frames)
    BY <1>1, <1>6, PopsWhen DEF rootFinished
  <2>2. heard' \in Seq(Outcomes \union {"Nothing"})
    BY <1>2, <1>6 DEF rootFinished, TypeOK
  <2>. QED
    BY <1>6, <2>1, <2>2 DEF rootFinished, TypeOK, wrappers
<1>7. ASSUME ~running[n] \/ done[n]
      PROVE  Rest
  <2>. USE DEF Rest
  <2>1. calls' \in Seq(Frames)
    BY <1>1, <1>7, PopsWhen DEF report
  <2>. QED
    BY <1>7, <2>1 DEF report, TypeOK, members, wrappers, Assert
<1>8. Rest
  BY <1>5, <1>6, <1>7 DEF report, outcome
<1>. QED
  BY <1>1, <1>4, <1>8 DEF Rest, TypeOK, Nodes, Frames

LEMMA EventTypes ==
    ASSUME TypeOK, run \/ cancel \/ (\E n \in Waiting : fires(n)) \/ clockFires \/ runFresh
    PROVE  TypeOK'
<1>1. /\ \A q \in Nodes, w \in Outcomes \union {"Nothing"} : Says(q, w) \in Frames
      /\ \A c \in Nodes : Call("start", c) \in Frames /\ Call("cancel", c) \in Frames /\ Call("run", c) \in Frames
      /\ Root \in Nodes
  BY CallTypes, TreeTypes DEF Ops
<1>2. CASE run
  <2>1. calls' \in Seq(Frames) /\ heard' \in Seq(Outcomes \union {"Nothing"})
    BY <1>1, <1>2 DEF run, stopRoot
  <2>2. connected' \in BOOLEAN /\ runs' \in Nat
    <3>1. connected' = FALSE /\ runs' = runs + 1
      BY <1>2 DEF run, stopRoot
    <3>2. runs \in Nat
      BY DEF TypeOK
    <3>3. runs' \in Nat
      BY <3>1, <3>2
    <3>. QED
      BY <3>1, <3>3
  <2>. QED
    BY <1>2, <2>1, <2>2 DEF run, TypeOK, members, wrappers, Nodes, Frames
<1>3. CASE cancel
  <2>1. calls' \in Seq(Frames)
    BY <1>1, <1>3 DEF cancel
  <2>. QED
    BY <1>3, <2>1 DEF cancel, TypeOK, members, wrappers, runner, Nodes, Frames
<1>4. ASSUME NEW n \in Waiting, fires(n)
      PROVE  TypeOK'
  <2>1. n \in Nodes
    BY DEF Waiting
  <2>2. calls' \in Seq(Frames)
    BY <1>1, <1>4, <2>1 DEF fires, Outcomes
  <2>. QED
    BY <1>4, <2>2 DEF fires, TypeOK, members, wrappers, runner, Nodes, Frames
<1>5. ASSUME NEW n \in Timed("timeout"), onExpired(n)
      PROVE  TypeOK'
  <2>1. n \in Nodes /\ Child(n) \in Nodes
    BY ChildOf DEF Timed, Wrappers
  <2>2. calls' \in Seq(Frames)
    <3>1. Says(n, "TimedOut") \in Frames /\ Call("cancel", Child(n)) \in Frames /\ calls \in Seq(Frames)
      BY <1>1, <2>1 DEF Outcomes, TypeOK
    <3>. QED
      <4>1. calls' = calls \/ calls' = <<Says(n, "TimedOut"), Call("cancel", Child(n))>>
        <5>1. CASE running[n]
          BY <1>5, <5>1 DEF onExpired
        <5>2. CASE ~running[n]
          BY <1>5, <5>2 DEF onExpired
        <5>. QED
          BY <5>1, <5>2
      <4>2. <<Says(n, "TimedOut"), Call("cancel", Child(n))>> \in Seq(Frames)
        BY <3>1
      <4>. QED
        BY <3>1, <4>1, <4>2
  <2>3. timer' \in [Nodes -> BOOLEAN] /\ expired' \in [Nodes -> BOOLEAN]
    BY <1>5, <2>1 DEF onExpired, TypeOK
  <2>4. UNCHANGED <<running, done, said, cancelling, index, pending, attempt, tripped, tree, connected, heard, runs>>
    BY <1>5 DEF onExpired, runner
  <2>. QED
    BY <2>2, <2>3, <2>4 DEF TypeOK, Nodes, Frames
<1>6. ASSUME NEW n \in Timed("retry"), onBackoffElapsed(n)
      PROVE  TypeOK'
  <2>1. n \in Nodes /\ Child(n) \in Nodes
    BY ChildOf DEF Timed, Wrappers
  <2>2. calls' = calls \/ Makes(<<>>) \/ Makes(<<Call("start", Child(n))>>)
    BY <1>6 DEF onBackoffElapsed, beginAttempt, Makes
  <2>3. SubSeq(calls, 1, Len(calls) - 1) = <<>>
    BY <1>6, SubSeqEmpty DEF onBackoffElapsed, Idle
  <2>4. calls' = calls \/ calls' = <<>> \o <<>> \/ calls' = <<>> \o <<Call("start", Child(n))>>
    BY <2>2, <2>3 DEF Makes
  <2>5. calls' \in Seq(Frames)
    <3>1. Call("start", Child(n)) \in Frames /\ calls \in Seq(Frames)
      BY <1>1, <2>1 DEF TypeOK
    <3>2. <<>> \in Seq(Frames) /\ <<Call("start", Child(n))>> \in Seq(Frames)
      BY <3>1
    <3>3. <<>> \o <<>> \in Seq(Frames) /\ <<>> \o <<Call("start", Child(n))>> \in Seq(Frames)
      BY <3>2, ConcatProperties
    <3>. QED
      BY <2>4, <3>1, <3>3
  <2>6. attempt' \in [Nodes -> Nat] /\ timer' \in [Nodes -> BOOLEAN] /\ tripped' \in BOOLEAN
    <3>1. /\ timer' = [timer EXCEPT ![n] = FALSE]
          /\ \/ attempt' = attempt \/ attempt' = [attempt EXCEPT ![n] = attempt[n] + 1]
             \/ attempt' = [attempt EXCEPT ![n] = attempt[n]]
          /\ tripped' = tripped \/ \E ok \in BOOLEAN : tripped' = (tripped \/ ~ok)
      BY <1>6 DEF onBackoffElapsed, beginAttempt, Assert
    <3>2. attempt \in [Nodes -> Nat] /\ timer \in [Nodes -> BOOLEAN] /\ tripped \in BOOLEAN
      BY DEF TypeOK
    <3>3. tripped' \in BOOLEAN
      BY <3>1, <3>2
    <3>. QED
      BY <2>1, <3>1, <3>2, <3>3
  <2>7. UNCHANGED <<running, done, said, cancelling, index, pending, expired, tree, connected, heard, runs>>
    BY <1>6 DEF onBackoffElapsed, runner
  <2>. QED
    BY <2>5, <2>6, <2>7 DEF TypeOK, Nodes, Frames
<1>7. CASE runFresh
  <2>1. calls' \in Seq(Frames)
    BY <1>1, <1>7, PutsWhen DEF runFresh, Called
  <2>2. /\ running' \in [Nodes -> BOOLEAN] /\ done' \in [Nodes -> BOOLEAN]
        /\ said' \in [Nodes -> Outcomes \union {"Nothing"}]
        /\ cancelling' \in [Nodes -> BOOLEAN] /\ index' \in [Nodes -> Nat] /\ pending' \in [Nodes -> Int]
        /\ expired' \in [Nodes -> BOOLEAN] /\ attempt' \in [Nodes -> Nat] /\ timer' \in [Nodes -> BOOLEAN]
    BY <1>7 DEF runFresh, All
  <2>3. UNCHANGED <<tree, heard, tripped, runs>> /\ connected' \in BOOLEAN
    BY <1>7 DEF runFresh
  <2>. QED
    BY <2>1, <2>2, <2>3 DEF TypeOK, Nodes, Frames
<1>. QED
  BY <1>2, <1>3, <1>4, <1>5, <1>6, <1>7 DEF clockFires

LEMMA TypesKept == TypeOK /\ [Next]_vars => TypeOK'
<1>1. TypeOK /\ UNCHANGED vars => TypeOK'
  BY DEF TypeOK, vars, members, wrappers, runner, Nodes, Frames
<1>. QED
  BY <1>1, StartTypes, LoopTypes, CancelTypes, ReportTypes, EventTypes DEF Next, cascade

-----------------------------------------------------------------------------
(* The inductive invariant *)

(* The call at k belongs to a cancellation. *)
Unwinds(k) == \/ calls[k].op \in {"cancel", "sweep", "cancelled"}
              \/ calls[k].op = "report" /\ calls[k].outcome = "Cancelled"

(* The call at k leaves task c stopped. *)
Ends(k, c) == calls[k].op \in {"cancel", "cancelled", "report"} /\ calls[k].at = c

(* When the calls above the one at k have returned, task c does not run. *)
Stops(k, c) == running[c] => k < Depth /\ Ends(k + 1, c)

SweptAbove(k, n) == k < Depth /\ calls[k + 1].op = "sweep" /\ calls[k + 1].at = n

(* A call that leaves task n stopped has got past the children of n. *)
Closing(n) == \E k \in 1..Depth : calls[k].op \in {"report", "cancelled"} /\ calls[k].at = n

Starting(c)   == \E k \in 1..Depth : calls[k].op = "start" /\ calls[k].at = c
Active(c)     == running[c] \/ Starting(c)
Sweeping(n)   == \E k \in 1..Depth : calls[k].op = "sweep" /\ calls[k].at = n
Covered(n, i) == \E k \in 1..Depth : calls[k].op = "startAll" /\ calls[k].at = n /\ calls[k].i <= i

(* The children of a parallel group that have not reported to it *)
Owed(n) == {i \in 1..childCount(n) : Covered(n, i) \/ \E c \in Kids(n) : c = childAt(n, i) /\ Active(c)}

StartOK(k, n) ==
    /\ k = Depth /\ ~running[n]
    /\ n = Root => Depth = 1 /\ connected /\ heard = <<>>
    /\ n # Root =>
          \E p \in Nodes :
             /\ p = tree.parent[n] /\ running[p]
             /\ kind(p) = "sequential" => index[p] <= childCount(p) /\ n = childAt(p, index[p])
             /\ kind(p) = "parallel" => k > 1 /\ calls[k - 1].op = "startAll" /\ calls[k - 1].at = p
             /\ kind(p) = "retry" => ~timer[p] /\ attempt[p] >= 1

ReportOK(k, n) ==
    /\ running[n] /\ ~timer[n] /\ calls[k].outcome # "Nothing"
    /\ calls[k].outcome = "Success" => k = Depth /\ \A c \in Kids(n) : said[c] = "Success"
    /\ \/ SweptAbove(k, n)
       \/ kind(n) = "timeout" /\ expired[n] /\ \A c \in Kids(n) : Stops(k, c)
       \/ \A c \in Kids(n) : ~running[c]

SweepOK(k, n) ==
    /\ running[n] /\ cancelling[n] /\ kind(n) \in Groups
    /\ \A c \in Kids(n) : (\E j \in 1..childCount(n) : j < calls[k].i /\ c = childAt(n, j)) => Stops(k, c)
    /\ k > 1 /\ calls[k - 1].op \in {"report", "cancelled"} /\ calls[k - 1].at = n

CancelledOK(k, n) ==
    running[n] => /\ ~timer[n]
                  /\ \/ SweptAbove(k, n)
                     \/ kind(n) \in Wrappers /\ \A c \in Kids(n) : Stops(k, c)
                     \/ \A c \in Kids(n) : ~running[c]

StartAllOK(k, n) ==
    /\ kind(n) = "parallel"
    /\ running[n] => \A c \in Kids(n) :
          (\E j \in 1..childCount(n) : calls[k].i <= j /\ c = childAt(n, j)) => ~running[c]

RunOK(k, n) == k = 1 /\ n = Root /\ ~connected /\ heard = <<>> /\ Stops(1, Root)

CallOK(k) ==
    \A n \in Nodes : calls[k].at = n =>
       /\ calls[k].op = "start" => StartOK(k, n)
       /\ calls[k].op = "report" => ReportOK(k, n)
       /\ calls[k].op = "cancel" => k = Depth
       /\ calls[k].op = "sweep" => SweepOK(k, n)
       /\ calls[k].op = "cancelled" => CancelledOK(k, n)
       /\ calls[k].op = "startAll" => StartAllOK(k, n)
       /\ calls[k].op = "run" => RunOK(k, n)

(* What starts above a loop of starts is below its task, and before the child
   the loop stands at; a success above it comes from there too. *)
Later(k, j) ==
    \A n, m \in Nodes, i \in Nat \ {0} :
       calls[k].at = n /\ calls[k].i = i /\ calls[j].at = m =>
          /\ calls[j].op \in {"start", "startAll"} =>
                m > n /\ (running[n] => tree.last[m] <= Bound(n, i))
          /\ calls[j].op = "report" /\ calls[j].outcome = "Success" =>
                /\ tree.last[m] >= n
                /\ running[n] => m = n \/ (m > n /\ tree.last[m] <= Bound(n, i))

(* A cancellation stays below the task it sweeps or reports. *)
Inner(k, j) ==
    \A n, m \in Nodes :
       calls[k].at = n /\ calls[j].at = m =>
          \/ m \in Below(n)
          \/ calls[k].op = "report" /\ j = k + 1 /\ SweptAbove(k, n)

NestOK(k, j) ==
    /\ calls[k].op # "startAll" => Unwinds(j)
    /\ calls[k].op \in {"sweep", "report"} => Inner(k, j)
    /\ calls[k].op = "startAll" => Later(k, j)

TaskOK(n) ==
    /\ timer[n] => running[n] /\ kind(n) \in Wrappers
    /\ running[n] => ~done[n] /\ said[n] = "Nothing"
    /\ cancelling[n] => Sweeping(n)
    /\ running[n] /\ kind(n) = "sequential" =>
          /\ index[n] \in 1..childCount(n) + 1
          /\ \A c \in Kids(n) : running[c] => index[n] <= childCount(n) /\ c = childAt(n, index[n])
    /\ running[n] /\ kind(n) = "retry" => \A c \in Kids(n) : running[c] => attempt[n] >= 1 /\ ~timer[n]

ParentOK(n) == running[n] /\ n # Root => running[tree.parent[n]]

AwaitOK(n) ==
    running[n] /\ ~Closing(n) =>
       /\ kind(n) # "invoke"
       /\ kind(n) = "sequential" =>
             index[n] <= childCount(n) /\ \E c \in Kids(n) : c = childAt(n, index[n]) /\ Active(c)
       /\ kind(n) = "parallel" => pending[n] >= 1 /\ pending[n] = Cardinality(Owed(n))
       /\ kind(n) = "timeout" => timer[n] /\ ~expired[n] /\ \E c \in Kids(n) : Active(c)
       /\ kind(n) = "retry" => timer[n] \/ \E c \in Kids(n) : Active(c)

EarnOK(n) ==
    /\ said[n] = "Success" => \A c \in Kids(n) : said[c] = "Success"
    /\ running[n] /\ kind(n) = "sequential" =>
          \A c \in Kids(n) : (\E j \in 1..childCount(n) : j < index[n] /\ c = childAt(n, j)) => said[c] = "Success"
    /\ running[n] /\ kind(n) = "parallel" /\ ~Closing(n) =>
          \A c \in Kids(n), j \in 1..childCount(n) :
             c = childAt(n, j) /\ ~Active(c) /\ ~Covered(n, j) => said[c] = "Success"

OwnerOK ==
    /\ connected /\ Active(Root) => heard = <<>>
    /\ connected /\ ~Active(Root) => Len(heard) = 1
    /\ ~connected => heard = <<>> /\ (runs > 0 => Depth > 0 /\ calls[1].op = "run")
    /\ dropped.alive = {} /\ dropped.told = 0

CallsOK   == \A k \in 1..Depth : CallOK(k)
NestingOK == \A k \in 1..Depth : \A j \in k + 1..Depth : NestOK(k, j)
NodesOK   == \A n \in Nodes : TaskOK(n) /\ ParentOK(n) /\ AwaitOK(n) /\ EarnOK(n)

IInv == TypeOK /\ ~tripped /\ CallsOK /\ NestingOK /\ NodesOK /\ OwnerOK

-----------------------------------------------------------------------------
(* What a step leaves alone *)

Same(x) ==
    /\ running'[x] = running[x] /\ done'[x] = done[x] /\ said'[x] = said[x]
    /\ cancelling'[x] = cancelling[x] /\ index'[x] = index[x] /\ pending'[x] = pending[x]
    /\ expired'[x] = expired[x] /\ attempt'[x] = attempt[x] /\ timer'[x] = timer[x]

SameKids(x) == \A c \in Kids(x) : running'[c] = running[c] /\ said'[c] = said[c]

SameCalls(x) ==
    /\ Closing(x) => Closing(x)'
    /\ Sweeping(x) => Sweeping(x)'
    /\ \A c \in Kids(x) : Starting(c)' <=> Starting(c)
    /\ \A i \in 1..childCount(x) : Covered(x, i)' <=> Covered(x, i)

LEMMA SameTree ==
    ASSUME UNCHANGED tree
    PROVE  /\ Nodes' = Nodes
           /\ \A n \in Nodes : Kids(n)' = Kids(n) /\ kind(n)' = kind(n) /\ childCount(n)' = childCount(n)
           /\ \A n \in Nodes, i \in Nat : childAt(n, i)' = childAt(n, i) /\ Bound(n, i)' = Bound(n, i)
BY DEF Nodes, Kids, kind, childCount, childAt, Bound

LEMMA OwedKept ==
    ASSUME TypeOK, NEW x \in Nodes, UNCHANGED tree, SameKids(x), SameCalls(x)
    PROVE  Owed(x)' = Owed(x)
<1>1. childCount(x) \in Nat /\ childCount(x)' = childCount(x) /\ Kids(x)' = Kids(x)
  BY TreeNodes, SameTree
<1>2. \A i \in 1..childCount(x) : childAt(x, i)' = childAt(x, i)
  BY DEF childAt
<1>3. \A c \in Kids(x) : Active(c)' <=> Active(c)
  BY DEF SameKids, SameCalls, Active
<1>4. \A i \in 1..childCount(x) : Covered(x, i)' <=> Covered(x, i)
  BY DEF SameCalls
<1>. QED
  BY <1>1, <1>2, <1>3, <1>4 DEF Owed

LEMMA TaskKept ==
    ASSUME TypeOK, NEW x \in Nodes, UNCHANGED tree, Same(x), SameKids(x), SameCalls(x), TaskOK(x)
    PROVE  TaskOK(x)'
<1>1. childCount(x)' = childCount(x) /\ Kids(x)' = Kids(x) /\ kind(x)' = kind(x)
  BY SameTree
<1>2. \A i : childAt(x, i)' = childAt(x, i)
  BY DEF childAt
<1>3. childAt(x, index[x])' = childAt(x, index[x])
  BY DEF childAt, Same
<1>. QED
  BY <1>1, <1>3 DEF TaskOK, Same, SameKids, SameCalls

LEMMA AwaitKept ==
    ASSUME TypeOK, NEW x \in Nodes, UNCHANGED tree, Same(x), SameKids(x), SameCalls(x), AwaitOK(x)
    PROVE  AwaitOK(x)'
<1>1. childCount(x)' = childCount(x) /\ Kids(x)' = Kids(x) /\ kind(x)' = kind(x) /\ Owed(x)' = Owed(x)
  BY SameTree, OwedKept
<1>2. childAt(x, index[x])' = childAt(x, index[x])
  BY DEF childAt, Same
<1>3. \A c \in Kids(x) : Active(c)' <=> Active(c)
  BY DEF SameKids, SameCalls, Active
<1>4. running[x] /\ ~Closing(x)' => ~Closing(x)
  BY DEF SameCalls
<1>. QED
  BY <1>1, <1>2, <1>3, <1>4 DEF AwaitOK, Same

LEMMA EarnKept ==
    ASSUME TypeOK, NEW x \in Nodes, UNCHANGED tree, Same(x), SameKids(x), SameCalls(x), EarnOK(x)
    PROVE  EarnOK(x)'
<1>1. childCount(x)' = childCount(x) /\ Kids(x)' = Kids(x) /\ kind(x)' = kind(x)
  BY SameTree
<1>2. \A i : childAt(x, i)' = childAt(x, i)
  BY DEF childAt
<1>3. \A c \in Kids(x) : Active(c)' <=> Active(c)
  BY DEF SameKids, SameCalls, Active
<1>4. running[x] /\ ~Closing(x)' => ~Closing(x)
  BY DEF SameCalls
<1>5. \A i \in 1..childCount(x) : Covered(x, i)' <=> Covered(x, i)
  BY DEF SameCalls
<1>6. \A c \in Kids(x) : said'[c] = said[c]
  BY DEF SameKids
<1>. QED
  BY <1>1, <1>2, <1>3, <1>4, <1>5, <1>6 DEF EarnOK, Same

(* A step whose innermost call is at n changes n, and p, and puts calls of them
   and of their children on the stack. *)
NewAt(k, n, p) ==
    \/ calls[k].at \in {n, p} /\ calls[k].op # "start"
    \/ calls[k].at \in Kids(n) \union Kids(p) /\ calls[k].op \in {"start", "cancel"}

Local(n, p) ==
    /\ UNCHANGED tree /\ Kept /\ Len(calls') \in {Depth - 1, Depth, Depth + 1}
    /\ \A x \in Nodes : x \notin {n, p} => Same(x)
    /\ \A x \in Nodes : x # n => running'[x] = running[x] /\ said'[x] = said[x]
    /\ \A k \in Depth..Len(calls') : NewAt(k, n, p)'

LEMMA FarCalls ==
    ASSUME TypeOK, calls # <<>>, NEW n \in Nodes, NEW p \in Nodes, Top.at = n, Local(n, p),
           n # Root /\ p # tree.parent[n] => Top.op # "start",
           NEW x \in Nodes, x \notin {n, p}
    PROVE  SameCalls(x)
<1>1. /\ Depth \in Nat \ {0} /\ Top = calls[Depth] /\ Kids(n)' = Kids(n) /\ Kids(p)' = Kids(p)
      /\ Len(calls') \in {Depth - 1, Depth, Depth + 1} /\ Depth' = Len(calls')
  BY TopType, SameTree DEF Local, Depth
<1>2. \A k \in 1..Depth - 1 : calls'[k] = calls[k] /\ k \in 1..Len(calls') /\ k \in 1..Depth
  BY <1>1 DEF Local, Kept
<1>3. \A k \in 1..Depth : k \in 1..Depth - 1 \/ k = Depth
  BY <1>1
<1>4. \A k \in 1..Len(calls') : k \in 1..Depth - 1 \/ k \in Depth..Len(calls')
  BY <1>1
<1>5. calls[Depth].at = n /\ \A c \in Kids(x) : ~(calls[Depth].op = "start" /\ calls[Depth].at = c)
  BY <1>1 DEF Kids
<1>6. \A k \in Depth..Len(calls') : calls'[k].at = x => calls'[k].op \in {"start", "cancel"}
  BY <1>1 DEF Local, NewAt
<1>7. \A k \in Depth..Len(calls') : calls'[k].at \in Kids(x) => calls'[k].op # "start"
  BY <1>1 DEF Local, NewAt, Kids
<1>8. Closing(x) => Closing(x)'
  BY <1>1, <1>2, <1>3, <1>5 DEF Closing
<1>9. Sweeping(x) => Sweeping(x)'
  BY <1>1, <1>2, <1>3, <1>5 DEF Sweeping
<1>10. \A c \in Kids(x) : Starting(c)' <=> Starting(c)
  BY <1>1, <1>2, <1>3, <1>4, <1>5, <1>7 DEF Starting
<1>11. \A i \in 1..childCount(x) : Covered(x, i)' <=> Covered(x, i)
  BY <1>1, <1>2, <1>3, <1>4, <1>5, <1>6 DEF Covered
<1>. QED
  BY <1>8, <1>9, <1>10, <1>11 DEF SameCalls

LEMMA FarNodes ==
    ASSUME TypeOK, NodesOK, calls # <<>>, NEW n \in Nodes, NEW p \in Nodes, Top.at = n, Local(n, p),
           n # Root /\ p # tree.parent[n] =>
              Top.op # "start" /\ running'[n] = running[n] /\ said'[n] = said[n],
           NEW x \in Nodes, x \notin {n, p}
    PROVE  TaskOK(x)' /\ AwaitOK(x)' /\ EarnOK(x)'
<1>1. SameCalls(x)
  BY FarCalls
<1>2. Same(x) /\ UNCHANGED tree
  BY DEF Local
<1>3. SameKids(x)
  BY DEF SameKids, Local, Kids
<1>. QED
  BY <1>1, <1>2, <1>3, TaskKept, AwaitKept, EarnKept DEF NodesOK

-----------------------------------------------------------------------------
(* The calls under the innermost one *)

NestedOK == CallsOK /\ NestingOK

LEMMA NestKept ==
    ASSUME TypeOK, calls # <<>>, UNCHANGED tree, Kept, Len(calls') \in {Depth - 1, Depth, Depth + 1},
           NEW k \in 1..Depth - 1, NEW j \in k + 1..Depth - 1, NestOK(k, j),
           \A x \in Nodes : calls[k].op = "startAll" /\ calls[k].at = x /\ running'[x] => running[x]
    PROVE  NestOK(k, j)'
<1>1. Depth \in Nat \ {0} /\ k \in Nat /\ j \in Nat /\ Depth' = Len(calls')
  BY TopType DEF Depth
<1>2. /\ calls'[k] = calls[k] /\ calls'[j] = calls[j] /\ k < Depth' /\ k < Depth
      /\ k + 1 \in 1..Depth - 1 /\ calls'[k + 1] = calls[k + 1]
  BY <1>1 DEF Kept
<1>3. Unwinds(j)' <=> Unwinds(j)
  BY <1>2 DEF Unwinds
<1>4. Inner(k, j) => Inner(k, j)'
  BY <1>2 DEF Inner, SweptAbove, Below, Nodes
<1>5. ASSUME calls[k].op = "startAll", Later(k, j)
      PROVE  Later(k, j)'
  <2>1. \A x \in Nodes : calls[k].at = x /\ running'[x] => running[x]
    BY <1>5
  <2>2. Nodes' = Nodes /\ tree' = tree /\ \A n \in Nodes, i \in Nat : Bound(n, i)' = Bound(n, i)
    BY SameTree
  <2>. QED
    BY <1>2, <1>5, <2>1, <2>2 DEF Later
<1>. QED
  BY <1>2, <1>3, <1>4, <1>5 DEF NestOK

(* What a step of a cancellation does *)
Unwinding ==
    /\ UNCHANGED <<tree, connected>> /\ (~connected => UNCHANGED heard)
    /\ Kept /\ Len(calls') \in {Depth - 1, Depth, Depth + 1}
    /\ \A x \in Nodes :
          /\ running'[x] => running[x]
          /\ running[x] /\ ~running'[x] => calls[Depth].op = "report" /\ calls[Depth].at = x
          /\ timer'[x] => timer[x]
          /\ expired'[x] = expired[x]
          /\ cancelling[x] /\ ~cancelling'[x] => calls[Depth].op = "sweep" /\ calls[Depth].at = x
          /\ Ends(Depth, x) /\ running'[x] =>
                Len(calls') >= Depth /\ calls'[Depth].op \in {"cancel", "cancelled", "report"} /\ calls'[Depth].at = x
          /\ calls[Depth].op = "sweep" /\ calls[Depth].at = x =>
                \/ Len(calls') >= Depth /\ calls'[Depth].op = "sweep" /\ calls'[Depth].at = x
                \/ \A c \in Kids(x) : ~running'[c]

LEMMA StopsKept ==
    ASSUME TypeOK, calls # <<>>, Unwinding, NEW k \in 1..Depth - 1, NEW c \in Nodes, Stops(k, c)
    PROVE  Stops(k, c)'
<1>1. /\ Depth \in Nat \ {0} /\ k \in Nat /\ Depth' = Len(calls') /\ Len(calls') \in {Depth - 1, Depth, Depth + 1}
      /\ Kept
  BY TopType DEF Depth, Unwinding
<1>2. SUFFICES ASSUME running'[c]
               PROVE  k < Depth' /\ Ends(k + 1, c)'
  BY DEF Stops
<1>3. running[c]
  BY <1>2 DEF Unwinding
<1>4. Ends(k + 1, c)
  BY <1>3 DEF Stops
<1>5. CASE k + 1 \in 1..Depth - 1
  BY <1>1, <1>4, <1>5 DEF Kept, Ends
<1>6. CASE k + 1 = Depth
  <2>1. Len(calls') >= Depth /\ calls'[Depth].op \in {"cancel", "cancelled", "report"} /\ calls'[Depth].at = c
    BY <1>2, <1>4, <1>6 DEF Unwinding
  <2>. QED
    BY <1>1, <1>6, <2>1 DEF Ends
<1>. QED
  BY <1>1, <1>5, <1>6

LEMMA SweptKept ==
    ASSUME TypeOK, calls # <<>>, Unwinding, NEW k \in 1..Depth - 1, NEW n \in Nodes, SweptAbove(k, n)
    PROVE  SweptAbove(k, n)' \/ \A c \in Kids(n) : ~running'[c]
<1>1. /\ Depth \in Nat \ {0} /\ k \in Nat /\ Depth' = Len(calls') /\ Len(calls') \in {Depth - 1, Depth, Depth + 1}
      /\ Kept /\ calls[k + 1].op = "sweep" /\ calls[k + 1].at = n
  BY TopType DEF Depth, Unwinding, SweptAbove
<1>2. CASE k + 1 \in 1..Depth - 1
  BY <1>1, <1>2 DEF Kept, SweptAbove
<1>3. CASE k + 1 = Depth
  <2>1. \/ Len(calls') >= Depth /\ calls'[Depth].op = "sweep" /\ calls'[Depth].at = n
        \/ \A c \in Kids(n) : ~running'[c]
    BY <1>1, <1>3 DEF Unwinding
  <2>. QED
    BY <1>1, <1>3, <2>1 DEF SweptAbove
<1>. QED
  BY <1>1, <1>2, <1>3

(* The innermost call is not the report of a task that a cancellation below is
   in the middle of, and not its sweep unless it is right above its report. *)
LEMMA UnwindKept ==
    ASSUME TypeOK, NestedOK, calls # <<>>, Unwinding, NEW k \in 1..Depth - 1
    PROVE  CallOK(k)'
<1>1. /\ Depth \in Nat \ {0} /\ k \in Nat \ {0} /\ Depth' = Len(calls') /\ k \in 1..Depth /\ k < Depth
      /\ calls'[k] = calls[k] /\ UNCHANGED tree /\ Depth \in k + 1..Depth
      /\ k > 1 => calls'[k - 1] = calls[k - 1]
  <2>1. Depth \in Nat \ {0} /\ Depth' = Len(calls') /\ UNCHANGED tree /\ Kept
    BY TopType DEF Depth, Unwinding
  <2>2. Len(calls') \in {Depth - 1, Depth, Depth + 1}
    BY DEF Unwinding
  <2>3. k \in Nat \ {0} /\ k \in 1..Depth /\ k < Depth /\ Depth \in k + 1..Depth
    BY <2>1, <2>2
  <2>4. calls'[k] = calls[k] /\ (k > 1 => calls'[k - 1] = calls[k - 1])
    BY <2>1 DEF Kept
  <2>. QED
    BY <2>1, <2>3, <2>4
<1>2. CallOK(k) /\ NestOK(k, Depth)
  BY <1>1 DEF NestedOK, CallsOK, NestingOK
<1>3. SUFFICES ASSUME NEW n \in Nodes, calls[k].at = n
               PROVE  /\ calls[k].op = "start" => StartOK(k, n)'
                      /\ calls[k].op = "report" => ReportOK(k, n)'
                      /\ calls[k].op = "cancel" => k = Depth'
                      /\ calls[k].op = "sweep" => SweepOK(k, n)'
                      /\ calls[k].op = "cancelled" => CancelledOK(k, n)'
                      /\ calls[k].op = "startAll" => StartAllOK(k, n)'
                      /\ calls[k].op = "run" => RunOK(k, n)'
  BY <1>1 DEF CallOK, Nodes
<1>4. /\ calls[k].op = "start" => StartOK(k, n)
      /\ calls[k].op = "report" => ReportOK(k, n)
      /\ calls[k].op = "cancel" => k = Depth
      /\ calls[k].op = "sweep" => SweepOK(k, n)
      /\ calls[k].op = "cancelled" => CancelledOK(k, n)
      /\ calls[k].op = "startAll" => StartAllOK(k, n)
      /\ calls[k].op = "run" => RunOK(k, n)
  BY <1>2, <1>3 DEF CallOK
<1>5. /\ Kids(n)' = Kids(n) /\ kind(n)' = kind(n) /\ childCount(n)' = childCount(n) /\ Kids(n) \subseteq Nodes
      /\ \A i : childAt(n, i)' = childAt(n, i)
  BY <1>1, SameTree DEF childAt, Kids
<1>6. \A c \in Nodes : Stops(k, c) => Stops(k, c)'
  BY StopsKept
<1>7. SweptAbove(k, n) => SweptAbove(k, n)' \/ \A c \in Kids(n) : ~running'[c]
  BY SweptKept
<1>8. \A x \in Nodes : (running'[x] => running[x]) /\ (timer'[x] => timer[x]) /\ expired'[x] = expired[x]
  BY DEF Unwinding
<1>9. calls[k].op \in {"sweep", "report"} =>
         \A m \in Nodes : calls[Depth].at = m =>
            \/ m # n
            \/ calls[k].op = "report" /\ calls[Depth].op = "sweep"
  <2>1. SUFFICES ASSUME Inner(k, Depth), NEW m \in Nodes, calls[Depth].at = m
                 PROVE  m # n \/ (calls[k].op = "report" /\ calls[Depth].op = "sweep")
    BY <1>2 DEF NestOK
  <2>2. m \in Below(n) \/ (calls[k].op = "report" /\ Depth = k + 1 /\ SweptAbove(k, n))
    BY <1>3, <2>1 DEF Inner
  <2>3. m \in Below(n) => m # n
    <3>1. n \in Nat /\ tree.last[n] \in Nat
      BY TreeNodes
    <3>. QED
      BY <3>1 DEF Below
  <2>. QED
    BY <2>2, <2>3 DEF SweptAbove
<1>10. ASSUME calls[k].op \in {"sweep", "report"}
       PROVE  running[n] => running'[n]
  BY <1>9, <1>10 DEF Unwinding
<1>11. ASSUME calls[k].op = "sweep"
       PROVE  cancelling[n] => cancelling'[n]
  BY <1>9, <1>11 DEF Unwinding
<1>12. calls[k].op = "start" => StartOK(k, n)'
  BY <1>1, <1>4 DEF StartOK
<1>13. calls[k].op = "report" => ReportOK(k, n)'
  <2>1. SUFFICES ASSUME calls[k].op = "report"
                 PROVE  ReportOK(k, n)'
    OBVIOUS
  <2>2. ReportOK(k, n) /\ running'[n]
    BY <1>4, <1>10, <2>1 DEF ReportOK
  <2>3. calls[k].outcome # "Success" /\ calls[k].outcome # "Nothing" /\ ~timer'[n]
    BY <1>1, <1>8, <2>2 DEF ReportOK
  <2>4. \/ SweptAbove(k, n)'
        \/ kind(n) = "timeout" /\ expired'[n] /\ \A c \in Kids(n) : Stops(k, c)'
        \/ \A c \in Kids(n) : ~running'[c]
    BY <1>5, <1>6, <1>7, <1>8, <2>2 DEF ReportOK
  <2>. QED
    BY <1>1, <1>5, <2>2, <2>3, <2>4 DEF ReportOK
<1>14. calls[k].op = "cancel" => k = Depth'
  BY <1>1, <1>4
<1>15. calls[k].op = "sweep" => SweepOK(k, n)'
  <2>1. SUFFICES ASSUME calls[k].op = "sweep"
                 PROVE  SweepOK(k, n)'
    OBVIOUS
  <2>2. SweepOK(k, n) /\ running'[n] /\ cancelling'[n]
    BY <1>4, <1>10, <1>11, <2>1 DEF SweepOK
  <2>3. \A c \in Kids(n) : (\E j \in 1..childCount(n) : j < calls[k].i /\ c = childAt(n, j)) => Stops(k, c)'
    BY <1>5, <1>6, <2>2 DEF SweepOK
  <2>. QED
    BY <1>1, <1>5, <2>2, <2>3 DEF SweepOK
<1>16. calls[k].op = "cancelled" => CancelledOK(k, n)'
  <2>1. SUFFICES ASSUME calls[k].op = "cancelled", running'[n]
                 PROVE  /\ ~timer'[n]
                        /\ \/ SweptAbove(k, n)'
                           \/ kind(n) \in Wrappers /\ \A c \in Kids(n) : Stops(k, c)'
                           \/ \A c \in Kids(n) : ~running'[c]
    BY <1>5 DEF CancelledOK
  <2>2. /\ ~timer[n]
        /\ \/ SweptAbove(k, n)
           \/ kind(n) \in Wrappers /\ \A c \in Kids(n) : Stops(k, c)
           \/ \A c \in Kids(n) : ~running[c]
    BY <1>4, <1>8, <2>1 DEF CancelledOK
  <2>. QED
    BY <1>5, <1>6, <1>7, <1>8, <2>2
<1>17. calls[k].op = "startAll" => StartAllOK(k, n)'
  <2>1. SUFFICES ASSUME StartAllOK(k, n)
                 PROVE  StartAllOK(k, n)'
    BY <1>4
  <2>. QED
    BY <1>1, <1>5, <1>8, <2>1 DEF StartAllOK
<1>18. calls[k].op = "run" => RunOK(k, n)'
  <2>1. SUFFICES ASSUME RunOK(k, n)
                 PROVE  RunOK(k, n)'
    BY <1>4
  <2>2. k = 1 /\ n = Root /\ ~connected /\ heard = <<>> /\ Stops(1, Root)
    BY <2>1 DEF RunOK
  <2>3. ~connected' /\ heard' = <<>>
    BY <2>2 DEF Unwinding
  <2>4. Stops(1, Root)'
    BY <1>6, <2>2 DEF Root
  <2>. QED
    BY <2>2, <2>3, <2>4 DEF RunOK, Root
<1>. QED
  BY <1>12, <1>13, <1>14, <1>15, <1>16, <1>17, <1>18

LEMMA UnwindNests ==
    ASSUME TypeOK, NestedOK, calls # <<>>, Unwinding, NEW k \in 1..Depth - 1, NEW j \in k + 1..Depth - 1
    PROVE  NestOK(k, j)'
<1>1. Depth \in Nat \ {0}
  BY TopType
<1>2. k \in 1..Depth /\ j \in k + 1..Depth
  BY <1>1
<1>3. NestOK(k, j)
  BY <1>2 DEF NestedOK, NestingOK
<1>4. /\ UNCHANGED tree /\ Kept /\ Len(calls') \in {Depth - 1, Depth, Depth + 1}
      /\ \A x \in Nodes : running'[x] => running[x]
  BY DEF Unwinding
<1>. QED
  BY <1>3, <1>4, NestKept

(* Under a call that is not part of a cancellation there are only loops of starts. *)
LEMMA OnlyLoops ==
    ASSUME TypeOK, NestedOK, calls # <<>>, ~Unwinds(Depth), NEW k \in 1..Depth - 1
    PROVE  calls[k].op = "startAll" /\ CallOK(k) /\ Later(k, Depth) /\ StartAllOK(k, calls[k].at)
<1>1. Depth \in Nat \ {0}
  BY TopType
<1>2. k \in 1..Depth /\ Depth \in k + 1..Depth
  BY <1>1
<1>3. NestOK(k, Depth) /\ CallOK(k)
  BY <1>2 DEF NestedOK, NestingOK, CallsOK
<1>4. calls[k].at \in Nodes
  BY <1>2, FrameType
<1>5. calls[k].op = "startAll" /\ Later(k, Depth)
  BY <1>3 DEF NestOK
<1>. QED
  BY <1>3, <1>4, <1>5 DEF CallOK

(* What a step does that is not part of a cancellation *)
Growing ==
    /\ UNCHANGED tree
    /\ Kept /\ Len(calls') \in {Depth - 1, Depth, Depth + 1}
    /\ \A x \in Nodes : running'[x] => running[x] \/ (calls[Depth].op = "start" /\ calls[Depth].at = x)

LEMMA NoneRestarts ==
    ASSUME TypeOK, NestedOK, calls # <<>>, ~Unwinds(Depth), Growing, NEW k \in 1..Depth - 1,
           NEW n \in Nodes, calls[k].at = n, running'[n]
    PROVE  running[n]
<1>1. Later(k, Depth) /\ calls[k].op = "startAll"
  BY OnlyLoops
<1>2. k \in 1..Depth
  BY TopType
<1>3. PICK i \in Nat \ {0} : calls[k].i = i
  BY <1>2, FrameType
<1>4. SUFFICES ASSUME calls[Depth].op = "start", calls[Depth].at = n
               PROVE  FALSE
  BY DEF Growing
<1>5. n > n
  BY <1>1, <1>3, <1>4 DEF Later
<1>6. n \in Nat
  BY TreeNodes
<1>. QED
  BY <1>5, <1>6

LEMMA GrowKept ==
    ASSUME TypeOK, NestedOK, calls # <<>>, ~Unwinds(Depth), Growing, NEW k \in 1..Depth - 1
    PROVE  CallOK(k)'
<1>1. calls[k].op = "startAll" /\ CallOK(k) /\ Later(k, Depth)
  BY OnlyLoops
<1>2. k \in 1..Depth /\ calls'[k] = calls[k] /\ UNCHANGED tree
  BY TopType DEF Growing, Kept
<1>3. SUFFICES ASSUME NEW n \in Nodes, calls[k].at = n
               PROVE  StartAllOK(k, n)'
  BY <1>1, <1>2 DEF CallOK, Nodes
<1>4. PICK i \in Nat \ {0} : calls[k].i = i
  BY <1>2, FrameType
<1>5. StartAllOK(k, n)
  BY <1>1, <1>3 DEF CallOK
<1>6. Kids(n)' = Kids(n) /\ kind(n)' = kind(n) /\ childCount(n)' = childCount(n) /\ \A j : childAt(n, j)' = childAt(n, j)
  BY <1>2, SameTree DEF childAt
<1>7. ASSUME running'[n], NEW c \in Kids(n), NEW j \in 1..childCount(n), calls[k].i <= j, c = childAt(n, j)
      PROVE  ~running'[c]
  <2>1. running[n]
    BY <1>3, <1>7, NoneRestarts
  <2>2. ~running[c]
    BY <1>5, <1>7, <2>1 DEF StartAllOK
  <2>3. c \in Nodes
    BY <1>7 DEF Kids
  <2>4. SUFFICES ASSUME calls[Depth].op = "start", calls[Depth].at = c
                 PROVE  FALSE
    BY <2>2, <2>3 DEF Growing
  <2>5. tree.last[c] <= Bound(n, i)
    BY <1>1, <1>3, <1>4, <2>1, <2>3, <2>4 DEF Later
  <2>6. childCount(n) \in Nat /\ i \in 1..childCount(n) /\ i <= j /\ j \in Nat
    BY <1>4, <1>7, TreeNodes
  <2>7. childAt(n, i) \in Nodes /\ childAt(n, i) \in Nat /\ c \in Nat /\ tree.last[c] \in Nat /\ c <= tree.last[c]
    BY <2>3, <2>6, TreeNodes
  <2>8. childAt(n, i) <= c
    <3>1. CASE i = j
      BY <1>7, <2>7, <3>1
    <3>2. CASE i # j
      <4>1. j \in i + 1..childCount(n)
        BY <1>7, <2>6, <3>2
      <4>2. tree.last[childAt(n, i)] < childAt(n, j)
        BY <2>6, <4>1, Children
      <4>3. childAt(n, i) <= tree.last[childAt(n, i)] /\ tree.last[childAt(n, i)] \in Nat
        BY <2>7, TreeNodes
      <4>. QED
        BY <1>7, <2>7, <4>2, <4>3
    <3>. QED
      BY <3>1, <3>2
  <2>9. Bound(n, i) = childAt(n, i) - 1
    BY <2>6 DEF Bound
  <2>. QED
    BY <2>5, <2>7, <2>8, <2>9
<1>. QED
  BY <1>2, <1>5, <1>6, <1>7 DEF StartAllOK

LEMMA GrowNests ==
    ASSUME TypeOK, NestedOK, calls # <<>>, ~Unwinds(Depth), Growing,
           NEW k \in 1..Depth - 1, NEW j \in k + 1..Depth - 1
    PROVE  NestOK(k, j)'
<1>1. Depth \in Nat \ {0}
  BY TopType
<1>2. k \in 1..Depth /\ j \in k + 1..Depth
  BY <1>1
<1>3. NestOK(k, j)
  BY <1>2 DEF NestedOK, NestingOK
<1>4. UNCHANGED tree /\ Kept /\ Len(calls') \in {Depth - 1, Depth, Depth + 1}
  BY DEF Growing
<1>5. \A x \in Nodes : calls[k].op = "startAll" /\ calls[k].at = x /\ running'[x] => running[x]
  BY NoneRestarts
<1>. QED
  BY <1>3, <1>4, <1>5, NestKept

-----------------------------------------------------------------------------
(* The calls a step puts on the stack, over those that were there *)

(* A cancellation goes down. *)
LEMMA NestStays ==
    ASSUME TypeOK, NestedOK, calls # <<>>, UNCHANGED tree, Kept,
           NEW n \in Nodes, calls[Depth].at = n, Unwinds(Depth),
           NEW k \in 1..Depth - 1, NEW j \in {Depth, Depth + 1}, j <= Len(calls'),
           Unwinds(j)', calls'[j].at \in {n} \union Kids(n),
           calls[Depth].op = "sweep" =>
              /\ calls'[Depth].op = "sweep" /\ calls'[Depth].at = n
              /\ j = Depth + 1 => calls'[j].at \in Kids(n)
    PROVE  NestOK(k, j)'
<1>1. Depth \in Nat \ {0} /\ k \in Nat /\ Depth' = Len(calls')
  BY TopType DEF Depth
<1>2. k \in 1..Depth /\ Depth \in k + 1..Depth /\ calls'[k] = calls[k] /\ k < Depth' /\ j \in Nat
  BY <1>1 DEF Kept
<1>3. NestOK(k, Depth)
  BY <1>2 DEF NestedOK, NestingOK
<1>4. Later(k, j)'
  BY DEF Unwinds, Later
<1>5. ASSUME calls[k].op \in {"sweep", "report"}
      PROVE  Inner(k, j)'
  <2>1. SUFFICES ASSUME NEW q \in Nodes, NEW m \in Nodes, calls[k].at = q, calls'[j].at = m
                 PROVE  m \in Below(q) \/ (calls[k].op = "report" /\ j = k + 1 /\ SweptAbove(k, q)')
    BY <1>2 DEF Inner, Nodes, Below
  <2>2. n \in Below(q) \/ (calls[k].op = "report" /\ Depth = k + 1 /\ SweptAbove(k, q))
    BY <1>3, <1>5, <2>1 DEF NestOK, Inner
  <2>3. CASE n \in Below(q)
    <3>1. Kids(n) \subseteq Below(q)
      BY <2>3, Subtree
    <3>. QED
      BY <2>1, <2>3, <3>1
  <2>4. CASE calls[k].op = "report" /\ Depth = k + 1 /\ SweptAbove(k, q)
    <3>1. calls[Depth].op = "sweep" /\ n = q
      BY <2>4 DEF SweptAbove
    <3>2. CASE j = Depth
      BY <1>2, <2>4, <3>1, <3>2 DEF SweptAbove
    <3>3. CASE j = Depth + 1
      <4>1. m \in Kids(q)
        BY <2>1, <3>1, <3>3
      <4>. QED
        BY <4>1, KidsOf
    <3>. QED
      BY <3>2, <3>3
  <2>. QED
    BY <2>2, <2>3, <2>4
<1>. QED
  BY <1>2, <1>4, <1>5 DEF NestOK

(* It climbs to a task that neither sweeps nor has expired, which is below whatever
   the cancellation is below. *)
LEMMA NestRises ==
    ASSUME TypeOK, NestedOK, calls # <<>>, UNCHANGED tree, Kept,
           NEW p \in Nodes, NEW n \in Kids(p), calls[Depth].at = n, calls[Depth].op = "report", Unwinds(Depth),
           running[n], ~cancelling[p], ~(kind(p) = "timeout" /\ expired[p]),
           NEW k \in 1..Depth - 1, NEW j \in {Depth, Depth + 1}, j <= Len(calls'),
           Unwinds(j)', calls'[j].at = p
    PROVE  NestOK(k, j)'
<1>1. Depth \in Nat \ {0} /\ k \in Nat /\ Depth' = Len(calls')
  BY TopType DEF Depth
<1>2. /\ k \in 1..Depth /\ Depth \in k + 1..Depth /\ calls'[k] = calls[k] /\ k < Depth' /\ j \in Nat
      /\ k + 1 \in 1..Depth
  BY <1>1 DEF Kept
<1>3. NestOK(k, Depth) /\ CallOK(k) /\ CallOK(k + 1)
  BY <1>2 DEF NestedOK, NestingOK, CallsOK
<1>4. Later(k, j)'
  BY DEF Unwinds, Later
<1>5. ASSUME calls[k].op \in {"sweep", "report"}
      PROVE  Inner(k, j)'
  <2>1. SUFFICES ASSUME NEW q \in Nodes, calls[k].at = q
                 PROVE  p \in Below(q)
    BY <1>2 DEF Inner, Nodes, Below
  <2>2. n \in Nodes /\ tree.parent[n] = p
    BY KidsOf
  <2>3. n \in Below(q)
    <3>1. n \in Below(q) \/ (calls[k].op = "report" /\ Depth = k + 1 /\ SweptAbove(k, q))
      BY <1>3, <1>5, <2>1, <2>2 DEF NestOK, Inner
    <3>. QED
      BY <3>1 DEF SweptAbove
  <2>4. SUFFICES ASSUME p = q
                 PROVE  FALSE
    BY <2>2, <2>3, Subtree
  <2>5. CASE calls[k].op = "sweep"
    <3>1. SweepOK(k, q)
      BY <1>3, <2>1, <2>5 DEF CallOK
    <3>. QED
      BY <2>4, <3>1 DEF SweepOK
  <2>6. CASE calls[k].op = "report"
    <3>1. ReportOK(k, q)
      BY <1>3, <2>1, <2>6 DEF CallOK
    <3>2. SweptAbove(k, q)
      BY <2>4, <3>1 DEF ReportOK
    <3>3. SweepOK(k + 1, q)
      BY <1>3, <3>2 DEF CallOK, SweptAbove
    <3>. QED
      BY <2>4, <3>3 DEF SweepOK
  <2>. QED
    BY <1>5, <2>5, <2>6
<1>. QED
  BY <1>2, <1>4, <1>5 DEF NestOK

(* Over loops of starts *)
LEMMA NestOverLoops ==
    ASSUME TypeOK, NestedOK, calls # <<>>, ~Unwinds(Depth), Growing, NEW k \in 1..Depth - 1, NEW j, Later(k, j)'
    PROVE  NestOK(k, j)'
<1>1. calls[k].op = "startAll" /\ calls'[k] = calls[k]
  BY OnlyLoops DEF Growing, Kept
<1>. QED
  BY <1>1 DEF NestOK

LEMMA LaterBelow ==
    ASSUME TypeOK, NestedOK, calls # <<>>, ~Unwinds(Depth), Growing, NEW k \in 1..Depth - 1, NEW j,
           NEW n \in Nodes, calls[Depth].at = n, calls[Depth].op \in {"start", "startAll"},
           calls'[j].at \in {n} \union Kids(n)
    PROVE  NestOK(k, j)'
<1>1. Later(k, Depth) /\ calls'[k] = calls[k] /\ UNCHANGED tree
  BY OnlyLoops DEF Growing, Kept
<1>2. SUFFICES ASSUME NEW q \in Nodes, NEW m \in Nodes, NEW i \in Nat \ {0},
                      calls[k].at = q, calls[k].i = i, calls'[j].at = m
               PROVE  /\ m > q /\ (running'[q] => tree.last[m] <= Bound(q, i))
                      /\ tree.last[m] >= q
  <2>1. Nodes' = Nodes /\ tree' = tree /\ \A q \in Nodes, i \in Nat \ {0} : Bound(q, i)' = Bound(q, i)
    BY <1>1, SameTree
  <2>2. Later(k, j)'
    BY <1>1, <1>2, <2>1 DEF Later
  <2>. QED
    BY <2>2, NestOverLoops
<1>3. n > q /\ (running'[q] => tree.last[n] <= Bound(q, i))
  BY <1>1, <1>2, NoneRestarts DEF Later
<1>4. m >= n /\ tree.last[m] <= tree.last[n]
  <2>1. n \in Nat /\ tree.last[n] \in Nat
    BY TreeNodes
  <2>2. m = n \/ (n < m /\ tree.last[m] <= tree.last[n])
    BY <1>2, KidsOf
  <2>3. m \in Nat
    BY TreeNodes
  <2>. QED
    BY <2>1, <2>2, <2>3
<1>5. /\ q \in Nat /\ m \in Nat /\ n \in Nat /\ tree.last[m] \in Nat /\ tree.last[n] \in Nat
      /\ m <= tree.last[m]
  BY TreeNodes
<1>6. Bound(q, i) \in Int
  <2>1. i <= childCount(q) => childAt(q, i) \in Nodes /\ childAt(q, i) \in Nat
    <3>1. SUFFICES ASSUME i <= childCount(q)
                   PROVE  childAt(q, i) \in Nodes /\ childAt(q, i) \in Nat
      OBVIOUS
    <3>2. i \in 1..childCount(q)
      BY <3>1, TreeNodes
    <3>. QED
      BY <3>2, TreeNodes
  <2>2. tree.last[q] \in Nat
    BY TreeNodes
  <2>. QED
    BY <2>1, <2>2 DEF Bound
<1>. QED
  BY <1>3, <1>4, <1>5, <1>6

LEMMA BoundType ==
    ASSUME TypeOK, NEW q \in Nodes, NEW i \in Nat \ {0}
    PROVE  Bound(q, i) \in Int /\ Bound(q, i) <= tree.last[q]
<1>1. CASE i <= childCount(q)
  <2>1. i \in 1..childCount(q)
    BY <1>1, TreeNodes
  <2>2. childAt(q, i) \in Kids(q)
    BY <2>1, Children
  <2>3. childAt(q, i) \in Below(q)
    BY <2>2, KidsOf
  <2>. QED
    BY <1>1, <2>3, TreeNodes DEF Bound, Below
<1>2. CASE ~(i <= childCount(q))
  BY <1>2, TreeNodes DEF Bound
<1>. QED
  BY <1>1, <1>2

(* The parent of a task that is below q and before the children of q from i on is
   q or is there too. *)
LEMMA ParentBefore ==
    ASSUME TypeOK, NEW q \in Nodes, NEW i \in Nat \ {0}, NEW p \in Nodes, NEW n \in Kids(p),
           n > q, tree.last[n] <= Bound(q, i), p # q
    PROVE  p > q /\ tree.last[p] <= Bound(q, i)
<1>1. n \in Nodes /\ tree.parent[n] = p /\ p < n
  BY KidsOf
<1>2. /\ n \in Nat /\ q \in Nat /\ p \in Nat /\ n <= tree.last[n] /\ tree.last[n] \in Nat
      /\ tree.last[q] \in Nat /\ tree.last[p] \in Nat
  BY <1>1, TreeNodes
<1>3. Bound(q, i) \in Int /\ Bound(q, i) <= tree.last[q]
  BY BoundType
<1>4. n \in Below(q)
  BY <1>2, <1>3 DEF Below
<1>5. p \in Below(q)
  BY <1>1, <1>4, Subtree
<1>6. p > q /\ tree.last[p] <= tree.last[q]
  BY <1>2, <1>5, Subtree
<1>7. SUFFICES ASSUME i <= childCount(q), tree.last[p] > Bound(q, i)
               PROVE  FALSE
  BY <1>2, <1>3, <1>6 DEF Bound
<1>8. i \in 1..childCount(q)
  BY <1>7, TreeNodes
<1>. DEFINE c == childAt(q, i)
<1>9. c \in Kids(q) /\ Bound(q, i) = c - 1
  BY <1>7, <1>8, Children DEF Bound
<1>. HIDE DEF c
<1>10. c \in Nodes /\ c \in Nat /\ tree.parent[c] = q
  BY <1>9, KidsOf, TreeNodes
<1>11. c \in Below(p)
  BY <1>1, <1>2, <1>7, <1>9, <1>10 DEF Below
<1>12. tree.parent[c] >= p
  BY <1>10, <1>11, Subtree
<1>. QED
  BY <1>2, <1>6, <1>10, <1>12

LEMMA LaterRises ==
    ASSUME TypeOK, NestedOK, calls # <<>>, ~Unwinds(Depth), Growing, NEW k \in 1..Depth - 1, NEW j,
           NEW p \in Nodes, NEW n \in Kids(p), ~running'[n],
           calls[Depth].at = n, calls[Depth].op = "report", calls[Depth].outcome = "Success",
           \/ calls'[j].at = p /\ calls'[j].op = "report"
           \/ /\ calls'[j].at \in Kids(p) /\ tree.last[n] < calls'[j].at /\ calls'[j].op = "start"
              /\ kind(p) = "sequential"
    PROVE  NestOK(k, j)'
<1>1. Later(k, Depth) /\ calls'[k] = calls[k] /\ UNCHANGED tree /\ CallOK(k) /\ calls[k].op = "startAll"
  BY OnlyLoops DEF Growing, Kept
<1>2. SUFFICES ASSUME NEW q \in Nodes, NEW m \in Nodes, NEW i \in Nat \ {0},
                      calls[k].at = q, calls[k].i = i, calls'[j].at = m
               PROVE  /\ calls'[j].op = "start" => m > q /\ (running'[q] => tree.last[m] <= Bound(q, i))
                      /\ calls'[j].op = "report" =>
                            /\ tree.last[m] >= q
                            /\ running'[q] => m = q \/ (m > q /\ tree.last[m] <= Bound(q, i))
  <2>1. Nodes' = Nodes /\ tree' = tree /\ \A q \in Nodes, i \in Nat \ {0} : Bound(q, i)' = Bound(q, i)
    BY <1>1, SameTree
  <2>2. Later(k, j)'
    BY <1>1, <1>2, <2>1 DEF Later
  <2>. QED
    BY <2>2, NestOverLoops
<1>3. n \in Nodes /\ tree.last[n] <= tree.last[p] /\ p # n
  <2>1. n \in Nodes /\ tree.last[n] <= tree.last[p] /\ p < n
    BY KidsOf
  <2>2. n \in Nat /\ p \in Nat
    BY <2>1, TreeNodes
  <2>. QED
    BY <2>1, <2>2
<1>4. tree.last[n] >= q /\ (running[q] => n = q \/ (n > q /\ tree.last[n] <= Bound(q, i)))
  BY <1>1, <1>2, <1>3 DEF Later
<1>5. /\ q \in Nat /\ m \in Nat /\ n \in Nat /\ p \in Nat /\ tree.last[m] \in Nat /\ tree.last[n] \in Nat
      /\ tree.last[p] \in Nat /\ Bound(q, i) \in Int
  BY <1>3, TreeNodes, BoundType
<1>6. ASSUME running'[q]
      PROVE  p = q \/ (p > q /\ tree.last[p] <= Bound(q, i))
  <2>1. running[q] /\ n # q
    BY <1>2, <1>6, NoneRestarts
  <2>2. n > q /\ tree.last[n] <= Bound(q, i)
    BY <1>4, <2>1
  <2>. QED
    BY <2>2, ParentBefore
<1>7. CASE calls'[j].op = "report"
  <2>1. m = p
    BY <1>2, <1>7
  <2>2. tree.last[m] >= q
    BY <1>3, <1>4, <1>5, <2>1
  <2>. QED
    BY <1>6, <1>7, <2>1, <2>2
<1>8. CASE calls'[j].op = "start"
  <2>1. m \in Kids(p) /\ tree.last[n] < m /\ kind(p) = "sequential"
    BY <1>2, <1>8
  <2>2. m > q
    BY <1>4, <1>5, <2>1
  <2>3. kind(q) = "parallel"
    BY <1>1, <1>2 DEF CallOK, StartAllOK
  <2>4. tree.last[m] <= tree.last[p]
    BY <2>1, KidsOf
  <2>5. running'[q] => tree.last[m] <= Bound(q, i)
    BY <1>5, <1>6, <2>1, <2>3, <2>4
  <2>. QED
    BY <1>8, <2>2, <2>5
<1>. QED
  BY <1>7, <1>8

LEMMA NestNothing ==
    ASSUME TypeOK, NestedOK, calls # <<>>, ~Unwinds(Depth), Growing, NEW k \in 1..Depth - 1, NEW j,
           calls'[j].op \notin {"start", "startAll"}, calls'[j].op = "report" => calls'[j].outcome # "Success"
    PROVE  NestOK(k, j)'
<1>1. Later(k, j)'
  BY DEF Later
<1>. QED
  BY <1>1, NestOverLoops

(* The parts of the invariant a step is shown to preserve, one by one *)
LEMMA Assembled ==
    ASSUME Len(calls') \in Nat, UNCHANGED tree,
           \A k \in 1..Len(calls') : CallOK(k)',
           \A k \in 1..Len(calls') : \A j \in k + 1..Len(calls') : NestOK(k, j)',
           \A x \in Nodes : TaskOK(x)' /\ ParentOK(x)' /\ AwaitOK(x)' /\ EarnOK(x)'
    PROVE  CallsOK' /\ NestingOK' /\ NodesOK'
<1>1. Depth' = Len(calls') /\ Nodes' = Nodes
  BY DEF Depth, Nodes
<1>. QED
  BY <1>1 DEF CallsOK, NestingOK, NodesOK

-----------------------------------------------------------------------------
(* What the stack says of a task, before and after a step *)

Steps == Kept /\ Len(calls') \in {Depth - 1, Depth, Depth + 1}

CoveredBelow(x, i) == \E k \in 1..Depth - 1 : calls[k].op = "startAll" /\ calls[k].at = x /\ calls[k].i <= i

LEMMA StepsOn ==
    ASSUME TypeOK, calls # <<>>, Steps
    PROVE  /\ Depth \in Nat \ {0} /\ Depth' = Len(calls') /\ Len(calls') \in Nat /\ Top = calls[Depth]
           /\ \A k \in 1..Depth - 1 : calls'[k] = calls[k] /\ k \in 1..Len(calls') /\ k \in 1..Depth
           /\ \A k \in 1..Depth : k \in 1..Depth - 1 \/ k = Depth
           /\ \A k \in 1..Len(calls') : k \in 1..Depth - 1 \/ k \in Depth..Len(calls')
           /\ \A k \in Depth..Len(calls') : k \in 1..Len(calls') /\ k \in {Depth, Depth + 1}
<1>1. Depth \in Nat \ {0} /\ Top = calls[Depth]
  BY TopType
<1>2. Depth' = Len(calls') /\ Len(calls') \in {Depth - 1, Depth, Depth + 1}
  BY DEF Steps, Depth
<1>3. \A k \in 1..Depth - 1 : calls'[k] = calls[k] /\ k \in 1..Len(calls') /\ k \in 1..Depth
  BY <1>1, <1>2 DEF Steps, Kept
<1>. QED
  BY <1>1, <1>2, <1>3

LEMMA ClosingStays ==
    ASSUME TypeOK, calls # <<>>, Steps, NEW x \in Nodes, Closing(x),
           ~(calls[Depth].op \in {"report", "cancelled"} /\ calls[Depth].at = x)
    PROVE  Closing(x)'
BY StepsOn DEF Closing

LEMMA SweepingStays ==
    ASSUME TypeOK, calls # <<>>, Steps, NEW x \in Nodes, Sweeping(x),
           ~(calls[Depth].op = "sweep" /\ calls[Depth].at = x)
    PROVE  Sweeping(x)'
BY StepsOn DEF Sweeping

LEMMA StartingIs ==
    ASSUME TypeOK, CallsOK, calls # <<>>, Steps, NEW c \in Nodes
    PROVE  /\ Starting(c) <=> calls[Depth].op = "start" /\ calls[Depth].at = c
           /\ Starting(c)' <=> \E k \in Depth..Len(calls') : calls'[k].op = "start" /\ calls'[k].at = c
<1>1. ASSUME NEW k \in 1..Depth - 1
      PROVE  calls[k].op # "start"
  <2>1. k \in 1..Depth /\ k # Depth /\ calls[k].at \in Nodes
    BY StepsOn, FrameType
  <2>. QED
    BY <2>1 DEF CallsOK, CallOK, StartOK
<1>2. Starting(c) <=> calls[Depth].op = "start" /\ calls[Depth].at = c
  <2>1. Depth \in 1..Depth /\ \A k \in 1..Depth : k \in 1..Depth - 1 \/ k = Depth
    BY StepsOn
  <2>. QED
    BY <1>1, <2>1 DEF Starting
<1>3. Starting(c)' <=> \E k \in Depth..Len(calls') : calls'[k].op = "start" /\ calls'[k].at = c
  <2>1. Depth' = Len(calls') /\ \A k \in 1..Depth - 1 : calls'[k] = calls[k]
    BY StepsOn
  <2>2. /\ \A k \in 1..Len(calls') : k \in 1..Depth - 1 \/ k \in Depth..Len(calls')
        /\ \A k \in Depth..Len(calls') : k \in 1..Len(calls')
    BY StepsOn
  <2>. QED
    BY <1>1, <2>1, <2>2 DEF Starting
<1>. QED
  BY <1>2, <1>3

LEMMA CoveredIs ==
    ASSUME TypeOK, calls # <<>>, Steps, NEW x \in Nodes, NEW i
    PROVE  /\ Covered(x, i) <=> \/ CoveredBelow(x, i)
                                \/ calls[Depth].op = "startAll" /\ calls[Depth].at = x /\ calls[Depth].i <= i
           /\ Covered(x, i)' <=>
                 \/ CoveredBelow(x, i)
                 \/ \E k \in Depth..Len(calls') : calls'[k].op = "startAll" /\ calls'[k].at = x /\ calls'[k].i <= i
<1>1. Depth \in 1..Depth /\ \A k \in 1..Depth : k \in 1..Depth - 1 \/ k = Depth
  BY StepsOn
<1>2. Depth' = Len(calls') /\ \A k \in 1..Depth - 1 : calls'[k] = calls[k] /\ k \in 1..Len(calls') /\ k \in 1..Depth
  BY StepsOn
<1>3. /\ \A k \in 1..Len(calls') : k \in 1..Depth - 1 \/ k \in Depth..Len(calls')
      /\ \A k \in Depth..Len(calls') : k \in 1..Len(calls')
  BY StepsOn
<1>4. Covered(x, i) <=> \/ CoveredBelow(x, i)
                        \/ calls[Depth].op = "startAll" /\ calls[Depth].at = x /\ calls[Depth].i <= i
  BY <1>1, <1>2 DEF Covered, CoveredBelow
<1>5. Covered(x, i)' <=>
         \/ CoveredBelow(x, i)
         \/ \E k \in Depth..Len(calls') : calls'[k].op = "startAll" /\ calls'[k].at = x /\ calls'[k].i <= i
  BY <1>2, <1>3 DEF Covered, CoveredBelow
<1>. QED
  BY <1>4, <1>5

LEMMA OwnerKept ==
    ASSUME TypeOK, OwnerOK, calls # <<>>, Steps, UNCHANGED <<connected, heard, runs, dropped>>,
           Active(Root)' <=> Active(Root), calls[Depth].op # "run"
    PROVE  OwnerOK'
<1>1. ASSUME runs > 0, ~connected
      PROVE  Depth' > 0 /\ calls'[1].op = "run"
  <2>1. Depth > 0 /\ calls[1].op = "run"
    BY <1>1 DEF OwnerOK
  <2>2. 1 \in 1..Depth - 1
    BY <2>1, StepsOn
  <2>. QED
    BY <2>1, <2>2, StepsOn
<1>. QED
  BY <1>1 DEF OwnerOK

(* A step keeps the invariant when what it puts on the stack is in order. *)
NewOK ==
    /\ \A k \in Depth..Len(calls') : CallOK(k)'
    /\ \A k \in 1..Depth - 1 : \A j \in Depth..Len(calls') : NestOK(k, j)'
    /\ \A k \in Depth..Len(calls') : \A j \in k + 1..Len(calls') : NestOK(k, j)'

LEMMA NewSuffices ==
    ASSUME TypeOK, NestedOK, calls # <<>>, UNCHANGED tree, Steps, NewOK,
           \A k \in 1..Depth - 1 : CallOK(k)',
           \A k \in 1..Depth - 1 : \A j \in k + 1..Depth - 1 : NestOK(k, j)',
           \A x \in Nodes : TaskOK(x)' /\ ParentOK(x)' /\ AwaitOK(x)' /\ EarnOK(x)'
    PROVE  CallsOK' /\ NestingOK' /\ NodesOK'
<1>1. /\ Depth \in Nat \ {0} /\ Len(calls') \in Nat
      /\ \A k \in 1..Len(calls') : k \in 1..Depth - 1 \/ k \in Depth..Len(calls')
  BY StepsOn
<1>2. \A k \in 1..Len(calls') : CallOK(k)'
  BY <1>1 DEF NewOK
<1>3. ASSUME NEW k \in 1..Len(calls'), NEW j \in k + 1..Len(calls')
      PROVE  NestOK(k, j)'
  <2>1. CASE k \in Depth..Len(calls')
    BY <2>1 DEF NewOK
  <2>2. CASE k \in 1..Depth - 1 /\ j \in Depth..Len(calls')
    BY <2>2 DEF NewOK
  <2>3. CASE k \in 1..Depth - 1 /\ j \in k + 1..Depth - 1
    BY <2>3
  <2>4. j \in Depth..Len(calls') \/ j \in k + 1..Depth - 1
    BY <1>1
  <2>. QED
    BY <1>1, <2>1, <2>2, <2>3, <2>4
<1>. QED
  BY <1>1, <1>2, <1>3, Assembled

LEMMA GrowSuffices ==
    ASSUME TypeOK, NestedOK, calls # <<>>, ~Unwinds(Depth), Growing, NewOK,
           \A x \in Nodes : TaskOK(x)' /\ ParentOK(x)' /\ AwaitOK(x)' /\ EarnOK(x)'
    PROVE  CallsOK' /\ NestingOK' /\ NodesOK'
<1>1. Steps /\ UNCHANGED tree
  BY DEF Growing, Steps
<1>. QED
  BY <1>1, GrowKept, GrowNests, NewSuffices

LEMMA UnwindSuffices ==
    ASSUME TypeOK, NestedOK, calls # <<>>, Unwinding, NewOK,
           \A x \in Nodes : TaskOK(x)' /\ ParentOK(x)' /\ AwaitOK(x)' /\ EarnOK(x)'
    PROVE  CallsOK' /\ NestingOK' /\ NodesOK'
<1>1. Steps /\ UNCHANGED tree
  BY DEF Unwinding, Steps
<1>. QED
  BY <1>1, UnwindKept, UnwindNests, NewSuffices

(* What task x waits for is unchanged, whether its children have a call to start
   them or run. *)
SameWaits(x) ==
    IF kind(x) = "parallel"
    THEN \A d \in Kids(x), j \in 1..childCount(x) :
            d = childAt(x, j) => ((Covered(x, j)' \/ Active(d)') <=> (Covered(x, j) \/ Active(d)))
    ELSE \A d \in Kids(x) : Active(d)' <=> Active(d)

LEMMA AwaitSame ==
    ASSUME TypeOK, UNCHANGED tree, NEW x \in Nodes, AwaitOK(x), Same(x), Closing(x) => Closing(x)',
           running[x] => SameWaits(x)
    PROVE  AwaitOK(x)'
<1>1. SUFFICES ASSUME running[x], ~Closing(x)
               PROVE  AwaitOK(x)'
  BY DEF AwaitOK, Same
<1>2. /\ Kids(x)' = Kids(x) /\ kind(x)' = kind(x) /\ childCount(x)' = childCount(x)
      /\ \A j : childAt(x, j)' = childAt(x, j)
  BY SameTree DEF childAt
<1>3. CASE kind(x) = "parallel"
  <2>1. \A j \in 1..childCount(x) : childAt(x, j) \in Kids(x)
    BY Children
  <2>2. \A j \in 1..childCount(x) : j \in Owed(x)' <=> Covered(x, j)' \/ \E d \in Kids(x) : d = childAt(x, j) /\ Active(d)'
    BY <1>2 DEF Owed
  <2>3. \A j \in 1..childCount(x) : j \in Owed(x) <=> Covered(x, j) \/ \E d \in Kids(x) : d = childAt(x, j) /\ Active(d)
    BY DEF Owed
  <2>4. \A j \in 1..childCount(x) : j \in Owed(x)' <=> j \in Owed(x)
    BY <1>1, <1>3, <2>1, <2>2, <2>3 DEF SameWaits
  <2>5. Owed(x) \subseteq 1..childCount(x) /\ Owed(x)' \subseteq 1..childCount(x)
    BY <1>2 DEF Owed
  <2>6. Owed(x)' = Owed(x)
    BY <2>4, <2>5
  <2>. QED
    BY <1>1, <1>2, <1>3, <2>6 DEF AwaitOK, Same
<1>4. CASE kind(x) # "parallel"
  <2>1. \A d \in Kids(x) : Active(d)' <=> Active(d)
    BY <1>1, <1>4 DEF SameWaits
  <2>2. childAt(x, index[x])' = childAt(x, index[x])
    BY DEF childAt, Same
  <2>. QED
    BY <1>1, <1>2, <1>4, <2>1, <2>2 DEF AwaitOK, Same
<1>. QED
  BY <1>3, <1>4

LEMMA EarnSame ==
    ASSUME TypeOK, UNCHANGED tree, NEW x \in Nodes, EarnOK(x), Same(x), Closing(x) => Closing(x)',
           running[x] => SameWaits(x) /\ said[x] # "Success",
           NEW n, \A d \in Kids(x) : d # n => said'[d] = said[d],
           n \in Kids(x) => running[x],
           running[x] /\ kind(x) = "sequential" => n \notin Kids(x) \/ (n = childAt(x, index[x]) /\ index[x] <= childCount(x)),
           running[x] /\ kind(x) = "parallel" /\ n \in Kids(x) => Active(n)'
    PROVE  EarnOK(x)'
<1>1. /\ Kids(x)' = Kids(x) /\ kind(x)' = kind(x) /\ childCount(x)' = childCount(x)
      /\ \A j : childAt(x, j)' = childAt(x, j)
  BY SameTree DEF childAt
<1>2. said'[x] = "Success" => \A d \in Kids(x) : said'[d] = "Success"
  BY DEF EarnOK, Same
<1>3. ASSUME running[x], kind(x) = "sequential", NEW d \in Kids(x), NEW j \in 1..childCount(x),
             j < index[x], d = childAt(x, j)
      PROVE  said'[d] = "Success"
  <2>1. said[d] = "Success"
    BY <1>3 DEF EarnOK
  <2>2. d # n
    <3>1. SUFFICES ASSUME n = childAt(x, index[x]), index[x] <= childCount(x)
                   PROVE  d # n
      BY <1>3
    <3>2. index[x] \in j + 1..childCount(x)
      BY <1>3, <3>1, TreeNodes DEF TypeOK
    <3>. QED
      BY <1>3, <3>1, <3>2, Children
  <2>. QED
    BY <2>1, <2>2
<1>4. ASSUME running[x], kind(x) = "parallel", ~Closing(x)', NEW d \in Kids(x), NEW j \in 1..childCount(x),
             d = childAt(x, j), ~Active(d)', ~Covered(x, j)'
      PROVE  said'[d] = "Success"
  <2>1. ~Active(d) /\ ~Covered(x, j)
    BY <1>4 DEF SameWaits
  <2>2. said[d] = "Success" /\ d # n
    BY <1>4, <2>1 DEF EarnOK
  <2>. QED
    BY <2>2
<1>5. running[x] /\ kind(x) = "sequential" =>
         \A d \in Kids(x) : (\E j \in 1..childCount(x) : j < index[x] /\ d = childAt(x, j)) => said'[d] = "Success"
  BY <1>3
<1>6. running[x] /\ kind(x) = "parallel" /\ ~Closing(x)' =>
         \A d \in Kids(x), j \in 1..childCount(x) :
            d = childAt(x, j) /\ ~Active(d)' /\ ~Covered(x, j)' => said'[d] = "Success"
  BY <1>4
<1>. QED
  BY <1>1, <1>2, <1>5, <1>6 DEF EarnOK, Same

-----------------------------------------------------------------------------
(* ParallelGroup's loop of starts *)

LEMMA StartAllKept ==
    ASSUME IInv, TypeOK', NEW n \in Nodes, startAll(n)
    PROVE  IInv'
<1>1. TypeOK /\ NestedOK /\ CallsOK /\ NodesOK /\ OwnerOK /\ ~tripped
  BY DEF IInv, NestedOK
<1>2. calls # <<>> /\ Top.op = "startAll" /\ Top.at = n
  BY DEF startAll, Called
<1>3. UNCHANGED <<running, done, said, cancelling, index, pending, expired, attempt, timer, tripped, tree,
                  connected, heard, runs, dropped>>
  BY DEF startAll, members, wrappers, runner
<1>4. /\ Depth \in Nat \ {0} /\ Top = calls[Depth] /\ calls[Depth].op = "startAll" /\ calls[Depth].at = n
      /\ Top.i \in Nat \ {0}
  BY <1>1, <1>2, TopType
<1>5. StartAllOK(Depth, n) /\ ~Unwinds(Depth) /\ kind(n) = "parallel"
  BY <1>1, <1>4 DEF CallsOK, CallOK, Unwinds, StartAllOK
<1>. DEFINE i == Top.i
            c == childAt(n, i)
<1>6. /\ childCount(n) \in Nat /\ i \in Nat \ {0} /\ i = calls[Depth].i
      /\ i <= childCount(n) => i \in 1..childCount(n) /\ c \in Nodes /\ c \in Kids(n)
  <2>1. childCount(n) \in Nat /\ i \in Nat \ {0} /\ i = calls[Depth].i
    BY <1>1, <1>4, TreeNodes
  <2>2. i <= childCount(n) => i \in 1..childCount(n)
    BY <2>1
  <2>. QED
    BY <1>1, <2>1, <2>2, TreeNodes, Children
<1>7. \/ Pops /\ (i > childCount(n) \/ ~running[n])
      \/ Pushes(From("startAll", n, i + 1), Call("start", c)) /\ i <= childCount(n) /\ running[n]
  <2>1. CASE i > childCount(n) \/ ~running[n]
    <3>1. Makes(<<>>)
      BY <2>1 DEF startAll, Makes
    <3>. QED
      BY <1>1, <1>2, <2>1, <3>1, PopsWhen
  <2>2. CASE ~(i > childCount(n) \/ ~running[n])
    <3>1. Makes(<<From("startAll", n, i + 1), Call("start", c)>>)
      BY <2>2 DEF startAll, Makes
    <3>2. From("startAll", n, i + 1) \in Frames /\ Call("start", c) \in Frames
      BY <1>1, <1>6, <2>2, CallTypes DEF Ops
    <3>3. Pushes(From("startAll", n, i + 1), Call("start", c))
      BY <1>1, <1>2, <3>1, <3>2, PushesWhen
    <3>. QED
      BY <1>6, <2>2, <3>3
  <2>. QED
    BY <2>1, <2>2
<1>. HIDE DEF i, c
<1>. DEFINE more == i <= childCount(n) /\ running[n]
<1>8. /\ Steps
      /\ ~more => Len(calls') = Depth - 1
      /\ more => /\ Len(calls') = Depth + 1 /\ c \in Kids(n) /\ c \in Nodes /\ i \in 1..childCount(n)
                 /\ calls'[Depth].op = "startAll" /\ calls'[Depth].at = n /\ calls'[Depth].i = i + 1
                 /\ calls'[Depth + 1].op = "start" /\ calls'[Depth + 1].at = c
  BY <1>4, <1>6, <1>7 DEF Steps, Pops, Pushes, From, Call
<1>. HIDE DEF more
<1>9. Growing /\ Depth' = Len(calls')
  BY <1>3, <1>8 DEF Growing, Steps, Depth
<1>10. Local(n, n)
  <2>1. \A k \in Depth..Len(calls') : NewAt(k, n, n)'
    <3>1. SUFFICES ASSUME more, NEW k \in {Depth, Depth + 1}
                   PROVE  NewAt(k, n, n)'
      BY <1>1, <1>2, <1>4, <1>8, StepsOn
    <3>2. Kids(n)' = Kids(n)
      BY <1>3, SameTree
    <3>. QED
      BY <1>8, <3>1, <3>2 DEF NewAt
  <2>. QED
    BY <1>3, <1>8, <2>1 DEF Local, Same, Steps
<1>11. \A k \in Depth..Len(calls') : more /\ k \in {Depth, Depth + 1}
  BY <1>1, <1>2, <1>4, <1>8, StepsOn
<1>12. NewOK
  <2>0. Kids(n)' = Kids(n) /\ kind(n)' = kind(n) /\ childCount(n)' = childCount(n) /\ \A j : childAt(n, j)' = childAt(n, j)
    BY <1>3, SameTree DEF childAt
  <2>1. ASSUME NEW k \in Depth..Len(calls')
        PROVE  CallOK(k)'
    <3>1. CASE k = Depth
      <4>1. StartAllOK(k, n)'
        <5>1. \A d \in Kids(n) : (\E j \in 1..childCount(n) : i + 1 <= j /\ d = childAt(n, j)) => ~running[d]
          BY <1>5, <1>6, <1>8, <1>11 DEF StartAllOK, more
        <5>. QED
          BY <1>3, <1>5, <1>8, <1>11, <2>0, <3>1, <5>1 DEF StartAllOK
      <4>. QED
        BY <1>8, <1>11, <3>1, <4>1 DEF CallOK
    <3>2. CASE k = Depth + 1
      <4>1. ~running[c]
        BY <1>5, <1>6, <1>8, <1>11 DEF StartAllOK, more, c
      <4>2. c # Root /\ tree.parent[c] = n /\ running[n]
        BY <1>1, <1>8, <1>11, KidsOf DEF more
      <4>3. ASSUME NEW d \in Nodes, d = c
            PROVE  StartOK(k, d)'
        <5>1. /\ k = Depth' /\ ~running'[d] /\ d # Root /\ n = tree'.parent[d] /\ running'[n] /\ Nodes' = Nodes
              /\ k > 1 /\ k - 1 = Depth
          BY <1>3, <1>4, <1>8, <1>9, <1>11, <3>2, <4>1, <4>2, <4>3 DEF Nodes
        <5>2. calls'[k - 1].op = "startAll" /\ calls'[k - 1].at = n
          BY <1>8, <1>11, <5>1
        <5>. QED
          BY <1>5, <2>0, <5>1, <5>2 DEF StartOK, Root
      <4>4. calls'[k].op = "start" /\ calls'[k].at = c
        BY <1>8, <1>11, <3>2
      <4>. QED
        BY <1>3, <4>3, <4>4 DEF CallOK, Nodes
    <3>. QED
      BY <1>11, <3>1, <3>2
  <2>2. ASSUME NEW k \in 1..Depth - 1, NEW j \in Depth..Len(calls')
        PROVE  NestOK(k, j)'
    BY <1>1, <1>2, <1>4, <1>5, <1>8, <1>9, <1>11, LaterBelow
  <2>3. ASSUME NEW k \in Depth..Len(calls'), NEW j \in k + 1..Len(calls')
        PROVE  NestOK(k, j)'
    <3>1. k = Depth /\ j = Depth + 1
      BY <1>4, <1>8, <1>11
    <3>2. c > n /\ tree.last[c] <= Bound(n, i + 1)
      <4>1. c > n /\ tree.last[c] <= tree.last[n] /\ c \in Nat /\ n \in Nat
        BY <1>1, <1>8, <1>11, KidsOf, TreeNodes
      <4>2. CASE i + 1 <= childCount(n)
        <5>1. i + 1 \in i + 1..childCount(n) /\ i \in 1..childCount(n)
          BY <1>6, <1>8, <1>11, <4>2
        <5>2. tree.last[c] < childAt(n, i + 1)
          BY <1>1, <5>1, Children DEF c
        <5>3. tree.last[c] \in Nat /\ childAt(n, i + 1) \in Nat
          <6>1. i + 1 \in 1..childCount(n)
            BY <1>6, <4>2
          <6>2. childAt(n, i + 1) \in Nodes
            BY <1>1, <6>1, TreeNodes
          <6>. QED
            BY <1>1, <1>8, <1>11, <6>2, TreeNodes
        <5>. QED
          BY <4>1, <4>2, <5>2, <5>3 DEF Bound
      <4>3. CASE ~(i + 1 <= childCount(n))
        BY <4>1, <4>3 DEF Bound
      <4>. QED
        BY <4>2, <4>3
    <3>3. Nodes' = Nodes /\ tree' = tree /\ \A q \in Nodes, w \in Nat \ {0} : Bound(q, w)' = Bound(q, w)
      BY <1>3, SameTree
    <3>4. calls'[k].op = "startAll" /\ calls'[k].at = n /\ calls'[k].i = i + 1 /\ calls'[j].op = "start" /\ calls'[j].at = c
      BY <1>8, <1>11, <3>1
    <3>5. Later(k, j)'
      BY <3>2, <3>3, <3>4 DEF Later
    <3>. QED
      BY <3>4, <3>5 DEF NestOK
  <2>. QED
    BY <2>1, <2>2, <2>3 DEF NewOK
<1>13. ASSUME NEW x \in Nodes
       PROVE  TaskOK(x)' /\ ParentOK(x)' /\ AwaitOK(x)' /\ EarnOK(x)'
  <2>1. ParentOK(x)'
    BY <1>1, <1>3 DEF NodesOK, ParentOK, Root
  <2>2. CASE x # n
    BY <1>1, <1>2, <1>3, <1>10, <2>1, <2>2, FarNodes
  <2>3. CASE x = n
    <3>1. TaskOK(n) /\ AwaitOK(n) /\ EarnOK(n)
      BY <1>1 DEF NodesOK
    <3>2. /\ Kids(n)' = Kids(n) /\ kind(n)' = kind(n) /\ childCount(n)' = childCount(n)
          /\ \A j : childAt(n, j)' = childAt(n, j)
      BY <1>3, SameTree DEF childAt
    <3>3. (Closing(n) => Closing(n)') /\ (Sweeping(n) => Sweeping(n)')
      BY <1>1, <1>2, <1>4, <1>8, ClosingStays, SweepingStays
    <3>4. TaskOK(n)'
      <4>1. childAt(n, index[n])' = childAt(n, index[n])
        BY <1>3 DEF childAt
      <4>. QED
        BY <1>3, <3>1, <3>2, <3>3, <4>1 DEF TaskOK
    <3>5. ASSUME running[n], NEW j \in 1..childCount(n), NEW d \in Kids(n), d = childAt(n, j)
          PROVE  (Covered(n, j)' \/ Active(d)') <=> (Covered(n, j) \/ Active(d))
      <4>1. d \in Nodes
        BY <3>5 DEF Kids
      <4>2. Covered(n, j) <=> CoveredBelow(n, j) \/ i <= j
        BY <1>1, <1>2, <1>4, <1>6, <1>8, CoveredIs
      <4>3. Covered(n, j)' <=> CoveredBelow(n, j) \/ (more /\ i + 1 <= j)
        <5>1. Covered(n, j)' <=>
                 \/ CoveredBelow(n, j)
                 \/ \E k \in Depth..Len(calls') : calls'[k].op = "startAll" /\ calls'[k].at = n /\ calls'[k].i <= j
          BY <1>1, <1>2, <1>8, CoveredIs
        <5>2. more => Depth \in Depth..Len(calls')
          BY <1>4, <1>8
        <5>. QED
          BY <1>8, <1>11, <5>1, <5>2
      <4>4. ~Starting(d)
        BY <1>1, <1>2, <1>4, <1>8, <4>1, StartingIs
      <4>5. Starting(d)' <=> more /\ d = c
        <5>1. Starting(d)' <=> \E k \in Depth..Len(calls') : calls'[k].op = "start" /\ calls'[k].at = d
          BY <1>1, <1>2, <1>8, <4>1, StartingIs
        <5>2. more => Depth + 1 \in Depth..Len(calls')
          BY <1>4, <1>8
        <5>. QED
          BY <1>8, <1>11, <5>1, <5>2
      <4>6. j \in Nat /\ (i <= j => more)
        BY <1>6, <3>5 DEF more
      <4>7. more /\ d = c => i = j
        <5>1. SUFFICES ASSUME more, d = c, i # j
                       PROVE  FALSE
          OBVIOUS
        <5>2. i \in 1..childCount(n) /\ (i \in j + 1..childCount(n) \/ j \in i + 1..childCount(n))
          BY <1>6, <1>8, <4>6, <5>1
        <5>. QED
          BY <1>1, <3>5, <5>1, <5>2, Children DEF c
      <4>8. i = j => d = c
        BY <3>5 DEF c
      <4>. QED
        BY <1>3, <1>6, <4>2, <4>3, <4>4, <4>5, <4>6, <4>7, <4>8 DEF Active
    <3>6. running[n] => Owed(n)' = Owed(n)
      <4>1. SUFFICES ASSUME running[n]
                     PROVE  Owed(n)' = Owed(n)
        OBVIOUS
      <4>2. \A j \in 1..childCount(n) : childAt(n, j) \in Kids(n)
        BY <1>1, Children
      <4>4. \A j \in 1..childCount(n) : j \in Owed(n)' <=> Covered(n, j)' \/ \E d \in Kids(n) : d = childAt(n, j) /\ Active(d)'
        BY <3>2 DEF Owed
      <4>5. \A j \in 1..childCount(n) : j \in Owed(n) <=> Covered(n, j) \/ \E d \in Kids(n) : d = childAt(n, j) /\ Active(d)
        BY DEF Owed
      <4>6. \A j \in 1..childCount(n) : j \in Owed(n)' <=> j \in Owed(n)
        BY <3>5, <4>1, <4>2, <4>4, <4>5
      <4>7. Owed(n) \subseteq 1..childCount(n) /\ Owed(n)' \subseteq 1..childCount(n)
        BY <3>2 DEF Owed
      <4>. QED
        BY <4>6, <4>7
    <3>7. AwaitOK(n)'
      BY <1>3, <1>5, <3>1, <3>2, <3>3, <3>6 DEF AwaitOK
    <3>8. EarnOK(n)'
      <4>1. \A d \in Kids(n), j \in 1..childCount(n) :
               running[n] /\ d = childAt(n, j) /\ ~Active(d)' /\ ~Covered(n, j)' => ~Active(d) /\ ~Covered(n, j)
        BY <3>5
      <4>. QED
        BY <1>3, <1>5, <3>1, <3>2, <3>3, <4>1 DEF EarnOK
    <3>. QED
      BY <2>1, <2>3, <3>4, <3>7, <3>8
  <2>. QED
    BY <2>2, <2>3
<1>14. CallsOK' /\ NestingOK' /\ NodesOK'
  BY <1>1, <1>2, <1>5, <1>9, <1>12, <1>13, GrowSuffices
<1>15. OwnerOK'
  <2>1. Root \in Nodes
    BY <1>1, TreeTypes
  <2>2. ~Starting(Root)
    BY <1>1, <1>2, <1>4, <1>8, <2>1, StartingIs
  <2>3. ~Starting(Root)'
    <3>1. Starting(Root)' <=> \E k \in Depth..Len(calls') : calls'[k].op = "start" /\ calls'[k].at = Root
      BY <1>1, <1>2, <1>8, <2>1, StartingIs DEF Root
    <3>2. more => c # Root
      BY <1>1, <1>8, KidsOf
    <3>. QED
      BY <1>8, <1>11, <3>1, <3>2
  <2>4. Active(Root)' <=> Active(Root)
    BY <1>3, <2>2, <2>3 DEF Active, Root
  <2>. QED
    BY <1>1, <1>2, <1>3, <1>4, <1>8, <2>4, OwnerKept
<1>. QED
  BY <1>1, <1>3, <1>14, <1>15 DEF IInv

-----------------------------------------------------------------------------
(* Task::start *)

(* A start replaces the call by one of the task or of a child of it. *)
Started(n) ==
    /\ UNCHANGED <<tree, cancelling, connected, heard, runs, dropped>> /\ ~tripped'
    /\ running'[n] /\ ~done'[n] /\ said'[n] = "Nothing"
    /\ \A x \in Nodes : x # n => Same(x)
    /\ Kept /\ Len(calls') \in {Depth - 1, Depth}
    /\ Len(calls') = Depth => \/ calls'[Depth].at = n /\ calls'[Depth].op \in {"report", "startAll"}
                              \/ calls'[Depth].at \in Kids(n) /\ calls'[Depth].op = "start"

LEMMA StartFacts ==
    ASSUME IInv, NEW n \in Nodes, calls # <<>>, Top.op = "start", Top.at = n
    PROVE  /\ TypeOK /\ NestedOK /\ CallsOK /\ NodesOK /\ OwnerOK /\ ~tripped
           /\ calls[Depth].op = "start" /\ calls[Depth].at = n /\ ~Unwinds(Depth) /\ StartOK(Depth, n)
           /\ ~running[n] /\ ~timer[n] /\ ~cancelling[n] /\ \A c \in Kids(n) : ~running[c]
<1>1. TypeOK /\ NestedOK /\ CallsOK /\ NodesOK /\ OwnerOK /\ ~tripped
  BY DEF IInv, NestedOK
<1>2. Depth \in 1..Depth /\ calls[Depth].op = "start" /\ calls[Depth].at = n
  BY <1>1, TopType
<1>3. ~Unwinds(Depth) /\ StartOK(Depth, n)
  BY <1>1, <1>2 DEF Unwinds, CallsOK, CallOK
<1>4. ~running[n]
  BY <1>3 DEF StartOK
<1>5. ~timer[n] /\ \A c \in Kids(n) : ~running[c]
  BY <1>1, <1>4, KidsOf DEF NodesOK, TaskOK, ParentOK
<1>6. ~cancelling[n]
  <2>1. SUFFICES ASSUME Sweeping(n)
                 PROVE  FALSE
    BY <1>1 DEF NodesOK, TaskOK
  <2>2. PICK k \in 1..Depth : calls[k].op = "sweep" /\ calls[k].at = n
    BY <2>1 DEF Sweeping
  <2>3. SweepOK(k, n)
    BY <1>1, <2>2 DEF CallsOK, CallOK
  <2>. QED
    BY <1>4, <2>3 DEF SweepOK
<1>. QED
  BY <1>1, <1>2, <1>3, <1>4, <1>5, <1>6

LEMMA StartSteps ==
    ASSUME IInv, NEW n \in Nodes, calls # <<>>, Top.op = "start", Top.at = n, Started(n)
    PROVE  /\ Steps /\ Growing /\ UNCHANGED tree /\ \A x \in Nodes : x # n => Same(x)
           /\ \A k \in Depth..Len(calls') : k = Depth /\ Len(calls') = Depth
           /\ \A k \in 1..Depth - 1 : \A j \in Depth..Len(calls') : NestOK(k, j)'
           /\ \A k \in Depth..Len(calls') : \A j \in k + 1..Len(calls') : NestOK(k, j)'
<1>1. TypeOK /\ NestedOK /\ calls[Depth].op = "start" /\ calls[Depth].at = n /\ ~Unwinds(Depth) /\ Depth \in Nat \ {0}
  BY StartFacts, TopType
<1>2. Steps /\ UNCHANGED tree /\ \A x \in Nodes : x # n => Same(x)
  BY DEF Started, Steps
<1>3. Growing
  BY <1>1, <1>2 DEF Growing, Steps, Same
<1>4. \A k \in Depth..Len(calls') : k = Depth /\ Len(calls') = Depth
  BY <1>1 DEF Started
<1>5. ASSUME NEW k \in 1..Depth - 1, NEW j \in Depth..Len(calls')
      PROVE  NestOK(k, j)'
  <2>1. j = Depth /\ Len(calls') = Depth
    BY <1>4
  <2>2. calls'[j].at \in {n} \union Kids(n)
    BY <2>1 DEF Started
  <2>. QED
    BY <1>1, <1>3, <2>2, LaterBelow
<1>6. ASSUME NEW k \in Depth..Len(calls'), NEW j \in k + 1..Len(calls')
      PROVE  FALSE
  BY <1>1, <1>4
<1>. QED
  BY <1>2, <1>3, <1>4, <1>5, <1>6

(* The parent of a task that starts waited for it to start. *)
LEMMA StartParent ==
    ASSUME IInv, NEW n \in Nodes, calls # <<>>, Top.op = "start", Top.at = n, Started(n), n # Root,
           NEW p \in Nodes, p = tree.parent[n]
    PROVE  TaskOK(p)' /\ AwaitOK(p)' /\ EarnOK(p)'
<1>1. /\ TypeOK /\ NestedOK /\ CallsOK /\ NodesOK /\ calls[Depth].op = "start" /\ calls[Depth].at = n
      /\ StartOK(Depth, n) /\ ~running[n] /\ running'[n] /\ Steps /\ UNCHANGED tree
      /\ \A x \in Nodes : x # n => Same(x)
  BY StartFacts, StartSteps DEF Started
<1>2. n \in Kids(p) /\ p # n /\ Same(p)
  <2>1. n \in Kids(p)
    BY <1>1, HasParent
  <2>2. p # n
    BY <1>1, <2>1, KidsOf, TreeNodes
  <2>. QED
    BY <1>1, <2>1, <2>2
<1>3. running[p] /\ said[p] # "Success" /\ TaskOK(p) /\ AwaitOK(p) /\ EarnOK(p)
  BY <1>1 DEF StartOK, NodesOK, TaskOK
<1>4. (Closing(p) => Closing(p)') /\ (Sweeping(p) => Sweeping(p)')
  BY <1>1, ClosingStays, SweepingStays
<1>5. \A d \in Kids(p) : d \in Nodes /\ (d # n => running'[d] = running[d] /\ said'[d] = said[d])
  BY <1>1 DEF Kids, Same
<1>6. \A d \in Kids(p) : Active(d)' <=> Active(d)
  <2>1. SUFFICES ASSUME NEW d \in Kids(p)
                 PROVE  Active(d)' <=> Active(d)
    OBVIOUS
  <2>2. Starting(d) <=> d = n
    BY <1>1, <1>5, StartingIs
  <2>3. ~Starting(d)'
    <3>1. Starting(d)' <=> \E k \in Depth..Len(calls') : calls'[k].op = "start" /\ calls'[k].at = d
      BY <1>1, <1>5, StartingIs
    <3>2. d \notin Kids(n)
      BY <1>2 DEF Kids
    <3>3. \A k \in Depth..Len(calls') : k = Depth /\ Len(calls') = Depth
      BY StartSteps
    <3>4. Len(calls') = Depth => ~(calls'[Depth].op = "start" /\ calls'[Depth].at = d)
      BY <3>2 DEF Started
    <3>. QED
      BY <3>1, <3>3, <3>4
  <2>. QED
    BY <1>1, <1>5, <2>2, <2>3 DEF Active
<1>7. \A j \in 1..childCount(p) : Covered(p, j)' <=> Covered(p, j)
  <2>1. SUFFICES ASSUME NEW j \in 1..childCount(p)
                 PROVE  Covered(p, j)' <=> Covered(p, j)
    OBVIOUS
  <2>2. Covered(p, j) <=> CoveredBelow(p, j)
    BY <1>1, CoveredIs
  <2>3. Covered(p, j)' <=>
           \/ CoveredBelow(p, j)
           \/ \E k \in Depth..Len(calls') : calls'[k].op = "startAll" /\ calls'[k].at = p /\ calls'[k].i <= j
    BY <1>1, CoveredIs
  <2>4. \A k \in Depth..Len(calls') : k = Depth /\ Len(calls') = Depth
    BY StartSteps
  <2>5. Len(calls') = Depth => ~(calls'[Depth].op = "startAll" /\ calls'[Depth].at = p)
    BY <1>2 DEF Started
  <2>. QED
    BY <2>2, <2>3, <2>4, <2>5
<1>8. SameWaits(p)
  BY <1>6, <1>7 DEF SameWaits
<1>9. AwaitOK(p)'
  BY <1>1, <1>2, <1>3, <1>4, <1>8, AwaitSame
<1>10. kind(p) = "sequential" => n = childAt(p, index[p]) /\ index[p] <= childCount(p)
  BY <1>1 DEF StartOK
<1>11. EarnOK(p)'
  <2>1. Active(n)'
    BY <1>1 DEF Active
  <2>. QED
    BY <1>1, <1>2, <1>3, <1>4, <1>5, <1>8, <1>10, <2>1, EarnSame
<1>12. TaskOK(p)'
  <2>1. /\ Kids(p)' = Kids(p) /\ kind(p)' = kind(p) /\ childCount(p)' = childCount(p)
        /\ childAt(p, index[p])' = childAt(p, index[p])
    BY <1>1, <1>2, SameTree DEF childAt, Same
  <2>2. kind(p) = "retry" => ~timer[p] /\ attempt[p] >= 1
    BY <1>1 DEF StartOK
  <2>. QED
    BY <1>2, <1>3, <1>4, <1>5, <1>10, <2>1, <2>2 DEF TaskOK, Same
<1>. QED
  BY <1>9, <1>11, <1>12

LEMMA StartSuffices ==
    ASSUME IInv, TypeOK', NEW n \in Nodes, calls # <<>>, Top.op = "start", Top.at = n, Started(n),
           \A k \in Depth..Len(calls') : CallOK(k)', TaskOK(n)', AwaitOK(n)', EarnOK(n)'
    PROVE  IInv'
<1>1. /\ TypeOK /\ NestedOK /\ CallsOK /\ NodesOK /\ OwnerOK /\ calls[Depth].op = "start" /\ calls[Depth].at = n
      /\ ~Unwinds(Depth) /\ StartOK(Depth, n) /\ ~running[n] /\ running'[n] /\ Steps /\ Growing /\ UNCHANGED tree
      /\ \A x \in Nodes : x # n => Same(x)
  BY StartFacts, StartSteps DEF Started
<1>2. NewOK
  BY StartSteps DEF NewOK
<1>3. PICK p \in Nodes : p = IF n = Root THEN n ELSE tree.parent[n]
  BY <1>1, TreeNodes
<1>4. Local(n, p)
  <2>1. \A k \in Depth..Len(calls') : NewAt(k, n, p)'
    <3>1. SUFFICES ASSUME Len(calls') = Depth, NEW k, k = Depth
                   PROVE  NewAt(k, n, p)'
      BY StartSteps
    <3>2. Kids(n)' = Kids(n)
      BY <1>1, SameTree
    <3>. QED
      BY <3>1, <3>2 DEF NewAt, Started
  <2>. QED
    BY <1>1, <2>1 DEF Local, Same, Steps
<1>5. ASSUME NEW x \in Nodes
      PROVE  TaskOK(x)' /\ ParentOK(x)' /\ AwaitOK(x)' /\ EarnOK(x)'
  <2>1. TaskOK(x)' /\ AwaitOK(x)' /\ EarnOK(x)'
    <3>1. CASE x = n
      BY <3>1
    <3>2. CASE x # n /\ x = p
      BY <1>1, <1>3, <3>2, StartParent
    <3>3. CASE x # n /\ x # p
      BY <1>1, <1>3, <1>4, <3>3, FarNodes
    <3>. QED
      BY <3>1, <3>2, <3>3
  <2>2. ParentOK(x)'
    <3>1. SUFFICES ASSUME running'[x], x # Root
                   PROVE  running'[tree.parent[x]]
      BY <1>1 DEF ParentOK, Root
    <3>2. tree.parent[x] \in Nodes
      BY <1>1, TreeNodes
    <3>3. running[tree.parent[x]]
      <4>1. CASE x = n
        BY <1>1, <3>1, <4>1 DEF StartOK
      <4>2. CASE x # n
        BY <1>1, <3>1, <4>2 DEF Same, NodesOK, ParentOK
      <4>. QED
        BY <4>1, <4>2
    <3>. QED
      BY <1>1, <3>2, <3>3 DEF Same
  <2>. QED
    BY <2>1, <2>2
<1>6. CallsOK' /\ NestingOK' /\ NodesOK'
  BY <1>1, <1>2, <1>5, GrowSuffices
<1>7. OwnerOK'
  <2>1. Root \in Nodes
    BY <1>1, TreeTypes
  <2>2. Starting(Root) <=> n = Root
    BY <1>1, <2>1, StartingIs
  <2>3. ~Starting(Root)'
    <3>1. \A c \in Nodes : Starting(c)' <=> \E k \in Depth..Len(calls') : calls'[k].op = "start" /\ calls'[k].at = c
      BY <1>1, StartingIs
    <3>2. \A k \in Depth..Len(calls') : k = Depth /\ Len(calls') = Depth
      BY StartSteps
    <3>3. Len(calls') = Depth => ~(calls'[Depth].op = "start" /\ calls'[Depth].at = Root)
      <4>1. Root \notin Kids(n)
        BY DEF Kids
      <4>. QED
        BY <4>1 DEF Started
    <3>. QED
      BY <2>1, <3>1, <3>2, <3>3 DEF Root
  <2>4. Active(Root)' <=> Active(Root)
    BY <1>1, <2>1, <2>2, <2>3 DEF Active, Root, Same
  <2>5. UNCHANGED <<connected, heard, runs, dropped>>
    BY DEF Started
  <2>. QED
    BY <1>1, <2>4, <2>5, OwnerKept
<1>. QED
  BY <1>6, <1>7 DEF IInv, Started

LEMMA StartBase ==
    ASSUME IInv, NEW n \in Nodes, start(n)
    PROVE  /\ calls # <<>> /\ Top.op = "start" /\ Top.at = n
           /\ UNCHANGED <<tree, cancelling, connected, heard, runs, dropped>>
           /\ running'[n] /\ ~done'[n] /\ said'[n] = "Nothing"
           /\ \A x \in Nodes : x # n => running'[x] = running[x] /\ done'[x] = done[x] /\ said'[x] = said[x]
           /\ \/ kind(n) = "invoke" /\ invokeStart(n)
              \/ kind(n) = "signal" /\ signalStart(n)
              \/ kind(n) = "sequential" /\ sequentialStart(n)
              \/ kind(n) = "parallel" /\ parallelStart(n)
              \/ kind(n) = "timeout" /\ timeoutStart(n)
              \/ kind(n) = "retry" /\ retryStart(n)
<1>1. calls # <<>> /\ Top.op = "start" /\ Top.at = n
  BY DEF start, Called
<1>2. TypeOK /\ ~running[n]
  BY <1>1, StartFacts
<1>3. /\ running' = [running EXCEPT ![n] = TRUE] /\ done' = [done EXCEPT ![n] = FALSE]
      /\ said' = [said EXCEPT ![n] = "Nothing"]
      /\ \/ kind(n) = "invoke" /\ invokeStart(n)
         \/ kind(n) = "signal" /\ signalStart(n)
         \/ kind(n) = "sequential" /\ sequentialStart(n)
         \/ kind(n) = "parallel" /\ parallelStart(n)
         \/ kind(n) = "timeout" /\ timeoutStart(n)
         \/ kind(n) = "retry" /\ retryStart(n)
  BY <1>2 DEF start
<1>4. /\ running'[n] /\ ~done'[n] /\ said'[n] = "Nothing"
      /\ \A x \in Nodes : x # n => running'[x] = running[x] /\ done'[x] = done[x] /\ said'[x] = said[x]
  BY <1>2, <1>3 DEF TypeOK
<1>5. UNCHANGED <<tree, cancelling, connected, heard, runs, dropped>>
  BY DEF start, runner
<1>. QED
  BY <1>1, <1>3, <1>4, <1>5

LEMMA StartTask ==
    ASSUME IInv, NEW n \in Nodes, calls # <<>>, Top.op = "start", Top.at = n, Started(n),
           kind(n) = "sequential" => index'[n] = 1,
           kind(n) = "parallel" => Closing(n)' \/ \A j \in 1..childCount(n) : Covered(n, j)',
           timer'[n] => kind(n) \in Wrappers
    PROVE  TaskOK(n)' /\ EarnOK(n)'
<1>1. /\ TypeOK /\ UNCHANGED tree /\ ~cancelling[n] /\ (\A c \in Kids(n) : ~running[c] /\ c # n)
      /\ \A x \in Nodes : x # n => Same(x)
  <2>1. TypeOK /\ ~cancelling[n] /\ \A c \in Kids(n) : ~running[c]
    BY StartFacts
  <2>2. \A c \in Kids(n) : n < c /\ c \in Nodes /\ n \in Nat
    BY <2>1, KidsOf, TreeNodes
  <2>. QED
    BY <2>1, <2>2 DEF Started
<1>2. /\ Kids(n)' = Kids(n) /\ kind(n)' = kind(n) /\ childCount(n)' = childCount(n) /\ Kids(n) \subseteq Nodes
      /\ \A j : childAt(n, j)' = childAt(n, j)
  BY <1>1, SameTree DEF childAt, Kids
<1>3. \A c \in Kids(n) : ~running'[c]
  BY <1>1, <1>2 DEF Same
<1>4. childCount(n) \in Nat /\ ~cancelling'[n]
  BY <1>1, TreeNodes DEF Started
<1>5. TaskOK(n)'
  BY <1>2, <1>3, <1>4 DEF TaskOK, Started
<1>6. EarnOK(n)'
  BY <1>2, <1>4 DEF EarnOK, Started
<1>. QED
  BY <1>5, <1>6

(* A task that ends at once *)
LEMMA StartReports ==
    ASSUME IInv, TypeOK', NEW n \in Nodes, calls # <<>>, Top.op = "start", Top.at = n, Started(n),
           Len(calls') = Depth, calls'[Depth].op = "report", calls'[Depth].at = n,
           calls'[Depth].outcome # "Nothing", calls'[Depth].outcome = "Success" => Kids(n) = {},
           ~timer'[n], kind(n) = "sequential" => index'[n] = 1
    PROVE  IInv'
<1>1. TypeOK /\ UNCHANGED tree /\ Kids(n)' = Kids(n) /\ Depth \in Nat \ {0} /\ Depth' = Len(calls')
  BY StartFacts, SameTree, TopType DEF Started, Depth
<1>2. \A c \in Kids(n) : ~running'[c]
  <2>1. \A c \in Kids(n) : ~running[c] /\ c \in Nodes /\ c # n
    <3>1. \A c \in Kids(n) : ~running[c]
      BY StartFacts
    <3>2. \A c \in Kids(n) : c \in Nodes /\ n < c /\ n \in Nat
      BY <1>1, KidsOf, TreeNodes
    <3>. QED
      BY <3>1, <3>2
  <2>. QED
    BY <2>1 DEF Started, Same
<1>3. Closing(n)'
  <2>1. Depth \in 1..Len(calls')
    BY <1>1
  <2>. QED
    BY <1>1, <2>1 DEF Closing
<1>4. ASSUME NEW k \in Depth..Len(calls')
      PROVE  CallOK(k)'
  <2>1. k = Depth /\ k = Depth'
    BY <1>1
  <2>2. ReportOK(k, n)'
    BY <1>1, <1>2, <2>1 DEF ReportOK, Started
  <2>. QED
    BY <2>1, <2>2 DEF CallOK
<1>5. AwaitOK(n)'
  BY <1>3 DEF AwaitOK
<1>6. TaskOK(n)' /\ EarnOK(n)'
  BY <1>3, StartTask
<1>. QED
  BY <1>4, <1>5, <1>6, StartSuffices

LEMMA StartInvokeKept ==
    ASSUME IInv, TypeOK', NEW n \in Nodes, start(n), kind(n) = "invoke"
    PROVE  IInv'
<1>1. calls # <<>> /\ Top.op = "start" /\ Top.at = n /\ TypeOK /\ ~timer[n] /\ ~tripped /\ Depth \in Nat \ {0}
  BY StartBase, StartFacts, TopType
<1>2. invokeStart(n)
  BY StartBase
<1>3. PICK outcome \in {"Success", "Failure"} : Makes(<<Says(n, outcome)>>)
  BY <1>2 DEF invokeStart
<1>4. Puts(Says(n, outcome))
  <2>1. Says(n, outcome) \in Frames
    BY <1>1, CallTypes DEF Outcomes
  <2>. QED
    BY <1>1, <1>3, <2>1, PutsWhen
<1>5. Kept /\ Len(calls') = Depth /\ calls'[Depth].op = "report" /\ calls'[Depth].at = n /\ calls'[Depth].outcome = outcome
  BY <1>4 DEF Puts, Says
<1>6. UNCHANGED <<tripped, index, pending, expired, attempt, timer>>
  BY <1>2 DEF invokeStart, wrappers
<1>7. Started(n)
  BY <1>1, <1>5, <1>6, StartBase DEF Started, Same
<1>8. Kids(n) = {}
  BY <1>1, LeafHasNone DEF Leaves
<1>. QED
  BY <1>1, <1>5, <1>6, <1>7, <1>8, StartReports

LEMMA StartSignalKept ==
    ASSUME IInv, TypeOK', NEW n \in Nodes, start(n), kind(n) = "signal"
    PROVE  IInv'
<1>1. calls # <<>> /\ Top.op = "start" /\ Top.at = n /\ TypeOK /\ ~timer[n] /\ ~tripped /\ Depth \in Nat \ {0}
  BY StartBase, StartFacts, TopType
<1>2. signalStart(n)
  BY StartBase
<1>3. UNCHANGED <<tripped, index, pending, expired, attempt, timer>>
  BY <1>2 DEF signalStart, wrappers
<1>4. Says(n, "Failure") \in Frames
  BY <1>1, CallTypes DEF Outcomes
<1>5. CASE Makes(<<>>)
  <2>1. Kept /\ Len(calls') = Depth - 1
    BY <1>1, <1>5, PopsWhen DEF Pops
  <2>2. Started(n)
    BY <1>1, <1>3, <2>1, StartBase DEF Started, Same
  <2>3. TaskOK(n)' /\ EarnOK(n)'
    BY <1>1, <1>3, <2>2, StartTask
  <2>4. AwaitOK(n)'
    <3>1. kind(n)' = "signal"
      BY StartBase DEF kind
    <3>. QED
      BY <3>1 DEF AwaitOK
  <2>5. \A k \in Depth..Len(calls') : CallOK(k)'
    BY <1>1, <2>1
  <2>. QED
    BY <1>1, <2>2, <2>3, <2>4, <2>5, StartSuffices
<1>6. CASE Makes(<<Says(n, "Failure")>>)
  <2>1. Puts(Says(n, "Failure"))
    BY <1>1, <1>4, <1>6, PutsWhen
  <2>2. Kept /\ Len(calls') = Depth /\ calls'[Depth].op = "report" /\ calls'[Depth].at = n /\ calls'[Depth].outcome = "Failure"
    BY <2>1 DEF Puts, Says
  <2>3. Started(n)
    BY <1>1, <1>3, <2>2, StartBase DEF Started, Same
  <2>. QED
    BY <1>1, <1>3, <2>2, <2>3, StartReports
<1>. QED
  BY <1>2, <1>5, <1>6 DEF signalStart

(* A task that starts a child *)
LEMMA StartsChild ==
    ASSUME IInv, TypeOK', NEW n \in Nodes, calls # <<>>, Top.op = "start", Top.at = n, Started(n),
           NEW c \in Kids(n), Len(calls') = Depth, calls'[Depth].op = "start", calls'[Depth].at = c,
           \/ /\ kind(n) = "sequential" /\ index'[n] = 1 /\ childCount(n) >= 1 /\ c = childAt(n, 1)
              /\ ~timer'[n]
           \/ kind(n) = "timeout" /\ timer'[n] /\ ~expired'[n]
           \/ kind(n) = "retry" /\ ~timer'[n] /\ attempt'[n] >= 1
    PROVE  IInv'
<1>1. /\ TypeOK /\ UNCHANGED tree /\ Kids(n)' = Kids(n) /\ Depth \in Nat \ {0} /\ Depth' = Len(calls')
      /\ kind(n)' = kind(n) /\ childCount(n)' = childCount(n) /\ \A j : childAt(n, j)' = childAt(n, j)
  BY StartFacts, SameTree, TopType DEF Started, Depth, childAt
<1>2. c \in Nodes /\ c # Root /\ tree.parent[c] = n /\ c # n
  BY <1>1, KidsOf, TreeNodes
<1>3. ~running'[c]
  <2>1. ~running[c]
    BY StartFacts
  <2>. QED
    BY <1>2, <2>1 DEF Started, Same
<1>4. Active(c)'
  <2>1. Depth \in 1..Len(calls')
    BY <1>1
  <2>. QED
    BY <1>1, <2>1 DEF Active, Starting
<1>5. ASSUME NEW k \in Depth..Len(calls')
      PROVE  CallOK(k)'
  <2>1. k = Depth /\ k = Depth'
    BY <1>1
  <2>2. StartOK(k, c)'
    <3>1. running'[n] /\ tree' = tree /\ Nodes' = Nodes
      BY <1>1 DEF Started, Nodes
    <3>. QED
      BY <1>1, <1>2, <1>3, <2>1, <3>1 DEF StartOK, Root
  <2>. QED
    BY <2>1, <2>2 DEF CallOK
<1>6. AwaitOK(n)'
  BY <1>1, <1>4 DEF AwaitOK
<1>7. TaskOK(n)' /\ EarnOK(n)'
  BY StartTask DEF Wrappers
<1>. QED
  BY <1>5, <1>6, <1>7, StartSuffices

LEMMA StartSequentialKept ==
    ASSUME IInv, TypeOK', NEW n \in Nodes, start(n), kind(n) = "sequential"
    PROVE  IInv'
<1>1. calls # <<>> /\ Top.op = "start" /\ Top.at = n /\ TypeOK /\ ~timer[n] /\ ~tripped /\ Depth \in Nat \ {0}
  BY StartBase, StartFacts, TopType
<1>2. sequentialStart(n)
  BY StartBase
<1>3. /\ UNCHANGED <<tripped, pending, expired, attempt, timer>> /\ index'[n] = 1
      /\ \A x \in Nodes : x # n => index'[x] = index[x]
  BY <1>1, <1>2 DEF sequentialStart, wrappers, TypeOK
<1>4. CASE childCount(n) = 0
  <2>1. Makes(<<Says(n, "Success")>>)
    BY <1>2, <1>4 DEF sequentialStart, Makes
  <2>2. Says(n, "Success") \in Frames
    BY <1>1, CallTypes DEF Outcomes
  <2>3. Puts(Says(n, "Success"))
    BY <1>1, <2>1, <2>2, PutsWhen
  <2>4. Kept /\ Len(calls') = Depth /\ calls'[Depth].op = "report" /\ calls'[Depth].at = n /\ calls'[Depth].outcome = "Success"
    BY <2>3 DEF Puts, Says
  <2>5. Started(n)
    BY <1>1, <1>3, <2>4, StartBase DEF Started, Same
  <2>6. Kids(n) = {}
    BY <1>1, <1>4, KidsOf
  <2>. QED
    BY <1>1, <1>3, <2>4, <2>5, <2>6, StartReports
<1>5. CASE childCount(n) # 0
  <2>0. 1 \in 1..childCount(n) /\ childCount(n) >= 1
    BY <1>1, <1>5, TreeNodes
  <2>1. PICK c \in Kids(n) : c = childAt(n, 1)
    BY <1>1, <2>0, Children
  <2>2. c \in Nodes /\ Makes(<<Call("start", c)>>)
    BY <1>2, <1>5, <2>1 DEF sequentialStart, Makes, Kids
  <2>3. Puts(Call("start", c))
    <3>1. Call("start", c) \in Frames
      BY <1>1, <2>2, CallTypes DEF Ops
    <3>. QED
      BY <1>1, <2>2, <3>1, PutsWhen
  <2>4. Kept /\ Len(calls') = Depth /\ calls'[Depth].op = "start" /\ calls'[Depth].at = c
    BY <2>3 DEF Puts, Call, From
  <2>5. Started(n)
    BY <1>1, <1>3, <2>4, StartBase DEF Started, Same
  <2>. QED
    BY <1>1, <1>3, <2>0, <2>1, <2>4, <2>5, StartsChild
<1>. QED
  BY <1>4, <1>5

LEMMA StartTimeoutKept ==
    ASSUME IInv, TypeOK', NEW n \in Nodes, start(n), kind(n) = "timeout"
    PROVE  IInv'
<1>1. calls # <<>> /\ Top.op = "start" /\ Top.at = n /\ TypeOK /\ ~timer[n] /\ ~tripped /\ Depth \in Nat \ {0}
  BY StartBase, StartFacts, TopType
<1>2. timeoutStart(n)
  BY StartBase
<1>3. /\ UNCHANGED <<index, pending, attempt>> /\ ~tripped' /\ ~expired'[n] /\ timer'[n]
      /\ \A x \in Nodes : x # n => expired'[x] = expired[x] /\ timer'[x] = timer[x]
  BY <1>1, <1>2 DEF timeoutStart, Assert, TypeOK
<1>4. PICK c \in Kids(n) : c = Child(n)
  BY <1>1, ChildOf DEF Wrappers
<1>5. c \in Nodes /\ Makes(<<Call("start", c)>>)
  BY <1>2, <1>4 DEF timeoutStart, Kids
<1>6. Puts(Call("start", c))
  <2>1. Call("start", c) \in Frames
    BY <1>1, <1>5, CallTypes DEF Ops
  <2>. QED
    BY <1>1, <1>5, <2>1, PutsWhen
<1>7. Kept /\ Len(calls') = Depth /\ calls'[Depth].op = "start" /\ calls'[Depth].at = c
  BY <1>6 DEF Puts, Call, From
<1>8. Started(n)
  BY <1>1, <1>3, <1>7, StartBase DEF Started, Same
<1>. QED
  BY <1>1, <1>3, <1>7, <1>8, StartsChild

LEMMA StartRetryKept ==
    ASSUME IInv, TypeOK', NEW n \in Nodes, start(n), kind(n) = "retry"
    PROVE  IInv'
<1>1. calls # <<>> /\ Top.op = "start" /\ Top.at = n /\ TypeOK /\ ~timer[n] /\ ~tripped /\ Depth \in Nat \ {0}
  BY StartBase, StartFacts, TopType
<1>2. retryStart(n)
  BY StartBase
<1>3. PICK c \in Kids(n) : c = Child(n)
  BY <1>1, ChildOf DEF Wrappers
<1>4. ~running[c]
  BY <1>1, StartFacts
<1>5. /\ UNCHANGED <<index, pending, expired>> /\ ~tripped' /\ attempt'[n] >= 1 /\ ~timer'[n]
      /\ \A x \in Nodes : x # n => attempt'[x] = attempt[x] /\ timer'[x] = timer[x]
  <2>1. /\ UNCHANGED <<index, pending, expired>> /\ tripped' = (tripped \/ ~(~timer[n] /\ ~running[c]))
        /\ attempt' = [attempt EXCEPT ![n] = 0 + 1] /\ timer' = [timer EXCEPT ![n] = FALSE]
    BY <1>2, <1>3, <1>4 DEF retryStart, beginAttempt, Assert
  <2>. QED
    BY <1>1, <1>4, <2>1 DEF TypeOK
<1>6. c \in Nodes /\ Makes(<<Call("start", c)>>)
  BY <1>2, <1>3, <1>4 DEF retryStart, beginAttempt, Makes, Kids
<1>7. Puts(Call("start", c))
  <2>1. Call("start", c) \in Frames
    BY <1>1, <1>6, CallTypes DEF Ops
  <2>. QED
    BY <1>1, <1>6, <2>1, PutsWhen
<1>8. Kept /\ Len(calls') = Depth /\ calls'[Depth].op = "start" /\ calls'[Depth].at = c
  BY <1>7 DEF Puts, Call, From
<1>9. Started(n)
  BY <1>1, <1>5, <1>8, StartBase DEF Started, Same
<1>. QED
  BY <1>1, <1>5, <1>8, <1>9, StartsChild

LEMMA StartParallelKept ==
    ASSUME IInv, TypeOK', NEW n \in Nodes, start(n), kind(n) = "parallel"
    PROVE  IInv'
<1>1. calls # <<>> /\ Top.op = "start" /\ Top.at = n /\ TypeOK /\ ~timer[n] /\ ~tripped /\ Depth \in Nat \ {0}
  BY StartBase, StartFacts, TopType
<1>2. parallelStart(n)
  BY StartBase
<1>3. /\ UNCHANGED <<tripped, index, expired, attempt, timer>> /\ pending'[n] = childCount(n)
      /\ \A x \in Nodes : x # n => pending'[x] = pending[x]
  BY <1>1, <1>2 DEF parallelStart, wrappers, TypeOK
<1>4. CASE childCount(n) = 0
  <2>1. Makes(<<Says(n, "Success")>>)
    BY <1>2, <1>4 DEF parallelStart, Makes
  <2>2. Says(n, "Success") \in Frames
    BY <1>1, CallTypes DEF Outcomes
  <2>3. Puts(Says(n, "Success"))
    BY <1>1, <2>1, <2>2, PutsWhen
  <2>4. Kept /\ Len(calls') = Depth /\ calls'[Depth].op = "report" /\ calls'[Depth].at = n /\ calls'[Depth].outcome = "Success"
    BY <2>3 DEF Puts, Says
  <2>5. Started(n)
    BY <1>1, <1>3, <2>4, StartBase DEF Started, Same
  <2>6. Kids(n) = {}
    BY <1>1, <1>4, KidsOf
  <2>. QED
    BY <1>1, <1>3, <2>4, <2>5, <2>6, StartReports
<1>5. CASE childCount(n) # 0
  <2>1. childCount(n) \in Nat /\ childCount(n) >= 1
    BY <1>1, <1>5, TreeNodes
  <2>2. Makes(<<Call("startAll", n)>>)
    BY <1>2, <1>5 DEF parallelStart, Makes
  <2>3. Puts(Call("startAll", n))
    <3>1. Call("startAll", n) \in Frames
      BY <1>1, CallTypes DEF Ops
    <3>. QED
      BY <1>1, <2>2, <3>1, PutsWhen
  <2>4. /\ Kept /\ Len(calls') = Depth /\ calls'[Depth].op = "startAll" /\ calls'[Depth].at = n
        /\ calls'[Depth].i = 1
    BY <2>3 DEF Puts, Call, From
  <2>5. Started(n)
    BY <1>1, <1>3, <2>4, StartBase DEF Started, Same
  <2>6. /\ UNCHANGED tree /\ Kids(n)' = Kids(n) /\ kind(n)' = kind(n) /\ childCount(n)' = childCount(n)
        /\ Depth' = Len(calls')
    BY <2>5, SameTree DEF Started, Depth
  <2>7. \A j \in 1..childCount(n) : Covered(n, j)'
    <3>1. Depth \in 1..Len(calls')
      BY <1>1, <2>4
    <3>. QED
      BY <2>4, <2>6, <3>1 DEF Covered
  <2>8. TaskOK(n)' /\ EarnOK(n)'
    BY <1>1, <1>3, <2>5, <2>7, StartTask
  <2>9. Owed(n)' = 1..childCount(n)
    BY <2>6, <2>7 DEF Owed
  <2>10. Cardinality(1..childCount(n)) = childCount(n)
    <3>1. 1 \in Int /\ childCount(n) \in Int
      BY <2>1
    <3>2. Cardinality(1..childCount(n)) = IF 1 > childCount(n) THEN 0 ELSE childCount(n) - 1 + 1
      BY <3>1, FS_Interval
    <3>. QED
      BY <2>1, <3>2
  <2>11. AwaitOK(n)'
    BY <1>3, <1>5, <2>1, <2>6, <2>9, <2>10 DEF AwaitOK
  <2>12. ASSUME NEW k \in Depth..Len(calls')
         PROVE  CallOK(k)'
    <3>1. k = Depth
      BY <1>1, <2>4
    <3>2. \A c \in Kids(n) : ~running'[c]
      <4>1. \A c \in Kids(n) : ~running[c]
        BY <1>1, StartFacts
      <4>2. \A c \in Kids(n) : c \in Nodes /\ n < c /\ n \in Nat
        BY <1>1, KidsOf, TreeNodes
      <4>. QED
        BY <2>5, <4>1, <4>2 DEF Started, Same
    <3>3. StartAllOK(k, n)'
      BY <1>5, <2>6, <3>2 DEF StartAllOK
    <3>. QED
      BY <2>4, <3>1, <3>3 DEF CallOK
  <2>. QED
    BY <1>1, <2>5, <2>8, <2>11, <2>12, StartSuffices
<1>. QED
  BY <1>4, <1>5

LEMMA StartKept ==
    ASSUME IInv, TypeOK', NEW n \in Nodes, start(n)
    PROVE  IInv'
BY StartBase, StartInvokeKept, StartSignalKept, StartSequentialKept, StartParallelKept, StartTimeoutKept, StartRetryKept

-----------------------------------------------------------------------------
(* Task::cancel and the sweep of a group *)

(* A step of a cancellation at task n that stops nothing yet *)
Quieted(n) ==
    /\ UNCHANGED <<tree, running, done, said, index, pending, expired, attempt, connected, heard, runs, dropped>>
    /\ ~tripped' /\ Steps
    /\ \A x \in Nodes : x # n => cancelling'[x] = cancelling[x] /\ timer'[x] = timer[x]
    /\ timer'[n] => timer[n]
    /\ cancelling[n] /\ ~cancelling'[n] => Top.op = "sweep"
    /\ running[n] /\ Top.op # "sweep" =>
          Len(calls') >= Depth /\ calls'[Depth].op \in {"cancelled", "report"} /\ calls'[Depth].at = n
    /\ Top.op = "sweep" => IF Len(calls') >= Depth
                           THEN calls'[Depth].op = "sweep" /\ calls'[Depth].at = n
                           ELSE \A c \in Kids(n) : ~running[c]
    /\ Len(calls') >= Depth => /\ calls'[Depth].at = n /\ calls'[Depth].op \in {"sweep", "cancelled", "report"}
                               /\ calls'[Depth].op = "report" => calls'[Depth].outcome = "Cancelled"
    /\ Len(calls') = Depth + 1 =>
          \/ calls'[Depth + 1].op = "sweep" /\ calls'[Depth + 1].at = n /\ calls'[Depth].op = "cancelled"
          \/ calls'[Depth + 1].op = "cancel" /\ calls'[Depth + 1].at \in Kids(n)

LEMMA CancelFacts ==
    ASSUME IInv, NEW n \in Nodes, calls # <<>>, Top.op \in {"cancel", "sweep", "cancelled"}, Top.at = n
    PROVE  /\ TypeOK /\ NestedOK /\ CallsOK /\ NodesOK /\ OwnerOK /\ ~tripped /\ Depth \in Nat \ {0}
           /\ calls[Depth] = Top /\ Unwinds(Depth)
           /\ Top.op = "sweep" => SweepOK(Depth, n)
           /\ Top.op = "cancelled" => CancelledOK(Depth, n)
           /\ Top.op \in {"cancel", "cancelled"} => ~cancelling[n]
<1>1. TypeOK /\ NestedOK /\ CallsOK /\ NodesOK /\ OwnerOK /\ ~tripped
  BY DEF IInv, NestedOK
<1>2. Depth \in Nat \ {0} /\ Depth \in 1..Depth /\ calls[Depth] = Top
  BY <1>1, TopType
<1>3. Unwinds(Depth) /\ CallOK(Depth)
  BY <1>1, <1>2 DEF Unwinds, CallsOK
<1>4. Top.op = "sweep" => SweepOK(Depth, n)
  BY <1>2, <1>3 DEF CallOK
<1>5. Top.op = "cancelled" => CancelledOK(Depth, n)
  BY <1>2, <1>3 DEF CallOK
<1>6. ASSUME Top.op \in {"cancel", "cancelled"}, cancelling[n]
      PROVE  FALSE
  <2>1. Sweeping(n)
    BY <1>1, <1>6 DEF NodesOK, TaskOK
  <2>2. PICK k \in 1..Depth : calls[k].op = "sweep" /\ calls[k].at = n
    BY <2>1 DEF Sweeping
  <2>3. k # Depth
    BY <1>2, <1>6, <2>2
  <2>4. Depth \in k + 1..Depth
    BY <1>2, <2>2, <2>3
  <2>5. NestOK(k, Depth)
    BY <1>1, <2>2, <2>4 DEF NestedOK, NestingOK
  <2>6. n \in Below(n)
    BY <1>2, <2>2, <2>5 DEF NestOK, Inner
  <2>. QED
    BY <1>1, <2>6, TreeNodes DEF Below
<1>. QED
  BY <1>1, <1>2, <1>3, <1>4, <1>5, <1>6

LEMMA QuietSuffices ==
    ASSUME IInv, TypeOK', NEW n \in Nodes, calls # <<>>, Top.op \in {"cancel", "sweep", "cancelled"}, Top.at = n,
           Quieted(n), running[n] => Closing(n)', cancelling'[n] => Sweeping(n)',
           \A k \in Depth..Len(calls') : CallOK(k)',
           \A k \in Depth..Len(calls') : \A j \in k + 1..Len(calls') : NestOK(k, j)'
    PROVE  IInv'
<1>1. /\ TypeOK /\ NestedOK /\ CallsOK /\ NodesOK /\ OwnerOK /\ ~tripped /\ Depth \in Nat \ {0}
      /\ calls[Depth] = Top /\ Unwinds(Depth)
  BY CancelFacts
<1>2. Steps /\ UNCHANGED tree /\ Kids(n)' = Kids(n) /\ Len(calls') \in {Depth - 1, Depth, Depth + 1}
  BY SameTree DEF Quieted, Steps
<1>3. Unwinding
  <2>1. UNCHANGED <<tree, connected, running, expired>> /\ (~connected => UNCHANGED heard)
    BY DEF Quieted
  <2>2. ASSUME NEW x \in Nodes
        PROVE  /\ timer'[x] => timer[x]
               /\ cancelling[x] /\ ~cancelling'[x] => calls[Depth].op = "sweep" /\ calls[Depth].at = x
    BY <1>1 DEF Quieted
  <2>3. ASSUME NEW x \in Nodes, Ends(Depth, x), running'[x]
        PROVE  Len(calls') >= Depth /\ calls'[Depth].op \in {"cancel", "cancelled", "report"} /\ calls'[Depth].at = x
    BY <1>1, <2>1, <2>3 DEF Quieted, Ends
  <2>4. ASSUME NEW x \in Nodes, calls[Depth].op = "sweep", calls[Depth].at = x
        PROVE  \/ Len(calls') >= Depth /\ calls'[Depth].op = "sweep" /\ calls'[Depth].at = x
               \/ \A c \in Kids(x) : ~running'[c]
    BY <1>1, <2>1, <2>4 DEF Quieted
  <2>. QED
    BY <1>2, <2>1, <2>2, <2>3, <2>4 DEF Unwinding, Steps
<1>4. NewOK
  <2>1. ASSUME NEW k \in 1..Depth - 1, NEW j \in Depth..Len(calls')
        PROVE  NestOK(k, j)'
    <3>1. j \in {Depth, Depth + 1} /\ j <= Len(calls') /\ Len(calls') >= Depth
      BY <1>1, <1>2
    <3>2. Unwinds(j)' /\ calls'[j].at \in {n} \union Kids(n)
      BY <1>1, <1>2, <3>1 DEF Quieted, Unwinds
    <3>3. calls[Depth].op = "sweep" =>
             /\ calls'[Depth].op = "sweep" /\ calls'[Depth].at = n
             /\ j = Depth + 1 => calls'[j].at \in Kids(n)
      <4>1. SUFFICES ASSUME Top.op = "sweep"
                     PROVE  /\ calls'[Depth].op = "sweep" /\ calls'[Depth].at = n
                            /\ j = Depth + 1 => calls'[j].at \in Kids(n)
        BY <1>1
      <4>2. calls'[Depth].op = "sweep" /\ calls'[Depth].at = n
        BY <3>1, <4>1 DEF Quieted
      <4>3. ASSUME j = Depth + 1
            PROVE  calls'[j].at \in Kids(n)
        <5>1. Len(calls') = Depth + 1
          BY <1>1, <1>2, <3>1, <4>3
        <5>. QED
          BY <4>2, <4>3, <5>1 DEF Quieted
      <4>. QED
        BY <4>2, <4>3
    <3>. QED
      BY <1>1, <1>2, <3>1, <3>2, <3>3, NestStays DEF Steps
  <2>. QED
    BY <2>1 DEF NewOK
<1>5. Local(n, n)
  <2>1. ASSUME NEW k \in Depth..Len(calls')
        PROVE  NewAt(k, n, n)'
    <3>1. k \in {Depth, Depth + 1} /\ k <= Len(calls')
      BY <1>1, <1>2
    <3>. QED
      BY <1>1, <1>2, <3>1 DEF Quieted, NewAt
  <2>. QED
    BY <1>2, <2>1 DEF Quieted, Local, Same, Steps
<1>6. ASSUME NEW x \in Nodes
      PROVE  TaskOK(x)' /\ ParentOK(x)' /\ AwaitOK(x)' /\ EarnOK(x)'
  <2>1. ParentOK(x)'
    <3>1. running' = running /\ tree' = tree
      BY DEF Quieted
    <3>. QED
      BY <1>1, <3>1 DEF NodesOK, ParentOK, Root
  <2>2. CASE x # n
    <3>1. running' = running /\ said' = said
      BY DEF Quieted
    <3>. QED
      BY <1>1, <1>5, <2>1, <2>2, <3>1, FarNodes
  <2>3. CASE x = n
    <3>1. TaskOK(n) /\ AwaitOK(n) /\ EarnOK(n)
      BY <1>1 DEF NodesOK
    <3>2. /\ Kids(n)' = Kids(n) /\ kind(n)' = kind(n) /\ childCount(n)' = childCount(n)
          /\ \A j : childAt(n, j)' = childAt(n, j)
      BY <1>2, SameTree DEF childAt
    <3>3. /\ running' = running /\ done' = done /\ said' = said /\ index' = index /\ attempt' = attempt
          /\ timer'[n] => timer[n]
      BY DEF Quieted
    <3>4. TaskOK(n)'
      BY <3>1, <3>2, <3>3 DEF TaskOK
    <3>5. AwaitOK(n)'
      BY <3>3 DEF AwaitOK
    <3>6. EarnOK(n)'
      BY <3>1, <3>2, <3>3 DEF EarnOK
    <3>. QED
      BY <2>1, <2>3, <3>4, <3>5, <3>6
  <2>. QED
    BY <2>2, <2>3
<1>7. CallsOK' /\ NestingOK' /\ NodesOK'
  BY <1>1, <1>3, <1>4, <1>6, UnwindSuffices
<1>8. OwnerOK'
  <2>1. Root \in Nodes
    BY <1>1, TreeTypes
  <2>2. ~Starting(Root)
    BY <1>1, <1>2, <2>1, StartingIs
  <2>3. ~Starting(Root)'
    <3>1. \A c \in Nodes : Starting(c)' <=> \E k \in Depth..Len(calls') : calls'[k].op = "start" /\ calls'[k].at = c
      BY <1>1, <1>2, StartingIs
    <3>2. ASSUME NEW k \in Depth..Len(calls')
          PROVE  calls'[k].op # "start"
      <4>1. k \in {Depth, Depth + 1} /\ k <= Len(calls')
        BY <1>1, <1>2
      <4>. QED
        BY <1>1, <1>2, <4>1 DEF Quieted
    <3>. QED
      BY <2>1, <3>1, <3>2 DEF Root
  <2>4. UNCHANGED <<connected, heard, runs, dropped, running>>
    BY DEF Quieted
  <2>5. Active(Root)' <=> Active(Root)
    BY <2>2, <2>3, <2>4 DEF Active, Root
  <2>. QED
    BY <1>1, <1>2, <2>4, <2>5, OwnerKept
<1>. QED
  BY <1>7, <1>8 DEF IInv, Quieted

(* A call that finds nothing to do *)
LEMMA CancelPops ==
    ASSUME IInv, TypeOK', NEW n \in Nodes, calls # <<>>, Top.op \in {"cancel", "cancelled"}, Top.at = n,
           ~running[n], Pops,
           UNCHANGED <<tree, running, done, said, cancelling, index, pending, expired, attempt, timer,
                       tripped, connected, heard, runs, dropped>>
    PROVE  IInv'
<1>1. TypeOK /\ ~tripped /\ Depth \in Nat \ {0} /\ ~cancelling[n]
  BY CancelFacts
<1>2. Len(calls') = Depth - 1 /\ Steps
  BY DEF Pops, Steps
<1>3. Quieted(n)
  BY <1>1, <1>2 DEF Quieted
<1>. QED
  BY <1>1, <1>2, <1>3, QuietSuffices

LEMMA CancelKept ==
    ASSUME IInv, TypeOK', NEW n \in Nodes, cancelTask(n)
    PROVE  IInv'
<1>1. /\ calls # <<>> /\ Top.op = "cancel" /\ Top.at = n
      /\ UNCHANGED <<running, done, said, index, pending, tree, connected, heard, runs, dropped>>
  BY DEF cancelTask, Called, runner
<1>2. TypeOK /\ NodesOK /\ ~tripped /\ Depth \in Nat \ {0} /\ ~cancelling[n] /\ calls[Depth] = Top
  BY <1>1, CancelFacts
<1>3. /\ Call("cancelled", n) \in Frames /\ Call("sweep", n) \in Frames
      /\ \A c \in Nodes : Call("cancel", c) \in Frames
  BY <1>2, CallTypes DEF Ops
<1>4. CASE ~running[n]
  <2>1. Makes(<<>>) /\ UNCHANGED <<cancelling, expired, attempt, timer, tripped>>
    BY <1>4 DEF cancelTask, wrappers
  <2>2. Pops
    BY <1>1, <1>2, <2>1, PopsWhen
  <2>. QED
    BY <1>1, <1>4, <2>1, <2>2, CancelPops
<1>5. CASE running[n] /\ kind(n) \in Groups /\ groupCancel(n, <<Call("cancelled", n)>>)
  <2>1. /\ tripped' = (tripped \/ ~(TRUE /\ ~cancelling[n])) /\ cancelling' = [cancelling EXCEPT ![n] = TRUE]
        /\ UNCHANGED <<expired, attempt, timer>>
        /\ Makes(<<Call("cancelled", n)>> \o <<Call("sweep", n)>>)
    BY <1>2, <1>5 DEF groupCancel, cancelChildren, Assert, wrappers
  <2>2. Pushes(Call("cancelled", n), Call("sweep", n))
    <3>1. <<Call("cancelled", n)>> \o <<Call("sweep", n)>> = <<Call("cancelled", n), Call("sweep", n)>>
      BY <1>3, Joined
    <3>. QED
      BY <1>1, <1>2, <1>3, <2>1, <3>1, PushesWhen
  <2>3. /\ Steps /\ Len(calls') = Depth + 1 /\ calls'[Depth].op = "cancelled" /\ calls'[Depth].at = n
        /\ calls'[Depth + 1].op = "sweep" /\ calls'[Depth + 1].at = n /\ calls'[Depth + 1].i = 1
        /\ Depth' = Depth + 1
    BY <2>2 DEF Pushes, Steps, Call, From, Depth
  <2>4. cancelling'[n] /\ ~tripped' /\ \A x \in Nodes : x # n => cancelling'[x] = cancelling[x]
    BY <1>2, <2>1 DEF TypeOK
  <2>5. Quieted(n)
    BY <1>1, <1>2, <2>1, <2>3, <2>4 DEF Quieted
  <2>6. Depth \in 1..Len(calls') /\ Depth + 1 \in 1..Len(calls')
    BY <1>2, <2>3
  <2>7. Closing(n)' /\ Sweeping(n)'
    BY <2>3, <2>6 DEF Closing, Sweeping, Depth
  <2>8. ASSUME NEW k \in Depth..Len(calls')
        PROVE  CallOK(k)'
    <3>1. k = Depth \/ k = Depth + 1
      BY <1>2, <2>3
    <3>2. CASE k = Depth
      <4>1. SweptAbove(k, n)'
        BY <1>2, <2>3, <3>2 DEF SweptAbove
      <4>2. ~timer'[n]
        BY <1>2, <1>5, <2>1 DEF NodesOK, TaskOK, Groups, Wrappers
      <4>3. CancelledOK(k, n)'
        BY <4>1, <4>2 DEF CancelledOK
      <4>. QED
        BY <2>3, <3>2, <4>3 DEF CallOK
    <3>3. CASE k = Depth + 1
      <4>1. kind(n)' = kind(n) /\ running'[n]
        BY <1>1, <1>5 DEF kind
      <4>2. \A c \in Kids(n)' : (\E j \in 1..childCount(n)' : j < calls'[k].i /\ c = childAt(n, j)') => Stops(k, c)'
        BY <2>3, <3>3
      <4>3. k > 1 /\ k - 1 = Depth
        BY <1>2, <3>3
      <4>4. SweepOK(k, n)'
        BY <1>5, <2>3, <2>4, <3>3, <4>1, <4>2, <4>3 DEF SweepOK
      <4>. QED
        BY <2>3, <3>3, <4>4 DEF CallOK
    <3>. QED
      BY <3>1, <3>2, <3>3
  <2>9. ASSUME NEW k \in Depth..Len(calls'), NEW j \in k + 1..Len(calls')
        PROVE  NestOK(k, j)'
    <3>1. k = Depth /\ j = Depth + 1
      BY <1>2, <2>3
    <3>. QED
      BY <2>3, <3>1 DEF NestOK, Unwinds
  <2>. QED
    BY <1>1, <2>5, <2>7, <2>8, <2>9, QuietSuffices
<1>6. CASE running[n] /\ kind(n) \in Wrappers /\ wrapperCancel(n, <<Call("cancelled", n)>>)
  <2>1. PICK c \in Kids(n) : c = Child(n) /\ Kids(n) = {c} /\ c \in Nodes
    BY <1>2, <1>6, ChildOf
  <2>2. /\ UNCHANGED <<cancelling, expired, attempt, tripped>> /\ timer' = [timer EXCEPT ![n] = FALSE]
        /\ Makes(<<Call("cancelled", n)>> \o <<Call("cancel", c)>>)
    BY <1>6, <2>1 DEF wrapperCancel
  <2>3. Pushes(Call("cancelled", n), Call("cancel", c))
    <3>1. Call("cancel", c) \in Frames
      BY <1>3, <2>1
    <3>2. <<Call("cancelled", n)>> \o <<Call("cancel", c)>> = <<Call("cancelled", n), Call("cancel", c)>>
      BY <1>3, <3>1, Joined
    <3>. QED
      BY <1>1, <1>2, <1>3, <2>2, <3>1, <3>2, PushesWhen
  <2>4. /\ Steps /\ Len(calls') = Depth + 1 /\ calls'[Depth].op = "cancelled" /\ calls'[Depth].at = n
        /\ calls'[Depth + 1].op = "cancel" /\ calls'[Depth + 1].at = c
        /\ Depth' = Depth + 1
    BY <2>3 DEF Pushes, Steps, Call, From, Depth
  <2>5. ~timer'[n] /\ \A x \in Nodes : x # n => timer'[x] = timer[x]
    BY <1>2, <2>2 DEF TypeOK
  <2>6. Quieted(n)
    BY <1>1, <1>2, <2>1, <2>2, <2>4, <2>5 DEF Quieted
  <2>7. Closing(n)'
    <3>1. Depth \in 1..Len(calls')
      BY <1>2, <2>4
    <3>. QED
      BY <2>4, <3>1 DEF Closing, Depth
  <2>8. ASSUME NEW k \in Depth..Len(calls')
        PROVE  CallOK(k)'
    <3>1. k = Depth \/ k = Depth + 1
      BY <1>2, <2>4
    <3>2. CASE k = Depth
      <4>1. k < Depth' /\ k + 1 = Depth + 1
        BY <1>2, <2>4, <3>2
      <4>2. Stops(k, c)'
        BY <2>4, <4>1 DEF Stops, Ends
      <4>3. kind(n)' = kind(n) /\ Kids(n)' = Kids(n)
        BY <1>1, SameTree
      <4>4. CancelledOK(k, n)'
        BY <1>6, <2>1, <2>5, <4>2, <4>3 DEF CancelledOK
      <4>. QED
        BY <2>4, <3>2, <4>4 DEF CallOK
    <3>3. CASE k = Depth + 1
      BY <2>4, <3>3 DEF CallOK
    <3>. QED
      BY <3>1, <3>2, <3>3
  <2>9. ASSUME NEW k \in Depth..Len(calls'), NEW j \in k + 1..Len(calls')
        PROVE  NestOK(k, j)'
    <3>1. k = Depth /\ j = Depth + 1
      BY <1>2, <2>4
    <3>. QED
      BY <2>4, <3>1 DEF NestOK, Unwinds
  <2>10. ~cancelling'[n]
    BY <1>2, <2>2
  <2>. QED
    BY <1>1, <2>6, <2>7, <2>8, <2>9, <2>10, QuietSuffices
<1>7. CASE running[n] /\ kind(n) \in Leaves /\ doCancel(n, <<Call("cancelled", n)>>)
  <2>1. Makes(<<Call("cancelled", n)>>) /\ UNCHANGED <<cancelling, expired, attempt, timer, tripped>>
    BY <1>7 DEF doCancel, wrappers
  <2>2. Puts(Call("cancelled", n))
    BY <1>1, <1>2, <1>3, <2>1, PutsWhen
  <2>3. /\ Steps /\ Len(calls') = Depth /\ calls'[Depth].op = "cancelled" /\ calls'[Depth].at = n
        /\ Depth' = Depth
    BY <2>2 DEF Puts, Steps, Call, From, Depth
  <2>4. Quieted(n)
    BY <1>1, <1>2, <2>1, <2>3 DEF Quieted
  <2>5. Closing(n)'
    <3>1. Depth \in 1..Len(calls')
      BY <1>2, <2>3
    <3>. QED
      BY <2>3, <3>1 DEF Closing, Depth
  <2>6. ASSUME NEW k \in Depth..Len(calls')
        PROVE  CallOK(k)'
    <3>1. k = Depth
      BY <1>2, <2>3
    <3>2. Kids(n)' = {}
      BY <1>1, <1>2, <1>7, SameTree, LeafHasNone
    <3>3. ~timer'[n]
      BY <1>2, <1>7, <2>1 DEF NodesOK, TaskOK, Leaves, Wrappers
    <3>4. CancelledOK(k, n)'
      BY <3>2, <3>3 DEF CancelledOK
    <3>. QED
      BY <2>3, <3>1, <3>4 DEF CallOK
  <2>7. \A k \in Depth..Len(calls') : \A j \in k + 1..Len(calls') : NestOK(k, j)'
    BY <1>2, <2>3
  <2>8. ~cancelling'[n]
    BY <1>2, <2>1
  <2>. QED
    BY <1>1, <2>4, <2>5, <2>6, <2>7, <2>8, QuietSuffices
<1>. QED
  BY <1>4, <1>5, <1>6, <1>7 DEF cancelTask

LEMMA CancelledKept ==
    ASSUME IInv, TypeOK', NEW n \in Nodes, cancelled(n)
    PROVE  IInv'
<1>1. /\ calls # <<>> /\ Top.op = "cancelled" /\ Top.at = n
      /\ UNCHANGED <<tree, running, done, said, cancelling, index, pending, expired, attempt, timer,
                     tripped, connected, heard, runs, dropped>>
  BY DEF cancelled, Called, members, wrappers, runner
<1>2. /\ TypeOK /\ NodesOK /\ ~tripped /\ Depth \in Nat \ {0} /\ ~cancelling[n] /\ calls[Depth] = Top
      /\ CancelledOK(Depth, n)
  BY <1>1, CancelFacts
<1>3. CASE ~running[n]
  <2>1. Makes(<<>>)
    BY <1>3 DEF cancelled
  <2>2. Pops
    BY <1>1, <1>2, <2>1, PopsWhen
  <2>. QED
    BY <1>1, <1>3, <2>2, CancelPops
<1>4. CASE running[n]
  <2>1. Makes(<<Says(n, "Cancelled")>>)
    BY <1>4 DEF cancelled
  <2>2. Puts(Says(n, "Cancelled"))
    <3>1. Says(n, "Cancelled") \in Frames
      BY <1>2, CallTypes DEF Outcomes
    <3>. QED
      BY <1>1, <1>2, <2>1, <3>1, PutsWhen
  <2>3. /\ Steps /\ Len(calls') = Depth /\ calls'[Depth].op = "report" /\ calls'[Depth].at = n
        /\ calls'[Depth].outcome = "Cancelled" /\ Depth' = Depth
    BY <2>2 DEF Puts, Steps, Says, Depth
  <2>4. Quieted(n)
    BY <1>1, <1>2, <2>3 DEF Quieted
  <2>5. Closing(n)'
    <3>1. Depth \in 1..Len(calls')
      BY <1>2, <2>3
    <3>. QED
      BY <2>3, <3>1 DEF Closing, Depth
  <2>6. ~timer[n] /\ \A c \in Kids(n) : ~running[c]
    BY <1>2, <1>4 DEF CancelledOK, SweptAbove, Stops
  <2>7. ASSUME NEW k \in Depth..Len(calls')
        PROVE  CallOK(k)'
    <3>1. k = Depth
      BY <1>2, <2>3
    <3>2. Kids(n)' = Kids(n)
      BY <1>1, SameTree
    <3>3. ReportOK(k, n)'
      BY <1>1, <1>4, <2>3, <2>6, <3>1, <3>2 DEF ReportOK
    <3>. QED
      BY <2>3, <3>1, <3>3 DEF CallOK
  <2>8. \A k \in Depth..Len(calls') : \A j \in k + 1..Len(calls') : NestOK(k, j)'
    BY <1>2, <2>3
  <2>. QED
    BY <1>1, <1>2, <2>4, <2>5, <2>7, <2>8, QuietSuffices
<1>. QED
  BY <1>3, <1>4

LEMMA SweepKept ==
    ASSUME IInv, TypeOK', NEW n \in Nodes, sweep(n)
    PROVE  IInv'
<1>1. /\ calls # <<>> /\ Top.op = "sweep" /\ Top.at = n
      /\ UNCHANGED <<tree, running, done, said, index, pending, expired, attempt, timer,
                     tripped, connected, heard, runs, dropped>>
  BY DEF sweep, Called, wrappers, runner
<1>2. /\ TypeOK /\ NodesOK /\ ~tripped /\ Depth \in Nat \ {0} /\ calls[Depth] = Top /\ SweepOK(Depth, n)
  BY <1>1, CancelFacts
<1>3. PICK i \in Nat \ {0} : i = Top.i
  BY <1>1, <1>2, TopType
<1>4. /\ running[n] /\ cancelling[n] /\ kind(n) \in Groups /\ Depth > 1
      /\ \A c \in Kids(n) : (\E j \in 1..childCount(n) : j < i /\ c = childAt(n, j)) => ~running[c]
  BY <1>2, <1>3 DEF SweepOK, Stops
<1>5. \E k \in 1..Depth - 1 : calls[k].op \in {"report", "cancelled"} /\ calls[k].at = n
  BY <1>2 DEF SweepOK
<1>6. childCount(n) \in Nat
  BY <1>2, TreeNodes
<1>7. CASE i > childCount(n)
  <2>1. cancelling' = [cancelling EXCEPT ![n] = FALSE] /\ Makes(<<>>)
    BY <1>3, <1>7 DEF sweep
  <2>2. Pops
    BY <1>1, <1>2, <2>1, PopsWhen
  <2>3. Len(calls') = Depth - 1 /\ Steps /\ Depth' = Len(calls')
    BY <2>2 DEF Pops, Steps, Depth
  <2>4. \A c \in Kids(n) : ~running[c]
    <3>1. SUFFICES ASSUME NEW c \in Kids(n)
                   PROVE  ~running[c]
      OBVIOUS
    <3>2. PICK j \in 1..childCount(n) : c = childAt(n, j)
      BY <1>2, KidsOf
    <3>3. j < i
      BY <1>6, <1>7
    <3>. QED
      BY <1>4, <3>2, <3>3
  <2>5. ~cancelling'[n] /\ \A x \in Nodes : x # n => cancelling'[x] = cancelling[x]
    BY <1>2, <2>1 DEF TypeOK
  <2>6. Quieted(n)
    BY <1>1, <1>2, <2>3, <2>4, <2>5 DEF Quieted
  <2>7. Closing(n)'
    BY <1>1, <1>2, <1>5, <2>3, StepsOn DEF Closing
  <2>8. \A k \in Depth..Len(calls') : FALSE
    BY <1>2, <2>3
  <2>. QED
    BY <1>1, <2>5, <2>6, <2>7, <2>8, QuietSuffices
<1>8. CASE ~(i > childCount(n))
  <2>0. i \in 1..childCount(n)
    BY <1>6, <1>8
  <2>1. PICK c \in Kids(n) : c = childAt(n, i) /\ c \in Nodes
    BY <1>2, <2>0, Children, TreeNodes
  <2>2. Makes(<<From("sweep", n, i + 1), Call("cancel", c)>>) /\ UNCHANGED cancelling
    BY <1>3, <1>8, <2>1 DEF sweep
  <2>3. Pushes(From("sweep", n, i + 1), Call("cancel", c))
    <3>1. From("sweep", n, i + 1) \in Frames /\ Call("cancel", c) \in Frames
      BY <1>2, <2>1, CallTypes DEF Ops
    <3>. QED
      BY <1>1, <1>2, <2>2, <3>1, PushesWhen
  <2>4. /\ Steps /\ Len(calls') = Depth + 1 /\ calls'[Depth].op = "sweep" /\ calls'[Depth].at = n
        /\ calls'[Depth].i = i + 1
        /\ calls'[Depth + 1].op = "cancel" /\ calls'[Depth + 1].at = c /\ Depth' = Depth + 1
    BY <2>3 DEF Pushes, Steps, Call, From, Depth
  <2>5. Quieted(n)
    BY <1>1, <1>2, <2>2, <2>4 DEF Quieted
  <2>6. Closing(n)'
    BY <1>1, <1>2, <1>5, <2>4, StepsOn DEF Closing
  <2>7. Sweeping(n)'
    <3>1. Depth \in 1..Len(calls')
      BY <1>2, <2>4
    <3>. QED
      BY <2>4, <3>1 DEF Sweeping, Depth
  <2>8. ASSUME NEW k \in Depth..Len(calls')
        PROVE  CallOK(k)'
    <3>1. k = Depth \/ k = Depth + 1
      BY <1>2, <2>4
    <3>2. CASE k = Depth
      <4>1. /\ kind(n)' = kind(n) /\ Kids(n)' = Kids(n) /\ childCount(n)' = childCount(n)
            /\ \A j : childAt(n, j)' = childAt(n, j)
        BY <1>1, SameTree DEF childAt
      <4>2. Stops(k, c)'
        <5>1. k < Depth' /\ k + 1 = Depth + 1
          BY <1>2, <2>4, <3>2
        <5>. QED
          BY <2>4, <5>1 DEF Stops, Ends
      <4>3. ASSUME NEW d \in Kids(n), NEW j \in 1..childCount(n), j < i + 1, d = childAt(n, j)
            PROVE  Stops(k, d)'
        <5>1. CASE j = i
          BY <2>1, <4>2, <4>3, <5>1
        <5>2. CASE j # i
          <6>1. j < i
            BY <1>6, <4>3, <5>2
          <6>2. ~running'[d]
            BY <1>1, <1>4, <4>3, <6>1
          <6>. QED
            BY <6>2 DEF Stops
        <5>. QED
          BY <5>1, <5>2
      <4>4. k > 1 /\ k - 1 \in 1..Depth - 1 /\ k - 1 = Depth - 1
        BY <1>2, <1>4, <3>2
      <4>5. calls'[k - 1].op \in {"report", "cancelled"} /\ calls'[k - 1].at = n
        BY <1>2, <2>4, <4>4 DEF SweepOK, Steps, Kept
      <4>6. SweepOK(k, n)'
        BY <1>1, <1>4, <2>2, <2>4, <3>2, <4>1, <4>3, <4>4, <4>5 DEF SweepOK
      <4>. QED
        BY <2>4, <3>2, <4>6 DEF CallOK
    <3>3. CASE k = Depth + 1
      BY <2>4, <3>3 DEF CallOK
    <3>. QED
      BY <3>1, <3>2, <3>3
  <2>9. ASSUME NEW k \in Depth..Len(calls'), NEW j \in k + 1..Len(calls')
        PROVE  NestOK(k, j)'
    <3>1. k = Depth /\ j = Depth + 1
      BY <1>2, <2>4
    <3>2. c \in Below(n)' /\ Nodes' = Nodes
      BY <1>1, <1>2, <2>1, KidsOf DEF Below, Nodes
    <3>3. Inner(k, j)'
      BY <2>4, <3>1, <3>2 DEF Inner
    <3>. QED
      BY <2>4, <3>1, <3>3 DEF NestOK, Unwinds
  <2>. QED
    BY <1>1, <2>5, <2>6, <2>7, <2>8, <2>9, QuietSuffices
<1>. QED
  BY <1>7, <1>8

-----------------------------------------------------------------------------
(* Task::reportFinished *)

LEMMA ReportFacts ==
    ASSUME IInv, NEW n \in Nodes, calls # <<>>, Top.op = "report", Top.at = n
    PROVE  /\ TypeOK /\ NestedOK /\ CallsOK /\ NodesOK /\ OwnerOK /\ ~tripped /\ Depth \in Nat \ {0}
           /\ calls[Depth] = Top /\ Top.outcome \in Outcomes /\ (Unwinds(Depth) <=> Top.outcome = "Cancelled")
           /\ running[n] /\ ~done[n] /\ said[n] = "Nothing" /\ ~timer[n] /\ ~cancelling[n]
           /\ \A c \in Kids(n) : ~running[c]
           /\ Top.outcome = "Success" => \A c \in Kids(n) : said[c] = "Success"
           /\ n # Root => running[tree.parent[n]]
<1>1. TypeOK /\ NestedOK /\ CallsOK /\ NodesOK /\ OwnerOK /\ ~tripped
  BY DEF IInv, NestedOK
<1>2. Depth \in Nat \ {0} /\ Depth \in 1..Depth /\ calls[Depth] = Top /\ Top.outcome \in Outcomes \union {"Nothing"}
  BY <1>1, TopType
<1>3. Unwinds(Depth) <=> Top.outcome = "Cancelled"
  BY <1>2 DEF Unwinds
<1>4. CallOK(Depth)
  BY <1>1, <1>2 DEF CallsOK
<1>5. ReportOK(Depth, n)
  BY <1>2, <1>4 DEF CallOK
<1>6. Top.outcome \in Outcomes /\ running[n] /\ ~timer[n]
  BY <1>2, <1>5 DEF ReportOK
<1>7. \A c \in Kids(n) : ~running[c]
  BY <1>2, <1>5 DEF ReportOK, SweptAbove, Stops
<1>8. Top.outcome = "Success" => \A c \in Kids(n) : said[c] = "Success"
  BY <1>2, <1>5 DEF ReportOK
<1>9. TaskOK(n) /\ ParentOK(n)
  BY <1>1 DEF NodesOK
<1>10. ~done[n] /\ said[n] = "Nothing"
  BY <1>6, <1>9 DEF TaskOK
<1>11. n # Root => running[tree.parent[n]]
  BY <1>6, <1>9 DEF ParentOK
<1>12. ASSUME cancelling[n]
       PROVE  FALSE
  <2>1. PICK k \in 1..Depth : calls[k].op = "sweep" /\ calls[k].at = n
    BY <1>9, <1>12 DEF TaskOK, Sweeping
  <2>2. k # Depth
    BY <1>2, <2>1
  <2>3. Depth \in k + 1..Depth
    BY <1>2, <2>1, <2>2
  <2>4. NestOK(k, Depth)
    BY <1>1, <2>1, <2>3 DEF NestedOK, NestingOK
  <2>5. n \in Below(n)
    BY <1>2, <2>1, <2>4 DEF NestOK, Inner
  <2>. QED
    BY <1>1, <2>5, TreeNodes DEF Below
<1>. QED
  BY <1>1, <1>2, <1>3, <1>6, <1>7, <1>8, <1>10, <1>11, <1>12

(* The report of n, and what its parent p does at it *)
Reported(n, p) ==
    /\ UNCHANGED <<tree, connected, runs, dropped>> /\ (~connected => UNCHANGED heard) /\ ~tripped'
    /\ ~running'[n] /\ said'[n] = Top.outcome
    /\ n # p => cancelling'[n] = cancelling[n] /\ timer'[n] = timer[n]
    /\ \A x \in Nodes : x \notin {n, p} => Same(x)
    /\ \A x \in Nodes : x # n => running'[x] = running[x] /\ said'[x] = said[x] /\ done'[x] = done[x]
    /\ UNCHANGED expired
    /\ cancelling[p] => cancelling'[p]
    /\ Top.outcome = "Cancelled" /\ timer'[p] => timer[p]
    /\ Steps
    /\ \A k \in Depth..Len(calls') : \/ calls'[k].at = p /\ calls'[k].op \in {"report", "sweep"}
                                     \/ calls'[k].at \in Kids(p) /\ calls'[k].op = "start"

LEMMA ReportSteps ==
    ASSUME IInv, NEW n \in Nodes, calls # <<>>, Top.op = "report", Top.at = n, NEW p \in Nodes, Reported(n, p),
           ~cancelling[n]
    PROVE  /\ Steps /\ Growing /\ Local(n, p)
           /\ Top.outcome = "Cancelled" => Unwinding
<1>1. /\ TypeOK /\ calls[Depth] = Top /\ running[n] /\ Depth \in Nat \ {0}
  BY ReportFacts
<1>2. /\ Steps /\ UNCHANGED <<tree, connected, expired>> /\ (~connected => UNCHANGED heard)
      /\ Len(calls') \in {Depth - 1, Depth, Depth + 1} /\ Kids(p)' = Kids(p) /\ Kids(n)' = Kids(n)
      /\ Kept
  BY SameTree DEF Reported, Steps
<1>3. \A x \in Nodes : running'[x] => running[x] /\ x # n
  BY DEF Reported
<1>4. Growing
  BY <1>2, <1>3 DEF Growing
<1>5. Local(n, p)
  <2>1. ASSUME NEW k \in Depth..Len(calls')
        PROVE  NewAt(k, n, p)'
    BY <1>2 DEF Reported, NewAt
  <2>2. \A x \in Nodes : x \notin {n, p} => Same(x)
    BY DEF Reported
  <2>3. \A x \in Nodes : x # n => running'[x] = running[x] /\ said'[x] = said[x]
    BY DEF Reported
  <2>. QED
    BY <1>2, <2>1, <2>2, <2>3 DEF Local
<1>6. ASSUME Top.outcome = "Cancelled"
      PROVE  Unwinding
  <2>1. ASSUME NEW x \in Nodes
        PROVE  /\ timer'[x] => timer[x]
               /\ cancelling[x] => cancelling'[x]
    <3>1. CASE x \notin {n, p}
      BY <3>1 DEF Reported, Same
    <3>2. CASE x = p
      BY <1>6, <3>2 DEF Reported
    <3>3. CASE x = n /\ n # p
      BY <3>3 DEF Reported
    <3>. QED
      BY <3>1, <3>2, <3>3
  <2>2. ASSUME NEW x \in Nodes, running[x], ~running'[x]
        PROVE  calls[Depth].op = "report" /\ calls[Depth].at = x
    BY <1>1, <2>2 DEF Reported
  <2>3. ASSUME NEW x \in Nodes, Ends(Depth, x)
        PROVE  ~running'[x]
    BY <1>1, <1>3, <2>3 DEF Ends
  <2>4. calls[Depth].op # "sweep"
    BY <1>1
  <2>. QED
    BY <1>2, <1>3, <2>1, <2>2, <2>3, <2>4 DEF Unwinding
<1>. QED
  BY <1>2, <1>4, <1>5, <1>6

LEMMA ReportSuffices ==
    ASSUME IInv, TypeOK', NEW n \in Nodes, calls # <<>>, Top.op = "report", Top.at = n, NEW p \in Nodes,
           IF n = Root THEN p = n ELSE p = tree.parent[n], Reported(n, p),
           NewOK, p # n => TaskOK(p)' /\ AwaitOK(p)' /\ EarnOK(p)',
           p = n => cancelling'[n] = cancelling[n] /\ timer'[n] = timer[n], OwnerOK'
    PROVE  IInv'
<1>1. /\ TypeOK /\ NestedOK /\ CallsOK /\ NodesOK /\ calls[Depth] = Top /\ running[n] /\ ~timer[n] /\ ~cancelling[n]
      /\ Depth \in Nat \ {0} /\ (Unwinds(Depth) <=> Top.outcome = "Cancelled")
      /\ \A c \in Kids(n) : ~running[c]
      /\ Top.outcome = "Success" => \A c \in Kids(n) : said[c] = "Success"
  BY ReportFacts
<1>2. /\ Steps /\ Growing /\ Local(n, p) /\ UNCHANGED tree
      /\ Top.outcome = "Cancelled" => Unwinding
  BY <1>1, ReportSteps DEF Reported
<1>3. ASSUME NEW x \in Nodes
      PROVE  TaskOK(x)' /\ ParentOK(x)' /\ AwaitOK(x)' /\ EarnOK(x)'
  <2>1. ParentOK(x)'
    <3>1. SUFFICES ASSUME running'[x], x # Root
                   PROVE  running'[tree.parent[x]]
      BY <1>2 DEF ParentOK, Root
    <3>2. tree.parent[x] \in Nodes /\ x # n /\ running[x]
      BY <1>1, <3>1, TreeNodes DEF Reported
    <3>3. running[tree.parent[x]]
      BY <1>1, <3>1, <3>2 DEF NodesOK, ParentOK
    <3>4. tree.parent[x] # n
      BY <1>1, <3>1, <3>2 DEF Kids
    <3>. QED
      BY <3>2, <3>3, <3>4 DEF Reported
  <2>2. TaskOK(x)' /\ AwaitOK(x)' /\ EarnOK(x)'
    <3>1. CASE x \notin {n, p}
      <4>1. n # Root => p = tree.parent[n]
        OBVIOUS
      <4>. QED
        BY <1>1, <1>2, <3>1, <4>1, FarNodes
    <3>2. CASE x = p /\ x # n
      BY <3>2
    <3>3. CASE x = n
      <4>1. ~running'[n] /\ ~timer'[n] /\ ~cancelling'[n] /\ said'[n] = Top.outcome
        BY <1>1 DEF Reported
      <4>2. Kids(n)' = Kids(n) /\ \A c \in Kids(n) : said'[c] = said[c]
        <5>1. \A c \in Kids(n) : c \in Nodes /\ c # n
          BY <1>1, KidsOf, TreeNodes
        <5>. QED
          BY <1>2, <5>1, SameTree DEF Reported
      <4>3. TaskOK(n)'
        BY <4>1 DEF TaskOK
      <4>4. AwaitOK(n)'
        BY <4>1 DEF AwaitOK
      <4>5. EarnOK(n)'
        BY <1>1, <4>1, <4>2 DEF EarnOK
      <4>. QED
        BY <3>3, <4>3, <4>4, <4>5
    <3>. QED
      BY <3>1, <3>2, <3>3
  <2>. QED
    BY <2>1, <2>2
<1>4. CallsOK' /\ NestingOK' /\ NodesOK'
  <2>1. CASE Top.outcome = "Cancelled"
    BY <1>1, <1>2, <1>3, <2>1, UnwindSuffices
  <2>2. CASE Top.outcome # "Cancelled"
    BY <1>1, <1>2, <1>3, <2>2, GrowSuffices
  <2>. QED
    BY <2>1, <2>2
<1>. QED
  BY <1>4 DEF IInv, Reported

LEMMA ReportOwner ==
    ASSUME IInv, NEW n \in Nodes, calls # <<>>, Top.op = "report", Top.at = n, NEW p \in Nodes, n \in Kids(p),
           Reported(n, p), UNCHANGED heard
    PROVE  OwnerOK'
<1>1. /\ TypeOK /\ CallsOK /\ OwnerOK /\ calls[Depth] = Top /\ Depth \in Nat \ {0}
  BY ReportFacts
<1>2. Steps /\ UNCHANGED <<connected, heard, runs, dropped, tree>> /\ Root \in Nodes /\ n # Root
  BY <1>1, TreeTypes DEF Reported, Kids
<1>3. ~Starting(Root)
  BY <1>1, <1>2, StartingIs
<1>4. ~Starting(Root)'
  <2>1. \A c \in Nodes : Starting(c)' <=> \E k \in Depth..Len(calls') : calls'[k].op = "start" /\ calls'[k].at = c
    BY <1>1, <1>2, StartingIs
  <2>2. \A k \in Depth..Len(calls') : calls'[k].op = "start" => calls'[k].at # Root
    BY DEF Reported, Kids
  <2>. QED
    BY <1>2, <2>1, <2>2 DEF Root
<1>5. running'[Root] = running[Root]
  BY <1>2 DEF Reported
<1>6. Active(Root)' <=> Active(Root)
  BY <1>3, <1>4, <1>5 DEF Active, Root
<1>. QED
  BY <1>1, <1>2, <1>6, OwnerKept

(* What Task::reportFinished does in every case *)
LEMMA ReportBase ==
    ASSUME IInv, NEW n \in Nodes, report(n)
    PROVE  /\ calls # <<>> /\ Top.op = "report" /\ Top.at = n
           /\ UNCHANGED <<tree, connected, runs, dropped>>
           /\ ~running'[n] /\ said'[n] = Top.outcome
           /\ \A x \in Nodes : x # n => running'[x] = running[x] /\ said'[x] = said[x] /\ done'[x] = done[x]
           /\ \/ n = Root /\ rootFinished(Top.outcome)
              \/ n # Root /\ childFinished(tree.parent[n], Top.outcome) /\ UNCHANGED heard
<1>1. calls # <<>> /\ Top.op = "report" /\ Top.at = n
  BY DEF report, Called
<1>2. TypeOK /\ running[n] /\ ~done[n]
  BY <1>1, ReportFacts
<1>3. /\ UNCHANGED <<tree, connected, runs, dropped>>
      /\ running' = [running EXCEPT ![n] = FALSE] /\ done' = [done EXCEPT ![n] = TRUE]
      /\ said' = [said EXCEPT ![n] = Top.outcome]
      /\ \/ n = Root /\ rootFinished(Top.outcome)
         \/ n # Root /\ childFinished(tree.parent[n], Top.outcome) /\ UNCHANGED heard
  BY <1>2 DEF report
<1>. QED
  BY <1>1, <1>2, <1>3 DEF TypeOK

LEMMA ReportRootKept ==
    ASSUME IInv, TypeOK', NEW n \in Nodes, report(n), n = Root
    PROVE  IInv'
<1>1. /\ calls # <<>> /\ Top.op = "report" /\ Top.at = n
      /\ UNCHANGED <<tree, connected, runs, dropped>> /\ ~running'[n] /\ said'[n] = Top.outcome
      /\ \A x \in Nodes : x # n => running'[x] = running[x] /\ said'[x] = said[x] /\ done'[x] = done[x]
      /\ rootFinished(Top.outcome)
  BY ReportBase
<1>2. /\ TypeOK /\ CallsOK /\ OwnerOK /\ ~tripped /\ calls[Depth] = Top /\ running[n] /\ Depth \in Nat \ {0}
  BY <1>1, ReportFacts
<1>3. Pops
  BY <1>1, <1>2, PopsWhen DEF rootFinished
<1>4. /\ heard' = IF connected THEN Append(heard, Top.outcome) ELSE heard
      /\ UNCHANGED <<cancelling, index, pending, expired, attempt, timer, tripped>>
  BY <1>1 DEF rootFinished, wrappers
<1>5. \A k \in Depth..Len(calls') : FALSE
  BY <1>2, <1>3 DEF Pops
<1>6. Steps
  BY <1>3 DEF Pops, Steps
<1>7. Reported(n, n)
  <2>1. \A x \in Nodes : x # n => Same(x)
    BY <1>1, <1>4 DEF Same
  <2>. QED
    BY <1>1, <1>2, <1>4, <1>5, <1>6, <2>1 DEF Reported
<1>8. NewOK
  BY <1>5 DEF NewOK
<1>9. OwnerOK'
  <2>1. ~Active(Root)'
    <3>1. Root \in Nodes /\ ~running'[Root]
      BY <1>1
    <3>2. ~Starting(Root)'
      <4>1. \A c \in Nodes : Starting(c)' <=> \E k \in Depth..Len(calls') : calls'[k].op = "start" /\ calls'[k].at = c
        BY <1>2, <1>1, <1>6, StartingIs
      <4>. QED
        BY <3>1, <4>1, <1>5 DEF Root
    <3>. QED
      BY <3>1, <3>2 DEF Active, Root
  <2>2. connected => heard = <<>>
    BY <1>2 DEF OwnerOK, Active
  <2>3. connected' => Len(heard') = 1
    <3>1. ASSUME connected
          PROVE  heard' = <<Top.outcome>>
      BY <1>4, <2>2, <3>1
    <3>. QED
      BY <1>1, <3>1
  <2>4. ASSUME ~connected'
        PROVE  heard' = <<>> /\ (runs' > 0 => Depth' > 0 /\ calls'[1].op = "run")
    <3>1. heard = <<>> /\ heard' = heard /\ (runs > 0 => Depth > 0 /\ calls[1].op = "run")
      BY <1>1, <1>2, <1>4, <2>4 DEF OwnerOK
    <3>2. ASSUME runs' > 0
          PROVE  Depth' > 0 /\ calls'[1].op = "run"
      <4>1. calls[1].op = "run"
        BY <1>1, <3>1, <3>2
      <4>2. Depth > 1
        BY <1>1, <1>2, <4>1
      <4>. QED
        <5>1. 1 \in 1..Depth - 1 /\ Depth' = Len(calls') /\ Len(calls') = Depth - 1
          BY <1>2, <1>3, <4>2 DEF Pops, Depth
        <5>. QED
          BY <1>3, <4>1, <4>2, <5>1 DEF Pops, Kept
    <3>. QED
      BY <3>1, <3>2
  <2>5. dropped'.alive = {} /\ dropped'.told = 0
    BY <1>1, <1>2 DEF OwnerOK
  <2>. QED
    BY <2>1, <2>3, <2>4, <2>5 DEF OwnerOK
<1>. QED
  BY <1>1, <1>4, <1>7, <1>8, <1>9, ReportSuffices

(* The parent of a task that reports has not ended, unless it has expired, and is
   ended by its own wrapper only in a cancellation. *)
LEMMA ParentListens ==
    ASSUME IInv, NEW n \in Nodes, calls # <<>>, Top.op = "report", Top.at = n, NEW p \in Nodes, n \in Kids(p),
           ~cancelling[p], ~(kind(p) = "timeout" /\ expired[p])
    PROVE  /\ Closing(p) => kind(p) \in Wrappers /\ Top.outcome = "Cancelled"
           /\ running[p] /\ TaskOK(p) /\ AwaitOK(p) /\ EarnOK(p) /\ said[p] = "Nothing" /\ ~done[p]
           /\ p # n /\ n # Root /\ p = tree.parent[n] /\ n \in Nodes
<1>1. /\ TypeOK /\ NestedOK /\ CallsOK /\ NodesOK /\ calls[Depth] = Top /\ Depth \in Nat \ {0}
      /\ running[n] /\ (Unwinds(Depth) <=> Top.outcome = "Cancelled")
      /\ n # Root => running[tree.parent[n]]
  BY ReportFacts
<1>2. p # n /\ n # Root /\ p = tree.parent[n]
  BY <1>1, KidsOf, TreeNodes DEF Kids
<1>3. running[p] /\ TaskOK(p) /\ AwaitOK(p) /\ EarnOK(p) /\ said[p] = "Nothing" /\ ~done[p]
  BY <1>1, <1>2 DEF NodesOK, TaskOK
<1>4. ASSUME Closing(p)
      PROVE  kind(p) \in Wrappers /\ Top.outcome = "Cancelled"
  <2>1. PICK k \in 1..Depth : calls[k].op \in {"report", "cancelled"} /\ calls[k].at = p
    BY <1>4 DEF Closing
  <2>2. k \in 1..Depth - 1
    BY <1>1, <1>2, <2>1
  <2>3. CallOK(k)
    BY <1>1, <2>1 DEF CallsOK
  <2>4. ~SweptAbove(k, p)
    <3>1. SUFFICES ASSUME SweptAbove(k, p)
                   PROVE  FALSE
      OBVIOUS
    <3>2. k + 1 \in 1..Depth
      BY <1>1, <2>2
    <3>3. CallOK(k + 1)
      BY <1>1, <3>2 DEF CallsOK
    <3>4. SweepOK(k + 1, p)
      BY <3>1, <3>3 DEF SweptAbove, CallOK
    <3>. QED
      BY <3>4 DEF SweepOK
  <2>5. calls[k].op = "cancelled" /\ kind(p) \in Wrappers
    BY <1>1, <1>3, <2>1, <2>3, <2>4 DEF CallOK, ReportOK, CancelledOK
  <2>6. Top.outcome = "Cancelled"
    BY <1>1, <2>2, <2>5, OnlyLoops
  <2>. QED
    BY <2>5, <2>6
<1>. QED
  BY <1>2, <1>3, <1>4

(* What the parent puts on the stack in the place of the report *)
LEMMA ReportNests ==
    ASSUME IInv, NEW n \in Nodes, calls # <<>>, Top.op = "report", Top.at = n, NEW p \in Nodes, n \in Kids(p),
           Reported(n, p), ~cancelling[p], ~(kind(p) = "timeout" /\ expired[p]),
           NEW k \in 1..Depth - 1, NEW j \in {Depth, Depth + 1}, j <= Len(calls'), calls'[j].at = p,
           \/ calls'[j].op = "report" /\ calls'[j].outcome = Top.outcome
           \/ calls'[j].op = "sweep" /\ Top.outcome # "Success"
    PROVE  NestOK(k, j)'
<1>1. /\ TypeOK /\ NestedOK /\ calls[Depth] = Top /\ Depth \in Nat \ {0} /\ running[n] /\ ~cancelling[n]
      /\ (Unwinds(Depth) <=> Top.outcome = "Cancelled")
  BY ReportFacts
<1>2. /\ Steps /\ Growing /\ UNCHANGED tree /\ ~running'[n] /\ Kept
  BY <1>1, ReportSteps DEF Reported, Steps
<1>3. CASE Top.outcome = "Cancelled"
  <2>1. Unwinds(j)'
    BY <1>3 DEF Unwinds
  <2>. QED
    BY <1>1, <1>2, <1>3, <2>1, NestRises
<1>4. CASE Top.outcome = "Success"
  <2>1. calls'[j].op = "report"
    BY <1>4
  <2>. QED
    BY <1>1, <1>2, <1>4, <2>1, LaterRises
<1>5. CASE Top.outcome \notin {"Cancelled", "Success"}
  BY <1>1, <1>2, <1>5, NestNothing
<1>. QED
  BY <1>3, <1>4, <1>5

(* The parent ends with the outcome of its child. *)
LEMMA ReportClimbs ==
    ASSUME IInv, TypeOK', NEW n \in Nodes, calls # <<>>, Top.op = "report", Top.at = n,
           NEW p \in Nodes, n \in Kids(p), Reported(n, p), UNCHANGED heard,
           ~cancelling[p], ~(kind(p) = "timeout" /\ expired[p]), ~cancelling'[p], ~timer'[p],
           Len(calls') = Depth, calls'[Depth].op = "report", calls'[Depth].at = p, calls'[Depth].outcome = Top.outcome,
           \A c \in Kids(p) : c # n => ~running[c] /\ (Top.outcome = "Success" => said[c] = "Success"),
           kind(p) = "sequential" => \/ index'[p] \in 1..childCount(p) + 1 /\ Top.outcome = "Success"
                                     \/ index'[p] = index[p]
    PROVE  IInv'
<1>1. /\ TypeOK /\ NestedOK /\ CallsOK /\ NodesOK /\ calls[Depth] = Top /\ Depth \in Nat \ {0} /\ running[n]
      /\ Top.outcome \in Outcomes
  BY ReportFacts
<1>2. /\ Steps /\ UNCHANGED tree /\ Depth' = Len(calls') /\ ~running'[n] /\ said'[n] = Top.outcome
      /\ Kids(p)' = Kids(p) /\ kind(p)' = kind(p) /\ childCount(p)' = childCount(p) /\ \A j : childAt(p, j)' = childAt(p, j)
  BY SameTree DEF Reported, Depth, childAt
<1>3. /\ running[p] /\ TaskOK(p) /\ AwaitOK(p) /\ EarnOK(p) /\ said[p] = "Nothing" /\ ~done[p]
      /\ p # n /\ n # Root /\ p = tree.parent[n]
  BY ParentListens
<1>4. running'[p] /\ said'[p] = "Nothing" /\ ~done'[p]
  BY <1>3 DEF Reported
<1>5. \A c \in Kids(p) : ~running'[c] /\ (Top.outcome = "Success" => said'[c] = "Success")
  <2>1. \A c \in Kids(p) : c \in Nodes
    BY DEF Kids
  <2>. QED
    BY <1>2, <2>1 DEF Reported
<1>6. Closing(p)'
  <2>1. Depth \in 1..Len(calls')
    BY <1>1
  <2>. QED
    BY <1>2, <2>1 DEF Closing
<1>7. NewOK
  <2>1. ASSUME NEW k \in Depth..Len(calls')
        PROVE  CallOK(k)'
    <3>1. k = Depth /\ k = Depth'
      BY <1>1, <1>2
    <3>2. Top.outcome # "Nothing"
      BY <1>1 DEF Outcomes
    <3>3. ReportOK(k, p)'
      BY <1>2, <1>4, <1>5, <3>1, <3>2 DEF ReportOK
    <3>. QED
      BY <3>1, <3>3 DEF CallOK
  <2>2. ASSUME NEW k \in 1..Depth - 1, NEW j \in Depth..Len(calls')
        PROVE  NestOK(k, j)'
    <3>1. j = Depth /\ j <= Len(calls')
      BY <1>1
    <3>. QED
      BY <3>1, ReportNests
  <2>3. \A k \in Depth..Len(calls') : \A j \in k + 1..Len(calls') : NestOK(k, j)'
    BY <1>1
  <2>. QED
    BY <2>1, <2>2, <2>3 DEF NewOK
<1>8. TaskOK(p)'
  <2>1. kind(p) = "sequential" => index'[p] \in 1..childCount(p) + 1
    BY <1>3 DEF TaskOK
  <2>. QED
    BY <1>2, <1>4, <1>5, <2>1 DEF TaskOK
<1>9. AwaitOK(p)'
  BY <1>6 DEF AwaitOK
<1>10. EarnOK(p)'
  <2>1. ASSUME kind(p) = "sequential", NEW c \in Kids(p), NEW j \in 1..childCount(p), j < index'[p], c = childAt(p, j)
        PROVE  said'[c] = "Success"
    <3>1. CASE Top.outcome = "Success"
      BY <1>5, <3>1
    <3>2. CASE Top.outcome # "Success"
      <4>1. index'[p] = index[p]
        BY <2>1, <3>2
      <4>2. n = childAt(p, index[p]) /\ index[p] \in 1..childCount(p)
        BY <1>1, <1>3, <2>1, TreeNodes DEF TaskOK
      <4>3. c # n
        <5>1. index[p] \in j + 1..childCount(p)
          BY <1>1, <2>1, <4>1, <4>2, TreeNodes
        <5>. QED
          BY <1>1, <2>1, <4>2, <5>1, Children
      <4>4. said[c] = "Success"
        BY <1>3, <2>1, <4>1 DEF EarnOK
      <4>. QED
        BY <4>3, <4>4 DEF Reported, Kids
    <3>. QED
      BY <3>1, <3>2
  <2>. QED
    BY <1>2, <1>4, <1>6, <2>1 DEF EarnOK
<1>11. OwnerOK'
  BY ReportOwner
<1>. QED
  BY <1>3, <1>7, <1>8, <1>9, <1>10, <1>11, ReportSuffices

(* A task that has expired, or a group that unwinds, does nothing more. *)
LEMMA ReportIgnored ==
    ASSUME IInv, TypeOK', NEW n \in Nodes, calls # <<>>, Top.op = "report", Top.at = n,
           NEW p \in Nodes, n \in Kids(p), Reported(n, p), UNCHANGED heard, Same(p), Pops,
           cancelling[p] \/ (kind(p) = "timeout" /\ expired[p])
    PROVE  IInv'
<1>1. /\ TypeOK /\ NestedOK /\ CallsOK /\ NodesOK /\ calls[Depth] = Top /\ Depth \in Nat \ {0} /\ running[n]
      /\ n # Root => running[tree.parent[n]]
  BY ReportFacts
<1>2. /\ Steps /\ UNCHANGED tree /\ ~running'[n] /\ \A k \in Depth..Len(calls') : FALSE
      /\ Kids(p)' = Kids(p) /\ kind(p)' = kind(p) /\ childCount(p)' = childCount(p) /\ \A j : childAt(p, j)' = childAt(p, j)
  BY <1>1, SameTree DEF Reported, Pops, childAt
<1>3. p # n /\ n # Root /\ p = tree.parent[n]
  BY <1>1, KidsOf, TreeNodes DEF Kids
<1>4. running[p] /\ TaskOK(p) /\ AwaitOK(p) /\ EarnOK(p) /\ said[p] = "Nothing"
  BY <1>1, <1>3 DEF NodesOK, TaskOK
<1>5. Closing(p)
  <2>1. CASE cancelling[p]
    <3>1. PICK k \in 1..Depth : calls[k].op = "sweep" /\ calls[k].at = p
      BY <1>4, <2>1 DEF TaskOK, Sweeping
    <3>2. SweepOK(k, p)
      BY <1>1, <3>1 DEF CallsOK, CallOK
    <3>3. k - 1 \in 1..Depth
      BY <1>1, <3>2 DEF SweepOK
    <3>. QED
      BY <3>2, <3>3 DEF SweepOK, Closing
  <2>2. CASE kind(p) = "timeout" /\ expired[p]
    BY <1>4, <2>2 DEF AwaitOK
  <2>. QED
    BY <2>1, <2>2
<1>6. Closing(p)'
  BY <1>1, <1>2, <1>3, <1>5, ClosingStays
<1>7. \A c \in Kids(p) : (running'[c] => running[c]) /\ (c # n => said'[c] = said[c])
  <2>1. \A c \in Kids(p) : c \in Nodes
    BY DEF Kids
  <2>. QED
    BY <1>2, <2>1 DEF Reported
<1>8. TaskOK(p)'
  <2>1. cancelling[p] => Sweeping(p)'
    <3>1. cancelling[p] => Sweeping(p)
      BY <1>4 DEF TaskOK
    <3>. QED
      BY <1>1, <1>2, <3>1, SweepingStays
  <2>. QED
    BY <1>2, <1>4, <1>7, <2>1 DEF TaskOK, Same
<1>9. AwaitOK(p)'
  BY <1>6 DEF AwaitOK
<1>10. EarnOK(p)'
  <2>1. ASSUME kind(p) = "sequential", NEW c \in Kids(p), NEW j \in 1..childCount(p), j < index[p], c = childAt(p, j)
        PROVE  said'[c] = "Success"
    <3>1. n = childAt(p, index[p]) /\ index[p] \in 1..childCount(p)
      BY <1>1, <1>4, <2>1, TreeNodes DEF TaskOK
    <3>2. index[p] \in j + 1..childCount(p)
      BY <1>1, <2>1, <3>1, TreeNodes
    <3>3. c # n
      BY <1>1, <2>1, <3>1, <3>2, Children
    <3>4. said[c] = "Success"
      BY <1>4, <2>1 DEF EarnOK
    <3>. QED
      BY <1>7, <3>3, <3>4
  <2>2. said'[p] = "Nothing" /\ index'[p] = index[p]
    BY <1>4 DEF Same
  <2>. QED
    BY <1>2, <1>6, <2>1, <2>2 DEF EarnOK
<1>11. NewOK
  BY <1>2 DEF NewOK
<1>12. OwnerOK'
  BY ReportOwner
<1>. QED
  BY <1>3, <1>8, <1>9, <1>10, <1>11, <1>12, ReportSuffices

(* A sequence goes on with its next child. *)
LEMMA ReportStartsNext ==
    ASSUME IInv, TypeOK', NEW n \in Nodes, calls # <<>>, Top.op = "report", Top.at = n, Top.outcome = "Success",
           NEW p \in Nodes, n \in Kids(p), Reported(n, p), UNCHANGED heard, kind(p) = "sequential",
           ~cancelling[p], ~cancelling'[p], ~timer'[p],
           index'[p] = index[p] + 1, index'[p] <= childCount(p),
           NEW c \in Kids(p), c = childAt(p, index[p] + 1),
           Len(calls') = Depth, calls'[Depth].op = "start", calls'[Depth].at = c
    PROVE  IInv'
<1>1. /\ TypeOK /\ NestedOK /\ CallsOK /\ NodesOK /\ calls[Depth] = Top /\ Depth \in Nat \ {0} /\ running[n]
      /\ ~Unwinds(Depth) /\ ~cancelling[n]
  BY ReportFacts
<1>2. /\ Steps /\ UNCHANGED tree /\ Depth' = Len(calls') /\ ~running'[n] /\ said'[n] = Top.outcome
      /\ Kids(p)' = Kids(p) /\ kind(p)' = kind(p) /\ childCount(p)' = childCount(p) /\ \A j : childAt(p, j)' = childAt(p, j)
      /\ Nodes' = Nodes
  BY SameTree DEF Reported, Depth, childAt
<1>3. /\ running[p] /\ TaskOK(p) /\ AwaitOK(p) /\ EarnOK(p) /\ said[p] = "Nothing" /\ ~done[p]
      /\ p # n /\ n # Root /\ p = tree.parent[n]
  BY ParentListens
<1>4. running'[p] /\ said'[p] = "Nothing" /\ ~done'[p]
  BY <1>3 DEF Reported
<1>5. /\ n = childAt(p, index[p]) /\ index[p] \in 1..childCount(p) /\ childCount(p) \in Nat
      /\ index[p] + 1 \in index[p] + 1..childCount(p) /\ index[p] + 1 \in 1..childCount(p)
  BY <1>1, <1>3, TreeNodes DEF TaskOK
<1>6. tree.last[n] < c /\ n # c
  BY <1>1, <1>5, Children
<1>7. \A d \in Kids(p) : ~running'[d] /\ (d # n => said'[d] = said[d])
  <2>1. \A d \in Kids(p) : d \in Nodes /\ (running[d] => d = n)
    BY <1>3, <1>5 DEF Kids, TaskOK
  <2>. QED
    BY <1>2, <2>1 DEF Reported
<1>8. c \in Nodes /\ c # Root /\ tree.parent[c] = p
  BY DEF Kids
<1>9. Active(c)'
  <2>1. Depth \in 1..Len(calls')
    BY <1>1
  <2>. QED
    BY <1>2, <2>1 DEF Active, Starting
<1>10. NewOK
  <2>1. ASSUME NEW k \in Depth..Len(calls')
        PROVE  CallOK(k)'
    <3>1. k = Depth /\ k = Depth'
      BY <1>1, <1>2
    <3>2. StartOK(k, c)'
      BY <1>2, <1>4, <1>7, <1>8, <3>1 DEF StartOK, Root
    <3>. QED
      BY <3>1, <3>2 DEF CallOK
  <2>2. ASSUME NEW k \in 1..Depth - 1, NEW j \in Depth..Len(calls')
        PROVE  NestOK(k, j)'
    <3>1. j = Depth
      BY <1>1
    <3>2. Growing
      BY <1>1, ReportSteps
    <3>. QED
      BY <1>1, <1>2, <1>6, <3>1, <3>2, LaterRises
  <2>3. \A k \in Depth..Len(calls') : \A j \in k + 1..Len(calls') : NestOK(k, j)'
    BY <1>1
  <2>. QED
    BY <2>1, <2>2, <2>3 DEF NewOK
<1>11. TaskOK(p)'
  BY <1>2, <1>4, <1>5, <1>7 DEF TaskOK
<1>12. AwaitOK(p)'
  BY <1>2, <1>9 DEF AwaitOK
<1>13. EarnOK(p)'
  <2>1. ASSUME NEW d \in Kids(p), NEW j \in 1..childCount(p), j < index'[p], d = childAt(p, j)
        PROVE  said'[d] = "Success"
    <3>1. CASE d = n
      BY <1>2, <3>1
    <3>2. CASE d # n
      <4>1. j < index[p]
        BY <1>5, <2>1, <3>2
      <4>. QED
        BY <1>3, <1>7, <2>1, <3>2, <4>1 DEF EarnOK
    <3>. QED
      BY <3>1, <3>2
  <2>. QED
    BY <1>2, <1>4, <2>1 DEF EarnOK
<1>14. OwnerOK'
  BY ReportOwner
<1>. QED
  BY <1>3, <1>10, <1>11, <1>12, <1>13, <1>14, ReportSuffices

(* A parallel group that has lost a child cancels the others, and then reports. *)
LEMMA ReportSweeps ==
    ASSUME IInv, TypeOK', NEW n \in Nodes, calls # <<>>, Top.op = "report", Top.at = n, Top.outcome # "Success",
           NEW p \in Nodes, n \in Kids(p), Reported(n, p), UNCHANGED heard, kind(p) = "parallel",
           ~cancelling[p], cancelling'[p], ~timer'[p], Len(calls') = Depth + 1,
           calls'[Depth].op = "report", calls'[Depth].at = p, calls'[Depth].outcome = Top.outcome,
           calls'[Depth + 1].op = "sweep", calls'[Depth + 1].at = p, calls'[Depth + 1].i = 1
    PROVE  IInv'
<1>1. /\ TypeOK /\ calls[Depth] = Top /\ Depth \in Nat \ {0} /\ Top.outcome \in Outcomes
  BY ReportFacts
<1>2. /\ Steps /\ UNCHANGED tree /\ Depth' = Len(calls')
      /\ Kids(p)' = Kids(p) /\ kind(p)' = kind(p) /\ childCount(p)' = childCount(p) /\ \A j : childAt(p, j)' = childAt(p, j)
  BY SameTree DEF Reported, Depth, childAt
<1>3. /\ running[p] /\ said[p] = "Nothing" /\ ~done[p] /\ p # n /\ n # Root /\ p = tree.parent[n]
  BY ParentListens
<1>4. running'[p] /\ said'[p] = "Nothing" /\ ~done'[p]
  BY <1>3 DEF Reported
<1>5. PICK d \in Nat \ {0} : d = Depth
  BY <1>1
<1>6. /\ calls'[d].op = "report" /\ calls'[d].at = p /\ calls'[d].outcome = Top.outcome
      /\ calls'[d + 1].op = "sweep" /\ calls'[d + 1].at = p /\ calls'[d + 1].i = 1 /\ Depth' = d + 1
  BY <1>2, <1>5
<1>7. Closing(p)' /\ Sweeping(p)'
  <2>1. d \in 1..d + 1 /\ d + 1 \in 1..d + 1
    BY <1>5
  <2>. QED
    BY <1>6, <2>1 DEF Closing, Sweeping
<1>8. SweptAbove(d, p)'
  BY <1>5, <1>6 DEF SweptAbove
<1>9. NewOK
  <2>1. CallOK(d)'
    <3>1. Top.outcome # "Nothing"
      BY <1>1 DEF Outcomes
    <3>2. ReportOK(d, p)'
      BY <1>4, <1>6, <1>8, <3>1 DEF ReportOK
    <3>. QED
      BY <1>6, <3>2 DEF CallOK
  <2>2. CallOK(d + 1)'
    <3>1. \A j \in 1..childCount(p) : ~(j < 1)
      OBVIOUS
    <3>2. SweepOK(d + 1, p)'
      <4>1. d + 1 > 1 /\ (d + 1) - 1 = d
        BY <1>5
      <4>. QED
        BY <1>2, <1>4, <1>6, <3>1, <4>1 DEF SweepOK, Groups
    <3>. QED
      BY <1>6, <3>2 DEF CallOK
  <2>3. ASSUME NEW k \in 1..Depth - 1, NEW j \in Depth..Len(calls')
        PROVE  NestOK(k, j)'
    <3>1. j \in {Depth, Depth + 1} /\ j <= Len(calls')
      BY <1>1
    <3>. QED
      BY <3>1, ReportNests
  <2>4. NestOK(d, d + 1)'
    <3>1. Unwinds(d + 1)'
      BY <1>6 DEF Unwinds
    <3>2. Inner(d, d + 1)'
      BY <1>6, <1>8 DEF Inner
    <3>. QED
      BY <1>6, <3>1, <3>2 DEF NestOK
  <2>5. \A k \in Depth..Len(calls') : k \in {d, d + 1} /\ \A j \in k + 1..Len(calls') : k = d /\ j = d + 1
    BY <1>5
  <2>. QED
    BY <2>1, <2>2, <2>3, <2>4, <2>5 DEF NewOK
<1>10. TaskOK(p)'
  BY <1>2, <1>4, <1>7 DEF TaskOK
<1>11. AwaitOK(p)'
  BY <1>7 DEF AwaitOK
<1>12. EarnOK(p)'
  BY <1>2, <1>4, <1>7 DEF EarnOK
<1>13. OwnerOK'
  BY ReportOwner
<1>. QED
  BY <1>3, <1>9, <1>10, <1>11, <1>12, <1>13, ReportSuffices

(* A retry waits for its backoff. *)
LEMMA ReportWaits ==
    ASSUME IInv, TypeOK', NEW n \in Nodes, calls # <<>>, Top.op = "report", Top.at = n,
           NEW p \in Nodes, n \in Kids(p), Reported(n, p), UNCHANGED heard, kind(p) = "retry",
           ~cancelling[p], ~cancelling'[p], timer'[p], Pops
    PROVE  IInv'
<1>1. /\ TypeOK /\ calls[Depth] = Top /\ Depth \in Nat \ {0}
  BY ReportFacts
<1>2. /\ UNCHANGED tree /\ ~running'[n] /\ \A k \in Depth..Len(calls') : FALSE
      /\ Kids(p)' = Kids(p) /\ kind(p)' = kind(p)
  BY <1>1, SameTree DEF Reported, Pops
<1>3. /\ running[p] /\ said[p] = "Nothing" /\ ~done[p] /\ p # n /\ n # Root /\ p = tree.parent[n]
  BY ParentListens
<1>4. running'[p] /\ said'[p] = "Nothing" /\ ~done'[p]
  BY <1>3 DEF Reported
<1>5. \A c \in Kids(p) : c = n
  BY <1>1, KidsOf DEF Wrappers
<1>6. TaskOK(p)'
  BY <1>2, <1>4, <1>5 DEF TaskOK, Wrappers
<1>7. AwaitOK(p)'
  BY <1>2 DEF AwaitOK
<1>8. EarnOK(p)'
  BY <1>2, <1>4 DEF EarnOK
<1>9. NewOK
  BY <1>2 DEF NewOK
<1>10. OwnerOK'
  BY ReportOwner
<1>. QED
  BY <1>3, <1>6, <1>7, <1>8, <1>9, <1>10, ReportSuffices

(* A parallel group that counts down, and waits for the others *)
LEMMA OwedByChild ==
    ASSUME IInv, NEW n \in Nodes, calls # <<>>, Top.op = "report", Top.at = n,
           NEW p \in Nodes, n \in Kids(p), kind(p) = "parallel", ~cancelling[p]
    PROVE  \E i \in 1..childCount(p) :
              /\ n = childAt(p, i) /\ i \in Owed(p) /\ ~Covered(p, i)
              /\ \A j \in 1..childCount(p) : n = childAt(p, j) => j = i
              /\ IsFiniteSet(Owed(p) \ {i}) /\ Cardinality(Owed(p) \ {i}) = pending[p] - 1
              /\ pending[p] \in Nat /\ pending[p] >= 1
<1>1. /\ TypeOK /\ CallsOK /\ running[n]
  BY ReportFacts
<1>2. running[p] /\ AwaitOK(p) /\ ~Closing(p)
  BY ParentListens DEF Wrappers
<1>3. PICK i \in 1..childCount(p) : n = childAt(p, i)
  BY <1>1, KidsOf
<1>4. ASSUME NEW j \in 1..childCount(p), n = childAt(p, j)
      PROVE  j = i
  <2>1. i \in Nat /\ j \in Nat /\ childCount(p) \in Nat
    BY <1>1, TreeNodes
  <2>2. CASE j < i
    <3>1. i \in j + 1..childCount(p)
      BY <2>1, <2>2
    <3>. QED
      BY <1>1, <1>3, <1>4, <3>1, Children
  <2>3. CASE i < j
    <3>1. j \in i + 1..childCount(p)
      BY <2>1, <2>3
    <3>. QED
      BY <1>1, <1>3, <1>4, <3>1, Children
  <2>. QED
    BY <2>1, <2>2, <2>3
<1>5. i \in Owed(p)
  BY <1>1, <1>3 DEF Owed, Active
<1>6. ~Covered(p, i)
  <2>1. SUFFICES ASSUME NEW k \in 1..Depth, calls[k].op = "startAll", calls[k].at = p, calls[k].i <= i
                 PROVE  FALSE
    BY DEF Covered
  <2>2. StartAllOK(k, p)
    BY <1>1, <2>1 DEF CallsOK, CallOK
  <2>. QED
    BY <1>1, <1>2, <1>3, <2>1, <2>2 DEF StartAllOK
<1>7. IsFiniteSet(Owed(p))
  <2>1. childCount(p) \in Nat
    BY <1>1, TreeNodes
  <2>2. IsFiniteSet(1..childCount(p)) /\ Owed(p) \subseteq 1..childCount(p)
    BY <2>1, FS_Interval DEF Owed
  <2>. QED
    BY <2>2, FS_Subset
<1>8. pending[p] >= 1 /\ pending[p] = Cardinality(Owed(p))
  BY <1>2 DEF AwaitOK
<1>9. /\ IsFiniteSet(Owed(p) \ {i}) /\ Cardinality(Owed(p) \ {i}) = Cardinality(Owed(p)) - 1
      /\ Cardinality(Owed(p)) \in Nat
  BY <1>5, <1>7, FS_RemoveElement, FS_CardinalityType
<1>. QED
  BY <1>3, <1>4, <1>5, <1>6, <1>8, <1>9

(* The last child has succeeded. *)
LEMMA OwedByNone ==
    ASSUME IInv, NEW n \in Nodes, calls # <<>>, Top.op = "report", Top.at = n,
           NEW p \in Nodes, n \in Kids(p), kind(p) = "parallel", ~cancelling[p], pending[p] <= 1
    PROVE  \A c \in Kids(p) : c # n => ~running[c] /\ said[c] = "Success"
<1>1. PICK i \in 1..childCount(p) :
         /\ n = childAt(p, i) /\ IsFiniteSet(Owed(p) \ {i}) /\ Cardinality(Owed(p) \ {i}) = pending[p] - 1
         /\ pending[p] \in Nat /\ pending[p] >= 1
  BY OwedByChild
<1>2. Owed(p) \ {i} = {}
  <2>1. Cardinality(Owed(p) \ {i}) = 0
    BY <1>1
  <2>. QED
    BY <1>1, <2>1, FS_EmptySet
<1>3. TypeOK /\ running[p] /\ EarnOK(p) /\ ~Closing(p)
  BY ReportFacts, ParentListens DEF Wrappers
<1>4. SUFFICES ASSUME NEW c \in Kids(p), c # n
               PROVE  ~running[c] /\ said[c] = "Success"
  OBVIOUS
<1>5. PICK j \in 1..childCount(p) : c = childAt(p, j)
  BY <1>3, KidsOf
<1>6. j \notin Owed(p)
  BY <1>1, <1>2, <1>4, <1>5
<1>7. ~Active(c) /\ ~Covered(p, j)
  BY <1>5, <1>6 DEF Owed
<1>. QED
  BY <1>3, <1>5, <1>7 DEF EarnOK, Active

LEMMA ReportCounts ==
    ASSUME IInv, TypeOK', NEW n \in Nodes, calls # <<>>, Top.op = "report", Top.at = n, Top.outcome = "Success",
           NEW p \in Nodes, n \in Kids(p), Reported(n, p), UNCHANGED heard, kind(p) = "parallel",
           ~cancelling[p], ~cancelling'[p], ~timer'[p], pending'[p] = pending[p] - 1, pending[p] > 1, Pops
    PROVE  IInv'
<1>1. /\ TypeOK /\ CallsOK /\ NodesOK /\ calls[Depth] = Top /\ Depth \in Nat \ {0} /\ running[n]
  BY ReportFacts
<1>2. /\ Steps /\ UNCHANGED tree /\ ~running'[n] /\ said'[n] = "Success" /\ \A k \in Depth..Len(calls') : FALSE
      /\ Kids(p)' = Kids(p) /\ kind(p)' = kind(p) /\ childCount(p)' = childCount(p) /\ \A j : childAt(p, j)' = childAt(p, j)
  BY <1>1, SameTree DEF Reported, Pops, childAt
<1>3. /\ running[p] /\ TaskOK(p) /\ AwaitOK(p) /\ EarnOK(p) /\ ~Closing(p) /\ said[p] = "Nothing" /\ ~done[p]
      /\ p # n /\ n # Root /\ p = tree.parent[n]
  BY ParentListens
<1>4. running'[p] /\ said'[p] = "Nothing" /\ ~done'[p]
  BY <1>3 DEF Reported
<1>5. PICK i \in 1..childCount(p) :
         /\ n = childAt(p, i) /\ ~Covered(p, i)
         /\ \A j \in 1..childCount(p) : n = childAt(p, j) => j = i
         /\ Cardinality(Owed(p) \ {i}) = pending[p] - 1
         /\ pending[p] \in Nat
  BY OwedByChild
<1>6. ASSUME NEW c \in Kids(p)
      PROVE  Active(c)' <=> (Active(c) /\ c # n)
  <2>1. c \in Nodes
    BY DEF Kids
  <2>2. ~Starting(c) /\ ~Starting(c)'
    <3>1. Starting(c) <=> calls[Depth].op = "start" /\ calls[Depth].at = c
      BY <1>1, <1>2, <2>1, StartingIs
    <3>2. Starting(c)' <=> \E k \in Depth..Len(calls') : calls'[k].op = "start" /\ calls'[k].at = c
      BY <1>1, <1>2, <2>1, StartingIs
    <3>. QED
      BY <1>1, <1>2, <3>1, <3>2
  <2>3. running'[c] <=> running[c] /\ c # n
    BY <1>2, <2>1 DEF Reported
  <2>. QED
    BY <2>2, <2>3 DEF Active
<1>7. ASSUME NEW j \in 1..childCount(p)
      PROVE  Covered(p, j)' <=> Covered(p, j)
  <2>1. Covered(p, j) <=> CoveredBelow(p, j)
    BY <1>1, <1>2, CoveredIs
  <2>2. Covered(p, j)' <=>
           \/ CoveredBelow(p, j)
           \/ \E k \in Depth..Len(calls') : calls'[k].op = "startAll" /\ calls'[k].at = p /\ calls'[k].i <= j
    BY <1>1, <1>2, CoveredIs
  <2>. QED
    BY <1>2, <2>1, <2>2
<1>8. Owed(p)' = Owed(p) \ {i}
  <2>1. Owed(p)' = {j \in 1..childCount(p) : Covered(p, j)' \/ \E c \in Kids(p) : c = childAt(p, j) /\ Active(c)'}
    BY <1>2 DEF Owed
  <2>2. Owed(p) = {j \in 1..childCount(p) : Covered(p, j) \/ \E c \in Kids(p) : c = childAt(p, j) /\ Active(c)}
    BY DEF Owed
  <2>3. ASSUME NEW j \in 1..childCount(p)
        PROVE  (Covered(p, j)' \/ \E c \in Kids(p) : c = childAt(p, j) /\ Active(c)') <=>
               (j # i /\ (Covered(p, j) \/ \E c \in Kids(p) : c = childAt(p, j) /\ Active(c)))
    <3>1. CASE j = i
      BY <1>5, <1>6, <1>7, <3>1
    <3>2. CASE j # i
      <4>1. n # childAt(p, j)
        BY <1>5, <3>2
      <4>. QED
        BY <1>6, <1>7, <3>2, <4>1
    <3>. QED
      BY <3>1, <3>2
  <2>. QED
    BY <2>1, <2>2, <2>3
<1>9. TaskOK(p)'
  BY <1>2, <1>4 DEF TaskOK
<1>10. AwaitOK(p)'
  <2>1. pending'[p] >= 1 /\ pending'[p] = Cardinality(Owed(p)')
    BY <1>5, <1>8
  <2>. QED
    BY <1>2, <2>1 DEF AwaitOK
<1>11. EarnOK(p)'
  <2>1. ASSUME NEW c \in Kids(p), NEW j \in 1..childCount(p), c = childAt(p, j), ~Active(c)', ~Covered(p, j)'
        PROVE  said'[c] = "Success"
    <3>1. CASE c = n
      BY <1>2, <3>1
    <3>2. CASE c # n
      <4>1. said[c] = "Success"
        BY <1>3, <1>6, <1>7, <2>1, <3>2 DEF EarnOK
      <4>. QED
        BY <3>2, <4>1 DEF Reported, Kids
    <3>. QED
      BY <3>1, <3>2
  <2>. QED
    BY <1>2, <1>4, <2>1 DEF EarnOK
<1>12. NewOK
  BY <1>2 DEF NewOK
<1>13. OwnerOK'
  BY ReportOwner
<1>. QED
  BY <1>3, <1>9, <1>10, <1>11, <1>12, <1>13, ReportSuffices

LEMMA ReportedWhen ==
    ASSUME IInv, NEW n \in Nodes, report(n), NEW p \in Nodes, n \in Kids(p), ~tripped', UNCHANGED expired,
           \A x \in Nodes : x # p => /\ cancelling'[x] = cancelling[x] /\ index'[x] = index[x]
                                     /\ pending'[x] = pending[x] /\ attempt'[x] = attempt[x] /\ timer'[x] = timer[x],
           cancelling[p] => cancelling'[p], Top.outcome = "Cancelled" /\ timer'[p] => timer[p], Steps,
           \A k \in Depth..Len(calls') : \/ calls'[k].at = p /\ calls'[k].op \in {"report", "sweep"}
                                         \/ calls'[k].at \in Kids(p) /\ calls'[k].op = "start"
    PROVE  Reported(n, p) /\ UNCHANGED heard
<1>1. /\ UNCHANGED <<tree, connected, runs, dropped>> /\ ~running'[n] /\ said'[n] = Top.outcome
      /\ \A x \in Nodes : x # n => running'[x] = running[x] /\ said'[x] = said[x] /\ done'[x] = done[x]
  BY ReportBase
<1>2. n # Root
  BY DEF Kids
<1>3. UNCHANGED heard
  BY <1>2, ReportBase
<1>4. \A x \in Nodes : x \notin {n, p} => Same(x)
  BY <1>1 DEF Same
<1>5. n # p => cancelling'[n] = cancelling[n] /\ timer'[n] = timer[n]
  OBVIOUS
<1>. QED
  BY <1>1, <1>3, <1>4, <1>5 DEF Reported

LEMMA SequentialReportKept ==
    ASSUME IInv, TypeOK', NEW n \in Nodes, report(n), NEW p \in Nodes, n \in Kids(p), kind(p) = "sequential",
           ~cancelling[p], sequentialChildFinished(p, Top.outcome)
    PROVE  IInv'
<1>1. /\ calls # <<>> /\ Top.op = "report" /\ Top.at = n
  BY ReportBase
<1>2. /\ TypeOK /\ ~tripped /\ Depth \in Nat \ {0} /\ calls[Depth] = Top /\ Top.outcome \in Outcomes
      /\ Top.outcome \in Outcomes \union {"Nothing"}
  BY <1>1, ReportFacts
<1>3. running[p] /\ TaskOK(p) /\ AwaitOK(p) /\ EarnOK(p) /\ ~Closing(p)
  BY <1>1, ParentListens DEF Wrappers
<1>4. /\ n = childAt(p, index[p]) /\ index[p] \in 1..childCount(p) /\ childCount(p) \in Nat
      /\ \A c \in Kids(p) : running[c] => c = n
  <2>1. running[n]
    BY <1>1, ReportFacts
  <2>. QED
    BY <1>2, <1>3, <2>1, TreeNodes DEF TaskOK
<1>5. /\ UNCHANGED <<cancelling, pending, expired, attempt, timer>>
      /\ Assert(index[p] <= childCount(p)) /\ ~timer[p]
  BY <1>3 DEF sequentialChildFinished, wrappers, TaskOK, Wrappers
<1>6. ~tripped'
  <2>1. index[p] <= childCount(p)
    BY <1>4
  <2>. QED
    BY <1>2, <1>5, <2>1 DEF Assert
<1>7. CASE Top.outcome # "Success" /\ Makes(<<Says(p, Top.outcome)>>) /\ UNCHANGED index
  <2>1. Puts(Says(p, Top.outcome))
    BY <1>1, <1>2, <1>7, CallTypes, PutsWhen
  <2>2. /\ Kept /\ Len(calls') = Depth /\ calls'[Depth].op = "report" /\ calls'[Depth].at = p
        /\ calls'[Depth].outcome = Top.outcome
    BY <2>1 DEF Puts, Says
  <2>3. \A k \in Depth..Len(calls') : k = Depth
    BY <1>2, <2>2
  <2>4. Steps
    BY <2>2 DEF Steps
  <2>5. Reported(n, p) /\ UNCHANGED heard
    BY <1>5, <1>6, <1>7, <2>2, <2>3, <2>4, ReportedWhen
  <2>. QED
    BY <1>1, <1>4, <1>5, <1>7, <2>2, <2>5, ReportClimbs
<1>8. CASE /\ Top.outcome = "Success" /\ index' = [index EXCEPT ![p] = index[p] + 1]
           /\ Makes(IF index[p] + 1 > childCount(p) THEN <<Says(p, "Success")>>
                                                    ELSE <<Call("start", childAt(p, index[p] + 1))>>)
  <2>1. index'[p] = index[p] + 1 /\ \A x \in Nodes : x # p => index'[x] = index[x]
    BY <1>2, <1>8 DEF TypeOK
  <2>2. CASE index[p] + 1 > childCount(p)
    <3>0. Makes(<<Says(p, "Success")>>) /\ Says(p, "Success") \in Frames
      BY <1>2, <1>8, <2>2, CallTypes DEF Makes
    <3>1. Puts(Says(p, "Success"))
      BY <1>1, <1>2, <3>0, PutsWhen
    <3>2. /\ Kept /\ Len(calls') = Depth /\ calls'[Depth].op = "report" /\ calls'[Depth].at = p
          /\ calls'[Depth].outcome = Top.outcome
      BY <1>8, <3>1 DEF Puts, Says
    <3>3. \A k \in Depth..Len(calls') : k = Depth
      BY <1>2, <3>2
    <3>4. Steps
      BY <3>2 DEF Steps
    <3>5. Reported(n, p) /\ UNCHANGED heard
      BY <1>5, <1>6, <2>1, <3>2, <3>3, <3>4, ReportedWhen
    <3>6. ASSUME NEW c \in Kids(p), c # n
          PROVE  ~running[c] /\ said[c] = "Success"
      <4>1. PICK j \in 1..childCount(p) : c = childAt(p, j)
        BY <1>2, KidsOf
      <4>2. j < index[p]
        BY <1>4, <2>2, <3>6, <4>1
      <4>. QED
        BY <1>3, <1>4, <3>6, <4>1, <4>2 DEF EarnOK
    <3>7. index'[p] \in 1..childCount(p) + 1
      BY <1>4, <2>1
    <3>. QED
      BY <1>1, <1>5, <1>8, <3>2, <3>5, <3>6, <3>7, ReportClimbs
  <2>3. CASE ~(index[p] + 1 > childCount(p))
    <3>1. index[p] + 1 \in 1..childCount(p) /\ index'[p] <= childCount(p)
      BY <1>4, <2>1, <2>3
    <3>2. PICK c \in Kids(p) : c = childAt(p, index[p] + 1)
      BY <1>2, <3>1, Children
    <3>3. c \in Nodes /\ Makes(<<Call("start", c)>>) /\ Call("start", c) \in Frames
      BY <1>2, <1>8, <2>3, <3>2, CallTypes DEF Makes, Kids, Ops
    <3>4. Puts(Call("start", c))
      BY <1>1, <1>2, <3>3, PutsWhen
    <3>5. Kept /\ Len(calls') = Depth /\ calls'[Depth].op = "start" /\ calls'[Depth].at = c
      BY <3>4 DEF Puts, Call, From
    <3>6. \A k \in Depth..Len(calls') : k = Depth
      BY <1>2, <3>5
    <3>7. Steps
      BY <3>5 DEF Steps
    <3>8. Reported(n, p) /\ UNCHANGED heard
      BY <1>5, <1>6, <2>1, <3>5, <3>6, <3>7, ReportedWhen
    <3>. QED
      BY <1>1, <1>5, <1>8, <2>1, <3>1, <3>2, <3>5, <3>8, ReportStartsNext
  <2>. QED
    BY <2>2, <2>3
<1>. QED
  BY <1>7, <1>8 DEF sequentialChildFinished

LEMMA ParallelReportKept ==
    ASSUME IInv, TypeOK', NEW n \in Nodes, report(n), NEW p \in Nodes, n \in Kids(p), kind(p) = "parallel",
           ~cancelling[p], parallelChildFinished(p, Top.outcome)
    PROVE  IInv'
<1>1. /\ calls # <<>> /\ Top.op = "report" /\ Top.at = n
  BY ReportBase
<1>2. /\ TypeOK /\ ~tripped /\ Depth \in Nat \ {0} /\ calls[Depth] = Top /\ Top.outcome \in Outcomes
      /\ Top.outcome \in Outcomes \union {"Nothing"}
  BY <1>1, ReportFacts
<1>3. running[p] /\ TaskOK(p)
  BY <1>1, ParentListens
<1>4. pending[p] \in Nat /\ pending[p] >= 1
  BY <1>1, OwedByChild
<1>5. /\ UNCHANGED <<index, expired, attempt, timer>> /\ ~timer[p]
      /\ pending'[p] = pending[p] - 1 /\ \A x \in Nodes : x # p => pending'[x] = pending[x]
  BY <1>2, <1>3 DEF parallelChildFinished, wrappers, TaskOK, Wrappers, TypeOK
<1>6. CASE Top.outcome # "Success" /\ cancelChildren(p, <<Says(p, Top.outcome)>>, pending[p] > 0)
  <2>1. /\ Assert(pending[p] > 0 /\ ~cancelling[p]) /\ cancelling' = [cancelling EXCEPT ![p] = TRUE]
        /\ Makes(<<Says(p, Top.outcome)>> \o <<Call("sweep", p)>>)
    BY <1>6 DEF cancelChildren, Makes
  <2>2. ~tripped' /\ cancelling'[p] /\ \A x \in Nodes : x # p => cancelling'[x] = cancelling[x]
    <3>1. ~tripped'
      <4>1. pending[p] > 0
        BY <1>4
      <4>. QED
        BY <1>2, <2>1, <4>1 DEF Assert
    <3>. QED
      BY <1>2, <2>1, <3>1 DEF TypeOK
  <2>3. Says(p, Top.outcome) \in Frames /\ Call("sweep", p) \in Frames
    BY <1>2, CallTypes DEF Ops
  <2>4. Makes(<<Says(p, Top.outcome), Call("sweep", p)>>)
    BY <2>1, <2>3, Joined DEF Makes
  <2>5. Pushes(Says(p, Top.outcome), Call("sweep", p))
    BY <1>1, <1>2, <2>3, <2>4, PushesWhen
  <2>6. /\ Kept /\ Len(calls') = Depth + 1 /\ calls'[Depth].op = "report" /\ calls'[Depth].at = p
        /\ calls'[Depth].outcome = Top.outcome
        /\ calls'[Depth + 1].op = "sweep" /\ calls'[Depth + 1].at = p /\ calls'[Depth + 1].i = 1
    BY <2>5 DEF Pushes, Says, Call, From
  <2>7. \A k \in Depth..Len(calls') : k = Depth \/ k = Depth + 1
    BY <1>2, <2>6
  <2>8. Steps
    BY <2>6 DEF Steps
  <2>9. Reported(n, p) /\ UNCHANGED heard
    BY <1>5, <2>2, <2>6, <2>7, <2>8, ReportedWhen
  <2>. QED
    BY <1>1, <1>5, <1>6, <2>2, <2>6, <2>9, ReportSweeps
<1>7. CASE /\ Top.outcome = "Success" /\ Assert(pending[p] > 0) /\ UNCHANGED cancelling
           /\ Makes(IF pending[p] <= 1 THEN <<Says(p, "Success")>> ELSE <<>>)
  <2>1. ~tripped'
    <3>1. pending[p] > 0
      BY <1>4
    <3>. QED
      BY <1>2, <1>7, <3>1 DEF Assert
  <2>2. CASE pending[p] <= 1
    <3>0. Makes(<<Says(p, "Success")>>) /\ Says(p, "Success") \in Frames
      BY <1>2, <1>7, <2>2, CallTypes DEF Makes
    <3>1. Puts(Says(p, "Success"))
      BY <1>1, <1>2, <3>0, PutsWhen
    <3>2. /\ Kept /\ Len(calls') = Depth /\ calls'[Depth].op = "report" /\ calls'[Depth].at = p
          /\ calls'[Depth].outcome = Top.outcome
      BY <1>7, <3>1 DEF Puts, Says
    <3>3. \A k \in Depth..Len(calls') : k = Depth
      BY <1>2, <3>2
    <3>4. Steps
      BY <3>2 DEF Steps
    <3>5. Reported(n, p) /\ UNCHANGED heard
      BY <1>5, <1>7, <2>1, <3>2, <3>3, <3>4, ReportedWhen
    <3>6. \A c \in Kids(p) : c # n => ~running[c] /\ said[c] = "Success"
      BY <1>1, <2>2, OwedByNone
    <3>. QED
      BY <1>1, <1>5, <1>7, <3>2, <3>5, <3>6, ReportClimbs
  <2>3. CASE ~(pending[p] <= 1)
    <3>1. Makes(<<>>)
      BY <1>7, <2>3 DEF Makes
    <3>2. Pops
      BY <1>1, <1>2, <3>1, PopsWhen
    <3>3. \A k \in Depth..Len(calls') : FALSE
      BY <1>2, <3>2 DEF Pops
    <3>4. Steps
      BY <3>2 DEF Pops, Steps
    <3>5. Reported(n, p) /\ UNCHANGED heard
      BY <1>5, <1>7, <2>1, <3>3, <3>4, ReportedWhen
    <3>6. pending[p] > 1
      BY <1>4, <2>3
    <3>. QED
      BY <1>1, <1>5, <1>7, <3>2, <3>5, <3>6, ReportCounts
  <2>. QED
    BY <2>2, <2>3
<1>. QED
  BY <1>6, <1>7 DEF parallelChildFinished

LEMMA TimeoutReportKept ==
    ASSUME IInv, TypeOK', NEW n \in Nodes, report(n), NEW p \in Nodes, n \in Kids(p), kind(p) = "timeout",
           ~cancelling[p], timeoutChildFinished(p, Top.outcome)
    PROVE  IInv'
<1>1. /\ calls # <<>> /\ Top.op = "report" /\ Top.at = n
  BY ReportBase
<1>2. /\ TypeOK /\ ~tripped /\ Depth \in Nat \ {0} /\ calls[Depth] = Top /\ Top.outcome \in Outcomes
      /\ Top.outcome \in Outcomes \union {"Nothing"}
  BY <1>1, ReportFacts
<1>3. UNCHANGED <<cancelling, index, pending, expired, attempt, tripped>>
  BY DEF timeoutChildFinished
<1>4. CASE expired[p] /\ Makes(<<>>) /\ UNCHANGED timer
  <2>1. Pops
    BY <1>1, <1>2, <1>4, PopsWhen
  <2>2. \A k \in Depth..Len(calls') : FALSE
    BY <1>2, <2>1 DEF Pops
  <2>3. Steps
    BY <2>1 DEF Pops, Steps
  <2>4. Reported(n, p) /\ UNCHANGED heard
    BY <1>2, <1>3, <1>4, <2>2, <2>3, ReportedWhen
  <2>5. p # n
    BY <1>2, KidsOf, TreeNodes
  <2>6. Same(p)
    BY <1>3, <1>4, <2>4, <2>5 DEF Same, Reported
  <2>. QED
    BY <1>1, <1>4, <2>1, <2>4, <2>6, ReportIgnored
<1>5. CASE ~expired[p] /\ Makes(<<Says(p, Top.outcome)>>) /\ timer' = [timer EXCEPT ![p] = FALSE]
  <2>1. Puts(Says(p, Top.outcome))
    BY <1>1, <1>2, <1>5, CallTypes, PutsWhen
  <2>2. /\ Kept /\ Len(calls') = Depth /\ calls'[Depth].op = "report" /\ calls'[Depth].at = p
        /\ calls'[Depth].outcome = Top.outcome
    BY <2>1 DEF Puts, Says
  <2>3. \A k \in Depth..Len(calls') : k = Depth
    BY <1>2, <2>2
  <2>4. Steps
    BY <2>2 DEF Steps
  <2>5. ~timer'[p] /\ \A x \in Nodes : x # p => timer'[x] = timer[x]
    BY <1>2, <1>5 DEF TypeOK
  <2>6. Reported(n, p) /\ UNCHANGED heard
    BY <1>2, <1>3, <2>2, <2>3, <2>4, <2>5, ReportedWhen
  <2>7. \A c \in Kids(p) : c = n
    BY <1>2, KidsOf DEF Wrappers
  <2>. QED
    BY <1>1, <1>3, <1>5, <2>2, <2>5, <2>6, <2>7, ReportClimbs
<1>. QED
  BY <1>4, <1>5 DEF timeoutChildFinished

LEMMA RetryReportKept ==
    ASSUME IInv, TypeOK', NEW n \in Nodes, report(n), NEW p \in Nodes, n \in Kids(p), kind(p) = "retry",
           ~cancelling[p], retryChildFinished(p, Top.outcome)
    PROVE  IInv'
<1>1. /\ calls # <<>> /\ Top.op = "report" /\ Top.at = n
  BY ReportBase
<1>2. /\ TypeOK /\ ~tripped /\ Depth \in Nat \ {0} /\ calls[Depth] = Top /\ Top.outcome \in Outcomes
      /\ Top.outcome \in Outcomes \union {"Nothing"} /\ running[n]
  BY <1>1, ReportFacts
<1>3. attempt[p] >= 1 /\ ~timer[p]
  BY <1>1, <1>2, ParentListens DEF TaskOK
<1>4. PICK made \in Nat : made = IF attempt[p] >= 1 THEN attempt[p] ELSE 1
  BY <1>2 DEF TypeOK
<1>5. /\ Assert(attempt[p] >= 1) /\ UNCHANGED <<cancelling, index, pending, expired>>
      /\ attempt' = [attempt EXCEPT ![p] = IF Top.outcome = "Success" THEN 0 ELSE made]
  BY <1>4 DEF retryChildFinished
<1>6. ~tripped' /\ \A x \in Nodes : x # p => attempt'[x] = attempt[x]
  <2>1. ~tripped'
    BY <1>2, <1>3, <1>5 DEF Assert
  <2>. QED
    BY <1>2, <1>5, <2>1 DEF TypeOK
<1>7. CASE Makes(<<Says(p, Top.outcome)>>) /\ UNCHANGED timer
  <2>1. Puts(Says(p, Top.outcome))
    BY <1>1, <1>2, <1>7, CallTypes, PutsWhen
  <2>2. /\ Kept /\ Len(calls') = Depth /\ calls'[Depth].op = "report" /\ calls'[Depth].at = p
        /\ calls'[Depth].outcome = Top.outcome
    BY <2>1 DEF Puts, Says
  <2>3. \A k \in Depth..Len(calls') : k = Depth
    BY <1>2, <2>2
  <2>4. Steps
    BY <2>2 DEF Steps
  <2>5. Reported(n, p) /\ UNCHANGED heard
    BY <1>5, <1>6, <1>7, <2>2, <2>3, <2>4, ReportedWhen
  <2>6. \A c \in Kids(p) : c = n
    BY <1>2, KidsOf DEF Wrappers
  <2>. QED
    BY <1>1, <1>3, <1>5, <1>7, <2>2, <2>5, <2>6, ReportClimbs
<1>8. CASE Top.outcome # "Cancelled" /\ Makes(<<>>) /\ timer' = [timer EXCEPT ![p] = TRUE]
  <2>1. Pops
    BY <1>1, <1>2, <1>8, PopsWhen
  <2>2. \A k \in Depth..Len(calls') : FALSE
    BY <1>2, <2>1 DEF Pops
  <2>3. Steps
    BY <2>1 DEF Pops, Steps
  <2>4. timer'[p] /\ \A x \in Nodes : x # p => timer'[x] = timer[x]
    BY <1>2, <1>8 DEF TypeOK
  <2>5. Reported(n, p) /\ UNCHANGED heard
    BY <1>5, <1>6, <1>8, <2>2, <2>3, <2>4, ReportedWhen
  <2>. QED
    BY <1>1, <1>5, <2>1, <2>4, <2>5, ReportWaits
<1>. QED
  BY <1>4, <1>7, <1>8 DEF retryChildFinished

LEMMA ReportKept ==
    ASSUME IInv, TypeOK', NEW n \in Nodes, report(n)
    PROVE  IInv'
<1>1. CASE n = Root
  BY <1>1, ReportRootKept
<1>2. CASE n # Root
  <2>1. calls # <<>> /\ Top.op = "report" /\ Top.at = n /\ childFinished(tree.parent[n], Top.outcome)
    BY <1>2, ReportBase
  <2>2. TypeOK /\ ~tripped /\ Depth \in Nat \ {0} /\ running[tree.parent[n]]
    BY <1>2, <2>1, ReportFacts
  <2>3. PICK p \in Nodes : p = tree.parent[n] /\ n \in Kids(p)
    BY <1>2, <2>2, HasParent
  <2>4. CASE cancelling[p]
    <3>1. Makes(<<>>) /\ UNCHANGED <<cancelling, index, pending, expired, attempt, timer, tripped>>
      BY <2>1, <2>3, <2>4 DEF childFinished, wrappers
    <3>2. Pops
      BY <2>1, <2>2, <3>1, PopsWhen
    <3>3. \A k \in Depth..Len(calls') : FALSE
      BY <2>2, <3>2 DEF Pops
    <3>4. Steps
      BY <3>2 DEF Pops, Steps
    <3>5. Reported(n, p) /\ UNCHANGED heard
      BY <2>2, <2>3, <3>1, <3>3, <3>4, ReportedWhen
    <3>6. p # n
      BY <2>2, <2>3, KidsOf, TreeNodes
    <3>7. Same(p)
      BY <3>1, <3>5, <3>6 DEF Same, Reported
    <3>. QED
      BY <2>1, <2>3, <2>4, <3>2, <3>5, <3>7, ReportIgnored
  <2>5. CASE ~cancelling[p]
    <3>1. \/ kind(p) = "sequential" /\ sequentialChildFinished(p, Top.outcome)
          \/ kind(p) = "parallel" /\ parallelChildFinished(p, Top.outcome)
          \/ kind(p) = "timeout" /\ timeoutChildFinished(p, Top.outcome)
          \/ kind(p) = "retry" /\ retryChildFinished(p, Top.outcome)
      BY <2>1, <2>2, <2>3, <2>5 DEF childFinished
    <3>. QED
      BY <2>3, <2>5, <3>1, SequentialReportKept, ParallelReportKept, TimeoutReportKept, RetryReportKept
  <2>. QED
    BY <2>4, <2>5
<1>. QED
  BY <1>1, <1>2

-----------------------------------------------------------------------------
(* The rest of TaskRunner::run *)

Lower == {ss \in Nat \X Nat : ss[1] < ss[2]}

LEMMA LowerWellFounded == IsWellFoundedOn(Lower, Nat)
BY NatLessThanWellFounded, Zenon DEF OpToRel, Lower

(* No task runs without the root: the first of those that run would have a
   parent that runs, and comes before it. *)
LEMMA NoneRuns ==
    ASSUME TypeOK, NodesOK, ~running[Root]
    PROVE  \A n \in Nodes : ~running[n] /\ ~timer[n]
<1>1. {n \in Nodes : running[n]} = {}
  <2>1. SUFFICES ASSUME NEW S, S = {n \in Nodes : running[n]}, S # {}
                 PROVE  FALSE
    OBVIOUS
  <2>2. S \subseteq Nat
    BY <2>1, TreeTypes
  <2>3. PICK m \in S : \A y \in S : ~(<<y, m>> \in Lower)
    BY <2>1, <2>2, LowerWellFounded, WFMin, Zenon
  <2>4. m \in Nodes /\ running[m] /\ m # Root
    BY <2>1, <2>3
  <2>5. tree.parent[m] \in Nodes /\ tree.parent[m] < m /\ m \in Nat /\ tree.parent[m] \in Nat
    <3>1. tree.parent[m] \in Nodes /\ m \in Kids(tree.parent[m])
      BY <2>4, HasParent
    <3>2. tree.parent[m] < m
      BY <3>1, KidsOf
    <3>. QED
      BY <2>4, <3>1, <3>2, TreeTypes
  <2>6. running[tree.parent[m]]
    BY <2>4 DEF NodesOK, ParentOK
  <2>7. tree.parent[m] \in S
    BY <2>1, <2>5, <2>6
  <2>8. <<tree.parent[m], m>> \in Lower
    BY <2>5 DEF Lower
  <2>. QED
    BY <2>3, <2>7, <2>8
<1>. QED
  BY <1>1 DEF NodesOK, TaskOK

LEMMA RunFreshKept ==
    ASSUME IInv, TypeOK', runFresh
    PROVE  IInv'
<1>1. TypeOK /\ NodesOK /\ ~tripped /\ CallsOK /\ calls # <<>> /\ Top.op = "run" /\ Top.at = Root
  BY DEF IInv, runFresh, Called
<1>2. Depth \in Nat \ {0} /\ calls[Depth] = Top /\ Root \in Nodes /\ Depth \in 1..Depth
  BY <1>1, TopType
<1>3. CallOK(Depth)
  BY <1>1, <1>2 DEF CallsOK
<1>4. RunOK(Depth, Root)
  BY <1>1, <1>2, <1>3 DEF CallOK
<1>5. Depth = 1 /\ heard = <<>> /\ ~running[Root]
  BY <1>4 DEF RunOK, Stops
<1>6. \A n \in Nodes : ~running[n] /\ ~timer[n]
  BY <1>1, <1>5, NoneRuns
<1>7. dropped'.alive = {} /\ dropped'.told = 0
  <2>1. dropped' = [alive |-> {n \in Nodes : running[n] \/ timer[n]}, told |-> Len(heard)]
    BY DEF runFresh
  <2>2. {n \in Nodes : running[n] \/ timer[n]} = {}
    BY <1>6
  <2>3. Len(heard) = 0
    BY <1>5
  <2>. QED
    BY <2>1, <2>2, <2>3
<1>8. /\ running' = All(FALSE) /\ said' = All("Nothing") /\ cancelling' = All(FALSE) /\ timer' = All(FALSE)
      /\ connected' /\ UNCHANGED <<tree, heard, tripped>> /\ Makes(<<Call("start", Root)>>)
  BY DEF runFresh
<1>9. Puts(Call("start", Root))
  BY <1>1, <1>2, <1>8, CallTypes, PutsWhen DEF Ops
<1>10. Depth' = 1 /\ calls'[1].op = "start" /\ calls'[1].at = Root
  BY <1>5, <1>9 DEF Puts, Call, From, Depth
<1>11. Nodes' = Nodes /\ \A n \in Nodes : ~running'[n] /\ said'[n] = "Nothing" /\ ~cancelling'[n] /\ ~timer'[n]
  BY <1>8, SameTree DEF All
<1>12. CallsOK'
  <2>1. ASSUME NEW k, k = 1
        PROVE  CallOK(k)'
    <3>1. StartOK(k, Root)'
      <4>1. ~running'[1] /\ heard' = <<>> /\ connected'
        BY <1>2, <1>5, <1>8, <1>11 DEF Root
      <4>. QED
        BY <1>10, <2>1, <4>1 DEF StartOK, Root
    <3>. QED
      BY <1>10, <2>1, <3>1 DEF CallOK, Root
  <2>. QED
    BY <1>10, <2>1 DEF CallsOK
<1>13. NestingOK'
  BY <1>10 DEF NestingOK
<1>14. NodesOK'
  BY <1>11 DEF NodesOK, TaskOK, ParentOK, AwaitOK, EarnOK
<1>15. OwnerOK'
  <2>1. Active(Root)'
    <3>1. 1 \in 1..Depth'
      BY <1>10
    <3>. QED
      BY <1>10, <3>1 DEF Active, Starting, Root
  <2>. QED
    BY <1>5, <1>7, <1>8, <2>1 DEF OwnerOK
<1>. QED
  BY <1>1, <1>8, <1>12, <1>13, <1>14, <1>15 DEF IInv

-----------------------------------------------------------------------------
(* Events: nothing is in progress, and the first calls of a cascade are put. *)

LEMMA IdleFacts ==
    ASSUME IInv, Idle
    PROVE  /\ TypeOK /\ NodesOK /\ OwnerOK /\ ~tripped /\ Depth = 0
           /\ \A x \in Nodes : /\ ~Closing(x) /\ ~Starting(x) /\ ~Sweeping(x) /\ ~cancelling[x]
                               /\ TaskOK(x) /\ AwaitOK(x) /\ EarnOK(x)
           /\ \A x, i : ~Covered(x, i)
<1>1. TypeOK /\ NodesOK /\ OwnerOK /\ ~tripped /\ Depth = 0
  BY DEF IInv, Idle, Depth
<1>2. \A x \in Nodes : ~Closing(x) /\ ~Starting(x) /\ ~Sweeping(x)
  BY <1>1 DEF Closing, Starting, Sweeping
<1>3. \A x, i : ~Covered(x, i)
  BY <1>1 DEF Covered
<1>4. \A x \in Nodes : ~cancelling[x] /\ TaskOK(x) /\ AwaitOK(x) /\ EarnOK(x)
  BY <1>1, <1>2 DEF NodesOK, TaskOK
<1>. QED
  BY <1>1, <1>2, <1>3, <1>4

(* A task the event does not touch *)
LEMMA EventFar ==
    ASSUME IInv, Idle, UNCHANGED <<tree, running, said>>, NEW x \in Nodes, Same(x),
           \A k \in 1..Len(calls') : /\ calls'[k].op # "startAll"
                                     /\ calls'[k].op = "start" => calls'[k].at \notin Kids(x)
    PROVE  TaskOK(x)' /\ AwaitOK(x)' /\ EarnOK(x)'
<1>1. /\ TypeOK /\ ~Closing(x) /\ ~Sweeping(x) /\ TaskOK(x) /\ AwaitOK(x) /\ EarnOK(x)
      /\ \A c \in Kids(x) : ~Starting(c)
      /\ \A i : ~Covered(x, i)
  BY IdleFacts DEF Kids
<1>2. Depth' = Len(calls')
  BY DEF Depth
<1>3. \A c \in Kids(x) : ~Starting(c)'
  BY <1>2 DEF Starting
<1>4. \A i \in 1..childCount(x) : ~Covered(x, i)'
  BY <1>2 DEF Covered
<1>5. SameCalls(x)
  BY <1>1, <1>3, <1>4 DEF SameCalls
<1>6. SameKids(x)
  BY DEF SameKids
<1>. QED
  BY <1>1, <1>5, <1>6, TaskKept, AwaitKept, EarnKept

LEMMA EventOwner ==
    ASSUME IInv, Idle, UNCHANGED <<tree, running, connected, heard, runs, dropped>>, TypeOK',
           \A k \in 1..Len(calls') : calls'[k].op = "start" => calls'[k].at # Root
    PROVE  OwnerOK'
<1>1. OwnerOK /\ Depth = 0 /\ ~Starting(Root)
  BY IdleFacts, TreeTypes
<1>2. ~Starting(Root)'
  <2>1. Depth' = Len(calls')
    BY DEF Depth
  <2>. QED
    BY <2>1 DEF Starting, Root
<1>3. Active(Root)' <=> Active(Root)
  BY <1>1, <1>2 DEF Active, Root
<1>4. ~connected => ~(runs > 0)
  BY <1>1 DEF OwnerOK
<1>. QED
  BY <1>1, <1>3, <1>4 DEF OwnerOK

LEMMA EventSuffices ==
    ASSUME IInv, Idle, UNCHANGED <<tree, running>>, ~tripped', TypeOK', OwnerOK',
           \A k \in 1..Len(calls') : CallOK(k)',
           \A k \in 1..Len(calls') : \A j \in k + 1..Len(calls') : NestOK(k, j)',
           \A x \in Nodes : TaskOK(x)' /\ AwaitOK(x)' /\ EarnOK(x)'
    PROVE  IInv'
<1>1. \A x \in Nodes : ParentOK(x)'
  BY IdleFacts DEF NodesOK, ParentOK, Root
<1>2. Len(calls') \in Nat
  BY DEF TypeOK
<1>3. CallsOK' /\ NestingOK' /\ NodesOK'
  BY <1>1, <1>2, Assembled
<1>. QED
  BY <1>3 DEF IInv

LEMMA RunKept ==
    ASSUME IInv, TypeOK', run
    PROVE  IInv'
<1>1. /\ Idle /\ UNCHANGED <<tree, running, done, said, cancelling, index, pending, expired, attempt, timer, tripped, dropped>>
      /\ heard' = <<>> /\ ~connected' /\ calls' = <<Call("run", Root), Call("cancel", Root)>>
  BY DEF run, stopRoot, members, wrappers
<1>2. /\ Depth' = 2 /\ Len(calls') = 2 /\ calls'[1].op = "run" /\ calls'[1].at = Root
      /\ calls'[2].op = "cancel" /\ calls'[2].at = Root
  BY <1>1 DEF Call, From, Depth
<1>3. \A k \in 1..Len(calls') : k = 1 \/ k = 2
  BY <1>2
<1>4. ASSUME NEW x \in Nodes
      PROVE  TaskOK(x)' /\ AwaitOK(x)' /\ EarnOK(x)'
  <2>1. Same(x)
    BY <1>1 DEF Same
  <2>. QED
    BY <1>1, <1>2, <1>3, <2>1, EventFar
<1>5. ASSUME NEW k, k = 1
      PROVE  CallOK(k)'
  <2>1. Stops(1, Root)'
    BY <1>2 DEF Stops, Ends
  <2>2. RunOK(k, Root)'
    BY <1>1, <1>5, <2>1 DEF RunOK, Root
  <2>. QED
    BY <1>2, <1>5, <2>2 DEF CallOK, Root
<1>6. ASSUME NEW k, k = 2
      PROVE  CallOK(k)'
  BY <1>2, <1>6 DEF CallOK
<1>7. ASSUME NEW k, NEW j, k = 1, j = 2
      PROVE  NestOK(k, j)'
  BY <1>2, <1>7 DEF NestOK, Unwinds
<1>8. \A k \in 1..Len(calls') : CallOK(k)'
  BY <1>3, <1>5, <1>6
<1>9. ASSUME NEW k \in 1..Len(calls'), NEW j \in k + 1..Len(calls')
      PROVE  NestOK(k, j)'
  BY <1>2, <1>7
<1>10. OwnerOK'
  <2>1. dropped.alive = {} /\ dropped.told = 0
    BY <1>1, IdleFacts DEF OwnerOK
  <2>. QED
    BY <1>1, <1>2, <2>1 DEF OwnerOK
<1>11. ~tripped'
  BY <1>1, IdleFacts
<1>. QED
  BY <1>1, <1>4, <1>8, <1>9, <1>10, <1>11, EventSuffices

LEMMA CancelEventKept ==
    ASSUME IInv, TypeOK', cancel
    PROVE  IInv'
<1>1. /\ Idle /\ UNCHANGED <<tree, running, done, said, cancelling, index, pending, expired, attempt, timer, tripped>>
      /\ UNCHANGED <<connected, heard, runs, dropped>> /\ calls' = <<Call("cancel", Root)>>
  BY DEF cancel, members, wrappers, runner
<1>2. /\ Depth' = 1 /\ Len(calls') = 1 /\ calls'[1].op = "cancel"
  BY <1>1 DEF Call, From, Depth
<1>3. \A k \in 1..Len(calls') : k = 1
  BY <1>2
<1>4. ASSUME NEW x \in Nodes
      PROVE  TaskOK(x)' /\ AwaitOK(x)' /\ EarnOK(x)'
  <2>1. Same(x)
    BY <1>1 DEF Same
  <2>. QED
    BY <1>1, <1>2, <1>3, <2>1, EventFar
<1>5. ASSUME NEW k \in 1..Len(calls')
      PROVE  CallOK(k)'
  BY <1>2, <1>3 DEF CallOK
<1>6. \A k \in 1..Len(calls') : \A j \in k + 1..Len(calls') : NestOK(k, j)'
  BY <1>2
<1>7. OwnerOK'
  BY <1>1, <1>2, <1>3, EventOwner
<1>8. ~tripped'
  BY <1>1, IdleFacts
<1>. QED
  BY <1>1, <1>4, <1>5, <1>6, <1>7, <1>8, EventSuffices

LEMMA FiresKept ==
    ASSUME IInv, TypeOK', NEW n \in Waiting, fires(n)
    PROVE  IInv'
<1>1. /\ Idle /\ UNCHANGED <<tree, running, done, said, cancelling, index, pending, expired, attempt, timer, tripped>>
      /\ UNCHANGED <<connected, heard, runs, dropped>>
  BY DEF fires, members, wrappers, runner
<1>2. PICK outcome \in {"Success", "Failure"} : calls' = <<Says(n, outcome)>>
  BY DEF fires
<1>3. /\ Depth' = 1 /\ Len(calls') = 1 /\ calls'[1].op = "report" /\ calls'[1].at = n /\ calls'[1].outcome = outcome
  BY <1>2 DEF Says, Depth
<1>4. \A k \in 1..Len(calls') : k = 1
  BY <1>3
<1>5. n \in Nodes /\ kind(n) = "signal" /\ running[n]
  BY DEF Waiting
<1>6. ~timer[n] /\ Kids(n) = {}
  BY <1>1, <1>5, IdleFacts, LeafHasNone DEF TaskOK, Wrappers, Leaves
<1>7. ASSUME NEW x \in Nodes
      PROVE  TaskOK(x)' /\ AwaitOK(x)' /\ EarnOK(x)'
  <2>1. Same(x)
    BY <1>1 DEF Same
  <2>. QED
    BY <1>1, <1>3, <1>4, <2>1, EventFar
<1>8. ASSUME NEW k, k = 1
      PROVE  CallOK(k)'
  <2>1. Kids(n)' = {}
    BY <1>1, <1>5, <1>6, SameTree
  <2>2. ReportOK(k, n)'
    BY <1>1, <1>3, <1>5, <1>6, <1>8, <2>1 DEF ReportOK
  <2>. QED
    BY <1>3, <1>8, <2>2 DEF CallOK
<1>9. \A k \in 1..Len(calls') : CallOK(k)'
  BY <1>4, <1>8
<1>10. \A k \in 1..Len(calls') : \A j \in k + 1..Len(calls') : NestOK(k, j)'
  BY <1>3
<1>11. OwnerOK'
  BY <1>1, <1>3, <1>4, EventOwner
<1>12. ~tripped'
  BY <1>1, IdleFacts
<1>. QED
  BY <1>1, <1>7, <1>9, <1>10, <1>11, <1>12, EventSuffices

LEMMA ExpiredKept ==
    ASSUME IInv, TypeOK', NEW n \in Timed("timeout"), onExpired(n)
    PROVE  IInv'
<1>1. Idle /\ n \in Nodes /\ kind(n) = "timeout" /\ timer[n]
  BY DEF Timed, onExpired
<1>2. TypeOK /\ ~tripped /\ TaskOK(n) /\ EarnOK(n) /\ running[n] /\ said[n] = "Nothing" /\ ~done[n] /\ ~cancelling[n]
  BY <1>1, IdleFacts DEF TaskOK
<1>3. /\ UNCHANGED <<tree, running, done, said, cancelling, index, pending, attempt, tripped>>
      /\ UNCHANGED <<connected, heard, runs, dropped>>
      /\ calls' = <<Says(n, "TimedOut"), Call("cancel", Child(n))>>
      /\ timer' = [timer EXCEPT ![n] = FALSE] /\ expired' = [expired EXCEPT ![n] = TRUE]
  BY <1>2 DEF onExpired, runner
<1>4. ~timer'[n] /\ expired'[n] /\ \A x \in Nodes : x # n => timer'[x] = timer[x] /\ expired'[x] = expired[x]
  BY <1>1, <1>2, <1>3 DEF TypeOK
<1>5. PICK c \in Nodes : c = Child(n) /\ Kids(n) = {c}
  BY <1>1, <1>2, ChildOf DEF Wrappers
<1>6. /\ Depth' = 2 /\ Len(calls') = 2 /\ calls'[1].op = "report" /\ calls'[1].at = n /\ calls'[1].outcome = "TimedOut"
      /\ calls'[2].op = "cancel" /\ calls'[2].at = c
  BY <1>3, <1>5 DEF Says, Call, From, Depth
<1>7. \A k \in 1..Len(calls') : k = 1 \/ k = 2
  BY <1>6
<1>8. Kids(n)' = {c} /\ kind(n)' = "timeout"
  BY <1>1, <1>3, <1>5, SameTree
<1>9. ASSUME NEW k, k = 1
      PROVE  CallOK(k)'
  <2>1. Stops(1, c)'
    BY <1>6 DEF Stops, Ends
  <2>2. ReportOK(k, n)'
    <3>1. \A d \in Kids(n)' : Stops(1, d)'
      BY <1>8, <2>1
    <3>2. running'[n]
      BY <1>2, <1>3
    <3>. QED
      BY <1>4, <1>6, <1>8, <1>9, <2>1, <3>2 DEF ReportOK
  <2>. QED
    BY <1>6, <1>9, <2>2 DEF CallOK
<1>10. ASSUME NEW k, k = 2
       PROVE  CallOK(k)'
  BY <1>6, <1>10 DEF CallOK
<1>11. ASSUME NEW k, NEW j, k = 1, j = 2
       PROVE  NestOK(k, j)'
  <2>1. Unwinds(j)'
    BY <1>6, <1>11 DEF Unwinds
  <2>2. Inner(k, j)'
    <3>1. c \in Below(n)
      BY <1>1, <1>2, <1>5, KidsOf
    <3>2. Below(n)' = Below(n)
      BY <1>3 DEF Below
    <3>. QED
      BY <1>6, <1>11, <3>1, <3>2 DEF Inner
  <2>. QED
    BY <1>6, <1>11, <2>1, <2>2 DEF NestOK
<1>12. \A k \in 1..Len(calls') : CallOK(k)'
  BY <1>7, <1>9, <1>10
<1>13. ASSUME NEW k \in 1..Len(calls'), NEW j \in k + 1..Len(calls')
       PROVE  NestOK(k, j)'
  BY <1>6, <1>11
<1>14. ASSUME NEW x \in Nodes
       PROVE  TaskOK(x)' /\ AwaitOK(x)' /\ EarnOK(x)'
  <2>1. CASE x # n
    <3>1. Same(x)
      BY <1>3, <1>4, <2>1 DEF Same
    <3>. QED
      BY <1>1, <1>3, <1>6, <1>7, <3>1, EventFar
  <2>2. CASE x = n
    <3>1. Closing(n)'
      <4>1. 1 \in 1..Depth'
        BY <1>6
      <4>. QED
        BY <1>6, <4>1 DEF Closing
    <3>2. TaskOK(n)'
      BY <1>2, <1>3, <1>4, <1>8 DEF TaskOK
    <3>3. AwaitOK(n)'
      BY <3>1 DEF AwaitOK
    <3>4. EarnOK(n)'
      BY <1>2, <1>3, <1>8 DEF EarnOK
    <3>. QED
      BY <2>2, <3>2, <3>3, <3>4
  <2>. QED
    BY <2>1, <2>2
<1>15. OwnerOK'
  BY <1>1, <1>3, <1>6, <1>7, EventOwner
<1>16. ~tripped'
  BY <1>2, <1>3
<1>. QED
  BY <1>1, <1>3, <1>12, <1>13, <1>14, <1>15, <1>16, EventSuffices

LEMMA BackoffKept ==
    ASSUME IInv, TypeOK', NEW n \in Timed("retry"), onBackoffElapsed(n)
    PROVE  IInv'
<1>1. Idle /\ n \in Nodes /\ kind(n) = "retry" /\ timer[n]
  BY DEF Timed, onBackoffElapsed
<1>2. TypeOK /\ ~tripped /\ TaskOK(n) /\ EarnOK(n) /\ running[n] /\ said[n] = "Nothing" /\ ~done[n] /\ ~cancelling[n]
  BY <1>1, IdleFacts DEF TaskOK
<1>3. PICK c \in Nodes : c = Child(n) /\ Kids(n) = {c}
  BY <1>1, <1>2, ChildOf DEF Wrappers
<1>4. ~running[c] /\ c # Root /\ tree.parent[c] = n
  BY <1>1, <1>2, <1>3 DEF TaskOK, Kids
<1>5. /\ UNCHANGED <<tree, running, done, said, cancelling, index, pending, expired>>
      /\ UNCHANGED <<connected, heard, runs, dropped>>
      /\ timer' = [timer EXCEPT ![n] = FALSE] /\ beginAttempt(n, attempt[n], TRUE)
  BY <1>2 DEF onBackoffElapsed, runner
<1>6. /\ Assert(TRUE /\ ~running[c]) /\ attempt' = [attempt EXCEPT ![n] = attempt[n] + 1]
      /\ Makes(<<Call("start", c)>>)
  BY <1>3, <1>4, <1>5 DEF beginAttempt, Makes
<1>7. /\ ~tripped' /\ ~timer'[n] /\ attempt'[n] >= 1
      /\ \A x \in Nodes : x # n => timer'[x] = timer[x] /\ attempt'[x] = attempt[x]
  <2>1. ~tripped'
    BY <1>2, <1>4, <1>6 DEF Assert
  <2>2. ~timer'[n] /\ \A x \in Nodes : x # n => timer'[x] = timer[x]
    BY <1>1, <1>2, <1>5 DEF TypeOK
  <2>3. attempt'[n] >= 1 /\ \A x \in Nodes : x # n => attempt'[x] = attempt[x]
    BY <1>1, <1>2, <1>6 DEF TypeOK
  <2>. QED
    BY <2>1, <2>2, <2>3
<1>8. calls' = <<Call("start", c)>>
  <2>1. SubSeq(calls, 1, Len(calls) - 1) = <<>>
    BY <1>1 DEF Idle
  <2>2. Call("start", c) \in Frames
    BY <1>2, CallTypes DEF Ops
  <2>3. <<>> \o <<Call("start", c)>> = <<Call("start", c)>>
    BY <2>2
  <2>. QED
    BY <1>6, <2>1, <2>3 DEF Makes
<1>9. Depth' = 1 /\ Len(calls') = 1 /\ calls'[1].op = "start" /\ calls'[1].at = c
  BY <1>8 DEF Call, From, Depth
<1>10. \A k \in 1..Len(calls') : k = 1
  BY <1>9
<1>11. /\ Kids(n)' = {c} /\ kind(n)' = "retry" /\ Nodes' = Nodes
  BY <1>1, <1>3, <1>5, SameTree
<1>12. ASSUME NEW k, k = 1
       PROVE  CallOK(k)'
  <2>1. StartOK(k, c)'
    BY <1>1, <1>2, <1>4, <1>5, <1>7, <1>9, <1>11, <1>12 DEF StartOK, Root
  <2>. QED
    BY <1>9, <1>12, <2>1 DEF CallOK
<1>13. \A k \in 1..Len(calls') : CallOK(k)'
  BY <1>10, <1>12
<1>14. \A k \in 1..Len(calls') : \A j \in k + 1..Len(calls') : NestOK(k, j)'
  BY <1>9
<1>15. ASSUME NEW x \in Nodes
       PROVE  TaskOK(x)' /\ AwaitOK(x)' /\ EarnOK(x)'
  <2>1. CASE x # n
    <3>1. Same(x)
      BY <1>5, <1>7, <2>1 DEF Same
    <3>2. c \notin Kids(x)
      BY <1>4, <2>1 DEF Kids
    <3>. QED
      BY <1>1, <1>5, <1>9, <1>10, <3>1, <3>2, EventFar
  <2>2. CASE x = n
    <3>1. Active(c)'
      <4>1. 1 \in 1..Depth'
        BY <1>9
      <4>. QED
        BY <1>9, <4>1 DEF Active, Starting
    <3>2. TaskOK(n)'
      BY <1>2, <1>4, <1>5, <1>7, <1>11 DEF TaskOK
    <3>3. AwaitOK(n)'
      BY <1>11, <3>1 DEF AwaitOK
    <3>4. EarnOK(n)'
      BY <1>2, <1>5, <1>11 DEF EarnOK
    <3>. QED
      BY <2>2, <3>2, <3>3, <3>4
  <2>. QED
    BY <2>1, <2>2
<1>16. OwnerOK'
  BY <1>1, <1>4, <1>5, <1>9, <1>10, EventOwner
<1>. QED
  BY <1>1, <1>5, <1>7, <1>13, <1>14, <1>15, <1>16, EventSuffices

-----------------------------------------------------------------------------
(* The invariant *)

LEMMA StartsInvariant == Init => IInv
<1>1. SUFFICES ASSUME Init
               PROVE  IInv
  OBVIOUS
<1>2. IsTree(tree) /\ tree \in Trees
  BY <1>1, TreesAssumption DEF Init
<1>3. Nodes = 1..tree.last[1] /\ tree.last[1] \in Nat
  BY <1>2 DEF IsTree, Nodes
<1>4. TypeOK
  <2>1. /\ running \in [Nodes -> BOOLEAN] /\ done \in [Nodes -> BOOLEAN]
        /\ cancelling \in [Nodes -> BOOLEAN] /\ expired \in [Nodes -> BOOLEAN] /\ timer \in [Nodes -> BOOLEAN]
    BY <1>1 DEF Init, All
  <2>2. said \in [Nodes -> Outcomes \union {"Nothing"}]
    BY <1>1 DEF Init, All
  <2>3. index \in [Nodes -> Nat] /\ pending \in [Nodes -> Int] /\ attempt \in [Nodes -> Nat]
    BY <1>1 DEF Init, All
  <2>4. calls \in Seq(Frames) /\ heard \in Seq(Outcomes \union {"Nothing"})
    BY <1>1 DEF Init
  <2>5. connected \in BOOLEAN /\ tripped \in BOOLEAN /\ runs \in Nat
    BY <1>1 DEF Init
  <2>. QED
    BY <1>2, <2>1, <2>2, <2>3, <2>4, <2>5 DEF TypeOK
<1>5. Depth = 0
  BY <1>1 DEF Init, Depth
<1>6. CallsOK /\ NestingOK
  BY <1>5 DEF CallsOK, NestingOK
<1>7. NodesOK
  BY <1>1 DEF Init, All, NodesOK, TaskOK, ParentOK, AwaitOK, EarnOK
<1>8. OwnerOK
  BY <1>1 DEF Init, OwnerOK
<1>. QED
  BY <1>1, <1>4, <1>6, <1>7, <1>8 DEF IInv, Init

LEMMA StepKeepsInvariant == IInv /\ [Next]_vars => IInv'
<1>1. SUFFICES ASSUME IInv, [Next]_vars
               PROVE  IInv'
  OBVIOUS
<1>2. TypeOK'
  BY <1>1, TypesKept DEF IInv
<1>3. CASE run
  BY <1>1, <1>2, <1>3, RunKept
<1>4. CASE cancel
  BY <1>1, <1>2, <1>4, CancelEventKept
<1>5. CASE \E n \in Waiting : fires(n)
  BY <1>1, <1>2, <1>5, FiresKept
<1>6. CASE clockFires
  BY <1>1, <1>2, <1>6, ExpiredKept, BackoffKept DEF clockFires
<1>7. CASE cascade
  <2>1. CASE runFresh
    BY <1>1, <1>2, <2>1, RunFreshKept
  <2>2. ASSUME NEW n \in Nodes, start(n) \/ startAll(n) \/ report(n) \/ cancelTask(n) \/ sweep(n) \/ cancelled(n)
        PROVE  IInv'
    BY <1>1, <1>2, <2>2, StartKept, StartAllKept, ReportKept, CancelKept, SweepKept, CancelledKept
  <2>. QED
    BY <1>7, <2>1, <2>2 DEF cascade
<1>8. CASE UNCHANGED vars
  <2>1. UNCHANGED <<tree, running, done, said, cancelling, index, pending, expired, attempt, timer, calls,
                    connected, heard, tripped, runs, dropped>>
    BY <1>8 DEF vars, members, wrappers, runner
  <2>2. NodesOK'
    <3>1. \A x \in Nodes : TaskOK(x)' = TaskOK(x) /\ ParentOK(x)' = ParentOK(x)
      BY <2>1 DEF TaskOK, ParentOK, Sweeping, Depth, kind, childCount, childAt, Kids, Nodes, Root
    <3>2. \A x \in Nodes : AwaitOK(x)' = AwaitOK(x)
      BY <2>1 DEF AwaitOK, Closing, Owed, Active, Starting, Covered, Depth, kind, childCount, childAt, Kids, Nodes, Root
    <3>3. \A x \in Nodes : EarnOK(x)' = EarnOK(x)
      BY <2>1 DEF EarnOK, Closing, Active, Starting, Covered, Depth, kind, childCount, childAt, Kids, Nodes, Root
    <3>4. Nodes' = Nodes
      BY <2>1 DEF Nodes
    <3>. QED
      BY <1>1, <3>1, <3>2, <3>3, <3>4 DEF IInv, NodesOK
  <2>3. CallsOK'
    <3>1. \A k \in 1..Depth : CallOK(k)' = CallOK(k)
      BY <2>1 DEF CallOK, StartOK, ReportOK, SweepOK, CancelledOK, StartAllOK, RunOK, SweptAbove, Stops, Ends,
                  Depth, kind, childCount, childAt, Kids, Nodes, Root
    <3>2. Depth' = Depth
      BY <2>1 DEF Depth
    <3>. QED
      BY <1>1, <3>1, <3>2 DEF IInv, CallsOK
  <2>4. NestingOK'
    <3>1. \A k, j : NestOK(k, j)' = NestOK(k, j)
      BY <2>1 DEF NestOK, Unwinds, Inner, Later, SweptAbove, Bound, Below, Depth, kind, childCount, childAt, Nodes, Root
    <3>2. Depth' = Depth
      BY <2>1 DEF Depth
    <3>. QED
      BY <1>1, <3>1, <3>2 DEF IInv, NestingOK
  <2>5. OwnerOK'
    BY <1>1, <2>1 DEF IInv, OwnerOK, Active, Starting, Depth, Root
  <2>. QED
    BY <1>1, <1>2, <2>1, <2>2, <2>3, <2>4, <2>5 DEF IInv
<1>. QED
  BY <1>1, <1>3, <1>4, <1>5, <1>6, <1>7, <1>8 DEF Next

(* The invariant is inductive: the calls in progress are in order (CallsOK, NestingOK),
   and every task stands where they leave it (NodesOK, OwnerOK). *)
THEOREM EngineInvariant == Spec => []IInv
<1>1. Init => IInv
  BY StartsInvariant
<1>2. IInv /\ [Next]_vars => IInv'
  BY StepKeepsInvariant
<1>. QED
  BY <1>1, <1>2, PTL DEF Spec

(* The types of the engine's state *)
THEOREM TypesHold == Spec => []TypeOK
<1>1. IInv => TypeOK
  BY DEF IInv
<1>. QED
  BY <1>1, EngineInvariant, PTL

(* No SS_ASSERT of the engine fails, whatever the tree and the order of events. *)
THEOREM EmitOnceHolds == Spec => []EmitOnce
<1>1. IInv => EmitOnce
  BY DEF IInv, EmitOnce
<1>. QED
  BY <1>1, EngineInvariant, PTL

(* At no point of a cascade does a task run, or a timer stay armed, under a task
   that has finished. *)
THEOREM NothingOutlivesItsParentHolds == Spec => []NothingOutlivesItsParent
<1>1. IInv => NothingOutlivesItsParent
  BY DEF IInv, NodesOK, TaskOK, ParentOK, NothingOutlivesItsParent
<1>. QED
  BY <1>1, EngineInvariant, PTL

(* A group or wrapper says Success only when all its children said it. *)
THEOREM SuccessIsEarnedHolds == Spec => []SuccessIsEarned
<1>1. ASSUME IInv
      PROVE  SuccessIsEarned
  <2>1. SUFFICES ASSUME NEW n \in Nodes, said[n] = "Success", NEW i \in 1..childCount(n)
                 PROVE  said[childAt(n, i)] = "Success"
    BY DEF SuccessIsEarned
  <2>2. TypeOK /\ EarnOK(n)
    BY <1>1 DEF IInv, NodesOK
  <2>3. childAt(n, i) \in Kids(n)
    BY <2>2, Children
  <2>. QED
    BY <2>1, <2>2, <2>3 DEF EarnOK
<1>. QED
  BY <1>1, EngineInvariant, PTL

(* run() leaves nothing of the tree it drops alive, and hears nothing from it. *)
THEOREM SupersededTreeIsDeadHolds == Spec => []SupersededTreeIsDead
<1>1. IInv => SupersededTreeIsDead
  BY DEF IInv, OwnerOK, SupersededTreeIsDead
<1>. QED
  BY <1>1, EngineInvariant, PTL

(* The owner of a run that goes on hears one outcome, when its root stops. *)
THEOREM OwnerHearsOnceHolds == Spec => []OwnerHearsOnce
<1>1. ASSUME IInv
      PROVE  OwnerHearsOnce
  <2>1. SUFFICES ASSUME Idle, runs > 0
                 PROVE  Len(heard) = (IF running[Root] THEN 0 ELSE 1)
    BY DEF OwnerHearsOnce
  <2>2. OwnerOK /\ Depth = 0 /\ ~Starting(Root)
    BY <1>1, <2>1, IdleFacts, TreeTypes
  <2>3. connected
    BY <2>1, <2>2 DEF OwnerOK
  <2>4. running[Root] <=> Active(Root)
    BY <2>2 DEF Active
  <2>5. CASE running[Root]
    <3>1. heard = <<>>
      BY <2>2, <2>3, <2>4, <2>5 DEF OwnerOK
    <3>. QED
      BY <2>5, <3>1
  <2>6. CASE ~running[Root]
    <3>1. Len(heard) = 1
      BY <2>2, <2>3, <2>4, <2>6 DEF OwnerOK
    <3>. QED
      BY <2>6, <3>1
  <2>. QED
    BY <2>5, <2>6
<1>. QED
  BY <1>1, EngineInvariant, PTL

LEMMA IdleTaskAwaits ==
    ASSUME IInv, Idle, NEW n \in Nodes, running[n], NEW live, live = {i \in 1..childCount(n) : running[childAt(n, i)]}
    PROVE  /\ kind(n) # "invoke"
           /\ kind(n) = "sequential" => live = {index[n]}
           /\ kind(n) = "parallel" => live # {} /\ Cardinality(live) = pending[n]
           /\ kind(n) = "timeout" => timer[n] /\ live = {1}
           /\ kind(n) = "retry" => timer[n] # (live = {1})
<1>1. /\ TypeOK /\ TaskOK(n) /\ AwaitOK(n) /\ ~Closing(n) /\ \A i : ~Covered(n, i)
  BY IdleFacts
<1>2. \A c \in Kids(n) : Active(c) <=> running[c]
  BY IdleFacts DEF Active, Kids
<1>3. kind(n) # "invoke"
  BY <1>1 DEF AwaitOK
<1>4. ASSUME kind(n) = "sequential"
      PROVE  live = {index[n]}
  <2>1. PICK c \in Kids(n) : index[n] <= childCount(n) /\ c = childAt(n, index[n]) /\ running[c]
    BY <1>1, <1>2, <1>4 DEF AwaitOK
  <2>2. index[n] \in 1..childCount(n) /\ childCount(n) \in Nat
    BY <1>1, <1>4, <2>1, TreeNodes DEF TaskOK
  <2>3. ASSUME NEW i \in live
        PROVE  i = index[n]
    <3>1. i \in 1..childCount(n) /\ running[childAt(n, i)]
      OBVIOUS
    <3>2. childAt(n, i) = childAt(n, index[n])
      BY <1>1, <1>4, <3>1, Children DEF TaskOK
    <3>3. CASE i < index[n]
      <4>1. index[n] \in i + 1..childCount(n)
        BY <2>2, <3>1, <3>3
      <4>. QED
        BY <1>1, <3>1, <3>2, <4>1, Children
    <3>4. CASE index[n] < i
      <4>1. i \in index[n] + 1..childCount(n)
        BY <2>2, <3>1, <3>4
      <4>. QED
        BY <1>1, <2>2, <3>2, <4>1, Children
    <3>. QED
      BY <2>2, <3>1, <3>3, <3>4
  <2>4. index[n] \in live
    BY <2>1, <2>2
  <2>. QED
    BY <2>3, <2>4
<1>5. ASSUME kind(n) = "parallel"
      PROVE  live # {} /\ Cardinality(live) = pending[n]
  <2>1. pending[n] >= 1 /\ pending[n] = Cardinality(Owed(n))
    BY <1>1, <1>5 DEF AwaitOK
  <2>2. \A i \in 1..childCount(n) : childAt(n, i) \in Kids(n)
    BY <1>1, Children
  <2>3. live = Owed(n)
    BY <1>1, <1>2, <2>2 DEF Owed
  <2>4. Cardinality({}) = 0
    BY FS_EmptySet
  <2>. QED
    BY <2>1, <2>3, <2>4
<1>6. ASSUME kind(n) \in Wrappers
      PROVE  /\ Kids(n) = {Child(n)} /\ (live = {1} <=> running[Child(n)])
  <2>1. childCount(n) = 1 /\ Kids(n) = {Child(n)} /\ childAt(n, 1) = Child(n)
    BY <1>1, <1>6, ChildOf DEF Child
  <2>2. 1..childCount(n) = {1}
    BY <2>1
  <2>. QED
    BY <2>1, <2>2
<1>7. ASSUME kind(n) = "timeout"
      PROVE  timer[n] /\ live = {1}
  BY <1>1, <1>2, <1>6, <1>7 DEF AwaitOK, Wrappers
<1>8. ASSUME kind(n) = "retry"
      PROVE  timer[n] # (live = {1})
  <2>1. live = {1} <=> running[Child(n)]
    BY <1>6, <1>8 DEF Wrappers
  <2>2. timer[n] \/ running[Child(n)]
    BY <1>1, <1>2, <1>6, <1>8 DEF AwaitOK, Wrappers
  <2>3. ~(timer[n] /\ running[Child(n)])
    BY <1>1, <1>6, <1>8 DEF TaskOK, Wrappers
  <2>4. timer[n] \in BOOLEAN
    BY <1>1 DEF TypeOK
  <2>. QED
    BY <2>1, <2>2, <2>3, <2>4
<1>. QED
  BY <1>3, <1>4, <1>5, <1>7, <1>8

(* Between events each running task waits for a child, a timer or a signal that
   will make it report: no wait is lost and none is doubled. *)
THEOREM EveryTaskAwaitsSomethingHolds == Spec => []EveryTaskAwaitsSomething
<1>1. ASSUME IInv
      PROVE  EveryTaskAwaitsSomething
  <2>1. SUFFICES ASSUME Idle, NEW n \in Nodes, running[n],
                        NEW live, live = {i \in 1..childCount(n) : running[childAt(n, i)]}
                 PROVE  CASE kind(n) = "sequential" -> live = {index[n]}
                          [] kind(n) = "parallel"   -> live # {} /\ Cardinality(live) = pending[n]
                          [] kind(n) = "timeout"    -> timer[n] /\ live = {1}
                          [] kind(n) = "retry"      -> timer[n] # (live = {1})
                          [] kind(n) = "invoke"     -> FALSE
                          [] kind(n) = "signal"     -> TRUE
    BY DEF EveryTaskAwaitsSomething
  <2>2. /\ kind(n) # "invoke"
        /\ kind(n) = "sequential" => live = {index[n]}
        /\ kind(n) = "parallel" => live # {} /\ Cardinality(live) = pending[n]
        /\ kind(n) = "timeout" => timer[n] /\ live = {1}
        /\ kind(n) = "retry" => timer[n] # (live = {1})
    BY <1>1, <2>1, IdleTaskAwaits
  <2>3. kind(n) \in {"sequential", "parallel", "timeout", "retry", "signal"}
    BY <1>1, <2>2, TreeNodes DEF IInv, Kinds, Groups, Wrappers, Leaves
  <2>4. CASE kind(n) = "sequential"
    BY <2>2, <2>4
  <2>5. CASE kind(n) = "parallel"
    BY <2>2, <2>5
  <2>6. CASE kind(n) = "timeout"
    BY <2>2, <2>6
  <2>7. CASE kind(n) = "retry"
    BY <2>2, <2>7
  <2>8. CASE kind(n) = "signal"
    BY <2>2, <2>8
  <2>. QED
    BY <2>3, <2>4, <2>5, <2>6, <2>7, <2>8
<1>. QED
  BY <1>1, EngineInvariant, PTL
=============================================================================
