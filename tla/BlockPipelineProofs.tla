-------------------------- MODULE BlockPipelineProofs --------------------------
(***************************************************************************)
(* The hand-off of blocks is exact, for any number of sources, samples,    *)
(* link edges, project edits and slots, and for rings and blocks of any    *)
(* size.                                                                   *)
(*                                                                         *)
(* The builder changes w by a few operators, one after the other within a  *)
(* step, so the lemmas are about any value u of it: HandOff is what every   *)
(* operator keeps, given the blocks the dashboard holds and what was       *)
(* captured.                                                               *)
(***************************************************************************)
EXTENDS BlockPipeline, SequenceTheorems, FiniteSetTheorems, TLAPS

-----------------------------------------------------------------------------
(* Types *)

EntryType == [sample : SampleType, session : Nat]

HandOffType ==
    [open : [Sources -> BlockType \cup {NoBlock}], blocks : Seq(BlockType),
     recorded : [Sources -> Seq(EntryType)], session : Nat, starved : BOOLEAN]

Calls == {"flush", "forget", "link", "sync"}

BuilderType ==
    [pc : {"idle", "announce", "store", "flush", "edge", "paused", "pause", "collect", "apply"},
     gen : Nat, published : SUBSET Sources, lastConnected : BOOLEAN, lastPaused : BOOLEAN,
     staging : [source : Sources \cup {NoBlock}, masked : BOOLEAN, flush : BOOLEAN],
     inbox : Seq(Calls), rest : SUBSET Sources, after : {"idle", "edge", "pause"}]

(* The fields of the dashboard, those typed that the properties depend on. *)
DashboardShape ==
    /\ g = [pc |-> g.pc, inbox |-> g.inbox, gen |-> g.gen, tables |-> g.tables,
            layoutValid |-> g.layoutValid, block |-> g.block, newest |-> g.newest,
            over |-> g.over, drained |-> g.drained]
    /\ {g.block, g.newest} \subseteq BlockType \cup {NoBlock}

SpentType ==
    [scope : [sources : SUBSET Sources, samples : Nat, edges : Nat, syncs : Nat],
     samples : Nat, edges : Nat, syncs : Nat]

TypeInv ==
    /\ link \in [connected : BOOLEAN, paused : BOOLEAN]
    /\ b \in BuilderType
    /\ DashboardShape
    /\ captured \in [Sources -> Seq(SampleType)]
    /\ spent \in SpentType

-----------------------------------------------------------------------------
(* What the builder's operators keep *)

(* The blocks in the dashboard's hands *)
Held == {g.block, g.newest}

(* A slot in the ring, or open for a source, is nowhere else. *)
Exclusive(u, held) ==
    /\ \A i, j \in DOMAIN u.blocks : u.blocks[i].slot = u.blocks[j].slot => i = j
    /\ \A i \in DOMAIN u.blocks, h \in held \ {NoBlock} : u.blocks[i].slot # h.slot
    /\ \A s \in Sources : u.open[s] # NoBlock =>
          /\ \A i \in DOMAIN u.blocks : u.open[s].slot # u.blocks[i].slot
          /\ \A h \in held \ {NoBlock} : u.open[s].slot # h.slot
          /\ \A t \in Sources \ {s} : u.open[t] # NoBlock => u.open[s].slot # u.open[t].slot

(* An open block is its source's, and was opened in the session that is on. *)
Current(u) ==
    \A s \in Sources : u.open[s] # NoBlock =>
        /\ u.open[s].source = s
        /\ \A i \in DOMAIN u.open[s].samples : u.open[s].samples[i].session = u.session

Unmasked(block) == IF block = NoBlock \/ block.masked THEN <<>> ELSE block.samples

OpenOf(u, s) == Unmasked(u.open[s])

Exact(u, taken) == \A s \in Sources : SamplesOf(u.recorded[s]) \o OpenOf(u, s) = taken[s]

InSession(u) ==
    \A s \in Sources : \A i \in DOMAIN u.recorded[s] :
        u.recorded[s][i].sample.session = u.recorded[s][i].session

HandOff(u, held, taken) ==
    /\ u \in HandOffType
    /\ Len(u.blocks) <= BlockRingSize
    /\ Exclusive(u, held)
    /\ Current(u)
    /\ Exact(u, taken)
    /\ InSession(u)

(* A block that leaves its place may go to the ring and to the recording. *)
FlushedFrom(v, u, s, mask) ==
    /\ v \in HandOffType
    /\ v.open = [u.open EXCEPT ![s] = NoBlock]
    /\ v.session = u.session /\ v.starved = u.starved
    /\ \/ v.blocks = u.blocks
       \/ v.blocks = Append(u.blocks, u.open[s]) /\ Len(u.blocks) < BlockRingSize
    /\ v.recorded = IF u.open[s].masked \/ mask THEN u.recorded
                    ELSE [u.recorded EXCEPT ![s] = @ \o Recorded(u, u.open[s])]

(* The flush of an open block is of that kind. *)
LEMMA FlushShape ==
    ASSUME NEW u \in HandOffType, NEW s \in Sources, NEW mask \in BOOLEAN,
           u.open[s] # NoBlock, u.open[s].source = s, Len(u.blocks) <= BlockRingSize,
           NEW v, v = flush(u, s, mask)
    PROVE  FlushedFrom(v, u, s, mask)
<1> DEFINE block == u.open[s]
           x == [u EXCEPT !.open[s] = NoBlock]
           y == publishBlockToDashboard(x, block)
           r == Recorded(u, block)
<1>1. block \in BlockType
  BY DEF HandOffType
<1>2. v = publish(x, block, mask)
  BY DEF flush
<1>3. /\ x \in HandOffType /\ x.open = [u.open EXCEPT ![s] = NoBlock]
      /\ x.session = u.session /\ x.starved = u.starved /\ x.blocks = u.blocks
      /\ x.recorded = u.recorded
  BY DEF HandOffType
<1>4. r \in Seq(EntryType)
  <2>1. /\ block.samples \in Seq(SampleType) /\ u.session \in Nat
    BY <1>1 DEF BlockType, HandOffType
  <2>2. DOMAIN block.samples = 1 .. Len(block.samples) /\ Len(block.samples) \in Nat
    BY <2>1
  <2>3. r \in [1 .. Len(block.samples) -> EntryType]
    BY <2>1, <2>2 DEF Recorded, EntryType
  <2> HIDE DEF r
  <2> QED BY <2>2, <2>3, SeqDef
<1>5. Recorded(x, block) = r
  BY <1>3 DEF Recorded
<1> HIDE DEF x, r
<1>6. /\ y \in HandOffType /\ y.open = x.open /\ y.recorded = x.recorded
      /\ y.session = x.session /\ y.starved = x.starved
      /\ \/ y.blocks = x.blocks
         \/ y.blocks = Append(x.blocks, block) /\ Len(x.blocks) < BlockRingSize
  <2>1. CASE link.connected /\ Len(x.blocks) < BlockRingSize
    <3> DEFINE q == Append(x.blocks, block)
    <3>1. q \in Seq(BlockType)
      BY <1>1, <1>3 DEF HandOffType
    <3>2. y = [x EXCEPT !.blocks = q]
      BY <2>1 DEF publishBlockToDashboard
    <3> HIDE DEF q, y, block
    <3>3. y \in HandOffType /\ y.open = x.open /\ y.recorded = x.recorded
          /\ y.session = x.session /\ y.starved = x.starved /\ y.blocks = q
      BY <1>3, <3>1, <3>2 DEF HandOffType
    <3> QED BY <2>1, <3>3 DEF q
  <2>2. CASE ~(link.connected /\ Len(x.blocks) < BlockRingSize)
    BY <1>3, <2>2 DEF publishBlockToDashboard
  <2> QED BY <2>1, <2>2
<1>7. CASE block.masked \/ mask
  BY <1>2, <1>3, <1>6, <1>7 DEF publish, FlushedFrom
<1>8. CASE ~(block.masked \/ mask)
  <2>1. v = [y EXCEPT !.recorded[block.source] = @ \o Recorded(x, block)] /\ block.source = s
    BY <1>2, <1>8 DEF publish
  <2> HIDE DEF y, block
  <2> DEFINE z == [y.recorded EXCEPT ![s] = @ \o r]
  <2>2. v = [y EXCEPT !.recorded = z]
    BY <1>5, <2>1
  <2>3. z \in [Sources -> Seq(EntryType)]
    BY <1>4, <1>6 DEF HandOffType
  <2> HIDE DEF z
  <2>4. /\ v \in HandOffType /\ v.open = y.open /\ v.blocks = y.blocks
        /\ v.session = y.session /\ v.starved = y.starved
        /\ v.recorded = z
    BY <1>6, <2>2, <2>3 DEF HandOffType
  <2> QED BY <1>3, <1>6, <1>8, <2>4 DEF z, block, r, FlushedFrom
<1> QED BY <1>7, <1>8

(* A recording of a block has its samples, and the session that is on. *)
LEMMA RecordedShape ==
    ASSUME NEW u \in HandOffType, NEW block \in BlockType, NEW q, q = block.samples,
           NEW t, t = Recorded(u, block)
    PROVE  /\ q \in Seq(SampleType) /\ t \in Seq(EntryType) /\ Len(t) = Len(q)
           /\ \A i \in DOMAIN q : t[i].sample = q[i] /\ t[i].session = u.session
<1>1. q \in Seq(SampleType) /\ u.session \in Nat
  BY DEF BlockType, HandOffType
<1>2. /\ DOMAIN q = 1 .. Len(q) /\ Len(q) \in Nat
      /\ \A i \in 1 .. Len(q) : q[i] \in SampleType
  BY <1>1, ElementOfSeq
<1>3. /\ t \in [1 .. Len(q) -> EntryType]
      /\ \A i \in 1 .. Len(q) : t[i].sample = q[i] /\ t[i].session = u.session
  BY <1>1, <1>2 DEF Recorded, EntryType
<1>4. t \in Seq(EntryType)
  BY <1>2, <1>3, SeqDef
<1> QED BY <1>1, <1>2, <1>3, <1>4, LenProperties

(* What is read off a recording. *)
LEMMA SamplesShape ==
    ASSUME NEW r \in Seq(EntryType), NEW p, p = SamplesOf(r)
    PROVE  /\ p \in Seq(SampleType) /\ Len(p) = Len(r)
           /\ \A i \in 1 .. Len(r) : p[i] = r[i].sample
<1>1. /\ Len(r) \in Nat /\ DOMAIN r = 1 .. Len(r)
      /\ \A i \in 1 .. Len(r) : r[i] \in EntryType
  BY ElementOfSeq
<1>2. p \in [1 .. Len(r) -> SampleType] /\ \A i \in 1 .. Len(r) : p[i] = r[i].sample
  BY <1>1 DEF EntryType, SamplesOf
<1>3. p \in Seq(SampleType)
  BY <1>1, <1>2, SeqDef
<1> QED BY <1>1, <1>2, <1>3, LenProperties

(* Appending to a recording appends what is read off it. *)
LEMMA WrittenAppends ==
    ASSUME NEW r \in Seq(EntryType), NEW q \in Seq(SampleType), NEW t \in Seq(EntryType),
           Len(t) = Len(q), \A i \in DOMAIN q : t[i].sample = q[i]
    PROVE  SamplesOf(r) \in Seq(SampleType) /\ SamplesOf(r \o t) = SamplesOf(r) \o q
<1>1. /\ Len(r) \in Nat /\ DOMAIN r = 1 .. Len(r)
      /\ Len(q) \in Nat /\ DOMAIN q = 1 .. Len(q)
      /\ \A i \in 1 .. Len(r) : r[i] \in EntryType
  BY ElementOfSeq
<1> DEFINE p == SamplesOf(r)
<1>3. p \in Seq(SampleType) /\ Len(p) = Len(r) /\ \A i \in 1 .. Len(r) : p[i] = r[i].sample
  BY SamplesShape
<1> HIDE DEF p
<1>4. /\ p \o q \in Seq(SampleType) /\ Len(p \o q) = Len(r) + Len(q)
      /\ DOMAIN (r \o t) = 1 .. Len(r) + Len(q)
      /\ DOMAIN (p \o q) = 1 .. Len(r) + Len(q)
      /\ \A i \in 1 .. Len(r) + Len(q) :
            /\ (r \o t)[i] = IF i <= Len(r) THEN r[i] ELSE t[i - Len(r)]
            /\ (p \o q)[i] = IF i <= Len(r) THEN p[i] ELSE q[i - Len(r)]
  <2>1. /\ r \o t \in Seq(EntryType) /\ Len(r \o t) = Len(r) + Len(t)
        /\ \A i \in 1 .. Len(r) + Len(t) :
              (r \o t)[i] = IF i <= Len(r) THEN r[i] ELSE t[i - Len(r)]
    BY ConcatProperties
  <2>2. /\ p \o q \in Seq(SampleType) /\ Len(p \o q) = Len(p) + Len(q)
        /\ \A i \in 1 .. Len(p) + Len(q) :
              (p \o q)[i] = IF i <= Len(p) THEN p[i] ELSE q[i - Len(p)]
    BY <1>3, ConcatProperties
  <2> QED BY <1>1, <1>3, <2>1, <2>2
<1>5. \A i \in 1 .. Len(r) + Len(q) : (r \o t)[i].sample = (p \o q)[i]
  <2> TAKE i \in 1 .. Len(r) + Len(q)
  <2>1. CASE i <= Len(r)
    BY <1>1, <1>3, <1>4, <2>1
  <2>2. CASE ~(i <= Len(r))
    <3>1. i - Len(r) \in DOMAIN q
      BY <1>1, <2>2
    <3>2. t[i - Len(r)].sample = q[i - Len(r)]
      BY <3>1
    <3> QED BY <1>1, <1>4, <2>2, <3>2
  <2> QED BY <2>1, <2>2
<1>6. p \o q = [i \in 1 .. Len(r) + Len(q) |-> (p \o q)[i]]
  <2> DEFINE f == p \o q
             d == 1 .. Len(r) + Len(q)
  <2>1. f \in [d -> SampleType]
    BY <1>4, LenProperties
  <2> HIDE DEF f, d
  <2>2. f = [i \in d |-> f[i]]
    BY <2>1
  <2> QED BY <2>2 DEF f, d
<1>7. SamplesOf(r \o t) = [i \in 1 .. Len(r) + Len(q) |-> (p \o q)[i]]
  BY <1>4, <1>5 DEF SamplesOf
<1> QED BY <1>3, <1>4, <1>6, <1>7 DEF p

(* What the builder may do, one operator after the other: flush a source (under
   the mask only what was captured under it), open a block for it, append to that
   block.  Only the open block of the source changes. *)
Flushes(v, u, s, mask) ==
    v = flush(u, s, mask) /\ (mask => u.open[s] = NoBlock \/ u.open[s].masked)

Opens(v, u, s, mask) ==
    u.open[s] = NoBlock /\ \E k \in claimSlot(u) : v = openSlot(u, s, k, mask)

IsOpen(u, s, mask) == u.open[s] # NoBlock /\ u.open[s].masked = mask

Appends(v, u, s, e) ==
    e.session = u.session /\ v = [u EXCEPT !.open[s].samples = Append(@, e)]

Touches(v, u, s) ==
    /\ \A t \in Sources \ {s} : v.open[t] = u.open[t]
    /\ v.session = u.session /\ v.starved = u.starved

(* What is flushed passes from the open block to the recording, or was masked. *)
LEMMA FlushKeeps ==
    ASSUME NEW u, NEW held, NEW taken, HandOff(u, held, taken),
           NEW s \in Sources, NEW mask \in BOOLEAN, NEW v, Flushes(v, u, s, mask)
    PROVE  HandOff(v, held, taken) /\ Touches(v, u, s) /\ v.open[s] = NoBlock
<1> v = flush(u, s, mask) /\ (mask => u.open[s] = NoBlock \/ u.open[s].masked)
  BY DEF Flushes
<1>1. CASE u.open[s] = NoBlock
  <2>1. v = u
    BY <1>1 DEF flush
  <2> QED BY <1>1, <2>1 DEF Touches
<1>2. CASE u.open[s] # NoBlock
  <2> DEFINE block == u.open[s]
  <2>1. /\ u \in HandOffType /\ block \in BlockType /\ block.source = s
        /\ Len(u.blocks) <= BlockRingSize
    BY <1>2 DEF HandOff, HandOffType, Current
  <2>2. /\ v \in HandOffType
        /\ v.open = [u.open EXCEPT ![s] = NoBlock]
        /\ v.session = u.session /\ v.starved = u.starved
        /\ \/ v.blocks = u.blocks
           \/ v.blocks = Append(u.blocks, block) /\ Len(u.blocks) < BlockRingSize
        /\ v.recorded = IF block.masked \/ mask THEN u.recorded
                        ELSE [u.recorded EXCEPT ![s] = @ \o Recorded(u, block)]
    <3>1. u.open[s].source = s
      BY <2>1
    <3>2. FlushedFrom(v, u, s, mask)
      BY <1>2, <2>1, <3>1, FlushShape
    <3> QED BY <3>2 DEF FlushedFrom
  <2>3. /\ u.open \in [Sources -> BlockType \cup {NoBlock}] /\ u.blocks \in Seq(BlockType)
        /\ u.recorded \in [Sources -> Seq(EntryType)] /\ u.session \in Nat
        /\ Len(u.blocks) \in Nat /\ DOMAIN u.blocks = 1 .. Len(u.blocks)
        /\ block.samples \in Seq(SampleType) /\ block.masked \in BOOLEAN
        /\ BlockRingSize \in Nat
    BY <2>1, BlockPipelineAssumptions DEF HandOffType, BlockType
  <2>4. Len(v.blocks) <= BlockRingSize
    BY <2>1, <2>2, <2>3
  <2>5. Exclusive(v, held)
    <3> \A t \in Sources : v.open[t] # NoBlock => t # s /\ v.open[t] = u.open[t]
      BY <2>2, <2>3
    <3>1. CASE v.blocks = u.blocks
      BY <3>1 DEF HandOff, Exclusive
    <3>2. CASE v.blocks = Append(u.blocks, block)
      <4> DEFINE n == Len(u.blocks) + 1
      <4>1. /\ DOMAIN v.blocks = 1 .. n /\ n \in Nat /\ v.blocks[n] = block
            /\ \A i \in 1 .. n : i # n => i \in DOMAIN u.blocks /\ v.blocks[i] = u.blocks[i]
        BY <2>3, <3>2
      <4> HIDE DEF n
      <4>2. \A i \in DOMAIN u.blocks : block.slot # u.blocks[i].slot
        BY <1>2 DEF HandOff, Exclusive
      <4>3. \A i, j \in DOMAIN v.blocks : v.blocks[i].slot = v.blocks[j].slot => i = j
        BY <4>1, <4>2 DEF HandOff, Exclusive
      <4>4. \A i \in DOMAIN v.blocks, h \in held \ {NoBlock} : v.blocks[i].slot # h.slot
        BY <1>2, <4>1 DEF HandOff, Exclusive
      <4>5. \A t \in Sources : v.open[t] # NoBlock => t # s /\ v.open[t] = u.open[t]
        OBVIOUS
      <4>6. ASSUME NEW t \in Sources, v.open[t] # NoBlock
            PROVE  /\ \A i \in DOMAIN v.blocks : v.open[t].slot # v.blocks[i].slot
                   /\ \A h \in held \ {NoBlock} : v.open[t].slot # h.slot
                   /\ \A x \in Sources \ {t} : v.open[x] # NoBlock => v.open[t].slot # v.open[x].slot
        <5>1. t # s /\ v.open[t] = u.open[t] /\ u.open[t] # NoBlock
          BY <4>5, <4>6
        <5>2. u.open[t].slot # block.slot
          BY <1>2, <5>1 DEF HandOff, Exclusive
        <5>3. \A i \in DOMAIN u.blocks : u.open[t].slot # u.blocks[i].slot
          BY <5>1 DEF HandOff, Exclusive
        <5>4. \A h \in held \ {NoBlock} : u.open[t].slot # h.slot
          BY <5>1 DEF HandOff, Exclusive
        <5>5. \A x \in Sources \ {t} : v.open[x] # NoBlock => u.open[t].slot # u.open[x].slot
          BY <4>5, <5>1 DEF HandOff, Exclusive
        <5> QED BY <4>1, <4>5, <5>1, <5>2, <5>3, <5>4, <5>5
      <4> QED BY <4>3, <4>4, <4>6 DEF Exclusive
    <3> QED BY <2>2, <3>1, <3>2
  <2>6. Current(v)
    BY <2>2, <2>3 DEF HandOff, Current
  <2>7. /\ \A t \in Sources \ {s} : v.recorded[t] = u.recorded[t] /\ v.open[t] = u.open[t]
        /\ v.open[s] = NoBlock
        /\ v.recorded[s] = IF block.masked \/ mask THEN u.recorded[s]
                           ELSE u.recorded[s] \o Recorded(u, block)
    BY <2>2, <2>3
  <2>8. /\ SamplesOf(u.recorded[s]) \in Seq(SampleType)
        /\ SamplesOf(v.recorded[s]) = IF block.masked \/ mask THEN SamplesOf(u.recorded[s])
                                      ELSE SamplesOf(u.recorded[s]) \o block.samples
    <3> DEFINE r == u.recorded[s]
               q == block.samples
               t == Recorded(u, block)
    <3>1. /\ r \in Seq(EntryType) /\ q \in Seq(SampleType) /\ t \in Seq(EntryType)
          /\ Len(t) = Len(q) /\ \A i \in DOMAIN q : t[i].sample = q[i]
      BY <2>1, <2>3, RecordedShape
    <3>2. v.recorded[s] = IF block.masked \/ mask THEN r ELSE r \o t
      BY <2>7
    <3> HIDE DEF r, q, t
    <3>3. SamplesOf(r) \in Seq(SampleType) /\ SamplesOf(r \o t) = SamplesOf(r) \o q
      BY <3>1, WrittenAppends
    <3> QED BY <3>2, <3>3 DEF r, q
  <2>9. Exact(v, taken)
    <3>1. ASSUME NEW t \in Sources, t # s
          PROVE  SamplesOf(v.recorded[t]) \o OpenOf(v, t) = taken[t]
      <4>1. SamplesOf(v.recorded[t]) = SamplesOf(u.recorded[t]) /\ OpenOf(v, t) = OpenOf(u, t)
        BY <2>7, <3>1 DEF OpenOf, Unmasked
      <4> QED BY <4>1 DEF HandOff, Exact
    <3>2. SamplesOf(v.recorded[s]) \o OpenOf(v, s) = taken[s]
      <4>1. OpenOf(v, s) = <<>>
        BY <2>7 DEF OpenOf, Unmasked
      <4>2. SamplesOf(u.recorded[s]) \o OpenOf(u, s) = taken[s]
        BY DEF HandOff, Exact
      <4>3. CASE block.masked
        BY <1>2, <2>8, <4>1, <4>2, <4>3 DEF OpenOf, Unmasked
      <4>4. CASE ~block.masked
        <5>1. ~mask /\ OpenOf(u, s) = block.samples
          BY <1>2, <4>4 DEF OpenOf, Unmasked
        <5>2. SamplesOf(v.recorded[s]) = SamplesOf(u.recorded[s]) \o block.samples
          BY <2>8, <4>4, <5>1
        <5>3. SamplesOf(u.recorded[s]) \o block.samples \in Seq(SampleType)
          BY <2>3, <2>8
        <5> QED BY <4>1, <4>2, <5>1, <5>2, <5>3, ConcatEmptySeq
      <4> QED BY <2>3, <4>3, <4>4
    <3> QED BY <3>1, <3>2 DEF Exact
  <2>10. InSession(v)
    <3>1. CASE block.masked \/ mask
      BY <2>7, <3>1 DEF HandOff, InSession
    <3>2. CASE ~(block.masked \/ mask)
      <4> DEFINE r == u.recorded[s]
                 t == Recorded(u, block)
                 q == block.samples
      <4>1. r \in Seq(EntryType) /\ q \in Seq(SampleType) /\ v.recorded[s] = r \o t
        BY <2>3, <2>7, <3>2
      <4>2. /\ t \in Seq(EntryType) /\ Len(t) = Len(q)
            /\ \A i \in DOMAIN q : t[i].sample = q[i] /\ t[i].session = u.session
        BY <2>1, RecordedShape
      <4>3. \A i \in DOMAIN q : q[i].session = u.session
        BY <1>2 DEF HandOff, Current
      <4>4. \A i \in DOMAIN r : r[i].sample.session = r[i].session
        BY DEF HandOff, InSession
      <4> HIDE DEF r, t, q
      <4>5. /\ Len(r) \in Nat /\ DOMAIN r = 1 .. Len(r)
            /\ Len(q) \in Nat /\ DOMAIN q = 1 .. Len(q)
        BY <4>1
      <4>6. \A i \in DOMAIN (r \o t) : (r \o t)[i].sample.session = (r \o t)[i].session
        <5> TAKE i \in DOMAIN (r \o t)
        <5>1. /\ i \in 1 .. Len(r) + Len(q)
              /\ (r \o t)[i] = IF i <= Len(r) THEN r[i] ELSE t[i - Len(r)]
          BY <4>1, <4>2, <4>5, ConcatProperties
        <5>2. CASE i <= Len(r)
          BY <4>4, <4>5, <5>1, <5>2
        <5>3. CASE i > Len(r)
          <6>1. i - Len(r) \in DOMAIN q
            BY <4>5, <5>1, <5>3
          <6>2. t[i - Len(r)].sample.session = t[i - Len(r)].session
            BY <4>2, <4>3, <6>1
          <6> QED BY <4>5, <5>1, <5>3, <6>2
        <5> QED BY <4>5, <5>1, <5>2, <5>3
      <4>7. ASSUME NEW x \in Sources, NEW i \in DOMAIN v.recorded[x]
            PROVE  v.recorded[x][i].sample.session = v.recorded[x][i].session
        <5>1. CASE x = s
          BY <4>1, <4>6, <4>7, <5>1
        <5>2. CASE x # s
          BY <2>7, <4>7, <5>2 DEF HandOff, InSession
        <5> QED BY <5>1, <5>2
      <4> QED BY <4>7 DEF InSession
    <3> QED BY <3>1, <3>2
  <2> QED BY <2>2, <2>4, <2>5, <2>6, <2>7, <2>9, <2>10 DEF HandOff, Touches
<1> QED BY <1>1, <1>2

(* A slot that is free is referenced neither by the ring, nor by a source, nor by
   the dashboard. *)
LEMMA ClaimIsFree ==
    ASSUME NEW u \in HandOffType, NEW k \in claimSlot(u)
    PROVE  /\ k \in Slots
           /\ \A i \in DOMAIN u.blocks : u.blocks[i].slot # k
           /\ \A h \in Held \ {NoBlock} : h.slot # k
           /\ \A t \in Sources : u.open[t] # NoBlock => u.open[t].slot # k
<1>1. k \in free(u)
  BY DEF claimSlot
<1>2. k \in Slots /\ k \notin SlotsOf(Range(u.blocks) \cup Range(u.open) \cup Held)
  BY <1>1 DEF free, Held
<1>3. /\ \A i \in DOMAIN u.blocks : u.blocks[i] \in BlockType /\ u.blocks[i] # NoBlock
      /\ DOMAIN u.open = Sources
  BY NoBlockAssumption DEF HandOffType
<1> QED BY <1>2, <1>3 DEF SlotsOf, Range

(* An empty block takes a free slot. *)
LEMMA OpenKeeps ==
    ASSUME TypeInv, NEW u, NEW taken, HandOff(u, Held, taken),
           NEW s \in Sources, NEW mask \in BOOLEAN, NEW v, Opens(v, u, s, mask)
    PROVE  HandOff(v, Held, taken) /\ Touches(v, u, s) /\ IsOpen(v, s, mask)
<1> PICK k \in claimSlot(u) : v = openSlot(u, s, k, mask)
  BY DEF Opens
<1> u.open[s] = NoBlock
  BY DEF Opens
<1> DEFINE block == [slot |-> k, gen |-> b.gen, source |-> s, masked |-> mask,
                     stale |-> FALSE, samples |-> <<>>]
           o == [u.open EXCEPT ![s] = block]
<1>1. /\ u \in HandOffType /\ b.gen \in Nat
      /\ u.open \in [Sources -> BlockType \cup {NoBlock}]
  BY DEF HandOff, HandOffType, TypeInv, BuilderType
<1>2. /\ k \in Slots
      /\ \A i \in DOMAIN u.blocks : u.blocks[i].slot # k
      /\ \A h \in Held \ {NoBlock} : h.slot # k
      /\ \A t \in Sources : u.open[t] # NoBlock => u.open[t].slot # k
  BY <1>1, ClaimIsFree
<1>3. block \in BlockType /\ block # NoBlock
  <2>1. <<>> \in Seq(SampleType)
    OBVIOUS
  <2>2. block \in BlockType
    BY <1>1, <1>2, <2>1 DEF BlockType
  <2> QED BY <2>2, NoBlockAssumption
<1>4. v = [u EXCEPT !.open = o]
  BY DEF openSlot
<1>5. /\ block.slot = k /\ block.source = s /\ block.masked = mask /\ block.samples = <<>>
  OBVIOUS
<1> HIDE DEF block
<1>6. /\ o \in [Sources -> BlockType \cup {NoBlock}] /\ o[s] = block
      /\ \A t \in Sources \ {s} : o[t] = u.open[t]
  BY <1>1, <1>3
<1> HIDE DEF o
<1>7. /\ v \in HandOffType /\ v.open = o /\ v.blocks = u.blocks /\ v.recorded = u.recorded
      /\ v.session = u.session /\ v.starved = u.starved
  BY <1>1, <1>4, <1>6 DEF HandOffType
<1>8. Exclusive(v, Held)
  <2>1. ASSUME NEW t \in Sources, v.open[t] # NoBlock
        PROVE  /\ \A i \in DOMAIN v.blocks : v.open[t].slot # v.blocks[i].slot
               /\ \A h \in Held \ {NoBlock} : v.open[t].slot # h.slot
               /\ \A x \in Sources \ {t} : v.open[x] # NoBlock => v.open[t].slot # v.open[x].slot
    <3>1. CASE t = s
      BY <1>2, <1>5, <1>6, <1>7, <3>1
    <3>2. CASE t # s
      <4>1. v.open[t] = u.open[t] /\ u.open[t] # NoBlock
        BY <1>6, <1>7, <2>1, <3>2
      <4>2. /\ \A i \in DOMAIN u.blocks : u.open[t].slot # u.blocks[i].slot
            /\ \A h \in Held \ {NoBlock} : u.open[t].slot # h.slot
            /\ \A x \in Sources \ {t} : u.open[x] # NoBlock => u.open[t].slot # u.open[x].slot
        BY <4>1 DEF HandOff, Exclusive
      <4> QED BY <1>2, <1>5, <1>6, <1>7, <4>1, <4>2
    <3> QED BY <3>1, <3>2
  <2> QED BY <1>7, <2>1 DEF HandOff, Exclusive
<1>9. Current(v)
  BY <1>5, <1>6, <1>7 DEF HandOff, Current
<1>10. \A t \in Sources : OpenOf(v, t) = OpenOf(u, t)
  BY <1>5, <1>6, <1>7 DEF OpenOf, Unmasked
<1>11. Exact(v, taken) /\ InSession(v)
  BY <1>7, <1>10 DEF HandOff, Exact, InSession
<1> QED BY <1>3, <1>5, <1>6, <1>7, <1>8, <1>9, <1>11 DEF HandOff, Touches, IsOpen

(* What was captured once a sample of s is stored, masked or not *)
Taken(taken, s, mask, e) == IF mask THEN taken ELSE [taken EXCEPT ![s] = Append(@, e)]

(* The sample enters the open block and, unless it is masked, the history. *)
LEMMA AppendKeeps ==
    ASSUME NEW u, NEW held, NEW taken \in [Sources -> Seq(SampleType)], HandOff(u, held, taken),
           NEW s \in Sources, NEW mask \in BOOLEAN, IsOpen(u, s, mask),
           NEW e \in SampleType, NEW v, Appends(v, u, s, e)
    PROVE  /\ HandOff(v, held, Taken(taken, s, mask, e))
           /\ Touches(v, u, s) /\ IsOpen(v, s, mask)
<1> /\ u.open[s] # NoBlock /\ u.open[s].masked = mask
    /\ e.session = u.session /\ v = [u EXCEPT !.open[s].samples = Append(@, e)]
  BY DEF IsOpen, Appends
<1> DEFINE old == u.open[s]
           q == Append(old.samples, e)
           block == [old EXCEPT !.samples = q]
           o == [u.open EXCEPT ![s] = block]
<1>1. /\ u \in HandOffType /\ old \in BlockType
      /\ u.open \in [Sources -> BlockType \cup {NoBlock}]
  BY DEF HandOff, HandOffType
<1>2. v = [u EXCEPT !.open = o]
  OBVIOUS
<1>3. old.samples \in Seq(SampleType) /\ q \in Seq(SampleType)
  BY <1>1 DEF BlockType
<1> HIDE DEF q
<1>4. /\ block \in BlockType /\ block # NoBlock /\ block.samples = q
      /\ block.slot = old.slot /\ block.source = old.source /\ block.masked = old.masked
  BY <1>1, <1>3, NoBlockAssumption DEF BlockType
<1> HIDE DEF block
<1>5. /\ o \in [Sources -> BlockType \cup {NoBlock}] /\ o[s] = block
      /\ \A t \in Sources \ {s} : o[t] = u.open[t]
  BY <1>1, <1>4
<1> HIDE DEF o
<1>6. /\ v \in HandOffType /\ v.open = o /\ v.blocks = u.blocks /\ v.recorded = u.recorded
      /\ v.session = u.session /\ v.starved = u.starved
  BY <1>1, <1>2, <1>5 DEF HandOffType
<1>7. \A t \in Sources : /\ v.open[t] # NoBlock <=> u.open[t] # NoBlock
                         /\ v.open[t] # NoBlock => /\ v.open[t].slot = u.open[t].slot
                                                   /\ v.open[t].source = u.open[t].source
  BY <1>4, <1>5, <1>6
<1>8. Exclusive(v, held)
  BY <1>6, <1>7 DEF HandOff, Exclusive
<1>9. Current(v)
  <2>1. \A i \in DOMAIN q : q[i].session = u.session
    <3> DEFINE x == old.samples
    <3>1. \A i \in DOMAIN x : x[i].session = u.session
      BY DEF HandOff, Current
    <3>2. x \in Seq(SampleType) /\ q = Append(x, e)
      BY <1>3 DEF q
    <3> HIDE DEF x
    <3>3. /\ Len(x) \in Nat /\ DOMAIN x = 1 .. Len(x)
          /\ DOMAIN q = 1 .. Len(x) + 1 /\ q[Len(x) + 1] = e
          /\ \A i \in 1 .. Len(x) : q[i] = x[i]
      BY <3>2
    <3> QED
      <4> TAKE i \in DOMAIN q
      <4>1. CASE i = Len(x) + 1
        BY <3>3, <4>1
      <4>2. CASE i # Len(x) + 1
        <5>1. i \in 1 .. Len(x)
          BY <3>3, <4>2
        <5> QED BY <3>1, <3>3, <5>1
      <4> QED BY <4>1, <4>2
  <2>2. ASSUME NEW t \in Sources, v.open[t] # NoBlock
        PROVE  /\ v.open[t].source = t
               /\ \A i \in DOMAIN v.open[t].samples : v.open[t].samples[i].session = v.session
    <3>1. CASE t = s
      <4>1. v.open[t] = block
        BY <1>5, <1>6, <3>1
      <4>2. old.source = s
        BY DEF HandOff, Current
      <4> HIDE DEF old
      <4> QED BY <1>4, <1>6, <2>1, <3>1, <4>1, <4>2
    <3>2. CASE t # s
      BY <1>5, <1>6, <2>2, <3>2 DEF HandOff, Current
    <3> QED BY <3>1, <3>2
  <2> QED BY <2>2 DEF Current
<1>10. Exact(v, Taken(taken, s, mask, e))
  <2> DEFINE c == Taken(taken, s, mask, e)
  <2>1. /\ \A t \in Sources \ {s} : c[t] = taken[t]
        /\ c[s] = IF mask THEN taken[s] ELSE Append(taken[s], e)
    BY DEF Taken
  <2> HIDE DEF c
  <2>2. ASSUME NEW t \in Sources, t # s
        PROVE  SamplesOf(v.recorded[t]) \o OpenOf(v, t) = c[t]
    <3>1. v.recorded[t] = u.recorded[t] /\ v.open[t] = u.open[t] /\ c[t] = taken[t]
      <4>1. t \in Sources \ {s}
        BY <2>2
      <4>2. v.open[t] = u.open[t] /\ v.recorded = u.recorded
        BY <1>5, <1>6, <4>1
      <4>3. c[t] = taken[t]
        BY <2>1, <4>1
      <4> QED BY <4>2, <4>3
    <3>2. OpenOf(v, t) = OpenOf(u, t)
      BY <3>1, Zenon DEF OpenOf
    <3>3. SamplesOf(u.recorded[t]) \o OpenOf(u, t) = taken[t]
      BY DEF HandOff, Exact
    <3> QED BY <3>1, <3>2, <3>3
  <2>3. SamplesOf(v.recorded[s]) \o OpenOf(v, s) = c[s]
    <3> DEFINE p == SamplesOf(u.recorded[s])
    <3>1. p \in Seq(SampleType) /\ p \o OpenOf(u, s) = taken[s]
      <4>1. u.recorded[s] \in Seq(EntryType)
        BY <1>1 DEF HandOffType
      <4>2. p \in Seq(SampleType)
        BY <4>1, SamplesShape
      <4> QED BY <4>2 DEF HandOff, Exact
    <3>2. v.recorded[s] = u.recorded[s]
      BY <1>6
    <3>3. CASE mask
      BY <1>4, <1>5, <1>6, <2>1, <3>1, <3>2, <3>3 DEF OpenOf, Unmasked
    <3>4. CASE ~mask
      <4>1. OpenOf(v, s) = Append(old.samples, e) /\ OpenOf(u, s) = old.samples
        BY <1>4, <1>5, <1>6, <3>4 DEF OpenOf, Unmasked, q
      <4> HIDE DEF old, p
      <4>2. p \o Append(old.samples, e) = Append(p \o old.samples, e)
        BY <1>3, <3>1
      <4> QED BY <2>1, <3>1, <3>2, <3>4, <4>1, <4>2 DEF p
    <3> QED BY <3>3, <3>4
  <2> QED BY <2>2, <2>3 DEF Exact, c
<1>11. InSession(v)
  BY <1>6 DEF HandOff, InSession
<1> QED BY <1>4, <1>5, <1>6, <1>8, <1>9, <1>10, <1>11 DEF HandOff, Touches, IsOpen

(* The rest of stage: an open block that remains was not stale. *)
LEMMA StoreKeeps ==
    ASSUME NEW u, NEW held, NEW taken \in [Sources -> Seq(SampleType)], HandOff(u, held, taken),
           NEW s \in Sources, NEW mask \in BOOLEAN, IsOpen(u, s, mask),
           Staged \in SampleType, Staged.session = u.session,
           NEW v, v = storeSample(u, s, mask)
    PROVE  /\ HandOff(v, held, Taken(taken, s, mask, Staged))
           /\ Touches(v, u, s)
           /\ v.open[s] # NoBlock => ~v.open[s].stale /\ v.open[s].masked = mask
<1> DEFINE x == [u EXCEPT !.open[s].samples = Append(@, Staged)]
           full == Len(x.open[s].samples) >= SampleCap \/ x.open[s].stale
           c == Taken(taken, s, mask, Staged)
<1>1. v = IF full THEN flush(x, s, mask) ELSE x
  BY DEF storeSample
<1>2. Appends(x, u, s, Staged)
  BY DEF Appends
<1>3. ~full => ~x.open[s].stale
  OBVIOUS
<1> HIDE DEF x, full
<1>4. HandOff(x, held, c) /\ Touches(x, u, s) /\ IsOpen(x, s, mask)
  BY <1>2, AppendKeeps
<1> HIDE DEF c
<1>5. CASE full
  <2>1. Flushes(v, x, s, mask)
    BY <1>1, <1>4, <1>5 DEF Flushes, IsOpen
  <2>2. HandOff(v, held, c) /\ Touches(v, x, s) /\ v.open[s] = NoBlock
    BY <1>4, <2>1, FlushKeeps
  <2>3. Touches(v, u, s)
    BY <1>4, <2>2 DEF Touches
  <2> QED BY <2>2, <2>3 DEF c
<1>6. CASE ~full
  BY <1>1, <1>3, <1>4, <1>6 DEF c, IsOpen
<1> QED BY <1>5, <1>6

-----------------------------------------------------------------------------
(* The pool has a slot for every place a block can be in. *)

(* An image is no larger than its domain. *)
LEMMA ImageBound ==
    ASSUME NEW S, IsFiniteSet(S), NEW f, DOMAIN f = S, f = [x \in S |-> f[x]],
           NEW T, T = {f[x] : x \in S}
    PROVE  IsFiniteSet(T) /\ Cardinality(T) <= Cardinality(S)
<1>1. f \in Surjection(S, T)
  BY DEF Surjection
<1> QED BY <1>1, FS_Surjection

(* The union of two finite sets is no larger than both together. *)
LEMMA UnionBound ==
    ASSUME NEW S, IsFiniteSet(S), NEW T, IsFiniteSet(T)
    PROVE  /\ IsFiniteSet(S \cup T) /\ Cardinality(S \cup T) \in Nat
           /\ Cardinality(S) \in Nat /\ Cardinality(T) \in Nat
           /\ Cardinality(S \cup T) <= Cardinality(S) + Cardinality(T)
<1>1. IsFiniteSet(S \cap T) /\ IsFiniteSet(S \cup T)
  BY FS_Intersection, FS_Union
<1>2. /\ Cardinality(S \cap T) \in Nat /\ Cardinality(S \cup T) \in Nat
      /\ Cardinality(S) \in Nat /\ Cardinality(T) \in Nat
  BY <1>1, FS_CardinalityType
<1>3. Cardinality(S \cup T) = Cardinality(S) + Cardinality(T) - Cardinality(S \cap T)
  BY FS_Union
<1> QED BY <1>1, <1>2, <1>3

EnoughSlots == Cardinality(Slots) >= BlockRingSize + Cardinality(spent.scope.sources) + 2

(* A ring full of blocks, a block open for every other source and two in the
   dashboard's hands leave a slot for the source that needs one. *)
LEMMA SlotsSuffice ==
    ASSUME TypeInv, NEW u, NEW taken, HandOff(u, Held, taken),
           NEW s \in spent.scope.sources, u.open[s] = NoBlock,
           \A t \in Sources : u.open[t] # NoBlock => t \in spent.scope.sources,
           EnoughSlots
    PROVE  claimSlot(u) # {}
<1> DEFINE S == spent.scope.sources
           d == 1 .. Len(u.blocks)
           o == {t \in S \ {s} : u.open[t] # NoBlock}
           h == Held \ {NoBlock}
           f == [i \in d |-> u.blocks[i].slot]
           p == [t \in o |-> u.open[t].slot]
           q == [x \in h |-> x.slot]
           R == {f[i] : i \in d}
           O == {p[t] : t \in o}
           H == {q[x] : x \in h}
<1>1. /\ u \in HandOffType /\ S \subseteq Sources /\ IsFiniteSet(S)
      /\ Len(u.blocks) \in Nat /\ Len(u.blocks) <= BlockRingSize /\ BlockRingSize \in Nat
      /\ DOMAIN u.blocks = d /\ DOMAIN u.open = Sources
  <2>1. u \in HandOffType /\ S \subseteq Sources /\ Len(u.blocks) <= BlockRingSize
    BY DEF HandOff, TypeInv, SpentType
  <2>2. IsFiniteSet(S)
    BY <2>1, FS_Subset, BlockPipelineAssumptions
  <2> QED BY <2>1, <2>2, BlockPipelineAssumptions DEF HandOffType
<1>2. IsFiniteSet(R) /\ Cardinality(R) <= BlockRingSize
  <2>1. IsFiniteSet(d) /\ Cardinality(d) = Len(u.blocks)
    <3> DEFINE n == Len(u.blocks)
    <3>1. n \in Nat /\ 1 \in Int /\ n \in Int
      BY <1>1
    <3> HIDE DEF n
    <3>2. /\ IsFiniteSet(1 .. n)
          /\ Cardinality(1 .. n) = IF 1 > n THEN 0 ELSE n - 1 + 1
      BY <3>1, FS_Interval
    <3>3. Cardinality(1 .. n) = n
      BY <3>1, <3>2
    <3> QED BY <3>2, <3>3 DEF n
  <2>2. DOMAIN f = d /\ f = [i \in d |-> f[i]]
    OBVIOUS
  <2> HIDE DEF f, d
  <2>3. IsFiniteSet(R) /\ Cardinality(R) <= Cardinality(d)
    BY <2>1, <2>2, ImageBound
  <2>4. Cardinality(R) \in Nat
    BY <2>3, FS_CardinalityType
  <2> QED BY <1>1, <2>1, <2>3, <2>4
<1>3. IsFiniteSet(O) /\ Cardinality(O) <= Cardinality(S) - 1
  <2>1. /\ IsFiniteSet(S \ {s}) /\ Cardinality(S \ {s}) = Cardinality(S) - 1
        /\ Cardinality(S) \in Nat
    BY <1>1, FS_RemoveElement, FS_CardinalityType
  <2>2. IsFiniteSet(o) /\ Cardinality(o) <= Cardinality(S \ {s})
    BY <2>1, FS_Subset
  <2>3. DOMAIN p = o /\ p = [t \in o |-> p[t]]
    OBVIOUS
  <2> HIDE DEF p, o
  <2>4. IsFiniteSet(O) /\ Cardinality(O) <= Cardinality(o)
    BY <2>2, <2>3, ImageBound
  <2>5. Cardinality(O) \in Nat /\ Cardinality(o) \in Nat
    BY <2>2, <2>4, FS_CardinalityType
  <2> QED BY <2>1, <2>2, <2>4, <2>5
<1>4. IsFiniteSet(H) /\ Cardinality(H) <= 2
  <2>1. /\ IsFiniteSet({g.block}) /\ Cardinality({g.block}) = 1
        /\ IsFiniteSet({g.newest}) /\ Cardinality({g.newest}) = 1
    BY FS_Singleton
  <2>2. Held = {g.block} \cup {g.newest}
    BY DEF Held
  <2>3. IsFiniteSet(Held) /\ Cardinality(Held) \in Nat /\ Cardinality(Held) <= 2
    BY <2>1, <2>2, UnionBound
  <2>4. IsFiniteSet(h) /\ Cardinality(h) <= Cardinality(Held)
    BY <2>3, FS_Subset
  <2>5. DOMAIN q = h /\ q = [x \in h |-> q[x]]
    OBVIOUS
  <2> HIDE DEF q, h
  <2>6. IsFiniteSet(H) /\ Cardinality(H) <= Cardinality(h)
    BY <2>4, <2>5, ImageBound
  <2>7. Cardinality(H) \in Nat /\ Cardinality(h) \in Nat
    BY <2>4, <2>6, FS_CardinalityType
  <2> QED BY <2>3, <2>4, <2>6, <2>7
<1>5. SlotsOf(Range(u.blocks) \cup Range(u.open) \cup Held) \subseteq (R \cup O) \cup H
  <2> SUFFICES ASSUME NEW x \in (Range(u.blocks) \cup Range(u.open) \cup Held) \ {NoBlock}
               PROVE  x.slot \in (R \cup O) \cup H
    BY DEF SlotsOf
  <2>1. CASE x \in Range(u.blocks)
    BY <1>1, <2>1 DEF Range
  <2>2. CASE x \in Range(u.open)
    BY <1>1, <2>2 DEF Range
  <2>3. CASE x \in Held
    BY <2>3
  <2> QED BY <2>1, <2>2, <2>3
<1> HIDE DEF R, O, H
<1>6. /\ IsFiniteSet((R \cup O) \cup H)
      /\ Cardinality((R \cup O) \cup H) <= BlockRingSize + Cardinality(S) + 1
  <2>1. /\ IsFiniteSet(R \cup O) /\ Cardinality(R \cup O) \in Nat
        /\ Cardinality(R) \in Nat /\ Cardinality(O) \in Nat
        /\ Cardinality(R \cup O) <= Cardinality(R) + Cardinality(O)
    BY <1>2, <1>3, UnionBound
  <2> DEFINE RO == R \cup O
  <2> HIDE DEF RO
  <2>2. /\ IsFiniteSet(RO \cup H) /\ Cardinality(RO \cup H) \in Nat /\ Cardinality(H) \in Nat
        /\ Cardinality(RO \cup H) <= Cardinality(RO) + Cardinality(H)
    BY <1>4, <2>1, UnionBound DEF RO
  <2>3. Cardinality(S) \in Nat
    BY <1>1, FS_CardinalityType
  <2> QED BY <1>1, <1>2, <1>3, <1>4, <2>1, <2>2, <2>3 DEF RO
<1>7. ASSUME free(u) = {}
      PROVE  FALSE
  <2>1. Slots \subseteq (R \cup O) \cup H
    BY <1>5, <1>7 DEF free, Held
  <2>2. Cardinality(Slots) <= Cardinality((R \cup O) \cup H)
    BY <1>6, <2>1, FS_Subset
  <2>3. /\ Cardinality(Slots) \in Nat /\ Cardinality((R \cup O) \cup H) \in Nat
        /\ Cardinality(S) \in Nat
    BY <1>1, <1>6, FS_CardinalityType, BlockPipelineAssumptions
  <2> QED BY <1>1, <1>6, <2>2, <2>3 DEF EnoughSlots
<1> QED BY <1>7 DEF claimSlot

-----------------------------------------------------------------------------
(* The inductive invariant *)

(* Whatever a flush passes over is open for no source, and a boundary finds no
   block open. *)
FlushInv ==
    /\ b.pc = "flush" => \A s \in Sources : w.open[s] # NoBlock => s \in b.rest
    /\ b.pc \in {"edge", "pause"} => \A s \in Sources : w.open[s] = NoBlock

(* A sample to be stored under the mask does not find an unmasked block open. *)
StagingInv ==
    b.pc \in {"announce", "store"} =>
        LET s == b.staging.source
        IN  /\ s \in spent.scope.sources
            /\ b.staging.masked /\ w.open[s] # NoBlock => w.open[s].masked

(* Only the project's sources have blocks. *)
ScopeInv == \A s \in Sources : w.open[s] # NoBlock => s \in spent.scope.sources

IInv ==
    /\ TypeInv
    /\ HandOff(w, Held, captured)
    /\ FlushInv
    /\ StagingInv
    /\ ScopeInv
    /\ OpenBlocksArePublished
    /\ StagingNeverStarves

(* The sample under the cursor belongs to the session that is on. *)
LEMMA StagedShape ==
    ASSUME TypeInv, HandOff(w, Held, captured)
    PROVE  Staged \in SampleType /\ Staged.session = w.session
<1>1. spent.samples + 1 \in Nat /\ b.gen \in Nat /\ w.session \in Nat
  BY DEF TypeInv, SpentType, BuilderType, HandOff, HandOffType
<1> QED BY <1>1 DEF Staged, SampleType

(* What a step that stores a sample does to the hand-off: only the sample's source
   is touched, and its block does not stay open past a display tick. *)
LEMMA StoreSampleKeeps ==
    ASSUME IInv, StoreSample
    PROVE  /\ HandOff(w', Held, captured')
           /\ captured' \in [Sources -> Seq(SampleType)]
           /\ \A t \in Sources \ {b.staging.source} : w'.open[t] = w.open[t]
           /\ w'.open[b.staging.source] # NoBlock => ~w'.open[b.staging.source].stale
           /\ EnoughSlots => w'.starved = w.starved
<1> DEFINE s == b.staging.source
           mask == b.staging.masked
           u0 == IF reusable(w, s, mask) THEN w ELSE flush(w, s, mask)
           done(u) == IF b.staging.flush THEN flush(u, s, mask) ELSE u
           c == Taken(captured, s, mask, Staged)
<1>1. /\ s \in Sources /\ mask \in BOOLEAN
      /\ captured \in [Sources -> Seq(SampleType)]
      /\ mask => w.open[s] = NoBlock \/ w.open[s].masked
  BY DEF IInv, StagingInv, TypeInv, BuilderType, SpentType, StoreSample
<1>2. HandOff(w, Held, captured) /\ Staged \in SampleType /\ Staged.session = w.session
  BY StagedShape DEF IInv
<1>3. c \in [Sources -> Seq(SampleType)]
  BY <1>1, <1>2 DEF Taken
<1>4. \/ /\ reusable(w, s, mask)
         /\ w' = done(storeSample(w, s, mask)) /\ captured' = c
      \/ /\ ~reusable(w, s, mask)
         /\ \E k \in claimSlot(u0) : w' = done(storeSample(openSlot(u0, s, k, mask), s, mask))
         /\ captured' = c
      \/ /\ ~reusable(w, s, mask) /\ claimSlot(u0) = {}
         /\ w' = [u0 EXCEPT !.starved = TRUE] /\ captured' = captured
  BY DEF StoreSample, Taken
<1>5. reusable(w, s, mask) => IsOpen(w, s, mask)
  BY DEF reusable, IsOpen
<1>6. u0 = IF reusable(w, s, mask) THEN w ELSE flush(w, s, mask)
  OBVIOUS
<1>7. \A u : done(u) = IF b.staging.flush THEN flush(u, s, mask) ELSE u
  OBVIOUS
<1>8. /\ EnoughSlots => w'.starved = w.starved
      /\ w'.open[s] # NoBlock => ~w'.open[s].stale
      /\ HandOff(w', Held, captured')
      /\ captured' \in [Sources -> Seq(SampleType)]
      /\ \A t \in Sources \ {s} : w'.open[t] = w.open[t]
  <2> HIDE DEF s, mask, u0, done, c
  <2>1. ASSUME NEW u, HandOff(u, Held, captured), Touches(u, w, s), IsOpen(u, s, mask),
               w' = done(storeSample(u, s, mask)), captured' = c
        PROVE  /\ HandOff(w', Held, captured') /\ captured' \in [Sources -> Seq(SampleType)]
               /\ Touches(w', w, s)
               /\ w'.open[s] # NoBlock => ~w'.open[s].stale
    <3> DEFINE v == storeSample(u, s, mask)
    <3>1. Staged.session = u.session
      BY <1>2, <2>1 DEF Touches
    <3>2. /\ HandOff(v, Held, c) /\ Touches(v, u, s)
          /\ v.open[s] # NoBlock => ~v.open[s].stale /\ v.open[s].masked = mask
      BY <1>1, <1>2, <2>1, <3>1, StoreKeeps DEF c
    <3>3. w' = IF b.staging.flush THEN flush(v, s, mask) ELSE v
      BY <1>7, <2>1
    <3> HIDE DEF v
    <3>4. CASE b.staging.flush
      <4>1. Flushes(w', v, s, mask)
        BY <3>2, <3>3, <3>4 DEF Flushes
      <4>2. HandOff(w', Held, c) /\ Touches(w', v, s) /\ w'.open[s] = NoBlock
        BY <1>1, <3>2, <4>1, FlushKeeps
      <4> QED BY <1>3, <2>1, <3>2, <4>2 DEF Touches
    <3>5. CASE ~b.staging.flush
      BY <1>3, <2>1, <3>2, <3>3, <3>5 DEF Touches
    <3> QED BY <3>4, <3>5
  <2>2. CASE reusable(w, s, mask)
    <3>1. Touches(w, w, s)
      BY DEF Touches
    <3>2. w' = done(storeSample(w, s, mask)) /\ captured' = c
      BY <1>4, <2>2
    <3>3. /\ HandOff(w', Held, captured') /\ captured' \in [Sources -> Seq(SampleType)]
          /\ Touches(w', w, s)
          /\ w'.open[s] # NoBlock => ~w'.open[s].stale
      BY <1>2, <1>5, <2>1, <2>2, <3>1, <3>2
    <3> QED BY <3>3 DEF Touches
  <2>3. CASE ~reusable(w, s, mask)
    <3>1. Flushes(u0, w, s, mask)
      BY <1>1, <1>6, <2>3 DEF Flushes
    <3>2. HandOff(u0, Held, captured) /\ Touches(u0, w, s) /\ u0.open[s] = NoBlock
      BY <1>1, <1>2, <3>1, FlushKeeps
    <3>3. CASE \E k \in claimSlot(u0) :
                 /\ w' = done(storeSample(openSlot(u0, s, k, mask), s, mask))
                 /\ captured' = c
      <4>1. PICK k \in claimSlot(u0) :
              w' = done(storeSample(openSlot(u0, s, k, mask), s, mask)) /\ captured' = c
        BY <3>3
      <4> DEFINE u == openSlot(u0, s, k, mask)
      <4>2. Opens(u, u0, s, mask)
        BY <3>2 DEF Opens
      <4> HIDE DEF u
      <4>3. HandOff(u, Held, captured) /\ Touches(u, u0, s) /\ IsOpen(u, s, mask)
        BY <1>1, <3>2, <4>2, OpenKeeps DEF IInv
      <4>4. Touches(u, w, s)
        BY <3>2, <4>3 DEF Touches
      <4>5. w' = done(storeSample(u, s, mask)) /\ captured' = c
        BY <4>1 DEF u
      <4>6. /\ HandOff(w', Held, captured') /\ captured' \in [Sources -> Seq(SampleType)]
            /\ Touches(w', w, s)
            /\ w'.open[s] # NoBlock => ~w'.open[s].stale
        BY <2>1, <4>3, <4>4, <4>5
      <4> QED BY <4>6 DEF Touches
    <3>4. CASE /\ claimSlot(u0) = {}
               /\ w' = [u0 EXCEPT !.starved = TRUE] /\ captured' = captured
      <4>1. u0 \in HandOffType
        BY <3>2 DEF HandOff
      <4>2. /\ w' \in HandOffType /\ w'.open = u0.open /\ w'.blocks = u0.blocks
            /\ w'.recorded = u0.recorded /\ w'.session = u0.session
        BY <3>4, <4>1 DEF HandOffType
      <4>3. HandOff(w', Held, captured)
        BY <3>2, <4>2 DEF HandOff, Exclusive, Current, Exact, OpenOf, InSession
      <4>4. ~EnoughSlots
        <5>1. /\ s \in spent.scope.sources /\ TypeInv
              /\ \A t \in Sources : w.open[t] # NoBlock => t \in spent.scope.sources
          BY DEF IInv, StagingInv, ScopeInv, StoreSample, s
        <5>2. \A t \in Sources : u0.open[t] # NoBlock => t \in spent.scope.sources
          BY <3>2, <5>1 DEF Touches
        <5> QED BY <3>2, <3>4, <5>1, <5>2, SlotsSuffice
      <4> QED BY <1>1, <3>2, <3>4, <4>2, <4>3, <4>4 DEF Touches
    <3> QED BY <1>4, <2>3, <3>3, <3>4
  <2> QED BY <2>2, <2>3
<1> QED BY <1>8

(* The other steps of the builder that flush *)
LEMMA FlushStepKeeps ==
    ASSUME IInv, NEW s \in Sources, w' = flush(w, s, FALSE)
    PROVE  HandOff(w', Held, captured) /\ Touches(w', w, s) /\ w'.open[s] = NoBlock
<1>1. Flushes(w', w, s, FALSE)
  BY DEF Flushes
<1> QED BY <1>1, FlushKeeps DEF IInv

(* A boundary changes the session of no open block, as there is none. *)
LEMMA BoundaryKeeps ==
    ASSUME IInv, b.pc \in {"edge", "pause"}, w' = Boundary(w)
    PROVE  HandOff(w', Held, captured) /\ w'.open = w.open /\ w'.starved = w.starved
<1>1. HandOff(w, Held, captured) /\ \A s \in Sources : w.open[s] = NoBlock
  BY DEF IInv, FlushInv
<1>2. /\ w' \in HandOffType /\ w'.open = w.open /\ w'.starved = w.starved
      /\ w'.blocks = w.blocks /\ w'.recorded = w.recorded
  <2> DEFINE n == w.session + 1
  <2>1. w \in HandOffType /\ n \in Nat /\ w' = [w EXCEPT !.session = n]
    BY <1>1 DEF HandOff, HandOffType, Boundary
  <2> HIDE DEF n
  <2> QED BY <2>1 DEF HandOffType
<1>3. Current(w')
  BY <1>1, <1>2 DEF Current
<1>4. Exclusive(w', Held)
  BY <1>1, <1>2 DEF HandOff, Exclusive
<1>5. Exact(w', captured)
  BY <1>1, <1>2, Zenon DEF HandOff, Exact, OpenOf
<1> QED BY <1>1, <1>2, <1>3, <1>4, <1>5 DEF HandOff, InSession

SameOpen(v, u) ==
    \A s \in Sources : /\ v.open[s] = NoBlock <=> u.open[s] = NoBlock
                       /\ v.open[s] # NoBlock => v.open[s].masked = u.open[s].masked

Drains(v, u) == u.blocks # <<>> /\ v = [u EXCEPT !.blocks = Tail(@)]

(* A display tick marks the open blocks and changes nothing else of them. *)
LEMMA BumpKeeps ==
    ASSUME NEW u, NEW held, NEW taken, HandOff(u, held, taken),
           NEW v, v = bumpFlushEpoch(u)
    PROVE  HandOff(v, held, taken) /\ v.starved = u.starved /\ SameOpen(v, u)
<1> DEFINE o == [s \in Sources |-> IF u.open[s] = NoBlock THEN NoBlock
                                   ELSE [u.open[s] EXCEPT !.stale = TRUE]]
<1>1. u \in HandOffType /\ u.open \in [Sources -> BlockType \cup {NoBlock}]
  BY DEF HandOff, HandOffType
<1>2. v = [u EXCEPT !.open = o]
  BY DEF bumpFlushEpoch
<1>3. ASSUME NEW s \in Sources
      PROVE  /\ o[s] \in BlockType \cup {NoBlock}
             /\ o[s] = NoBlock <=> u.open[s] = NoBlock
             /\ u.open[s] # NoBlock => /\ o[s].slot = u.open[s].slot
                                       /\ o[s].source = u.open[s].source
                                       /\ o[s].masked = u.open[s].masked
                                       /\ o[s].samples = u.open[s].samples
  <2>1. CASE u.open[s] = NoBlock
    BY <2>1
  <2>2. CASE u.open[s] # NoBlock
    <3> DEFINE old == u.open[s]
               new == [old EXCEPT !.stale = TRUE]
    <3>1. old \in BlockType /\ o[s] = new
      BY <1>1, <2>2
    <3> HIDE DEF old, o
    <3>2. /\ new \in BlockType /\ new.slot = old.slot /\ new.source = old.source
          /\ new.masked = old.masked /\ new.samples = old.samples
      BY <3>1 DEF BlockType
    <3> QED BY <2>2, <3>1, <3>2, NoBlockAssumption DEF old
  <2> QED BY <2>1, <2>2
<1>4. o \in [Sources -> BlockType \cup {NoBlock}]
  BY <1>3
<1> HIDE DEF o
<1>5. /\ v \in HandOffType /\ v.open = o /\ v.blocks = u.blocks /\ v.recorded = u.recorded
      /\ v.session = u.session /\ v.starved = u.starved
  BY <1>1, <1>2, <1>4 DEF HandOffType
<1>6. Exclusive(v, held)
  BY <1>3, <1>5 DEF HandOff, Exclusive
<1>7. Current(v)
  BY <1>3, <1>5 DEF HandOff, Current
<1>8. \A s \in Sources : OpenOf(v, s) = OpenOf(u, s)
  BY <1>3, <1>5 DEF OpenOf, Unmasked
<1>9. Exact(v, taken)
  BY <1>5, <1>8 DEF HandOff, Exact
<1> QED BY <1>3, <1>5, <1>6, <1>7, <1>9 DEF HandOff, InSession, SameOpen

(* The oldest block of the ring passes into the dashboard's hands. *)
LEMMA DrainKeeps ==
    ASSUME NEW u, NEW held, NEW taken, HandOff(u, held, taken),
           NEW v, Drains(v, u),
           NEW h, h \subseteq held \cup {Head(u.blocks)}
    PROVE  HandOff(v, h, taken) /\ v.open = u.open /\ v.starved = u.starved
<1>a. u.blocks # <<>> /\ v = [u EXCEPT !.blocks = Tail(@)]
  BY DEF Drains
<1> DEFINE q == u.blocks
           t == Tail(q)
<1>1. /\ u \in HandOffType /\ q \in Seq(BlockType) /\ q # <<>>
      /\ v = [u EXCEPT !.blocks = t] /\ BlockRingSize \in Nat
  BY <1>a, BlockPipelineAssumptions DEF HandOff, HandOffType
<1>b. \A i, j \in DOMAIN q : q[i].slot = q[j].slot => i = j
  BY DEF HandOff, Exclusive
<1> HIDE DEF q
<1>2. /\ t \in Seq(BlockType) /\ Len(t) = Len(q) - 1 /\ Len(q) \in Nat /\ 1 \in DOMAIN q
      /\ DOMAIN t = 1 .. Len(q) - 1 /\ DOMAIN q = 1 .. Len(q) /\ Head(q) = q[1]
      /\ \A i \in DOMAIN t : i + 1 \in DOMAIN q /\ t[i] = q[i + 1]
  BY <1>1
<1> HIDE DEF t
<1>3. /\ v \in HandOffType /\ v.open = u.open /\ v.blocks = t /\ v.recorded = u.recorded
      /\ v.session = u.session /\ v.starved = u.starved
  BY <1>1, <1>2 DEF HandOffType
<1>4. \A i, j \in DOMAIN t : t[i].slot = t[j].slot => i = j
  <2> TAKE i, j \in DOMAIN t
  <2> HAVE t[i].slot = t[j].slot
  <2>1. i + 1 = j + 1
    BY <1>2, <1>b
  <2> QED BY <1>2, <2>1
<1>5. ASSUME NEW i \in DOMAIN t, NEW x \in h \ {NoBlock}
      PROVE  t[i].slot # x.slot
  <2>1. i + 1 \in DOMAIN q /\ t[i] = q[i + 1] /\ i + 1 # 1
    BY <1>2
  <2>2. CASE x = Head(q)
    <3>1. q[i + 1].slot # q[1].slot
      BY <1>2, <1>b, <2>1
    <3> QED BY <1>2, <2>1, <2>2, <3>1
  <2>3. CASE x \in held
    BY <2>1, <2>3 DEF HandOff, Exclusive, q
  <2> QED BY <2>2, <2>3 DEF q
<1>6. ASSUME NEW s \in Sources, u.open[s] # NoBlock
      PROVE  /\ \A i \in DOMAIN t : u.open[s].slot # t[i].slot
             /\ \A x \in h \ {NoBlock} : u.open[s].slot # x.slot
             /\ \A y \in Sources \ {s} : u.open[y] # NoBlock => u.open[s].slot # u.open[y].slot
  <2>1. /\ \A i \in DOMAIN q : u.open[s].slot # q[i].slot
        /\ \A x \in held \ {NoBlock} : u.open[s].slot # x.slot
        /\ \A y \in Sources \ {s} : u.open[y] # NoBlock => u.open[s].slot # u.open[y].slot
    BY <1>6 DEF HandOff, Exclusive, q
  <2>2. ASSUME NEW x \in h \ {NoBlock}
        PROVE  u.open[s].slot # x.slot
    BY <1>2, <2>1 DEF q
  <2>3. \A i \in DOMAIN t : u.open[s].slot # t[i].slot
    BY <1>2, <2>1
  <2> QED BY <2>1, <2>2, <2>3
<1>7. Exclusive(v, h)
  BY <1>3, <1>4, <1>5, <1>6 DEF Exclusive
<1>8. Current(v) /\ InSession(v)
  BY <1>3 DEF HandOff, Current, InSession
<1>9. Exact(v, taken)
  BY <1>3, Zenon DEF HandOff, Exact, OpenOf
<1>10. Len(t) <= BlockRingSize
  BY <1>1, <1>2 DEF HandOff, q
<1> QED BY <1>3, <1>7, <1>8, <1>9, <1>10 DEF HandOff

(* A block the dashboard lets go of is nobody's. *)
LEMMA ReleaseKeeps ==
    ASSUME NEW u, NEW held, NEW taken, HandOff(u, held, taken),
           NEW h, h \subseteq held \cup {NoBlock}
    PROVE  HandOff(u, h, taken)
<1>1. Exclusive(u, h)
  BY DEF HandOff, Exclusive
<1> QED BY <1>1 DEF HandOff

-----------------------------------------------------------------------------
(* The steps of the GUI thread *)

(* What a queue of posted calls holds *)
LEMMA InboxShape ==
    ASSUME NEW q \in Seq(Calls)
    PROVE  /\ \A c \in Calls : /\ Append(q, c) \in Seq(Calls)
                               /\ Range(Append(q, c)) = Range(q) \cup {c}
           /\ q # <<>> => /\ Tail(q) \in Seq(Calls)
                          /\ Range(q) = Range(Tail(q)) \cup {Head(q)}
<1>1. ASSUME NEW c \in Calls
      PROVE  Append(q, c) \in Seq(Calls) /\ Range(Append(q, c)) = Range(q) \cup {c}
  <2> DEFINE n == Len(q)
             a == Append(q, c)
  <2>1. /\ a \in Seq(Calls) /\ n \in Nat /\ DOMAIN q = 1 .. n /\ DOMAIN a = 1 .. n + 1
        /\ a[n + 1] = c /\ \A i \in 1 .. n : a[i] = q[i]
    OBVIOUS
  <2> HIDE DEF a, n
  <2>2. n + 1 \in DOMAIN a /\ \A i \in DOMAIN a : i = n + 1 \/ i \in DOMAIN q
    BY <2>1
  <2>3. DOMAIN q \subseteq DOMAIN a
    BY <2>1
  <2> QED BY <2>1, <2>2, <2>3 DEF Range, a
<1>2. ASSUME q # <<>>
      PROVE  Tail(q) \in Seq(Calls) /\ Range(q) = Range(Tail(q)) \cup {Head(q)}
  <2> DEFINE n == Len(q)
             t == Tail(q)
             h == Head(q)
  <2>1. /\ t \in Seq(Calls) /\ n \in Nat \ {0} /\ DOMAIN q = 1 .. n /\ DOMAIN t = 1 .. n - 1
        /\ h = q[1] /\ \A i \in 1 .. n - 1 : t[i] = q[i + 1]
    BY <1>2
  <2> HIDE DEF t, n, h
  <2>2. \A i \in DOMAIN q : i = 1 \/ i - 1 \in DOMAIN t
    BY <2>1
  <2>3. \A i \in DOMAIN t : i + 1 \in DOMAIN q
    BY <2>1
  <2>4. \A i \in DOMAIN q : q[i] \in Range(t) \cup {h}
    <3> TAKE i \in DOMAIN q
    <3>1. CASE i = 1
      BY <2>1, <3>1
    <3>2. CASE i # 1
      <4>1. i - 1 \in DOMAIN t /\ t[i - 1] = q[i]
        BY <2>1, <2>2, <3>2
      <4> QED BY <4>1 DEF Range
    <3> QED BY <3>1, <3>2
  <2>5. Range(t) \cup {h} \subseteq Range(q)
    BY <2>1, <2>3 DEF Range
  <2> QED BY <2>1, <2>4, <2>5 DEF Range, t, h
<1> QED BY <1>1, <1>2

(* A step that posts nothing or one call *)
Posts(call) == b' = [b EXCEPT !.inbox = Append(@, call)]

(* It leaves the builder where it is, with what was posted before. *)
LEMMA PostsShape ==
    ASSUME b \in BuilderType, b' = b \/ \E c \in Calls : Posts(c)
    PROVE  /\ b' \in BuilderType
           /\ b'.pc = b.pc /\ b'.rest = b.rest /\ b'.staging = b.staging
           /\ Range(b.inbox) \subseteq Range(b'.inbox)
           /\ \A c \in Calls : Posts(c) => c \in Range(b'.inbox)
<1>1. CASE b' = b /\ ~\E c \in Calls : Posts(c)
  BY <1>1
<1>2. ASSUME NEW c \in Calls, Posts(c)
      PROVE  /\ b' \in BuilderType
             /\ b'.pc = b.pc /\ b'.rest = b.rest /\ b'.staging = b.staging
             /\ Range(b.inbox) \subseteq Range(b'.inbox)
             /\ c \in Range(b'.inbox)
  <2> DEFINE q == Append(b.inbox, c)
  <2>1. /\ q \in Seq(Calls) /\ Range(q) = Range(b.inbox) \cup {c}
        /\ b' = [b EXCEPT !.inbox = q]
    BY <1>2, InboxShape DEF Posts, BuilderType
  <2> HIDE DEF q
  <2> QED BY <2>1 DEF BuilderType
<1> QED BY <1>1, <1>2

(* A step of the GUI thread opens no block, closes none and moves the builder
   nowhere. *)
LEMMA GuiKeeps ==
    ASSUME IInv, TypeInv', HandOff(w', Held', captured'),
           b' = b \/ \E c \in Calls : Posts(c),
           SameOpen(w', w), w'.starved = w.starved, spent'.scope = spent.scope,
           w'.open = w.open \/ Posts("flush")
    PROVE  IInv'
<1> \A s \in Sources : /\ w'.open[s] = NoBlock <=> w.open[s] = NoBlock
                       /\ w'.open[s] # NoBlock => w'.open[s].masked = w.open[s].masked
  BY DEF SameOpen
<1>1. /\ b'.pc = b.pc /\ b'.rest = b.rest /\ b'.staging = b.staging
      /\ Range(b.inbox) \subseteq Range(b'.inbox)
      /\ \A c \in Calls : Posts(c) => c \in Range(b'.inbox)
      /\ b.staging.source \in Sources \cup {NoBlock}
  BY PostsShape DEF IInv, TypeInv, BuilderType
<1>2. FlushInv'
  BY <1>1 DEF IInv, FlushInv
<1>3. StagingInv'
  <2> DEFINE s == b.staging.source
  <2> SUFFICES ASSUME b'.pc \in {"announce", "store"}
               PROVE  /\ s \in spent'.scope.sources
                      /\ (b.staging.masked /\ w'.open[s] # NoBlock => w'.open[s].masked)
    BY <1>1 DEF StagingInv
  <2>1. /\ s \in spent.scope.sources
        /\ (b.staging.masked /\ w.open[s] # NoBlock => w.open[s].masked)
    BY <1>1 DEF IInv, StagingInv
  <2>2. s \in Sources
    BY <2>1 DEF IInv, TypeInv, SpentType
  <2> HIDE DEF s
  <2> QED BY <2>1, <2>2
<1>4. ScopeInv' /\ StagingNeverStarves'
  BY DEF IInv, ScopeInv, StagingNeverStarves
<1>5. OpenBlocksArePublished'
  <2>1. CASE w'.open = w.open
    BY <1>1, <2>1 DEF IInv, OpenBlocksArePublished
  <2>2. CASE Posts("flush")
    <3>1. "flush" \in Range(b'.inbox)
      BY <1>1, <2>2 DEF Calls
    <3> QED BY <3>1 DEF OpenBlocksArePublished
  <2> QED BY <2>1, <2>2
<1> QED BY <1>2, <1>3, <1>4, <1>5 DEF IInv

(* Every step of the GUI thread keeps the invariant. *)
LEMMA GuiPreserves ==
    ASSUME IInv, Gui, ~collectProjectSnapshot
    PROVE  IInv'
<1>1. /\ TypeInv /\ HandOff(w, Held, captured) /\ b \in BuilderType /\ DashboardShape
      /\ link \in [connected : BOOLEAN, paused : BOOLEAN] /\ spent \in SpentType
      /\ captured \in [Sources -> Seq(SampleType)]
  BY DEF IInv, TypeInv
<1>2. {"flush", "forget", "link", "sync"} \subseteq Calls
  BY DEF Calls
(* The steps that leave the blocks alone *)
<1>3. ASSUME b' = b \/ \E c \in Calls : Posts(c), DashboardShape',
             link' \in [connected : BOOLEAN, paused : BOOLEAN], spent' \in SpentType,
             spent'.scope = spent.scope, UNCHANGED <<w, captured>>,
             {g'.block, g'.newest} \subseteq {g.block, g.newest, NoBlock}
      PROVE  IInv'
  <2>1. TypeInv'
    BY <1>1, <1>3, PostsShape DEF TypeInv
  <2>2. HandOff(w', Held', captured')
    <3>1. Held' \subseteq Held \cup {NoBlock}
      BY <1>3 DEF Held
    <3>2. HandOff(w, Held', captured)
      BY <1>1, <3>1, ReleaseKeeps
    <3> QED BY <1>3, <3>2
  <2>3. SameOpen(w', w)
    BY <1>3 DEF SameOpen
  <2> QED BY <1>3, <2>1, <2>2, <2>3, GuiKeeps
<1>5. CASE LinkChanges
  <2>1. Posts("link") /\ UNCHANGED <<w, captured>>
    BY <1>5 DEF LinkChanges, Posts
  <2>2. DashboardShape' /\ g'.block = g.block /\ g'.newest = g.newest
    BY <1>1, <1>5 DEF LinkChanges, DashboardShape
  <2>3. link' \in [connected : BOOLEAN, paused : BOOLEAN]
    BY <1>1, <1>5 DEF LinkChanges
  <2>4. spent' \in SpentType /\ spent'.scope = spent.scope
    BY <1>1, <1>5 DEF LinkChanges, SpentType
  <2> QED BY <1>2, <1>3, <2>1, <2>2, <2>3, <2>4
<1>6. CASE setPaused
  <2>1. Posts("link") /\ UNCHANGED <<w, captured, g>>
    BY <1>6 DEF setPaused, Posts
  <2>2. DashboardShape' /\ g'.block = g.block /\ g'.newest = g.newest
    BY <1>1, <2>1 DEF DashboardShape
  <2>3. link' \in [connected : BOOLEAN, paused : BOOLEAN]
    BY <1>1, <1>6 DEF setPaused
  <2>4. spent' \in SpentType /\ spent'.scope = spent.scope
    BY <1>1, <1>6 DEF setPaused, SpentType
  <2> QED BY <1>2, <1>3, <2>1, <2>2, <2>3, <2>4
<1>7. CASE RequestSync
  <2>1. Posts("sync") /\ UNCHANGED <<w, captured, g, link>>
    BY <1>7 DEF RequestSync, Posts
  <2>2. DashboardShape' /\ g'.block = g.block /\ g'.newest = g.newest
    BY <1>1, <2>1 DEF DashboardShape
  <2>3. spent' \in SpentType /\ spent'.scope = spent.scope
    <3> DEFINE n == spent.syncs + 1
    <3>1. n \in Nat /\ spent' = [spent EXCEPT !.syncs = n]
      BY <1>1, <1>7 DEF RequestSync, SpentType
    <3> HIDE DEF n
    <3> QED BY <1>1, <3>1 DEF SpentType
  <2>4. link' \in [connected : BOOLEAN, paused : BOOLEAN]
    BY <1>1, <2>1
  <2> QED BY <2>4, <1>1, <1>2, <1>3, <2>1, <2>2, <2>3
<1>8. CASE HandleQueued
  <2>1. (b' = b \/ Posts("forget")) /\ UNCHANGED <<w, captured, link, spent>>
    BY <1>8 DEF HandleQueued, resetData, Posts
  <2>2. DashboardShape' /\ g'.block = g.block /\ g'.newest = g.newest
    BY <1>1, <1>8 DEF HandleQueued, resetData, DashboardShape
  <2> QED BY <1>1, <1>2, <1>3, <2>1, <2>2
<1>9. CASE uiTimeout
  <2>1. Posts("flush") /\ UNCHANGED <<link, captured, spent>> /\ w' = bumpFlushEpoch(w)
    BY <1>9 DEF uiTimeout, Posts
  <2>2. DashboardShape' /\ g'.block = g.block /\ g'.newest = g.newest
    BY <1>1, <1>9 DEF uiTimeout, DashboardShape
  <2>3. TypeInv'
    BY <1>1, <1>2, <2>1, <2>2, PostsShape DEF TypeInv, DashboardShape
  <2>4. HandOff(w', Held, captured) /\ w'.starved = w.starved /\ SameOpen(w', w)
    BY <1>1, <2>1, BumpKeeps
  <2>5. Held' = Held
    BY <2>2 DEF Held
  <2>6. HandOff(w', Held', captured')
    BY <2>1, <2>4, <2>5
  <2> QED BY <1>2, <2>1, <2>3, <2>4, <2>6, GuiKeeps
<1>10. CASE DrainStructure
  <2>1. UNCHANGED <<link, b, w, captured, spent>>
    BY <1>10 DEF DrainStructure
  <2>2. DashboardShape' /\ g'.block = g.block /\ g'.newest = g.newest
    BY <1>1, <1>10 DEF DrainStructure, DashboardShape
  <2> QED BY <1>1, <1>3, <2>1, <2>2
<1>11. CASE StructuresDrained
  <2>1. UNCHANGED <<link, b, w, captured, spent>>
    BY <1>11 DEF StructuresDrained
  <2>2. DashboardShape' /\ g'.block = g.block /\ g'.newest = g.newest
    BY <1>1, <1>11 DEF StructuresDrained, DashboardShape
  <2> QED BY <1>1, <1>3, <2>1, <2>2
<1>12. CASE DrainBlock
  <2> DEFINE block == Head(w.blocks)
  <2>1. /\ UNCHANGED <<link, b, captured, spent>> /\ w.blocks # <<>>
        /\ w' = [w EXCEPT !.blocks = Tail(@)]
    BY <1>12 DEF DrainBlock
  <2>2. block \in BlockType
    BY <1>1, <2>1 DEF HandOff, HandOffType
  <2> HIDE DEF block
  <2>3. DashboardShape' /\ g'.block = block /\ g'.newest = g.newest
    BY <1>1, <1>12, <2>2 DEF DrainBlock, DashboardShape, block
  <2>4. TypeInv'
    BY <1>1, <2>1, <2>3 DEF TypeInv
  <2>5. Held' \subseteq Held \cup {Head(w.blocks)}
    BY <2>3 DEF Held, block
  <2>6. HandOff(w', Held', captured) /\ w'.open = w.open /\ w'.starved = w.starved
    <3>1. Drains(w', w)
      BY <2>1 DEF Drains
    <3> QED BY <1>1, <2>5, <3>1, DrainKeeps
  <2>7. SameOpen(w', w)
    BY <2>6 DEF SameOpen
  <2> QED BY <2>1, <2>4, <2>6, <2>7, GuiKeeps
<1>13. CASE KeepNewest
  <2>1. UNCHANGED <<link, b, w, captured, spent>>
    BY <1>13 DEF KeepNewest
  <2>2. DashboardShape' /\ g'.block = g.block /\ g'.newest = g.block
    BY <1>1, <1>13 DEF KeepNewest, DashboardShape
  <2> QED BY <1>1, <1>3, <2>1, <2>2
<1>14. CASE BlocksDrained
  <2>1. UNCHANGED <<link, b, w, captured, spent>>
    BY <1>14 DEF BlocksDrained
  <2>2. DashboardShape' /\ g'.block = NoBlock /\ g'.newest = NoBlock
    BY <1>1, <1>14 DEF BlocksDrained, DashboardShape
  <2> QED BY <1>1, <1>3, <2>1, <2>2
<1> QED BY <1>5, <1>6, <1>7, <1>8, <1>9, <1>10, <1>11, <1>12, <1>13, <1>14 DEF Gui

-----------------------------------------------------------------------------
(* The steps of the builder *)

(* flushAll hands every open block over to the steps that follow. *)
LEMMA FlushAllShape ==
    ASSUME NEW x \in BuilderType, NEW place \in {"idle", "edge", "pause"},
           NEW y, y = flushAll(x, place)
    PROVE  /\ y \in BuilderType
           /\ \A s \in Sources : w.open[s] # NoBlock => s \in y.rest
           /\ y.pc = "flush" \/ (y.pc = place /\ \A s \in Sources : w.open[s] = NoBlock)
<1> DEFINE open == {s \in Sources : w.open[s] # NoBlock}
           pc == IF open = {} THEN place ELSE "flush"
<1>1. y = [x EXCEPT !.rest = open, !.after = place, !.pc = pc]
  BY DEF flushAll
<1>2. open \in SUBSET Sources /\ \A s \in Sources : w.open[s] # NoBlock <=> s \in open
  OBVIOUS
<1>3. pc \in {place, "flush"} /\ (pc = "flush" \/ open = {})
  OBVIOUS
<1>4. pc = "flush" \/ pc = place
  OBVIOUS
<1> HIDE DEF open, pc
<1>5. y \in BuilderType /\ y.rest = open /\ y.pc = pc
  BY <1>1, <1>2, <1>3 DEF BuilderType
<1> QED BY <1>2, <1>3, <1>4, <1>5

(* A step that leaves the blocks alone *)
LEMMA MoveKeeps ==
    ASSUME IInv, UNCHANGED <<link, w, captured, spent>>, DashboardShape',
           g'.block = g.block, g'.newest = g.newest, b' \in BuilderType,
           FlushInv', StagingInv', OpenBlocksArePublished'
    PROVE  IInv'
<1>1. TypeInv'
  BY DEF IInv, TypeInv
<1>2. Held' = Held
  BY DEF Held
<1>3. HandOff(w', Held', captured')
  BY <1>2 DEF IInv
<1>4. ScopeInv' /\ StagingNeverStarves'
  BY DEF IInv, ScopeInv, StagingNeverStarves
<1> QED BY <1>1, <1>3, <1>4 DEF IInv

(* Where the builder neither flushes nor is about to store, only the flush that
   was posted matters. *)
LEMMA IdleMoveKeeps ==
    ASSUME IInv, UNCHANGED <<link, w, captured, spent>>, DashboardShape',
           g'.block = g.block, g'.newest = g.newest, b' \in BuilderType,
           b'.pc \in {"idle", "collect", "apply", "paused"},
           \/ b'.inbox = b.inbox /\ b.rest \subseteq b'.rest
           \/ /\ b.inbox # <<>> /\ b'.inbox = Tail(b.inbox) /\ Head(b.inbox) # "flush"
              /\ b.rest \subseteq b'.rest
    PROVE  IInv'
<1>1. FlushInv' /\ StagingInv'
  BY DEF FlushInv, StagingInv
<1>2. b.inbox \in Seq(Calls)
  BY DEF IInv, TypeInv, BuilderType
<1>3. "flush" \in Range(b.inbox) => "flush" \in Range(b'.inbox)
  BY <1>2, InboxShape
<1>4. OpenBlocksArePublished'
  BY <1>3 DEF IInv, OpenBlocksArePublished
<1> QED BY <1>1, <1>4, MoveKeeps

(* A step that begins a flush of everything *)
LEMMA FlushAllKeeps ==
    ASSUME IInv, UNCHANGED <<link, w, g, captured, spent>>,
           NEW x \in BuilderType, NEW place \in {"idle", "edge", "pause"},
           b' = flushAll(x, place)
    PROVE  IInv'
<1>1. /\ b' \in BuilderType
      /\ \A s \in Sources : w.open[s] # NoBlock => s \in b'.rest
      /\ b'.pc = "flush" \/ (b'.pc = place /\ \A s \in Sources : w.open[s] = NoBlock)
  BY FlushAllShape
<1>2. FlushInv'
  BY <1>1 DEF FlushInv
<1>3. b'.pc \notin {"announce", "store"}
  BY <1>1
<1>4. StagingInv'
  BY <1>3 DEF StagingInv
<1>5. OpenBlocksArePublished'
  BY <1>1 DEF OpenBlocksArePublished
<1>6. DashboardShape'
  BY DEF IInv, TypeInv, DashboardShape
<1> QED BY <1>1, <1>2, <1>4, <1>5, <1>6, MoveKeeps

(* A step that handles a call of the GUI thread keeps the invariant. *)
LEMMA HandlePostedKeeps ==
    ASSUME IInv, HandlePosted
    PROVE  IInv'
<1> DEFINE q == Tail(b.inbox)
<1>1. /\ b \in BuilderType /\ link \in [connected : BOOLEAN, paused : BOOLEAN]
      /\ b.inbox # <<>> /\ b.pc = "idle" /\ b.inbox \in Seq(Calls)
      /\ UNCHANGED <<link, w, g, captured, spent>> /\ DashboardShape
  BY DEF IInv, TypeInv, BuilderType, HandlePosted, flushOpenBlocks,
         forgetPublishedStructures, onConnectedChanged, syncFromProjectModel
<1>2. q \in Seq(Calls)
  BY <1>1
<1>3. DashboardShape' /\ g'.block = g.block /\ g'.newest = g.newest
  BY <1>1 DEF DashboardShape
<1>4. CASE Head(b.inbox) = "flush" /\ flushOpenBlocks
  <2> DEFINE x == [b EXCEPT !.inbox = q]
  <2>1. b' = flushAll(x, "idle")
    BY <1>4 DEF flushOpenBlocks
  <2> HIDE DEF q
  <2>2. x \in BuilderType
    BY <1>1, <1>2 DEF BuilderType
  <2> HIDE DEF x
  <2> QED BY <1>1, <2>1, <2>2, FlushAllKeeps
<1>5. CASE Head(b.inbox) = "forget" /\ forgetPublishedStructures
  <2>1. b' = [b EXCEPT !.inbox = q, !.published = {}]
    BY <1>5 DEF forgetPublishedStructures
  <2> HIDE DEF q
  <2>2. b' \in BuilderType /\ b'.pc = "idle" /\ b'.inbox = q /\ b'.rest = b.rest
    BY <1>1, <1>2, <2>1 DEF BuilderType
  <2> QED BY <1>1, <1>3, <1>5, <2>2, IdleMoveKeeps DEF q
<1>6. CASE Head(b.inbox) = "link" /\ onConnectedChanged
  <2> DEFINE x == [b EXCEPT !.inbox = q, !.lastConnected = link.connected]
  <2>1. b' = IF link.connected = b.lastConnected THEN [x EXCEPT !.pc = "paused"]
             ELSE flushAll(x, "edge")
    BY <1>6 DEF onConnectedChanged, emitSessionBoundary
  <2> HIDE DEF q
  <2>2. x \in BuilderType /\ x.inbox = q /\ x.rest = b.rest
    BY <1>1, <1>2 DEF BuilderType
  <2> HIDE DEF x
  <2>3. CASE link.connected = b.lastConnected
    <3>1. b' \in BuilderType /\ b'.pc = "paused" /\ b'.inbox = q /\ b'.rest = b.rest
      BY <2>1, <2>2, <2>3 DEF BuilderType
    <3> QED BY <1>1, <1>3, <1>6, <3>1, IdleMoveKeeps DEF q
  <2>4. CASE link.connected # b.lastConnected
    BY <1>1, <2>1, <2>2, <2>4, FlushAllKeeps
  <2> QED BY <2>3, <2>4
<1>7. CASE Head(b.inbox) = "sync" /\ syncFromProjectModel
  <2>1. b' = [b EXCEPT !.inbox = q, !.pc = "collect"]
    BY <1>7 DEF syncFromProjectModel
  <2> HIDE DEF q
  <2>2. b' \in BuilderType /\ b'.pc = "collect" /\ b'.inbox = q /\ b'.rest = b.rest
    BY <1>1, <1>2, <2>1 DEF BuilderType
  <2> QED BY <1>1, <1>3, <1>7, <2>2, IdleMoveKeeps DEF q
<1> QED BY <1>4, <1>5, <1>6, <1>7 DEF HandlePosted

(* A step that touches the open block of one source at most *)
LEMMA TouchKeeps ==
    ASSUME IInv, b' \in BuilderType, captured' \in [Sources -> Seq(SampleType)],
           UNCHANGED <<link, g>>, spent' \in SpentType, spent'.scope = spent.scope,
           HandOff(w', Held, captured'), b'.inbox = b.inbox,
           NEW s \in Sources, s \in spent.scope.sources \/ w'.open[s] = NoBlock,
           \A t \in Sources \ {s} : w'.open[t] = w.open[t] /\ (t \in b.rest => t \in b'.rest),
           w'.open[s] # NoBlock => ~w'.open[s].stale,
           EnoughSlots => w'.starved = w.starved,
           FlushInv', StagingInv'
    PROVE  IInv'
<1>1. TypeInv'
  BY DEF IInv, TypeInv, DashboardShape
<1>2. HandOff(w', Held', captured')
  BY DEF Held
<1>3. ScopeInv'
  BY DEF IInv, ScopeInv
<1>4. StagingNeverStarves'
  BY DEF IInv, StagingNeverStarves, EnoughSlots
<1>5. OpenBlocksArePublished'
  BY DEF IInv, OpenBlocksArePublished
<1> QED BY <1>1, <1>2, <1>3, <1>4, <1>5 DEF IInv

(* Every step of the builder, and the GUI thread's answer to it, keeps the
   invariant. *)
LEMMA BuilderPreserves ==
    ASSUME IInv, Builder \/ collectProjectSnapshot
    PROVE  IInv'
<1>1. /\ TypeInv /\ HandOff(w, Held, captured) /\ b \in BuilderType /\ DashboardShape
      /\ link \in [connected : BOOLEAN, paused : BOOLEAN] /\ spent \in SpentType
      /\ captured \in [Sources -> Seq(SampleType)]
      /\ spent.scope.sources \subseteq Sources
  BY DEF IInv, TypeInv, SpentType
<1>2. UNCHANGED g => DashboardShape' /\ g'.block = g.block /\ g'.newest = g.newest
  BY <1>1 DEF DashboardShape
<1>3. ASSUME NEW s \in Sources, OnFrame(s)
      PROVE  IInv'
  <2> DEFINE x == [source |-> s, masked |-> FALSE, flush |-> FALSE]
  <2>1. /\ b' = [b EXCEPT !.pc = "announce", !.staging = x] /\ s \in spent.scope.sources
        /\ UNCHANGED <<link, w, g, captured, spent>>
    BY <1>3 DEF OnFrame, MoreSamples
  <2>2. /\ x \in [source : Sources \cup {NoBlock}, masked : BOOLEAN, flush : BOOLEAN]
        /\ x.source = s /\ ~x.masked
    OBVIOUS
  <2> HIDE DEF x
  <2>3. /\ b' \in BuilderType /\ b'.pc = "announce" /\ b'.staging = x /\ b'.inbox = b.inbox
        /\ b'.rest = b.rest
    BY <1>1, <2>1, <2>2 DEF BuilderType
  <2>4. FlushInv' /\ StagingInv'
    BY <2>1, <2>2, <2>3 DEF FlushInv, StagingInv
  <2>5. OpenBlocksArePublished'
    BY <2>1, <2>3 DEF IInv, OpenBlocksArePublished
  <2> QED BY <1>2, <2>1, <2>3, <2>4, <2>5, MoveKeeps
<1>4. ASSUME NEW s \in Sources, NEW mask \in BOOLEAN, emitRepublishedFrame(s, mask)
      PROVE  IInv'
  <2> DEFINE x == [source |-> s, masked |-> mask, flush |-> TRUE]
  <2>1. /\ b' = [b EXCEPT !.pc = "announce", !.staging = x] /\ s \in spent.scope.sources
        /\ UNCHANGED <<link, g, captured, spent>> /\ w' = flush(w, s, FALSE)
    BY <1>4 DEF emitRepublishedFrame, MoreSamples
  <2>2. /\ x \in [source : Sources \cup {NoBlock}, masked : BOOLEAN, flush : BOOLEAN]
        /\ x.source = s
    OBVIOUS
  <2> HIDE DEF x
  <2>3. /\ b' \in BuilderType /\ b'.pc = "announce" /\ b'.staging = x /\ b'.inbox = b.inbox
        /\ b'.rest = b.rest
    BY <1>1, <2>1, <2>2 DEF BuilderType
  <2>4. HandOff(w', Held, captured) /\ Touches(w', w, s) /\ w'.open[s] = NoBlock
    BY <2>1, FlushStepKeeps
  <2>5. FlushInv' /\ StagingInv'
    BY <2>1, <2>2, <2>3, <2>4 DEF FlushInv, StagingInv
  <2> QED BY <1>1, <2>1, <2>3, <2>4, <2>5, TouchKeeps DEF Touches
<1>5. CASE AnnounceStructure
  <2> DEFINE p == b.published \cup {b.staging.source}
  <2>1. /\ b' = [b EXCEPT !.pc = "store", !.published = p] /\ b.pc = "announce"
        /\ UNCHANGED <<link, w, g, captured, spent>>
    BY <1>5 DEF AnnounceStructure
  <2>2. b.staging.source \in spent.scope.sources
    BY <2>1 DEF IInv, StagingInv
  <2>3. p \in SUBSET Sources
    BY <1>1, <2>2 DEF BuilderType
  <2> HIDE DEF p
  <2>4. /\ b' \in BuilderType /\ b'.pc = "store" /\ b'.staging = b.staging
        /\ b'.inbox = b.inbox /\ b'.rest = b.rest
    BY <1>1, <2>1, <2>3 DEF BuilderType
  <2>5. FlushInv' /\ StagingInv'
    BY <2>1, <2>4 DEF IInv, FlushInv, StagingInv
  <2>6. OpenBlocksArePublished'
    BY <2>1, <2>4 DEF IInv, OpenBlocksArePublished
  <2> QED BY <1>2, <2>1, <2>4, <2>5, <2>6, MoveKeeps
<1>6. CASE StoreSample
  <2> DEFINE s == b.staging.source
  <2>1. /\ b' = [b EXCEPT !.pc = "idle", !.staging = NoStaging] /\ b.pc = "store"
        /\ UNCHANGED <<link, g>>
    BY <1>6 DEF StoreSample
  <2>2. s \in spent.scope.sources
    BY <2>1 DEF IInv, StagingInv
  <2>3. /\ b' \in BuilderType /\ b'.pc = "idle" /\ b'.inbox = b.inbox /\ b'.rest = b.rest
    BY <1>1, <2>1 DEF BuilderType, NoStaging
  <2>4. spent' \in SpentType /\ spent'.scope = spent.scope
    <3> DEFINE n == spent.samples + 1
    <3>1. n \in Nat /\ (spent' = spent \/ spent' = [spent EXCEPT !.samples = n])
      BY <1>1, <1>6 DEF StoreSample, SpentType
    <3> HIDE DEF n
    <3> QED BY <1>1, <3>1 DEF SpentType
  <2>5. /\ HandOff(w', Held, captured')
        /\ captured' \in [Sources -> Seq(SampleType)]
        /\ \A t \in Sources \ {s} : w'.open[t] = w.open[t]
        /\ w'.open[s] # NoBlock => ~w'.open[s].stale
        /\ EnoughSlots => w'.starved = w.starved
    BY <1>6, StoreSampleKeeps
  <2>6. FlushInv' /\ StagingInv'
    BY <2>3 DEF FlushInv, StagingInv
  <2> HIDE DEF s
  <2> QED BY <1>1, <2>1, <2>2, <2>3, <2>4, <2>5, <2>6, TouchKeeps
<1>7. CASE HandlePosted
  BY <1>7, HandlePostedKeeps
<1>8. CASE FlushNext
  <2>1. PICK s \in b.rest :
           /\ w' = flush(w, s, FALSE)
           /\ b' = [b EXCEPT !.rest = @ \ {s}, !.pc = IF b.rest = {s} THEN b.after ELSE @]
    BY <1>8 DEF FlushNext
  <2>2. /\ b.pc = "flush" /\ s \in Sources /\ UNCHANGED <<link, g, captured, spent>>
    BY <1>1, <1>8 DEF FlushNext, BuilderType
  <2> DEFINE pc == IF b.rest = {s} THEN b.after ELSE b.pc
             rest == b.rest \ {s}
  <2>3. b' = [b EXCEPT !.rest = rest, !.pc = pc]
    BY <2>1
  <2>4. /\ pc \in {"flush", "idle", "edge", "pause"} /\ rest \in SUBSET Sources
        /\ pc = "flush" \/ rest = {}
    BY <1>1, <2>2 DEF BuilderType
  <2>5. s \notin rest /\ \A t \in b.rest : t # s => t \in rest
    OBVIOUS
  <2> HIDE DEF pc, rest
  <2>6. b' \in BuilderType /\ b'.pc = pc /\ b'.rest = rest /\ b'.inbox = b.inbox
    BY <1>1, <2>3, <2>4 DEF BuilderType
  <2>7. HandOff(w', Held, captured) /\ Touches(w', w, s) /\ w'.open[s] = NoBlock
    BY <2>1, <2>2, FlushStepKeeps
  <2>8. \A t \in Sources : w'.open[t] # NoBlock => t \in rest
    BY <2>2, <2>5, <2>7 DEF IInv, FlushInv, Touches
  <2>9. FlushInv' /\ StagingInv'
    BY <2>4, <2>6, <2>8 DEF FlushInv, StagingInv
  <2> QED BY <1>1, <2>2, <2>5, <2>6, <2>7, <2>9, TouchKeeps DEF Touches
<1>9. ASSUME b.pc \in {"edge", "pause"}, w' = Boundary(w), b' \in BuilderType,
             b'.pc \in {"idle", "paused"}, b'.inbox = b.inbox, b'.rest = b.rest,
             UNCHANGED <<link, g, captured, spent>>
      PROVE  IInv'
  <2>1. HandOff(w', Held, captured) /\ w'.open = w.open /\ w'.starved = w.starved
    BY <1>9, BoundaryKeeps
  <2>2. \A s \in Sources : w'.open[s] = NoBlock
    BY <1>9, <2>1 DEF IInv, FlushInv
  <2>3. PICK s \in Sources : TRUE
    BY BlockPipelineAssumptions
  <2>4. FlushInv' /\ StagingInv'
    BY <1>9 DEF FlushInv, StagingInv
  <2> QED BY <1>1, <1>9, <2>1, <2>2, <2>3, <2>4, TouchKeeps
<1>10. CASE LinkBoundary
  <2> DEFINE n == b.gen + 1
  <2>1. PICK p \in SUBSET Sources :
           b' = [b EXCEPT !.gen = n, !.pc = "paused", !.published = p]
    <3> DEFINE x == [invalidateFramePool(b) EXCEPT !.pc = "paused"]
               y == [b EXCEPT !.gen = n, !.published = {}, !.pc = "paused"]
    <3>1. x = y
      BY DEF invalidateFramePool
    <3>2. y.published = {}
      BY <1>1 DEF BuilderType
    <3>3. \/ b' = [y EXCEPT !.published = spent.scope.sources]
          \/ b' = [y EXCEPT !.published = y.published]
      BY <1>10, <3>1 DEF LinkBoundary
    <3> HIDE DEF x, n
    <3>4. \/ b' = [b EXCEPT !.gen = n, !.pc = "paused", !.published = spent.scope.sources]
          \/ b' = [b EXCEPT !.gen = n, !.pc = "paused", !.published = {}]
      BY <1>1, <3>2, <3>3 DEF BuilderType
    <3> QED BY <1>1, <3>4
  <2>2. n \in Nat
    BY <1>1 DEF BuilderType
  <2> HIDE DEF n
  <2>3. b' \in BuilderType /\ b'.pc = "paused" /\ b'.inbox = b.inbox /\ b'.rest = b.rest
    BY <1>1, <2>1, <2>2 DEF BuilderType
  <2>4. b.pc = "edge" /\ w' = Boundary(w) /\ UNCHANGED <<link, g, captured, spent>>
    BY <1>10 DEF LinkBoundary
  <2> QED BY <1>9, <2>3, <2>4
<1>11. CASE onPausedChanged
  <2>1. b.pc = "paused" /\ UNCHANGED <<link, w, g, captured, spent>>
    BY <1>11 DEF onPausedChanged
  <2>2. CASE link.paused = b.lastPaused
    <3>1. b' = [b EXCEPT !.pc = "idle"]
      BY <1>11, <2>2 DEF onPausedChanged
    <3>2. b' \in BuilderType /\ b'.pc = "idle" /\ b'.inbox = b.inbox /\ b'.rest = b.rest
      BY <1>1, <3>1 DEF BuilderType
    <3> QED BY <1>2, <2>1, <3>2, IdleMoveKeeps
  <2>3. CASE link.paused # b.lastPaused
    <3> DEFINE x == [b EXCEPT !.lastPaused = link.paused]
    <3>1. x \in BuilderType
      BY <1>1 DEF BuilderType
    <3>2. b' = flushAll(x, "pause")
      BY <1>11, <2>3 DEF onPausedChanged, emitSessionBoundary
    <3> HIDE DEF x
    <3> QED BY <2>1, <3>1, <3>2, FlushAllKeeps
  <2> QED BY <2>2, <2>3
<1>12. CASE PauseBoundary
  <2>1. /\ b.pc = "pause" /\ w' = Boundary(w) /\ b' = [b EXCEPT !.pc = "idle"]
        /\ UNCHANGED <<link, g, captured, spent>>
    BY <1>12 DEF PauseBoundary
  <2>2. b' \in BuilderType /\ b'.pc = "idle" /\ b'.inbox = b.inbox /\ b'.rest = b.rest
    BY <1>1, <2>1 DEF BuilderType
  <2> QED BY <1>9, <2>1, <2>2
<1>13. CASE applyProjectSnapshot
  <2> DEFINE n == b.gen + 1
  <2>1. /\ b' = [b EXCEPT !.gen = n, !.published = {}, !.pc = "idle"]
        /\ UNCHANGED <<link, w, captured, spent>>
    BY <1>13 DEF applyProjectSnapshot, invalidateFramePool
  <2>2. n \in Nat
    BY <1>1 DEF BuilderType
  <2> HIDE DEF n
  <2>3. b' \in BuilderType /\ b'.pc = "idle" /\ b'.inbox = b.inbox /\ b'.rest = b.rest
    BY <1>1, <2>1, <2>2 DEF BuilderType
  <2>4. DashboardShape' /\ g'.block = g.block /\ g'.newest = g.newest
    BY <1>1, <1>13 DEF applyProjectSnapshot, DashboardShape
  <2> QED BY <2>1, <2>3, <2>4, IdleMoveKeeps
<1>14. CASE collectProjectSnapshot
  <2>1. /\ b' = [b EXCEPT !.pc = "apply"] /\ UNCHANGED <<link, w, g, captured, spent>>
    BY <1>14 DEF collectProjectSnapshot
  <2>2. b' \in BuilderType /\ b'.pc = "apply" /\ b'.inbox = b.inbox /\ b'.rest = b.rest
    BY <1>1, <2>1 DEF BuilderType
  <2> QED BY <1>2, <2>1, <2>2, IdleMoveKeeps
<1> QED BY <1>3, <1>4, <1>5, <1>6, <1>7, <1>8, <1>10, <1>11, <1>12, <1>13, <1>14 DEF Builder

-----------------------------------------------------------------------------
(* The theorems *)

(* The invariant holds at first. *)
LEMMA InitIInv == Init => IInv
<1> SUFFICES ASSUME Init
             PROVE  IInv
  OBVIOUS
<1>1. /\ \A s \in Sources : w.open[s] = NoBlock
      /\ w.blocks = <<>> /\ w.session = 0 /\ w.starved = FALSE
      /\ \A s \in Sources : w.recorded[s] = <<>> /\ captured[s] = <<>>
      /\ w.open = [s \in Sources |-> NoBlock]
      /\ w.recorded = [s \in Sources |-> <<>>]
      /\ w = [open |-> w.open, blocks |-> <<>>, recorded |-> w.recorded, session |-> 0,
              starved |-> FALSE]
      /\ captured = [s \in Sources |-> <<>>]
  BY DEF Init
<1>2. TypeInv
  <2>1. b \in BuilderType
    BY DEF Init, BuilderType, NoStaging
  <2>2. DashboardShape
    BY DEF Init, DashboardShape
  <2>3. spent \in SpentType
    <3>1. PICK scope \in Scopes : spent = [scope |-> scope, samples |-> 0, edges |-> 0, syncs |-> 0]
      BY DEF Init
    <3>2. scope \in [sources : SUBSET Sources, samples : Nat, edges : Nat, syncs : Nat]
      BY BlockPipelineAssumptions
    <3> QED BY <3>1, <3>2 DEF SpentType
  <2>4. captured \in [Sources -> Seq(SampleType)]
    BY <1>1
  <2>5. link \in [connected : BOOLEAN, paused : BOOLEAN]
    BY DEF Init
  <2> QED BY <2>1, <2>2, <2>3, <2>4, <2>5 DEF TypeInv
<1>3. HandOff(w, Held, captured)
  <2>1. w \in HandOffType
    <3> DEFINE o == w.open
               r == w.recorded
    <3>1. o \in [Sources -> BlockType \cup {NoBlock}] /\ r \in [Sources -> Seq(EntryType)]
      BY <1>1
    <3>2. /\ <<>> \in Seq(BlockType) /\ 0 \in Nat /\ FALSE \in BOOLEAN
          /\ w = [open |-> o, blocks |-> <<>>, recorded |-> r, session |-> 0, starved |-> FALSE]
      BY <1>1
    <3> HIDE DEF o, r
    <3> QED BY <3>1, <3>2 DEF HandOffType
  <2>2. Len(w.blocks) <= BlockRingSize /\ DOMAIN w.blocks = {}
    BY <1>1, BlockPipelineAssumptions
  <2>3. Exclusive(w, Held) /\ Current(w)
    BY <1>1, <2>2 DEF Exclusive, Current
  <2>4. Exact(w, captured)
    <3>1. SamplesOf(<<>>) = <<>>
      <4>1. <<>> \in Seq(EntryType) /\ Len(<<>>) = 0
        OBVIOUS
      <4> DEFINE p == SamplesOf(<<>>)
      <4> HIDE DEF p
      <4>2. p \in Seq(SampleType) /\ Len(p) = 0
        <5>1. /\ p \in Seq(SampleType) /\ Len(p) = Len(<<>>)
          BY <4>1, SamplesShape DEF p
        <5> QED BY <4>1, <5>1
      <4>3. p = <<>>
        BY <4>2, EmptySeq
      <4> QED BY <4>3 DEF p
    <3>2. <<>> \o <<>> = <<>>
      OBVIOUS
    <3> QED BY <1>1, <3>1, <3>2 DEF Exact, OpenOf, Unmasked
  <2>5. InSession(w)
    BY <1>1 DEF InSession
  <2> QED BY <2>1, <2>2, <2>3, <2>4, <2>5 DEF HandOff
<1>4. FlushInv /\ StagingInv
  BY DEF Init, FlushInv, StagingInv
<1>5. ScopeInv /\ OpenBlocksArePublished /\ StagingNeverStarves
  BY <1>1 DEF ScopeInv, OpenBlocksArePublished, StagingNeverStarves
<1> QED BY <1>2, <1>3, <1>4, <1>5 DEF IInv

(* Every step keeps it. *)
LEMMA NextIInv == IInv /\ [Next]_vars => IInv'
<1> SUFFICES ASSUME IInv, [Next]_vars
             PROVE  IInv'
  OBVIOUS
<1>1. CASE UNCHANGED vars
  <2>1. Held' = Held
    BY <1>1 DEF vars, Held
  <2>2. TypeInv' /\ HandOff(w', Held', captured')
    BY <1>1, <2>1 DEF IInv, TypeInv, DashboardShape, vars
  <2>3. FlushInv' /\ StagingInv' /\ ScopeInv'
    BY <1>1 DEF IInv, FlushInv, StagingInv, ScopeInv, vars
  <2>4. OpenBlocksArePublished' /\ StagingNeverStarves'
    BY <1>1 DEF IInv, OpenBlocksArePublished, StagingNeverStarves, vars
  <2> QED BY <2>2, <2>3, <2>4 DEF IInv
<1>2. CASE Next
  BY <1>2, BuilderPreserves, GuiPreserves DEF Next
<1> QED BY <1>1, <1>2

(* It holds always. *)
LEMMA IInvHolds == Spec => []IInv
<1> QED BY InitIInv, NextIInv, PTL DEF Spec

(* What the invariant says of the slots, in the words of the property *)
LEMMA ExclusiveSlots ==
    ASSUME TypeInv, w \in HandOffType, Exclusive(w, Held)
    PROVE  SlotsAreExclusive
<1> DEFINE queued == [i \in DOMAIN w.blocks |-> w.blocks[i].slot]
           held == SlotsOf({g.block, g.newest})
<1>1. \A x \in held : \E h \in Held \ {NoBlock} : x = h.slot
  BY DEF SlotsOf, Held
<1>2. \A x \in Range(queued) : \E i \in DOMAIN w.blocks : x = w.blocks[i].slot
  BY DEF Range
<1>3. IsInjective(queued)
  BY DEF IsInjective, Exclusive
<1>4. Range(queued) \cap held = {}
  BY <1>1, <1>2 DEF Exclusive
<1>5. ASSUME NEW s \in Sources, w.open[s] # NoBlock
      PROVE  /\ w.open[s].slot \notin Range(queued) \cup held
             /\ w.open[s].slot \notin SlotsOf({w.open[t] : t \in Sources \ {s}})
  <2>1. \A x \in SlotsOf({w.open[t] : t \in Sources \ {s}}) :
           \E t \in Sources \ {s} : w.open[t] # NoBlock /\ x = w.open[t].slot
    BY DEF SlotsOf
  <2> QED BY <1>1, <1>2, <1>5, <2>1 DEF Exclusive
<1> QED BY <1>3, <1>4, <1>5 DEF SlotsAreExclusive

(* A slot is in one place at a time: open for one source, queued once, or in the
   dashboard's hands.  free() counts what BlockStager::claimSlot sees of the
   reference counts. *)
THEOREM SlotsCorrect == Spec => []SlotsAreExclusive
<1>1. IInv => SlotsAreExclusive
  BY ExclusiveSlots DEF IInv, HandOff
<1> QED BY <1>1, IInvHolds, PTL

(* Each recording, with what is still in its source's open block, is exactly what
   was captured, whatever is masked, flushed, announced or reconnected. *)
THEOREM RecordingCorrect == Spec => []RecordingIsExact
<1>1. IInv => RecordingIsExact
  BY Zenon DEF IInv, HandOff, Exact, OpenOf, Unmasked, RecordingIsExact, OpenSamples
<1> QED BY <1>1, IInvHolds, PTL

(* A recorded sample was staged in the session of the file that took it
   (FrameBuilder::emitSessionBoundary flushes first). *)
THEOREM SessionsCorrect == Spec => []SamplesStayInTheirSession
<1>1. IInv => SamplesStayInTheirSession
  BY DEF IInv, HandOff, InSession, SamplesStayInTheirSession
<1> QED BY <1>1, IInvHolds, PTL

(* A block a display tick found open has a flush on its way (the tick posts
   flushOpenBlocks after it moves the epoch). *)
THEOREM PublishedCorrect == Spec => []OpenBlocksArePublished
<1>1. IInv => OpenBlocksArePublished
  BY DEF IInv
<1> QED BY <1>1, IInvHolds, PTL

(* The pool of BlockStager suffices for a full ring, a block open for every source
   and two in the dashboard's hands. *)
THEOREM StagingCorrect == Spec => []StagingNeverStarves
<1>1. IInv => StagingNeverStarves
  BY DEF IInv
<1> QED BY <1>1, IInvHolds, PTL

-----------------------------------------------------------------------------
(***************************************************************************)
(* What the dashboard shows.                                               *)
(*                                                                         *)
(* The widgets of a source only move forward, and only to samples of the   *)
(* layout the dashboard holds, whatever blocks are dropped on the way.      *)
(*                                                                         *)
(* The blocks that may still be shown form a trail: the newest one the      *)
(* dashboard passed over, the ring, the open blocks.  Every sample on it is *)
(* later than what its source shows, and the blocks of a source follow one  *)
(* another, so a block may be dropped anywhere and the rest is still one.   *)
(***************************************************************************)

(* The trail *)

(* A block whose samples are later than what its source shows, up to the number n,
   and of the block's layout. *)
Waits(x, past, n) ==
    /\ x.samples # <<>>
    /\ \A i \in DOMAIN x.samples :
          /\ x.samples[i].gen = x.gen
          /\ past[x.source].id < x.samples[i].id /\ x.samples[i].id <= n

(* The samples of x are earlier than those of y, if they are of one source. *)
Before(x, y) ==
    x.source = y.source =>
        \A i \in DOMAIN x.samples, j \in DOMAIN y.samples : x.samples[i].id < y.samples[j].id

(* c: the block passed over, or none *)
Trail(u, c, past, n) ==
    /\ c # NoBlock => /\ Waits(c, past, n)
                      /\ \A i \in DOMAIN u.blocks : Before(c, u.blocks[i])
                      /\ \A s \in Sources : u.open[s] # NoBlock => Before(c, u.open[s])
    /\ \A i \in DOMAIN u.blocks :
          /\ Waits(u.blocks[i], past, n)
          /\ \A j \in DOMAIN u.blocks : i < j => Before(u.blocks[i], u.blocks[j])
          /\ \A s \in Sources : u.open[s] # NoBlock => Before(u.blocks[i], u.open[s])
    /\ \A s \in Sources : u.open[s] # NoBlock => Waits(u.open[s], past, n)

(* The block the dashboard passed over last: in its hands, or already kept. *)
PassedOver == IF g.pc = "keep" THEN g.block ELSE g.newest

(* The numbers of what is shown *)
Seen(past, n) == \A s \in Sources : past[s].id \in Nat /\ past[s].id <= n

(* Nothing is passed over within the time budget. *)
DisplayInv ==
    /\ shown \in [Sources -> SampleType \cup {NoSample}]
    /\ Seen(shown, spent.samples)
    /\ ~g.over => PassedOver = NoBlock
    /\ Trail(w, PassedOver, shown, spent.samples)

(* A flushed block leaves its place and may enter the ring last. *)
LEMMA FlushTrail ==
    ASSUME NEW u, NEW c, NEW past, NEW n, NEW s \in Sources, NEW mask \in BOOLEAN,
           u \in HandOffType, Len(u.blocks) <= BlockRingSize, Current(u),
           Trail(u, c, past, n), NEW v, v = flush(u, s, mask)
    PROVE  Trail(v, c, past, n)
<1>1. CASE u.open[s] = NoBlock
  BY <1>1 DEF flush
<1>2. CASE u.open[s] # NoBlock
  <2> DEFINE block == u.open[s]
  <2>1. block.source = s /\ Waits(block, past, n)
    BY <1>2 DEF Current, Trail
  <2>2. FlushedFrom(v, u, s, mask)
    BY <1>2, <2>1, FlushShape
  <2>3. /\ u.open \in [Sources -> BlockType \cup {NoBlock}]
        /\ u.blocks \in Seq(BlockType) /\ Len(u.blocks) \in Nat
        /\ DOMAIN u.blocks = 1 .. Len(u.blocks) /\ block \in BlockType
    BY <1>2 DEF HandOffType
  <2>4. \A t \in Sources : v.open[t] # NoBlock =>
            /\ v.open[t] = u.open[t] /\ u.open[t] # NoBlock
            /\ Before(block, v.open[t])
    <3> TAKE t \in Sources
    <3> HAVE v.open[t] # NoBlock
    <3>1. t # s /\ v.open[t] = u.open[t]
      BY <2>2, <2>3 DEF FlushedFrom
    <3>2. v.open[t].source # block.source
      BY <2>1, <3>1 DEF Current
    <3> QED BY <3>1, <3>2 DEF Before
  <2>5. CASE v.blocks = u.blocks
    BY <2>4, <2>5 DEF Trail
  <2>6. CASE v.blocks = Append(u.blocks, block)
    <3> DEFINE m == Len(u.blocks) + 1
    <3>1. /\ DOMAIN v.blocks = 1 .. m /\ m \in Nat /\ v.blocks[m] = block
          /\ \A i \in 1 .. m : i # m => i \in DOMAIN u.blocks /\ v.blocks[i] = u.blocks[i]
          /\ \A i, j \in 1 .. m : i < j => i # m
      BY <2>3, <2>6
    <3> HIDE DEF m
    <3>2. \A i \in DOMAIN u.blocks : Before(u.blocks[i], block)
      BY <1>2 DEF Trail
    <3>3. c # NoBlock => Waits(c, past, n) /\ Before(c, block)
      BY <1>2 DEF Trail
    <3>4. c # NoBlock => /\ Waits(c, past, n)
                         /\ \A i \in DOMAIN v.blocks : Before(c, v.blocks[i])
                         /\ \A t \in Sources : v.open[t] # NoBlock => Before(c, v.open[t])
      BY <2>4, <3>1, <3>3 DEF Trail
    <3>5. ASSUME NEW i \in DOMAIN v.blocks
          PROVE  /\ Waits(v.blocks[i], past, n)
                 /\ \A j \in DOMAIN v.blocks : i < j => Before(v.blocks[i], v.blocks[j])
                 /\ \A t \in Sources : v.open[t] # NoBlock => Before(v.blocks[i], v.open[t])
      <4>1. CASE i = m
        BY <2>1, <2>4, <3>1, <4>1
      <4>2. CASE i # m
        <5>1. i \in DOMAIN u.blocks /\ v.blocks[i] = u.blocks[i]
          BY <3>1, <4>2
        <5>2. ASSUME NEW j \in DOMAIN v.blocks, i < j
              PROVE  Before(v.blocks[i], v.blocks[j])
          <6>1. CASE j = m
            BY <3>1, <3>2, <5>1, <6>1
          <6>2. CASE j # m
            BY <3>1, <5>1, <5>2, <6>2 DEF Trail
          <6> QED BY <6>1, <6>2
        <5>3. Waits(v.blocks[i], past, n)
          BY <5>1 DEF Trail
        <5>4. \A t \in Sources : v.open[t] # NoBlock => Before(v.blocks[i], v.open[t])
          BY <2>4, <5>1 DEF Trail
        <5> QED BY <5>2, <5>3, <5>4
      <4> QED BY <4>1, <4>2
    <3>6. \A t \in Sources : v.open[t] # NoBlock => Waits(v.open[t], past, n)
      BY <2>4 DEF Trail
    <3> QED BY <3>4, <3>5, <3>6 DEF Trail
  <2> QED BY <2>2, <2>5, <2>6 DEF FlushedFrom
<1> QED BY <1>1, <1>2

(* A block taken from x: each of its samples is one of x, or was staged after n. *)
Extends(y, x, n, m) ==
    /\ y.samples # <<>>
    /\ \A j \in DOMAIN y.samples :
          /\ y.samples[j].gen = y.gen
          /\ y.samples[j].id \in Nat /\ y.samples[j].id <= m
          /\ \/ n < y.samples[j].id
             \/ /\ x # NoBlock /\ x.source = y.source
                /\ \E i \in DOMAIN x.samples : x.samples[i].id = y.samples[j].id

(* The numbers of a block *)
LEMMA BlockNumbers ==
    ASSUME NEW x \in BlockType
    PROVE  x.source \in Sources /\ \A i \in DOMAIN x.samples : x.samples[i].id \in Nat
<1>1. x.samples \in Seq(SampleType) /\ x.source \in Sources
  BY DEF BlockType
<1>2. \A i \in DOMAIN x.samples : x.samples[i] \in SampleType
  BY <1>1, ElementOfSeq
<1> QED BY <1>1, <1>2 DEF SampleType

(* A block that waits does so under a later number. *)
LEMMA WaitsLonger ==
    ASSUME NEW x \in BlockType, NEW past, NEW n \in Nat, NEW m \in Nat, n <= m,
           Waits(x, past, n)
    PROVE  Waits(x, past, m)
<1>1. \A i \in DOMAIN x.samples : x.samples[i].id \in Nat
  BY BlockNumbers
<1> QED BY <1>1 DEF Waits

(* What comes before a block also comes before what is taken from it. *)
LEMMA BeforeExtended ==
    ASSUME NEW z \in BlockType, NEW past, NEW n \in Nat, Waits(z, past, n),
           NEW x \in BlockType \cup {NoBlock}, x # NoBlock => Before(z, x),
           NEW m, NEW y, Extends(y, x, n, m)
    PROVE  Before(z, y)
<1> SUFFICES ASSUME z.source = y.source, NEW i \in DOMAIN z.samples, NEW j \in DOMAIN y.samples
             PROVE  z.samples[i].id < y.samples[j].id
  BY DEF Before
<1>1. z.samples[i].id \in Nat /\ y.samples[j].id \in Nat
  BY BlockNumbers DEF Extends
<1>2. CASE n < y.samples[j].id
  <2>1. z.samples[i].id <= n
    BY DEF Waits
  <2> QED BY <1>1, <1>2, <2>1
<1>3. CASE /\ x # NoBlock /\ x.source = y.source
           /\ \E k \in DOMAIN x.samples : x.samples[k].id = y.samples[j].id
  BY <1>3 DEF Before
<1> QED BY <1>2, <1>3 DEF Extends

(* What is taken from a waiting block, or from none, waits. *)
LEMMA ExtendedWaits ==
    ASSUME NEW past, NEW n \in Nat, NEW m \in Nat, n <= m, Seen(past, n),
           NEW x \in BlockType \cup {NoBlock}, x # NoBlock => Waits(x, past, n),
           NEW y \in BlockType, Extends(y, x, n, m)
    PROVE  Waits(y, past, m)
<1> SUFFICES ASSUME NEW j \in DOMAIN y.samples
             PROVE  past[y.source].id < y.samples[j].id
  BY DEF Waits, Extends
<1>1. /\ y.samples[j].id \in Nat /\ past[y.source].id \in Nat /\ past[y.source].id <= n
  BY BlockNumbers DEF Seen
<1>2. CASE n < y.samples[j].id
  BY <1>1, <1>2
<1>3. CASE /\ x # NoBlock /\ x.source = y.source
           /\ \E k \in DOMAIN x.samples : x.samples[k].id = y.samples[j].id
  BY <1>3 DEF Waits
<1> QED BY <1>2, <1>3 DEF Extends

(* The open blocks may take later samples. *)
LEMMA GrowTrail ==
    ASSUME NEW u \in HandOffType, NEW c \in BlockType \cup {NoBlock}, NEW past,
           NEW n \in Nat, NEW m \in Nat, n <= m, Seen(past, n), Trail(u, c, past, n),
           NEW v \in HandOffType, v.blocks = u.blocks,
           \A s \in Sources : v.open[s] # NoBlock => Extends(v.open[s], u.open[s], n, m)
    PROVE  Trail(v, c, past, m)
<1>1. /\ \A i \in DOMAIN u.blocks : u.blocks[i] \in BlockType
      /\ \A s \in Sources : /\ u.open[s] \in BlockType \cup {NoBlock}
                            /\ v.open[s] \in BlockType \cup {NoBlock}
  BY ElementOfSeq DEF HandOffType
<1>2. c # NoBlock => /\ Waits(c, past, m)
                     /\ \A i \in DOMAIN v.blocks : Before(c, v.blocks[i])
                     /\ \A s \in Sources : v.open[s] # NoBlock => Before(c, v.open[s])
  <2> HAVE c # NoBlock
  <2>1. Waits(c, past, n)
    BY DEF Trail
  <2>2. ASSUME NEW s \in Sources, v.open[s] # NoBlock
        PROVE  Before(c, v.open[s])
    <3>1. u.open[s] # NoBlock => Before(c, u.open[s])
      BY DEF Trail
    <3>2. Extends(v.open[s], u.open[s], n, m)
      BY <2>2
    <3> QED BY <1>1, <2>1, <3>1, <3>2, BeforeExtended
  <2>3. \A i \in DOMAIN v.blocks : Before(c, v.blocks[i])
    BY DEF Trail
  <2>4. Waits(c, past, m)
    BY <2>1, WaitsLonger
  <2> QED BY <2>2, <2>3, <2>4
<1>3. ASSUME NEW i \in DOMAIN v.blocks
      PROVE  /\ Waits(v.blocks[i], past, m)
             /\ \A j \in DOMAIN v.blocks : i < j => Before(v.blocks[i], v.blocks[j])
             /\ \A s \in Sources : v.open[s] # NoBlock => Before(v.blocks[i], v.open[s])
  <2> DEFINE z == u.blocks[i]
  <2>1. z \in BlockType /\ Waits(z, past, n) /\ v.blocks[i] = z
    BY <1>1, <1>3 DEF Trail
  <2>2. ASSUME NEW s \in Sources, v.open[s] # NoBlock
        PROVE  Before(z, v.open[s])
    <3>1. u.open[s] # NoBlock => Before(z, u.open[s])
      BY <1>3 DEF Trail
    <3>2. Extends(v.open[s], u.open[s], n, m)
      BY <2>2
    <3> HIDE DEF z
    <3> QED BY <1>1, <2>1, <3>1, <3>2, BeforeExtended
  <2>3. \A j \in DOMAIN v.blocks : i < j => Before(z, v.blocks[j])
    BY <1>3 DEF Trail
  <2> HIDE DEF z
  <2>4. Waits(z, past, m)
    BY <2>1, WaitsLonger
  <2> QED BY <2>1, <2>2, <2>3, <2>4
<1>4. ASSUME NEW s \in Sources, v.open[s] # NoBlock
      PROVE  Waits(v.open[s], past, m)
  <2>1. u.open[s] # NoBlock => Waits(u.open[s], past, n)
    BY DEF Trail
  <2>2. Extends(v.open[s], u.open[s], n, m)
    BY <1>4
  <2> QED BY <1>1, <1>4, <2>1, <2>2, ExtendedWaits
<1> QED BY <1>2, <1>3, <1>4 DEF Trail

(* A block that stays open as it is. *)
LEMMA StaysExtended ==
    ASSUME NEW x \in BlockType, NEW past, NEW n \in Nat, NEW m \in Nat, n <= m,
           Waits(x, past, n)
    PROVE  Extends(x, x, n, m)
<1>1. \A i \in DOMAIN x.samples : x.samples[i].id \in Nat
  BY BlockNumbers
<1> QED BY <1>1, NoBlockAssumption DEF Waits, Extends

(* A sample of the block's layout enters it. *)
LEMMA AppendExtends ==
    ASSUME NEW x \in BlockType, NEW past, NEW n \in Nat,
           x.samples = <<>> \/ Waits(x, past, n),
           NEW e \in SampleType, e.id = n + 1, e.gen = x.gen,
           NEW y, y.source = x.source, y.gen = x.gen, y.samples = Append(x.samples, e)
    PROVE  Extends(y, x, n, n + 1)
<1> DEFINE q == x.samples
           k == Len(q) + 1
<1>1. q \in Seq(SampleType) /\ Len(q) \in Nat /\ DOMAIN q = 1 .. Len(q)
  BY DEF BlockType
<1>2. /\ DOMAIN y.samples = 1 .. k /\ k \in Nat /\ k >= 1 /\ y.samples[k] = e
      /\ \A i \in 1 .. k : i # k => i \in DOMAIN q /\ y.samples[i] = q[i]
      /\ y.samples # <<>>
  BY <1>1
<1>3. \A i \in DOMAIN q : q[i].id \in Nat
  BY BlockNumbers
<1>4. \A i \in DOMAIN q : q[i].gen = x.gen /\ q[i].id <= n
  BY <1>1 DEF Waits
<1> HIDE DEF k
<1>5. ASSUME NEW j \in DOMAIN y.samples
      PROVE  /\ y.samples[j].gen = y.gen
             /\ y.samples[j].id \in Nat /\ y.samples[j].id <= n + 1
             /\ \/ n < y.samples[j].id
                \/ /\ x # NoBlock /\ x.source = y.source
                   /\ \E i \in DOMAIN x.samples : x.samples[i].id = y.samples[j].id
  <2>1. CASE j = k
    BY <1>2, <2>1
  <2>2. CASE j # k
    <3>1. j \in DOMAIN q /\ y.samples[j] = q[j]
      BY <1>2, <2>2
    <3> QED BY <1>3, <1>4, <3>1, NoBlockAssumption
  <2> QED BY <2>1, <2>2
<1> QED BY <1>2, <1>5 DEF Extends

-----------------------------------------------------------------------------
(* The steps of the builder *)

(* A sample is stored in the block that was open, or in a fresh one. *)
LEMMA StoreTrail ==
    ASSUME NEW t \in HandOffType, NEW c \in BlockType \cup {NoBlock}, NEW past,
           NEW n \in Nat, Seen(past, n), Trail(t, c, past, n),
           NEW u, NEW held, NEW taken \in [Sources -> Seq(SampleType)], HandOff(u, held, taken),
           NEW s \in Sources, NEW mask \in BOOLEAN, IsOpen(u, s, mask), u.blocks = t.blocks,
           \A r \in Sources \ {s} : u.open[r] = t.open[r],
           u.open[s] = t.open[s] \/ u.open[s].samples = <<>>,
           Staged \in SampleType, Staged.id = n + 1, Staged.gen = u.open[s].gen,
           Staged.session = u.session,
           NEW v, v = storeSample(u, s, mask)
    PROVE  Trail(v, c, past, n + 1)
<1> DEFINE e == Staged
           x == [u EXCEPT !.open[s].samples = Append(@, e)]
           old == u.open[s]
           full == Len(x.open[s].samples) >= SampleCap \/ x.open[s].stale
           kept == Taken(taken, s, mask, e)
<1>1. v = IF full THEN flush(x, s, mask) ELSE x
  BY DEF storeSample
<1>2. Appends(x, u, s, e)
  BY DEF Appends
<1>3. /\ u \in HandOffType /\ old \in BlockType /\ old # NoBlock /\ old.source = s
      /\ u.open \in [Sources -> BlockType \cup {NoBlock}]
  BY DEF HandOff, HandOffType, Current, IsOpen
<1>4. /\ x.blocks = u.blocks
      /\ \A r \in Sources \ {s} : x.open[r] = u.open[r]
      /\ x.open[s].source = old.source /\ x.open[s].gen = old.gen
      /\ x.open[s].samples = Append(old.samples, e)
  <2> DEFINE block == [old EXCEPT !.samples = Append(@, e)]
             o == [u.open EXCEPT ![s] = block]
  <2>1. x = [u EXCEPT !.open = o]
    OBVIOUS
  <2>2. o[s] = block /\ \A r \in Sources \ {s} : o[r] = u.open[r]
    BY <1>3
  <2>3. /\ block.source = old.source /\ block.gen = old.gen
        /\ block.samples = Append(old.samples, e)
    BY <1>3 DEF BlockType
  <2> HIDE DEF block, o, x
  <2>4. x.open = o /\ x.blocks = u.blocks
    BY <1>3, <2>1 DEF HandOffType
  <2> QED BY <2>2, <2>3, <2>4
<1> HIDE DEF x, full
<1>5. HandOff(x, held, kept)
  BY <1>2, AppendKeeps
<1>6. Trail(x, c, past, n + 1)
  <2>1. x \in HandOffType /\ n + 1 \in Nat /\ n <= n + 1 /\ x.blocks = t.blocks
    BY <1>4, <1>5 DEF HandOff
  <2>2. \A r \in Sources : t.open[r] \in BlockType \cup {NoBlock}
    BY DEF HandOffType
  <2>3. Extends(x.open[s], t.open[s], n, n + 1)
    <3>1. CASE old = t.open[s]
      <4>1. Waits(old, past, n)
        BY <1>3, <3>1 DEF Trail
      <4> HIDE DEF old, e
      <4>2. Extends(x.open[s], old, n, n + 1)
        BY <1>3, <1>4, <4>1, AppendExtends DEF old, e
      <4> QED BY <3>1, <4>2
    <3>2. CASE old.samples = <<>>
      <4>1. Extends(x.open[s], old, n, n + 1)
        BY <1>3, <1>4, <3>2, AppendExtends
      <4>2. DOMAIN old.samples = {}
        BY <3>2
      <4> QED BY <4>1, <4>2 DEF Extends
    <3> QED BY <3>1, <3>2
  <2>4. ASSUME NEW r \in Sources, x.open[r] # NoBlock
        PROVE  Extends(x.open[r], t.open[r], n, n + 1)
    <3>1. CASE r = s
      BY <2>3, <3>1
    <3>2. CASE r # s
      <4>1. x.open[r] = t.open[r] /\ t.open[r] \in BlockType /\ Waits(t.open[r], past, n)
        BY <1>4, <2>2, <2>4, <3>2 DEF Trail
      <4> QED BY <2>1, <4>1, StaysExtended
    <3> QED BY <3>1, <3>2
  <2> QED BY <2>1, <2>4, GrowTrail
<1>7. x \in HandOffType /\ Len(x.blocks) <= BlockRingSize /\ Current(x)
  BY <1>5 DEF HandOff
<1>8. CASE full
  <2>1. v = flush(x, s, mask)
    BY <1>1, <1>8
  <2> QED BY <1>6, <1>7, <2>1, FlushTrail
<1>9. CASE ~full
  BY <1>1, <1>6, <1>9
<1> QED BY <1>8, <1>9

(* The builder stores a sample, or finds no slot for it. *)
LEMMA StoreSampleTrail ==
    ASSUME IInv, StoreSample, NEW c \in BlockType \cup {NoBlock}, NEW past,
           Seen(past, spent.samples), Trail(w, c, past, spent.samples)
    PROVE  Trail(w', c, past, spent'.samples) /\ Seen(past, spent'.samples)
<1> DEFINE s == b.staging.source
           mask == b.staging.masked
           n == spent.samples
           u0 == IF reusable(w, s, mask) THEN w ELSE flush(w, s, mask)
           done(u) == IF b.staging.flush THEN flush(u, s, mask) ELSE u
<1>1. /\ s \in Sources /\ mask \in BOOLEAN /\ TypeInv
      /\ captured \in [Sources -> Seq(SampleType)]
      /\ n \in Nat /\ spent \in SpentType
      /\ mask => w.open[s] = NoBlock \/ w.open[s].masked
  BY DEF IInv, StagingInv, TypeInv, BuilderType, SpentType, StoreSample
<1>2. /\ HandOff(w, Held, captured) /\ w \in HandOffType
      /\ Len(w.blocks) <= BlockRingSize /\ Current(w)
      /\ Staged \in SampleType /\ Staged.session = w.session
      /\ Staged.id = n + 1 /\ Staged.gen = b.gen
  BY StagedShape DEF IInv, HandOff, Staged
<1>3. \/ /\ reusable(w, s, mask)
         /\ w' = done(storeSample(w, s, mask)) /\ spent' = [spent EXCEPT !.samples = @ + 1]
      \/ /\ ~reusable(w, s, mask)
         /\ \E k \in claimSlot(u0) : w' = done(storeSample(openSlot(u0, s, k, mask), s, mask))
         /\ spent' = [spent EXCEPT !.samples = @ + 1]
      \/ /\ ~reusable(w, s, mask) /\ claimSlot(u0) = {}
         /\ w' = [u0 EXCEPT !.starved = TRUE] /\ spent' = spent
  BY DEF StoreSample
<1>4. u0 = IF reusable(w, s, mask) THEN w ELSE flush(w, s, mask)
  OBVIOUS
<1>5. \A u : done(u) = IF b.staging.flush THEN flush(u, s, mask) ELSE u
  OBVIOUS
<1>6. spent' = [spent EXCEPT !.samples = @ + 1] => spent'.samples = n + 1
  BY <1>1 DEF SpentType
<1>7. Seen(past, n + 1)
  BY <1>1 DEF Seen
<1> HIDE DEF s, mask, n, u0, done
<1>8. ASSUME NEW t \in HandOffType, Trail(t, c, past, n),
             NEW u, HandOff(u, Held, captured), IsOpen(u, s, mask), u.blocks = t.blocks,
             \A r \in Sources \ {s} : u.open[r] = t.open[r],
             u.open[s] = t.open[s] \/ u.open[s].samples = <<>>,
             u.open[s].gen = b.gen, u.session = w.session,
             w' = done(storeSample(u, s, mask))
      PROVE  Trail(w', c, past, n + 1)
  <2> DEFINE v == storeSample(u, s, mask)
  <2>1. Trail(v, c, past, n + 1)
    BY <1>1, <1>2, <1>8, StoreTrail DEF n
  <2>2. HandOff(v, Held, Taken(captured, s, mask, Staged))
    BY <1>1, <1>2, <1>8, StoreKeeps
  <2>3. w' = IF b.staging.flush THEN flush(v, s, mask) ELSE v
    BY <1>5, <1>8
  <2> HIDE DEF v
  <2>4. v \in HandOffType /\ Len(v.blocks) <= BlockRingSize /\ Current(v)
    BY <2>2 DEF HandOff
  <2>5. CASE b.staging.flush
    <3>1. w' = flush(v, s, mask)
      BY <2>3, <2>5
    <3> QED BY <1>1, <2>1, <2>4, <3>1, FlushTrail
  <2>6. CASE ~b.staging.flush
    BY <2>1, <2>3, <2>6
  <2> QED BY <2>5, <2>6
<1>9. Trail(w, c, past, n)
  BY DEF n
<1>10. CASE reusable(w, s, mask)
  <2>1. /\ w' = done(storeSample(w, s, mask)) /\ spent' = [spent EXCEPT !.samples = @ + 1]
    BY <1>3, <1>10
  <2>2. IsOpen(w, s, mask) /\ w.open[s].gen = b.gen
    BY <1>10 DEF reusable, IsOpen
  <2>3. Trail(w', c, past, n + 1)
    BY <1>2, <1>8, <1>9, <2>1, <2>2
  <2> QED BY <1>6, <1>7, <2>1, <2>3
<1>11. CASE ~reusable(w, s, mask)
  <2>1. u0 = flush(w, s, mask)
    BY <1>4, <1>11
  <2>2. Flushes(u0, w, s, mask)
    BY <1>1, <2>1 DEF Flushes
  <2>3. HandOff(u0, Held, captured) /\ Touches(u0, w, s) /\ u0.open[s] = NoBlock
    BY <1>1, <1>2, <2>2, FlushKeeps
  <2>4. Trail(u0, c, past, n) /\ u0 \in HandOffType
    BY <1>1, <1>2, <1>9, <2>1, <2>3, FlushTrail DEF HandOff
  <2>5. CASE /\ \E k \in claimSlot(u0) :
                   w' = done(storeSample(openSlot(u0, s, k, mask), s, mask))
             /\ spent' = [spent EXCEPT !.samples = @ + 1]
    <3>1. PICK k \in claimSlot(u0) : w' = done(storeSample(openSlot(u0, s, k, mask), s, mask))
      BY <2>5
    <3> DEFINE u == openSlot(u0, s, k, mask)
    <3>2. Opens(u, u0, s, mask)
      BY <2>3 DEF Opens
    <3>3. /\ u.blocks = u0.blocks /\ u.open[s].samples = <<>> /\ u.open[s].gen = b.gen
      BY <1>1, <2>4 DEF openSlot, HandOffType
    <3>4. w' = done(storeSample(u, s, mask))
      BY <3>1
    <3> HIDE DEF u
    <3>5. HandOff(u, Held, captured) /\ Touches(u, u0, s) /\ IsOpen(u, s, mask)
      BY <1>1, <2>3, <3>2, OpenKeeps
    <3>6. u.session = w.session /\ \A r \in Sources \ {s} : u.open[r] = u0.open[r]
      BY <2>3, <3>5 DEF Touches
    <3>7. Trail(w', c, past, n + 1)
      BY <1>8, <2>4, <3>3, <3>4, <3>5, <3>6
    <3> QED BY <1>6, <1>7, <2>5, <3>7
  <2>6. CASE claimSlot(u0) = {} /\ w' = [u0 EXCEPT !.starved = TRUE] /\ spent' = spent
    <3>1. w'.open = u0.open /\ w'.blocks = u0.blocks
      BY <2>4, <2>6 DEF HandOffType
    <3> QED BY <2>4, <2>6, <3>1 DEF Trail, n
  <2> QED BY <1>3, <1>11, <2>5, <2>6
<1> QED BY <1>10, <1>11

(* A step that leaves the blocks, the samples and the dashboard's hands alone *)
LEMMA SameTrail ==
    ASSUME DisplayInv, w'.open = w.open, w'.blocks = w.blocks, spent'.samples = spent.samples,
           shown' = shown, PassedOver' = PassedOver, g'.over = g.over
    PROVE  DisplayInv'
BY DEF DisplayInv, Trail, Seen

(* A flush by any other step of the builder *)
LEMMA FlushStepTrail ==
    ASSUME IInv, DisplayInv, NEW s \in Sources, w' = flush(w, s, FALSE), UNCHANGED <<spent, g, shown>>
    PROVE  DisplayInv'
<1>1. w \in HandOffType /\ Len(w.blocks) <= BlockRingSize /\ Current(w)
  BY DEF IInv, HandOff
<1>2. Trail(w', PassedOver, shown, spent.samples)
  <2> DEFINE c == PassedOver
             n == spent.samples
  <2>1. Trail(w, c, shown, n)
    BY DEF DisplayInv
  <2> HIDE DEF c, n
  <2>2. Trail(w', c, shown, n)
    BY <1>1, <2>1, FlushTrail
  <2> QED BY <2>2 DEF c, n
<1>3. PassedOver' = PassedOver
  BY DEF PassedOver
<1> QED BY <1>2, <1>3 DEF DisplayInv, Seen

(* The builder moves nothing out of the trail but what it drops. *)
LEMMA BuilderDisplay ==
    ASSUME IInv, DisplayInv, Builder
    PROVE  DisplayInv' /\ shown' = shown
<1>1. b \in BuilderType /\ DashboardShape /\ w \in HandOffType
  BY DEF IInv, TypeInv, HandOff
<1>2. ASSUME UNCHANGED <<w, spent, g, shown>>
      PROVE  DisplayInv'
  BY <1>2, SameTrail DEF PassedOver
<1>3. ASSUME NEW s \in Sources, OnFrame(s)
      PROVE  DisplayInv' /\ shown' = shown
  BY <1>2, <1>3 DEF OnFrame
<1>4. ASSUME NEW s \in Sources, NEW mask \in BOOLEAN, emitRepublishedFrame(s, mask)
      PROVE  DisplayInv' /\ shown' = shown
  BY <1>4, FlushStepTrail DEF emitRepublishedFrame
<1>5. CASE AnnounceStructure
  BY <1>2, <1>5 DEF AnnounceStructure
<1>6. CASE StoreSample
  <2> DEFINE c == PassedOver
  <2>1. UNCHANGED <<g, shown>>
    BY <1>6 DEF StoreSample
  <2>2. /\ c \in BlockType \cup {NoBlock} /\ Seen(shown, spent.samples)
        /\ Trail(w, c, shown, spent.samples)
    BY <1>1 DEF DashboardShape, DisplayInv, PassedOver
  <2>3. PassedOver' = c
    BY <2>1 DEF PassedOver
  <2> HIDE DEF c
  <2>4. Trail(w', c, shown, spent'.samples) /\ Seen(shown, spent'.samples)
    BY <1>6, <2>2, StoreSampleTrail
  <2> QED BY <2>1, <2>3, <2>4 DEF DisplayInv, c
<1>7. CASE HandlePosted
  BY <1>2, <1>7 DEF HandlePosted, flushOpenBlocks, forgetPublishedStructures,
                    onConnectedChanged, syncFromProjectModel
<1>8. CASE FlushNext
  <2>1. PICK s \in b.rest : w' = flush(w, s, FALSE)
    BY <1>8 DEF FlushNext
  <2>2. s \in Sources /\ UNCHANGED <<spent, g, shown>>
    BY <1>1, <1>8 DEF FlushNext, BuilderType
  <2> QED BY <2>1, <2>2, FlushStepTrail
<1>9. CASE LinkBoundary \/ PauseBoundary
  <2>1. w' = Boundary(w) /\ UNCHANGED <<spent, g, shown>>
    BY <1>9 DEF LinkBoundary, PauseBoundary
  <2>2. w'.open = w.open /\ w'.blocks = w.blocks
    BY <1>1, <2>1 DEF Boundary, HandOffType
  <2> QED BY <2>1, <2>2, SameTrail DEF PassedOver
<1>10. CASE onPausedChanged
  BY <1>2, <1>10 DEF onPausedChanged
<1>11. CASE applyProjectSnapshot
  <2>1. /\ UNCHANGED <<w, spent, shown>>
        /\ g'.pc = g.pc /\ g'.block = g.block /\ g'.newest = g.newest /\ g'.over = g.over
    BY <1>1, <1>11 DEF applyProjectSnapshot, DashboardShape
  <2> QED BY <2>1, SameTrail DEF PassedOver
<1> QED BY <1>3, <1>4, <1>5, <1>6, <1>7, <1>8, <1>9, <1>10, <1>11 DEF Builder

-----------------------------------------------------------------------------
(* The steps of the dashboard *)

(* A display tick only marks the open blocks. *)
LEMMA BumpTrail ==
    ASSUME NEW u \in HandOffType, NEW c, NEW past, NEW n, Trail(u, c, past, n),
           NEW v, v = bumpFlushEpoch(u)
    PROVE  Trail(v, c, past, n)
<1> DEFINE o == [s \in Sources |-> IF u.open[s] = NoBlock THEN NoBlock
                                   ELSE [u.open[s] EXCEPT !.stale = TRUE]]
<1>1. v = [u EXCEPT !.open = o]
  BY DEF bumpFlushEpoch
<1>2. ASSUME NEW s \in Sources, o[s] # NoBlock
      PROVE  /\ u.open[s] # NoBlock
             /\ o[s].source = u.open[s].source /\ o[s].gen = u.open[s].gen
             /\ o[s].samples = u.open[s].samples
  BY <1>2 DEF HandOffType, BlockType
<1> HIDE DEF o
<1>3. v.open = o /\ v.blocks = u.blocks
  BY <1>1 DEF HandOffType
<1>4. \A s \in Sources : v.open[s] # NoBlock =>
         Waits(v.open[s], past, n)
  BY <1>2, <1>3 DEF Trail, Waits
<1>5. ASSUME NEW x, NEW s \in Sources, v.open[s] # NoBlock, Before(x, u.open[s])
      PROVE  Before(x, v.open[s])
  BY <1>2, <1>3, <1>5 DEF Before
<1> QED BY <1>2, <1>3, <1>4, <1>5 DEF Trail

(* The oldest block of the ring is the next one that may be passed over. *)
LEMMA DrainTrail ==
    ASSUME NEW u \in HandOffType, NEW c, NEW past, NEW n, Trail(u, c, past, n),
           NEW v, Drains(v, u)
    PROVE  Trail(v, Head(u.blocks), past, n)
<1> DEFINE q == u.blocks
           t == Tail(q)
           x == Head(q)
<1>1. q \in Seq(BlockType) /\ q # <<>> /\ v = [u EXCEPT !.blocks = t]
  BY DEF Drains, HandOffType
<1> HIDE DEF q
<1>2. /\ DOMAIN t = 1 .. Len(q) - 1 /\ DOMAIN q = 1 .. Len(q) /\ Len(q) \in Nat
      /\ 1 \in DOMAIN q /\ x = q[1]
      /\ \A i \in DOMAIN t : i + 1 \in DOMAIN q /\ t[i] = q[i + 1] /\ 1 < i + 1
      /\ \A i, j \in DOMAIN t : i < j => i + 1 < j + 1
  BY <1>1
<1> HIDE DEF t, x
<1>3. v.open = u.open /\ v.blocks = t
  BY <1>1 DEF HandOffType
<1>4. \A i \in DOMAIN q :
         /\ Waits(q[i], past, n)
         /\ \A j \in DOMAIN q : i < j => Before(q[i], q[j])
         /\ \A s \in Sources : u.open[s] # NoBlock => Before(q[i], u.open[s])
  BY DEF Trail, q
<1>5. /\ Waits(x, past, n) /\ \A i \in DOMAIN t : Before(x, t[i])
      /\ \A s \in Sources : u.open[s] # NoBlock => Before(x, u.open[s])
  BY <1>2, <1>4
<1>6. ASSUME NEW i \in DOMAIN t
      PROVE  /\ Waits(t[i], past, n)
             /\ \A j \in DOMAIN t : i < j => Before(t[i], t[j])
             /\ \A s \in Sources : u.open[s] # NoBlock => Before(t[i], u.open[s])
  BY <1>2, <1>4
<1>7. \A s \in Sources : u.open[s] # NoBlock => Waits(u.open[s], past, n)
  BY DEF Trail
<1>8. Trail(v, x, past, n)
  BY <1>3, <1>5, <1>6, <1>7 DEF Trail
<1> QED BY <1>8 DEF x, q

(* The step of the display property *)
MovesForward(next) ==
    \A s \in Sources : next[s] # shown[s] => next[s].id > shown[s].id /\ next[s].gen = g.gen[s]

(* Whether or not the dashboard shows the block, the trail goes on behind it. *)
LEMMA ShowTrail ==
    ASSUME NEW x \in BlockType, NEW n \in Nat, NEW v \in HandOffType,
           shown \in [Sources -> SampleType \cup {NoSample}], Seen(shown, n),
           Trail(v, x, shown, n), NEW next, next \in {shown, applyBlock(x)}
    PROVE  /\ next \in [Sources -> SampleType \cup {NoSample}] /\ Seen(next, n)
           /\ Trail(v, NoBlock, next, n) /\ MovesForward(next)
<1>1. CASE next = shown
  BY <1>1 DEF Trail, MovesForward
<1>2. CASE next # shown
  <2> DEFINE e == Last(x.samples)
             k == Len(x.samples)
  <2>1. next = [shown EXCEPT ![x.source] = e] /\ g.gen[x.source] = x.gen
    BY <1>2 DEF applyBlock
  <2>2. x # NoBlock /\ x.source \in Sources /\ Waits(x, shown, n)
    BY NoBlockAssumption, BlockNumbers DEF Trail
  <2>3. x.samples \in Seq(SampleType) /\ k \in DOMAIN x.samples /\ e = x.samples[k]
    BY <2>2 DEF Waits, BlockType, Last
  <2>4. /\ e \in SampleType /\ e.id \in Nat /\ e.id <= n /\ e.gen = x.gen
        /\ shown[x.source].id < e.id
    <3>1. x.samples[k] \in SampleType
      BY <2>3, ElementOfSeq
    <3>2. /\ x.samples[k].gen = x.gen /\ x.samples[k].id <= n
          /\ shown[x.source].id < x.samples[k].id
      BY <2>2, <2>3 DEF Waits
    <3> HIDE DEF e, k
    <3> QED BY <2>3, <3>1, <3>2 DEF SampleType
  <2> HIDE DEF e, k
  <2>5. next \in [Sources -> SampleType \cup {NoSample}]
    BY <2>1, <2>4
  <2>6. \A s \in Sources : next[s] = IF s = x.source THEN e ELSE shown[s]
    BY <2>1, <2>2
  <2>7. Seen(next, n)
    BY <2>4, <2>6 DEF Seen
  <2>8. MovesForward(next)
    BY <2>1, <2>4, <2>6 DEF MovesForward, Seen
  <2>9. ASSUME NEW y \in BlockType, Waits(y, shown, n), Before(x, y)
        PROVE  Waits(y, next, n)
    <3>1. y.source \in Sources
      BY BlockNumbers
    <3>2. \A i \in DOMAIN y.samples : next[y.source].id < y.samples[i].id
      <4>1. CASE y.source = x.source
        BY <2>3, <2>6, <2>9, <3>1, <4>1 DEF Before
      <4>2. CASE y.source # x.source
        BY <2>6, <2>9, <3>1, <4>2 DEF Waits
      <4> QED BY <4>1, <4>2
    <3> QED BY <2>9, <3>2 DEF Waits
  <2>10. /\ \A i \in DOMAIN v.blocks : v.blocks[i] \in BlockType
         /\ \A s \in Sources : v.open[s] \in BlockType \cup {NoBlock}
    BY ElementOfSeq DEF HandOffType
  <2>11. \A i \in DOMAIN v.blocks : Waits(v.blocks[i], next, n)
    BY <2>2, <2>9, <2>10 DEF Trail
  <2>12. \A s \in Sources : v.open[s] # NoBlock => Waits(v.open[s], next, n)
    <3> TAKE s \in Sources
    <3> HAVE v.open[s] # NoBlock
    <3>1. v.open[s] \in BlockType /\ Waits(v.open[s], shown, n) /\ Before(x, v.open[s])
      BY <2>2, <2>10 DEF Trail
    <3> QED BY <2>9, <3>1
  <2>13. Trail(v, NoBlock, next, n)
    BY <2>11, <2>12 DEF Trail
  <2> QED BY <2>5, <2>7, <2>8, <2>13
<1> QED BY <1>1, <1>2

(* Nothing is shown: nothing moves. *)
LEMMA StillMovesForward ==
    ASSUME shown' = shown
    PROVE  MovesForward(shown')
BY DEF MovesForward

(* The GUI thread shows what is first on the trail, or passes over it. *)
LEMMA GuiDisplay ==
    ASSUME IInv, DisplayInv, Gui
    PROVE  DisplayInv' /\ MovesForward(shown')
<1>1. /\ DashboardShape /\ w \in HandOffType /\ spent \in SpentType /\ spent.samples \in Nat
      /\ PassedOver \in BlockType \cup {NoBlock}
      /\ g.block \in BlockType \cup {NoBlock} /\ g.newest \in BlockType \cup {NoBlock}
  BY DEF IInv, TypeInv, HandOff, SpentType, DashboardShape, PassedOver
<1>2. /\ shown \in [Sources -> SampleType \cup {NoSample}]
      /\ Seen(shown, spent.samples)
      /\ ~g.over => PassedOver = NoBlock
      /\ Trail(w, PassedOver, shown, spent.samples)
  BY DEF DisplayInv
(* The steps that leave the blocks alone *)
<1>3. ASSUME w' = w, spent'.samples = spent.samples, shown' = shown,
             PassedOver' = PassedOver, g'.over = g.over
      PROVE  DisplayInv' /\ MovesForward(shown')
  BY <1>3, SameTrail, StillMovesForward
<1>4. CASE collectProjectSnapshot
  BY <1>3, <1>4 DEF collectProjectSnapshot, PassedOver
<1>5. CASE LinkChanges \/ setPaused \/ RequestSync \/ HandleQueued
  <2>1. w' = w /\ shown' = shown /\ spent'.samples = spent.samples
    BY <1>1, <1>5 DEF LinkChanges, setPaused, RequestSync, HandleQueued, SpentType
  <2>2. g'.pc = g.pc /\ g'.block = g.block /\ g'.newest = g.newest /\ g'.over = g.over
    BY <1>1, <1>5 DEF LinkChanges, setPaused, RequestSync, HandleQueued, resetData,
                      DashboardShape
  <2> QED BY <1>3, <2>1, <2>2 DEF PassedOver
<1>6. CASE uiTimeout
  <2>1. w' = bumpFlushEpoch(w) /\ shown' = shown /\ spent' = spent /\ g.pc = "idle"
    BY <1>6 DEF uiTimeout
  <2>2. g'.pc = "layouts" /\ g'.newest = g.newest /\ g'.over = g.over
    BY <1>1, <1>6 DEF uiTimeout, DashboardShape
  <2>3. PassedOver' = PassedOver
    BY <2>1, <2>2 DEF PassedOver
  <2> DEFINE c == PassedOver
             n == spent.samples
  <2>4. Trail(w', c, shown, n)
    <3>1. Trail(w, c, shown, n)
      BY <1>2
    <3> HIDE DEF c, n
    <3> QED BY <1>1, <2>1, <3>1, BumpTrail
  <2> QED BY <1>2, <2>1, <2>2, <2>3, <2>4, StillMovesForward DEF DisplayInv
<1>7. CASE DrainStructure \/ StructuresDrained
  <2>1. w' = w /\ shown' = shown /\ spent' = spent /\ g.pc = "layouts"
    BY <1>7 DEF DrainStructure, StructuresDrained
  <2>2. g'.pc \in {"layouts", "blocks"} /\ g'.newest = g.newest /\ g'.over = g.over
    BY <1>1, <1>7, <2>1 DEF DrainStructure, StructuresDrained, DashboardShape
  <2> QED BY <1>3, <2>1, <2>2 DEF PassedOver
<1>8. CASE DrainBlock
  <2> DEFINE block == Head(w.blocks)
             n == spent.samples
  <2>1. Drains(w', w) /\ spent' = spent /\ g.pc = "blocks" /\ w.blocks # <<>>
    BY <1>8 DEF DrainBlock, Drains
  <2>2. block \in BlockType
    BY <1>1, <2>1 DEF HandOffType
  <2>3. w' \in HandOffType
    <3> DEFINE t == Tail(w.blocks)
    <3>1. t \in Seq(BlockType) /\ w' = [w EXCEPT !.blocks = t]
      BY <1>1, <2>1 DEF Drains, HandOffType
    <3> HIDE DEF t
    <3> QED BY <1>1, <3>1 DEF HandOffType
  <2>4. Trail(w', block, shown, n)
    BY <1>1, <1>2, <2>1, DrainTrail
  <2>5. CASE g.over
    <3>1. shown' = shown /\ g' = [g EXCEPT !.pc = "keep", !.block = block, !.drained = @ + 1]
      BY <1>8, <2>5 DEF DrainBlock
    <3> HIDE DEF block
    <3>2. g'.pc = "keep" /\ g'.block = block /\ g'.over = g.over
      BY <1>1, <3>1 DEF DashboardShape
    <3>3. PassedOver' = block
      BY <3>2 DEF PassedOver
    <3> QED BY <1>2, <2>1, <2>4, <2>5, <3>1, <3>2, <3>3, StillMovesForward DEF DisplayInv
  <2>6. CASE ~g.over
    <3>1. PICK late : g' = [g EXCEPT !.block = block, !.over = late, !.drained = @ + 1]
      BY <1>8, <2>6 DEF DrainBlock
    <3>2. shown' = applyBlock(block)
      BY <1>8, <2>6 DEF DrainBlock
    <3>3. g'.pc = "blocks" /\ g'.newest = g.newest
      BY <1>1, <2>1, <3>1 DEF DashboardShape
    <3>4. PassedOver' = NoBlock
      BY <1>2, <2>1, <2>6, <3>3 DEF PassedOver
    <3> HIDE DEF block, n
    <3>5. /\ shown' \in [Sources -> SampleType \cup {NoSample}] /\ Seen(shown', n)
          /\ Trail(w', NoBlock, shown', n) /\ MovesForward(shown')
      BY <1>1, <1>2, <2>2, <2>3, <2>4, <3>2, ShowTrail DEF n
    <3> QED BY <2>1, <3>4, <3>5 DEF DisplayInv, n
  <2> QED BY <2>5, <2>6
<1>9. CASE KeepNewest
  <2>1. w' = w /\ shown' = shown /\ spent' = spent /\ g.pc = "keep"
    BY <1>9 DEF KeepNewest
  <2>2. g'.pc = "blocks" /\ g'.newest = g.block /\ g'.over = g.over
    BY <1>1, <1>9 DEF KeepNewest, DashboardShape
  <2> QED BY <1>3, <2>1, <2>2 DEF PassedOver
<1>10. CASE BlocksDrained
  <2> DEFINE n == spent.samples
  <2>1. w' = w /\ spent' = spent /\ g.pc = "blocks"
    BY <1>10 DEF BlocksDrained
  <2>2. g'.pc = "idle" /\ g'.newest = NoBlock
    BY <1>1, <1>10 DEF BlocksDrained, DashboardShape
  <2>3. PassedOver' = NoBlock /\ PassedOver = g.newest
    BY <2>1, <2>2 DEF PassedOver
  <2>4. /\ shown' \in [Sources -> SampleType \cup {NoSample}] /\ Seen(shown', n)
        /\ Trail(w, NoBlock, shown', n) /\ MovesForward(shown')
    <3>1. CASE g.newest = NoBlock
      BY <1>2, <1>10, <2>3, <3>1, StillMovesForward DEF BlocksDrained
    <3>2. CASE g.newest # NoBlock
      <4>1. shown' = applyBlock(g.newest) /\ g.newest \in BlockType
        BY <1>1, <1>10, <3>2 DEF BlocksDrained
      <4> QED BY <1>1, <1>2, <2>3, <4>1, ShowTrail
    <3> QED BY <3>1, <3>2
  <2> QED BY <2>1, <2>3, <2>4 DEF DisplayInv
<1> QED BY <1>4, <1>5, <1>6, <1>7, <1>8, <1>9, <1>10 DEF Gui

-----------------------------------------------------------------------------
(* The theorem *)

(* The trail is empty at first. *)
LEMMA InitDisplay == Init => DisplayInv
<1> SUFFICES ASSUME Init
             PROVE  DisplayInv
  OBVIOUS
<1>1. /\ shown = [s \in Sources |-> NoSample] /\ spent.samples = 0
      /\ g.pc = "idle" /\ g.newest = NoBlock
      /\ w.blocks = <<>> /\ \A s \in Sources : w.open[s] = NoBlock
  BY DEF Init
<1>2. \A s \in Sources : shown[s] = NoSample
  BY <1>1
<1>3. Seen(shown, spent.samples)
  BY <1>1, <1>2 DEF Seen, NoSample
<1>4. PassedOver = NoBlock
  BY <1>1 DEF PassedOver
<1>5. Trail(w, NoBlock, shown, spent.samples)
  BY <1>1 DEF Trail
<1> QED BY <1>1, <1>3, <1>4, <1>5 DEF DisplayInv

(* Every step keeps it and moves the widgets forward. *)
LEMMA NextDisplay ==
    ASSUME IInv, DisplayInv, [Next]_vars
    PROVE  DisplayInv' /\ MovesForward(shown')
<1>1. CASE UNCHANGED vars
  <2>1. /\ w' = w /\ spent' = spent /\ shown' = shown /\ g' = g
    BY <1>1 DEF vars
  <2> QED BY <2>1, SameTrail, StillMovesForward DEF PassedOver
<1>2. CASE Builder
  BY <1>2, BuilderDisplay, StillMovesForward
<1>3. CASE Gui
  BY <1>3, GuiDisplay
<1> QED BY <1>1, <1>2, <1>3 DEF Next

(* The widgets of a source only move forward in time, and only to samples of the
   layout the dashboard holds for it (DashboardIngest::applyBlock compares the
   generations; drainBlockRing shows the newest block it passed over last). *)
THEOREM DisplayCorrect == Spec => DisplayFollowsLayout
<1>1. IInv /\ DisplayInv /\ [Next]_vars => DisplayInv'
  BY NextDisplay
<1>2. IInv /\ DisplayInv /\ [Next]_vars =>
         \A s \in Sources : shown'[s] # shown[s] =>
            shown'[s].id > shown[s].id /\ shown'[s].gen = g.gen[s]
  BY NextDisplay DEF MovesForward
<1> QED BY <1>1, <1>2, InitDisplay, IInvHolds, PTL DEF Spec, DisplayFollowsLayout
=============================================================================
