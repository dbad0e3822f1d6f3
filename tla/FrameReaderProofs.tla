-------------------------- MODULE FrameReaderProofs --------------------------
(***************************************************************************)
(* Theorems about the frame reader, for every set of configurations, every *)
(* checksum and every capacity: no frame is dropped, no byte is lost       *)
(* without being counted, the scan loop always makes progress, the timing  *)
(* records describe the buffered bytes, the stamps of the frames come from *)
(* the chunk of the last byte and strictly increase, and the frames do not *)
(* depend on how the stream was cut into chunks.                           *)
(***************************************************************************)
EXTENDS FrameReader, WellFoundedInduction, SequenceTheorems, TLAPS

(* What the assumptions on the constants say, in one place. *)
LEMMA Constants ==
    /\ Capacity \in Nat /\ Capacity > 1
    /\ QueueCapacity \in Nat /\ MaxFramesPerCall \in Nat
    /\ MaxFramesPerCall > 0 /\ MaxFramesPerCall <= QueueCapacity
    /\ MaxChunk \in Nat /\ MaxStream \in Nat
    /\ Configs \subseteq ConfigType
BY CapacityAssumption, QueueAssumption, BoundsAssumption, ConfigsAssumption

-----------------------------------------------------------------------------
(* Every non-empty set of naturals has a lowest element. *)

Below == {ss \in Nat \X Nat : ss[1] < ss[2]}

(* The order that the minimum of a set of positions is taken in is well-founded. *)
LEMMA BelowWellFounded == IsWellFoundedOn(Below, Nat)
BY NatLessThanWellFounded, Zenon DEF OpToRel, Below

(* The lowest element of a non-empty set of naturals exists and bounds the set. *)
LEMMA LowestProperty ==
    ASSUME NEW S \in SUBSET Nat, S # {}
    PROVE  Lowest(S) \in S /\ \A y \in S : Lowest(S) <= y
<1>1. PICK x \in S : \A y \in S : ~(<<y, x>> \in Below)
  BY BelowWellFounded, WFMin, Zenon
<1>2. ASSUME NEW y \in S PROVE x <= y
  <2>1. x \in Nat /\ y \in Nat /\ <<y, x>> \in Nat \X Nat
    OBVIOUS
  <2>2. ~(y < x)
    BY <1>1, <2>1, Zenon DEF Below
  <2> QED BY <2>1, <2>2
<1> QED BY <1>2 DEF Lowest

-----------------------------------------------------------------------------
(* Sequences. *)

(* Dropping bytes from the front of the ring leaves bytes, as many fewer. *)
LEMMA DropType ==
    ASSUME NEW S, NEW s \in Seq(S), NEW n \in 0 .. Len(s)
    PROVE  Drop(s, n) \in Seq(S) /\ Len(Drop(s, n)) = Len(s) - n
BY SubSeqProperties DEF Drop

(* A pattern that the ring search finds lies inside the ring. *)
LEMMA FindPatternRange ==
    ASSUME NEW b \in Seq(Byte), NEW pattern \in Seq(Byte), NEW from \in Nat
    PROVE  FindPattern(b, pattern, from) \in (from .. Len(b) - 1) \union {-1}
<1> DEFINE hits == {i \in from .. Len(b) - 1 : MatchAt(b, i, pattern)}
<1>1. hits \in SUBSET Nat /\ \A i \in hits : i \in from .. Len(b) - 1
  OBVIOUS
<1>2. CASE hits = {}
  BY <1>2 DEF FindPattern
<1>3. CASE hits # {}
  <2>1. Lowest(hits) \in hits
    BY <1>1, <1>3, LowestProperty
  <2>2. FindPattern(b, pattern, from) = Lowest(hits)
    BY <1>3 DEF FindPattern
  <2> QED BY <2>1, <2>2, <1>1
<1> QED BY <1>2, <1>3

(* A match of the multi-pattern search lies inside the ring and is one of the patterns. *)
LEMMA FindFirstOfRange ==
    ASSUME NEW b \in Seq(Byte), NEW patterns \in Seq(Seq(Byte))
    PROVE  \/ FindFirstOf(b, patterns).pos = -1
           \/ /\ FindFirstOf(b, patterns).pos \in 0 .. Len(b) - 1
              /\ \E i \in DOMAIN patterns : FindFirstOf(b, patterns).pattern = patterns[i]
<1> DEFINE at(i) == {p \in DOMAIN patterns : MatchAt(b, i, patterns[p])}
           hits  == {i \in 0 .. Len(b) - 1 : at(i) # {}}
<1>1. hits \in SUBSET Nat
  OBVIOUS
<1>2. CASE hits = {}
  BY <1>2 DEF FindFirstOf
<1>3. CASE hits # {}
  <2>1. Lowest(hits) \in hits
    BY <1>1, <1>3, LowestProperty
  <2>2. at(Lowest(hits)) \in SUBSET Nat /\ at(Lowest(hits)) # {}
    BY <2>1
  <2> HIDE DEF hits
  <2>3. Lowest(at(Lowest(hits))) \in at(Lowest(hits))
    BY <2>2, LowestProperty
  <2>4. FindFirstOf(b, patterns) =
          [pos |-> Lowest(hits), pattern |-> patterns[Lowest(at(Lowest(hits)))]]
    BY <1>3 DEF FindFirstOf, hits
  <2>5. Lowest(hits) \in 0 .. Len(b) - 1
    BY <2>1 DEF hits
  <2>6. Lowest(at(Lowest(hits))) \in DOMAIN patterns
    BY <2>3
  <2> HIDE DEF at
  <2> QED BY <2>4, <2>5, <2>6
<1> QED BY <1>2, <1>3

-----------------------------------------------------------------------------
(* What one turn of the scan loop may return. *)

OutcomeOK(out, b) ==
    /\ out.kind \in {"frame", "reject", "drop", "break"}
    /\ out.skip \in 0 .. Len(b) /\ out.n \in Nat
    /\ out.kind # "break" => out.n > 0 /\ out.skip < Len(b)

(* What the configuration type says of delimiters and lengths. *)
LEMMA ConfigFacts ==
    ASSUME cfg \in Configs
    PROVE  /\ cfg \in ConfigType
           /\ cfg.crcLen \in Nat /\ cfg.fixedLen \in Nat
           /\ cfg.start \in Seq(Byte) /\ cfg.finish \in Seq(Seq(Byte))
           /\ cfg.detection \in {"Start", "StartEnd"} => Len(cfg.start) > 0
           /\ cfg.detection \in {"End", "StartEnd"} => Len(cfg.finish) > 0
           /\ \A i \in DOMAIN cfg.finish : Len(cfg.finish[i]) > 0
<1>1. cfg \in ConfigType
  BY Constants
<1>2. /\ cfg.crcLen \in Nat /\ cfg.fixedLen \in Nat
      /\ cfg.start \in Seq(Byte) /\ cfg.finish \in Seq(Seq(Byte))
  BY <1>1 DEF ConfigType
<1>3. cfg.detection \in {"Start", "StartEnd"} => Len(cfg.start) > 0
  <2>1. cfg.detection \in {"Start", "StartEnd"} => cfg.start # <<>>
    BY ConfigsAssumption
  <2> QED BY <2>1, <1>2, EmptySeq
<1> QED BY <1>1, <1>2, <1>3, ConfigsAssumption

(* A validated frame consumes at least one byte and at most what is buffered. *)
LEMMA ValidatedOK ==
    ASSUME NEW b, NEW rest, NEW skip \in Nat, skip < Len(b), NEW data, NEW crcPos,
           NEW end \in Nat, end > 0, NEW reject \in Nat, reject > 0, Len(b) \in Nat
    PROVE  OutcomeOK(Validated(rest, skip, data, crcPos, end, reject), b)
<1> DEFINE out == Validated(rest, skip, data, crcPos, end, reject)
<1>1. \/ out = Break(skip)
      \/ out = Outcome("frame", skip, end, data)
      \/ out = Outcome("reject", skip, reject, <<>>)
  BY DEF Validated
<1>2. OutcomeOK(Break(skip), b)
  BY DEF Break, Outcome, OutcomeOK
<1>3. OutcomeOK(Outcome("frame", skip, end, data), b)
  BY DEF Outcome, OutcomeOK
<1>4. OutcomeOK(Outcome("reject", skip, reject, <<>>), b)
  BY DEF Outcome, OutcomeOK
<1> QED BY <1>1, <1>2, <1>3, <1>4, Zenon

(* A turn of readEndDelimitedFrames consumes from the buffer or leaves the loop. *)
LEMMA EndOutcome ==
    ASSUME cfg \in Configs, cfg.detection = "End", NEW b \in Seq(Byte)
    PROVE  OutcomeOK(readEndDelimitedFrames(b), b)
<1> DEFINE hit    == FindFirstOf(b, cfg.finish)
           crcPos == hit.pos + Len(hit.pattern)
           end    == crcPos + cfg.crcLen
<1>0. /\ cfg.crcLen \in Nat /\ cfg.finish \in Seq(Seq(Byte))
      /\ \A i \in DOMAIN cfg.finish : Len(cfg.finish[i]) > 0
  BY ConfigFacts
<1>1. CASE hit.pos = -1
  BY <1>1 DEF readEndDelimitedFrames, Break, Outcome, OutcomeOK
<1>2. CASE hit.pos # -1
  <2>1. hit.pos \in 0 .. Len(b) - 1 /\ \E i \in DOMAIN cfg.finish : hit.pattern = cfg.finish[i]
    BY <1>0, <1>2, FindFirstOfRange
  <2>2. Len(hit.pattern) \in Nat /\ Len(hit.pattern) > 0
    <3>1. PICK i \in DOMAIN cfg.finish : hit.pattern = cfg.finish[i]
      BY <2>1
    <3>2. cfg.finish[i] \in Seq(Byte) /\ Len(cfg.finish[i]) > 0
      BY <1>0
    <3> HIDE DEF hit
    <3> QED BY <3>1, <3>2
  <2> HIDE DEF hit
  <2>3. end \in Nat /\ end > 0 /\ Len(b) \in Nat /\ 0 < Len(b)
    <3>1. hit.pos \in Nat /\ Len(b) \in Nat /\ 0 < Len(b)
      BY <2>1, LenProperties
    <3> QED BY <3>1, <2>2, <1>0
  <2>4. OutcomeOK(DropBytes(end), b)
    BY <2>3 DEF DropBytes, Outcome, OutcomeOK
  <2>5. OutcomeOK(Validated(b, 0, SubSeq(b, 1, hit.pos), crcPos, end, end), b)
    BY <2>3, ValidatedOK
  <2> HIDE DEF end, crcPos
  <2> QED BY <1>2, <2>1, <2>4, <2>5 DEF readEndDelimitedFrames, hit, crcPos, end
<1> QED BY <1>1, <1>2

(* A turn of readStartDelimitedFrames consumes from the buffer or leaves the loop. *)
LEMMA StartOutcome ==
    ASSUME cfg \in Configs, cfg.detection = "Start", NEW b \in Seq(Byte)
    PROVE  OutcomeOK(readStartDelimitedFrames(b), b)
<1> DEFINE first  == FindPattern(b, cfg.start, 0)
           rest   == Drop(b, first)
           head   == Len(cfg.start)
           end    == FindPattern(rest, cfg.start, head)
           crcPos == end - cfg.crcLen
<1>0. /\ cfg.crcLen \in Nat /\ cfg.start \in Seq(Byte)
      /\ head \in Nat /\ head > 0 /\ Len(b) \in Nat
  BY ConfigFacts, LenProperties
<1>1. CASE first = -1
  BY <1>0, <1>1 DEF readStartDelimitedFrames, Break, Outcome, OutcomeOK
<1>2. CASE first # -1
  <2>1. first \in 0 .. Len(b) - 1
    BY <1>0, <1>2, FindPatternRange
  <2> HIDE DEF first
  <2>2. rest \in Seq(Byte)
    BY <2>1, <1>0, DropType
  <2>3. OutcomeOK(Break(first), b)
    BY <2>1, <1>0 DEF Break, Outcome, OutcomeOK
  <2>4. CASE end = -1
    <3>1. readStartDelimitedFrames(b) = Break(first)
      BY <1>2, <2>4 DEF readStartDelimitedFrames, first
    <3> QED BY <2>3, <3>1, Zenon
  <2>5. CASE end # -1
    <3> HIDE DEF rest
    <3>1. end \in head .. Len(rest) - 1
      BY <2>2, <2>5, <1>0, FindPatternRange
    <3>2. end \in Nat /\ end > 0 /\ first \in Nat /\ first < Len(b)
      BY <3>1, <1>0, <2>1
    <3> HIDE DEF end, crcPos, head
    <3>3. OutcomeOK(Outcome("drop", first, end, <<>>), b)
      BY <3>2, <1>0 DEF Outcome, OutcomeOK
    <3>4. OutcomeOK(Validated(rest, first, SubSeq(rest, head + 1, crcPos), crcPos, end, end), b)
      BY <3>2, <1>0, ValidatedOK
    <3>5. \/ readStartDelimitedFrames(b) = Outcome("drop", first, end, <<>>)
          \/ readStartDelimitedFrames(b) =
               Validated(rest, first, SubSeq(rest, head + 1, crcPos), crcPos, end, end)
      BY <1>2, <2>5, Zenon DEF readStartDelimitedFrames, first, rest, head, end, crcPos
    <3> QED BY <3>3, <3>4, <3>5, Zenon
  <2> QED BY <2>4, <2>5
<1> QED BY <1>1, <1>2

(* A turn of readStartEndDelimitedFrames consumes from the buffer or leaves the loop. *)
LEMMA StartEndOutcome ==
    ASSUME cfg \in Configs, cfg.detection = "StartEnd", NEW b \in Seq(Byte)
    PROVE  OutcomeOK(readStartEndDelimitedFrames(b), b)
<1> DEFINE fin    == FindPattern(b, cfg.finish[1], 0)
           start  == FindPattern(b, cfg.start, 0)
           body   == start + Len(cfg.start)
           crcPos == fin + Len(cfg.finish[1])
           end    == crcPos + cfg.crcLen
           good   == Validated(b, 0, SubSeq(b, body + 1, fin), crcPos, end, end)
<1>0. /\ cfg.crcLen \in Nat /\ cfg.finish[1] \in Seq(Byte) /\ Len(cfg.finish[1]) > 0
      /\ Len(cfg.finish[1]) \in Nat /\ Len(b) \in Nat
  <2>1. cfg.finish \in Seq(Seq(Byte)) /\ Len(cfg.finish) > 0
    BY ConfigFacts
  <2>2. 1 \in DOMAIN cfg.finish /\ cfg.finish[1] \in Seq(Byte)
    BY <2>1
  <2> QED BY <2>2, ConfigFacts, LenProperties
<1>1. CASE fin = -1
  BY <1>0, <1>1 DEF readStartEndDelimitedFrames, Break, Outcome, OutcomeOK
<1>2. CASE fin # -1
  <2>1. fin \in 0 .. Len(b) - 1
    BY <1>0, <1>2, FindPatternRange
  <2> HIDE DEF fin
  <2>2. crcPos \in Nat /\ crcPos > 0 /\ end \in Nat /\ end > 0 /\ 0 < Len(b)
    <3>1. fin \in Nat /\ 0 < Len(b)
      BY <2>1, <1>0
    <3>2. crcPos \in Nat /\ crcPos > 0
      BY <3>1, <1>0
    <3> HIDE DEF crcPos
    <3> QED BY <3>1, <3>2, <1>0
  <2> HIDE DEF crcPos, end
  <2>3. OutcomeOK(DropBytes(crcPos), b)
    <3>1. DropBytes(crcPos) = [kind |-> "drop", skip |-> 0, n |-> crcPos, data |-> <<>>]
      BY DEF DropBytes, Outcome
    <3> QED BY <2>2, <3>1, <1>0 DEF OutcomeOK
  <2>4. OutcomeOK(good, b)
    BY <2>2, <1>0, ValidatedOK
  <2>5. \/ readStartEndDelimitedFrames(b) = DropBytes(crcPos)
        \/ readStartEndDelimitedFrames(b) = good
    BY <1>2, Zenon DEF readStartEndDelimitedFrames, fin, crcPos, end
  <2> QED BY <2>3, <2>4, <2>5, Zenon
<1> QED BY <1>1, <1>2

(* The byte that alignFixedLengthFrame aligns to is in the buffer or at its end. *)
LEMMA AlignRange ==
    ASSUME NEW b \in Seq(Byte)
    PROVE  alignFixedLengthFrame(b) \in 0 .. Len(b)
<1> DEFINE headers == {i \in 0 .. Len(b) - 1 : b[i + 1] \in cfg.header}
           skip    == alignFixedLengthFrame(b)
<1>0. Len(b) \in Nat
  BY LenProperties
<1>1. headers \in SUBSET Nat /\ \A i \in headers : i \in 0 .. Len(b)
  BY <1>0
<1>2. headers # {} => Lowest(headers) \in 0 .. Len(b)
  BY <1>1, LowestProperty
<1>3. skip = 0 \/ skip = Len(b) \/ (headers # {} /\ skip = Lowest(headers))
  BY DEF alignFixedLengthFrame
<1> HIDE DEF skip, headers
<1>4. skip \in 0 .. Len(b)
  BY <1>0, <1>2, <1>3
<1> QED BY <1>4 DEF skip

(* A turn of readFixedLengthFrames consumes from the buffer or leaves the loop. *)
LEMMA FixedOutcome ==
    ASSUME cfg \in Configs, cfg.detection = "Fixed", NEW b \in Seq(Byte)
    PROVE  OutcomeOK(readFixedLengthFrames(b), b)
<1> DEFINE skip    == alignFixedLengthFrame(b)
           rest    == Drop(b, skip)
           payload == cfg.fixedLen - cfg.crcLen
           bad     == {i \in 1 .. payload - 1 : cfg.body # {} /\ rest[i + 1] \notin cfg.body}
           reject  == IF cfg.header # {} THEN 1 ELSE cfg.fixedLen
           good    == Validated(rest, skip, SubSeq(rest, 1, payload), payload, cfg.fixedLen, reject)
<1>0. cfg.crcLen \in Nat /\ cfg.fixedLen \in Nat /\ Len(b) \in Nat
  BY ConfigFacts, LenProperties
<1>1. skip \in 0 .. Len(b)
  BY AlignRange
<1>2. CASE payload <= 0
  <2>1. readFixedLengthFrames(b) = Break(Len(b))
    BY <1>2 DEF readFixedLengthFrames
  <2> QED BY <2>1, <1>0 DEF Break, Outcome, OutcomeOK
<1>3. CASE payload > 0 /\ Len(rest) < cfg.fixedLen
  <2>1. readFixedLengthFrames(b) = Break(skip)
    BY <1>3, <1>0 DEF readFixedLengthFrames
  <2> HIDE DEF skip
  <2> QED BY <2>1, <1>0, <1>1 DEF Break, Outcome, OutcomeOK
<1>4. CASE payload > 0 /\ ~(Len(rest) < cfg.fixedLen)
  <2>1. /\ skip \in Nat /\ skip < Len(b)
        /\ cfg.fixedLen > 0 /\ reject \in Nat /\ reject > 0
    <3>1. Len(rest) = Len(b) - skip
      BY <1>1, DropType
    <3> HIDE DEF rest, skip
    <3> QED BY <3>1, <1>0, <1>1, <1>4
  <2>2. OutcomeOK(good, b)
    <3> HIDE DEF rest, skip, reject, payload
    <3> QED BY <2>1, <1>0, ValidatedOK
  <2>3. bad # {} => OutcomeOK(Outcome("drop", skip, Lowest(bad), <<>>), b)
    <3>1. bad \in SUBSET Nat /\ \A i \in bad : i > 0
      BY <1>0
    <3> HIDE DEF bad, skip
    <3>2. bad # {} => Lowest(bad) \in Nat /\ Lowest(bad) > 0
      BY <3>1, LowestProperty
    <3> QED BY <3>2, <2>1, <1>0 DEF Outcome, OutcomeOK
  <2>4. ~(payload <= 0)
    BY <1>4, <1>0
  <2>5. \/ bad # {} /\ readFixedLengthFrames(b) = Outcome("drop", skip, Lowest(bad), <<>>)
        \/ readFixedLengthFrames(b) = good
    BY <1>4, <2>4, Zenon DEF readFixedLengthFrames
  <2> HIDE DEF bad, good, skip
  <2> QED BY <2>2, <2>3, <2>5, Zenon
<1>5. payload \in Int
  BY <1>0
<1> QED BY <1>2, <1>3, <1>4, <1>5

(* A turn of the loop that processData selects consumes or leaves, in every configuration. *)
LEMMA ScanOutcomeOK ==
    ASSUME cfg \in Configs, cfg.detection # "None", NEW b \in Seq(Byte)
    PROVE  OutcomeOK(ScanOutcome(b), b)
<1>1. cfg.detection \in {"End", "Start", "StartEnd", "Fixed"}
  BY ConfigFacts DEF ConfigType
<1>2. CASE cfg.detection = "End"
  BY <1>2, EndOutcome DEF ScanOutcome
<1>3. CASE cfg.detection = "Start"
  BY <1>3, StartOutcome DEF ScanOutcome
<1>4. CASE cfg.detection = "StartEnd"
  BY <1>4, StartEndOutcome DEF ScanOutcome
<1>5. CASE cfg.detection = "Fixed"
  BY <1>5, FixedOutcome DEF ScanOutcome
<1> QED BY <1>1, <1>2, <1>3, <1>4, <1>5

-----------------------------------------------------------------------------
(* The inductive invariant. *)

StatsType == [bytesIn : Nat, dropped : Nat, checksumErrors : Nat, overflow : Nat]

(* The types the argument needs, but for those of the timing records: the bytes
   and the frames are counted without them, see TimingInv for the records. *)
ShapeInv ==
    /\ cfg \in Configs
    /\ buffer \in Seq([v : Byte, src : Nat]) /\ Len(buffer) <= Capacity - 1
    /\ stream \in Seq(Byte)
    /\ chunks \in Nat /\ consumed \in Nat
    /\ stats \in StatsType

(* A loop that is running has queued at most one frame per turn and has turns
   left; between two calls the queue is empty. *)
LoopInv ==
    /\ pc \in {"idle", "scan"} /\ iterations \in Nat /\ queued \in Nat
    /\ pc = "idle" => queued = 0
    /\ pc = "scan" => /\ queued <= iterations /\ iterations < MaxFramesPerCall
                      /\ cfg.detection # "None"

IInv == ShapeInv /\ LoopInv /\ BytesAreAccountedFor /\ NoFrameDropped

(* A new reader satisfies the invariant. *)
LEMMA InitIInv == Init => IInv
BY Constants DEF Init, IInv, ShapeInv, StatsType, LoopInv, BytesAreAccountedFor, NoFrameDropped

(* A running loop always finds room in the queue. *)
LEMMA RoomInLoop == IInv => hasRoom
BY Constants DEF IInv, LoopInv, hasRoom

(* The bytes of a chunk are bytes. *)
LEMMA BytesType ==
    ASSUME NEW b \in Seq([v : Byte, src : Nat])
    PROVE  Bytes(b) \in Seq(Byte) /\ Len(Bytes(b)) = Len(b)
<1>1. Len(b) \in Nat /\ \A i \in 1 .. Len(b) : b[i].v \in Byte
  <2>1. Len(b) \in Nat
    BY LenProperties
  <2>2. ASSUME NEW i \in 1 .. Len(b) PROVE b[i].v \in Byte
    <3>1. b[i] \in [v : Byte, src : Nat]
      BY ElementOfSeq
    <3> QED BY <3>1
  <2> QED BY <2>1, <2>2
<1>2. Bytes(b) \in [1 .. Len(b) -> Byte]
  BY <1>1 DEF Bytes
<1> QED BY <1>1, <1>2, SeqDef

(* The ring after a chunk holds bytes within its capacity and counts the rest as overflow. *)
LEMMA ChunkType ==
    ASSUME NEW data \in Chunk
    PROVE  data \in Seq(Byte) /\ Len(data) \in Nat
<1>1. PICK n \in 1 .. MaxChunk : data \in [1 .. n -> Byte]
  BY DEF Chunk
<1> QED BY <1>1, Constants

(* A chunk as the buffer holds it. *)
LEMMA TaggedType ==
    ASSUME NEW data \in Seq(Byte), NEW c \in Nat
    PROVE  /\ [i \in 1 .. Len(data) |-> [v |-> data[i], src |-> c]] \in Seq([v : Byte, src : Nat])
           /\ Len([i \in 1 .. Len(data) |-> [v |-> data[i], src |-> c]]) = Len(data)
<1> DEFINE t == [i \in 1 .. Len(data) |-> [v |-> data[i], src |-> c]]
<1>1. Len(data) \in Nat /\ \A i \in 1 .. Len(data) : data[i] \in Byte
  BY ElementOfSeq, LenProperties
<1>2. t \in [1 .. Len(data) -> [v : Byte, src : Nat]]
  BY <1>1
<1> QED BY <1>1, <1>2, SeqDef

(* The ways in which the statistics are updated. *)
LEMMA StatsFields ==
    ASSUME NEW s \in StatsType
    PROVE  /\ s.bytesIn \in Nat /\ s.dropped \in Nat
           /\ s.checksumErrors \in Nat /\ s.overflow \in Nat
           /\ s = [bytesIn |-> s.bytesIn, dropped |-> s.dropped,
                   checksumErrors |-> s.checksumErrors, overflow |-> s.overflow]
BY DEF StatsType

WithOverflow(s, n, m) == [s EXCEPT !.bytesIn = @ + n, !.overflow = @ + m]
WithFrame(s, n)       == [s EXCEPT !.bytesIn = @ + n, !.dropped = @ + 0]
WithErrors(s, n)      == [s EXCEPT !.checksumErrors = @ + n]

(* Counting a chunk that overwrote bytes adds the chunk and the overwritten bytes. *)
LEMMA CountOverflow ==
    ASSUME NEW s \in StatsType, NEW n \in Nat, NEW m \in Nat
    PROVE  LET t == WithOverflow(s, n, m) IN
           /\ t \in StatsType /\ t.bytesIn = s.bytesIn + n
           /\ t.overflow = s.overflow + m /\ t.dropped = s.dropped
<1> DEFINE u == [s EXCEPT !.bytesIn = @ + n]
<1>0. u = [bytesIn |-> s.bytesIn + n, dropped |-> s.dropped,
           checksumErrors |-> s.checksumErrors, overflow |-> s.overflow]
  BY StatsFields
<1>1. WithOverflow(s, n, m) =
          [bytesIn |-> s.bytesIn + n, dropped |-> s.dropped,
           checksumErrors |-> s.checksumErrors, overflow |-> s.overflow + m]
  <2>1. WithOverflow(s, n, m) = [u EXCEPT !.overflow = @ + m]
    BY DEF WithOverflow
  <2> HIDE DEF u
  <2> QED BY <1>0, <2>1
<1> QED BY <1>1, StatsFields DEF StatsType

(* Counting a pass-through chunk adds its bytes and leaves the losses alone. *)
LEMMA CountFrame ==
    ASSUME NEW s \in StatsType, NEW n \in Nat
    PROVE  LET t == WithFrame(s, n) IN
           /\ t \in StatsType /\ t.bytesIn = s.bytesIn + n
           /\ t.overflow = s.overflow /\ t.dropped = s.dropped
<1> DEFINE u == [s EXCEPT !.bytesIn = @ + n]
<1>0. u = [bytesIn |-> s.bytesIn + n, dropped |-> s.dropped,
           checksumErrors |-> s.checksumErrors, overflow |-> s.overflow]
  BY StatsFields
<1>1. WithFrame(s, n) =
          [bytesIn |-> s.bytesIn + n, dropped |-> s.dropped,
           checksumErrors |-> s.checksumErrors, overflow |-> s.overflow]
  <2>1. WithFrame(s, n) = [u EXCEPT !.dropped = @ + 0]
    BY DEF WithFrame
  <2>2. s.dropped + 0 = s.dropped
    BY StatsFields
  <2> HIDE DEF u
  <2> QED BY <1>0, <2>1, <2>2
<1> QED BY <1>1, StatsFields DEF StatsType

(* Counting checksum errors leaves the bytes and the losses alone. *)
LEMMA CountError ==
    ASSUME NEW s \in StatsType, NEW n \in Nat
    PROVE  LET t == WithErrors(s, n) IN
           /\ t \in StatsType /\ t.bytesIn = s.bytesIn
           /\ t.overflow = s.overflow /\ t.dropped = s.dropped
<1>1. WithErrors(s, n) =
          [bytesIn |-> s.bytesIn, dropped |-> s.dropped,
           checksumErrors |-> s.checksumErrors + n, overflow |-> s.overflow]
  BY StatsFields DEF WithErrors
<1> QED BY <1>1, StatsFields DEF StatsType

(* A chunk without delimiters (pass-through) preserves the invariant. *)
LEMMA RawChunkStep ==
    ASSUME IInv, NEW data \in Chunk, ProcessRawChunk(data)
    PROVE  IInv'
<1>1. data \in Seq(Byte) /\ Len(data) \in Nat /\ hasRoom
  BY ChunkType, RoomInLoop
<1>2. stream' \in Seq(Byte) /\ Len(stream') = Len(stream) + Len(data)
  BY <1>1, ConcatProperties DEF IInv, ShapeInv, ProcessRawChunk
<1>3. /\ stats' \in StatsType
      /\ stats'.bytesIn = stats.bytesIn + Len(data) /\ stats'.dropped = stats.dropped
      /\ stats'.overflow = stats.overflow
  <2>1. stats' = WithFrame(stats, Len(data))
    BY <1>1 DEF ProcessRawChunk, Enqueue, WithFrame
  <2>2. stats \in StatsType
    BY DEF IInv, ShapeInv, StatsType
  <2> QED BY <1>1, <2>1, <2>2, CountFrame
<1>4. Len(buffer) \in Nat /\ Len(stream) \in Nat
  BY DEF IInv, ShapeInv
<1>5. ShapeInv'
  BY <1>1, <1>2, <1>3 DEF IInv, ShapeInv, ProcessRawChunk, StatsType
<1>6. LoopInv'
  BY DEF IInv, LoopInv, ProcessRawChunk, routeFrames
<1>7. BytesAreAccountedFor' /\ NoFrameDropped'
  <2>1. consumed' = consumed + Len(data) /\ consumed \in Nat /\ buffer' = buffer
    BY DEF IInv, ShapeInv, ProcessRawChunk
  <2>2. stats.bytesIn \in Nat /\ stats.overflow \in Nat
    BY StatsFields DEF IInv, ShapeInv, StatsType
  <2>3. BytesAreAccountedFor /\ NoFrameDropped
    BY DEF IInv
  <2> QED BY <1>1, <1>2, <1>3, <1>4, <2>1, <2>2, <2>3 DEF BytesAreAccountedFor, NoFrameDropped
<1> QED BY <1>5, <1>6, <1>7 DEF IInv

(* The arrival of a chunk preserves the invariant. *)
LEMMA ChunkStep ==
    ASSUME IInv, NEW data \in Chunk, ProcessChunk(data)
    PROVE  IInv'
<1> DEFINE tagged == [i \in 1 .. Len(data) |-> [v |-> data[i], src |-> chunks + 1]]
           grown  == buffer \o tagged
           lost   == Overflow(grown)
<1>1. data \in Seq(Byte) /\ Len(data) \in Nat /\ Len(buffer) \in Nat /\ Len(stream) \in Nat
  BY ChunkType DEF IInv, ShapeInv
<1>2. stream' \in Seq(Byte) /\ Len(stream') = Len(stream) + Len(data)
  BY <1>1, ConcatProperties DEF IInv, ShapeInv, ProcessChunk
<1>3. grown \in Seq([v : Byte, src : Nat]) /\ Len(grown) = Len(buffer) + Len(data)
  <2>1. chunks + 1 \in Nat
    BY DEF IInv, ShapeInv
  <2>2. tagged \in Seq([v : Byte, src : Nat]) /\ Len(tagged) = Len(data)
    BY <1>1, <2>1, TaggedType
  <2> HIDE DEF tagged
  <2>3. buffer \in Seq([v : Byte, src : Nat])
    BY DEF IInv, ShapeInv
  <2>4. grown \in Seq([v : Byte, src : Nat]) /\ Len(grown) = Len(buffer) + Len(tagged)
    BY <2>2, <2>3, ConcatProperties, Zenon
  <2> QED BY <2>2, <2>4, Zenon
<1>4. buffer' = Drop(grown, lost) /\ stats' = CountChunk(Len(data), lost)
  BY DEF ProcessChunk
<1> HIDE DEF grown
<1>5. /\ lost \in 0 .. Len(grown)
      /\ Len(grown) - lost <= Capacity - 1
  BY <1>1, <1>3, Constants DEF Overflow
<1>6. buffer' \in Seq([v : Byte, src : Nat]) /\ Len(buffer') = Len(grown) - lost
  BY <1>3, <1>4, <1>5, DropType
<1>7. lost \in Nat
  BY <1>1, <1>3, <1>5
<1> HIDE DEF lost
<1>8. /\ stats' \in StatsType
      /\ stats'.bytesIn = stats.bytesIn + Len(data) /\ stats'.dropped = stats.dropped
      /\ stats'.overflow = stats.overflow + lost
  <2>1. stats' = WithOverflow(stats, Len(data), lost)
    BY <1>4 DEF CountChunk, WithOverflow
  <2>2. stats \in StatsType
    BY DEF IInv, ShapeInv, StatsType
  <2> QED BY <1>1, <1>7, <2>1, <2>2, CountOverflow
<1>9. ShapeInv'
  <2>1. cfg' \in Configs /\ chunks' \in Nat /\ consumed' \in Nat
    BY DEF IInv, ShapeInv, ProcessChunk
  <2> QED BY <1>2, <1>5, <1>6, <1>8, <2>1 DEF ShapeInv, StatsType
<1>10. LoopInv'
  BY Constants DEF IInv, LoopInv, ProcessChunk
<1>11. BytesAreAccountedFor' /\ NoFrameDropped'
  <2>1. consumed' = consumed /\ consumed \in Nat /\ stats \in StatsType
    BY DEF IInv, ShapeInv, ProcessChunk, StatsType
  <2>2. stats.bytesIn \in Nat /\ stats.overflow \in Nat
    BY <2>1 DEF StatsType
  <2>3. BytesAreAccountedFor /\ NoFrameDropped
    BY DEF IInv
  <2> QED BY <1>1, <1>2, <1>3, <1>6, <1>7, <1>8, <2>1, <2>2, <2>3
          DEF BytesAreAccountedFor, NoFrameDropped
<1> QED BY <1>9, <1>10, <1>11 DEF IInv

(* Taking skip and then n bytes off the front, whatever n is. *)
LEMMA ConsumeEffect ==
    ASSUME IInv, NEW skip \in 0 .. Len(buffer), NEW n \in Nat, NEW p,
           consumeBytes(Drop(buffer, skip), p, n)
    PROVE  /\ buffer' \in Seq([v : Byte, src : Nat])
           /\ Len(buffer') \in Nat /\ Len(buffer') <= Len(buffer)
           /\ consumed' \in Nat
           /\ consumed' + Len(buffer') = consumed + Len(buffer)
           /\ n > 0 /\ skip < Len(buffer) => Len(buffer') < Len(buffer)
<1> DEFINE b == Drop(buffer, skip)
           k == SmallerOf(n, Len(b))
<1>1. b \in Seq([v : Byte, src : Nat]) /\ Len(b) = Len(buffer) - skip /\ Len(buffer) \in Nat
  BY DropType DEF IInv, ShapeInv
<1>2. buffer' = Drop(b, k) /\ consumed' = consumed + (Len(buffer) - Len(buffer'))
  BY DEF consumeBytes
<1> HIDE DEF b
<1>3. k \in 0 .. Len(b) /\ (n > 0 /\ skip < Len(buffer) => k > 0)
  BY <1>1 DEF SmallerOf
<1>4. buffer' \in Seq([v : Byte, src : Nat]) /\ Len(buffer') = Len(b) - k
  BY <1>1, <1>2, <1>3, DropType
<1> HIDE DEF k
<1>5. consumed \in Nat
  BY DEF IInv, ShapeInv
<1> QED BY <1>1, <1>2, <1>3, <1>4, <1>5

(* What every turn of the loop leaves behind, once its effect on the bytes and
   on the statistics is known. *)
LEMMA TurnInv ==
    ASSUME IInv, UNCHANGED <<cfg, chunks, stream>>,
           buffer' \in Seq([v : Byte, src : Nat]), Len(buffer') \in Nat,
           Len(buffer') <= Len(buffer), consumed' \in Nat,
           consumed' + Len(buffer') = consumed + Len(buffer),
           stats' \in StatsType, stats'.bytesIn = stats.bytesIn,
           stats'.overflow = stats.overflow, stats'.dropped = stats.dropped
    PROVE  ShapeInv' /\ BytesAreAccountedFor' /\ NoFrameDropped'
<1>1. /\ Len(buffer) \in Nat /\ Len(buffer) <= Capacity - 1 /\ consumed \in Nat
      /\ stats.bytesIn \in Nat /\ stats.overflow \in Nat
  BY StatsFields DEF IInv, ShapeInv
<1>2. ShapeInv'
  BY <1>1, Constants DEF IInv, ShapeInv
<1>3. BytesAreAccountedFor /\ NoFrameDropped
  BY DEF IInv
<1>4. BytesAreAccountedFor' /\ NoFrameDropped'
  BY <1>1, <1>3 DEF BytesAreAccountedFor, NoFrameDropped
<1> QED BY <1>2, <1>4

(* The bookkeeping at the end of a turn keeps the invariant of the loop. *)
LEMMA EndIterationInv ==
    ASSUME IInv, pc = "scan", UNCHANGED cfg, NEW added \in {0, 1}, EndIteration(added)
    PROVE  LoopInv'
BY Constants DEF IInv, LoopInv, EndIteration, routeFrames

(* A turn of the scan loop preserves the invariant. *)
LEMMA ScanStep ==
    ASSUME IInv, ScanIteration
    PROVE  /\ IInv'
           /\ pc' = "scan" => Len(buffer') < Len(buffer)
<1> DEFINE out == ScanOutcome(Bytes(buffer))
<1>1. /\ pc = "scan" /\ UNCHANGED <<cfg, chunks, stream>>
      /\ LeaveLoop(out) \/ enqueueCaptured(out) \/ DropCandidate(out)
  BY DEF ScanIteration
<1>2. OutcomeOK(out, buffer)
  <2>1. cfg \in Configs /\ cfg.detection # "None"
    BY <1>1 DEF IInv, ShapeInv, LoopInv
  <2>2. Bytes(buffer) \in Seq(Byte) /\ Len(Bytes(buffer)) = Len(buffer)
    BY BytesType DEF IInv, ShapeInv
  <2>3. OutcomeOK(out, Bytes(buffer))
    BY <2>1, <2>2, ScanOutcomeOK
  <2> HIDE DEF out
  <2> QED BY <2>2, <2>3 DEF OutcomeOK
<1> HIDE DEF out
<1>3. out.skip \in 0 .. Len(buffer) /\ out.n \in Nat /\ stats \in StatsType
  BY <1>2 DEF OutcomeOK, IInv, ShapeInv
<1>4. CASE LeaveLoop(out)
  <2>1. consumeBytes(buffer, pending, out.skip) /\ pc' = "idle" /\ queued' = 0
        /\ UNCHANGED <<iterations, frames, stats>>
    BY <1>4 DEF LeaveLoop, routeFrames
  <2>2. Drop(buffer, 0) = buffer /\ Len(buffer) \in Nat
    BY SubSeqFull DEF Drop, IInv, ShapeInv
  <2>3. consumeBytes(Drop(buffer, 0), pending, out.skip)
    BY <2>1, <2>2
  <2>4. out.skip \in Nat /\ 0 \in 0 .. Len(buffer)
    BY <1>3, <2>2
  <2>5. ShapeInv' /\ BytesAreAccountedFor' /\ NoFrameDropped'
    BY <1>1, <1>3, <2>1, <2>3, <2>4, ConsumeEffect, TurnInv
  <2>6. LoopInv'
    BY <2>1 DEF IInv, LoopInv
  <2> QED BY <2>1, <2>5, <2>6 DEF IInv
<1>5. CASE enqueueCaptured(out)
  <2> DEFINE b == Drop(buffer, out.skip)
             p == discardPendingBytes(pending, out.skip)
             q == [p EXCEPT ![StampRecord(p, out.n)].next = @ + 1]
  <2>1. hasRoom /\ out.kind = "frame"
    BY <1>5, RoomInLoop DEF enqueueCaptured
  <2>2. /\ stats' = WithFrame(stats, 0)
        /\ consumeBytes(Drop(buffer, out.skip), q, out.n)
        /\ EndIteration(1)
    BY <1>5, <2>1 DEF enqueueCaptured, Enqueue, WithFrame
  <2> HIDE DEF q
  <2>3. /\ stats' \in StatsType /\ stats'.bytesIn = stats.bytesIn
        /\ stats'.overflow = stats.overflow /\ stats'.dropped = stats.dropped
    <3>1. stats'.bytesIn = stats.bytesIn + 0 /\ stats.bytesIn \in Nat
      BY <1>3, <2>2, CountFrame, StatsFields, Zenon
    <3>2. /\ stats' \in StatsType
          /\ stats'.overflow = stats.overflow /\ stats'.dropped = stats.dropped
      BY <1>3, <2>2, CountFrame
    <3> QED BY <3>1, <3>2
  <2>4. out.n > 0 /\ out.skip < Len(buffer)
    BY <1>2, <2>1 DEF OutcomeOK
  <2>5. ShapeInv' /\ BytesAreAccountedFor' /\ NoFrameDropped' /\ Len(buffer') < Len(buffer)
    BY <1>1, <1>3, <2>2, <2>3, <2>4, ConsumeEffect, TurnInv
  <2>6. LoopInv'
    BY <1>1, <2>2, EndIterationInv
  <2> QED BY <2>5, <2>6 DEF IInv
<1>6. CASE DropCandidate(out)
  <2> DEFINE e == IF out.kind = "reject" THEN 1 ELSE 0
             p == discardPendingBytes(pending, out.skip)
  <2>1. /\ stats' = WithErrors(stats, e)
        /\ consumeBytes(Drop(buffer, out.skip), p, out.n)
        /\ EndIteration(0) /\ out.kind \in {"drop", "reject"}
    BY <1>6 DEF DropCandidate, WithErrors
  <2>2. e \in Nat
    OBVIOUS
  <2> HIDE DEF e, p
  <2>3. /\ stats' \in StatsType /\ stats'.bytesIn = stats.bytesIn
        /\ stats'.overflow = stats.overflow /\ stats'.dropped = stats.dropped
    BY <1>3, <2>1, <2>2, CountError
  <2>4. out.n > 0 /\ out.skip < Len(buffer)
    BY <1>2, <2>1 DEF OutcomeOK
  <2>5. ShapeInv' /\ BytesAreAccountedFor' /\ NoFrameDropped' /\ Len(buffer') < Len(buffer)
    BY <1>1, <1>3, <2>1, <2>3, <2>4, ConsumeEffect, TurnInv
  <2>6. LoopInv'
    BY <1>1, <2>1, EndIterationInv
  <2> QED BY <2>5, <2>6 DEF IInv
<1> QED BY <1>1, <1>4, <1>5, <1>6

(* Every step of the reader preserves the invariant. *)
LEMMA NextIInv ==
    ASSUME IInv, [Next]_vars
    PROVE  /\ IInv'
           /\ (pc = "scan" /\ pc' = "scan" => Len(buffer') < Len(buffer)) \/ UNCHANGED vars
<1>1. ASSUME NEW data \in Chunk, ProcessRawChunk(data)
      PROVE  IInv' /\ pc # "scan"
  BY <1>1, RawChunkStep DEF ProcessRawChunk
<1>2. ASSUME NEW data \in Chunk, ProcessChunk(data)
      PROVE  IInv' /\ pc # "scan"
  BY <1>2, ChunkStep DEF ProcessChunk
<1>3. CASE ScanIteration
  BY <1>3, ScanStep
<1>4. CASE UNCHANGED vars
  BY <1>4 DEF vars, IInv, ShapeInv, LoopInv, BytesAreAccountedFor, NoFrameDropped
<1> QED BY <1>1, <1>2, <1>3, <1>4 DEF Next

(* Every state of the reader satisfies the invariant. *)
THEOREM Invariance == Spec => []IInv
<1>1. IInv /\ [Next]_vars => IInv'
  BY NextIInv
<1> QED BY InitIInv, <1>1, PTL DEF Spec

(* For every capacity of the queue that is at least the turn limit of the scan
   loop, processData never finds the queue full: noteDroppedFrame is dead code
   while readyRead drains the queue synchronously. *)
THEOREM NoFrameIsDropped == Spec => []NoFrameDropped
<1>1. IInv => NoFrameDropped
  BY DEF IInv
<1> QED BY <1>1, Invariance, PTL

(* For every capacity of the ring, every chunk size and every configuration, a
   byte that came in is buffered, consumed by the scan or counted as overflow. *)
THEOREM BytesAccounted == Spec => []BytesAreAccountedFor
<1>1. IInv => BytesAreAccountedFor
  BY DEF IInv
<1> QED BY <1>1, Invariance, PTL

(* For every configuration with non-empty delimiters and every checksum, a
   turn of the scan loop that does not end it shortens the buffer: none of the
   four loops can spin until kMaxFramesPerCall without consuming anything. *)
THEOREM ScanMakesProgress == Spec => EveryTurnConsumes
<1>1. IInv /\ [Next]_vars => [pc = "scan" /\ pc' = "scan" => Len(buffer') < Len(buffer)]_vars
  BY NextIInv
<1> QED BY <1>1, Invariance, PTL DEF Spec, EveryTurnConsumes
-----------------------------------------------------------------------------
(* Running sums of the timing records *)

RecordType == [src : Nat, left : Nat, next : Nat]

(* u[i] is the number of bytes that the first i records of p describe. *)
SumsUpTo(p, u, n) ==
    /\ u \in [0 .. n -> Nat] /\ u[0] = 0
    /\ \A i \in 1 .. n : u[i] = u[i - 1] + p[i].left

Sums(p, u) == SumsUpTo(p, u, Len(p))

(* A set that holds zero and, with any number, the next holds them all. *)
LEMMA SetInduction ==
    ASSUME NEW S, 0 \in S, \A n \in Nat : n \in S => n + 1 \in S
    PROVE  \A n \in Nat : n \in S
<1> DEFINE T == Nat \ S
<1>1. SUFFICES ASSUME T # {} PROVE FALSE
  BY <1>1
<1>2. T \in SUBSET Nat
  OBVIOUS
<1> HIDE DEF T
<1>3. Lowest(T) \in T /\ \A y \in T : Lowest(T) <= y
  BY <1>1, <1>2, LowestProperty
<1> DEFINE m == Lowest(T)
<1>4. m \in Nat /\ m \notin S
  BY <1>3 DEF T
<1> HIDE DEF m
<1>5. m - 1 \in Nat /\ m = (m - 1) + 1
  BY <1>4
<1>6. m - 1 \notin T
  BY <1>3, <1>4, <1>5 DEF m
<1>7. m - 1 \in S
  BY <1>5, <1>6 DEF T
<1> QED BY <1>4, <1>5, <1>7

(* There is such a function for every sequence of records. *)
LEMMA SumsExist ==
    ASSUME NEW p \in Seq(RecordType)
    PROVE  \E u : Sums(p, u)
<1> DEFINE S == {n \in Nat : n <= Len(p) => \E u : SumsUpTo(p, u, n)}
<1>0. Len(p) \in Nat /\ \A i \in 1 .. Len(p) : p[i].left \in Nat
  <2>1. Len(p) \in Nat
    BY LenProperties
  <2>2. ASSUME NEW i \in 1 .. Len(p) PROVE p[i].left \in Nat
    <3>1. p[i] \in RecordType
      BY ElementOfSeq
    <3> QED BY <3>1 DEF RecordType
  <2> QED BY <2>1, <2>2
<1>1. 0 \in S
  <2> DEFINE u == [i \in 0 .. 0 |-> 0]
  <2>1. SumsUpTo(p, u, 0)
    BY DEF SumsUpTo
  <2> HIDE DEF u
  <2> QED BY <2>1
<1>2. ASSUME NEW n \in Nat, n \in S PROVE n + 1 \in S
  <2> SUFFICES ASSUME n + 1 <= Len(p) PROVE \E u : SumsUpTo(p, u, n + 1)
    BY <1>2, n + 1 \in Nat
  <2>1. n <= Len(p) /\ n + 1 \in 1 .. Len(p)
    BY <1>0
  <2>6. PICK u : SumsUpTo(p, u, n)
    BY <1>2, <2>1
  <2>2. /\ u \in [0 .. n -> Nat] /\ u[0] = 0
        /\ \A i \in 1 .. n : u[i] = u[i - 1] + p[i].left
    BY <2>6 DEF SumsUpTo
  <2> DEFINE v == [i \in 0 .. n + 1 |-> IF i = n + 1 THEN u[n] + p[n + 1].left ELSE u[i]]
  <2>3. v \in [0 .. n + 1 -> Nat]
    <3>1. u[n] + p[n + 1].left \in Nat
      BY <1>0, <2>1, <2>2
    <3>2. \A i \in 0 .. n + 1 : i # n + 1 => u[i] \in Nat
      BY <2>2
    <3> QED BY <3>1, <3>2
  <2>4. v[0] = 0 /\ \A i \in 1 .. n + 1 : v[i] = v[i - 1] + p[i].left
    <3>1. v[0] = 0
      BY <2>2
    <3>2. ASSUME NEW i \in 1 .. n + 1 PROVE v[i] = v[i - 1] + p[i].left
      <4>1. i \in 0 .. n + 1 /\ i - 1 \in 0 .. n + 1 /\ i - 1 # n + 1
        OBVIOUS
      <4>2. v[i - 1] = u[i - 1]
        BY <4>1
      <4>3. CASE i = n + 1
        <5>1. i - 1 = n /\ v[i] = u[n] + p[n + 1].left
          BY <4>3
        <5> QED BY <4>2, <4>3, <5>1
      <4>4. CASE i # n + 1
        BY <2>2, <4>1, <4>2, <4>4
      <4> QED BY <4>3, <4>4
    <3> QED BY <3>1, <3>2
  <2> HIDE DEF v
  <2>5. SumsUpTo(p, v, n + 1)
    BY <2>3, <2>4 DEF SumsUpTo
  <2> QED BY <2>5
<1> HIDE DEF S
<1>3. \A n \in Nat : n \in S
  BY <1>1, <1>2, SetInduction
<1>4. Len(p) \in S
  BY <1>0, <1>3
<1> QED BY <1>0, <1>4 DEF S, Sums

(* It is the only function that satisfies BytesUpTo's equation. *)
LEMMA SumsUnique ==
    ASSUME NEW p \in Seq(RecordType), NEW u, Sums(p, u), NEW v,
           v = [i \in 0 .. Len(p) |-> IF i = 0 THEN 0 ELSE v[i - 1] + p[i].left]
    PROVE  v = u
<1> DEFINE S == {n \in Nat : n <= Len(p) => v[n] = u[n]}
<1>0. Len(p) \in Nat
  BY LenProperties
<1>1. 0 \in S
  BY <1>0 DEF Sums, SumsUpTo
<1>2. ASSUME NEW n \in Nat, n \in S PROVE n + 1 \in S
  <2> SUFFICES ASSUME n + 1 <= Len(p) PROVE v[n + 1] = u[n + 1]
    BY <1>2
  <2>1. n <= Len(p) /\ n + 1 \in 1 .. Len(p) /\ n + 1 \in 0 .. Len(p) /\ n + 1 # 0
        /\ (n + 1) - 1 = n
    BY <1>0
  <2>2. v[n + 1] = v[(n + 1) - 1] + p[n + 1].left
    BY <2>1
  <2>3. u[n + 1] = u[(n + 1) - 1] + p[n + 1].left
    BY <2>1 DEF Sums, SumsUpTo
  <2> QED BY <1>2, <2>1, <2>2, <2>3
<1> HIDE DEF S
<1>3. \A n \in Nat : n \in S
  BY <1>1, <1>2, SetInduction
<1>4. \A n \in 0 .. Len(p) : v[n] = u[n]
  <2> SUFFICES ASSUME NEW n \in 0 .. Len(p) PROVE v[n] = u[n]
    OBVIOUS
  <2>1. n \in Nat /\ n <= Len(p)
    BY <1>0
  <2>2. n \in S
    BY <1>3, <2>1
  <2> QED BY <2>1, <2>2 DEF S
<1>5. DOMAIN u = 0 .. Len(p) /\ u = [i \in 0 .. Len(p) |-> u[i]]
  BY DEF Sums, SumsUpTo
<1>6. DOMAIN v = 0 .. Len(p) /\ v = [i \in 0 .. Len(p) |-> v[i]]
  <2>1. DOMAIN v = 0 .. Len(p)
    OBVIOUS
  <2> QED BY <2>1
<1> QED BY <1>4, <1>5, <1>6

(* BytesUpTo is that function. *)
LEMMA BytesUpToSums ==
    ASSUME NEW p \in Seq(RecordType)
    PROVE  Sums(p, BytesUpTo(p))
<1> DEFINE sum[i \in 0 .. Len(p)] == IF i = 0 THEN 0 ELSE sum[i - 1] + p[i].left
<1>1. PICK u : Sums(p, u)
  BY SumsExist
<1>2. u = [i \in 0 .. Len(p) |-> IF i = 0 THEN 0 ELSE u[i - 1] + p[i].left]
  <2>1. /\ u = [i \in 0 .. Len(p) |-> u[i]]
        /\ \A i \in 0 .. Len(p) : u[i] = IF i = 0 THEN 0 ELSE u[i - 1] + p[i].left
    BY <1>1, LenProperties DEF Sums, SumsUpTo
  <2> QED BY <2>1, Zenon
<1>3. sum = [i \in 0 .. Len(p) |-> IF i = 0 THEN 0 ELSE sum[i - 1] + p[i].left]
  BY <1>2, Zenon
<1>4. BytesUpTo(p) = sum
  BY Zenon DEF BytesUpTo
<1> HIDE DEF sum
<1>5. sum = u
  BY <1>1, <1>3, SumsUnique
<1> QED BY <1>1, <1>4, <1>5

(* Anything that sums the records is what BytesUpTo computes. *)
LEMMA SumsAreBytesUpTo ==
    ASSUME NEW p \in Seq(RecordType), NEW u, Sums(p, u)
    PROVE  BytesUpTo(p) = u
<1> DEFINE w == BytesUpTo(p)
<1>1. Sums(p, w)
  BY BytesUpToSums
<1> HIDE DEF w
<1>2. w = [i \in 0 .. Len(p) |-> IF i = 0 THEN 0 ELSE w[i - 1] + p[i].left]
  <2>1. /\ w = [i \in 0 .. Len(p) |-> w[i]]
        /\ \A i \in 0 .. Len(p) : w[i] = IF i = 0 THEN 0 ELSE w[i - 1] + p[i].left
    BY <1>1, LenProperties DEF Sums, SumsUpTo
  <2> QED BY <2>1, Zenon
<1>3. w = u
  BY <1>2, SumsUnique
<1> QED BY <1>3 DEF w

(* It grows with the number of records. *)
LEMMA SumsGrow ==
    ASSUME NEW p \in Seq(RecordType), NEW u, Sums(p, u)
    PROVE  \A j, k \in 0 .. Len(p) : j <= k => u[j] <= u[k]
<1> DEFINE S == {n \in Nat : n <= Len(p) => \A j \in 0 .. n : u[j] <= u[n]}
<1>0. /\ Len(p) \in Nat /\ \A i \in 1 .. Len(p) : p[i].left \in Nat
      /\ \A i \in 0 .. Len(p) : u[i] \in Nat
  <2>1. ASSUME NEW i \in 1 .. Len(p) PROVE p[i].left \in Nat
    <3>1. p[i] \in RecordType
      BY ElementOfSeq
    <3> QED BY <3>1 DEF RecordType
  <2> QED BY <2>1, LenProperties DEF Sums, SumsUpTo
<1>1. 0 \in S
  BY <1>0
<1>2. ASSUME NEW n \in Nat, n \in S PROVE n + 1 \in S
  <2> SUFFICES ASSUME n + 1 <= Len(p), NEW j \in 0 .. n + 1 PROVE u[j] <= u[n + 1]
    BY <1>2
  <2>1. n <= Len(p) /\ n + 1 \in 1 .. Len(p) /\ (n + 1) - 1 = n /\ n \in 0 .. Len(p)
    BY <1>0
  <2>2. u[n + 1] = u[n] + p[n + 1].left
    BY <2>1 DEF Sums, SumsUpTo
  <2>3. u[n] <= u[n + 1] /\ u[n] \in Nat /\ u[n + 1] \in Nat
    BY <1>0, <2>1, <2>2
  <2>4. CASE j = n + 1
    BY <2>3, <2>4
  <2>5. CASE j \in 0 .. n
    <3>1. u[j] <= u[n] /\ u[j] \in Nat
      BY <1>0, <1>2, <2>1, <2>5
    <3> QED BY <2>3, <3>1
  <2> QED BY <2>4, <2>5
<1> HIDE DEF S
<1>3. \A n \in Nat : n \in S
  BY <1>1, <1>2, SetInduction
<1> QED BY <1>0, <1>3 DEF S

(* What the numbers of a sequence of records and its sums are. *)
LEMMA SumsFacts ==
    ASSUME NEW p \in Seq(RecordType), NEW u, Sums(p, u)
    PROVE  /\ Len(p) \in Nat /\ u[0] = 0 /\ u \in [0 .. Len(p) -> Nat]
           /\ \A i \in 0 .. Len(p) : u[i] \in Nat
           /\ \A i \in 1 .. Len(p) : /\ p[i] \in RecordType /\ p[i].left \in Nat
                                     /\ i - 1 \in 0 .. Len(p) /\ i \in 0 .. Len(p)
                                     /\ u[i] = u[i - 1] + p[i].left
<1>1. Len(p) \in Nat /\ \A i \in 1 .. Len(p) : p[i] \in RecordType
  BY LenProperties, ElementOfSeq
<1>2. \A i \in 1 .. Len(p) : p[i].left \in Nat
  BY <1>1 DEF RecordType
<1> QED BY <1>1, <1>2 DEF Sums, SumsUpTo

(* A new record adds its bytes. *)
LEMMA AppendSums ==
    ASSUME NEW p \in Seq(RecordType), NEW u, Sums(p, u), NEW r \in RecordType
    PROVE  /\ Append(p, r) \in Seq(RecordType)
           /\ Sums(Append(p, r), [i \in 0 .. Len(p) + 1 |->
                                     IF i = Len(p) + 1 THEN u[Len(p)] + r.left ELSE u[i]])
<1> DEFINE q == Append(p, r)
           n == Len(p)
           v == [i \in 0 .. n + 1 |-> IF i = n + 1 THEN u[n] + r.left ELSE u[i]]
<1>1. /\ q \in Seq(RecordType) /\ Len(q) = n + 1 /\ q[n + 1] = r
      /\ \A i \in 1 .. n : q[i] = p[i]
  BY AppendProperties
<1>2. n \in Nat /\ u[n] \in Nat /\ r.left \in Nat /\ \A i \in 0 .. n : u[i] \in Nat
  BY SumsFacts DEF RecordType
<1> HIDE DEF q
<1>3. v \in [0 .. n + 1 -> Nat]
  BY <1>2
<1>4. v[0] = 0
  BY <1>2, SumsFacts
<1>5. ASSUME NEW i \in 1 .. n + 1 PROVE v[i] = v[i - 1] + q[i].left
  <2>1. i \in 0 .. n + 1 /\ i - 1 \in 0 .. n + 1 /\ i - 1 # n + 1
    BY <1>2
  <2>2. v[i - 1] = u[i - 1]
    BY <2>1
  <2>3. CASE i = n + 1
    <3>1. i - 1 = n /\ v[i] = u[n] + r.left
      BY <1>2, <2>3
    <3> QED BY <1>1, <2>2, <2>3, <3>1
  <2>4. CASE i # n + 1
    <3>1. i \in 1 .. n /\ v[i] = u[i]
      BY <1>2, <2>1, <2>4
    <3> QED BY <1>1, <2>2, <3>1, SumsFacts
  <2> QED BY <2>3, <2>4
<1> HIDE DEF v
<1>6. Sums(q, v)
  BY <1>1, <1>3, <1>4, <1>5 DEF Sums, SumsUpTo
<1> QED BY <1>1, <1>6 DEF q, v

(* A record is its fields. *)
LEMMA RecordFields ==
    ASSUME NEW a \in Nat, NEW b \in Nat, NEW c \in Nat, NEW x, x = [src |-> a, left |-> b, next |-> c]
    PROVE  x \in RecordType /\ x.src = a /\ x.left = b /\ x.next = c
BY DEF RecordType

(* q is p after record r gave out a stamp. *)
Stamped(p, u, r, q) ==
    /\ q \in Seq(RecordType) /\ Len(q) = Len(p) /\ Sums(q, u)
    /\ \A i \in 1 .. Len(p) : q[i].src = p[i].src
    /\ \A i \in 1 .. Len(p) : i # r => q[i] = p[i]
    /\ q[r].next = p[r].next + 1

(* A record whose bytes stay the same leaves the sums alone. *)
LEMMA StampSums ==
    ASSUME NEW p \in Seq(RecordType), NEW u, Sums(p, u), NEW r \in 1 .. Len(p)
    PROVE  Stamped(p, u, r, [p EXCEPT ![r].next = @ + 1])
<1> DEFINE q == [p EXCEPT ![r].next = @ + 1]
<1>1. Len(p) \in Nat /\ p[r] \in RecordType /\ p[r].next \in Nat
  BY SumsFacts DEF RecordType
<1> DEFINE e == [p[r] EXCEPT !.next = @ + 1]
<1>2. e \in RecordType /\ e.src = p[r].src /\ e.left = p[r].left /\ e.next = p[r].next + 1
  <2> DEFINE x == p[r]
  <2>1. x \in RecordType /\ e = [x EXCEPT !.next = @ + 1]
    BY <1>1
  <2> HIDE DEF x, e
  <2>2. e = [src |-> x.src, left |-> x.left, next |-> x.next + 1] /\ x.next \in Nat
        /\ x.src \in Nat /\ x.left \in Nat
    <3>1. x = [src |-> x.src, left |-> x.left, next |-> x.next] /\ x.next \in Nat
          /\ x.src \in Nat /\ x.left \in Nat
      BY <2>1 DEF RecordType
    <3>2. e = [src |-> x.src, left |-> x.left, next |-> x.next + 1]
      BY <2>1, <3>1, Zenon
    <3> QED BY <3>1, <3>2
  <2>3. e \in RecordType /\ e.src = x.src /\ e.left = x.left /\ e.next = x.next + 1
    <3>1. x.next + 1 \in Nat /\ x.src \in Nat /\ x.left \in Nat
      BY <2>2
    <3>2. e = [src |-> x.src, left |-> x.left, next |-> x.next + 1]
      BY <2>2
    <3> QED BY <3>1, <3>2, RecordFields
  <2> QED BY <2>3 DEF x
<1>3. q = [p EXCEPT ![r] = e]
  OBVIOUS
<1> HIDE DEF e
<1>4. q \in Seq(RecordType) /\ Len(q) = Len(p) /\ q[r] = e /\ \A i \in 1 .. Len(p) : i # r => q[i] = p[i]
  BY <1>2, <1>3, ExceptSeq
<1>5. \A i \in 1 .. Len(p) : q[i].left = p[i].left /\ q[i].src = p[i].src
  BY <1>2, <1>4
<1>6. Sums(q, u)
  BY <1>4, <1>5 DEF Sums, SumsUpTo
<1> HIDE DEF q
<1> QED BY <1>2, <1>4, <1>5, <1>6 DEF Stamped, q

(* The record that a count of bytes ends in. *)
LEMMA EndsIn ==
    ASSUME NEW p \in Seq(RecordType), NEW u, Sums(p, u), NEW n \in Nat,
           NEW S, S = {i \in 1 .. Len(p) : n < u[i]}, S # {}
    PROVE  /\ Lowest(S) \in 1 .. Len(p) /\ n < u[Lowest(S)] /\ u[Lowest(S) - 1] <= n
<1>1. S \in SUBSET Nat
  OBVIOUS
<1> DEFINE k == Lowest(S)
<1>2. k \in S /\ \A j \in S : k <= j
  BY <1>1, LowestProperty
<1> HIDE DEF k
<1>3. k \in 1 .. Len(p) /\ n < u[k] /\ Len(p) \in Nat
  <2>1. Len(p) \in Nat
    BY SumsFacts
  <2>2. k \in {i \in 1 .. Len(p) : n < u[i]}
    BY <1>2
  <2> QED BY <2>1, <2>2
<1>4. u[k - 1] <= n
  <2> SUFFICES ASSUME ~(u[k - 1] <= n) PROVE FALSE
    OBVIOUS
  <2>1. k - 1 \in 0 .. Len(p) /\ u[k - 1] \in Nat
    BY <1>3, SumsFacts
  <2>2. n < u[k - 1]
    BY <2>1
  <2>3. k - 1 # 0
    BY <2>2, SumsFacts
  <2>4. k - 1 \in 1 .. Len(p)
    BY <1>3, <2>1, <2>3
  <2>5. k - 1 \in S
    BY <2>2, <2>4
  <2> QED BY <1>2, <1>3, <2>5
<1> QED BY <1>3, <1>4 DEF k

(* q is p without its first n bytes, d whole records and a part of the next. *)
Shortened(p, u, n, d, q) ==
    /\ d \in 0 .. Len(p) - 1 /\ u[d] <= n /\ n < u[d + 1]
    /\ q \in Seq(RecordType) /\ Len(q) = Len(p) - d
    /\ \A i \in 1 .. Len(q) : q[i].src = p[i + d].src /\ q[i].next = p[i + d].next
    /\ Sums(q, [i \in 0 .. Len(q) |-> IF i = 0 THEN 0 ELSE u[i + d] - n])

(* What discardPendingBytes does to the records. *)
LEMMA DiscardShortens ==
    ASSUME NEW p \in Seq(RecordType), NEW u, Sums(p, u), NEW n \in Nat
    PROVE  \/ u[Len(p)] <= n /\ discardPendingBytes(p, n) = <<>>
           \/ \E d \in 0 .. Len(p) - 1 : Shortened(p, u, n, d, discardPendingBytes(p, n))
<1>1. BytesUpTo(p) = u
  BY SumsAreBytesUpTo
<1> DEFINE kept == {i \in 1 .. Len(p) : u[i] > n}
           q == discardPendingBytes(p, n)
<1>2. Len(p) \in Nat /\ \A i \in 0 .. Len(p) : u[i] \in Nat
  BY SumsFacts
<1>3. CASE kept = {}
  <2>1. q = <<>>
    BY <1>1, <1>3, Zenon DEF discardPendingBytes
  <2>2. u[Len(p)] <= n
    <3>1. CASE Len(p) = 0
      <4>1. u[0] = 0
        BY SumsFacts
      <4> QED BY <3>1, <4>1
    <3>2. CASE Len(p) # 0
      <4>1. Len(p) \in 1 .. Len(p) /\ Len(p) \in 0 .. Len(p)
        BY <1>2, <3>2
      <4>2. ~(u[Len(p)] > n)
        BY <1>3, <4>1
      <4> QED BY <1>2, <4>1, <4>2
    <3> QED BY <3>1, <3>2
  <2> QED BY <2>1, <2>2
<1>4. CASE kept # {}
  <2> DEFINE k == Lowest(kept)
             d == k - 1
             s == Drop(p, k - 1)
  <2>1. q = [s EXCEPT ![1].left = u[k] - n]
    BY <1>1, <1>4, Zenon DEF discardPendingBytes
  <2>2. kept = {i \in 1 .. Len(p) : n < u[i]}
    BY <1>2
  <2>3. k \in 1 .. Len(p) /\ n < u[k] /\ u[k - 1] <= n
    <3> HIDE DEF kept
    <3> QED BY <1>4, <2>2, EndsIn
  <2> HIDE DEF k, kept, q
  <2>4. d \in 0 .. Len(p) - 1 /\ d + 1 = k /\ d \in Nat /\ d \in 0 .. Len(p)
        /\ k \in 0 .. Len(p) /\ u[k] \in Nat
    BY <1>2, <2>3
  <2>5. s \in Seq(RecordType) /\ Len(s) = Len(p) - d /\ Len(s) \in Nat /\ Len(s) > 0
    <3>1. d = k - 1
      OBVIOUS
    <3>2. s \in Seq(RecordType) /\ Len(s) = Len(p) - d
      BY <2>4, <3>1, DropType
    <3> QED BY <1>2, <2>4, <3>2
  <2>6. \A i \in 1 .. Len(s) : s[i] = p[i + d] /\ i + d \in 1 .. Len(p)
    BY <1>2, <2>4, SubSeqProperties DEF Drop
  <2> HIDE DEF s, d
  <2> DEFINE x == s[1]
             e == [x EXCEPT !.left = u[k] - n]
  <2>7. /\ x \in RecordType /\ x = p[k] /\ u[k] - n \in Nat
        /\ x = [src |-> x.src, left |-> x.left, next |-> x.next]
        /\ x.src \in Nat /\ x.next \in Nat
    <3>1. 1 \in 1 .. Len(s) /\ 1 + d = k
      BY <2>4, <2>5
    <3>2. x = p[k] /\ x \in RecordType
      BY <2>3, <2>6, <3>1, SumsFacts
    <3> HIDE DEF x
    <3>3. /\ x = [src |-> x.src, left |-> x.left, next |-> x.next]
          /\ x.src \in Nat /\ x.next \in Nat
      BY <3>2 DEF RecordType
    <3>4. u[k] - n \in Nat
      BY <2>3, <2>4
    <3> QED BY <3>2, <3>3, <3>4
  <2>8. q = [s EXCEPT ![1] = e]
    BY <2>1
  <2> HIDE DEF x
  <2>9. e = [src |-> x.src, left |-> u[k] - n, next |-> x.next]
    BY <2>7
  <2> HIDE DEF e
  <2>10. e \in RecordType /\ e.src = x.src /\ e.left = u[k] - n /\ e.next = x.next
    BY <2>7, <2>9, RecordFields
  <2>11. /\ q \in Seq(RecordType) /\ Len(q) = Len(s) /\ q[1] = e
         /\ \A i \in 2 .. Len(s) : q[i] = s[i]
    BY <2>5, <2>8, <2>10, ExceptSeq
  <2>12. \A i \in 1 .. Len(q) : q[i].src = p[i + d].src /\ q[i].next = p[i + d].next
    <3> SUFFICES ASSUME NEW i \in 1 .. Len(q)
                 PROVE  q[i].src = p[i + d].src /\ q[i].next = p[i + d].next
      OBVIOUS
    <3>1. CASE i = 1
      <4>1. 1 + d = k
        BY <2>4
      <4> QED BY <2>7, <2>10, <2>11, <3>1, <4>1
    <3>2. CASE i # 1
      <4>1. i \in 2 .. Len(s) /\ i \in 1 .. Len(s)
        BY <2>5, <2>11, <3>2
      <4> QED BY <2>6, <2>11, <4>1
    <3> QED BY <3>1, <3>2
  <2> DEFINE v == [i \in 0 .. Len(q) |-> IF i = 0 THEN 0 ELSE u[i + d] - n]
  <2>13. Sums(q, v)
    <3>1. \A i \in 1 .. Len(q) : i + d \in 1 .. Len(p) /\ i + d >= k /\ (i + d) - 1 = (i - 1) + d
      BY <1>2, <2>4, <2>5, <2>11
    <3>2. \A i \in 1 .. Len(q) : u[i + d] \in Nat /\ n < u[i + d]
      <4> SUFFICES ASSUME NEW i \in 1 .. Len(q) PROVE u[i + d] \in Nat /\ n < u[i + d]
        OBVIOUS
      <4>1. i + d \in 0 .. Len(p) /\ k <= i + d
        BY <1>2, <2>4, <3>1
      <4>2. u[k] <= u[i + d] /\ u[i + d] \in Nat
        BY <1>2, <2>4, <4>1, SumsGrow
      <4> QED BY <2>3, <2>4, <4>2
    <3>3. v \in [0 .. Len(q) -> Nat]
      <4>1. \A i \in 0 .. Len(q) : i # 0 => i \in 1 .. Len(q)
        BY <2>5, <2>11
      <4>2. \A i \in 1 .. Len(q) : u[i + d] - n \in Nat
        BY <3>2
      <4> QED BY <4>1, <4>2
    <3>4. v[0] = 0
      BY <2>5, <2>11
    <3>5. ASSUME NEW i \in 1 .. Len(q) PROVE v[i] = v[i - 1] + q[i].left
      <4>1. i \in 0 .. Len(q) /\ i # 0 /\ v[i] = u[i + d] - n
        BY <2>5, <2>11
      <4>2. CASE i = 1
        <5>1. i + d = k /\ v[i - 1] = 0
          BY <2>4, <3>4, <4>2
        <5> QED BY <2>3, <2>4, <2>10, <2>11, <4>1, <4>2, <5>1
      <4>3. CASE i # 1
        <5>1. /\ i - 1 \in 0 .. Len(q) /\ i - 1 # 0 /\ i - 1 \in 1 .. Len(q)
              /\ i \in 2 .. Len(s) /\ i \in 1 .. Len(s)
          BY <2>5, <2>11, <4>3
        <5>2. v[i - 1] = u[(i - 1) + d] - n
          BY <5>1
        <5>3. q[i].left = p[i + d].left
          BY <2>6, <2>11, <5>1
        <5>4. u[i + d] = u[(i - 1) + d] + p[i + d].left /\ p[i + d].left \in Nat
          BY <3>1, SumsFacts
        <5>5. u[i + d] \in Nat /\ u[(i - 1) + d] \in Nat
          BY <3>2, <5>1
        <5> QED BY <4>1, <5>2, <5>3, <5>4, <5>5
      <4> QED BY <4>2, <4>3
    <3> HIDE DEF v
    <3> QED BY <3>3, <3>4, <3>5 DEF Sums, SumsUpTo
  <2>14. Shortened(p, u, n, d, q)
    <3>1. Len(q) = Len(p) - d /\ n < u[d + 1]
      BY <2>3, <2>4, <2>5, <2>11
    <3>2. u[d] <= n
      <4>1. d = k - 1
        BY DEF d
      <4> QED BY <2>3, <4>1
    <3> QED BY <2>4, <2>11, <2>12, <2>13, <3>1, <3>2, Zenon DEF Shortened
  <2> QED BY <2>4, <2>14 DEF q
<1> QED BY <1>3, <1>4
-----------------------------------------------------------------------------
(* What the timing records say of the buffer *)

BufferType == Seq([v : Byte, src : Nat])

(* Record k describes the bytes from u[k - 1] on, up to u[k]. *)
DescribedBy(p, u, b) ==
    /\ u[Len(p)] = Len(b)
    /\ \A k \in 1 .. Len(p), i \in 1 .. Len(b) :
          u[k - 1] < i /\ i <= u[k] => p[k].src = b[i].src

(* The records describe the buffer, one for each chunk that is left of, in the
   order of arrival. *)
RecordsOf(p, b, last) ==
    /\ p \in Seq(RecordType) /\ DescribedBy(p, BytesUpTo(p), b)
    /\ \A j, k \in 1 .. Len(p) : j < k => p[j].src < p[k].src
    /\ \A k \in 1 .. Len(p) : p[k].src <= last

(* The order of stamps. *)
Before(src, nth, src2, nth2) == src < src2 \/ (src = src2 /\ nth < nth2)

(* No frame has a stamp that a record may still give out. *)
StampsPast(fs, p) ==
    \A i \in 1 .. Len(fs), k \in 1 .. Len(p) :
        Before(fs[i].src, fs[i].nth, p[k].src, p[k].next)

(* A chunk is appended with a record of its own. *)
LEMMA ChunkRecorded ==
    ASSUME NEW p, NEW b \in BufferType, NEW c \in Nat, RecordsOf(p, b, c),
           NEW data \in Seq(Byte), NEW t,
           t = [i \in 1 .. Len(data) |-> [v |-> data[i], src |-> c + 1]],
           NEW r, r = [src |-> c + 1, left |-> Len(data), next |-> 0],
           NEW fs, \A i \in 1 .. Len(fs) : fs[i].src \in Nat /\ fs[i].src <= c, StampsPast(fs, p)
    PROVE  RecordsOf(Append(p, r), b \o t, c + 1) /\ StampsPast(fs, Append(p, r))
<1> DEFINE q == Append(p, r)
           g == b \o t
           n == Len(p)
           u == BytesUpTo(p)
<1>1. p \in Seq(RecordType) /\ Sums(p, u)
  BY BytesUpToSums DEF RecordsOf
<1> HIDE DEF u
<1>2. /\ Len(data) \in Nat /\ Len(b) \in Nat /\ n \in Nat /\ u[n] = Len(b) /\ n \in 0 .. n
      /\ \A i \in 0 .. n : u[i] \in Nat
  <2>1. Len(data) \in Nat /\ Len(b) \in Nat
    BY LenProperties DEF BufferType
  <2>2. n \in Nat /\ \A i \in 0 .. n : u[i] \in Nat
    BY <1>1, SumsFacts
  <2> QED BY <2>1, <2>2 DEF RecordsOf, DescribedBy, u
<1>3. r \in RecordType /\ r.src = c + 1 /\ r.left = Len(data) /\ r.next = 0
  BY <1>2 DEF RecordType
<1>4. /\ q \in Seq(RecordType) /\ Len(q) = n + 1 /\ q[n + 1] = r
      /\ \A i \in 1 .. n : q[i] = p[i]
  BY <1>1, <1>3, AppendProperties
<1> DEFINE v == [i \in 0 .. n + 1 |-> IF i = n + 1 THEN u[n] + r.left ELSE u[i]]
<1>5. BytesUpTo(q) = v
  <2> HIDE DEF v
  <2>1. Sums(q, v)
    BY <1>1, <1>3, AppendSums DEF v
  <2> QED BY <1>4, <2>1, SumsAreBytesUpTo
<1>6. /\ Len(g) = Len(b) + Len(data) /\ \A i \in 1 .. Len(b) : g[i] = b[i]
      /\ \A i \in Len(b) + 1 .. Len(b) + Len(data) : g[i].src = c + 1
  <2>1. t \in BufferType /\ Len(t) = Len(data)
    BY TaggedType DEF BufferType
  <2>2. /\ Len(g) = Len(b) + Len(t)
        /\ \A i \in 1 .. Len(b) + Len(t) : g[i] = IF i <= Len(b) THEN b[i] ELSE t[i - Len(b)]
    BY <2>1, ConcatProperties DEF BufferType
  <2>3. \A i \in 1 .. Len(data) : t[i].src = c + 1
    OBVIOUS
  <2> HIDE DEF g
  <2>4. \A i \in 1 .. Len(b) : g[i] = b[i]
    BY <1>2, <2>1, <2>2
  <2>5. ASSUME NEW i \in Len(b) + 1 .. Len(b) + Len(data) PROVE g[i].src = c + 1
    <3>1. i \in 1 .. Len(b) + Len(t) /\ ~(i <= Len(b)) /\ i - Len(b) \in 1 .. Len(data)
      BY <1>2, <2>1
    <3> QED BY <2>2, <2>3, <3>1
  <2> QED BY <2>1, <2>2, <2>4, <2>5
<1> HIDE DEF g, q
<1>12. \A k \in 1 .. n + 1 : k # n + 1 => k \in 1 .. n /\ k \in 0 .. n /\ k - 1 \in 0 .. n
  <2>1. n \in Nat
    BY <1>2
  <2> HIDE DEF n
  <2> QED BY <2>1
<1>7. DescribedBy(q, v, g)
  <2>1. v[n + 1] = Len(g)
    BY <1>2, <1>3, <1>6
  <2>2. ASSUME NEW k \in 1 .. n + 1, NEW i \in 1 .. Len(g), v[k - 1] < i, i <= v[k]
        PROVE  q[k].src = g[i].src
    <3>1. CASE k = n + 1
      <4>1. k - 1 = n /\ v[n] = u[n]
        BY <1>2, <3>1
      <4>2. i \in Len(b) + 1 .. Len(b) + Len(data)
        BY <1>2, <1>6, <2>2, <4>1
      <4>3. g[i].src = c + 1
        BY <1>6, <4>2
      <4> QED BY <1>3, <1>4, <3>1, <4>3
    <3>2. CASE k # n + 1
      <4>1. k \in 1 .. n /\ k \in 0 .. n /\ k - 1 \in 0 .. n
        BY <1>12, <3>2
      <4>2. v[k - 1] = u[k - 1] /\ v[k] = u[k]
        BY <1>2, <4>1
      <4>3. u[k] <= u[n] /\ u[k] \in Nat
        BY <1>1, <1>2, <4>1, SumsGrow
      <4>4. i \in 1 .. Len(b)
        BY <1>2, <1>6, <2>2, <4>2, <4>3
      <4>5. p[k].src = b[i].src
        BY <2>2, <4>1, <4>2, <4>4 DEF RecordsOf, DescribedBy, u
      <4> QED BY <1>4, <1>6, <4>1, <4>4, <4>5
    <3> QED BY <3>1, <3>2
  <2> HIDE DEF v
  <2> QED BY <1>4, <2>1, <2>2 DEF DescribedBy
<1> HIDE DEF v
<1>8. \A k \in 1 .. n : p[k].src \in Nat /\ p[k].src <= c
  BY <1>1, SumsFacts DEF RecordsOf, RecordType
<1>9. \A j, k \in 1 .. Len(q) : j < k => q[j].src < q[k].src
  <2> SUFFICES ASSUME NEW j \in 1 .. n + 1, NEW k \in 1 .. n + 1, j < k PROVE q[j].src < q[k].src
    BY <1>4
  <2>1. j \in 1 .. n
    BY <1>2
  <2>2. CASE k = n + 1
    BY <1>3, <1>4, <1>8, <2>1, <2>2
  <2>3. CASE k # n + 1
    <3>1. k \in 1 .. n
      BY <1>12, <2>3
    <3> QED BY <1>4, <2>1, <3>1 DEF RecordsOf
  <2> QED BY <2>2, <2>3
<1>10. \A k \in 1 .. Len(q) : q[k].src <= c + 1
  <2> SUFFICES ASSUME NEW k \in 1 .. n + 1 PROVE q[k].src <= c + 1
    BY <1>4
  <2>1. CASE k = n + 1
    BY <1>3, <1>4, <2>1
  <2>2. CASE k # n + 1
    <3>1. k \in 1 .. n
      BY <1>12, <2>2
    <3> QED BY <1>4, <1>8, <3>1
  <2> QED BY <2>1, <2>2
<1>11. StampsPast(fs, q)
  <2> SUFFICES ASSUME NEW i \in 1 .. Len(fs), NEW k \in 1 .. n + 1
               PROVE  Before(fs[i].src, fs[i].nth, q[k].src, q[k].next)
    BY <1>4 DEF StampsPast
  <2>1. CASE k = n + 1
    BY <1>3, <1>4, <2>1 DEF Before
  <2>2. CASE k # n + 1
    <3>1. k \in 1 .. n
      BY <1>12, <2>2
    <3> QED BY <1>4, <3>1 DEF StampsPast
  <2> QED BY <2>1, <2>2
<1> QED BY <1>4, <1>5, <1>7, <1>9, <1>10, <1>11 DEF RecordsOf, q, g

(* Every record of q is one of p that reaches beyond n bytes. *)
KeptOf(p, n, q) ==
    \A k \in 1 .. Len(q) : \E j \in 1 .. Len(p) :
        q[k].src = p[j].src /\ q[k].next = p[j].next /\ n < BytesUpTo(p)[j]

(* What is left after a drop is the rest, in place. *)
LEMMA DropElements ==
    ASSUME NEW S, NEW s \in Seq(S), NEW n \in 0 .. Len(s)
    PROVE  \A i \in 1 .. Len(Drop(s, n)) : Drop(s, n)[i] = s[i + n] /\ i + n \in 1 .. Len(s)
<1>1. Len(Drop(s, n)) = Len(s) - n /\ Len(s) \in Nat
  BY DropType, LenProperties
<1> SUFFICES ASSUME NEW i \in 1 .. Len(s) - n
             PROVE  Drop(s, n)[i] = s[i + n] /\ i + n \in 1 .. Len(s)
  BY <1>1
<1> QED BY <1>1, SubSeqProperties DEF Drop

(* Bytes taken off the front of the buffer are taken off the records. *)
LEMMA DiscardRecorded ==
    ASSUME NEW p, NEW b \in BufferType, NEW c, RecordsOf(p, b, c), NEW n \in Nat,
           NEW q, q = discardPendingBytes(p, n)
    PROVE  RecordsOf(q, Drop(b, SmallerOf(n, Len(b))), c) /\ KeptOf(p, n, q)
<1> DEFINE u == BytesUpTo(p)
           m == SmallerOf(n, Len(b))
           g == Drop(b, m)
<1>1. p \in Seq(RecordType) /\ Sums(p, u)
  BY BytesUpToSums DEF RecordsOf
<1>2. Len(p) \in Nat /\ Len(b) \in Nat /\ BytesUpTo(p)[Len(p)] = Len(b)
  BY <1>1, SumsFacts, LenProperties DEF BufferType, RecordsOf, DescribedBy
<1>3. m \in 0 .. Len(b)
  BY <1>2 DEF SmallerOf
<1>4. g \in BufferType /\ Len(g) = Len(b) - m
  BY <1>3, DropType DEF BufferType
<1>5. \A i \in 1 .. Len(g) : g[i] = b[i + m] /\ i + m \in 1 .. Len(b)
  <2> HIDE DEF m
  <2>1. b \in Seq([v : Byte, src : Nat]) /\ Len(b) \in Nat
    BY <1>2 DEF BufferType
  <2> QED BY <1>3, <2>1, DropElements
<1>6. CASE u[Len(p)] <= n /\ q = <<>>
  <2>1. m = Len(b)
    BY <1>2, <1>6 DEF SmallerOf
  <2>2. q \in Seq(RecordType) /\ Len(q) = 0
    BY <1>6
  <2>3. BytesUpTo(q)[0] = 0
    BY <2>2, BytesUpToSums, SumsFacts
  <2>4. Len(g) = 0
    BY <1>2, <1>4, <2>1
  <2> HIDE DEF g, m, u
  <2>5. DescribedBy(q, BytesUpTo(q), g)
    BY <2>2, <2>3, <2>4 DEF DescribedBy
  <2> QED BY <2>2, <2>5 DEF RecordsOf, KeptOf, g, m
<1>7. CASE \E d \in 0 .. Len(p) - 1 : Shortened(p, u, n, d, q)
  <2>1. PICK d \in 0 .. Len(p) - 1 : Shortened(p, u, n, d, q)
    BY <1>7
  <2> DEFINE v == [i \in 0 .. Len(q) |-> IF i = 0 THEN 0 ELSE u[i + d] - n]
  <2>2. /\ q \in Seq(RecordType) /\ Len(q) = Len(p) - d /\ u[d] <= n /\ n < u[d + 1]
        /\ \A i \in 1 .. Len(q) : q[i].src = p[i + d].src /\ q[i].next = p[i + d].next
        /\ Sums(q, v)
    BY <2>1 DEF Shortened
  <2>3. BytesUpTo(q) = v
    <3> HIDE DEF v
    <3> QED BY <2>2, SumsAreBytesUpTo
  <2>4. d \in Nat /\ Len(q) \in Nat /\ Len(q) > 0 /\ u[Len(p)] = Len(b)
        /\ \A i \in 1 .. Len(q) : i + d \in 1 .. Len(p) /\ i + d \in 0 .. Len(p) /\ d + 1 <= i + d
    BY <1>2, <2>2
  <2> HIDE DEF u
  <2>5. \A i \in 1 .. Len(q) : u[i + d] \in Nat /\ n < u[i + d] /\ u[i + d] <= Len(b)
    <3> SUFFICES ASSUME NEW i \in 1 .. Len(q)
                 PROVE  u[i + d] \in Nat /\ n < u[i + d] /\ u[i + d] <= Len(b)
      OBVIOUS
    <3>1. i + d \in 0 .. Len(p) /\ d + 1 \in 0 .. Len(p) /\ Len(p) \in 0 .. Len(p)
          /\ d + 1 <= i + d /\ i + d <= Len(p)
      BY <1>2, <2>4
    <3>2. u[d + 1] <= u[i + d] /\ u[i + d] <= u[Len(p)]
      BY <1>1, <3>1, SumsGrow
    <3>3. u[i + d] \in Nat /\ u[d + 1] \in Nat
      BY <1>1, <3>1, SumsFacts
    <3> QED BY <2>2, <2>4, <3>2, <3>3
  <2>6. m = n /\ n < Len(b)
    <3>1. 1 \in 1 .. Len(q)
      BY <2>4
    <3>2. n < u[1 + d] /\ u[1 + d] <= Len(b) /\ u[1 + d] \in Nat
      BY <2>5, <3>1
    <3>3. n < Len(b)
      BY <1>2, <3>2
    <3> QED BY <1>2, <3>3 DEF SmallerOf
  <2> HIDE DEF g, m
  <2>7. DescribedBy(q, v, g)
    <3>1. v[Len(q)] = Len(g)
      <4>1. Len(q) # 0 /\ Len(q) \in 0 .. Len(q) /\ Len(q) + d = Len(p)
        BY <1>2, <2>2, <2>4
      <4>2. v[Len(q)] = u[Len(p)] - n
        BY <4>1
      <4> HIDE DEF v
      <4> QED BY <1>4, <2>4, <2>6, <4>2
    <3>2. ASSUME NEW k \in 1 .. Len(q), NEW i \in 1 .. Len(g), v[k - 1] < i, i <= v[k]
          PROVE  q[k].src = g[i].src
      <4>1. k \in 0 .. Len(q) /\ k - 1 \in 0 .. Len(q) /\ i + n \in 1 .. Len(b) /\ g[i] = b[i + n]
            /\ i \in Nat /\ i > 0
        BY <1>5, <2>4, <2>6
      <4>2. i + n <= u[k + d]
        <5>1. v[k] = u[k + d] - n /\ u[k + d] \in Nat
          BY <2>5, <4>1
        <5> HIDE DEF v
        <5> QED BY <3>2, <4>1, <5>1
      <4>3. u[(k + d) - 1] < i + n
        <5>1. CASE k = 1
          <6>1. (k + d) - 1 = d /\ u[d] \in Nat
            BY <1>1, <1>2, <2>4, <5>1, SumsFacts
          <6> QED BY <2>2, <4>1, <6>1
        <5>2. CASE k # 1
          <6>1. k - 1 # 0 /\ k - 1 \in 1 .. Len(q) /\ (k - 1) + d = (k + d) - 1
            BY <2>4, <5>2
          <6>2. v[k - 1] = u[(k - 1) + d] - n /\ u[(k - 1) + d] \in Nat
            BY <2>5, <4>1, <6>1
          <6> HIDE DEF v
          <6> QED BY <3>2, <4>1, <6>1, <6>2
        <5> QED BY <5>1, <5>2
      <4>4. k + d \in 1 .. Len(p)
        BY <2>4
      <4>5. p[k + d].src = b[i + n].src
        BY <4>1, <4>2, <4>3, <4>4 DEF RecordsOf, DescribedBy, u
      <4> QED BY <2>2, <4>1, <4>5
    <3> HIDE DEF v
    <3> QED BY <3>1, <3>2 DEF DescribedBy
  <2> HIDE DEF v
  <2>8. \A j, k \in 1 .. Len(q) : j < k => q[j].src < q[k].src
    <3> SUFFICES ASSUME NEW j \in 1 .. Len(q), NEW k \in 1 .. Len(q), j < k
                 PROVE  q[j].src < q[k].src
      OBVIOUS
    <3>1. j + d < k + d /\ j + d \in 1 .. Len(p) /\ k + d \in 1 .. Len(p)
      BY <2>4
    <3> QED BY <2>2, <3>1 DEF RecordsOf
  <2>9. \A k \in 1 .. Len(q) : q[k].src <= c
    BY <2>2, <2>4 DEF RecordsOf
  <2>10. KeptOf(p, n, q)
    BY <2>2, <2>4, <2>5 DEF KeptOf, u
  <2> QED BY <2>2, <2>3, <2>7, <2>8, <2>9, <2>10 DEF RecordsOf, g, m
<1>8. (u[Len(p)] <= n /\ q = <<>>) \/ \E d \in 0 .. Len(p) - 1 : Shortened(p, u, n, d, q)
  <2> HIDE DEF u
  <2> QED BY <1>1, DiscardShortens
<1> QED BY <1>6, <1>7, <1>8

(* What is kept has given out no more stamps. *)
LEMMA KeptPast ==
    ASSUME NEW p, NEW n, NEW q, KeptOf(p, n, q), NEW fs, StampsPast(fs, p)
    PROVE  StampsPast(fs, q)
BY DEF KeptOf, StampsPast

(* Record r of p, the one of the last of n bytes of b, gave the frame of those
   bytes a stamp, which left q. *)
StampGiven(p, b, c, n, r, q) ==
    /\ r \in 1 .. Len(p) /\ p[r].src = b[n].src /\ p[r] \in RecordType
    /\ RecordsOf(q, b, c)
    /\ \A s : KeptOf(q, n, s) =>
          \A k \in 1 .. Len(s) : Before(p[r].src, p[r].next, s[k].src, s[k].next)
    /\ \A fs : StampsPast(fs, p) /\ (\A i \in 1 .. Len(fs) : fs[i].nth \in Nat) =>
          StampsPast(fs, q)

(* The record a frame of n bytes is charged to is its last byte's, and what is
   kept of the records then is past the frame's stamp. *)
LEMMA StampRecorded ==
    ASSUME NEW p, NEW b \in BufferType, NEW c, RecordsOf(p, b, c), NEW n \in 1 .. Len(b),
           NEW r, r = StampRecord(p, n), NEW q, q = [p EXCEPT ![r].next = @ + 1]
    PROVE  StampGiven(p, b, c, n, r, q)
<1> DEFINE u == BytesUpTo(p)
           hits == {i \in 1 .. Len(p) : n <= u[i]}
<1>1. p \in Seq(RecordType) /\ Sums(p, u)
  BY BytesUpToSums DEF RecordsOf
<1>2. /\ Len(p) \in Nat /\ Len(b) \in Nat /\ u[Len(p)] = Len(b) /\ n \in Nat /\ n > 0
      /\ \A i \in 0 .. Len(p) : u[i] \in Nat
  <2>1. Len(b) \in Nat
    BY LenProperties DEF BufferType
  <2>2. Len(p) \in Nat /\ \A i \in 0 .. Len(p) : u[i] \in Nat
    <3> HIDE DEF u
    <3> QED BY <1>1, SumsFacts
  <2> QED BY <2>1, <2>2 DEF RecordsOf, DescribedBy
<1> HIDE DEF u
<1>3. hits # {}
  <2>1. u[0] = 0
    BY <1>1, SumsFacts
  <2>2. Len(p) # 0
    BY <1>2, <2>1
  <2>3. Len(p) \in 1 .. Len(p)
    BY <1>2, <2>2
  <2>4. n <= u[Len(p)]
    BY <1>2
  <2> QED BY <2>3, <2>4
<1>4. r = Lowest(hits)
  BY <1>3, Zenon DEF StampRecord, u
<1>5. r \in 1 .. Len(p) /\ n - 1 < u[r] /\ u[r - 1] <= n - 1
  <2>1. n - 1 \in Nat
    BY <1>2
  <2>2. hits = {i \in 1 .. Len(p) : n - 1 < u[i]}
    <3>1. \A i \in 1 .. Len(p) : u[i] \in Nat
      BY <1>2
    <3> QED BY <1>2, <3>1
  <2> HIDE DEF hits
  <2> QED BY <1>1, <1>3, <1>4, <2>1, <2>2, EndsIn
<1> HIDE DEF hits
<1>6. r - 1 \in 0 .. Len(p) /\ r \in 0 .. Len(p) /\ u[r] \in Nat /\ u[r - 1] \in Nat
      /\ u[r - 1] < n /\ n <= u[r]
  BY <1>2, <1>5
<1>7. p[r].src = b[n].src
  BY <1>5, <1>6 DEF RecordsOf, DescribedBy, u
<1>8. /\ q \in Seq(RecordType) /\ Len(q) = Len(p) /\ Sums(q, u)
      /\ \A i \in 1 .. Len(p) : q[i].src = p[i].src /\ (i # r => q[i] = p[i])
      /\ q[r].next = p[r].next + 1
  <2>1. Stamped(p, u, r, q)
    BY <1>1, <1>5, StampSums
  <2> QED BY <2>1 DEF Stamped
<1>9. BytesUpTo(q) = u
  BY <1>8, SumsAreBytesUpTo
<1>10. \A i \in 1 .. Len(p) : p[i].src \in Nat /\ p[i].next \in Nat
  <2>1. \A i \in 1 .. Len(p) : p[i] \in RecordType
    BY <1>1, SumsFacts
  <2> QED BY <2>1 DEF RecordType
<1>11. RecordsOf(q, b, c)
  <2>1. DescribedBy(q, u, b)
    BY <1>8 DEF RecordsOf, DescribedBy, u
  <2>2. /\ \A j, k \in 1 .. Len(q) : j < k => q[j].src < q[k].src
        /\ \A k \in 1 .. Len(q) : q[k].src <= c
    BY <1>8 DEF RecordsOf
  <2> QED BY <1>8, <1>9, <2>1, <2>2 DEF RecordsOf
<1>12. ASSUME NEW s, KeptOf(q, n, s), NEW k \in 1 .. Len(s)
       PROVE  Before(p[r].src, p[r].next, s[k].src, s[k].next)
  <2>1. PICK j \in 1 .. Len(q) : s[k].src = q[j].src /\ s[k].next = q[j].next /\ n < u[j]
    BY <1>9, <1>12 DEF KeptOf
  <2>2. j \in 1 .. Len(p) /\ j \in 0 .. Len(p)
    BY <1>2, <1>8
  <2>3. r <= j
    <3> SUFFICES ASSUME j <= r - 1 PROVE FALSE
      BY <1>5, <2>2
    <3>1. u[j] <= u[r - 1]
      BY <1>1, <1>6, <2>2, SumsGrow
    <3> QED BY <1>2, <1>6, <2>1, <2>2, <3>1
  <2>4. CASE j = r
    BY <1>5, <1>8, <1>10, <2>1, <2>4 DEF Before
  <2>5. CASE r < j
    BY <1>5, <1>8, <2>1, <2>2, <2>5 DEF Before, RecordsOf
  <2> QED BY <1>5, <2>2, <2>3, <2>4, <2>5
<1>13. ASSUME NEW fs, StampsPast(fs, p), \A i \in 1 .. Len(fs) : fs[i].nth \in Nat
       PROVE  StampsPast(fs, q)
  <2> SUFFICES ASSUME NEW i \in 1 .. Len(fs), NEW k \in 1 .. Len(p)
               PROVE  Before(fs[i].src, fs[i].nth, q[k].src, q[k].next)
    BY <1>8 DEF StampsPast
  <2>1. Before(fs[i].src, fs[i].nth, p[k].src, p[k].next)
    BY <1>13 DEF StampsPast
  <2>2. CASE k # r
    BY <1>8, <2>1, <2>2
  <2>3. CASE k = r /\ fs[i].src < p[r].src
    BY <1>8, <2>3 DEF Before
  <2>4. CASE k = r /\ fs[i].src = p[r].src /\ fs[i].nth < p[r].next
    <3>1. p[r].next < q[r].next
      BY <1>5, <1>8, <1>10
    <3>2. fs[i].nth \in Nat /\ p[r].next \in Nat /\ q[r].next \in Nat
      BY <1>5, <1>8, <1>10, <1>13
    <3>3. fs[i].nth < q[r].next
      BY <2>4, <3>1, <3>2
    <3> QED BY <1>5, <1>8, <2>4, <3>3 DEF Before
  <2> QED BY <2>1, <2>2, <2>3, <2>4 DEF Before
<1>14. p[r] \in RecordType
  BY <1>1, <1>5, SumsFacts
<1> QED BY <1>5, <1>7, <1>11, <1>12, <1>13, <1>14 DEF StampGiven
-----------------------------------------------------------------------------
(* A frame lies inside the buffer *)

(* A pattern that the ring search finds ends inside the ring. *)
LEMMA FindPatternEnds ==
    ASSUME NEW b \in Seq(Byte), NEW pattern \in Seq(Byte), NEW from \in Nat,
           FindPattern(b, pattern, from) # -1
    PROVE  FindPattern(b, pattern, from) + Len(pattern) <= Len(b)
<1> DEFINE hits == {i \in from .. Len(b) - 1 : MatchAt(b, i, pattern)}
<1>1. hits \in SUBSET Nat
  OBVIOUS
<1>2. hits # {} /\ FindPattern(b, pattern, from) = Lowest(hits)
  BY DEF FindPattern
<1>3. Lowest(hits) \in hits
  BY <1>1, <1>2, LowestProperty
<1> QED BY <1>2, <1>3 DEF MatchAt

(* So does the pattern that the multi-pattern search finds. *)
LEMMA FindFirstOfEnds ==
    ASSUME NEW b \in Seq(Byte), NEW patterns \in Seq(Seq(Byte)),
           FindFirstOf(b, patterns).pos # -1
    PROVE  FindFirstOf(b, patterns).pos + Len(FindFirstOf(b, patterns).pattern) <= Len(b)
<1> DEFINE at(i) == {p \in DOMAIN patterns : MatchAt(b, i, patterns[p])}
           hits  == {i \in 0 .. Len(b) - 1 : at(i) # {}}
<1>1. hits \in SUBSET Nat
  OBVIOUS
<1>2. hits # {}
  BY DEF FindFirstOf
<1>3. Lowest(hits) \in hits
  BY <1>1, <1>2, LowestProperty
<1>4. at(Lowest(hits)) \in SUBSET Nat /\ at(Lowest(hits)) # {}
  <2>1. \A i : at(i) \in SUBSET Nat
    OBVIOUS
  <2>2. \A i \in hits : at(i) # {}
    OBVIOUS
  <2> HIDE DEF at, hits
  <2> QED BY <1>3, <2>1, <2>2
<1> HIDE DEF hits
<1>5. Lowest(at(Lowest(hits))) \in at(Lowest(hits))
  BY <1>4, LowestProperty
<1>6. FindFirstOf(b, patterns) =
        [pos |-> Lowest(hits), pattern |-> patterns[Lowest(at(Lowest(hits)))]]
  BY <1>2 DEF FindFirstOf, hits
<1>7. Lowest(hits) + Len(patterns[Lowest(at(Lowest(hits)))]) <= Len(b)
  BY <1>5 DEF MatchAt
<1> HIDE DEF at
<1> QED BY <1>6, <1>7

(* The bytes of a frame are among those that skipping leaves. *)
FrameFits(out, b) ==
    out.kind = "frame" => out.n <= Len(b) - out.skip /\ out.data \in Seq(Byte)

(* A frame whose checksum is right ends inside the buffer if the bytes up to the
   end of its checksum do. *)
LEMMA ValidatedFits ==
    ASSUME NEW b, NEW rest, NEW skip, Len(rest) = Len(b) - skip, NEW data \in Seq(Byte),
           NEW crcPos, NEW end, NEW reject,
           cfg.crcLen = 0 \/ ~(Len(rest) < crcPos + cfg.crcLen) => end <= Len(rest)
    PROVE  FrameFits(Validated(rest, skip, data, crcPos, end, reject), b)
<1> DEFINE out == Validated(rest, skip, data, crcPos, end, reject)
<1>1. \/ out = Break(skip)
      \/ out = Outcome("reject", skip, reject, <<>>)
      \/ out = Outcome("frame", skip, end, data) /\ ChecksumStatus(rest, data, crcPos) = "ok"
  BY DEF Validated
<1>2. CASE out = Break(skip)
  BY <1>2 DEF Break, Outcome, FrameFits
<1>3. CASE out = Outcome("reject", skip, reject, <<>>)
  BY <1>3 DEF Outcome, FrameFits
<1>4. CASE out = Outcome("frame", skip, end, data) /\ ChecksumStatus(rest, data, crcPos) = "ok"
  <2>1. cfg.crcLen = 0 \/ ~(Len(rest) < crcPos + cfg.crcLen)
    <3>1. SUFFICES ASSUME cfg.crcLen # 0, Len(rest) < crcPos + cfg.crcLen PROVE FALSE
      OBVIOUS
    <3>2. ChecksumStatus(rest, data, crcPos) = "incomplete"
      BY <3>1, Zenon DEF ChecksumStatus
    <3> QED BY <1>4, <3>2
  <2> QED BY <1>4, <2>1 DEF Outcome, FrameFits
<1> QED BY <1>1, <1>2, <1>3, <1>4

(* A frame that readEndDelimitedFrames takes lies inside the buffer. *)
LEMMA EndFits ==
    ASSUME cfg \in Configs, cfg.detection = "End", NEW b \in Seq(Byte)
    PROVE  FrameFits(readEndDelimitedFrames(b), b)
<1> DEFINE hit    == FindFirstOf(b, cfg.finish)
           crcPos == hit.pos + Len(hit.pattern)
           end    == crcPos + cfg.crcLen
<1>0. cfg.crcLen \in Nat /\ cfg.finish \in Seq(Seq(Byte)) /\ Len(b) \in Nat
  BY ConfigFacts, LenProperties
<1>1. CASE hit.pos = -1
  BY <1>1 DEF readEndDelimitedFrames, Break, Outcome, FrameFits
<1>2. CASE hit.pos = 0
  BY <1>2 DEF readEndDelimitedFrames, DropBytes, Outcome, FrameFits
<1>3. CASE hit.pos # -1 /\ hit.pos # 0
  <2>1. hit.pos \in 1 .. Len(b) /\ crcPos <= Len(b) /\ Len(hit.pattern) \in Nat
    <3>1. hit.pos \in 0 .. Len(b) - 1 /\ \E i \in DOMAIN cfg.finish : hit.pattern = cfg.finish[i]
      BY <1>0, <1>3, FindFirstOfRange
    <3>2. crcPos <= Len(b)
      BY <1>0, <1>3, FindFirstOfEnds
    <3>3. Len(hit.pattern) \in Nat
      <4>1. PICK i \in DOMAIN cfg.finish : hit.pattern = cfg.finish[i]
        BY <3>1
      <4>2. cfg.finish[i] \in Seq(Byte)
        BY <1>0
      <4> HIDE DEF hit
      <4> QED BY <4>1, <4>2
    <3> QED BY <1>0, <1>3, <3>1, <3>2, <3>3
  <2> HIDE DEF hit
  <2>2. SubSeq(b, 1, hit.pos) \in Seq(Byte)
    BY <1>0, <2>1, SubSeqProperties
  <2>3. cfg.crcLen = 0 \/ ~(Len(b) < crcPos + cfg.crcLen) => end <= Len(b)
    BY <1>0, <2>1
  <2>4. Len(b) = Len(b) - 0
    BY <1>0
  <2> HIDE DEF crcPos, end
  <2>5. FrameFits(Validated(b, 0, SubSeq(b, 1, hit.pos), crcPos, end, end), b)
    BY <2>2, <2>3, <2>4, ValidatedFits
  <2> QED BY <1>3, <2>5 DEF readEndDelimitedFrames, hit, crcPos, end
<1> QED BY <1>1, <1>2, <1>3

(* A frame that readStartDelimitedFrames takes lies inside the buffer. *)
LEMMA StartFits ==
    ASSUME cfg \in Configs, cfg.detection = "Start", NEW b \in Seq(Byte)
    PROVE  FrameFits(readStartDelimitedFrames(b), b)
<1> DEFINE first  == FindPattern(b, cfg.start, 0)
           rest   == Drop(b, first)
           head   == Len(cfg.start)
           end    == FindPattern(rest, cfg.start, head)
           crcPos == end - cfg.crcLen
<1>0. cfg.crcLen \in Nat /\ cfg.start \in Seq(Byte) /\ head \in Nat /\ head > 0 /\ Len(b) \in Nat
  BY ConfigFacts, LenProperties
<1>1. CASE first = -1 \/ end = -1 \/ crcPos <= head
  <2>1. \/ readStartDelimitedFrames(b) = Break(0)
        \/ readStartDelimitedFrames(b) = Break(first)
        \/ readStartDelimitedFrames(b) = Outcome("drop", first, end, <<>>)
    BY <1>1, Zenon DEF readStartDelimitedFrames
  <2> HIDE DEF first, rest, head, end
  <2> QED BY <2>1 DEF Break, Outcome, FrameFits
<1>2. CASE first # -1 /\ end # -1 /\ ~(crcPos <= head)
  <2>1. first \in 0 .. Len(b) - 1
    BY <1>0, <1>2, FindPatternRange
  <2> HIDE DEF first
  <2>2. rest \in Seq(Byte) /\ Len(rest) = Len(b) - first
    <3>1. first \in 0 .. Len(b)
      BY <1>0, <2>1
    <3> QED BY <3>1, DropType
  <2> HIDE DEF rest
  <2>3. end \in head .. Len(rest) - 1
    BY <2>2, <1>0, <1>2, FindPatternRange
  <2>4. Len(rest) \in Nat
    BY <2>2
  <2> HIDE DEF end, head
  <2>5. SubSeq(rest, head + 1, crcPos) \in Seq(Byte) /\ end <= Len(rest)
    <3>1. head + 1 \in 1 .. Len(rest) + 1 /\ crcPos \in head .. Len(rest) /\ end <= Len(rest)
      BY <1>0, <1>2, <2>3, <2>4
    <3> HIDE DEF crcPos
    <3>2. SubSeq(rest, head + 1, crcPos) \in Seq(Byte)
      BY <1>0, <2>2, <2>4, <3>1, SubSeqProperties
    <3> QED BY <3>1, <3>2
  <2> HIDE DEF crcPos
  <2>6. FrameFits(Validated(rest, first, SubSeq(rest, head + 1, crcPos), crcPos, end, end), b)
    BY <2>2, <2>5, ValidatedFits
  <2>7. readStartDelimitedFrames(b) =
             Validated(rest, first, SubSeq(rest, head + 1, crcPos), crcPos, end, end)
    BY <1>2, Zenon DEF readStartDelimitedFrames, first, rest, head, end, crcPos
  <2> QED BY <2>6, <2>7, Zenon
<1> QED BY <1>1, <1>2

(* A frame that readStartEndDelimitedFrames takes lies inside the buffer. *)
LEMMA StartEndFits ==
    ASSUME cfg \in Configs, cfg.detection = "StartEnd", NEW b \in Seq(Byte)
    PROVE  FrameFits(readStartEndDelimitedFrames(b), b)
<1> DEFINE fin    == FindPattern(b, cfg.finish[1], 0)
           start  == FindPattern(b, cfg.start, 0)
           body   == start + Len(cfg.start)
           crcPos == fin + Len(cfg.finish[1])
           end    == crcPos + cfg.crcLen
<1>0. /\ cfg.crcLen \in Nat /\ cfg.finish[1] \in Seq(Byte) /\ cfg.start \in Seq(Byte)
      /\ Len(cfg.finish[1]) \in Nat /\ Len(cfg.start) \in Nat /\ Len(b) \in Nat
  <2>1. cfg.finish \in Seq(Seq(Byte)) /\ Len(cfg.finish) > 0
    BY ConfigFacts
  <2>2. 1 \in DOMAIN cfg.finish /\ cfg.finish[1] \in Seq(Byte)
    BY <2>1
  <2> QED BY <2>2, ConfigFacts, LenProperties
<1>1. CASE fin = -1 \/ start = -1 \/ start >= fin \/ fin <= body
  <2>1. \/ readStartEndDelimitedFrames(b) = Break(0)
        \/ readStartEndDelimitedFrames(b) = DropBytes(crcPos)
    BY <1>1, Zenon DEF readStartEndDelimitedFrames
  <2> HIDE DEF crcPos
  <2> QED BY <2>1 DEF Break, DropBytes, Outcome, FrameFits
<1>2. CASE ~(fin = -1 \/ start = -1 \/ start >= fin \/ fin <= body)
  <2>1. fin \in 0 .. Len(b) - 1 /\ start \in 0 .. Len(b) - 1
    BY <1>0, <1>2, FindPatternRange
  <2>2. crcPos <= Len(b)
    BY <1>0, <1>2, FindPatternEnds
  <2> HIDE DEF fin, start
  <2>3. SubSeq(b, body + 1, fin) \in Seq(Byte)
    <3>1. body \in Nat /\ fin \in 0 .. Len(b)
      BY <1>0, <2>1
    <3> HIDE DEF body
    <3>2. body + 1 \in 1 .. Len(b) + 1
      BY <1>0, <1>2, <3>1
    <3> QED BY <1>0, <3>1, <3>2, SubSeqProperties
  <2>4. cfg.crcLen = 0 \/ ~(Len(b) < crcPos + cfg.crcLen) => end <= Len(b)
    BY <1>0, <2>1, <2>2
  <2>5. Len(b) = Len(b) - 0
    BY <1>0
  <2> HIDE DEF crcPos, end, body
  <2>6. FrameFits(Validated(b, 0, SubSeq(b, body + 1, fin), crcPos, end, end), b)
    BY <2>3, <2>4, <2>5, ValidatedFits
  <2>7. readStartEndDelimitedFrames(b) =
            Validated(b, 0, SubSeq(b, body + 1, fin), crcPos, end, end)
    BY <1>2, Zenon DEF readStartEndDelimitedFrames, fin, start, body, crcPos, end
  <2> QED BY <2>6, <2>7, Zenon
<1> QED BY <1>1, <1>2

(* A frame that readFixedLengthFrames takes lies inside the buffer. *)
LEMMA FixedFits ==
    ASSUME cfg \in Configs, cfg.detection = "Fixed", NEW b \in Seq(Byte)
    PROVE  FrameFits(readFixedLengthFrames(b), b)
<1> DEFINE skip    == alignFixedLengthFrame(b)
           rest    == Drop(b, skip)
           payload == cfg.fixedLen - cfg.crcLen
           bad     == {i \in 1 .. payload - 1 : cfg.body # {} /\ rest[i + 1] \notin cfg.body}
           reject  == IF cfg.header # {} THEN 1 ELSE cfg.fixedLen
           good    == Validated(rest, skip, SubSeq(rest, 1, payload), payload, cfg.fixedLen, reject)
<1>0. cfg.crcLen \in Nat /\ cfg.fixedLen \in Nat /\ Len(b) \in Nat
  BY ConfigFacts, LenProperties
<1>1. CASE payload <= 0 \/ Len(rest) < cfg.fixedLen \/ bad # {}
  <2>1. \/ readFixedLengthFrames(b) = Break(Len(b))
        \/ readFixedLengthFrames(b) = Break(skip)
        \/ readFixedLengthFrames(b) = Outcome("drop", skip, Lowest(bad), <<>>)
    BY <1>1, Zenon DEF readFixedLengthFrames
  <2> HIDE DEF skip, bad
  <2> QED BY <2>1 DEF Break, Outcome, FrameFits
<1>2. CASE ~(payload <= 0 \/ Len(rest) < cfg.fixedLen \/ bad # {})
  <2>1. skip \in 0 .. Len(b)
    BY AlignRange
  <2> HIDE DEF skip
  <2>2. rest \in Seq(Byte) /\ Len(rest) = Len(b) - skip
    BY <2>1, DropType
  <2>3. readFixedLengthFrames(b) = good
    BY <1>2, Zenon DEF readFixedLengthFrames, skip
  <2> HIDE DEF rest, bad
  <2>4. payload \in 1 .. Len(rest) /\ cfg.fixedLen <= Len(rest)
    BY <1>0, <1>2, <2>1, <2>2
  <2> HIDE DEF payload, reject
  <2>5. SubSeq(rest, 1, payload) \in Seq(Byte)
    BY <2>2, <2>4, SubSeqProperties
  <2>6. FrameFits(good, b)
    BY <2>2, <2>4, <2>5, ValidatedFits
  <2> QED BY <2>3, <2>6, Zenon
<1> QED BY <1>1, <1>2

(* A frame that the loop takes lies inside the buffer, in every configuration. *)
LEMMA ScanFits ==
    ASSUME cfg \in Configs, cfg.detection # "None", NEW b \in Seq(Byte)
    PROVE  FrameFits(ScanOutcome(b), b)
<1>1. cfg.detection \in {"End", "Start", "StartEnd", "Fixed"}
  BY ConfigFacts DEF ConfigType
<1>2. CASE cfg.detection = "End"
  BY <1>2, EndFits DEF ScanOutcome
<1>3. CASE cfg.detection = "Start"
  BY <1>3, StartFits DEF ScanOutcome
<1>4. CASE cfg.detection = "StartEnd"
  BY <1>4, StartEndFits DEF ScanOutcome
<1>5. CASE cfg.detection = "Fixed"
  BY <1>5, FixedFits DEF ScanOutcome
<1> QED BY <1>1, <1>2, <1>3, <1>4, <1>5
-----------------------------------------------------------------------------
(* The invariant of the timing records and the stamps *)

FrameType == [data : Seq(Byte), src : Nat, nth : Nat, last : Nat]

(* The stamps of the frames increase, and each is of the chunk of the last byte. *)
FramesOf(fs, last) ==
    /\ fs \in Seq(FrameType)
    /\ \A i \in 1 .. Len(fs) : fs[i].src <= last /\ fs[i].src = fs[i].last
    /\ \A i, j \in 1 .. Len(fs) : i < j => Before(fs[i].src, fs[i].nth, fs[j].src, fs[j].nth)

TimingInv ==
    /\ RecordsOf(pending, buffer, chunks)
    /\ FramesOf(frames, chunks)
    /\ StampsPast(frames, pending)
    /\ cfg.detection = "None" => pending = <<>>

(* The fields of a frame. *)
LEMMA FrameFields ==
    ASSUME NEW fs \in Seq(FrameType)
    PROVE  /\ Len(fs) \in Nat
           /\ \A i \in 1 .. Len(fs) : fs[i].src \in Nat /\ fs[i].nth \in Nat
<1>1. Len(fs) \in Nat /\ \A i \in 1 .. Len(fs) : fs[i] \in FrameType
  BY LenProperties, ElementOfSeq
<1> QED BY <1>1 DEF FrameType

(* One more chunk changes nothing of what is known of the earlier ones. *)
LEMMA OneMoreChunk ==
    ASSUME NEW c \in Nat, NEW p, NEW b, NEW fs
    PROVE  /\ RecordsOf(p, b, c) => RecordsOf(p, b, c + 1)
           /\ FramesOf(fs, c) => FramesOf(fs, c + 1)
<1>1. ASSUME RecordsOf(p, b, c) PROVE RecordsOf(p, b, c + 1)
  <2>1. \A k \in 1 .. Len(p) : p[k].src \in Nat
    <3>1. \A k \in 1 .. Len(p) : p[k] \in RecordType
      BY <1>1, ElementOfSeq DEF RecordsOf
    <3> QED BY <3>1 DEF RecordType
  <2>2. \A k \in 1 .. Len(p) : p[k].src <= c + 1
    BY <1>1, <2>1 DEF RecordsOf
  <2> QED BY <1>1, <2>2 DEF RecordsOf
<1>2. ASSUME FramesOf(fs, c) PROVE FramesOf(fs, c + 1)
  <2>1. \A i \in 1 .. Len(fs) : fs[i].src \in Nat
    BY <1>2, FrameFields DEF FramesOf
  <2>2. \A i \in 1 .. Len(fs) : fs[i].src <= c + 1
    BY <1>2, <2>1 DEF FramesOf
  <2> QED BY <1>2, <2>2 DEF FramesOf
<1> QED BY <1>1, <1>2

(* A frame stamped after all the others is handed on. *)
LEMMA AppendFrame ==
    ASSUME NEW fs, NEW c, FramesOf(fs, c), NEW f \in FrameType, f.src <= c, f.src = f.last,
           \A i \in 1 .. Len(fs) : Before(fs[i].src, fs[i].nth, f.src, f.nth),
           NEW s, StampsPast(fs, s), \A k \in 1 .. Len(s) : Before(f.src, f.nth, s[k].src, s[k].next)
    PROVE  FramesOf(Append(fs, f), c) /\ StampsPast(Append(fs, f), s)
<1> DEFINE g == Append(fs, f)
           n == Len(fs)
<1>1. /\ g \in Seq(FrameType) /\ Len(g) = n + 1 /\ g[n + 1] = f
      /\ \A i \in 1 .. n : g[i] = fs[i]
  BY AppendProperties DEF FramesOf
<1>2. n \in Nat
  BY FrameFields DEF FramesOf
<1> HIDE DEF g
<1>3. \A i \in 1 .. n + 1 : i # n + 1 => i \in 1 .. n
  <2> HIDE DEF n
  <2> QED BY <1>2
<1>4. \A i \in 1 .. n + 1 : g[i].src <= c /\ g[i].src = g[i].last
  <2> SUFFICES ASSUME NEW i \in 1 .. n + 1 PROVE g[i].src <= c /\ g[i].src = g[i].last
    OBVIOUS
  <2>1. CASE i = n + 1
    BY <1>1, <2>1
  <2>2. CASE i # n + 1
    BY <1>1, <1>3, <2>2 DEF FramesOf
  <2> QED BY <2>1, <2>2
<1>5. \A i, j \in 1 .. n + 1 : i < j => Before(g[i].src, g[i].nth, g[j].src, g[j].nth)
  <2> SUFFICES ASSUME NEW i \in 1 .. n + 1, NEW j \in 1 .. n + 1, i < j
               PROVE  Before(g[i].src, g[i].nth, g[j].src, g[j].nth)
    OBVIOUS
  <2>1. i \in 1 .. n
    <3> HIDE DEF n
    <3> QED BY <1>2
  <2>2. CASE j = n + 1
    BY <1>1, <2>1, <2>2
  <2>3. CASE j # n + 1
    <3>1. j \in 1 .. n
      BY <1>3, <2>3
    <3> QED BY <1>1, <2>1, <3>1 DEF FramesOf
  <2> QED BY <2>2, <2>3
<1>6. StampsPast(g, s)
  <2> SUFFICES ASSUME NEW i \in 1 .. n + 1, NEW k \in 1 .. Len(s)
               PROVE  Before(g[i].src, g[i].nth, s[k].src, s[k].next)
    BY <1>1 DEF StampsPast
  <2>1. CASE i = n + 1
    BY <1>1, <2>1
  <2>2. CASE i # n + 1
    <3>1. i \in 1 .. n
      BY <1>3, <2>2
    <3> QED BY <1>1, <3>1 DEF StampsPast
  <2> QED BY <2>1, <2>2
<1>7. FramesOf(g, c)
  BY <1>1, <1>4, <1>5 DEF FramesOf
<1> QED BY <1>6, <1>7 DEF g

(* A new reader has no records and no frames. *)
LEMMA InitTiming == Init => TimingInv
<1> SUFFICES ASSUME Init PROVE TimingInv
  OBVIOUS
<1>1. /\ pending = <<>> /\ buffer = <<>> /\ frames = <<>> /\ chunks = 0
      /\ pending \in Seq(RecordType) /\ frames \in Seq(FrameType)
      /\ Len(pending) = 0 /\ Len(buffer) = 0 /\ Len(frames) = 0
  BY DEF Init
<1>2. 1 .. Len(pending) = {} /\ 1 .. Len(buffer) = {} /\ 1 .. Len(frames) = {}
  BY <1>1
<1>3. BytesUpTo(pending)[0] = 0
  BY <1>1, BytesUpToSums, SumsFacts
<1>4. BytesUpTo(pending)[Len(pending)] = Len(buffer)
  BY <1>1, <1>3, Zenon
<1>5. RecordsOf(pending, buffer, chunks)
  BY <1>1, <1>2, <1>4 DEF RecordsOf, DescribedBy
<1>6. FramesOf(frames, chunks) /\ StampsPast(frames, pending)
  BY <1>1, <1>2 DEF FramesOf, StampsPast
<1> QED BY <1>1, <1>5, <1>6 DEF TimingInv

(* A chunk without delimiters is a frame of its own, stamped with its arrival. *)
LEMMA RawChunkTiming ==
    ASSUME IInv, TimingInv, NEW data \in Chunk, ProcessRawChunk(data)
    PROVE  TimingInv'
<1> DEFINE f == [data |-> data, src |-> chunks + 1, nth |-> 0, last |-> chunks + 1]
<1>1. chunks \in Nat /\ data \in Seq(Byte) /\ hasRoom
  BY ChunkType, RoomInLoop DEF IInv, ShapeInv
<1>2. /\ chunks' = chunks + 1 /\ frames' = Append(frames, f) /\ pending = <<>>
      /\ UNCHANGED <<cfg, buffer, pending>>
  BY <1>1 DEF ProcessRawChunk, Enqueue, TimingInv
<1>3. f \in FrameType /\ f.src = chunks + 1 /\ f.last = f.src
  BY <1>1 DEF FrameType
<1> HIDE DEF f
<1>4. RecordsOf(pending, buffer, chunks + 1) /\ FramesOf(frames, chunks + 1)
  BY <1>1, OneMoreChunk DEF TimingInv
<1>5. \A i \in 1 .. Len(frames) : Before(frames[i].src, frames[i].nth, f.src, f.nth)
  <2>1. \A i \in 1 .. Len(frames) : frames[i].src \in Nat /\ frames[i].src <= chunks
    BY FrameFields DEF TimingInv, FramesOf
  <2> QED BY <1>1, <1>3, <2>1 DEF Before
<1>6. 1 .. Len(pending) = {}
  BY <1>2
<1>7. f.src <= chunks + 1
  BY <1>1, <1>3
<1>8. FramesOf(Append(frames, f), chunks + 1) /\ StampsPast(Append(frames, f), pending)
  BY <1>3, <1>4, <1>5, <1>6, <1>7, AppendFrame DEF TimingInv
<1> QED BY <1>2, <1>4, <1>8 DEF TimingInv

(* A chunk is recorded, and what it pushes out of the ring is taken off the
   oldest records. *)
LEMMA ChunkTiming ==
    ASSUME IInv, TimingInv, NEW data \in Chunk, ProcessChunk(data)
    PROVE  TimingInv'
<1> DEFINE tagged == [i \in 1 .. Len(data) |-> [v |-> data[i], src |-> chunks + 1]]
           grown  == buffer \o tagged
           rec    == [src |-> chunks + 1, left |-> Len(data), next |-> 0]
           lost   == Overflow(grown)
           q      == Append(pending, rec)
<1>1. chunks \in Nat /\ data \in Seq(Byte) /\ buffer \in BufferType
  BY ChunkType DEF IInv, ShapeInv, BufferType
<1>2. /\ buffer' = Drop(grown, lost) /\ pending' = discardPendingBytes(q, lost)
      /\ chunks' = chunks + 1 /\ frames' = frames /\ cfg' = cfg /\ cfg.detection # "None"
  BY DEF ProcessChunk, RecordChunk
<1>3. \A i \in 1 .. Len(frames) : frames[i].src \in Nat /\ frames[i].src <= chunks
  BY FrameFields DEF TimingInv, FramesOf
<1>4. RecordsOf(q, grown, chunks + 1) /\ StampsPast(frames, q)
  <2>1. RecordsOf(pending, buffer, chunks) /\ StampsPast(frames, pending)
    BY DEF TimingInv
  <2> HIDE DEF q, grown
  <2> QED BY <1>1, <1>3, <2>1, ChunkRecorded DEF q, grown
<1>5. grown \in BufferType
  <2>1. tagged \in BufferType
    BY <1>1, TaggedType DEF BufferType
  <2> HIDE DEF tagged
  <2> QED BY <1>1, <2>1, ConcatProperties DEF BufferType
<1> HIDE DEF grown, q
<1>6. lost \in Nat /\ SmallerOf(lost, Len(grown)) = lost
  <2>1. Len(grown) \in Nat
    BY <1>5, LenProperties DEF BufferType
  <2> QED BY <2>1, Constants DEF Overflow, SmallerOf
<1> HIDE DEF lost
<1>7. RecordsOf(pending', Drop(grown, SmallerOf(lost, Len(grown))), chunks + 1) /\ KeptOf(q, lost, pending')
  BY <1>2, <1>4, <1>5, <1>6, DiscardRecorded
<1>8. RecordsOf(pending', buffer', chunks')
  BY <1>2, <1>6, <1>7
<1>9. StampsPast(frames', pending')
  BY <1>2, <1>4, <1>7, KeptPast
<1>10. FramesOf(frames', chunks')
  BY <1>1, <1>2, OneMoreChunk DEF TimingInv
<1> QED BY <1>2, <1>8, <1>9, <1>10 DEF TimingInv

(* What skipping leaves of the buffer, of the records and of the stamps to come. *)
LEMMA SkipTiming ==
    ASSUME IInv, TimingInv, NEW skip \in 0 .. Len(buffer), NEW b, b = Drop(buffer, skip),
           NEW p, p = discardPendingBytes(pending, skip)
    PROVE  /\ b \in BufferType /\ Len(b) = Len(buffer) - skip /\ Len(b) \in Nat
           /\ RecordsOf(p, b, chunks) /\ StampsPast(frames, p)
<1>1. buffer \in BufferType /\ Len(buffer) \in Nat /\ RecordsOf(pending, buffer, chunks)
      /\ StampsPast(frames, pending)
  BY LenProperties DEF IInv, ShapeInv, BufferType, TimingInv
<1>2. skip \in Nat /\ SmallerOf(skip, Len(buffer)) = skip
  BY <1>1 DEF SmallerOf
<1>3. b \in BufferType /\ Len(b) = Len(buffer) - skip
  BY <1>1, DropType DEF BufferType
<1>4. RecordsOf(p, Drop(buffer, SmallerOf(skip, Len(buffer))), chunks) /\ KeptOf(pending, skip, p)
  BY <1>1, <1>2, DiscardRecorded
<1>5. RecordsOf(p, b, chunks)
  BY <1>2, <1>4
<1>6. StampsPast(frames, p)
  BY <1>1, <1>4, KeptPast
<1>7. Len(b) \in Nat
  BY <1>3, LenProperties DEF BufferType
<1> QED BY <1>3, <1>5, <1>6, <1>7

(* Taking bytes for no frame, or leaving the loop, gives out no stamp. *)
LEMMA ConsumeTiming ==
    ASSUME IInv, TimingInv, NEW skip \in 0 .. Len(buffer), NEW n \in Nat,
           consumeBytes(Drop(buffer, skip), discardPendingBytes(pending, skip), n),
           UNCHANGED <<frames, chunks, cfg>>, cfg.detection # "None"
    PROVE  TimingInv'
<1> DEFINE b == Drop(buffer, skip)
           p == discardPendingBytes(pending, skip)
<1>1. buffer' = Drop(b, SmallerOf(n, Len(b))) /\ pending' = discardPendingBytes(p, n)
  BY DEF consumeBytes
<1>2. b \in BufferType /\ RecordsOf(p, b, chunks) /\ StampsPast(frames, p)
  BY SkipTiming
<1> HIDE DEF b, p
<1>3. RecordsOf(pending', buffer', chunks) /\ KeptOf(p, n, pending')
  BY <1>1, <1>2, DiscardRecorded
<1>4. StampsPast(frames, pending')
  BY <1>2, <1>3, KeptPast
<1> QED BY <1>3, <1>4 DEF TimingInv

(* A frame is stamped from the record of its last byte before its bytes go. *)
LEMMA CaptureTiming ==
    ASSUME IInv, TimingInv, NEW out, out.kind = "frame", out.data \in Seq(Byte),
           out.skip \in 0 .. Len(buffer), out.n \in 1 .. Len(buffer) - out.skip,
           enqueueCaptured(out), UNCHANGED <<chunks, cfg>>, cfg.detection # "None"
    PROVE  TimingInv'
<1> DEFINE b == Drop(buffer, out.skip)
           p == discardPendingBytes(pending, out.skip)
           r == StampRecord(p, out.n)
           q == [p EXCEPT ![r].next = @ + 1]
           f == [data |-> out.data, src |-> p[r].src, nth |-> p[r].next, last |-> b[out.n].src]
<1>1. /\ buffer' = Drop(b, SmallerOf(out.n, Len(b))) /\ pending' = discardPendingBytes(q, out.n)
      /\ frames' = Append(frames, f)
  BY RoomInLoop DEF enqueueCaptured, Enqueue, consumeBytes
<1>2. /\ b \in BufferType /\ Len(b) = Len(buffer) - out.skip /\ Len(b) \in Nat
      /\ RecordsOf(p, b, chunks) /\ StampsPast(frames, p)
  BY SkipTiming
<1> HIDE DEF b, p
<1>3. out.n \in 1 .. Len(b) /\ out.n \in Nat
  BY <1>2
<1>4. StampGiven(p, b, chunks, out.n, r, q)
  <2> HIDE DEF r, q
  <2>1. r = StampRecord(p, out.n) /\ q = [p EXCEPT ![r].next = @ + 1]
    BY DEF r, q
  <2> QED BY <1>2, <1>3, <2>1, StampRecorded
<1>5. RecordsOf(p, b, chunks) /\ r \in 1 .. Len(p)
  BY <1>2, <1>4 DEF StampGiven
<1> HIDE DEF r, q
<1>6. /\ p[r].src = b[out.n].src /\ p[r].src \in Nat /\ p[r].next \in Nat /\ p[r].src <= chunks
      /\ RecordsOf(q, b, chunks)
  BY <1>4, <1>5 DEF StampGiven, RecordType, RecordsOf
<1>7. f \in FrameType /\ f.src = p[r].src /\ f.nth = p[r].next /\ f.src = f.last /\ f.src <= chunks
  BY <1>6 DEF FrameType
<1> HIDE DEF f
<1>8. FramesOf(frames, chunks) /\ \A i \in 1 .. Len(frames) : frames[i].nth \in Nat
  BY FrameFields DEF TimingInv, FramesOf
<1>9. StampsPast(frames, q)
  BY <1>2, <1>4, <1>8 DEF StampGiven
<1>10. RecordsOf(pending', buffer', chunks) /\ KeptOf(q, out.n, pending')
  BY <1>1, <1>2, <1>3, <1>6, DiscardRecorded
<1>11. StampsPast(frames, pending')
  BY <1>9, <1>10, KeptPast
<1>12. \A k \in 1 .. Len(pending') : Before(f.src, f.nth, pending'[k].src, pending'[k].next)
  BY <1>4, <1>7, <1>10 DEF StampGiven
<1>13. \A i \in 1 .. Len(frames) : Before(frames[i].src, frames[i].nth, f.src, f.nth)
  BY <1>2, <1>5, <1>7 DEF StampsPast
<1>14. FramesOf(Append(frames, f), chunks) /\ StampsPast(Append(frames, f), pending')
  BY <1>7, <1>8, <1>11, <1>12, <1>13, AppendFrame
<1> QED BY <1>1, <1>10, <1>14 DEF TimingInv

(* A turn of the scan loop keeps records and stamps in step. *)
LEMMA ScanTiming ==
    ASSUME IInv, TimingInv, ScanIteration
    PROVE  TimingInv'
<1> DEFINE out == ScanOutcome(Bytes(buffer))
<1>1. /\ pc = "scan" /\ UNCHANGED <<cfg, chunks, stream>>
      /\ LeaveLoop(out) \/ enqueueCaptured(out) \/ DropCandidate(out)
  BY DEF ScanIteration
<1>2. cfg \in Configs /\ cfg.detection # "None"
  BY <1>1 DEF IInv, ShapeInv, LoopInv
<1>3. OutcomeOK(out, buffer) /\ FrameFits(out, buffer) /\ Len(buffer) \in Nat
  <2>1. /\ Bytes(buffer) \in Seq(Byte) /\ Len(Bytes(buffer)) = Len(buffer)
        /\ Len(buffer) \in Nat
    BY BytesType, LenProperties DEF IInv, ShapeInv
  <2>2. OutcomeOK(out, Bytes(buffer)) /\ FrameFits(out, Bytes(buffer))
    BY <1>2, <2>1, ScanOutcomeOK, ScanFits
  <2> HIDE DEF out
  <2> QED BY <2>1, <2>2 DEF OutcomeOK, FrameFits
<1> HIDE DEF out
<1>4. out.skip \in 0 .. Len(buffer) /\ out.n \in Nat
  BY <1>3 DEF OutcomeOK
<1>5. CASE LeaveLoop(out)
  <2>1. consumeBytes(buffer, pending, out.skip) /\ frames' = frames
    BY <1>5 DEF LeaveLoop
  <2>2. 0 \in 0 .. Len(buffer) /\ out.skip \in Nat
    BY <1>3, <1>4
  <2>3. buffer \in BufferType /\ RecordsOf(pending, buffer, chunks)
    BY DEF IInv, ShapeInv, BufferType, TimingInv
  <2>4. buffer' = Drop(buffer, SmallerOf(out.skip, Len(buffer)))
        /\ pending' = discardPendingBytes(pending, out.skip)
    BY <2>1 DEF consumeBytes
  <2>5. RecordsOf(pending', buffer', chunks) /\ KeptOf(pending, out.skip, pending')
    BY <2>2, <2>3, <2>4, DiscardRecorded
  <2>6. StampsPast(frames, pending')
    BY <2>5, KeptPast DEF TimingInv
  <2> QED BY <1>1, <1>2, <2>1, <2>5, <2>6 DEF TimingInv
<1>6. CASE enqueueCaptured(out)
  <2>1. out.kind = "frame"
    BY <1>6 DEF enqueueCaptured
  <2>2. out.data \in Seq(Byte) /\ out.n \in 1 .. Len(buffer) - out.skip
    BY <1>3, <1>4, <2>1 DEF OutcomeOK, FrameFits
  <2> QED BY <1>1, <1>2, <1>4, <1>6, <2>1, <2>2, CaptureTiming
<1>7. CASE DropCandidate(out)
  <2>1. consumeBytes(Drop(buffer, out.skip), discardPendingBytes(pending, out.skip), out.n)
        /\ frames' = frames
    BY <1>7 DEF DropCandidate
  <2> QED BY <1>1, <1>2, <1>4, <2>1, ConsumeTiming
<1> QED BY <1>1, <1>5, <1>6, <1>7

(* Every step keeps records and stamps in step. *)
LEMMA NextTiming ==
    ASSUME IInv, TimingInv, [Next]_vars
    PROVE  TimingInv'
<1>1. CASE \E data \in Chunk : ProcessRawChunk(data)
  BY <1>1, RawChunkTiming
<1>2. CASE \E data \in Chunk : ProcessChunk(data)
  BY <1>2, ChunkTiming
<1>3. CASE ScanIteration
  BY <1>3, ScanTiming
<1>4. CASE UNCHANGED vars
  <2>1. UNCHANGED <<cfg, buffer, pending, frames, chunks>>
    BY <1>4 DEF vars
  <2> QED BY <2>1 DEF TimingInv
<1> QED BY <1>1, <1>2, <1>3, <1>4 DEF Next

(* The records and stamps of every state of the reader satisfy the invariant. *)
THEOREM TimingInvariance == Spec => [](IInv /\ TimingInv)
<1>1. Init => IInv /\ TimingInv
  BY InitIInv, InitTiming
<1>2. IInv /\ TimingInv /\ [Next]_vars => IInv' /\ TimingInv'
  BY NextIInv, NextTiming
<1> QED BY <1>1, <1>2, PTL DEF Spec

(* For every chunking of every stream and every configuration, the timing records
   cover the buffered bytes and no others: a byte's record is the one of the chunk
   that brought it, whatever was consumed, rejected, clamped or lost to an overflow. *)
THEOREM PendingCorrect == Spec => []PendingDescribesBuffer
<1>1. ASSUME IInv, TimingInv PROVE PendingDescribesBuffer
  <2> DEFINE u == BytesUpTo(pending)
  <2>1. /\ pending \in Seq(RecordType) /\ Sums(pending, u) /\ u[Len(pending)] = Len(buffer)
        /\ \A k \in 1 .. Len(pending), i \in 1 .. Len(buffer) :
              u[k - 1] < i /\ i <= u[k] => pending[k].src = buffer[i].src
    BY <1>1, BytesUpToSums DEF TimingInv, RecordsOf, DescribedBy
  <2> HIDE DEF u
  <2>2. /\ Len(pending) \in Nat /\ u[0] = 0 /\ \A i \in 0 .. Len(pending) : u[i] \in Nat
        /\ Len(buffer) \in Nat /\ DOMAIN buffer = 1 .. Len(buffer)
        /\ DOMAIN pending = 1 .. Len(pending)
    <3>1. Len(buffer) \in Nat /\ DOMAIN buffer = 1 .. Len(buffer)
      BY <1>1, LenProperties DEF IInv, ShapeInv
    <3>2. DOMAIN pending = 1 .. Len(pending)
      BY <2>1, LenProperties
    <3> QED BY <2>1, <3>1, <3>2, SumsFacts
  <2>3. ASSUME NEW i \in 1 .. Len(buffer)
        PROVE  pending[Lowest({k \in DOMAIN pending : u[k] >= i})].src = buffer[i].src
    <3> DEFINE S == {k \in DOMAIN pending : u[k] >= i}
               l == Lowest(S)
    <3>1. i - 1 \in Nat /\ i \in Nat
      BY <2>2
    <3>2. S = {k \in 1 .. Len(pending) : i - 1 < u[k]}
      <4>1. \A k \in 1 .. Len(pending) : u[k] \in Nat
        BY <2>2
      <4> QED BY <2>2, <3>1, <4>1
    <3>3. S # {}
      <4>1. Len(pending) # 0
        BY <2>1, <2>2, <3>1
      <4>2. Len(pending) \in DOMAIN pending /\ u[Len(pending)] >= i
        BY <2>1, <2>2, <3>1, <4>1
      <4> QED BY <4>2
    <3> HIDE DEF S
    <3>4. l \in 1 .. Len(pending) /\ i - 1 < u[l] /\ u[l - 1] <= i - 1
      BY <2>1, <3>1, <3>2, <3>3, EndsIn
    <3> HIDE DEF l
    <3>5. u[l] \in Nat /\ u[l - 1] \in Nat
      <4>1. l \in 0 .. Len(pending) /\ l - 1 \in 0 .. Len(pending)
        BY <2>2, <3>4
      <4> QED BY <2>2, <4>1
    <3>6. u[l - 1] < i /\ i <= u[l]
      BY <3>1, <3>4, <3>5
    <3>7. pending[l].src = buffer[i].src
      BY <2>1, <3>4, <3>6
    <3> QED BY <3>7 DEF l, S
  <2>4. u[Len(pending)] = Len(buffer) /\
        \A i \in DOMAIN buffer : pending[Lowest({k \in DOMAIN pending : u[k] >= i})].src = buffer[i].src
    BY <2>1, <2>2, <2>3
  <2> QED BY <2>4, Zenon DEF PendingDescribesBuffer, u
<1> QED BY <1>1, TimingInvariance, PTL

(* For every chunking of every stream, a frame is stamped with the arrival of the
   chunk that holds its last byte, and the stamps of the frames handed on strictly
   increase: frameTimestamp never gives the same stamp twice and never an earlier
   one, even when one chunk completes several frames. *)
THEOREM StampsCorrect == Spec => []StampsFollowTheLastByte
<1>1. ASSUME TimingInv PROVE StampsFollowTheLastByte
  <2>1. DOMAIN frames = 1 .. Len(frames)
    BY <1>1, LenProperties DEF TimingInv, FramesOf
  <2> QED BY <1>1, <2>1 DEF TimingInv, FramesOf, Before, StampsFollowTheLastByte
<1> QED BY <1>1, TimingInvariance, PTL

-----------------------------------------------------------------------------
(* What more bytes behind the buffered ones change in the searches. *)

(* Bytes taken off the front are taken off whatever stands behind the rest. *)
LEMMA DropConcat ==
    ASSUME NEW S, NEW s \in Seq(S), NEW t \in Seq(S), NEW n \in 0 .. Len(s)
    PROVE  Drop(s \o t, n) = Drop(s, n) \o t
<1> DEFINE u == s \o t
<1>1. /\ u \in Seq(S) /\ Len(u) = Len(s) + Len(t)
      /\ \A i \in 1 .. Len(s) + Len(t) : u[i] = IF i <= Len(s) THEN s[i] ELSE t[i - Len(s)]
      /\ Len(s) \in Nat /\ Len(t) \in Nat
  BY ConcatProperties, LenProperties
<1> HIDE DEF u
<1>2. n \in 0 .. Len(u)
  BY <1>1
<1>3. /\ Drop(u, n) \in Seq(S) /\ Len(Drop(u, n)) = Len(u) - n
      /\ Drop(s, n) \in Seq(S) /\ Len(Drop(s, n)) = Len(s) - n
  BY <1>1, <1>2, DropType
<1>4. /\ \A i \in 1 .. Len(u) - n : Drop(u, n)[i] = u[i + n]
      /\ \A i \in 1 .. Len(s) - n : Drop(s, n)[i] = s[i + n]
  BY <1>1, <1>2, <1>3, DropElements
<1> DEFINE d == Drop(s, n)
<1>5. /\ d \o t \in Seq(S)
      /\ Len(d \o t) = Len(s) - n + Len(t)
      /\ \A i \in 1 .. Len(s) - n + Len(t) : (d \o t)[i] =
            IF i <= Len(s) - n THEN d[i] ELSE t[i - (Len(s) - n)]
  <2>1. d \in Seq(S) /\ Len(d) = Len(s) - n
    BY <1>3
  <2> HIDE DEF d
  <2>2. /\ d \o t \in Seq(S)
        /\ Len(d \o t) = Len(d) + Len(t)
        /\ \A i \in 1 .. Len(d) + Len(t) : (d \o t)[i] =
              IF i <= Len(d) THEN d[i] ELSE t[i - Len(d)]
    BY <2>1, ConcatProperties
  <2> QED BY <2>1, <2>2
<1>6. Len(Drop(u, n)) = Len(Drop(s, n) \o t)
  BY <1>1, <1>3, <1>5
<1>7. ASSUME NEW i \in 1 .. Len(Drop(u, n))
      PROVE  Drop(u, n)[i] = (Drop(s, n) \o t)[i]
  <2>1. i \in 1 .. Len(u) - n /\ i + n \in 1 .. Len(s) + Len(t) /\ i \in 1 .. Len(s) - n + Len(t)
    BY <1>1, <1>3
  <2>2. Drop(u, n)[i] = IF i + n <= Len(s) THEN s[i + n] ELSE t[i + n - Len(s)]
    BY <1>1, <1>4, <2>1
  <2>3. CASE i + n <= Len(s)
    <3>1. i \in 1 .. Len(s) - n /\ i <= Len(s) - n
      BY <1>1, <2>1, <2>3
    <3> QED BY <1>4, <1>5, <2>1, <2>2, <2>3, <3>1
  <2>4. CASE ~(i + n <= Len(s))
    <3>1. ~(i <= Len(s) - n) /\ i + n - Len(s) = i - (Len(s) - n)
      BY <1>1, <2>1, <2>4
    <3> QED BY <1>5, <2>1, <2>2, <2>4, <3>1
  <2> QED BY <2>3, <2>4
<1> QED BY <1>3, <1>5, <1>6, <1>7, SeqEqual DEF u

(* Two portions taken off the front are one. *)
LEMMA DropDrop ==
    ASSUME NEW S, NEW s \in Seq(S), NEW m \in 0 .. Len(s), NEW n \in 0 .. Len(s) - m
    PROVE  Drop(Drop(s, m), n) = Drop(s, m + n)
<1> DEFINE d == Drop(s, m)
<1>1. /\ d \in Seq(S) /\ Len(d) = Len(s) - m /\ Len(s) \in Nat
      /\ \A i \in 1 .. Len(d) : d[i] = s[i + m]
  BY DropType, DropElements, LenProperties
<1> HIDE DEF d
<1>2. n \in 0 .. Len(d) /\ m + n \in 0 .. Len(s)
  BY <1>1
<1>3. /\ Drop(d, n) \in Seq(S) /\ Len(Drop(d, n)) = Len(d) - n
      /\ \A i \in 1 .. Len(Drop(d, n)) : Drop(d, n)[i] = d[i + n]
  BY <1>1, <1>2, DropType, DropElements
<1>4. /\ Drop(s, m + n) \in Seq(S) /\ Len(Drop(s, m + n)) = Len(s) - (m + n)
      /\ \A i \in 1 .. Len(Drop(s, m + n)) : Drop(s, m + n)[i] = s[i + (m + n)]
  BY <1>2, DropType, DropElements
<1>5. ASSUME NEW i \in 1 .. Len(Drop(d, n)) PROVE Drop(d, n)[i] = Drop(s, m + n)[i]
  <2>1. i + n \in 1 .. Len(d) /\ (i + n) + m = i + (m + n) /\ i \in 1 .. Len(Drop(s, m + n))
    BY <1>1, <1>3, <1>4
  <2> QED BY <1>1, <1>3, <1>4, <2>1
<1>6. Len(Drop(d, n)) = Len(Drop(s, m + n))
  BY <1>1, <1>2, <1>3, <1>4
<1> QED BY <1>3, <1>4, <1>5, <1>6, SeqEqual DEF d

(* A pattern that lies within the buffered bytes is there with or without more. *)
LEMMA MatchConcat ==
    ASSUME NEW b \in Seq(Byte), NEW y \in Seq(Byte), NEW pattern \in Seq(Byte),
           NEW i \in Nat, i + Len(pattern) <= Len(b)
    PROVE  MatchAt(b \o y, i, pattern) <=> MatchAt(b, i, pattern)
<1>1. /\ Len(b \o y) = Len(b) + Len(y)
      /\ \A k \in 1 .. Len(b) + Len(y) : (b \o y)[k] = IF k <= Len(b) THEN b[k] ELSE y[k - Len(b)]
      /\ Len(b) \in Nat /\ Len(y) \in Nat /\ Len(pattern) \in Nat
  BY ConcatProperties, LenProperties
<1>2. \A k \in 1 .. Len(pattern) : (b \o y)[i + k] = b[i + k]
  <2> SUFFICES ASSUME NEW k \in 1 .. Len(pattern) PROVE (b \o y)[i + k] = b[i + k]
    OBVIOUS
  <2>1. i + k \in 1 .. Len(b) + Len(y) /\ i + k <= Len(b)
    BY <1>1
  <2> QED BY <1>1, <2>1
<1>3. i + Len(pattern) <= Len(b \o y)
  BY <1>1
<1> QED BY <1>2, <1>3 DEF MatchAt

(* A pattern is k bytes nearer once k bytes are taken off the front. *)
LEMMA MatchDrop ==
    ASSUME NEW b \in Seq(Byte), NEW pattern \in Seq(Byte),
           NEW k \in 0 .. Len(b), NEW i \in Nat
    PROVE  MatchAt(Drop(b, k), i, pattern) <=> MatchAt(b, i + k, pattern)
<1>1. /\ Len(Drop(b, k)) = Len(b) - k /\ Len(b) \in Nat /\ Len(pattern) \in Nat
      /\ \A j \in 1 .. Len(Drop(b, k)) : Drop(b, k)[j] = b[j + k]
  BY DropType, DropElements, LenProperties
<1>2. i + Len(pattern) <= Len(Drop(b, k)) <=> i + k + Len(pattern) <= Len(b)
  BY <1>1
<1>3. ASSUME i + Len(pattern) <= Len(Drop(b, k)), NEW j \in 1 .. Len(pattern)
      PROVE  Drop(b, k)[i + j] = b[i + k + j]
  <2>1. i + j \in 1 .. Len(Drop(b, k)) /\ (i + j) + k = i + k + j
    BY <1>1, <1>3
  <2> QED BY <1>1, <2>1
<1> QED BY <1>2, <1>3 DEF MatchAt

-----------------------------------------------------------------------------
(* First matches *)

(* Where a pattern is first found at or after from, -1 when it is not. *)
FirstAt(b, pattern, from, r) ==
    \/ r = -1 /\ \A i \in Nat : i >= from => ~MatchAt(b, i, pattern)
    \/ /\ r \in Nat /\ r >= from /\ MatchAt(b, r, pattern)
       /\ \A i \in Nat : i >= from /\ i < r => ~MatchAt(b, i, pattern)

(* findPatternKMP returns that place. *)
LEMMA FindPatternFirst ==
    ASSUME NEW b \in Seq(Byte), NEW pattern \in Seq(Byte), Len(pattern) > 0, NEW from \in Nat
    PROVE  FirstAt(b, pattern, from, FindPattern(b, pattern, from))
<1> DEFINE hits == {i \in from .. Len(b) - 1 : MatchAt(b, i, pattern)}
<1>1. hits \in SUBSET Nat /\ Len(b) \in Nat /\ Len(pattern) \in Nat
  BY LenProperties
<1>2. ASSUME NEW i \in Nat, i >= from, MatchAt(b, i, pattern) PROVE i \in hits
  <2>1. i <= Len(b) - 1
    BY <1>1, <1>2 DEF MatchAt
  <2> QED BY <1>1, <1>2, <2>1
<1>3. CASE hits = {}
  BY <1>2, <1>3 DEF FindPattern, FirstAt
<1>4. CASE hits # {}
  <2>1. FindPattern(b, pattern, from) = Lowest(hits)
    BY <1>4 DEF FindPattern
  <2>2. Lowest(hits) \in hits /\ \A i \in hits : Lowest(hits) <= i
    BY <1>1, <1>4, LowestProperty
  <2>3. Lowest(hits) \in Nat /\ Lowest(hits) >= from /\ MatchAt(b, Lowest(hits), pattern)
    BY <2>2
  <2> HIDE DEF hits
  <2>4. ASSUME NEW i \in Nat, i >= from, i < Lowest(hits) PROVE ~MatchAt(b, i, pattern)
    BY <1>2, <2>2, <2>3, <2>4
  <2> QED BY <2>1, <2>3, <2>4 DEF FirstAt
<1> QED BY <1>3, <1>4

(* There is one such place. *)
LEMMA FirstAtUnique ==
    ASSUME NEW b, NEW pattern, NEW from \in Nat, NEW r, NEW s,
           FirstAt(b, pattern, from, r), FirstAt(b, pattern, from, s)
    PROVE  r = s
BY DEF FirstAt

(* A match in the buffered bytes stays the first one; one that more bytes bring
   ends behind them. *)
LEMMA FindPatternConcat ==
    ASSUME NEW b \in Seq(Byte), NEW y \in Seq(Byte), NEW pattern \in Seq(Byte),
           Len(pattern) > 0, NEW from \in Nat
    PROVE  LET r == FindPattern(b, pattern, from)
               s == FindPattern(b \o y, pattern, from)
           IN  /\ r # -1 => s = r
               /\ r = -1 => s = -1 \/ (s \in Nat /\ s + Len(pattern) > Len(b))
<1> DEFINE r == FindPattern(b, pattern, from)
           s == FindPattern(b \o y, pattern, from)
<1>1. b \o y \in Seq(Byte) /\ Len(b) \in Nat /\ Len(pattern) \in Nat /\ Len(b \o y) \in Nat
      /\ Len(b \o y) = Len(b) + Len(y) /\ Len(y) \in Nat
  BY ConcatProperties, LenProperties
<1>2. FirstAt(b, pattern, from, r) /\ FirstAt(b \o y, pattern, from, s)
  <2>1. FirstAt(b, pattern, from, r)
    BY FindPatternFirst
  <2>2. FirstAt(b \o y, pattern, from, s)
    BY <1>1, FindPatternFirst
  <2> QED BY <2>1, <2>2
<1> HIDE DEF r, s
<1>3. ASSUME NEW i \in Nat, MatchAt(b \o y, i, pattern), ~MatchAt(b, i, pattern)
      PROVE  i + Len(pattern) > Len(b)
  BY <1>1, <1>3, MatchConcat
<1>4. ASSUME NEW i \in Nat, MatchAt(b, i, pattern)
      PROVE  MatchAt(b \o y, i, pattern) /\ i + Len(pattern) <= Len(b)
  <2>1. i + Len(pattern) <= Len(b)
    BY <1>4 DEF MatchAt
  <2> QED BY <1>4, <2>1, MatchConcat
<1>5. CASE r = -1
  BY <1>2, <1>3, <1>5 DEF FirstAt, r, s
<1>6. CASE r # -1
  <2>1. /\ r \in Nat /\ r >= from /\ MatchAt(b, r, pattern)
        /\ \A i \in Nat : i >= from /\ i < r => ~MatchAt(b, i, pattern)
    BY <1>2, <1>6 DEF FirstAt
  <2>2. MatchAt(b \o y, r, pattern) /\ r + Len(pattern) <= Len(b)
    BY <1>4, <2>1
  <2>3. \A i \in Nat : i >= from /\ i < r => ~MatchAt(b \o y, i, pattern)
    BY <1>1, <1>3, <2>1, <2>2
  <2>4. FirstAt(b \o y, pattern, from, r)
    BY <2>1, <2>2, <2>3 DEF FirstAt
  <2>5. s = r
    BY <1>2, <2>4, FirstAtUnique
  <2> QED BY <1>6, <2>5 DEF r, s
<1> QED BY <1>5, <1>6 DEF r, s

(* The first place where one of the patterns is found, and the first listed of
   the patterns found there; -1 when none is. *)
FirstOfAt(b, patterns, r, q) ==
    \/ /\ r = -1
       /\ \A i \in Nat : \A p \in DOMAIN patterns : ~MatchAt(b, i, patterns[p])
    \/ /\ r \in Nat /\ q \in DOMAIN patterns /\ MatchAt(b, r, patterns[q])
       /\ \A p \in DOMAIN patterns : MatchAt(b, r, patterns[p]) => q <= p
       /\ \A i \in Nat : \A p \in DOMAIN patterns : i < r => ~MatchAt(b, i, patterns[p])

(* findFirstOfPatterns returns that place and that pattern. *)
LEMMA FindFirstOfFirst ==
    ASSUME NEW b \in Seq(Byte), NEW patterns \in Seq(Seq(Byte)),
           \A p \in DOMAIN patterns : Len(patterns[p]) > 0
    PROVE  \E q : /\ FirstOfAt(b, patterns, FindFirstOf(b, patterns).pos, q)
                  /\ FindFirstOf(b, patterns).pos # -1 =>
                        FindFirstOf(b, patterns).pattern = patterns[q]
<1> DEFINE at(i) == {p \in DOMAIN patterns : MatchAt(b, i, patterns[p])}
           hits  == {i \in 0 .. Len(b) - 1 : at(i) # {}}
<1>1. hits \in SUBSET Nat /\ Len(b) \in Nat
  BY LenProperties
<1>2. ASSUME NEW i \in Nat, NEW p \in DOMAIN patterns, MatchAt(b, i, patterns[p])
      PROVE  i \in hits
  <2>1. Len(patterns[p]) \in Nat /\ Len(patterns[p]) > 0
    BY LenProperties
  <2>2. i <= Len(b) - 1
    BY <1>1, <1>2, <2>1 DEF MatchAt
  <2>3. p \in at(i)
    BY <1>2
  <2> QED BY <1>1, <2>2, <2>3
<1>3. CASE hits = {}
  <2>1. FindFirstOf(b, patterns).pos = -1
    BY <1>3 DEF FindFirstOf
  <2>2. \A i \in Nat : \A p \in DOMAIN patterns : ~MatchAt(b, i, patterns[p])
    BY <1>2, <1>3
  <2> QED BY <2>1, <2>2 DEF FirstOfAt
<1>4. CASE hits # {}
  <2> DEFINE r == Lowest(hits)
             q == Lowest(at(r))
  <2>1. r \in hits /\ \A i \in hits : r <= i
    BY <1>1, <1>4, LowestProperty
  <2>2. FindFirstOf(b, patterns) = [pos |-> r, pattern |-> patterns[q]]
    BY <1>4 DEF FindFirstOf
  <2>3. at(r) \in SUBSET Nat /\ at(r) # {} /\ r \in Nat
    <3>1. \A i : at(i) \in SUBSET Nat
      OBVIOUS
    <3>2. \A i \in hits : at(i) # {}
      OBVIOUS
    <3> HIDE DEF at, hits, r
    <3> QED BY <1>1, <2>1, <3>1, <3>2
  <2> HIDE DEF hits, r
  <2>4. q \in at(r) /\ \A p \in at(r) : q <= p
    <3> HIDE DEF at
    <3> QED BY <2>3, LowestProperty
  <2> HIDE DEF q
  <2>5. q \in DOMAIN patterns /\ MatchAt(b, r, patterns[q])
        /\ \A p \in DOMAIN patterns : MatchAt(b, r, patterns[p]) => q <= p
    BY <2>4
  <2>6. ASSUME NEW i \in Nat, NEW p \in DOMAIN patterns, i < r
        PROVE  ~MatchAt(b, i, patterns[p])
    BY <1>2, <2>1, <2>3, <2>6
  <2>7. FirstOfAt(b, patterns, r, q)
    BY <2>3, <2>5, <2>6 DEF FirstOfAt
  <2> QED BY <2>2, <2>7
<1> QED BY <1>3, <1>4

(* There is one such place and, if it is not -1, one such pattern. *)
LEMMA FirstOfUnique ==
    ASSUME NEW b, NEW patterns \in Seq(Seq(Byte)), NEW r, NEW q, NEW s, NEW p,
           FirstOfAt(b, patterns, r, q), FirstOfAt(b, patterns, s, p)
    PROVE  r = s /\ (r # -1 => q = p)
<1>1. DOMAIN patterns \subseteq Nat
  BY LenProperties
<1> QED BY <1>1 DEF FirstOfAt

-----------------------------------------------------------------------------
(* Turns of the loop on a buffer that receives nothing more *)

(* What one turn takes off the buffer, and the frame it finds, if it goes on. *)
Stops(s)   == ScanOutcome(s).kind = "break"
Taken(out, s) == out.skip + SmallerOf(out.n, Len(s) - out.skip)
Left(s)    == Drop(s, Taken(ScanOutcome(s), s))
Found(s)   == IF ScanOutcome(s).kind = "frame" THEN <<ScanOutcome(s).data>> ELSE <<>>

(* A turn as ExtractAll repeats it: what is left and the frames got so far. *)
Turn(s) == LET out == ScanOutcome(s.rest) IN
    IF out.kind = "break" THEN s
    ELSE [rest |-> Drop(s.rest, out.skip + SmallerOf(out.n, Len(s.rest) - out.skip)),
          got  |-> IF out.kind = "frame" THEN Append(s.got, out.data) ELSE s.got]

TurnType == [rest : Seq(Byte), got : Seq(Seq(Byte))]

Working == cfg \in Configs /\ cfg.detection # "None"

(* A turn that goes on takes bytes off the front. *)
LEMMA LeftFacts ==
    ASSUME Working, NEW s \in Seq(Byte), ~Stops(s)
    PROVE  /\ Taken(ScanOutcome(s), s) \in 1 .. Len(s)
           /\ Left(s) \in Seq(Byte) /\ Len(Left(s)) < Len(s) /\ Len(Left(s)) \in Nat
           /\ Found(s) \in Seq(Seq(Byte))
<1> DEFINE out == ScanOutcome(s)
<1>1. OutcomeOK(out, s) /\ FrameFits(out, s) /\ Len(s) \in Nat
  BY ScanOutcomeOK, ScanFits, LenProperties DEF Working
<1>2. out.kind # "break"
  BY DEF Stops
<1>3. out.skip \in Nat /\ out.skip < Len(s) /\ out.n \in Nat /\ out.n > 0
  BY <1>1, <1>2 DEF OutcomeOK
<1>4. out.kind = "frame" => out.data \in Seq(Byte)
  BY <1>1 DEF FrameFits
<1>5. Found(s) \in Seq(Seq(Byte))
  <2> HIDE DEF out
  <2>1. out.kind = "frame" => <<out.data>> \in Seq(Seq(Byte))
    BY <1>4
  <2>2. Found(s) = IF out.kind = "frame" THEN <<out.data>> ELSE <<>>
    BY DEF Found, out
  <2> QED BY <2>1, <2>2
<1> HIDE DEF out
<1>6. Taken(out, s) \in 1 .. Len(s)
  BY <1>1, <1>3 DEF Taken, SmallerOf
<1> DEFINE k == Taken(out, s)
<1>7. Left(s) = Drop(s, k)
  BY DEF Left, out
<1> HIDE DEF k
<1>8. k \in 0 .. Len(s) /\ k > 0
  BY <1>1, <1>6 DEF k
<1>9. Left(s) \in Seq(Byte) /\ Len(Left(s)) = Len(s) - k
  BY <1>7, <1>8, DropType
<1>10. Len(Left(s)) < Len(s) /\ Len(Left(s)) \in Nat
  BY <1>1, <1>8, <1>9
<1> QED BY <1>5, <1>6, <1>9, <1>10 DEF out

(* The loop leaves an empty buffer alone. *)
LEMMA EmptyStops ==
    ASSUME Working, NEW s \in Seq(Byte), Len(s) = 0
    PROVE  Stops(s)
<1>1. OutcomeOK(ScanOutcome(s), s)
  BY ScanOutcomeOK DEF Working
<1> QED BY <1>1 DEF OutcomeOK, Stops

(* What a turn does to a state of the repetition. *)
LEMMA TurnFacts ==
    ASSUME Working, NEW s \in TurnType
    PROVE  /\ Turn(s) \in TurnType
           /\ Stops(s.rest) => Turn(s) = s
           /\ ~Stops(s.rest) => Turn(s) = [rest |-> Left(s.rest), got |-> s.got \o Found(s.rest)]
<1> DEFINE out == ScanOutcome(s.rest)
<1>1. s.rest \in Seq(Byte) /\ s.got \in Seq(Seq(Byte))
  BY DEF TurnType
<1>2. CASE Stops(s.rest)
  BY <1>2, Zenon DEF Stops, Turn
<1>3. CASE ~Stops(s.rest)
  <2>1. Left(s.rest) \in Seq(Byte) /\ Found(s.rest) \in Seq(Seq(Byte))
    BY <1>1, <1>3, LeftFacts
  <2>2. (IF out.kind = "frame" THEN Append(s.got, out.data) ELSE s.got) = s.got \o Found(s.rest)
    <3>1. CASE out.kind = "frame"
      <4>1. Found(s.rest) = <<out.data>>
        BY <3>1 DEF Found
      <4>2. out.data \in Seq(Byte)
        BY <1>1, <3>1, ScanFits DEF Working, FrameFits
      <4>3. Append(s.got, out.data) = s.got \o <<out.data>>
        BY <1>1, <4>2, AppendIsConcat
      <4> QED BY <3>1, <4>1, <4>3, Zenon
    <3>2. CASE out.kind # "frame"
      <4>1. Found(s.rest) = <<>>
        BY <3>2 DEF Found
      <4>2. s.got \o <<>> = s.got
        BY <1>1, ConcatEmptySeq
      <4> QED BY <3>2, <4>1, <4>2, Zenon
    <3> QED BY <3>1, <3>2
  <2>3. Turn(s) = [rest |-> Left(s.rest), got |-> s.got \o Found(s.rest)]
    BY <1>3, <2>2, Zenon DEF Stops, Turn, Left, Taken
  <2>4. s.got \o Found(s.rest) \in Seq(Seq(Byte))
    BY <1>1, <2>1, ConcatProperties
  <2>5. Turn(s) \in TurnType
    BY <2>1, <2>3, <2>4 DEF TurnType
  <2> QED BY <1>3, <2>3, <2>5
<1> QED BY <1>2, <1>3

(* n turns, one after the other, from state s. *)
RunOf(f, s, n) ==
    /\ f = [k \in 0 .. n |-> f[k]]
    /\ f[0] = s
    /\ \A k \in 1 .. n : f[k] = Turn(f[k - 1])

(* There is such a run from every state. *)
LEMMA RunExists ==
    ASSUME NEW s, NEW n \in Nat
    PROVE  \E f : RunOf(f, s, n)
<1> DEFINE S == {m \in Nat : \E f : RunOf(f, s, m)}
<1>1. 0 \in S
  <2> DEFINE f == [k \in 0 .. 0 |-> s]
  <2>1. RunOf(f, s, 0)
    BY DEF RunOf
  <2> HIDE DEF f
  <2> QED BY <2>1
<1>2. ASSUME NEW m \in Nat, m \in S PROVE m + 1 \in S
  <2>1. PICK f : RunOf(f, s, m)
    BY <1>2
  <2> DEFINE t == Turn(f[m])
             v == [k \in 0 .. m + 1 |-> IF k = m + 1 THEN t ELSE f[k]]
  <2> HIDE DEF t
  <2>2. v = [k \in 0 .. m + 1 |-> v[k]]
    OBVIOUS
  <2>3. v[0] = s
    BY <2>1 DEF RunOf
  <2>4. ASSUME NEW k \in 1 .. m + 1 PROVE v[k] = Turn(v[k - 1])
    <3>1. k \in 0 .. m + 1 /\ k - 1 \in 0 .. m + 1 /\ k - 1 # m + 1
      OBVIOUS
    <3>2. v[k - 1] = f[k - 1]
      BY <3>1
    <3>3. CASE k = m + 1
      <4>1. v[k] = t /\ k - 1 = m
        BY <3>1, <3>3
      <4> HIDE DEF v
      <4> QED BY <3>2, <4>1 DEF t
    <3>4. CASE k # m + 1
      <4>1. v[k] = f[k] /\ k \in 1 .. m
        BY <3>1, <3>4
      <4> HIDE DEF v
      <4> QED BY <2>1, <3>2, <4>1 DEF RunOf
    <3> QED BY <3>3, <3>4
  <2> HIDE DEF v
  <2>5. RunOf(v, s, m + 1)
    BY <2>2, <2>3, <2>4 DEF RunOf
  <2> QED BY <2>5
<1> HIDE DEF S
<1>3. n \in S
  BY <1>1, <1>2, SetInduction
<1> QED BY <1>3 DEF S

(* Two runs from a state agree as far as both go. *)
LEMMA RunUnique ==
    ASSUME NEW s, NEW n \in Nat, NEW m \in Nat, NEW f, NEW g,
           RunOf(f, s, n), RunOf(g, s, m), NEW k \in Nat, k <= n, k <= m
    PROVE  f[k] = g[k]
<1> DEFINE S == {i \in Nat : i <= n /\ i <= m => f[i] = g[i]}
<1>1. 0 \in S
  BY DEF RunOf
<1>2. ASSUME NEW i \in Nat, i \in S PROVE i + 1 \in S
  <2> SUFFICES ASSUME i + 1 <= n, i + 1 <= m PROVE f[i + 1] = g[i + 1]
    OBVIOUS
  <2>1. i + 1 \in 1 .. n /\ i + 1 \in 1 .. m /\ (i + 1) - 1 = i /\ f[i] = g[i]
    BY <1>2
  <2>2. f[i + 1] = Turn(f[(i + 1) - 1]) /\ g[i + 1] = Turn(g[(i + 1) - 1])
    BY <2>1, Zenon DEF RunOf
  <2> QED BY <2>1, <2>2
<1> HIDE DEF S
<1>3. k \in S
  BY <1>1, <1>2, SetInduction
<1> QED BY <1>3 DEF S

(* The states of a run are states, and it stops before it has taken more turns
   than there were bytes. *)
LEMMA RunFacts ==
    ASSUME Working, NEW s \in TurnType, NEW n \in Nat, NEW f, RunOf(f, s, n)
    PROVE  \A k \in 0 .. n : /\ f[k] \in TurnType
                             /\ Stops(f[k].rest) \/ Len(f[k].rest) + k <= Len(s.rest)
<1> DEFINE S == {k \in Nat : k <= n => /\ f[k] \in TurnType
                                       /\ Stops(f[k].rest) \/ Len(f[k].rest) + k <= Len(s.rest)}
<1>0. Len(s.rest) \in Nat /\ f[0] = s
  BY LenProperties DEF TurnType, RunOf
<1>1. 0 \in S
  BY <1>0
<1>2. ASSUME NEW k \in Nat, k \in S PROVE k + 1 \in S
  <2> SUFFICES ASSUME k + 1 <= n
               PROVE  /\ f[k + 1] \in TurnType
                      /\ Stops(f[k + 1].rest) \/ Len(f[k + 1].rest) + (k + 1) <= Len(s.rest)
    BY k + 1 \in Nat
  <2>1. /\ f[k] \in TurnType
        /\ Stops(f[k].rest) \/ Len(f[k].rest) + k <= Len(s.rest)
    BY <1>2
  <2>2. k + 1 \in 1 .. n /\ (k + 1) - 1 = k
    OBVIOUS
  <2>3. f[k + 1] = Turn(f[(k + 1) - 1])
    BY <2>2, Zenon DEF RunOf
  <2> DEFINE t == f[k]
             u == f[k + 1]
  <2>4. u = Turn(t) /\ t \in TurnType /\ (Stops(t.rest) \/ Len(t.rest) + k <= Len(s.rest))
    BY <2>1, <2>2, <2>3
  <2> HIDE DEF t, u
  <2>5. u \in TurnType
    BY <2>4, TurnFacts
  <2>6. CASE Stops(t.rest)
    BY <2>4, <2>5, <2>6, TurnFacts DEF u
  <2>7. CASE ~Stops(t.rest)
    <3>1. t.rest \in Seq(Byte) /\ u = [rest |-> Left(t.rest), got |-> t.got \o Found(t.rest)]
      BY <2>4, <2>7, TurnFacts DEF TurnType
    <3>2. Len(Left(t.rest)) < Len(t.rest) /\ Len(Left(t.rest)) \in Nat /\ Len(t.rest) \in Nat
      BY <2>7, <3>1, LeftFacts, LenProperties
    <3>3. u.rest = Left(t.rest)
      BY <3>1
    <3>4. Len(u.rest) + (k + 1) <= Len(s.rest)
      BY <1>0, <2>4, <2>7, <3>2, <3>3
    <3> QED BY <2>5, <3>4 DEF u
  <2> QED BY <2>6, <2>7
<1> HIDE DEF S
<1>3. \A k \in Nat : k \in S
  BY <1>1, <1>2, SetInduction
<1> QED BY <1>3 DEF S

(* After as many turns as there were bytes, nothing changes any more. *)
LEMMA RunEnds ==
    ASSUME Working, NEW s \in TurnType, NEW n \in Nat, NEW f, RunOf(f, s, n),
           NEW m \in 0 .. n, Stops(f[m].rest)
    PROVE  f[n] = f[m]
<1> DEFINE S == {i \in Nat : m + i <= n => f[m + i] = f[m]}
<1>0. f[m] \in TurnType
  BY RunFacts
<1>1. 0 \in S
  BY m + 0 = m
<1>2. ASSUME NEW i \in Nat, i \in S PROVE i + 1 \in S
  <2> SUFFICES ASSUME m + (i + 1) <= n PROVE f[m + (i + 1)] = f[m]
    BY i + 1 \in Nat
  <2>1. m + (i + 1) \in 1 .. n /\ (m + (i + 1)) - 1 = m + i /\ m + i <= n
    OBVIOUS
  <2>2. f[m + i] = f[m]
    BY <1>2, <2>1
  <2>3. f[m + (i + 1)] = Turn(f[m + i])
    BY <2>1 DEF RunOf
  <2>4. Turn(f[m]) = f[m]
    BY <1>0, TurnFacts
  <2> QED BY <2>2, <2>3, <2>4
<1> HIDE DEF S
<1>3. \A i \in Nat : i \in S
  BY <1>1, <1>2, SetInduction
<1>4. n - m \in Nat /\ m + (n - m) = n
  OBVIOUS
<1>5. n - m \in S
  BY <1>3, <1>4
<1> QED BY <1>4, <1>5 DEF S

(* Frames in three portions. *)
LEMMA FramesAssociative ==
    ASSUME NEW a \in Seq(Seq(Byte)), NEW b \in Seq(Seq(Byte)), NEW c \in Seq(Seq(Byte))
    PROVE  (a \o b) \o c = a \o (b \o c)
OBVIOUS

(* Run f got g before what run h got. *)
Behind(f, h, g, n) == f[n] = [rest |-> h[n].rest, got |-> g \o h[n].got]

(* Frames got before a run stay in front of those it gets. *)
LEMMA RunPrefix ==
    ASSUME Working, NEW r \in Seq(Byte), NEW g \in Seq(Seq(Byte)), NEW n \in Nat, NEW f, NEW h,
           NEW t, t = [rest |-> r, got |-> g], NEW s, s = [rest |-> r, got |-> <<>>],
           RunOf(f, t, n), RunOf(h, s, n)
    PROVE  Behind(f, h, g, n)
<1> DEFINE S == {k \in Nat : k <= n => f[k] = [rest |-> h[k].rest, got |-> g \o h[k].got]}
<1>0. s \in TurnType
  BY DEF TurnType
<1>1. 0 \in S
  <2>1. f[0] = [rest |-> r, got |-> g] /\ h[0] = [rest |-> r, got |-> <<>>]
    BY DEF RunOf
  <2>2. g \o <<>> = g
    BY ConcatEmptySeq
  <2>3. h[0].rest = r /\ h[0].got = <<>>
    BY <2>1
  <2>4. f[0] = [rest |-> h[0].rest, got |-> g \o h[0].got]
    BY <2>1, <2>2, <2>3, Zenon
  <2> QED BY <2>4
<1>2. ASSUME NEW k \in Nat, k \in S PROVE k + 1 \in S
  <2> SUFFICES ASSUME k + 1 <= n
               PROVE  f[k + 1] = [rest |-> h[k + 1].rest, got |-> g \o h[k + 1].got]
    BY k + 1 \in Nat
  <2>2. k \in 0 .. n /\ k + 1 \in 1 .. n /\ (k + 1) - 1 = k
    BY k \in Nat, n \in Nat, k + 1 <= n
  <2> DEFINE v == h[k]
             u == f[k]
  <2>1. u = [rest |-> v.rest, got |-> g \o v.got]
    BY <1>2, <2>2
  <2>3. f[k + 1] = Turn(u) /\ h[k + 1] = Turn(v)
    <3>1. f[k + 1] = Turn(f[(k + 1) - 1]) /\ h[k + 1] = Turn(h[(k + 1) - 1])
      BY <2>2, Zenon DEF RunOf
    <3> QED BY <2>2, <3>1
  <2>4. v \in TurnType
    BY <1>0, <2>2, RunFacts
  <2> HIDE DEF v, u
  <2>5. v.rest \in Seq(Byte) /\ v.got \in Seq(Seq(Byte)) /\ g \o v.got \in Seq(Seq(Byte))
    <3>1. v.rest \in Seq(Byte) /\ v.got \in Seq(Seq(Byte))
      BY <2>4 DEF TurnType
    <3> QED BY <3>1, ConcatProperties
  <2>6. u \in TurnType /\ u.rest = v.rest /\ u.got = g \o v.got
    BY <2>1, <2>5 DEF TurnType
  <2>7. CASE Stops(v.rest)
    <3>1. Turn(v) = v
      BY <2>4, <2>7, TurnFacts
    <3>2. Stops(u.rest)
      BY <2>6, <2>7
    <3>3. Turn(u) = u
      BY <2>6, <3>2, TurnFacts
    <3> QED BY <2>1, <2>3, <3>1, <3>3
  <2>8. CASE ~Stops(v.rest)
    <3>1. Turn(v) = [rest |-> Left(v.rest), got |-> v.got \o Found(v.rest)]
      BY <2>4, <2>8, TurnFacts
    <3>2. ~Stops(u.rest)
      BY <2>6, <2>8
    <3>3. Turn(u) = [rest |-> Left(u.rest), got |-> u.got \o Found(u.rest)]
      BY <2>6, <3>2, TurnFacts
    <3>4. Found(v.rest) \in Seq(Seq(Byte))
      BY <2>5, <2>8, LeftFacts
    <3> DEFINE a == v.got
               d == Found(v.rest)
               l == Left(v.rest)
               x == h[k + 1]
               y == f[k + 1]
    <3>5. x = [rest |-> l, got |-> a \o d] /\ y = [rest |-> l, got |-> (g \o a) \o d]
      BY <2>3, <2>6, <3>1, <3>3, Zenon
    <3>6. a \in Seq(Seq(Byte)) /\ d \in Seq(Seq(Byte))
      BY <2>5, <3>4
    <3> HIDE DEF a, d, l, x, y
    <3>7. (g \o a) \o d = g \o (a \o d)
      BY <3>6, FramesAssociative
    <3>8. x.rest = l /\ x.got = a \o d
      BY <3>5
    <3>9. y = [rest |-> x.rest, got |-> g \o x.got]
      BY <3>5, <3>7, <3>8
    <3> QED BY <3>9 DEF x, y
  <2> QED BY <2>7, <2>8
<1> HIDE DEF S
<1>3. n \in S
  BY <1>1, <1>2, SetInduction
<1> QED BY <1>3 DEF S, Behind

(* ExtractAll is what a run has got after as many turns as there were bytes,
   and no later turn gets more. *)
LEMMA ExtractIsRun ==
    ASSUME Working, NEW s \in Seq(Byte), NEW n \in Nat, Len(s) <= n, NEW f,
           RunOf(f, [rest |-> s, got |-> <<>>], n)
    PROVE  ExtractAll(s) = f[n].got
<1> DEFINE st == [rest |-> s, got |-> <<>>]
           turn == CHOOSE t : t = [k \in 0 .. Len(s) |-> IF k = 0 THEN st ELSE Turn(t[k - 1])]
<1>1. Len(s) \in Nat /\ st \in TurnType
  BY LenProperties DEF TurnType
<1>2. PICK h : RunOf(h, st, Len(s))
  BY <1>1, RunExists
<1>3. ExtractAll(s) = turn[Len(s)].got
  BY Zenon DEF ExtractAll, Turn
<1>4. h = [k \in 0 .. Len(s) |-> IF k = 0 THEN st ELSE Turn(h[k - 1])]
  <2>1. h = [k \in 0 .. Len(s) |-> h[k]]
    BY <1>2 DEF RunOf
  <2>2. \A k \in 0 .. Len(s) : h[k] = IF k = 0 THEN st ELSE Turn(h[k - 1])
    <3>1. \A k \in 0 .. Len(s) : k # 0 => k \in 1 .. Len(s)
      BY <1>1
    <3> QED BY <1>2, <3>1 DEF RunOf
  <2> QED BY <2>1, <2>2, Zenon
<1>5. turn = [k \in 0 .. Len(s) |-> IF k = 0 THEN st ELSE Turn(turn[k - 1])]
  <2> HIDE DEF st
  <2> QED BY <1>4, Zenon
<1> HIDE DEF turn
<1>6. RunOf(turn, st, Len(s))
  <2> HIDE DEF st
  <2>1. DOMAIN turn = 0 .. Len(s)
    BY <1>5, Zenon
  <2>2. turn = [k \in 0 .. Len(s) |-> turn[k]]
    BY <1>5, Zenon
  <2>3. \A k \in 0 .. Len(s) : turn[k] = IF k = 0 THEN st ELSE Turn(turn[k - 1])
    BY <1>5, Zenon
  <2>4. 0 \in 0 .. Len(s) /\ \A k \in 1 .. Len(s) : k \in 0 .. Len(s) /\ k # 0
    BY <1>1
  <2> QED BY <2>2, <2>3, <2>4, Zenon DEF RunOf
<1>7. f[Len(s)] = turn[Len(s)]
  BY <1>1, <1>6, RunUnique
<1>8. Stops(f[Len(s)].rest)
  <2>1. /\ f[Len(s)] \in TurnType
        /\ Stops(f[Len(s)].rest) \/ Len(f[Len(s)].rest) + Len(s) <= Len(s)
    <3>1. Len(s) \in 0 .. n /\ st.rest = s
      BY <1>1
    <3> QED BY <1>1, <3>1, RunFacts
  <2> DEFINE r == f[Len(s)].rest
  <2>2. r \in Seq(Byte) /\ Len(r) \in Nat
    BY <2>1, LenProperties DEF TurnType
  <2>3. Stops(r) \/ Len(r) + Len(s) <= Len(s)
    BY <2>1
  <2> HIDE DEF r
  <2>4. Stops(r)
    BY <1>1, <2>2, <2>3, EmptyStops
  <2> QED BY <2>4 DEF r
<1>9. f[n] = f[Len(s)]
  BY <1>1, <1>8, RunEnds
<1> QED BY <1>3, <1>7, <1>9

(* A buffer the loop leaves alone yields no frame. *)
LEMMA ExtractStops ==
    ASSUME Working, NEW s \in Seq(Byte), Stops(s)
    PROVE  ExtractAll(s) = <<>>
<1> DEFINE st == [rest |-> s, got |-> <<>>]
<1>1. Len(s) \in Nat /\ st \in TurnType
  BY LenProperties DEF TurnType
<1>2. PICK f : RunOf(f, st, Len(s))
  BY <1>1, RunExists
<1>3. f[0] = st /\ 0 \in 0 .. Len(s)
  BY <1>1, <1>2 DEF RunOf
<1>4. Stops(f[0].rest)
  BY <1>3
<1>5. f[Len(s)] = f[0]
  BY <1>1, <1>2, <1>3, <1>4, RunEnds
<1>6. ExtractAll(s) = f[Len(s)].got
  BY <1>1, <1>2, ExtractIsRun
<1> QED BY <1>3, <1>5, <1>6

(* Any other yields the frame of one turn and then what is left yields. *)
LEMMA ExtractGoesOn ==
    ASSUME Working, NEW s \in Seq(Byte), ~Stops(s)
    PROVE  /\ ExtractAll(s) = Found(s) \o ExtractAll(Left(s))
           /\ ExtractAll(s) \in Seq(Seq(Byte))
<1> DEFINE st == [rest |-> s, got |-> <<>>]
           nx == [rest |-> Left(s), got |-> Found(s)]
           zr == [rest |-> Left(s), got |-> <<>>]
           n  == Len(s) - 1
<1>1. /\ Left(s) \in Seq(Byte) /\ Found(s) \in Seq(Seq(Byte))
      /\ Len(Left(s)) < Len(s) /\ Len(Left(s)) \in Nat /\ Len(s) \in Nat
  BY LeftFacts, LenProperties
<1>2. st \in TurnType /\ zr \in TurnType /\ nx \in TurnType
  BY <1>1 DEF TurnType
<1>3. PICK f : RunOf(f, st, Len(s))
  BY <1>1, RunExists
<1>4. n \in Nat /\ Len(Left(s)) <= n /\ Len(s) = n + 1
  BY <1>1
<1> HIDE DEF n
<1>5. PICK h : RunOf(h, zr, n)
  BY <1>4, RunExists
<1> DEFINE g == [k \in 0 .. n |-> f[k + 1]]
<1>6. RunOf(g, nx, n)
  <2>1. Turn(st) = nx
    <3>1. st.rest = s /\ st.got = <<>> /\ <<>> \o Found(s) = Found(s)
      BY <1>1, ConcatEmptySeq
    <3> QED BY <1>2, <3>1, TurnFacts
  <2>2. f[0] = st /\ \A k \in 1 .. n + 1 : f[k] = Turn(f[k - 1])
    BY <1>3, <1>4 DEF RunOf
  <2>3. g[0] = nx
    <3>1. g[0] = f[0 + 1] /\ 0 + 1 = 1 /\ 1 \in 1 .. n + 1 /\ 1 - 1 = 0
      BY <1>4
    <3> HIDE DEF g, st, nx
    <3>2. f[1] = Turn(f[1 - 1])
      BY <2>2, <3>1
    <3> QED BY <2>1, <2>2, <3>1, <3>2
  <2>4. ASSUME NEW k \in 1 .. n PROVE g[k] = Turn(g[k - 1])
    <3>1. /\ k \in 0 .. n /\ k - 1 \in 0 .. n /\ (k - 1) + 1 = k /\ k + 1 \in 1 .. n + 1
          /\ (k + 1) - 1 = k
      BY <1>4
    <3>2. g[k] = f[k + 1] /\ g[k - 1] = f[k]
      BY <3>1
    <3> HIDE DEF g
    <3>3. f[k + 1] = Turn(f[(k + 1) - 1])
      BY <2>2, <3>1
    <3> QED BY <3>1, <3>2, <3>3
  <2>5. g = [k \in 0 .. n |-> g[k]]
    OBVIOUS
  <2> HIDE DEF g
  <2> QED BY <2>3, <2>4, <2>5 DEF RunOf
<1>7. Behind(g, h, Found(s), n)
  <2>1. nx = [rest |-> Left(s), got |-> Found(s)] /\ zr = [rest |-> Left(s), got |-> <<>>]
    OBVIOUS
  <2> HIDE DEF g, nx, zr
  <2> QED BY <1>1, <1>4, <1>5, <1>6, <2>1, RunPrefix
<1>8. g[n] = f[Len(s)]
  BY <1>4
<1> HIDE DEF g
<1>9. ExtractAll(s) = f[Len(s)].got /\ ExtractAll(Left(s)) = h[n].got
  <2>1. ExtractAll(s) = f[Len(s)].got
    BY <1>1, <1>3, ExtractIsRun
  <2>2. ExtractAll(Left(s)) = h[n].got
    BY <1>1, <1>4, <1>5, ExtractIsRun
  <2> QED BY <2>1, <2>2
<1>10. f[Len(s)] \in TurnType
  <2>1. Len(s) \in 0 .. Len(s)
    BY <1>1
  <2> QED BY <1>1, <1>2, <1>3, <2>1, RunFacts
<1> QED BY <1>7, <1>8, <1>9, <1>10 DEF TurnType, Behind

(* What the loop extracts is a sequence of frames. *)
LEMMA ExtractType ==
    ASSUME Working, NEW s \in Seq(Byte)
    PROVE  ExtractAll(s) \in Seq(Seq(Byte))
<1>1. CASE Stops(s)
  <2>1. ExtractAll(s) = <<>>
    BY <1>1, ExtractStops
  <2> QED BY <2>1, EmptySeq
<1>2. CASE ~Stops(s)
  BY <1>2, ExtractGoesOn
<1> QED BY <1>1, <1>2

-----------------------------------------------------------------------------
(* What more bytes behind the buffered ones change in a turn *)

(* A portion of the buffered bytes is the same with or without more. *)
LEMMA PortionConcat ==
    ASSUME NEW b \in Seq(Byte), NEW y \in Seq(Byte), NEW m \in Nat \ {0}, NEW n \in Int, n <= Len(b)
    PROVE  SubSeq(b \o y, m, n) = SubSeq(b, m, n)
<1>0. Len(b) \in Nat
  BY LenProperties
<1>1. CASE n < m
  <2>1. SubSeq(b \o y, m, n) = <<>> /\ SubSeq(b, m, n) = <<>>
    BY <1>1, SubSeqEmpty
  <2> QED BY <2>1
<1>2. CASE ~(n < m)
  <2>1. m \in 1 .. Len(b) /\ n \in 1 .. Len(b)
    BY <1>0, <1>2
  <2> QED BY <2>1, SubSeqOfConcat1
<1> QED BY <1>1, <1>2

(* Nothing is taken off. *)
LEMMA DropNothing ==
    ASSUME NEW S, NEW s \in Seq(S)
    PROVE  Drop(s, 0) = s
BY SubSeqFull DEF Drop

(* The turn goes on in the same way, whatever comes behind the bytes b. *)
Resumes(b, y) ==
    LET out == ScanOutcome(b)
        n   == out.skip + out.n
    IN  n \in 0 .. Len(b) /\ ExtractAll(b \o y) = Found(b) \o ExtractAll(Drop(b, n) \o y)

(* It does if its outcome is the same. *)
LEMMA SameTurn ==
    ASSUME Working, NEW b \in Seq(Byte), NEW y \in Seq(Byte), ~Stops(b),
           ScanOutcome(b).skip + ScanOutcome(b).n <= Len(b),
           ScanOutcome(b \o y) = ScanOutcome(b)
    PROVE  Resumes(b, y)
<1> DEFINE out == ScanOutcome(b)
           c   == b \o y
           n   == out.skip + out.n
<1>1. out.skip \in Nat /\ out.n \in Nat /\ out.skip + out.n <= Len(b)
  BY ScanOutcomeOK DEF Working, OutcomeOK
<1>2. c \in Seq(Byte) /\ Len(c) = Len(b) + Len(y) /\ Len(b) \in Nat /\ Len(y) \in Nat
  BY ConcatProperties, LenProperties
<1>3. ~Stops(c) /\ Found(c) = Found(b) /\ Left(c) = Drop(c, Taken(out, c))
  BY DEF Stops, Found, Left
<1> HIDE DEF out, c
<1>4. Taken(out, c) = n /\ n \in 0 .. Len(b)
  BY <1>1, <1>2 DEF Taken, SmallerOf
<1> HIDE DEF n
<1>5. Drop(c, n) = Drop(b, n) \o y
  BY <1>4, DropConcat DEF c
<1>6. ExtractAll(c) = Found(c) \o ExtractAll(Left(c))
  BY <1>2, <1>3, ExtractGoesOn
<1>7. ExtractAll(c) = Found(b) \o ExtractAll(Drop(b, n) \o y)
  BY <1>3, <1>4, <1>5, <1>6
<1> QED BY <1>4, <1>7 DEF Resumes, out, c, n

(* The turn on the bytes c skips k bytes more than the turn on d, which lacks them. *)
Realigns(c, k, d, kind, skip, n, data) ==
    /\ d = Drop(c, k)
    /\ ScanOutcome(c) = Outcome(kind, k + skip, n, data)
    /\ ScanOutcome(d) = Outcome(kind, skip, n, data)

(* Bytes that a turn would skip may as well be gone before it. *)
LEMMA Realigned ==
    ASSUME Working, NEW c \in Seq(Byte), NEW k \in 0 .. Len(c), NEW d,
           NEW kind, NEW skip, NEW n, NEW data, Realigns(c, k, d, kind, skip, n, data)
    PROVE  ExtractAll(c) = ExtractAll(d)
<1>0. /\ d = Drop(c, k)
      /\ ScanOutcome(c) = Outcome(kind, k + skip, n, data)
      /\ ScanOutcome(d) = Outcome(kind, skip, n, data)
  BY DEF Realigns
<1>1. d \in Seq(Byte) /\ Len(d) = Len(c) - k /\ Len(c) \in Nat /\ Len(d) \in Nat
  BY <1>0, DropType, LenProperties
<1>2. /\ ScanOutcome(c).kind = kind /\ ScanOutcome(c).skip = k + skip
      /\ ScanOutcome(c).n = n /\ ScanOutcome(c).data = data
      /\ ScanOutcome(d).kind = kind /\ ScanOutcome(d).skip = skip
      /\ ScanOutcome(d).n = n /\ ScanOutcome(d).data = data
  BY <1>0 DEF Outcome
<1>3. CASE kind = "break"
  <2>1. Stops(c) /\ Stops(d)
    BY <1>2, <1>3 DEF Stops
  <2>2. ExtractAll(c) = <<>> /\ ExtractAll(d) = <<>>
    BY <1>1, <2>1, ExtractStops
  <2> QED BY <2>2
<1>4. CASE kind # "break"
  <2>1. ~Stops(c) /\ ~Stops(d) /\ Found(c) = Found(d)
    BY <1>2, <1>4 DEF Stops, Found
  <2>2. skip \in Nat /\ n \in Nat /\ skip < Len(d)
    BY <1>1, <1>2, <1>4, ScanOutcomeOK DEF Working, OutcomeOK
  <2> DEFINE m == skip + SmallerOf(n, Len(d) - skip)
  <2>3. m \in 0 .. Len(d)
    BY <1>1, <2>2 DEF SmallerOf
  <2>4. Len(c) - (k + skip) = Len(d) - skip
    BY <1>1, <2>2
  <2>5. (k + skip) + SmallerOf(n, Len(d) - skip) = k + m
    <3> DEFINE z == SmallerOf(n, Len(d) - skip)
    <3>1. z \in Nat /\ k \in Nat
      BY <1>1, <2>2 DEF SmallerOf
    <3> HIDE DEF z
    <3> QED BY <2>2, <3>1 DEF z
  <2>6. Left(c) = Drop(c, k + m) /\ Left(d) = Drop(d, m)
    BY <1>2, <2>4, <2>5 DEF Left, Taken
  <2> HIDE DEF m
  <2>7. Drop(d, m) = Drop(c, k + m)
    BY <1>0, <1>1, <2>3, DropDrop
  <2>8. ExtractAll(c) = Found(c) \o ExtractAll(Left(c)) /\ ExtractAll(d) = Found(d) \o ExtractAll(Left(d))
    BY <1>1, <2>1, ExtractGoesOn
  <2> QED BY <2>1, <2>6, <2>7, <2>8
<1> QED BY <1>3, <1>4

-----------------------------------------------------------------------------
(* Frames that end with a finish sequence *)

EndSafe == cfg \in Configs /\ cfg.detection = "End" /\ cfg.crcLen = 0

(* The frame in front of a finish sequence, if it is not empty. *)
Before0(b, r) == IF r = 0 THEN <<>> ELSE <<SubSeq(b, 1, r)>>

(* The turn of readEndDelimitedFrames in terms of the first finish sequence. *)
LEMMA EndTurn ==
    ASSUME EndSafe, NEW b \in Seq(Byte), NEW r, NEW q, FirstOfAt(b, cfg.finish, r, q)
    PROVE  LET n == r + Len(cfg.finish[q]) IN
           /\ r = -1 => ScanOutcome(b) = Break(0)
           /\ r # -1 => /\ r \in Nat /\ n \in 1 .. Len(b)
                        /\ ~Stops(b) /\ Found(b) = Before0(b, r)
                        /\ ScanOutcome(b).skip = 0 /\ ScanOutcome(b).n = n
<1> DEFINE hit == FindFirstOf(b, cfg.finish)
           n   == r + Len(cfg.finish[q])
<1>1. cfg.finish \in Seq(Seq(Byte)) /\ \A i \in DOMAIN cfg.finish : Len(cfg.finish[i]) > 0
  BY ConfigFacts DEF EndSafe
<1>2. hit.pos = r /\ (r # -1 => hit.pattern = cfg.finish[q])
  <2>1. PICK p : /\ FirstOfAt(b, cfg.finish, hit.pos, p)
                 /\ hit.pos # -1 => hit.pattern = cfg.finish[p]
    BY <1>1, FindFirstOfFirst
  <2> HIDE DEF hit
  <2>2. hit.pos = r /\ (hit.pos # -1 => p = q)
    BY <1>1, <2>1, FirstOfUnique
  <2> QED BY <2>1, <2>2
<1>3. ScanOutcome(b) = readEndDelimitedFrames(b) /\ cfg.crcLen = 0
  BY DEF ScanOutcome, EndSafe
<1>4. CASE r = -1
  BY <1>2, <1>3, <1>4 DEF readEndDelimitedFrames
<1>5. CASE r # -1
  <2>1. r \in Nat /\ q \in DOMAIN cfg.finish /\ MatchAt(b, r, cfg.finish[q])
    BY <1>5 DEF FirstOfAt
  <2>2. Len(cfg.finish[q]) \in Nat /\ Len(cfg.finish[q]) > 0 /\ Len(b) \in Nat
    BY <1>1, <2>1, LenProperties
  <2>3. n \in 1 .. Len(b) /\ n + 0 = n
    BY <2>1, <2>2 DEF MatchAt
  <2>4. hit.pos + Len(hit.pattern) = n
    BY <1>2, <1>5
  <2> HIDE DEF n
  <2>5. CASE r = 0
    <3>1. ScanOutcome(b) = DropBytes(n)
      BY <1>2, <1>3, <2>3, <2>4, <2>5 DEF readEndDelimitedFrames
    <3> QED BY <1>5, <2>1, <2>3, <2>5, <3>1 DEF DropBytes, Outcome, Stops, Found, Before0, n
  <2>6. CASE r # 0
    <3> DEFINE data == SubSeq(b, 1, r)
    <3>1. ScanOutcome(b) = Validated(b, 0, data, n, n, n)
      <4> HIDE DEF hit
      <4>1. readEndDelimitedFrames(b) =
              Validated(b, 0, SubSeq(b, 1, hit.pos), hit.pos + Len(hit.pattern),
                        hit.pos + Len(hit.pattern) + cfg.crcLen, hit.pos + Len(hit.pattern) + cfg.crcLen)
        BY <1>2, <1>5, <2>6, Zenon DEF readEndDelimitedFrames, hit
      <4>2. hit.pos + Len(hit.pattern) + cfg.crcLen = n
        BY <1>3, <2>3, <2>4
      <4> QED BY <1>2, <1>3, <2>4, <4>1, <4>2
    <3>2. ChecksumStatus(b, data, n) = "ok"
      <4>1. ~(Len(b) < n + cfg.crcLen)
        BY <1>3, <2>2, <2>3
      <4> QED BY <1>3, <4>1, Zenon DEF ChecksumStatus
    <3>3. ScanOutcome(b) = Outcome("frame", 0, n, data)
      BY <3>1, <3>2, Zenon DEF Validated
    <3> QED BY <1>5, <2>1, <2>3, <2>6, <3>3 DEF Outcome, Stops, Found, Before0, n
  <2> QED BY <2>5, <2>6
<1> QED BY <1>4, <1>5

(* Extraction in terms of the first finish sequence. *)
LEMMA EndExtract ==
    ASSUME EndSafe, NEW b \in Seq(Byte), NEW r, NEW q, FirstOfAt(b, cfg.finish, r, q), r # -1
    PROVE  LET n == r + Len(cfg.finish[q]) IN
           n \in 1 .. Len(b) /\ ExtractAll(b) = Before0(b, r) \o ExtractAll(Drop(b, n))
<1> DEFINE n == r + Len(cfg.finish[q])
<1>1. /\ r \in Nat /\ n \in 1 .. Len(b) /\ ~Stops(b) /\ Found(b) = Before0(b, r)
      /\ ScanOutcome(b).skip = 0 /\ ScanOutcome(b).n = n
  BY EndTurn
<1> HIDE DEF n
<1>2. Len(b) \in Nat /\ Working
  BY LenProperties DEF EndSafe, Working
<1>3. Taken(ScanOutcome(b), b) = n
  BY <1>1, <1>2 DEF Taken, SmallerOf
<1>4. Left(b) = Drop(b, n)
  BY <1>3 DEF Left
<1>5. ExtractAll(b) = Found(b) \o ExtractAll(Left(b))
  BY <1>1, <1>2, ExtractGoesOn
<1> QED BY <1>1, <1>4, <1>5 DEF n

(* Of two patterns that both match, one that lies inside the other occurs in it. *)
LEMMA Overlap ==
    ASSUME NEW c, NEW s \in Seq(Byte), NEW t \in Seq(Byte), NEW i \in Nat, NEW j \in Nat, i <= j,
           MatchAt(c, i, s), MatchAt(c, j, t), (j - i) + Len(t) <= Len(s)
    PROVE  MatchAt(s, j - i, t)
<1>1. Len(s) \in Nat /\ Len(t) \in Nat
  BY LenProperties
<1>2. ASSUME NEW k \in 1 .. Len(t) PROVE s[(j - i) + k] = t[k]
  <2>1. (j - i) + k \in 1 .. Len(s) /\ i + ((j - i) + k) = j + k
    BY <1>1
  <2>2. c[i + ((j - i) + k)] = s[(j - i) + k] /\ c[j + k] = t[k]
    BY <2>1 DEF MatchAt
  <2> QED BY <2>1, <2>2
<1> QED BY <1>2 DEF MatchAt

(* Behind the beginning of a pattern that matches, its rest does. *)
LEMMA RestMatches ==
    ASSUME NEW c, Len(c) \in Nat, NEW s \in Seq(Byte), NEW i \in Nat, MatchAt(c, i, s),
           NEW n \in 0 .. Len(s)
    PROVE  MatchAt(c, i + n, Drop(s, n))
<1>1. /\ Len(Drop(s, n)) = Len(s) - n /\ Len(s) \in Nat
      /\ \A k \in 1 .. Len(Drop(s, n)) : Drop(s, n)[k] = s[k + n]
  BY DropType, DropElements, LenProperties
<1>2. ASSUME NEW k \in 1 .. Len(Drop(s, n)) PROVE c[(i + n) + k] = Drop(s, n)[k]
  <2>1. k + n \in 1 .. Len(s) /\ i + (k + n) = (i + n) + k
    BY <1>1
  <2>2. c[i + (k + n)] = s[k + n]
    BY <2>1 DEF MatchAt
  <2> QED BY <1>1, <2>1, <2>2
<1>3. (i + n) + Len(Drop(s, n)) <= Len(c)
  <2>1. i + Len(s) <= Len(c)
    BY DEF MatchAt
  <2> QED BY <1>1, <2>1
<1> QED BY <1>2, <1>3 DEF MatchAt

(* Of two patterns at the front of the same bytes, one starts the other. *)
LEMMA FrontsAgree ==
    ASSUME NEW c, NEW s \in Seq(Byte), NEW t \in Seq(Byte), MatchAt(c, 0, s), MatchAt(c, 0, t)
    PROVE  Agree(s, t)
<1>1. Len(s) \in Nat /\ Len(t) \in Nat /\ 0 \in Nat /\ 0 <= 0 /\ 0 - 0 = 0
  BY LenProperties
<1>2. CASE Len(t) <= Len(s)
  <2>1. (0 - 0) + Len(t) <= Len(s)
    BY <1>1, <1>2
  <2>2. MatchAt(s, 0 - 0, t)
    BY <1>1, <2>1, Overlap
  <2> QED BY <1>1, <2>2 DEF Agree
<1>3. CASE Len(s) <= Len(t)
  <2>1. (0 - 0) + Len(s) <= Len(t)
    BY <1>1, <1>3
  <2>2. MatchAt(t, 0 - 0, s)
    BY <1>1, <2>1, Overlap
  <2> QED BY <1>1, <2>2 DEF Agree
<1> QED BY <1>1, <1>2, <1>3

(* The rest of a finish sequence that was taken for a shorter one is dropped. *)
LEMMA RestDropped ==
    ASSUME EndSafe, NEW d \in Seq(Byte), NEW rest \in Seq(Byte), MatchAt(d, 0, rest),
           \E s \in DOMAIN cfg.finish : cfg.finish[s] = rest,
           \A s \in DOMAIN cfg.finish : Agree(cfg.finish[s], rest) => cfg.finish[s] = rest
    PROVE  Len(rest) \in 0 .. Len(d) /\ ExtractAll(d) = ExtractAll(Drop(d, Len(rest)))
<1>1. cfg.finish \in Seq(Seq(Byte)) /\ \A i \in DOMAIN cfg.finish : Len(cfg.finish[i]) > 0
  BY ConfigFacts DEF EndSafe
<1>2. PICK r, q : FirstOfAt(d, cfg.finish, r, q)
  BY <1>1, FindFirstOfFirst
<1>3. r = 0 /\ q \in DOMAIN cfg.finish /\ MatchAt(d, 0, cfg.finish[q])
  <2>1. PICK s \in DOMAIN cfg.finish : MatchAt(d, 0, cfg.finish[s])
    OBVIOUS
  <2>2. 0 \in Nat
    OBVIOUS
  <2>3. r # -1
    BY <1>2, <2>1, <2>2 DEF FirstOfAt
  <2>4. r \in Nat /\ ~(0 < r)
    BY <1>2, <2>1, <2>2, <2>3 DEF FirstOfAt
  <2>5. r = 0
    BY <2>4
  <2> QED BY <1>2, <2>3, <2>5 DEF FirstOfAt
<1>4. cfg.finish[q] = rest
  <2>1. cfg.finish[q] \in Seq(Byte)
    BY <1>1, <1>3
  <2>2. Agree(cfg.finish[q], rest)
    BY <1>3, <2>1, FrontsAgree
  <2> QED BY <1>3, <2>2
<1>5. Len(rest) \in Nat /\ 0 + Len(rest) = Len(rest) /\ 0 # -1
  BY LenProperties
<1>6. /\ r + Len(cfg.finish[q]) \in 1 .. Len(d)
      /\ ExtractAll(d) = Before0(d, r) \o ExtractAll(Drop(d, r + Len(cfg.finish[q])))
  BY <1>2, <1>3, EndExtract
<1>7. r + Len(cfg.finish[q]) = Len(rest)
  BY <1>3, <1>4, <1>5
<1>8. Drop(d, Len(rest)) \in Seq(Byte) /\ Len(rest) \in 0 .. Len(d)
  BY <1>5, <1>6, <1>7, DropType
<1>9. Working
  BY DEF Working, EndSafe
<1>10. ExtractAll(Drop(d, Len(rest))) \in Seq(Seq(Byte))
  BY <1>8, <1>9, ExtractType
<1>11. Before0(d, r) = <<>>
  BY <1>3 DEF Before0
<1>12. <<>> \o ExtractAll(Drop(d, Len(rest))) = ExtractAll(Drop(d, Len(rest)))
  BY <1>10, ConcatEmptySeq
<1> QED BY <1>6, <1>7, <1>8, <1>11, <1>12

(* A frame that ends with a finish sequence is the same whatever comes behind it. *)
LEMMA EndResumes ==
    ASSUME EndSafe, FinishesSplit(cfg), NEW b \in Seq(Byte), NEW y \in Seq(Byte), ~Stops(b)
    PROVE  Resumes(b, y)
<1> DEFINE c == b \o y
<1>1. cfg.finish \in Seq(Seq(Byte)) /\ \A i \in DOMAIN cfg.finish : Len(cfg.finish[i]) > 0
  BY ConfigFacts DEF EndSafe
<1>2. c \in Seq(Byte) /\ Len(c) = Len(b) + Len(y) /\ Len(b) \in Nat /\ Len(y) \in Nat
  BY ConcatProperties, LenProperties
<1>3. PICK r, q : FirstOfAt(b, cfg.finish, r, q)
  BY <1>1, FindFirstOfFirst
<1>4. PICK s, p : FirstOfAt(c, cfg.finish, s, p)
  BY <1>1, <1>2, FindFirstOfFirst
<1> DEFINE fq == cfg.finish[q]
           fp == cfg.finish[p]
           n  == r + Len(fq)
<1>5. r # -1
  <2>1. ASSUME r = -1 PROVE FALSE
    <3>1. ScanOutcome(b) = Break(0)
      BY <1>3, <2>1, EndTurn
    <3> QED BY <3>1 DEF Break, Outcome, Stops
  <2> QED BY <2>1
<1>6. /\ r \in Nat /\ n \in 1 .. Len(b) /\ Found(b) = Before0(b, r)
      /\ ScanOutcome(b).skip = 0 /\ ScanOutcome(b).n = n
  BY <1>3, <1>5, EndTurn
<1>7. r \in Nat /\ q \in DOMAIN cfg.finish /\ MatchAt(b, r, fq)
  BY <1>3, <1>5 DEF FirstOfAt
<1>8. fq \in Seq(Byte) /\ Len(fq) \in Nat
  BY <1>1, <1>7, LenProperties
<1>9. MatchAt(c, r, fq)
  BY <1>6, <1>7, <1>8, MatchConcat
<1>10. s # -1 /\ s \in Nat /\ s <= r /\ p \in DOMAIN cfg.finish /\ MatchAt(c, s, fp)
  BY <1>4, <1>7, <1>9 DEF FirstOfAt
<1>11. fp \in Seq(Byte) /\ Len(fp) \in Nat
  BY <1>1, <1>10, LenProperties
<1>12. Before0(c, r) = Before0(b, r)
  <2>1. r <= Len(b)
    BY <1>2, <1>6, <1>8
  <2>2. SubSeq(c, 1, r) = SubSeq(b, 1, r)
    BY <1>6, <2>1, PortionConcat
  <2> QED BY <2>2 DEF Before0
<1>13. Drop(c, n) = Drop(b, n) \o y
  <2> HIDE DEF n
  <2>1. n \in 0 .. Len(b)
    BY <1>2, <1>6
  <2> QED BY <2>1, DropConcat
<1>14. /\ s + Len(fp) \in 1 .. Len(c)
       /\ ExtractAll(c) = Before0(c, s) \o ExtractAll(Drop(c, s + Len(fp)))
  BY <1>2, <1>4, <1>10, EndExtract
<1> HIDE DEF n, fq, fp
<1>15. s = r /\ ExtractAll(Drop(c, s + Len(fp))) = ExtractAll(Drop(c, n))
  <2>1. CASE s + Len(fp) <= Len(b)
    <3>1. MatchAt(b, s, fp)
      BY <1>10, <1>11, <2>1, MatchConcat
    <3>2. s = r
      BY <1>3, <1>5, <1>6, <1>10, <3>1 DEF FirstOfAt, fp
    <3>3. q <= p /\ p <= q /\ p \in Nat /\ q \in Nat
      <4>1. DOMAIN cfg.finish \subseteq Nat
        BY <1>1, LenProperties
      <4>2. q <= p
        BY <1>3, <1>5, <1>10, <3>1, <3>2 DEF FirstOfAt, fp
      <4>3. p <= q
        BY <1>4, <1>7, <1>9, <1>10, <3>2 DEF FirstOfAt, fq
      <4> QED BY <1>7, <1>10, <4>1, <4>2, <4>3
    <3>4. p = q
      BY <3>3
    <3> QED BY <3>2, <3>4 DEF n, fp, fq
  <2>2. CASE ~(s + Len(fp) <= Len(b))
    <3> DEFINE at   == r - s
               rest == Drop(fp, Len(fq))
               d    == Drop(c, n)
    <3>1. at \in 0 .. Len(fp) /\ at + Len(fq) < Len(fp)
      BY <1>2, <1>6, <1>8, <1>10, <1>11, <2>2 DEF n
    <3>2. MatchAt(fp, at, fq)
      <4>1. at + Len(fq) <= Len(fp)
        BY <1>6, <1>8, <1>10, <1>11, <3>1
      <4> QED BY <1>6, <1>8, <1>9, <1>10, <1>11, <4>1, Overlap
    <3> HIDE DEF at
    <3>3. /\ at = 0
          /\ \E i \in DOMAIN cfg.finish : cfg.finish[i] = rest
          /\ \A i \in DOMAIN cfg.finish : Agree(cfg.finish[i], rest) => cfg.finish[i] = rest
      BY <1>7, <1>10, <3>1, <3>2 DEF FinishesSplit, fp, fq
    <3>4. r = s /\ Len(fq) \in 0 .. Len(fp)
      BY <1>6, <1>8, <1>10, <1>11, <3>1, <3>3 DEF at
    <3>5. rest \in Seq(Byte) /\ Len(rest) = Len(fp) - Len(fq)
      BY <1>11, <3>4, DropType
    <3>6. n \in 0 .. Len(c)
      BY <1>2, <1>6
    <3>7. d \in Seq(Byte)
      BY <1>2, <3>6, DropType
    <3>8. MatchAt(d, 0, rest)
      <4>1. MatchAt(c, s + Len(fq), rest)
        <5>1. Len(c) \in Nat
          BY <1>2, LenProperties
        <5> HIDE DEF c
        <5> QED BY <1>10, <1>11, <3>4, <5>1, RestMatches
      <4>2. s + Len(fq) = 0 + n /\ 0 \in Nat
        BY <1>6, <1>8, <3>4 DEF n
      <4> HIDE DEF rest
      <4> QED BY <1>2, <3>5, <3>6, <4>1, <4>2, MatchDrop
    <3> HIDE DEF rest
    <3>9. Len(rest) \in 0 .. Len(d) /\ ExtractAll(d) = ExtractAll(Drop(d, Len(rest)))
      BY <3>3, <3>5, <3>7, <3>8, RestDropped
    <3>10. Len(d) = Len(c) - n
      BY <1>2, <3>6, DropType
    <3>11. Len(rest) \in 0 .. Len(c) - n
      BY <3>9, <3>10
    <3>12. Drop(d, Len(rest)) = Drop(c, n + Len(rest))
      BY <1>2, <3>6, <3>11, DropDrop
    <3>13. n + Len(rest) = s + Len(fp)
      BY <1>6, <1>8, <1>11, <3>4, <3>5 DEF n
    <3> QED BY <3>4, <3>9, <3>12, <3>13
  <2> QED BY <2>1, <2>2
<1>16. ExtractAll(c) = Found(b) \o ExtractAll(Drop(b, n) \o y)
  BY <1>6, <1>12, <1>13, <1>14, <1>15
<1>17. ScanOutcome(b).skip + ScanOutcome(b).n = n /\ n \in 0 .. Len(b)
  BY <1>6
<1> QED BY <1>16, <1>17 DEF Resumes

(* The verdict on a candidate that is wholly there is the same with or without more. *)
LEMMA ValidatedConcat ==
    ASSUME Working, NEW b \in Seq(Byte), NEW y \in Seq(Byte), NEW skip, NEW data,
           NEW crcPos \in Nat, crcPos + cfg.crcLen <= Len(b), NEW end, NEW reject
    PROVE  Validated(b \o y, skip, data, crcPos, end, reject)
             = Validated(b, skip, data, crcPos, end, reject)
<1>1. cfg.crcLen \in Nat
  BY ConfigFacts DEF Working
<1>2. Len(b \o y) = Len(b) + Len(y) /\ Len(b) \in Nat /\ Len(y) \in Nat
  BY ConcatProperties, LenProperties
<1>3. ~(Len(b) < crcPos + cfg.crcLen) /\ ~(Len(b \o y) < crcPos + cfg.crcLen)
  BY <1>1, <1>2
<1>4. SubSeq(b \o y, crcPos + 1, crcPos + cfg.crcLen) = SubSeq(b, crcPos + 1, crcPos + cfg.crcLen)
  BY <1>1, PortionConcat
<1>5. ChecksumStatus(b \o y, data, crcPos) = ChecksumStatus(b, data, crcPos)
  BY <1>3, <1>4, Zenon DEF ChecksumStatus
<1> QED BY <1>5, Zenon DEF Validated

(* It depends on what was skipped in nothing but the bytes to skip. *)
LEMMA ValidatedSkips ==
    ASSUME NEW rest, NEW data, NEW crcPos, NEW end, NEW reject
    PROVE  \E kind, n, d : \A skip :
               Validated(rest, skip, data, crcPos, end, reject) = Outcome(kind, skip, n, d)
<1> DEFINE status == ChecksumStatus(rest, data, crcPos)
<1>1. status \in {"ok", "error", "incomplete"}
  BY DEF ChecksumStatus
<1>2. CASE status = "ok"
  <2>1. \A skip : Validated(rest, skip, data, crcPos, end, reject) = Outcome("frame", skip, end, data)
    BY <1>2, Zenon DEF Validated
  <2> QED BY <2>1, Zenon
<1>3. CASE status = "error"
  <2>1. \A skip : Validated(rest, skip, data, crcPos, end, reject) = Outcome("reject", skip, reject, <<>>)
    BY <1>3, Zenon DEF Validated
  <2> QED BY <2>1, Zenon
<1>4. CASE status = "incomplete"
  <2>1. \A skip : Validated(rest, skip, data, crcPos, end, reject) = Outcome("break", skip, 0, <<>>)
    BY <1>4, Zenon DEF Validated, Break
  <2> QED BY <2>1, Zenon
<1> QED BY <1>1, <1>2, <1>3, <1>4

(* What a verdict skips and takes. *)
LEMMA ValidatedTakes ==
    ASSUME NEW rest, NEW skip, NEW data, NEW crcPos, NEW end, NEW reject
    PROVE  LET out == Validated(rest, skip, data, crcPos, end, reject) IN
           /\ out.skip = skip
           /\ out.kind # "break" => out.n = end \/ out.n = reject
<1> DEFINE out == Validated(rest, skip, data, crcPos, end, reject)
<1>1. \/ out = Break(skip)
      \/ out = Outcome("frame", skip, end, data)
      \/ out = Outcome("reject", skip, reject, <<>>)
  BY DEF Validated
<1> HIDE DEF out
<1>2. out.skip = skip /\ (out.kind # "break" => out.n = end \/ out.n = reject)
  BY <1>1 DEF Break, Outcome
<1> QED BY <1>2 DEF out

-----------------------------------------------------------------------------
(* Frames between two start sequences *)

(* The turn of readStartDelimitedFrames once the bytes before the start sequence
   are gone. *)
FromStart(rest, first) ==
    LET head   == Len(cfg.start)
        end    == FindPattern(rest, cfg.start, head)
        crcPos == end - cfg.crcLen
    IN  IF end = -1 THEN Break(first)
        ELSE IF crcPos <= head THEN Outcome("drop", first, end, <<>>)
        ELSE Validated(rest, first, SubSeq(rest, head + 1, crcPos), crcPos, end, end)

(* A turn looks for the start sequence and goes on from there. *)
LEMMA StartTurn ==
    ASSUME cfg.detection = "Start", NEW b
    PROVE  LET first == FindPattern(b, cfg.start, 0) IN
           ScanOutcome(b) = IF first = -1 THEN Break(0) ELSE FromStart(Drop(b, first), first)
BY DEF ScanOutcome, readStartDelimitedFrames, FromStart

(* The turn depends on what was skipped in nothing but the bytes to skip. *)
LEMMA FromStartSkips ==
    ASSUME NEW rest
    PROVE  \E kind, n, d : \A first : FromStart(rest, first) = Outcome(kind, first, n, d)
<1> DEFINE head   == Len(cfg.start)
           end    == FindPattern(rest, cfg.start, head)
           crcPos == end - cfg.crcLen
           data   == SubSeq(rest, head + 1, crcPos)
<1>1. CASE end = -1
  <2>1. \A first : FromStart(rest, first) = Outcome("break", first, 0, <<>>)
    BY <1>1, Zenon DEF FromStart, Break
  <2> QED BY <2>1, Zenon
<1>2. CASE end # -1 /\ crcPos <= head
  <2>1. \A first : FromStart(rest, first) = Outcome("drop", first, end, <<>>)
    BY <1>2, Zenon DEF FromStart
  <2> QED BY <2>1, Zenon
<1>3. CASE end # -1 /\ ~(crcPos <= head)
  <2>1. \A first : FromStart(rest, first) = Validated(rest, first, data, crcPos, end, end)
    BY <1>3, Zenon DEF FromStart
  <2> HIDE DEF data, crcPos, end
  <2>2. PICK kind, n, d : \A skip :
            Validated(rest, skip, data, crcPos, end, end) = Outcome(kind, skip, n, d)
    BY ValidatedSkips
  <2> QED BY <2>1, <2>2, Zenon
<1> QED BY <1>1, <1>2, <1>3

(* With the next start sequence in sight, the turn is the same with or without more. *)
LEMMA FromStartConcat ==
    ASSUME Working, cfg.detection = "Start", NEW rest \in Seq(Byte), NEW y \in Seq(Byte), NEW first,
           FromStart(rest, first).kind # "break"
    PROVE  /\ FromStart(rest \o y, first) = FromStart(rest, first)
           /\ FromStart(rest, first).skip = first /\ FromStart(rest, first).n \in 0 .. Len(rest)
<1> DEFINE head   == Len(cfg.start)
           end    == FindPattern(rest, cfg.start, head)
           crcPos == end - cfg.crcLen
           data   == SubSeq(rest, head + 1, crcPos)
           more   == rest \o y
<1>1. cfg.start \in Seq(Byte) /\ head \in Nat /\ head > 0 /\ cfg.crcLen \in Nat /\ Len(rest) \in Nat
  BY ConfigFacts, LenProperties DEF Working
<1>2. end # -1
  <2>1. ASSUME end = -1 PROVE FALSE
    <3>1. FromStart(rest, first) = Break(first)
      BY <2>1, Zenon DEF FromStart
    <3> QED BY <3>1 DEF Break, Outcome
  <2> QED BY <2>1
<1>3. FindPattern(more, cfg.start, head) = end
  BY <1>1, <1>2, FindPatternConcat
<1>4. end \in head .. Len(rest) - 1
  BY <1>1, <1>2, FindPatternRange
<1> HIDE DEF end, head
<1>5. crcPos \in Int /\ crcPos + cfg.crcLen = end /\ end \in 0 .. Len(rest)
  BY <1>1, <1>4
<1> HIDE DEF crcPos
<1>6. CASE crcPos <= head
  <2>1. FromStart(rest, first) = Outcome("drop", first, end, <<>>)
    BY <1>2, <1>6, Zenon DEF FromStart, end, head, crcPos
  <2>2. FromStart(more, first) = Outcome("drop", first, end, <<>>)
    BY <1>2, <1>3, <1>6, Zenon DEF FromStart, head, crcPos
  <2> QED BY <1>5, <2>1, <2>2 DEF Outcome
<1>7. CASE ~(crcPos <= head)
  <2>1. crcPos \in Nat /\ head + 1 \in Nat \ {0} /\ crcPos <= Len(rest)
        /\ crcPos + cfg.crcLen <= Len(rest)
    BY <1>1, <1>5, <1>7
  <2>2. SubSeq(more, head + 1, crcPos) = data
    BY <1>5, <2>1, PortionConcat
  <2> HIDE DEF data
  <2>3. FromStart(rest, first) = Validated(rest, first, data, crcPos, end, end)
    BY <1>2, <1>7, Zenon DEF FromStart, end, head, crcPos, data
  <2>4. FromStart(more, first) = Validated(more, first, data, crcPos, end, end)
    <3> HIDE DEF more
    <3>1. FromStart(more, first) =
            Validated(more, first, SubSeq(more, head + 1, crcPos), crcPos, end, end)
      BY <1>2, <1>3, <1>7, Zenon DEF FromStart, head, crcPos
    <3> QED BY <2>2, <3>1
  <2>5. Validated(more, first, data, crcPos, end, end) = Validated(rest, first, data, crcPos, end, end)
    BY <2>1, ValidatedConcat
  <2>6. FromStart(rest, first).skip = first /\ FromStart(rest, first).n = end
    <3>1. /\ Validated(rest, first, data, crcPos, end, end).skip = first
          /\ Validated(rest, first, data, crcPos, end, end).kind # "break" =>
                Validated(rest, first, data, crcPos, end, end).n = end
      BY ValidatedTakes
    <3> QED BY <2>3, <3>1
  <2> QED BY <1>5, <2>3, <2>4, <2>5, <2>6
<1> QED BY <1>1, <1>5, <1>6, <1>7

(* A turn that goes on is the same with or without more bytes. *)
LEMMA StartResumes ==
    ASSUME Working, cfg.detection = "Start", NEW b \in Seq(Byte), NEW y \in Seq(Byte), ~Stops(b)
    PROVE  Resumes(b, y)
<1> DEFINE first == FindPattern(b, cfg.start, 0)
           rest  == Drop(b, first)
           c     == b \o y
<1>1. cfg.start \in Seq(Byte) /\ Len(cfg.start) > 0 /\ Len(b) \in Nat
  BY ConfigFacts, LenProperties DEF Working
<1>2. first # -1
  <2>1. ASSUME first = -1 PROVE FALSE
    <3>1. ScanOutcome(b) = Break(0)
      BY <2>1, StartTurn
    <3> QED BY <3>1 DEF Break, Outcome, Stops
  <2> QED BY <2>1
<1>3. first \in 0 .. Len(b) /\ FindPattern(c, cfg.start, 0) = first
  <2>1. first \in 0 .. Len(b) - 1
    BY <1>1, <1>2, FindPatternRange
  <2>2. FindPattern(c, cfg.start, 0) = first
    BY <1>1, <1>2, FindPatternConcat
  <2> QED BY <1>1, <2>1, <2>2
<1>4. ScanOutcome(b) = FromStart(rest, first) /\ ScanOutcome(c) = FromStart(Drop(c, first), first)
  BY <1>2, <1>3, StartTurn
<1> HIDE DEF first
<1>5. Drop(c, first) = rest \o y /\ rest \in Seq(Byte) /\ Len(rest) = Len(b) - first
  BY <1>3, DropConcat, DropType
<1> HIDE DEF rest, c
<1>6. FromStart(rest, first).kind # "break"
  BY <1>4 DEF Stops
<1>7. /\ FromStart(rest \o y, first) = FromStart(rest, first)
      /\ FromStart(rest, first).skip = first /\ FromStart(rest, first).n \in 0 .. Len(rest)
  BY <1>5, <1>6, FromStartConcat
<1>8. ScanOutcome(c) = ScanOutcome(b)
  BY <1>4, <1>5, <1>7
<1>9. ScanOutcome(b).skip + ScanOutcome(b).n <= Len(b)
  BY <1>1, <1>3, <1>4, <1>5, <1>7
<1> QED BY <1>8, <1>9, SameTurn DEF c

(* The bytes before the start sequence may as well be gone. *)
LEMMA StartWaits ==
    ASSUME Working, cfg.detection = "Start", NEW b \in Seq(Byte), NEW y \in Seq(Byte), Stops(b)
    PROVE  ExtractAll(b \o y) = ExtractAll(Drop(b, ScanOutcome(b).skip) \o y)
<1> DEFINE first == FindPattern(b, cfg.start, 0)
           c     == b \o y
           d     == Drop(c, first)
<1>1. cfg.start \in Seq(Byte) /\ Len(cfg.start) > 0 /\ Len(b) \in Nat
  BY ConfigFacts, LenProperties DEF Working
<1>2. CASE first = -1
  <2>1. ScanOutcome(b).skip = 0
    BY <1>2, StartTurn DEF Break, Outcome
  <2> QED BY <2>1, DropNothing
<1>3. CASE first # -1
  <2>1. first \in 0 .. Len(b) /\ FindPattern(c, cfg.start, 0) = first
    <3>1. first \in 0 .. Len(b) - 1
      BY <1>1, <1>3, FindPatternRange
    <3>2. FindPattern(c, cfg.start, 0) = first
      BY <1>1, <1>3, FindPatternConcat
    <3> QED BY <1>1, <3>1, <3>2
  <2>2. ScanOutcome(b) = FromStart(Drop(b, first), first) /\ ScanOutcome(c) = FromStart(d, first)
    BY <1>3, <2>1, StartTurn
  <2>3. MatchAt(c, first, cfg.start)
    <3>1. FirstAt(c, cfg.start, 0, FindPattern(c, cfg.start, 0))
      BY <1>1, ConcatProperties, FindPatternFirst
    <3> QED BY <1>3, <2>1, <3>1 DEF FirstAt
  <2> HIDE DEF first
  <2>4. c \in Seq(Byte) /\ first \in 0 .. Len(c) /\ first \in Nat
    BY <1>1, <2>1, ConcatProperties, LenProperties
  <2>5. d \in Seq(Byte) /\ d = Drop(b, first) \o y
    BY <2>1, <2>4, DropType, DropConcat
  <2> HIDE DEF c
  <2>6. MatchAt(d, 0, cfg.start)
    <3>1. 0 + first = first /\ 0 \in Nat
      BY <2>4
    <3> QED BY <1>1, <2>3, <2>4, <3>1, MatchDrop
  <2> HIDE DEF d
  <2>7. FindPattern(d, cfg.start, 0) = 0
    <3>1. FirstAt(d, cfg.start, 0, FindPattern(d, cfg.start, 0))
      BY <1>1, <2>5, FindPatternFirst
    <3>2. FirstAt(d, cfg.start, 0, 0)
      BY <2>6 DEF FirstAt
    <3> QED BY <3>1, <3>2, FirstAtUnique
  <2>8. ScanOutcome(d) = FromStart(d, 0)
    <3>1. Drop(d, 0) = d
      BY <2>5, DropNothing
    <3> QED BY <2>7, <3>1, StartTurn
  <2>9. PICK kind, n, v : \A k : FromStart(d, k) = Outcome(kind, k, n, v)
    BY FromStartSkips, Zenon
  <2>10. ScanOutcome(c) = Outcome(kind, first + 0, n, v) /\ ScanOutcome(d) = Outcome(kind, 0, n, v)
    BY <2>2, <2>4, <2>8, <2>9
  <2>11. ExtractAll(c) = ExtractAll(d)
    <3>1. Realigns(c, first, d, kind, 0, n, v)
      BY <2>10 DEF Realigns, d
    <3> HIDE DEF d
    <3> QED BY <2>4, <3>1, Realigned
  <2>12. ScanOutcome(b).skip = first
    <3>1. PICK kind2, n2, v2 : \A k : FromStart(Drop(b, first), k) = Outcome(kind2, k, n2, v2)
      BY FromStartSkips, Zenon
    <3> QED BY <2>2, <3>1 DEF Outcome
  <2> QED BY <2>5, <2>11, <2>12 DEF c
<1> QED BY <1>2, <1>3

-----------------------------------------------------------------------------
(* Frames between a start and a finish sequence *)

(* A candidate that got a verdict is wholly there. *)
LEMMA ValidatedWhole ==
    ASSUME Working, NEW rest \in Seq(Byte), NEW skip, NEW data, NEW crcPos \in Nat, NEW end, NEW reject,
           crcPos <= Len(rest), Validated(rest, skip, data, crcPos, end, reject).kind # "break"
    PROVE  crcPos + cfg.crcLen <= Len(rest)
<1>1. cfg.crcLen \in Nat /\ Len(rest) \in Nat
  BY ConfigFacts, LenProperties DEF Working
<1>2. ASSUME ~(crcPos + cfg.crcLen <= Len(rest)) PROVE FALSE
  <2>1. Len(rest) < crcPos + cfg.crcLen /\ cfg.crcLen # 0
    BY <1>1, <1>2
  <2>2. ChecksumStatus(rest, data, crcPos) = "incomplete"
    BY <2>1, Zenon DEF ChecksumStatus
  <2>3. Validated(rest, skip, data, crcPos, end, reject) = Break(skip)
    BY <2>2, Zenon DEF Validated
  <2> QED BY <2>3 DEF Break, Outcome
<1> QED BY <1>2

(* Why the bytes up to the finish sequence are no frame. *)
NoBody(fin, start) == start = -1 \/ start >= fin \/ fin <= start + Len(cfg.start)

(* The turn of readStartEndDelimitedFrames in terms of the first delimiters. *)
LEMMA StartEndTurn ==
    ASSUME cfg.detection = "StartEnd", NEW b
    PROVE  LET fin    == FindPattern(b, cfg.finish[1], 0)
               start  == FindPattern(b, cfg.start, 0)
               body   == start + Len(cfg.start)
               crcPos == fin + Len(cfg.finish[1])
               end    == crcPos + cfg.crcLen
           IN  /\ fin = -1 => ScanOutcome(b) = Break(0)
               /\ fin # -1 /\ NoBody(fin, start) => ScanOutcome(b) = DropBytes(crcPos)
               /\ fin # -1 /\ ~NoBody(fin, start) =>
                    ScanOutcome(b) = Validated(b, 0, SubSeq(b, body + 1, fin), crcPos, end, end)
<1> DEFINE fin    == FindPattern(b, cfg.finish[1], 0)
           start  == FindPattern(b, cfg.start, 0)
           body   == start + Len(cfg.start)
           crcPos == fin + Len(cfg.finish[1])
           end    == crcPos + cfg.crcLen
<1>1. ScanOutcome(b) = readStartEndDelimitedFrames(b)
  BY DEF ScanOutcome
<1>2. readStartEndDelimitedFrames(b) =
        IF fin = -1 THEN Break(0)
        ELSE IF start = -1 \/ start >= fin \/ fin <= body THEN DropBytes(crcPos)
        ELSE Validated(b, 0, SubSeq(b, body + 1, fin), crcPos, end, end)
  BY Zenon DEF readStartEndDelimitedFrames
<1> HIDE DEF fin, start, crcPos, end
<1>3. /\ fin = -1 => ScanOutcome(b) = Break(0)
      /\ fin # -1 /\ NoBody(fin, start) => ScanOutcome(b) = DropBytes(crcPos)
      /\ fin # -1 /\ ~NoBody(fin, start) =>
            ScanOutcome(b) = Validated(b, 0, SubSeq(b, body + 1, fin), crcPos, end, end)
  BY <1>1, <1>2 DEF NoBody
<1> QED BY <1>3 DEF fin, start, crcPos, end

(* A turn that goes on is the same with or without more bytes. *)
LEMMA StartEndResumes ==
    ASSUME Working, cfg.detection = "StartEnd", NEW b \in Seq(Byte), NEW y \in Seq(Byte), ~Stops(b)
    PROVE  Resumes(b, y)
<1> DEFINE fin    == FindPattern(b, cfg.finish[1], 0)
           start  == FindPattern(b, cfg.start, 0)
           later  == FindPattern(b \o y, cfg.start, 0)
           body   == start + Len(cfg.start)
           crcPos == fin + Len(cfg.finish[1])
           end    == crcPos + cfg.crcLen
           c      == b \o y
           data   == SubSeq(b, body + 1, fin)
<1>1. /\ cfg.start \in Seq(Byte) /\ Len(cfg.start) > 0 /\ Len(cfg.start) \in Nat
      /\ cfg.finish[1] \in Seq(Byte) /\ Len(cfg.finish[1]) > 0 /\ Len(cfg.finish[1]) \in Nat
      /\ cfg.crcLen \in Nat /\ Len(b) \in Nat
  <2>1. /\ cfg.start \in Seq(Byte) /\ Len(cfg.start) > 0
        /\ cfg.finish \in Seq(Seq(Byte)) /\ Len(cfg.finish) > 0 /\ cfg.crcLen \in Nat
    BY ConfigFacts DEF Working
  <2>2. 1 \in DOMAIN cfg.finish /\ cfg.finish[1] \in Seq(Byte)
    BY <2>1
  <2> QED BY <2>1, <2>2, ConfigFacts, LenProperties DEF Working
<1>2. fin # -1
  <2>1. ASSUME fin = -1 PROVE FALSE
    <3>1. ScanOutcome(b) = Break(0)
      BY <2>1, StartEndTurn
    <3> QED BY <3>1 DEF Break, Outcome, Stops
  <2> QED BY <2>1
<1>3. /\ FindPattern(c, cfg.finish[1], 0) = fin /\ fin \in Nat
      /\ crcPos \in Nat /\ crcPos <= Len(b) /\ fin <= crcPos
  <2>1. FindPattern(c, cfg.finish[1], 0) = fin
    BY <1>1, <1>2, FindPatternConcat
  <2>2. fin \in 0 .. Len(b) - 1
    BY <1>1, <1>2, FindPatternRange
  <2>3. crcPos <= Len(b)
    BY <1>1, <1>2, FindPatternEnds
  <2> QED BY <1>1, <2>1, <2>2, <2>3
<1>4. /\ start # -1 => later = start
      /\ start = -1 => later = -1 \/ (later \in Nat /\ later + Len(cfg.start) > Len(b))
      /\ start = -1 \/ start \in Nat
  <2>1. start \in (0 .. Len(b) - 1) \union {-1}
    BY <1>1, FindPatternRange
  <2> QED BY <1>1, <2>1, FindPatternConcat
<1> HIDE DEF fin, start, later
<1>5. NoBody(fin, start) => NoBody(fin, later)
  BY <1>1, <1>3, <1>4 DEF NoBody
<1>6. CASE NoBody(fin, start)
  <2>1. ScanOutcome(b) = DropBytes(crcPos) /\ ScanOutcome(c) = DropBytes(crcPos)
    BY <1>2, <1>3, <1>5, <1>6, StartEndTurn DEF fin, start, later
  <2>2. ScanOutcome(b).skip + ScanOutcome(b).n <= Len(b)
    BY <1>3, <2>1 DEF DropBytes, Outcome
  <2> QED BY <2>1, <2>2, SameTurn
<1>7. CASE ~NoBody(fin, start)
  <2>1. start # -1 /\ later = start /\ start \in Nat
    BY <1>4, <1>7 DEF NoBody
  <2>2. ScanOutcome(b) = Validated(b, 0, data, crcPos, end, end)
    BY <1>2, <1>7, StartEndTurn DEF fin, start
  <2>3. ScanOutcome(c) = Validated(c, 0, SubSeq(c, body + 1, fin), crcPos, end, end)
    BY <1>2, <1>3, <1>7, <2>1, StartEndTurn DEF fin, start, later
  <2>4. SubSeq(c, body + 1, fin) = data
    <3>1. body + 1 \in Nat \ {0} /\ fin \in Int /\ fin <= Len(b)
      BY <1>1, <1>3, <2>1
    <3> HIDE DEF body
    <3> QED BY <3>1, PortionConcat
  <2> HIDE DEF crcPos, data
  <2>5. crcPos + cfg.crcLen <= Len(b)
    BY <1>3, <2>2, ValidatedWhole DEF Stops
  <2>6. Validated(c, 0, data, crcPos, end, end) = Validated(b, 0, data, crcPos, end, end)
    BY <1>3, <2>5, ValidatedConcat
  <2>7. ScanOutcome(c) = ScanOutcome(b)
    BY <2>2, <2>3, <2>4, <2>6
  <2>8. ScanOutcome(b).skip = 0 /\ ScanOutcome(b).n = end
    BY <2>2, ValidatedTakes DEF Stops
  <2>9. ScanOutcome(b).skip + ScanOutcome(b).n <= Len(b)
    BY <1>1, <1>3, <2>5, <2>8
  <2> QED BY <2>7, <2>9, SameTurn
<1> QED BY <1>6, <1>7

(* A turn that finds no candidate skips nothing. *)
LEMMA StartEndWaits ==
    ASSUME Working, cfg.detection = "StartEnd", NEW b \in Seq(Byte), Stops(b)
    PROVE  ScanOutcome(b).skip = 0
<1> DEFINE fin    == FindPattern(b, cfg.finish[1], 0)
           start  == FindPattern(b, cfg.start, 0)
<1>1. CASE fin = -1
  BY <1>1, StartEndTurn DEF Break, Outcome
<1>2. CASE fin # -1 /\ NoBody(fin, start)
  BY <1>2, StartEndTurn DEF DropBytes, Outcome
<1>3. CASE fin # -1 /\ ~NoBody(fin, start)
  BY <1>3, StartEndTurn, ValidatedTakes
<1> QED BY <1>1, <1>2, <1>3

(* So does a turn that finds no finish sequence. *)
LEMMA EndWaits ==
    ASSUME EndSafe, NEW b \in Seq(Byte), Stops(b)
    PROVE  ScanOutcome(b).skip = 0
<1>1. cfg.finish \in Seq(Seq(Byte)) /\ \A i \in DOMAIN cfg.finish : Len(cfg.finish[i]) > 0
  BY ConfigFacts DEF EndSafe
<1>2. PICK r, q : FirstOfAt(b, cfg.finish, r, q)
  BY <1>1, FindFirstOfFirst
<1>3. CASE r = -1
  BY <1>2, <1>3, EndTurn DEF Break, Outcome
<1>4. CASE r # -1
  BY <1>2, <1>4, EndTurn
<1> QED BY <1>3, <1>4

-----------------------------------------------------------------------------
(* Frames of a fixed length *)

(* Where alignFixedLengthFrame stops when it looks for a header: at the first
   one, or behind the last byte. *)
AlignedTo(b, r) ==
    /\ r \in 0 .. Len(b)
    /\ \A i \in 0 .. r - 1 : b[i + 1] \notin cfg.header
    /\ r < Len(b) => b[r + 1] \in cfg.header

Aligning(b) == ~(Len(b) < cfg.fixedLen) /\ cfg.header # {}

(* It stops there if there are enough bytes for a frame, and nowhere else. *)
LEMMA AlignStops ==
    ASSUME NEW b \in Seq(Byte)
    PROVE  /\ ~Aligning(b) => alignFixedLengthFrame(b) = 0
           /\ Aligning(b) => AlignedTo(b, alignFixedLengthFrame(b))
<1> DEFINE headers == {i \in 0 .. Len(b) - 1 : b[i + 1] \in cfg.header}
<1>0. Len(b) \in Nat /\ headers \in SUBSET Nat
  BY LenProperties
<1>1. CASE ~Aligning(b)
  BY <1>1 DEF Aligning, alignFixedLengthFrame
<1>2. CASE Aligning(b) /\ headers = {}
  <2>1. alignFixedLengthFrame(b) = Len(b)
    BY <1>2 DEF Aligning, alignFixedLengthFrame
  <2>2. \A i \in 0 .. Len(b) - 1 : b[i + 1] \notin cfg.header
    BY <1>2
  <2> QED BY <1>0, <1>2, <2>1, <2>2 DEF AlignedTo
<1>3. CASE Aligning(b) /\ headers # {}
  <2> DEFINE r == Lowest(headers)
  <2>1. alignFixedLengthFrame(b) = r
    BY <1>3 DEF Aligning, alignFixedLengthFrame
  <2>2. r \in headers /\ \A i \in headers : r <= i
    BY <1>0, <1>3, LowestProperty
  <2>3. r \in 0 .. Len(b) - 1 /\ b[r + 1] \in cfg.header
    BY <2>2
  <2> HIDE DEF r
  <2>4. ASSUME NEW i \in 0 .. r - 1 PROVE b[i + 1] \notin cfg.header
    <3>1. i \in 0 .. Len(b) - 1 /\ ~(r <= i)
      BY <1>0, <2>3
    <3>2. i \notin headers
      BY <2>2, <3>1
    <3> QED BY <3>1, <3>2
  <2> QED BY <1>0, <1>3, <2>1, <2>3, <2>4 DEF AlignedTo
<1> QED BY <1>1, <1>2, <1>3

(* There is one such place. *)
LEMMA AlignedOnce ==
    ASSUME NEW b, Len(b) \in Nat, NEW r, NEW s, AlignedTo(b, r), AlignedTo(b, s)
    PROVE  r = s
<1>1. r \in 0 .. Len(b) /\ s \in 0 .. Len(b)
  BY DEF AlignedTo
<1>2. ~(r < s)
  <2>1. ASSUME r < s PROVE FALSE
    <3>1. r \in 0 .. s - 1 /\ r < Len(b)
      BY <1>1, <2>1
    <3> QED BY <3>1 DEF AlignedTo
  <2> QED BY <2>1
<1>3. ~(s < r)
  <2>1. ASSUME s < r PROVE FALSE
    <3>1. s \in 0 .. r - 1 /\ s < Len(b)
      BY <1>1, <2>1
    <3> QED BY <3>1 DEF AlignedTo
  <2> QED BY <2>1
<1> QED BY <1>1, <1>2, <1>3

(* The turn of readFixedLengthFrames once the bytes before the header are gone. *)
FromHeader(rest, skip) ==
    LET payload == cfg.fixedLen - cfg.crcLen
        bad     == {i \in 1 .. payload - 1 : cfg.body # {} /\ rest[i + 1] \notin cfg.body}
    IN  IF Len(rest) < cfg.fixedLen THEN Break(skip)
        ELSE IF bad # {} THEN Outcome("drop", skip, Lowest(bad), <<>>)
        ELSE Validated(rest, skip, SubSeq(rest, 1, payload), payload, cfg.fixedLen,
                       IF cfg.header # {} THEN 1 ELSE cfg.fixedLen)

(* A turn aligns to the header and goes on from there. *)
LEMMA FixedTurn ==
    ASSUME cfg.detection = "Fixed", NEW b
    PROVE  LET skip == alignFixedLengthFrame(b) IN
           ScanOutcome(b) = IF cfg.fixedLen - cfg.crcLen <= 0 THEN Break(Len(b))
                            ELSE FromHeader(Drop(b, skip), skip)
<1>1. ScanOutcome(b) = readFixedLengthFrames(b)
  BY DEF ScanOutcome
<1> QED BY <1>1, Zenon DEF readFixedLengthFrames, FromHeader

(* The turn depends on what was skipped in nothing but the bytes to skip. *)
LEMMA FromHeaderSkips ==
    ASSUME NEW rest
    PROVE  \E kind, n, d : \A skip : FromHeader(rest, skip) = Outcome(kind, skip, n, d)
<1> DEFINE payload == cfg.fixedLen - cfg.crcLen
           bad     == {i \in 1 .. payload - 1 : cfg.body # {} /\ rest[i + 1] \notin cfg.body}
           data    == SubSeq(rest, 1, payload)
           reject  == IF cfg.header # {} THEN 1 ELSE cfg.fixedLen
<1>1. CASE Len(rest) < cfg.fixedLen
  <2>1. \A skip : FromHeader(rest, skip) = Outcome("break", skip, 0, <<>>)
    BY <1>1, Zenon DEF FromHeader, Break
  <2> QED BY <2>1, Zenon
<1>2. CASE ~(Len(rest) < cfg.fixedLen) /\ bad # {}
  <2>1. \A skip : FromHeader(rest, skip) = Outcome("drop", skip, Lowest(bad), <<>>)
    BY <1>2, Zenon DEF FromHeader
  <2> QED BY <2>1, Zenon
<1>3. CASE ~(Len(rest) < cfg.fixedLen) /\ ~(bad # {})
  <2>1. \A skip : FromHeader(rest, skip) =
            Validated(rest, skip, data, payload, cfg.fixedLen, reject)
    BY <1>3, Zenon DEF FromHeader
  <2> HIDE DEF data, payload, reject
  <2>2. PICK kind, n, d : \A skip :
            Validated(rest, skip, data, payload, cfg.fixedLen, reject) = Outcome(kind, skip, n, d)
    BY ValidatedSkips
  <2> QED BY <2>1, <2>2, Zenon
<1> QED BY <1>1, <1>2, <1>3

(* With a whole candidate in sight, the turn is the same with or without more. *)
LEMMA FromHeaderConcat ==
    ASSUME Working, cfg.fixedLen - cfg.crcLen > 0, NEW rest \in Seq(Byte), NEW y \in Seq(Byte),
           NEW skip, FromHeader(rest, skip).kind # "break"
    PROVE  /\ FromHeader(rest \o y, skip) = FromHeader(rest, skip)
           /\ FromHeader(rest, skip).skip = skip /\ FromHeader(rest, skip).n \in 0 .. Len(rest)
           /\ ~(Len(rest) < cfg.fixedLen)
<1> DEFINE payload == cfg.fixedLen - cfg.crcLen
           bad     == {i \in 1 .. payload - 1 : cfg.body # {} /\ rest[i + 1] \notin cfg.body}
           more    == rest \o y
           bad2    == {i \in 1 .. payload - 1 : cfg.body # {} /\ more[i + 1] \notin cfg.body}
           data    == SubSeq(rest, 1, payload)
           data2   == SubSeq(more, 1, payload)
           reject  == IF cfg.header # {} THEN 1 ELSE cfg.fixedLen
<1>1. cfg.fixedLen \in Nat /\ cfg.crcLen \in Nat /\ Len(rest) \in Nat
  BY ConfigFacts, LenProperties DEF Working
<1>2. /\ Len(more) = Len(rest) + Len(y) /\ Len(y) \in Nat
      /\ \A i \in 1 .. Len(rest) + Len(y) : more[i] = IF i <= Len(rest) THEN rest[i] ELSE y[i - Len(rest)]
  BY ConcatProperties, LenProperties
<1>3. ~(Len(rest) < cfg.fixedLen)
  <2>1. ASSUME Len(rest) < cfg.fixedLen PROVE FALSE
    <3>1. FromHeader(rest, skip) = Break(skip)
      BY <2>1, Zenon DEF FromHeader
    <3> QED BY <3>1 DEF Break, Outcome
  <2> QED BY <2>1
<1>4. /\ payload \in Nat /\ payload > 0 /\ payload + cfg.crcLen = cfg.fixedLen
      /\ payload + cfg.crcLen <= Len(rest) /\ payload <= Len(rest)
      /\ ~(Len(more) < cfg.fixedLen)
  BY <1>1, <1>2, <1>3
<1>5. bad2 = bad
  <2> HIDE DEF payload
  <2>1. ASSUME NEW i \in 1 .. payload - 1 PROVE more[i + 1] = rest[i + 1]
    <3>1. i + 1 \in 1 .. Len(rest) + Len(y) /\ i + 1 <= Len(rest)
      BY <1>1, <1>2, <1>4
    <3> HIDE DEF more
    <3> QED BY <1>2, <3>1
  <2> HIDE DEF more
  <2> QED BY <2>1
<1>6. data2 = data
  <2> HIDE DEF payload
  <2> QED BY <1>4, PortionConcat
<1>7. reject \in 0 .. Len(rest) /\ cfg.fixedLen \in 0 .. Len(rest)
  BY <1>1, <1>3, <1>4
<1>8. CASE bad # {}
  <2>1. FromHeader(rest, skip) = Outcome("drop", skip, Lowest(bad), <<>>)
    BY <1>3, <1>8, Zenon DEF FromHeader
  <2>2. FromHeader(more, skip) = Outcome("drop", skip, Lowest(bad2), <<>>)
    <3>1. bad2 # {}
      BY <1>5, <1>8
    <3> HIDE DEF more
    <3> QED BY <1>4, <3>1, Zenon DEF FromHeader
  <2>3. Lowest(bad) \in bad
    <3>1. bad \in SUBSET Nat
      BY <1>4
    <3> QED BY <1>8, <3>1, LowestProperty
  <2>4. Lowest(bad) \in 0 .. Len(rest)
    <3>1. Lowest(bad) \in 1 .. payload - 1
      BY <2>3
    <3> HIDE DEF bad, payload
    <3> QED BY <1>1, <1>4, <3>1
  <2> HIDE DEF bad, bad2, more
  <2>5. FromHeader(more, skip) = FromHeader(rest, skip)
    BY <1>5, <2>1, <2>2
  <2>6. FromHeader(rest, skip).skip = skip /\ FromHeader(rest, skip).n = Lowest(bad)
    BY <2>1 DEF Outcome
  <2> QED BY <1>3, <2>4, <2>5, <2>6 DEF more
<1>9. CASE bad = {}
  <2>1. FromHeader(rest, skip) = Validated(rest, skip, data, payload, cfg.fixedLen, reject)
    BY <1>3, <1>9, Zenon DEF FromHeader
  <2>2. FromHeader(more, skip) = Validated(more, skip, data2, payload, cfg.fixedLen, reject)
    <3>1. ~(bad2 # {})
      BY <1>5, <1>9
    <3> HIDE DEF more
    <3> QED BY <1>4, <3>1, Zenon DEF FromHeader
  <2> HIDE DEF payload, data, data2, reject
  <2>3. Validated(more, skip, data, payload, cfg.fixedLen, reject) =
          Validated(rest, skip, data, payload, cfg.fixedLen, reject)
    BY <1>4, ValidatedConcat
  <2>4. FromHeader(more, skip) = FromHeader(rest, skip)
    BY <1>6, <2>1, <2>2, <2>3
  <2>5. /\ FromHeader(rest, skip).skip = skip
        /\ FromHeader(rest, skip).n = cfg.fixedLen \/ FromHeader(rest, skip).n = reject
    BY <2>1, ValidatedTakes
  <2> QED BY <1>3, <1>7, <2>4, <2>5
<1> QED BY <1>8, <1>9

(* A turn that goes on is the same with or without more bytes. *)
LEMMA FixedResumes ==
    ASSUME Working, cfg.detection = "Fixed", NEW b \in Seq(Byte), NEW y \in Seq(Byte), ~Stops(b)
    PROVE  Resumes(b, y)
<1> DEFINE skip == alignFixedLengthFrame(b)
           rest == Drop(b, skip)
           c    == b \o y
<1>1. cfg.fixedLen \in Nat /\ cfg.crcLen \in Nat /\ Len(b) \in Nat
  BY ConfigFacts, LenProperties DEF Working
<1>2. c \in Seq(Byte) /\ Len(c) = Len(b) + Len(y) /\ Len(y) \in Nat /\ Len(c) \in Nat
      /\ \A i \in 1 .. Len(b) + Len(y) : c[i] = IF i <= Len(b) THEN b[i] ELSE y[i - Len(b)]
  BY ConcatProperties, LenProperties
<1>3. cfg.fixedLen - cfg.crcLen > 0
  <2>1. ASSUME cfg.fixedLen - cfg.crcLen <= 0 PROVE FALSE
    <3>1. ScanOutcome(b) = Break(Len(b))
      BY <2>1, FixedTurn
    <3> QED BY <3>1 DEF Break, Outcome, Stops
  <2> QED BY <1>1, <2>1
<1>4. ~(cfg.fixedLen - cfg.crcLen <= 0)
  BY <1>1, <1>3
<1>5. ScanOutcome(b) = FromHeader(rest, skip) /\ skip \in 0 .. Len(b)
  BY <1>4, FixedTurn, AlignRange
<1>6. rest \in Seq(Byte) /\ Len(rest) = Len(b) - skip /\ Drop(c, skip) = rest \o y
  BY <1>5, DropType, DropConcat
<1>7. FromHeader(rest, skip).kind # "break"
  BY <1>5 DEF Stops
<1>8. AlignedTo(b, skip) \/ (cfg.header = {} /\ skip = 0) \/ Len(b) < cfg.fixedLen
  BY AlignStops DEF Aligning
<1> HIDE DEF skip, rest
<1>9. /\ FromHeader(rest \o y, skip) = FromHeader(rest, skip)
      /\ FromHeader(rest, skip).skip = skip /\ FromHeader(rest, skip).n \in 0 .. Len(rest)
      /\ ~(Len(rest) < cfg.fixedLen)
  BY <1>3, <1>6, <1>7, FromHeaderConcat
<1>10. skip < Len(b) /\ ~(Len(b) < cfg.fixedLen) /\ ~(Len(c) < cfg.fixedLen)
  BY <1>1, <1>2, <1>3, <1>5, <1>6, <1>9
<1>11. alignFixedLengthFrame(c) = skip
  <2>1. CASE cfg.header = {} /\ skip = 0
    BY <1>2, <2>1, AlignStops DEF Aligning
  <2>2. CASE AlignedTo(b, skip) /\ cfg.header # {}
    <3> HIDE DEF c
    <3>1. \A i \in 1 .. Len(b) : c[i] = b[i]
      BY <1>1, <1>2
    <3>2. skip \in 0 .. Len(c)
      BY <1>1, <1>2, <1>5
    <3>3. \A i \in 0 .. skip - 1 : c[i + 1] \notin cfg.header
      <4> SUFFICES ASSUME NEW i \in 0 .. skip - 1 PROVE c[i + 1] \notin cfg.header
        OBVIOUS
      <4>1. i + 1 \in 1 .. Len(b)
        BY <1>1, <1>5
      <4> QED BY <2>2, <3>1, <4>1 DEF AlignedTo
    <3>4. c[skip + 1] \in cfg.header
      <4>1. skip + 1 \in 1 .. Len(b)
        BY <1>1, <1>5, <1>10
      <4> QED BY <1>10, <2>2, <3>1, <4>1 DEF AlignedTo
    <3>5. AlignedTo(c, skip)
      BY <3>2, <3>3, <3>4 DEF AlignedTo
    <3>6. AlignedTo(c, alignFixedLengthFrame(c))
      BY <1>2, <1>10, <2>2, AlignStops DEF Aligning
    <3> QED BY <1>2, <3>5, <3>6, AlignedOnce
  <2>3. AlignedTo(b, skip) \/ (cfg.header = {} /\ skip = 0)
    BY <1>8, <1>10
  <2>4. cfg.header = {} => skip = 0
    BY AlignStops DEF Aligning, skip
  <2> QED BY <2>1, <2>2, <2>3, <2>4
<1>12. ScanOutcome(c) = ScanOutcome(b)
  <2>1. ScanOutcome(c) = FromHeader(Drop(c, skip), skip)
    BY <1>4, <1>11, FixedTurn
  <2> HIDE DEF c
  <2> QED BY <1>5, <1>6, <1>9, <2>1
<1>13. ScanOutcome(b).skip + ScanOutcome(b).n <= Len(b)
  BY <1>1, <1>5, <1>6, <1>9
<1> QED BY <1>12, <1>13, SameTurn

(* The bytes before the header may as well be gone. *)
LEMMA FixedWaits ==
    ASSUME Working, cfg.detection = "Fixed", NEW b \in Seq(Byte), NEW y \in Seq(Byte), Stops(b)
    PROVE  ExtractAll(b \o y) = ExtractAll(Drop(b, ScanOutcome(b).skip) \o y)
<1> DEFINE k == alignFixedLengthFrame(b)
           c == b \o y
           a == alignFixedLengthFrame(c)
           d == Drop(c, k)
<1>1. cfg.fixedLen \in Nat /\ cfg.crcLen \in Nat /\ Len(b) \in Nat
  BY ConfigFacts, LenProperties DEF Working
<1>2. c \in Seq(Byte) /\ Len(c) = Len(b) + Len(y) /\ Len(y) \in Nat /\ Len(c) \in Nat
      /\ \A i \in 1 .. Len(b) + Len(y) : c[i] = IF i <= Len(b) THEN b[i] ELSE y[i - Len(b)]
  BY ConcatProperties, LenProperties
<1>3. CASE cfg.fixedLen - cfg.crcLen <= 0
  <2>1. ASSUME NEW s \in Seq(Byte) PROVE ExtractAll(s) = <<>>
    <3>1. ScanOutcome(s) = Break(Len(s))
      BY <1>3, FixedTurn
    <3>2. Stops(s)
      BY <3>1 DEF Break, Outcome, Stops
    <3> QED BY <3>2, ExtractStops
  <2>2. Drop(b, ScanOutcome(b).skip) \in Seq(Byte)
    <3>1. ScanOutcome(b).skip = Len(b)
      BY <1>3, FixedTurn DEF Break, Outcome
    <3>2. Len(b) \in 0 .. Len(b)
      BY <1>1
    <3> QED BY <3>1, <3>2, DropType
  <2>3. Drop(b, ScanOutcome(b).skip) \o y \in Seq(Byte)
    BY <2>2, ConcatProperties
  <2> QED BY <1>2, <2>1, <2>3
<1>4. CASE ~(cfg.fixedLen - cfg.crcLen <= 0)
  <2>1. ScanOutcome(b) = FromHeader(Drop(b, k), k) /\ k \in 0 .. Len(b)
    BY <1>4, FixedTurn, AlignRange
  <2>2. ScanOutcome(b).skip = k
    <3>1. PICK kind, n, v : \A skip : FromHeader(Drop(b, k), skip) = Outcome(kind, skip, n, v)
      BY FromHeaderSkips
    <3> HIDE DEF k
    <3> QED BY <2>1, <3>1 DEF Outcome
  <2>3. d \in Seq(Byte) /\ Len(d) = Len(c) - k /\ d = Drop(b, k) \o y /\ k \in 0 .. Len(c)
    <3>1. k \in 0 .. Len(c)
      BY <1>1, <1>2, <2>1
    <3> HIDE DEF c, k
    <3> QED BY <1>2, <2>1, <3>1, DropType, DropConcat DEF c
  <2>4. CASE ~Aligning(b)
    <3>1. k = 0
      BY <2>4, AlignStops
    <3> QED BY <2>2, <3>1, DropNothing
  <2>5. CASE Aligning(b)
    <3>1. AlignedTo(b, k)
      BY <2>5, AlignStops
    <3>2. Aligning(c)
      BY <1>1, <1>2, <2>5 DEF Aligning
    <3>3. AlignedTo(c, a)
      BY <1>2, <3>2, AlignStops
    <3>4. ScanOutcome(c) = FromHeader(Drop(c, a), a) /\ ScanOutcome(d) =
            FromHeader(Drop(d, alignFixedLengthFrame(d)), alignFixedLengthFrame(d))
      BY <1>4, FixedTurn
    <3>5. a \in 0 .. Len(c)
      BY <3>3 DEF AlignedTo
    <3> HIDE DEF a, k, c
    <3>6. k <= a
      <4>1. ASSUME a < k PROVE FALSE
        <5>1. a \in 0 .. k - 1 /\ a + 1 \in 1 .. Len(b) /\ a + 1 \in 1 .. Len(b) + Len(y) /\ a < Len(c)
          BY <1>1, <1>2, <2>1, <3>5, <4>1
        <5>2. c[a + 1] = b[a + 1]
          BY <1>2, <5>1
        <5> QED BY <3>1, <3>3, <5>1, <5>2 DEF AlignedTo
      <4> QED BY <2>1, <3>5, <4>1
    <3>7. a - k \in 0 .. Len(d) /\ k + (a - k) = a /\ a - k \in 0 .. Len(c) - k
      BY <1>2, <2>1, <2>3, <3>5, <3>6
    <3>8. \A i \in 1 .. Len(d) : d[i] = c[i + k]
      BY <1>2, <2>3, DropElements
    <3> HIDE DEF d
    <3>9. ExtractAll(c) = ExtractAll(d)
      <4>1. CASE Len(d) < cfg.fixedLen
        <5>1. alignFixedLengthFrame(d) = 0 /\ Drop(d, 0) = d
          BY <2>3, <4>1, AlignStops, DropNothing DEF Aligning
        <5>2. ScanOutcome(d) = Break(0)
          <6>1. ScanOutcome(d) = FromHeader(d, 0)
            BY <3>4, <5>1
          <6>2. FromHeader(d, 0) = Break(0)
            BY <4>1, Zenon DEF FromHeader
          <6> QED BY <6>1, <6>2
        <5>3. Len(Drop(c, a)) < cfg.fixedLen
          <6>1. Len(Drop(c, a)) = Len(c) - a
            BY <1>2, <3>5, DropType
          <6> QED BY <1>1, <1>2, <2>1, <2>3, <3>5, <3>6, <4>1, <6>1
        <5>4. FromHeader(Drop(c, a), a) = Break(a)
          BY <5>3, Zenon DEF FromHeader
        <5>5. Stops(c) /\ Stops(d)
          BY <3>4, <5>2, <5>4 DEF Break, Outcome, Stops
        <5> QED BY <1>2, <2>3, <5>5, ExtractStops
      <4>2. CASE ~(Len(d) < cfg.fixedLen)
        <5>1. AlignedTo(d, a - k)
          <6>1. ASSUME NEW i \in 0 .. (a - k) - 1 PROVE d[i + 1] \notin cfg.header
            <7>1. i + 1 \in 1 .. Len(d) /\ (i + 1) + k = (i + k) + 1 /\ i + k \in 0 .. a - 1
              BY <1>2, <2>1, <2>3, <3>5, <3>7
            <7> QED BY <3>3, <3>8, <7>1 DEF AlignedTo
          <6>2. ASSUME a - k < Len(d) PROVE d[(a - k) + 1] \in cfg.header
            <7>1. (a - k) + 1 \in 1 .. Len(d) /\ ((a - k) + 1) + k = a + 1 /\ a < Len(c)
              BY <1>2, <2>1, <2>3, <3>5, <3>7, <6>2
            <7> QED BY <3>3, <3>8, <7>1 DEF AlignedTo
          <6> QED BY <3>7, <6>1, <6>2 DEF AlignedTo
        <5>2. Aligning(d)
          BY <3>2, <4>2 DEF Aligning
        <5>3. AlignedTo(d, alignFixedLengthFrame(d)) /\ Len(d) \in Nat
          BY <2>3, <5>2, AlignStops, LenProperties
        <5>4. alignFixedLengthFrame(d) = a - k
          BY <5>1, <5>3, AlignedOnce
        <5>5. Drop(d, a - k) = Drop(c, a)
          <6>1. Drop(Drop(c, k), a - k) = Drop(c, k + (a - k))
            BY <1>2, <2>3, <3>7, DropDrop
          <6> QED BY <3>7, <6>1 DEF d
        <5>6. PICK kind, n, v : \A skip : FromHeader(Drop(c, a), skip) = Outcome(kind, skip, n, v)
          BY FromHeaderSkips
        <5>7. ScanOutcome(c) = Outcome(kind, k + (a - k), n, v)
              /\ ScanOutcome(d) = Outcome(kind, a - k, n, v)
          BY <3>4, <3>7, <5>4, <5>5, <5>6
        <5>8. PICK m : m = a - k
          OBVIOUS
        <5>9. d = Drop(c, k) /\ k \in 0 .. Len(c)
          BY <2>3 DEF d
        <5>10. ScanOutcome(c) = Outcome(kind, k + m, n, v) /\ ScanOutcome(d) = Outcome(kind, m, n, v)
          BY <5>7, <5>8
        <5>11. Realigns(c, k, d, kind, m, n, v)
          BY <5>9, <5>10 DEF Realigns
        <5> QED BY <1>2, <5>9, <5>11, Realigned
      <4> QED BY <4>1, <4>2
    <3> QED BY <2>2, <2>3, <3>9 DEF c
  <2> QED BY <2>4, <2>5
<1> QED BY <1>3, <1>4

-----------------------------------------------------------------------------
(* The same for all configurations in which a stream splits anywhere *)

(* A turn that goes on consumes bytes and finds frames whatever comes behind. *)
LEMMA TurnResumes ==
    ASSUME Working, SplitsAnywhere(cfg), NEW b \in Seq(Byte), NEW y \in Seq(Byte), ~Stops(b)
    PROVE  Resumes(b, y)
<1>1. cfg.detection \in {"End", "Start", "StartEnd", "Fixed"}
  BY ConfigFacts DEF ConfigType, Working
<1>2. CASE cfg.detection = "End"
  BY <1>2, EndResumes DEF SplitsAnywhere, EndSafe, Working
<1>3. CASE cfg.detection = "Start"
  BY <1>3, StartResumes
<1>4. CASE cfg.detection = "StartEnd"
  BY <1>4, StartEndResumes
<1>5. CASE cfg.detection = "Fixed"
  BY <1>5, FixedResumes
<1> QED BY <1>1, <1>2, <1>3, <1>4, <1>5

(* The bytes that the last turn of a call skips may as well be gone. *)
LEMMA TurnWaits ==
    ASSUME Working, SplitsAnywhere(cfg), NEW b \in Seq(Byte), NEW y \in Seq(Byte), Stops(b)
    PROVE  ExtractAll(b \o y) = ExtractAll(Drop(b, ScanOutcome(b).skip) \o y)
<1>1. cfg.detection \in {"End", "Start", "StartEnd", "Fixed"}
  BY ConfigFacts DEF ConfigType, Working
<1>2. CASE cfg.detection = "End"
  <2>1. ScanOutcome(b).skip = 0
    BY <1>2, EndWaits DEF SplitsAnywhere, EndSafe, Working
  <2> QED BY <2>1, DropNothing
<1>3. CASE cfg.detection = "Start"
  BY <1>3, StartWaits
<1>4. CASE cfg.detection = "StartEnd"
  <2>1. ScanOutcome(b).skip = 0
    BY <1>4, StartEndWaits
  <2> QED BY <2>1, DropNothing
<1>5. CASE cfg.detection = "Fixed"
  BY <1>5, FixedWaits
<1> QED BY <1>1, <1>2, <1>3, <1>4, <1>5

-----------------------------------------------------------------------------
(* The frames found so far, and the bytes still buffered, are those of the stream. *)

Datas(fs) == [i \in DOMAIN fs |-> fs[i].data]

Joins(w, s, y) == w = s \o y

(* Whatever comes behind the stream all, the frames of the whole are the frames fs
   found so far and those of the bytes b with what comes behind. *)
Continues(all, b, fs) ==
    \A y, w, r \in Seq(Byte) :
        Joins(w, all, y) /\ Joins(r, b, y) => ExtractAll(w) = fs \o ExtractAll(r)

(* No frame is left in the bytes b. *)
Settled(b) == \A r \in Seq(Byte) : r = b => ExtractAll(r) = <<>>

ChunkInv ==
    stats.overflow = 0 /\ cfg.detection # "None" /\ SplitsAnywhere(cfg) =>
        /\ Continues(stream, Bytes(buffer), Datas(frames))
        /\ pc = "idle" /\ iterations < MaxFramesPerCall => Settled(Bytes(buffer))

(* The bytes of a buffer without its first n elements. *)
LEMMA BytesDrop ==
    ASSUME NEW b \in BufferType, NEW n \in 0 .. Len(b)
    PROVE  Bytes(Drop(b, n)) = Drop(Bytes(b), n)
<1> DEFINE d == Drop(b, n)
           e == Bytes(b)
<1>1. /\ d \in BufferType /\ Len(d) = Len(b) - n /\ Len(b) \in Nat
      /\ \A i \in 1 .. Len(d) : d[i] = b[i + n] /\ i + n \in 1 .. Len(b)
  BY DropType, DropElements, LenProperties DEF BufferType
<1>2. e \in Seq(Byte) /\ Len(e) = Len(b) /\ \A i \in 1 .. Len(b) : e[i] = b[i].v
  BY BytesType DEF BufferType, Bytes
<1>3. Bytes(d) \in Seq(Byte) /\ Len(Bytes(d)) = Len(d) /\ \A i \in 1 .. Len(d) : Bytes(d)[i] = d[i].v
  BY <1>1, BytesType DEF BufferType, Bytes
<1> HIDE DEF d, e
<1>4. /\ Drop(e, n) \in Seq(Byte) /\ Len(Drop(e, n)) = Len(e) - n
      /\ \A i \in 1 .. Len(Drop(e, n)) : Drop(e, n)[i] = e[i + n]
  BY <1>1, <1>2, DropType, DropElements
<1>5. \A i \in 1 .. Len(d) : Bytes(d)[i] = Drop(e, n)[i]
  BY <1>1, <1>2, <1>3, <1>4
<1>6. Len(Bytes(d)) = Len(Drop(e, n))
  BY <1>1, <1>2, <1>3, <1>4
<1>7. Bytes(d) = Drop(e, n)
  BY <1>3, <1>4, <1>5, <1>6, SeqEqual
<1> QED BY <1>7 DEF d, e

(* The bytes of a buffer after a chunk came in. *)
LEMMA BytesConcat ==
    ASSUME NEW b \in BufferType, NEW t \in BufferType, NEW data \in Seq(Byte),
           Len(t) = Len(data), \A i \in 1 .. Len(data) : t[i].v = data[i]
    PROVE  Bytes(b \o t) = Bytes(b) \o data
<1> DEFINE g == b \o t
           e == Bytes(b)
           h == e \o data
<1>1. /\ g \in BufferType /\ Len(g) = Len(b) + Len(data) /\ Len(b) \in Nat /\ Len(data) \in Nat
      /\ \A i \in 1 .. Len(b) + Len(data) : g[i] = IF i <= Len(b) THEN b[i] ELSE t[i - Len(b)]
  <2>1. Len(b) \in Nat /\ Len(data) \in Nat
    BY LenProperties DEF BufferType
  <2>2. /\ g \in BufferType /\ Len(g) = Len(b) + Len(t)
        /\ \A i \in 1 .. Len(b) + Len(t) : g[i] = IF i <= Len(b) THEN b[i] ELSE t[i - Len(b)]
    BY ConcatProperties DEF BufferType
  <2> QED BY <2>1, <2>2
<1>2. e \in Seq(Byte) /\ Len(e) = Len(b) /\ \A i \in 1 .. Len(b) : e[i] = b[i].v
  BY BytesType DEF BufferType, Bytes
<1>3. Bytes(g) \in Seq(Byte) /\ Len(Bytes(g)) = Len(g) /\ \A i \in 1 .. Len(g) : Bytes(g)[i] = g[i].v
  BY <1>1, BytesType DEF BufferType, Bytes
<1> HIDE DEF g, e
<1>4. /\ h \in Seq(Byte) /\ Len(h) = Len(b) + Len(data)
      /\ \A i \in 1 .. Len(b) + Len(data) : h[i] = IF i <= Len(b) THEN e[i] ELSE data[i - Len(b)]
  <2>1. /\ h \in Seq(Byte) /\ Len(h) = Len(e) + Len(data)
        /\ \A i \in 1 .. Len(e) + Len(data) : h[i] = IF i <= Len(e) THEN e[i] ELSE data[i - Len(e)]
    BY <1>2, ConcatProperties
  <2> QED BY <1>2, <2>1
<1> HIDE DEF h
<1>5. ASSUME NEW i \in 1 .. Len(g) PROVE Bytes(g)[i] = h[i]
  <2>1. CASE i <= Len(b)
    <3>1. i \in 1 .. Len(b) /\ i \in 1 .. Len(b) + Len(data)
      BY <1>1, <2>1
    <3> QED BY <1>1, <1>2, <1>3, <1>4, <2>1, <3>1
  <2>2. CASE ~(i <= Len(b))
    <3>1. i - Len(b) \in 1 .. Len(data) /\ i \in 1 .. Len(b) + Len(data)
      BY <1>1, <2>2
    <3> QED BY <1>1, <1>3, <1>4, <2>2, <3>1
  <2> QED BY <2>1, <2>2
<1>6. Len(Bytes(g)) = Len(h)
  BY <1>1, <1>3, <1>4
<1>7. Bytes(g) = h
  BY <1>3, <1>4, <1>5, <1>6, SeqEqual
<1> QED BY <1>7 DEF g, h, e

(* The payloads of the frames. *)
LEMMA DatasType ==
    ASSUME NEW fs \in Seq(FrameType)
    PROVE  Datas(fs) \in Seq(Seq(Byte)) /\ Len(Datas(fs)) = Len(fs)
           /\ \A i \in 1 .. Len(fs) : Datas(fs)[i] = fs[i].data
<1>1. Len(fs) \in Nat /\ DOMAIN fs = 1 .. Len(fs) /\ \A i \in 1 .. Len(fs) : fs[i] \in FrameType
  BY LenProperties, ElementOfSeq
<1>2. \A i \in 1 .. Len(fs) : fs[i].data \in Seq(Byte)
  BY <1>1 DEF FrameType
<1>3. Datas(fs) \in [1 .. Len(fs) -> Seq(Byte)]
  BY <1>1, <1>2 DEF Datas
<1>4. Datas(fs) \in Seq(Seq(Byte)) /\ Len(Datas(fs)) = Len(fs)
  BY <1>1, <1>3, SeqDef, LenProperties
<1>5. \A i \in 1 .. Len(fs) : Datas(fs)[i] = fs[i].data
  BY <1>1 DEF Datas
<1> QED BY <1>4, <1>5

(* One frame more. *)
LEMMA DatasAppend ==
    ASSUME NEW fs \in Seq(FrameType), NEW f \in FrameType
    PROVE  Datas(Append(fs, f)) = Datas(fs) \o <<f.data>>
<1> DEFINE g == Append(fs, f)
           d == Datas(fs)
           h == d \o <<f.data>>
           n == Len(fs)
<1>1. /\ g \in Seq(FrameType) /\ Len(g) = n + 1 /\ g[n + 1] = f /\ n \in Nat
      /\ \A i \in 1 .. n : g[i] = fs[i]
  BY AppendProperties, LenProperties
<1>2. d \in Seq(Seq(Byte)) /\ Len(d) = n /\ \A i \in 1 .. n : d[i] = fs[i].data
  BY DatasType
<1>3. Datas(g) \in Seq(Seq(Byte)) /\ Len(Datas(g)) = n + 1 /\ \A i \in 1 .. n + 1 : Datas(g)[i] = g[i].data
  BY <1>1, DatasType
<1>4. f.data \in Seq(Byte)
  BY DEF FrameType
<1> HIDE DEF g, d, n
<1>5. /\ h \in Seq(Seq(Byte)) /\ Len(h) = n + 1 /\ h[n + 1] = f.data
      /\ \A i \in 1 .. n : h[i] = d[i]
  BY <1>1, <1>2, <1>4
<1> HIDE DEF h
<1>6. ASSUME NEW i \in 1 .. n + 1 PROVE Datas(g)[i] = h[i]
  <2>1. CASE i = n + 1
    BY <1>1, <1>3, <1>5, <2>1
  <2>2. CASE i # n + 1
    <3>1. i \in 1 .. n
      BY <1>1, <2>2
    <3> QED BY <1>1, <1>2, <1>3, <1>5, <3>1
  <2> QED BY <2>1, <2>2
<1>7. Datas(g) = h
  BY <1>3, <1>5, <1>6, SeqEqual
<1> QED BY <1>7 DEF g, d, h

(* Continues at work. *)
LEMMA Continued ==
    ASSUME NEW all \in Seq(Byte), NEW b \in Seq(Byte), NEW fs, Continues(all, b, fs),
           NEW y \in Seq(Byte)
    PROVE  ExtractAll(all \o y) = fs \o ExtractAll(b \o y)
<1>1. all \o y \in Seq(Byte) /\ b \o y \in Seq(Byte)
  BY ConcatProperties
<1>2. Joins(all \o y, all, y) /\ Joins(b \o y, b, y)
  BY DEF Joins
<1> QED BY <1>1, <1>2 DEF Continues

(* A turn that goes on hands on the frame it found. *)
LEMMA TurnContinues ==
    ASSUME Working, SplitsAnywhere(cfg), NEW all \in Seq(Byte), NEW b \in Seq(Byte), ~Stops(b),
           NEW fs \in Seq(Seq(Byte)), Continues(all, b, fs),
           NEW d, d = Drop(b, ScanOutcome(b).skip + ScanOutcome(b).n),
           NEW gs, gs = fs \o Found(b)
    PROVE  Continues(all, d, gs)
<1>1. ASSUME NEW y \in Seq(Byte), NEW w \in Seq(Byte), NEW r \in Seq(Byte),
             Joins(w, all, y), Joins(r, d, y)
      PROVE  ExtractAll(w) = gs \o ExtractAll(r)
  <2>1. ExtractAll(w) = fs \o ExtractAll(b \o y)
    BY <1>1, Continued DEF Joins
  <2>2. ExtractAll(b \o y) = Found(b) \o ExtractAll(r)
    BY <1>1, TurnResumes DEF Resumes, Joins
  <2>3. Found(b) \in Seq(Seq(Byte)) /\ ExtractAll(r) \in Seq(Seq(Byte))
    BY LeftFacts, ExtractType
  <2>4. (fs \o Found(b)) \o ExtractAll(r) = fs \o (Found(b) \o ExtractAll(r))
    BY <2>3, FramesAssociative
  <2> QED BY <2>1, <2>2, <2>4
<1> QED BY ONLY <1>1 DEF Continues

(* The last turn of a call skips bytes that no frame begins with. *)
LEMMA WaitContinues ==
    ASSUME Working, SplitsAnywhere(cfg), NEW all \in Seq(Byte), NEW b \in Seq(Byte), Stops(b),
           NEW fs \in Seq(Seq(Byte)), Continues(all, b, fs),
           NEW d, d = Drop(b, ScanOutcome(b).skip)
    PROVE  Continues(all, d, fs) /\ Settled(d)
<1>1. ASSUME NEW y \in Seq(Byte), NEW w \in Seq(Byte), NEW r \in Seq(Byte),
             Joins(w, all, y), Joins(r, d, y)
      PROVE  ExtractAll(w) = fs \o ExtractAll(r)
  <2>1. ExtractAll(w) = fs \o ExtractAll(b \o y)
    BY <1>1, Continued DEF Joins
  <2>2. ExtractAll(b \o y) = ExtractAll(r)
    BY <1>1, TurnWaits, Zenon DEF Joins
  <2> QED BY <2>1, <2>2
<1>2. ExtractAll(d) = <<>>
  <2>1. ExtractAll(b) = <<>> /\ ScanOutcome(b).skip \in 0 .. Len(b)
    BY ExtractStops, ScanOutcomeOK DEF OutcomeOK, Working
  <2>2. d \in Seq(Byte)
    BY <2>1, DropType
  <2>3. ExtractAll(b \o <<>>) = ExtractAll(d \o <<>>)
    <3>1. <<>> \in Seq(Byte)
      OBVIOUS
    <3> QED BY <3>1, TurnWaits, Zenon
  <2>4. b \o <<>> = b /\ d \o <<>> = d
    BY <2>2, ConcatEmptySeq
  <2> QED BY <2>1, <2>3, <2>4
<1>3. Continues(all, d, fs)
  BY ONLY <1>1 DEF Continues
<1>4. Settled(d)
  BY ONLY <1>2 DEF Settled
<1> QED BY <1>3, <1>4

(* Bytes are put together in any order. *)
LEMMA JoinsAssociative ==
    ASSUME NEW a \in Seq(Byte), NEW b \in Seq(Byte), NEW c \in Seq(Byte),
           NEW ab, Joins(ab, a, b), NEW bc, Joins(bc, b, c), NEW w, Joins(w, ab, c)
    PROVE  Joins(w, a, bc)
<1>1. (a \o b) \o c = a \o (b \o c)
  BY ONLY a \in Seq(Byte), b \in Seq(Byte), c \in Seq(Byte)
<1> QED BY <1>1 DEF Joins

(* A chunk comes in behind what is buffered. *)
LEMMA ChunkContinues ==
    ASSUME NEW all \in Seq(Byte), NEW b \in Seq(Byte), NEW data \in Seq(Byte),
           NEW fs, Continues(all, b, fs), NEW s2, Joins(s2, all, data), NEW b2, Joins(b2, b, data)
    PROVE  Continues(s2, b2, fs)
<1>1. ASSUME NEW y \in Seq(Byte), NEW w \in Seq(Byte), NEW r \in Seq(Byte),
             Joins(w, s2, y), Joins(r, b2, y)
      PROVE  ExtractAll(w) = fs \o ExtractAll(r)
  <2>1. PICK z \in Seq(Byte) : Joins(z, data, y)
    <3>1. data \o y \in Seq(Byte)
      BY ConcatProperties
    <3> QED BY <3>1, Zenon DEF Joins
  <2>2. Joins(w, all, z)
    BY <1>1, <2>1, JoinsAssociative
  <2>3. Joins(r, b, z)
    BY <1>1, <2>1, JoinsAssociative
  <2> QED BY <1>1, <2>2, <2>3 DEF Continues
<1> QED BY ONLY <1>1 DEF Continues

(* The frames that the repeated turn finds are those of ExtractAll, in a form
   that is primed as a whole. *)
RunsExtract ==
    Working => \A s \in Seq(Byte), n \in Nat : \A f :
        Len(s) <= n /\ RunOf(f, [rest |-> s, got |-> <<>>], n) => ExtractAll(s) = f[n].got

LEMMA RunsExtractAll == RunsExtract
BY ExtractIsRun DEF RunsExtract

(* What a turn does depends on the configuration alone. *)
LEMMA SameConfigSameTurn ==
    ASSUME cfg' = cfg, NEW b
    PROVE  ScanOutcome(b)' = ScanOutcome(b)
<1>1. readEndDelimitedFrames(b)' = readEndDelimitedFrames(b)
  BY DEF readEndDelimitedFrames, Validated, ChecksumStatus
<1>2. readStartDelimitedFrames(b)' = readStartDelimitedFrames(b)
  BY DEF readStartDelimitedFrames, Validated, ChecksumStatus
<1>3. readStartEndDelimitedFrames(b)' = readStartEndDelimitedFrames(b)
  BY DEF readStartEndDelimitedFrames, Validated, ChecksumStatus
<1>4. readFixedLengthFrames(b)' = readFixedLengthFrames(b)
  BY DEF readFixedLengthFrames, alignFixedLengthFrame, Validated, ChecksumStatus
<1> QED BY <1>1, <1>2, <1>3, <1>4 DEF ScanOutcome

(* And so does what a sequence of bytes holds. *)
LEMMA SameConfigSameFrames ==
    ASSUME Working, cfg' = cfg, NEW b \in Seq(Byte)
    PROVE  ExtractAll(b)' = ExtractAll(b)
<1> DEFINE st == [rest |-> b, got |-> <<>>]
           n  == Len(b)
<1>1. Working' /\ n \in Nat /\ n <= n
  BY LenProperties DEF Working
<1>2. PICK f : RunOf(f, st, n)
  BY <1>1, RunExists
<1>3. RunsExtract /\ RunsExtract'
  BY RunsExtractAll, PTL
<1>4. ASSUME NEW s PROVE Turn(s)' = Turn(s)
  <2>1. ScanOutcome(s.rest)' = ScanOutcome(s.rest)
    BY SameConfigSameTurn
  <2> QED BY <2>1 DEF Turn
<1>5. RunOf(f, st, n)'
  BY <1>2, <1>4 DEF RunOf
<1> HIDE DEF n
<1>6. ExtractAll(b)' = f[n].got
  BY <1>1, <1>3, <1>5 DEF RunsExtract, n
<1>7. ExtractAll(b) = f[n].got
  BY <1>1, <1>2, <1>3 DEF RunsExtract, n
<1> QED BY <1>6, <1>7

(* The invariant after a step, in terms of the state before it and what changed. *)
LEMMA ChunkInvRenewed ==
    ASSUME Working, cfg' = cfg, NEW all, all = stream', NEW b, b = Bytes(buffer'),
           NEW fs, fs = Datas(frames'),
           stats'.overflow = 0 /\ cfg.detection # "None" /\ SplitsAnywhere(cfg) =>
              /\ Continues(all, b, fs)
              /\ pc' = "idle" /\ iterations' < MaxFramesPerCall => Settled(b)
    PROVE  ChunkInv'
<1>1. ASSUME NEW s \in Seq(Byte) PROVE ExtractAll(s)' = ExtractAll(s)
  BY SameConfigSameFrames
<1>2. ASSUME Continues(all, b, fs) PROVE Continues(stream, Bytes(buffer), Datas(frames))'
  <2>1. ASSUME NEW y \in Seq(Byte), NEW w \in Seq(Byte), NEW r \in Seq(Byte),
               Joins(w, stream, y)', Joins(r, Bytes(buffer), y)'
        PROVE  ExtractAll(w)' = Datas(frames)' \o ExtractAll(r)'
    <3>1. Joins(w, all, y) /\ Joins(r, b, y)
      BY <2>1
    <3>2. ExtractAll(w) = fs \o ExtractAll(r)
      BY <1>2, <3>1 DEF Continues
    <3>3. ExtractAll(w)' = ExtractAll(w) /\ ExtractAll(r)' = ExtractAll(r)
      BY <1>1
    <3> QED BY <3>2, <3>3
  <2> QED BY <2>1 DEF Continues
<1>3. ASSUME Settled(b) PROVE Settled(Bytes(buffer))'
  BY <1>1, <1>3 DEF Settled
<1>4. SplitsAnywhere(cfg)' = SplitsAnywhere(cfg)
  BY DEF SplitsAnywhere, FinishesSplit
<1> QED BY <1>2, <1>3, <1>4 DEF ChunkInv

(* What the other invariants say of the state. *)
LEMMA StateTypes ==
    ASSUME IInv, TimingInv
    PROVE  /\ buffer \in BufferType /\ Len(buffer) \in Nat
           /\ Bytes(buffer) \in Seq(Byte) /\ Len(Bytes(buffer)) = Len(buffer)
           /\ stream \in Seq(Byte) /\ frames \in Seq(FrameType)
           /\ Datas(frames) \in Seq(Seq(Byte))
<1>1. buffer \in BufferType /\ stream \in Seq(Byte)
  BY DEF IInv, ShapeInv, BufferType
<1>2. frames \in Seq(FrameType)
  BY DEF TimingInv, FramesOf
<1> QED BY <1>1, <1>2, BytesType, DatasType, LenProperties DEF BufferType

(* A new reader has found nothing in nothing. *)
LEMMA InitChunk == Init => ChunkInv
<1> SUFFICES ASSUME Init, stats.overflow = 0 /\ cfg.detection # "None" /\ SplitsAnywhere(cfg)
             PROVE  /\ Continues(stream, Bytes(buffer), Datas(frames))
                    /\ Settled(Bytes(buffer))
  BY DEF ChunkInv
<1>1. Working
  BY DEF Init, Working
<1>2. stream = <<>> /\ Bytes(buffer) = <<>> /\ Datas(frames) = <<>>
  <2>1. Bytes(<<>>) = <<>>
    BY DEF Bytes
  <2>2. Datas(<<>>) = <<>>
    BY DEF Datas
  <2> QED BY <2>1, <2>2 DEF Init
<1>3. ASSUME NEW y \in Seq(Byte), NEW w \in Seq(Byte), NEW r \in Seq(Byte),
             Joins(w, <<>>, y), Joins(r, <<>>, y)
      PROVE  ExtractAll(w) = <<>> \o ExtractAll(r)
  <2>1. w = r
    BY <1>3 DEF Joins
  <2>2. ExtractAll(r) \in Seq(Seq(Byte))
    BY <1>1, ExtractType
  <2> QED BY <2>1, <2>2, ConcatEmptySeq
<1>4. Continues(<<>>, <<>>, <<>>)
  BY ONLY <1>3 DEF Continues
<1>5. ASSUME NEW r \in Seq(Byte), r = <<>> PROVE ExtractAll(r) = <<>>
  BY <1>1, <1>5, EmptyStops, ExtractStops
<1>6. Settled(<<>>)
  BY ONLY <1>5 DEF Settled
<1> QED BY <1>2, <1>4, <1>6

(* A chunk that fits goes behind what is buffered. *)
LEMMA ChunkArrives ==
    ASSUME IInv, TimingInv, ChunkInv, NEW data \in Chunk, ProcessChunk(data)
    PROVE  ChunkInv'
<1> DEFINE tagged == [i \in 1 .. Len(data) |-> [v |-> data[i], src |-> chunks + 1]]
           grown  == buffer \o tagged
           lost   == Overflow(grown)
           b      == Bytes(buffer')
           fs     == Datas(frames')
<1>1. /\ cfg' = cfg /\ frames' = frames /\ stream' = stream \o data /\ pc' = "scan"
      /\ buffer' = Drop(grown, lost) /\ stats' = CountChunk(Len(data), lost)
  BY DEF ProcessChunk
<1>2. data \in Seq(Byte) /\ Len(data) \in Nat /\ chunks + 1 \in Nat
  BY ChunkType DEF IInv, ShapeInv
<1>3. /\ tagged \in BufferType /\ Len(tagged) = Len(data)
      /\ \A i \in 1 .. Len(data) : tagged[i].v = data[i]
  BY <1>2, TaggedType DEF BufferType
<1> HIDE DEF tagged
<1>4. grown \in BufferType /\ Len(grown) \in Nat
  BY <1>3, StateTypes, ConcatProperties, LenProperties DEF BufferType
<1>5. Bytes(grown) = Bytes(buffer) \o data
  BY <1>2, <1>3, StateTypes, BytesConcat
<1> HIDE DEF grown
<1>6. lost \in Nat
  BY <1>4, Constants DEF Overflow
<1> HIDE DEF lost
<1>7. stats'.overflow = stats.overflow + lost /\ stats.overflow \in Nat
  <2>1. stats \in StatsType
    BY DEF IInv, ShapeInv
  <2>2. stats' = WithOverflow(stats, Len(data), lost)
    BY <1>1 DEF CountChunk, WithOverflow
  <2>3. stats.overflow \in Nat
    BY <2>1, StatsFields
  <2> QED BY <1>2, <1>6, <2>1, <2>2, <2>3, CountOverflow
<1>8. ASSUME stats'.overflow = 0, cfg.detection # "None", SplitsAnywhere(cfg)
      PROVE  Continues(stream', b, fs)
  <2>1. lost = 0 /\ stats.overflow = 0
    BY <1>6, <1>7, <1>8
  <2>2. b = Bytes(buffer) \o data
    <3>1. buffer' = grown
      BY <1>1, <1>4, <2>1, DropNothing DEF BufferType
    <3> QED BY <1>5, <3>1
  <2>3. Continues(stream, Bytes(buffer), Datas(frames))
    BY <1>8, <2>1 DEF ChunkInv
  <2> HIDE DEF b
  <2>4. Joins(stream', stream, data) /\ Joins(b, Bytes(buffer), data)
    BY <1>1, <2>2 DEF Joins
  <2>5. Continues(stream', b, Datas(frames))
    BY <1>2, <2>3, <2>4, StateTypes, ChunkContinues
  <2> QED BY <1>1, <2>5
<1> HIDE DEF b, fs
<1>9. b = Bytes(buffer') /\ fs = Datas(frames')
  BY DEF b, fs
<1>10. Working
  BY DEF ProcessChunk, Working, IInv, ShapeInv
<1> QED BY <1>1, <1>8, <1>9, <1>10, ChunkInvRenewed

(* A frame of a sequence of frames is one, also the last. *)
LEMMA AppendedFrame ==
    ASSUME NEW fs \in Seq(FrameType), NEW f, Append(fs, f) \in Seq(FrameType)
    PROVE  f \in FrameType
<1> DEFINE S == FrameType \union {f}
<1>1. fs \in Seq(S) /\ f \in S /\ Len(fs) \in Nat
  <2>1. \A i \in 1 .. Len(fs) : fs[i] \in S
    BY ElementOfSeq
  <2>2. fs \in [1 .. Len(fs) -> S] /\ Len(fs) \in Nat
    <3>1. DOMAIN fs = 1 .. Len(fs) /\ fs = [i \in 1 .. Len(fs) |-> fs[i]] /\ Len(fs) \in Nat
      BY LenProperties
    <3> HIDE DEF S
    <3> QED BY <2>1, <3>1
  <2> HIDE DEF S
  <2>3. fs \in Seq(S)
    BY <2>2, SeqDef
  <2> QED BY <2>2, <2>3 DEF S
<1>2. Len(Append(fs, f)) = Len(fs) + 1 /\ Append(fs, f)[Len(fs) + 1] = f
  <2> HIDE DEF S
  <2> QED BY <1>1, AppendProperties
<1>3. Append(fs, f)[Len(fs) + 1] \in FrameType
  <2>1. Len(fs) + 1 \in 1 .. Len(Append(fs, f))
    BY <1>1, <1>2
  <2> QED BY <2>1, ElementOfSeq
<1> QED BY <1>2, <1>3

(* What two steps take off the front is what one takes. *)
LEMMA TakenAtOnce ==
    ASSUME IInv, TimingInv, NEW skip \in Nat, NEW n \in Nat, skip + n <= Len(buffer), NEW p,
           consumeBytes(Drop(buffer, skip), p, n)
    PROVE  Bytes(buffer') = Drop(Bytes(buffer), skip + n)
<1> DEFINE d == Drop(buffer, skip)
           m == SmallerOf(n, Len(d))
<1>1. buffer \in BufferType /\ Len(buffer) \in Nat
  BY StateTypes
<1>2. skip \in 0 .. Len(buffer) /\ n \in 0 .. Len(buffer) - skip /\ skip + n \in 0 .. Len(buffer)
  BY <1>1
<1>3. Len(d) = Len(buffer) - skip
  BY <1>1, <1>2, DropType DEF BufferType
<1>4. m = n
  <2> HIDE DEF d
  <2> QED BY <1>1, <1>2, <1>3 DEF SmallerOf
<1>5. buffer' = Drop(d, m)
  BY DEF consumeBytes
<1>6. buffer' = Drop(buffer, skip + n)
  <2>1. Drop(d, n) = Drop(buffer, skip + n)
    BY <1>1, <1>2, DropDrop DEF BufferType
  <2> QED BY <1>4, <1>5, <2>1
<1>7. Bytes(Drop(buffer, skip + n)) = Drop(Bytes(buffer), skip + n)
  <2> DEFINE k == skip + n
  <2>1. k \in 0 .. Len(buffer)
    BY <1>2
  <2> HIDE DEF k
  <2>2. Bytes(Drop(buffer, k)) = Drop(Bytes(buffer), k)
    BY <1>1, <2>1, BytesDrop
  <2> QED BY <2>2 DEF k
<1> QED BY <1>6, <1>7

(* A turn of the scan loop takes off the stream what it hands on. *)
LEMMA ScanChunk ==
    ASSUME IInv, TimingInv, ChunkInv, ScanIteration
    PROVE  ChunkInv'
<1> DEFINE b   == Bytes(buffer)
           out == ScanOutcome(b)
           d   == Bytes(buffer')
           fs  == Datas(frames)
           gs  == Datas(frames')
           all == stream'
<1>1. /\ pc = "scan" /\ UNCHANGED <<cfg, chunks, stream>>
      /\ LeaveLoop(out) \/ enqueueCaptured(out) \/ DropCandidate(out)
  BY DEF ScanIteration
<1>2. Working
  BY <1>1 DEF IInv, ShapeInv, LoopInv, Working
<1>3. b \in Seq(Byte) /\ Len(b) = Len(buffer) /\ Len(buffer) \in Nat /\ fs \in Seq(Seq(Byte))
      /\ stream \in Seq(Byte) /\ frames \in Seq(FrameType)
  BY StateTypes
<1>4. OutcomeOK(out, b) /\ FrameFits(out, b)
  BY <1>2, <1>3, ScanOutcomeOK, ScanFits DEF Working
<1>5. stats \in StatsType
  BY DEF IInv, ShapeInv
<1>6. d = Bytes(buffer') /\ gs = Datas(frames') /\ all = stream' /\ all = stream
  BY <1>1
<1> HIDE DEF b, d, fs, gs, all
<1>7. ASSUME stats'.overflow = stats.overflow, stats'.overflow = 0, cfg.detection # "None",
             SplitsAnywhere(cfg)
      PROVE  Continues(all, b, fs)
  BY <1>6, <1>7 DEF ChunkInv, b, fs
<1>8. CASE LeaveLoop(out)
  <2>1. /\ consumeBytes(buffer, pending, out.skip) /\ frames' = frames /\ stats' = stats
        /\ out.kind = "break"
    BY <1>8 DEF LeaveLoop
  <2>2. Stops(b)
    BY <2>1 DEF Stops
  <2>3. d = Drop(b, out.skip)
    <3> DEFINE k == out.skip
    <3>1. k \in 0 .. Len(buffer)
      BY <1>3, <1>4 DEF OutcomeOK
    <3> HIDE DEF out, k
    <3>2. buffer' = Drop(buffer, SmallerOf(k, Len(buffer)))
      BY <2>1 DEF consumeBytes, k
    <3>3. SmallerOf(k, Len(buffer)) = k
      BY <1>3, <3>1 DEF SmallerOf
    <3>4. Bytes(Drop(buffer, k)) = Drop(Bytes(buffer), k)
      BY <3>1, StateTypes, BytesDrop
    <3> QED BY <1>6, <3>2, <3>3, <3>4 DEF k, b
  <2>4. ASSUME stats'.overflow = 0, cfg.detection # "None", SplitsAnywhere(cfg)
        PROVE  Continues(all, d, fs) /\ Settled(d)
    <3>1. Continues(all, b, fs)
      BY <1>7, <2>1, <2>4
    <3> QED BY <1>2, <1>3, <1>6, <2>2, <2>3, <2>4, <3>1, WaitContinues
  <2>5. gs = fs
    BY <1>6, <2>1 DEF fs
  <2> QED BY <1>1, <1>2, <1>6, <2>4, <2>5, ChunkInvRenewed
<1>9. ASSUME out.kind # "break", gs = fs \o Found(b), stats'.overflow = stats.overflow,
             NEW p, consumeBytes(Drop(buffer, out.skip), p, out.n),
             NEW added, EndIteration(added)
      PROVE  ChunkInv'
  <2>1. ~Stops(b)
    BY <1>9 DEF Stops
  <2>2. out.skip \in Nat /\ out.n \in Nat
    BY <1>3, <1>4 DEF OutcomeOK
  <2>3. ~(pc' = "idle" /\ iterations' < MaxFramesPerCall)
    <3>1. pc' = "idle" => iterations + 1 = MaxFramesPerCall
      BY <1>9 DEF EndIteration
    <3>2. iterations' = iterations + 1
      BY <1>9 DEF EndIteration
    <3> QED BY <3>1, <3>2, Constants
  <2>4. ASSUME stats'.overflow = 0, cfg.detection # "None", SplitsAnywhere(cfg)
        PROVE  Continues(all, d, gs)
    <3>1. Continues(all, b, fs)
      BY <1>7, <1>9, <2>4
    <3>2. out.skip + out.n \in 0 .. Len(b)
      <4>1. Resumes(b, <<>>)
        <5>1. <<>> \in Seq(Byte)
          OBVIOUS
        <5> QED BY <1>2, <1>3, <2>1, <2>4, <5>1, TurnResumes
      <4> QED BY <4>1 DEF Resumes
    <3>3. d = Drop(b, out.skip + out.n)
      <4> DEFINE k == out.skip
                 n == out.n
      <4>1. k \in Nat /\ n \in Nat /\ k + n <= Len(buffer) /\ consumeBytes(Drop(buffer, k), p, n)
        BY <1>3, <1>9, <2>2, <3>2
      <4> HIDE DEF out, k, n
      <4>2. Bytes(buffer') = Drop(Bytes(buffer), k + n)
        BY <4>1, TakenAtOnce
      <4> QED BY <1>6, <4>2 DEF k, n, b
    <3> QED BY <1>2, <1>3, <1>6, <1>9, <2>1, <2>4, <3>1, <3>3, TurnContinues
  <2> QED BY <1>1, <1>2, <1>6, <2>3, <2>4, ChunkInvRenewed
<1>10. CASE enqueueCaptured(out)
  <2> DEFINE a == Drop(buffer, out.skip)
             p == discardPendingBytes(pending, out.skip)
             r == StampRecord(p, out.n)
             f == [data |-> out.data, src |-> p[r].src, nth |-> p[r].next, last |-> a[out.n].src]
  <2>1. /\ out.kind = "frame" /\ frames' = Append(frames, f) /\ stats' = WithFrame(stats, 0)
        /\ consumeBytes(a, [p EXCEPT ![r].next = @ + 1], out.n) /\ EndIteration(1)
    BY <1>10, RoomInLoop DEF enqueueCaptured, Enqueue, WithFrame
  <2>2. f.data = out.data
    OBVIOUS
  <2> HIDE DEF f
  <2>3. f \in FrameType
    <3>1. TimingInv'
      BY ScanTiming
    <3>2. frames' \in Seq(FrameType)
      BY <3>1 DEF TimingInv, FramesOf
    <3> QED BY <1>3, <2>1, <3>2, AppendedFrame
  <2>4. gs = fs \o <<out.data>>
    BY <1>3, <1>6, <2>1, <2>2, <2>3, DatasAppend DEF fs
  <2>5. Found(b) = <<out.data>>
    BY <2>1 DEF Found
  <2>6. stats'.overflow = stats.overflow
    BY <1>5, <2>1, CountFrame
  <2> QED BY <1>9, <2>1, <2>4, <2>5, <2>6
<1>11. CASE DropCandidate(out)
  <2> DEFINE e == IF out.kind = "reject" THEN 1 ELSE 0
             p == discardPendingBytes(pending, out.skip)
  <2>1. /\ out.kind \in {"drop", "reject"} /\ frames' = frames /\ stats' = WithErrors(stats, e)
        /\ consumeBytes(Drop(buffer, out.skip), p, out.n) /\ EndIteration(0)
    BY <1>11 DEF DropCandidate, WithErrors
  <2>2. e \in Nat
    OBVIOUS
  <2> HIDE DEF e
  <2>3. stats'.overflow = stats.overflow
    BY <1>5, <2>1, <2>2, CountError
  <2>4. Found(b) = <<>>
    BY <2>1 DEF Found
  <2>5. gs = fs \o Found(b)
    <3>1. fs \o <<>> = fs
      BY <1>3, ConcatEmptySeq
    <3>2. gs = fs
      BY <1>6, <2>1 DEF fs
    <3> QED BY <2>4, <3>1, <3>2
  <2> QED BY <1>9, <2>1, <2>3, <2>5
<1> QED BY <1>1, <1>8, <1>10, <1>11

(* Every step keeps what was found and what is buffered in step with the stream. *)
LEMMA NextChunk ==
    ASSUME IInv, TimingInv, ChunkInv, [Next]_vars
    PROVE  ChunkInv'
<1>1. CASE \E data \in Chunk : ProcessRawChunk(data)
  BY <1>1 DEF ProcessRawChunk, ChunkInv
<1>2. CASE \E data \in Chunk : ProcessChunk(data)
  BY <1>2, ChunkArrives
<1>3. CASE ScanIteration
  BY <1>3, ScanChunk
<1>4. CASE UNCHANGED vars
  <2>1. UNCHANGED <<cfg, buffer, stream, frames, stats, pc, iterations>>
    BY <1>4 DEF vars
  <2>2. CASE cfg.detection = "None"
    BY <2>1, <2>2 DEF ChunkInv
  <2>3. CASE cfg.detection # "None"
    <3> DEFINE all == stream'
               b   == Bytes(buffer')
               fs  == Datas(frames')
    <3>1. Working
      BY <2>3 DEF IInv, ShapeInv, Working
    <3>2. ASSUME stats'.overflow = 0, SplitsAnywhere(cfg)
          PROVE  /\ Continues(all, b, fs)
                 /\ pc' = "idle" /\ iterations' < MaxFramesPerCall => Settled(b)
      BY <2>1, <2>3, <3>2 DEF ChunkInv
    <3>3. all = stream' /\ b = Bytes(buffer') /\ fs = Datas(frames')
      OBVIOUS
    <3> HIDE DEF all, b, fs
    <3> QED BY <2>1, <3>1, <3>2, <3>3, ChunkInvRenewed
  <2> QED BY <2>2, <2>3
<1> QED BY <1>1, <1>2, <1>3, <1>4 DEF Next

(* The frames found are those of the stream, in every state of the reader. *)
THEOREM ChunkInvariance == Spec => [](IInv /\ TimingInv /\ ChunkInv)
<1>1. Init => IInv /\ TimingInv /\ ChunkInv
  BY InitIInv, InitTiming, InitChunk
<1>2. IInv /\ TimingInv /\ ChunkInv /\ [Next]_vars => IInv' /\ TimingInv' /\ ChunkInv'
  BY NextIInv, NextTiming, NextChunk
<1> QED BY <1>1, <1>2, PTL DEF Spec

(* For every stream and every way of cutting it into chunks, a reader whose streams
   split anywhere hands on the frames that it would find in the stream as a whole,
   once processData returns: nothing overflowed and no call ran into the limit of
   its turns.  FrameReader.cpp's four loops, with delimiters of any length and any
   checksum; what is excluded is a checksum behind a finish sequence, and finish
   sequences that overlap in a way that quick plot's line ends do not. *)
THEOREM ChunkingCorrect == Spec => [](SplitsAnywhere(cfg) => ChunkingIsInvisible)
<1>1. ASSUME IInv, TimingInv, ChunkInv, SplitsAnywhere(cfg), pc = "idle", stats.overflow = 0,
             iterations < MaxFramesPerCall, cfg.detection # "None"
      PROVE  Datas(frames) = ExtractAll(stream)
  <2> DEFINE b  == Bytes(buffer)
             fs == Datas(frames)
  <2>1. b \in Seq(Byte) /\ stream \in Seq(Byte) /\ fs \in Seq(Seq(Byte))
    BY <1>1, StateTypes
  <2>2. Continues(stream, b, fs) /\ Settled(b)
    BY <1>1 DEF ChunkInv
  <2> HIDE DEF b, fs
  <2>3. ExtractAll(b) = <<>>
    BY <2>1, <2>2 DEF Settled
  <2>4. Joins(stream, stream, <<>>) /\ Joins(b, b, <<>>) /\ <<>> \in Seq(Byte)
    BY <2>1, ConcatEmptySeq DEF Joins
  <2>5. ExtractAll(stream) = fs \o ExtractAll(b)
    BY <2>1, <2>2, <2>4 DEF Continues
  <2>6. fs \o <<>> = fs
    BY <2>1, ConcatEmptySeq
  <2> QED BY <2>3, <2>5, <2>6 DEF fs
<1>2. IInv /\ TimingInv /\ ChunkInv => (SplitsAnywhere(cfg) => ChunkingIsInvisible)
  BY <1>1 DEF ChunkingIsInvisible, Datas
<1> QED BY <1>2, ChunkInvariance, PTL
=============================================================================
