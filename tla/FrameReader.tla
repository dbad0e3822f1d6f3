----------------------------- MODULE FrameReader -----------------------------
(***************************************************************************)
(* Frame extraction, core/Pipeline/IO/FrameReader.cpp, over the ring of    *)
(* core/Core/CircularBuffer.h and with the synchronous drain that          *)
(* PipelineHost::routeFrames attaches to readyRead.                        *)
(*                                                                         *)
(* A chunk enters with processData (the part up to the scan loop is one    *)
(* step), every iteration of the scan loop is a step, and the iteration    *)
(* that leaves the loop also emits readyRead, whose direct connection      *)
(* drains the queue.  Nothing else runs on the processing thread between   *)
(* these steps: pc keeps the next chunk out.                               *)
(*                                                                         *)
(* Each buffered byte carries the chunk that brought it (src), which the   *)
(* code does not store: it is what the timing records in pending must      *)
(* agree with.  A time stamp is <<chunk, nth frame stamped from it>>:      *)
(* nextFrameTimestamp advances by a positive frameStep per frame.          *)
(***************************************************************************)
EXTENDS Integers, Sequences

CONSTANTS
    Byte,               \* the bytes of the stream
    Configs,            \* reader configurations, see ConfigType
    Checksum(_, _),     \* checksum of a payload, as a sequence of given length
    Capacity,           \* ring capacity: 1 MiB, one slot of which stays unused
    QueueCapacity,      \* 65536, the size of m_queue
    MaxFramesPerCall,   \* 32768, kMaxFramesPerCall
    MaxChunk,           \* bound: bytes in one chunk
    MaxStream           \* bound: bytes received in a behaviour

ASSUME CapacityAssumption == Capacity \in Nat \ {0, 1}
ASSUME QueueAssumption    == /\ QueueCapacity \in Nat
                             /\ MaxFramesPerCall \in Nat \ {0}
                             /\ MaxFramesPerCall <= QueueCapacity
ASSUME BoundsAssumption   == MaxChunk \in Nat \ {0} /\ MaxStream \in Nat

(***************************************************************************)
(* FrameConfig as the setters store it: delimiters are non-empty, a rule   *)
(* is the set of bytes it accepts and {} when its mask is zero.            *)
(***************************************************************************)
ConfigType ==
    [detection : {"End", "Start", "StartEnd", "Fixed", "None"},
     start     : Seq(Byte),
     finish    : Seq(Seq(Byte)),
     crcLen    : Nat,
     fixedLen  : Nat,
     header    : SUBSET Byte,
     body      : SUBSET Byte]

ASSUME ConfigsAssumption ==
    /\ Configs \subseteq ConfigType
    /\ \A c \in Configs :
        /\ c.detection \in {"Start", "StartEnd"} => c.start # <<>>
        /\ c.detection \in {"End", "StartEnd"} => Len(c.finish) > 0
        /\ \A i \in DOMAIN c.finish : Len(c.finish[i]) > 0

VARIABLES
    cfg,        \* the configuration, fixed for the life of a reader
    buffer,     \* m_circularBuffer: sequence of [v, src]
    pending,    \* m_pendingChunks: sequence of [src, left, next]
    pc,         \* "idle", or "scan" inside the loop of processData
    iterations, \* iterations of the current loop
    queued,     \* number of frames in m_queue
    frames,     \* history: the frames enqueued, [data, src, nth, last]
    stats,      \* m_bytesIn, m_droppedFrames, m_checksumErrors, m_totalOverflowBytes
    chunks,     \* chunks received so far
    stream,     \* history: every byte received
    consumed    \* history: bytes removed by consumeBytes

vars == <<cfg, buffer, pending, pc, iterations, queued, frames, stats, chunks, stream, consumed>>

Bytes(b)   == [i \in 1 .. Len(b) |-> b[i].v]
Drop(s, n) == SubSeq(s, n + 1, Len(s))

SmallerOf(a, b) == IF a <= b THEN a ELSE b
Lowest(S)       == CHOOSE x \in S : \A y \in S : x <= y

-----------------------------------------------------------------------------
(* Scans over the buffered bytes; offsets count from 0 as in the code. *)

MatchAt(b, i, pattern) ==
    /\ i + Len(pattern) <= Len(b)
    /\ \A k \in 1 .. Len(pattern) : b[i + k] = pattern[k]

(* findPatternKMP: first match at or after from, -1 when there is none. *)
FindPattern(b, pattern, from) ==
    LET hits == {i \in from .. Len(b) - 1 : MatchAt(b, i, pattern)}
    IN  IF hits = {} THEN -1 ELSE Lowest(hits)

(* findFirstOfPatterns: earliest position, ties to the first listed pattern. *)
FindFirstOf(b, patterns) ==
    LET at(i) == {p \in DOMAIN patterns : MatchAt(b, i, patterns[p])}
        hits  == {i \in 0 .. Len(b) - 1 : at(i) # {}}
    IN  IF hits = {} THEN [pos |-> -1, pattern |-> <<>>]
        ELSE [pos |-> Lowest(hits), pattern |-> patterns[Lowest(at(Lowest(hits)))]]

(* checksum: "ok", "error", or "incomplete" when its bytes are not all here. *)
ChecksumStatus(b, data, crcPos) ==
    CASE cfg.crcLen = 0                -> "ok"
      [] Len(b) < crcPos + cfg.crcLen  -> "incomplete"
      [] OTHER -> IF SubSeq(b, crcPos + 1, crcPos + cfg.crcLen) = Checksum(data, cfg.crcLen)
                  THEN "ok" ELSE "error"

(***************************************************************************)
(* What one iteration of a loop does: drop skip bytes, then take a frame   *)
(* and n bytes ("frame"), drop n bytes for a bad checksum ("reject") or    *)
(* for no frame ("drop"), or leave the loop ("break").                     *)
(***************************************************************************)
Outcome(kind, skip, n, data) == [kind |-> kind, skip |-> skip, n |-> n, data |-> data]
Break(skip)   == Outcome("break", skip, 0, <<>>)
DropBytes(n)  == Outcome("drop", 0, n, <<>>)

(* Mutants: a checksum still on its way counts as wrong; a candidate with a wrong
   checksum is left in the buffer. *)
IncompleteIsError(b, skip, data, crcPos, end, rejectBytes) ==
    IF ChecksumStatus(b, data, crcPos) = "ok" THEN Outcome("frame", skip, end, data)
    ELSE Outcome("reject", skip, rejectBytes, <<>>)
RejectKeepsBytes(b, skip, data, crcPos, end, rejectBytes) ==
    LET status == ChecksumStatus(b, data, crcPos) IN
    CASE status = "incomplete" -> Break(skip)
      [] status = "ok"         -> Outcome("frame", skip, end, data)
      [] OTHER                 -> Outcome("reject", skip, 0, <<>>)

(* The verdict on a candidate after skip bytes have been dropped. *)
Validated(b, skip, data, crcPos, end, rejectBytes) ==
    LET status == ChecksumStatus(b, data, crcPos) IN
    CASE status = "incomplete" -> Break(skip)
      [] status = "ok"         -> Outcome("frame", skip, end, data)
      [] OTHER                 -> Outcome("reject", skip, rejectBytes, <<>>)

readEndDelimitedFrames(b) ==
    LET hit    == FindFirstOf(b, cfg.finish)
        crcPos == hit.pos + Len(hit.pattern)
        end    == crcPos + cfg.crcLen
    IN  CASE hit.pos = -1 -> Break(0)
          [] hit.pos = 0  -> DropBytes(end)
          [] OTHER        -> Validated(b, 0, SubSeq(b, 1, hit.pos), crcPos, end, end)

readStartDelimitedFrames(b) ==
    LET first == FindPattern(b, cfg.start, 0)
        rest  == Drop(b, first)
        head  == Len(cfg.start)
        end   == FindPattern(rest, cfg.start, head)
        crcPos == end - cfg.crcLen
    IN  IF first = -1 THEN Break(0)
        ELSE IF end = -1 THEN Break(first)
        ELSE IF crcPos <= head THEN Outcome("drop", first, end, <<>>)
        ELSE Validated(rest, first, SubSeq(rest, head + 1, crcPos), crcPos, end, end)

readStartEndDelimitedFrames(b) ==
    LET fin    == FindPattern(b, cfg.finish[1], 0)
        start  == FindPattern(b, cfg.start, 0)
        body   == start + Len(cfg.start)
        crcPos == fin + Len(cfg.finish[1])
        end    == crcPos + cfg.crcLen
    IN  IF fin = -1 THEN Break(0)
        ELSE IF start = -1 \/ start >= fin \/ fin <= body THEN DropBytes(crcPos)
        ELSE Validated(b, 0, SubSeq(b, body + 1, fin), crcPos, end, end)

(* alignFixedLengthFrame: bytes to drop before the next candidate. *)
alignFixedLengthFrame(b) ==
    LET headers == {i \in 0 .. Len(b) - 1 : b[i + 1] \in cfg.header} IN
    IF Len(b) < cfg.fixedLen \/ cfg.header = {} THEN 0
    ELSE IF headers = {} THEN Len(b) ELSE Lowest(headers)

readFixedLengthFrames(b) ==
    LET skip    == alignFixedLengthFrame(b)
        rest    == Drop(b, skip)
        payload == cfg.fixedLen - cfg.crcLen
        bad     == {i \in 1 .. payload - 1 : cfg.body # {} /\ rest[i + 1] \notin cfg.body}
    IN  IF payload <= 0 THEN Break(Len(b))
        ELSE IF Len(rest) < cfg.fixedLen THEN Break(skip)
        ELSE IF bad # {} THEN Outcome("drop", skip, Lowest(bad), <<>>)
        ELSE Validated(rest, skip, SubSeq(rest, 1, payload), payload, cfg.fixedLen,
                       IF cfg.header # {} THEN 1 ELSE cfg.fixedLen)

ScanOutcome(b) ==
    CASE cfg.detection = "End"      -> readEndDelimitedFrames(b)
      [] cfg.detection = "Start"    -> readStartDelimitedFrames(b)
      [] cfg.detection = "StartEnd" -> readStartEndDelimitedFrames(b)
      [] cfg.detection = "Fixed"    -> readFixedLengthFrames(b)

-----------------------------------------------------------------------------
(* Timing records. *)

(* Bytes described by the first i records. *)
BytesUpTo(p) ==
    LET sum[i \in 0 .. Len(p)] == IF i = 0 THEN 0 ELSE sum[i - 1] + p[i].left IN sum

(* discardPendingBytes: take n bytes off the front, popping emptied records. *)
discardPendingBytes(p, n) ==
    LET upTo == BytesUpTo(p)
        kept == {i \in 1 .. Len(p) : upTo[i] > n}
        k    == Lowest(kept)
    IN  IF kept = {} THEN <<>>
        ELSE [Drop(p, k - 1) EXCEPT ![1].left = upTo[k] - n]

(* Mutant: the byte after the frame decides. *)
StampRecordPastEnd(p, n) ==
    LET upTo == BytesUpTo(p)
        hits == {i \in 1 .. Len(p) : n < upTo[i]}
    IN  IF hits = {} THEN Len(p) ELSE Lowest(hits)

(* frameTimestamp: the record holding the last byte of a frame of n bytes;
   bytes past the last record would be charged to it. *)
StampRecord(p, n) ==
    LET upTo == BytesUpTo(p)
        hits == {i \in 1 .. Len(p) : n <= upTo[i]}
    IN  IF hits = {} THEN Len(p) ELSE Lowest(hits)

-----------------------------------------------------------------------------
Init ==
    /\ cfg \in Configs
    /\ buffer = <<>> /\ pending = <<>>
    /\ pc = "idle" /\ iterations = 0
    /\ queued = 0 /\ frames = <<>>
    /\ stats = [bytesIn |-> 0, dropped |-> 0, checksumErrors |-> 0, overflow |-> 0]
    /\ chunks = 0 /\ stream = <<>> /\ consumed = 0

(* CircularBuffer::append keeps the newest Capacity - 1 bytes. *)
Overflow(b) == IF Len(b) > Capacity - 1 THEN Len(b) - (Capacity - 1) ELSE 0

(* try_enqueue of frame into m_queue after bytes more bytes came in; a frame
   that does not fit is dropped and counted. *)
hasRoom == queued < QueueCapacity
Enqueue(frame, bytes) ==
    /\ frames' = IF hasRoom THEN Append(frames, frame) ELSE frames
    /\ stats' = [stats EXCEPT !.bytesIn = @ + bytes, !.dropped = @ + (IF hasRoom THEN 0 ELSE 1)]

(* Mutant: readyRead finds nobody connected. *)
NobodyDrains == queued' = queued

(* routeFrames: readyRead drains the whole queue before processData returns. *)
routeFrames == queued' = 0

Chunk == UNION {[1 .. n -> Byte] : n \in 1 .. MaxChunk}

(* processData without delimiters: the chunk is the frame, then readyRead. *)
ProcessRawChunk(data) ==
    /\ pc = "idle" /\ cfg.detection = "None"
    /\ Len(stream) + Len(data) <= MaxStream
    /\ chunks' = chunks + 1
    /\ stream' = stream \o data
    /\ consumed' = consumed + Len(data)
    /\ Enqueue([data |-> data, src |-> chunks + 1, nth |-> 0, last |-> chunks + 1], Len(data))
    /\ routeFrames
    /\ UNCHANGED <<cfg, buffer, pending, pc, iterations>>

(* Mutant: the overflow is taken off the old records, then the chunk is recorded. *)
OverflowBeforeRecord(rec, lost) == Append(discardPendingBytes(pending, lost), rec)

(* The records after appendChunk pushed rec and the overflow was discarded. *)
RecordChunk(rec, lost) == discardPendingBytes(Append(pending, rec), lost)

(* The statistics after a chunk of n bytes of which lost did not fit. *)
CountChunk(n, lost) == [stats EXCEPT !.bytesIn = @ + n, !.overflow = @ + lost]

(* processData up to its scan loop: appendChunk and the overflow branch. *)
ProcessChunk(data) ==
    LET grown == buffer \o [i \in 1 .. Len(data) |-> [v |-> data[i], src |-> chunks + 1]]
        lost  == Overflow(grown)
        rec   == [src |-> chunks + 1, left |-> Len(data), next |-> 0]
    IN
    /\ pc = "idle" /\ cfg.detection # "None"
    /\ Len(stream) + Len(data) <= MaxStream
    /\ chunks' = chunks + 1
    /\ stream' = stream \o data
    /\ buffer' = Drop(grown, lost)
    /\ pending' = RecordChunk(rec, lost)
    /\ stats' = CountChunk(Len(data), lost)
    /\ pc' = "scan" /\ iterations' = 0
    /\ UNCHANGED <<cfg, queued, frames, consumed>>

(* consumeBytes: CircularBuffer::discard clamps to what is buffered. *)
consumeBytes(b, p, n) ==
    /\ buffer' = Drop(b, SmallerOf(n, Len(b)))
    /\ pending' = discardPendingBytes(p, n)
    /\ consumed' = consumed + (Len(buffer) - Len(buffer'))

(* The iteration found nothing more: leave the loop and emit readyRead. *)
LeaveLoop(out) ==
    /\ out.kind = "break"
    /\ consumeBytes(buffer, pending, out.skip)
    /\ pc' = "idle" /\ routeFrames
    /\ UNCHANGED <<iterations, frames, stats>>

(* The loop goes on with more frames queued, unless this was its last turn. *)
EndIteration(added) ==
    /\ iterations' = iterations + 1
    /\ IF iterations + 1 = MaxFramesPerCall
       THEN pc' = "idle" /\ routeFrames
       ELSE pc' = "scan" /\ queued' = queued + added

(* enqueueCaptured: stamp the frame, enqueue it and consume its bytes. *)
enqueueCaptured(out) ==
    LET b == Drop(buffer, out.skip)
        p == discardPendingBytes(pending, out.skip)
        r == StampRecord(p, out.n)
    IN
    /\ out.kind = "frame"
    /\ Enqueue([data |-> out.data, src |-> p[r].src, nth |-> p[r].next, last |-> b[out.n].src], 0)
    /\ consumeBytes(b, [p EXCEPT ![r].next = @ + 1], out.n)
    /\ EndIteration(IF hasRoom THEN 1 ELSE 0)

DropCandidate(out) ==
    /\ out.kind \in {"drop", "reject"}
    /\ consumeBytes(Drop(buffer, out.skip), discardPendingBytes(pending, out.skip), out.n)
    /\ stats' = [stats EXCEPT !.checksumErrors = @ + (IF out.kind = "reject" THEN 1 ELSE 0)]
    /\ EndIteration(0)
    /\ UNCHANGED frames

ScanIteration ==
    /\ pc = "scan"
    /\ LET out == ScanOutcome(Bytes(buffer)) IN
       LeaveLoop(out) \/ enqueueCaptured(out) \/ DropCandidate(out)
    /\ UNCHANGED <<cfg, chunks, stream>>

Next ==
    \/ \E data \in Chunk : ProcessRawChunk(data) \/ ProcessChunk(data)
    \/ ScanIteration

Spec == Init /\ [][Next]_vars

-----------------------------------------------------------------------------
(* Properties. *)

(* The timing records describe exactly the buffered bytes, chunk by chunk:
   whatever was consumed, rejected, clamped or lost to an overflow was taken
   off both.  It is what makes frameTimestamp charge a frame to the chunk that
   holds its last byte. *)
PendingDescribesBuffer ==
    LET upTo == BytesUpTo(pending)
        owner(i) == pending[Lowest({k \in DOMAIN pending : upTo[k] >= i})].src
    IN  /\ upTo[Len(pending)] = Len(buffer)
        /\ \A i \in DOMAIN buffer : owner(i) = buffer[i].src

(* tst_frame_reader_modes.cpp, frameTimestampComesFromTheChunkHoldingTheLastByte,
   and no two frames of a reader share a stamp: the stamps strictly increase in
   the order in which the frames are handed on. *)
StampsFollowTheLastByte ==
    /\ \A i \in DOMAIN frames : frames[i].src = frames[i].last
    /\ \A i, j \in DOMAIN frames :
          i < j => \/ frames[i].src < frames[j].src
                   \/ frames[i].src = frames[j].src /\ frames[i].nth < frames[j].nth

(* No byte vanishes without being counted: every byte received is buffered,
   consumed by the scan, or counted as overflow. *)
BytesAreAccountedFor ==
    /\ stats.bytesIn = Len(stream)
    /\ stats.bytesIn = consumed + Len(buffer) + stats.overflow

(* The loop limit keeps one call below the queue capacity and readyRead empties
   the queue before the next: no frame is ever dropped for lack of room. *)
NoFrameDropped == stats.dropped = 0

(* Every turn of the scan loop that does not end it removes a byte, so the
   loop cannot spin on the same buffer. *)
EveryTurnConsumes ==
    [][pc = "scan" /\ pc' = "scan" => Len(buffer') < Len(buffer)]_vars

(* Frames extracted when the whole stream sits in the buffer at once. *)
ExtractAll(all) ==
    LET step(s) == LET out == ScanOutcome(s.rest) IN
            IF out.kind = "break" THEN s
            ELSE [rest |-> Drop(s.rest, out.skip + SmallerOf(out.n, Len(s.rest) - out.skip)),
                  got  |-> IF out.kind = "frame" THEN Append(s.got, out.data) ELSE s.got]
        turn[k \in 0 .. Len(all)] ==
            IF k = 0 THEN [rest |-> all, got |-> <<>>] ELSE step(turn[k - 1])
    IN  turn[Len(all)].got

(* When no finish sequence of a reader can be taken for the beginning of another:
   one that occurs inside another ends with it, or starts it and leaves a rest
   that is dropped as a finish sequence of its own.  Every single sequence is
   such, and so are the three line ends of quick plot (AppState.cpp:335). *)
Agree(s, t) == MatchAt(s, 0, t) \/ MatchAt(t, 0, s)

FinishesSplit(c) ==
    \A p, q \in DOMAIN c.finish : \A at \in 0 .. Len(c.finish[p]) :
        MatchAt(c.finish[p], at, c.finish[q]) /\ at + Len(c.finish[q]) < Len(c.finish[p]) =>
            LET rest == Drop(c.finish[p], Len(c.finish[q]))
                like == {s \in DOMAIN c.finish : Agree(c.finish[s], rest)}
            IN  /\ at = 0
                /\ like # {} /\ \A s \in like : c.finish[s] = rest

(* Drivers-Network.md:50: "the FrameReader finds frames regardless of how the
   OS chunked the stream".  Once a call returns, the frames found so far are
   those of the stream taken as one chunk, if nothing overflowed and no call
   was cut short by the iteration limit. *)
ChunkingIsInvisible ==
    (pc = "idle" /\ stats.overflow = 0 /\ iterations < MaxFramesPerCall /\ cfg.detection # "None") =>
        [i \in DOMAIN frames |-> frames[i].data] = ExtractAll(stream)

(* The readers of which it holds: all but those that expect a checksum behind a
   finish sequence, and those whose finish sequences overlap in another way. *)
SplitsAnywhere(c) == c.detection = "End" => c.crcLen = 0 /\ FinishesSplit(c)
=============================================================================
