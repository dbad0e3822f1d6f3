-------------------------------- MODULE ZModem --------------------------------
(***************************************************************************)
(* The ZMODEM sender, core/Protocols/FileTransfer/ZMODEM.cpp.              *)
(*                                                                         *)
(* One action per entry point: startTransfer, cancelTransfer, a received   *)
(* header, the continuation that the event loop runs between two batches   *)
(* of subpackets, and the expiry of the single-shot timer.  A handler is   *)
(* one step of the GUI thread: an operator from the sender's state to its  *)
(* next state, with the packets it writes in the field out.                *)
(*                                                                         *)
(* A file is its size, a subpacket the range it carries; encoding and CRCs *)
(* are left out.  The byte parser is abstracted to what it makes of a      *)
(* whole header: a damaged one is dropped, a truncated one leaves the      *)
(* parser in the middle of a header, where it may swallow the next one.    *)
(***************************************************************************)
EXTENDS Integers, Sequences

CONSTANTS
    FileSizes,      \* sizes, in bytes, of the files offered for transfer
    BlockSize,      \* m_blockSize
    ChunksPerYield, \* kChunksPerYield
    MaxRetries,     \* m_maxRetries
    MaxTransfers    \* bound on the number of calls of startTransfer

ASSUME ZModemAssumptions ==
    /\ FileSizes \subseteq Nat
    /\ BlockSize \in Nat \ {0} /\ ChunksPerYield \in Nat \ {0}
    /\ MaxRetries \in Nat \ {0} /\ MaxTransfers \in Nat

(***************************************************************************)
(* The members of the class (state, m_fileSize, m_file.pos(), the offset   *)
(* of the last ZRPOS, retry count, timer running), its continuations in    *)
(* the event loop (live: of the current m_chunkGeneration, stale: of an    *)
(* earlier one), whether the parser is within a header, the packets of the *)
(* last step, and as histories the transfers begun and their verdicts.     *)
(***************************************************************************)
VARIABLE z

States == {"Idle", "SentZRQINIT", "SentZFILE", "SendingData", "SentZEOF", "SentZFIN", "Done"}
Waits  == {"SentZRQINIT", "SentZFILE", "SentZEOF", "SentZFIN"}

Packet(kind, file, pos, len) == [kind |-> kind, file |-> file, pos |-> pos, len |-> len]

isActive == z.state \notin {"Idle", "Done"}

SmallerOf(a, b) == IF a <= b THEN a ELSE b

Init == z = [state |-> "Idle", size |-> 0, pos |-> 0, offset |-> 0, retries |-> 0,
             timer |-> FALSE, live |-> 0, stale |-> 0, partial |-> FALSE, out |-> <<>>,
             starts |-> 0, failed |-> 0, ok |-> 0]

-----------------------------------------------------------------------------
(* What the handlers are made of *)

Write(x, kind, pos, len) == [x EXCEPT !.out = Append(@, Packet(kind, x.starts, pos, len))]

(* Writes a packet and waits for its answer. *)
WaitFor(x, state, kind, pos) ==
    [Write(x, kind, pos, 0) EXCEPT !.state = state, !.timer = TRUE]

sendZRQINIT(x) == WaitFor(x, "SentZRQINIT", "ZRQINIT", 0)
sendZFILE(x)   == WaitFor(x, "SentZFILE", "ZFILE", x.size)
sendZEOF(x)    == WaitFor(x, "SentZEOF", "ZEOF", x.size)
sendZFIN(x)    == WaitFor(x, "SentZFIN", "ZFIN", 0)
sendCancel(x)  == Write(x, "CAN", 0, 0)

(* The transfer is over and the file closed. *)
Failed(x)   == [x EXCEPT !.state = "Idle", !.pos = 0, !.failed = @ + 1]
Complete(x) == [x EXCEPT !.state = "Done", !.pos = 0, !.ok = @ + 1]

(* The subpackets of one turn of the event loop, at most ChunksPerYield. *)
Batch(x) ==
    LET left     == (x.size - x.pos + BlockSize - 1) \div BlockSize
        start(i) == x.pos + (i - 1) * BlockSize
    IN  [i \in 1 .. SmallerOf(ChunksPerYield, left) |->
            Packet("DATA", x.starts, start(i), SmallerOf(BlockSize, x.size - start(i)))]

WithBatch(x) ==
    LET batch == Batch(x)
    IN  [x EXCEPT !.pos = SmallerOf(@ + Len(batch) * BlockSize, x.size), !.out = @ \o batch]

(* Mutant: the rest of the file is not queued. *)
SendOneBatch(x) ==
    LET y == WithBatch(x) IN IF y.pos < y.size THEN y ELSE sendZEOF(y)

(* One batch; then a continuation is queued, or the file is at its end. *)
sendNextDataChunk(x) ==
    LET y == WithBatch(x)
    IN  IF y.pos < y.size THEN [y EXCEPT !.live = @ + 1] ELSE sendZEOF(y)

(* Mutant: the chunk generation is not advanced. *)
SeekKeepingChain(x) ==
    [Write(x, "ZDATA", x.offset, 0) EXCEPT !.state = "SendingData", !.pos = x.offset]

(* Mutant: the file is not moved to the offset asked for. *)
SeekNot(x) ==
    [Write(x, "ZDATA", x.offset, 0) EXCEPT
        !.state = "SendingData", !.live = 0, !.stale = @ + x.live]

(* A stream of its own generation: the continuation of an earlier one retires. *)
Seek(x) ==
    [Write(x, "ZDATA", x.offset, 0) EXCEPT
        !.state = "SendingData", !.pos = x.offset, !.live = 0, !.stale = @ + x.live]

sendDataSubpackets(x) == sendNextDataChunk(Seek(x))

(* The outcomes of a read that fails: what was read before it is written. *)
ReadFailures(x) ==
    LET batch == Batch(x)
    IN  {Failed([x EXCEPT !.out = @ \o SubSeq(batch, 1, k)]) : k \in 0 .. Len(batch) - 1}

(* The outcomes of a stream that fails to start: in its seek or its first batch. *)
StreamFailures(x) == {Failed([Seek(x) EXCEPT !.out = x.out])} \cup ReadFailures(Seek(x))

(* A repetition of the step that waits, after a NAK. *)
Resent(x) ==
    CASE x.state = "SentZRQINIT" -> sendZRQINIT(x)
      [] x.state = "SentZFILE"   -> sendZFILE(x)
      [] x.state = "SentZEOF"    -> sendDataSubpackets(x)
      [] OTHER                   -> x

(* A repetition of the step that waits, after a timeout. *)
Repeated(x) ==
    CASE x.state = "SentZRQINIT" -> sendZRQINIT(x)
      [] x.state = "SentZFILE"   -> sendZFILE(x)
      [] x.state = "SentZEOF"    -> sendZEOF(x)
      [] x.state = "SentZFIN"    -> sendZFIN(x)
      [] OTHER                   -> [x EXCEPT !.timer = TRUE]

(* One more error of the current step. *)
Counted(x)   == [x EXCEPT !.retries = @ + 1]

Exhausted(x) == x.retries + 1 >= MaxRetries

(* The offset of a ZRPOS, within the file. *)
Requested(x, pos) == [x EXCEPT !.offset = SmallerOf(pos, x.size)]

(* parseReceivedHeader: the timer stops whatever the header is. *)
parseReceivedHeader(x0, h) ==
    LET x == [x0 EXCEPT !.timer = FALSE]
        y == [x EXCEPT !.retries = 0]
    IN  CASE h.kind = "ZRINIT" -> CASE x.state = "SentZRQINIT" -> sendZFILE(y)
                                    [] x.state = "SentZEOF"    -> sendZFIN(y)
                                    [] OTHER                   -> y
          [] h.kind = "ZRPOS"  -> sendDataSubpackets(Requested(x, h.pos))
          [] h.kind = "ZACK"   -> y
          [] h.kind = "ZSKIP"  -> sendZFIN(x)
          [] h.kind = "ZNAK"   -> IF Exhausted(x) THEN Failed(sendCancel(Counted(x)))
                                  ELSE Resent(Counted(x))
          [] h.kind = "ZFIN"   -> Complete(Write(x, "OO", 0, 0))
          [] h.kind = "ZABORT" -> Failed(x)      \* ZCAN and ZFERR alike
          [] OTHER             -> x

(* A header that starts a stream the file does not allow. *)
HeaderFailures(x, h) ==
    CASE h.kind = "ZRPOS" -> StreamFailures(Requested(x, h.pos))
      [] h.kind = "ZNAK" /\ x.state = "SentZEOF" /\ ~Exhausted(x) -> StreamFailures(Counted(x))
      [] OTHER -> {}

-----------------------------------------------------------------------------
(* Entry points; each starts with nothing written. *)

Fresh == [z EXCEPT !.out = <<>>]

(* cancelTransfer of an active sender. *)
Cancelled(x) == [Failed(sendCancel(x)) EXCEPT !.timer = FALSE, !.partial = FALSE]

(* Mutant: the transfer that is replaced is forgotten. *)
ReplacedSilently == Fresh

(* A transfer may start in the place of one that is active. *)
Replaced == IF isActive THEN Cancelled(Fresh) ELSE Fresh

startTransfer ==
    /\ z.starts < MaxTransfers
    /\ \E size \in FileSizes :
          z' = sendZRQINIT([Replaced EXCEPT !.size = size, !.pos = 0, !.offset = 0, !.retries = 0,
                                            !.partial = FALSE, !.starts = @ + 1])

(* The file cannot be opened. *)
startUnreadable ==
    /\ z.starts < MaxTransfers
    /\ z' = [Replaced EXCEPT !.starts = @ + 1, !.failed = @ + 1]

cancelTransfer ==
    /\ isActive
    /\ z' = Cancelled(Fresh)

(* What the parser makes of the bytes of a header: one inside the rest of a
   truncated header may be swallowed by it. *)
Readings(partial, h) ==
    CASE h.kind = "garbled"   -> {"dropped"}
      [] h.kind = "truncated" -> {"unfinished"}
      [] OTHER                -> {"whole"} \cup IF partial THEN {"dropped"} ELSE {}

(* processInput, for the bytes of one header.  A file that cannot be read
   fails the transfer. *)
processInput(h) ==
    /\ isActive
    /\ \E reading \in Readings(z.partial, h) :
          LET x == [Fresh EXCEPT !.partial = (reading = "unfinished")]
          IN  IF reading = "whole"
              THEN \/ z' = parseReceivedHeader(x, h)
                   \/ z' \in HeaderFailures([x EXCEPT !.timer = FALSE], h)
              ELSE z' = x

(* The queued continuation of the current generation. *)
continueLive ==
    /\ z.live > 0
    /\ LET x == [Fresh EXCEPT !.live = @ - 1]
       IN  IF x.state = "SendingData"
           THEN z' = sendNextDataChunk(x) \/ z' \in ReadFailures(x)
           ELSE z' = x

(* The continuation of an earlier generation does nothing. *)
continueStale ==
    /\ z.stale > 0
    /\ z' = [Fresh EXCEPT !.stale = @ - 1]

handleTimeout ==
    /\ z.timer /\ isActive
    /\ LET x == [Fresh EXCEPT !.timer = FALSE]
       IN  z' = IF Exhausted(x) THEN Failed(sendCancel(Counted(x))) ELSE Repeated(Counted(x))

-----------------------------------------------------------------------------
(* Properties *)

(* Every transfer that was started and is not running any more has reported
   one verdict: cancel, the device's abort, an exhausted retry count, a failed
   read, the last ZFIN and a start over a running transfer exclude each other. *)
OneVerdictPerTransfer == z.starts = z.failed + z.ok + (IF isActive THEN 1 ELSE 0)

(* While data streams no timer runs: the stream goes on because exactly one
   continuation of its generation is queued, never none (the stream would stop
   for good) and never two (they would read the file in turns). *)
StreamHasOneDriver ==
    /\ z.live <= 1
    /\ z.state = "SendingData" => z.live = 1 /\ ~z.timer

(* File-Transmission.md:105, "the timeout for receiver responses": a sender
   that waits for an answer has its timer running. *)
TimerGuardsEveryWait == z.state \in Waits => z.timer
=============================================================================
