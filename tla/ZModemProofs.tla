----------------------------- MODULE ZModemProofs -----------------------------
(***************************************************************************)
(* The ZMODEM sender has one continuation and one verdict per transfer,    *)
(* for every file, subpacket and batch size, every retry limit, and every  *)
(* header a device or a damaged line may bring at any moment: nothing is   *)
(* assumed of what processInput receives.                                  *)
(*                                                                         *)
(* The handlers are operators from a sender to the next, so the lemmas are *)
(* about operators.  Running is what a handler keeps while it composes     *)
(* them; Settled is what it leaves behind, the inductive invariant.        *)
(*                                                                         *)
(* With a receiving device behind a faulty line, finished(true) comes only *)
(* when the device holds the whole file or has skipped it, after any       *)
(* number of faults.  Does sums up a step of the sender; Consistent, the   *)
(* inductive invariant, relates sender, line and device.                   *)
(***************************************************************************)
EXTENDS ZModemLink, TLAPS

(* A sender: its fields, those typed that the two properties depend on. *)
Shape(x) ==
    /\ x = [state |-> x.state, size |-> x.size, pos |-> x.pos, offset |-> x.offset,
            retries |-> x.retries, timer |-> x.timer, live |-> x.live, stale |-> x.stale,
            partial |-> x.partial, out |-> x.out, starts |-> x.starts, failed |-> x.failed,
            ok |-> x.ok]
    /\ x.state \in States /\ x.timer \in BOOLEAN
    /\ x.live \in 0 .. 1
    /\ x.starts \in Nat /\ x.failed \in Nat /\ x.ok \in Nat

(* The transfers begun that have no verdict yet. *)
Owed(x) == x.starts - x.failed - x.ok

(* In the middle of a handler: the transfer runs, the stream may be undriven. *)
Running(x) == Shape(x) /\ x.state \notin {"Idle", "Done"} /\ Owed(x) = 1

(* At the end of a handler. *)
Settled(x) ==
    /\ Shape(x)
    /\ Owed(x) = (IF x.state \notin {"Idle", "Done"} THEN 1 ELSE 0)
    /\ x.state = "SendingData" => x.live = 1 /\ ~x.timer

(* The inductive invariant. *)
IInv == Settled(z)

(* A step of a handler that moves nothing a continuation or a verdict depends on. *)
Alike(x, y) ==
    /\ Shape(y)
    /\ y.state = x.state /\ y.timer = x.timer /\ y.live = x.live
    /\ y.starts = x.starts /\ y.failed = x.failed /\ y.ok = x.ok

-----------------------------------------------------------------------------
(* What the handlers are made of *)

(* A packet is written without further effect. *)
LEMMA WriteAlike ==
  ASSUME NEW x, Shape(x), NEW kind, NEW pos, NEW len
  PROVE  Alike(x, Write(x, kind, pos, len))
<1> DEFINE o == Append(x.out, Packet(kind, x.starts, pos, len))
<1>1. Write(x, kind, pos, len) = [x EXCEPT !.out = o]
  BY DEF Write
<1> HIDE DEF o
<1> QED BY <1>1 DEF Shape, Alike

(* What is alike to a running sender runs. *)
LEMMA AlikeRuns ==
  ASSUME NEW x, NEW y, Running(x), Alike(x, y)
  PROVE  Running(y)
  BY DEF Running, Alike, Owed

(* A packet that waits for its answer sets the state and the timer. *)
LEMMA WaitForWaits ==
  ASSUME NEW x, Shape(x), NEW state \in Waits, NEW kind, NEW pos, NEW y,
         y = WaitFor(x, state, kind, pos)
  PROVE  /\ Shape(y) /\ y.state = state /\ y.live = x.live
         /\ y.starts = x.starts /\ y.failed = x.failed /\ y.ok = x.ok
<1> DEFINE w == Write(x, kind, pos, 0)
<1>1. y = [w EXCEPT !.state = state, !.timer = TRUE]
  BY DEF WaitFor
<1>2. Alike(x, w)
  BY WriteAlike
<1> HIDE DEF w
<1>3. Shape(w) /\ state \in States
  BY <1>2 DEF Alike, Waits, States
<1>4. Shape(y) /\ y.state = state /\ y.live = w.live
      /\ y.starts = w.starts /\ y.failed = w.failed /\ y.ok = w.ok
  BY <1>1, <1>3 DEF Shape
<1> QED BY <1>2, <1>4 DEF Alike

(* A handler that waits for an answer is done. *)
LEMMA WaitForSettles ==
  ASSUME NEW x, Running(x), NEW state \in Waits, NEW kind, NEW pos
  PROVE  Settled(WaitFor(x, state, kind, pos))
  BY WaitForWaits DEF Running, Settled, Owed, Waits

(* The four packets that wait. *)
LEMMA SendersSettle ==
  ASSUME NEW x, Running(x)
  PROVE  /\ Settled(sendZRQINIT(x)) /\ Settled(sendZFILE(x))
         /\ Settled(sendZEOF(x)) /\ Settled(sendZFIN(x))
  BY WaitForSettles DEF sendZRQINIT, sendZFILE, sendZEOF, sendZFIN, Waits

(* A verdict settles the transfer, whichever it is. *)
LEMMA VerdictSettles ==
  ASSUME NEW x, Running(x)
  PROVE  Settled(Failed(x)) /\ Settled(Complete(x))
<1>1. Settled(Failed(x))
  <2> DEFINE n == x.failed + 1
             start == 0
             y == [x EXCEPT !.state = "Idle", !.pos = start, !.failed = n]
  <2>1. Failed(x) = y /\ n \in Nat /\ n = x.failed + 1
    BY DEF Failed, Running, Shape
  <2> HIDE DEF n, start
  <2>2. /\ Shape(y) /\ y.state = "Idle" /\ y.failed = n
        /\ y.starts = x.starts /\ y.ok = x.ok
    BY <2>1 DEF Running, Shape, States
  <2> HIDE DEF y
  <2> QED BY <2>1, <2>2 DEF Running, Shape, Settled, Owed
<1>2. Settled(Complete(x))
  <2> DEFINE n == x.ok + 1
             start == 0
             y == [x EXCEPT !.state = "Done", !.pos = start, !.ok = n]
  <2>1. Complete(x) = y /\ n \in Nat /\ n = x.ok + 1
    BY DEF Complete, Running, Shape
  <2> HIDE DEF n, start
  <2>2. /\ Shape(y) /\ y.state = "Done" /\ y.ok = n
        /\ y.starts = x.starts /\ y.failed = x.failed
    BY <2>1 DEF Running, Shape, States
  <2> HIDE DEF y
  <2> QED BY <2>1, <2>2 DEF Running, Shape, Settled, Owed
<1> QED BY <1>1, <1>2

(* A batch moves the file and the output only. *)
LEMMA WithBatchAlike ==
  ASSUME NEW x, Shape(x)
  PROVE  Alike(x, WithBatch(x))
<1> DEFINE p == SmallerOf(x.pos + Len(Batch(x)) * BlockSize, x.size)
           o == x.out \o Batch(x)
<1>1. WithBatch(x) = [x EXCEPT !.pos = p, !.out = o]
  BY DEF WithBatch
<1> HIDE DEF p, o
<1> QED BY <1>1 DEF Shape, Alike

(* A stream without a continuation gets one, or ends with ZEOF. *)
LEMMA ChunkSettles ==
  ASSUME NEW x, Running(x), x.state = "SendingData", ~x.timer, x.live = 0
  PROVE  Settled(sendNextDataChunk(x))
<1> DEFINE y == WithBatch(x)
<1>1. Alike(x, y) /\ Running(y)
  BY WithBatchAlike, AlikeRuns DEF Running
<1>2. sendNextDataChunk(x) = IF y.pos < y.size THEN [y EXCEPT !.live = @ + 1] ELSE sendZEOF(y)
  BY DEF sendNextDataChunk
<1> HIDE DEF y
<1>3. Settled(sendZEOF(y))
  BY <1>1, SendersSettle
<1>4. Settled([y EXCEPT !.live = @ + 1])
  BY <1>1 DEF Running, Settled, Shape, Alike, Owed
<1> QED BY <1>2, <1>3, <1>4

(* A stream of its own generation has no continuation yet. *)
LEMMA SeekRuns ==
  ASSUME NEW x, Running(x), ~x.timer
  PROVE  /\ Running(Seek(x))
         /\ Seek(x).state = "SendingData" /\ ~Seek(x).timer /\ Seek(x).live = 0
<1>1. Alike(x, Write(x, "ZDATA", x.offset, 0))
  BY WriteAlike DEF Running
<1> DEFINE w == Write(x, "ZDATA", x.offset, 0)
           p == x.offset
           n == w.stale + x.live
           none == 0
           y == [w EXCEPT !.state = "SendingData", !.pos = p, !.live = none, !.stale = n]
<1>2. Seek(x) = y /\ Shape(w) /\ Alike(x, w) /\ none \in 0 .. 1 /\ none = 0
  BY <1>1 DEF Seek, Alike
<1> HIDE DEF w, p, n, none
<1>3. /\ Shape(y) /\ y.state = "SendingData" /\ y.timer = w.timer /\ y.live = 0
      /\ y.starts = w.starts /\ y.failed = w.failed /\ y.ok = w.ok
  BY <1>2 DEF Shape, States
<1> HIDE DEF y
<1> QED BY <1>2, <1>3 DEF Running, Alike, Owed

(* A stream that starts anywhere in the file is driven. *)
LEMMA StreamSettles ==
  ASSUME NEW x, Running(x), ~x.timer
  PROVE  Settled(sendDataSubpackets(x))
  BY SeekRuns, ChunkSettles DEF sendDataSubpackets

(* A read that fails ends the transfer, whatever was written before. *)
LEMMA ReadFailuresSettle ==
  ASSUME NEW x, Running(x), NEW y \in ReadFailures(x)
  PROVE  Settled(y)
<1>1. PICK k \in 0 .. Len(Batch(x)) - 1 :
          y = Failed([x EXCEPT !.out = @ \o SubSeq(Batch(x), 1, k)])
  BY DEF ReadFailures
<1> DEFINE o == x.out \o SubSeq(Batch(x), 1, k)
<1>2. y = Failed([x EXCEPT !.out = o])
  BY <1>1
<1> HIDE DEF o
<1>3. Running([x EXCEPT !.out = o])
  BY DEF Running, Shape, Owed
<1> QED BY <1>2, <1>3, VerdictSettles

(* ... and so does a stream that fails to start. *)
LEMMA StreamFailuresSettle ==
  ASSUME NEW x, Running(x), ~x.timer, NEW y \in StreamFailures(x)
  PROVE  Settled(y)
<1>1. Running(Seek(x)) /\ Running([Seek(x) EXCEPT !.out = x.out])
  <2> DEFINE s == Seek(x)
             o == x.out
  <2>1. Running(s)
    BY SeekRuns
  <2> HIDE DEF s, o
  <2>2. Running([s EXCEPT !.out = o])
    BY <2>1 DEF Running, Shape, Owed
  <2> QED BY <2>1, <2>2 DEF s, o
<1> QED BY <1>1, ReadFailuresSettle, VerdictSettles DEF StreamFailures
-----------------------------------------------------------------------------
(* The handlers *)

(* Counting an error and noting an offset are alike to what they count in. *)
LEMMA CountedAlike ==
  ASSUME NEW x, Shape(x), NEW pos
  PROVE  /\ Alike(x, Counted(x))
         /\ Alike(x, Requested(x, pos))
         /\ Alike(x, [x EXCEPT !.retries = 0])
<1> DEFINE n == x.retries + 1
           p == SmallerOf(pos, x.size)
           zero == 0
<1>1. Counted(x) = [x EXCEPT !.retries = n] /\ Requested(x, pos) = [x EXCEPT !.offset = p]
  BY DEF Counted, Requested
<1> HIDE DEF n, p, zero
<1>2. Alike(x, [x EXCEPT !.retries = n])
  BY DEF Shape, Alike
<1>3. Alike(x, [x EXCEPT !.offset = p])
  BY DEF Shape, Alike
<1>4. Alike(x, [x EXCEPT !.retries = zero])
  BY DEF Shape, Alike
<1> QED BY <1>1, <1>2, <1>3, <1>4 DEF zero

(* What a NAK repeats is settled; where it repeats nothing no timer runs. *)
LEMMA ResentSettles ==
  ASSUME NEW x, Running(x), ~x.timer, x.state = "SendingData" => x.live = 1
  PROVE  Settled(Resent(x))
  BY SendersSettle, StreamSettles DEF Resent, Running, Settled

(* What a timeout repeats is settled; a stream has no timer that could expire. *)
LEMMA RepeatedSettles ==
  ASSUME NEW x, Running(x), x.state # "SendingData"
  PROVE  Settled(Repeated(x))
<1>1. x.state \in {"SentZRQINIT", "SentZFILE", "SentZEOF", "SentZFIN"}
  BY DEF Running, Shape, States
<1> QED BY <1>1, SendersSettle DEF Repeated

(* A cancel, or the device's, after a packet that says so. *)
LEMMA GivenUpSettles ==
  ASSUME NEW x, Running(x), NEW kind
  PROVE  /\ Settled(Failed(Write(x, kind, 0, 0)))
         /\ Settled(Complete(Write(x, kind, 0, 0)))
         /\ Settled(Failed(sendCancel(x)))
<1>1. Running(Write(x, kind, 0, 0)) /\ Running(sendCancel(x))
  BY WriteAlike, AlikeRuns DEF sendCancel, Running
<1> QED BY <1>1, VerdictSettles

(* A timer that stops leaves the rest as it was. *)
LEMMA TimerStops ==
  ASSUME NEW x, Shape(x), NEW y, y = [x EXCEPT !.timer = FALSE]
  PROVE  /\ Shape(y) /\ ~y.timer /\ Owed(y) = Owed(x)
         /\ y.state = x.state /\ y.live = x.live
<1>1. /\ Shape(y) /\ ~y.timer /\ y.state = x.state /\ y.live = x.live
      /\ y.starts = x.starts /\ y.failed = x.failed /\ y.ok = x.ok
  BY DEF Shape
<1>2. Owed(y) = Owed(x)
  BY <1>1 DEF Owed
<1> QED BY <1>1, <1>2

(* A header, whatever it is: the timer stops first. *)
LEMMA HeaderSettles ==
  ASSUME NEW x0, Running(x0), x0.state = "SendingData" => x0.live = 1, NEW h
  PROVE  Settled(parseReceivedHeader(x0, h))
<1> DEFINE x == [x0 EXCEPT !.timer = FALSE]
           y == [x EXCEPT !.retries = 0]
<1>1. /\ Running(x) /\ ~x.timer
      /\ x.state = x0.state /\ x.live = x0.live
  BY TimerStops DEF Running
<1> HIDE DEF x
<1>2. Settled(x)
  BY <1>1 DEF Running, Settled
<1>3. Alike(x, y) /\ Running(y) /\ Settled(y)
  <2>1. Alike(x, y) /\ Running(y)
    BY <1>1, CountedAlike, AlikeRuns DEF Running
  <2> QED BY <2>1, <1>2 DEF Running, Settled, Alike
<1> HIDE DEF y
<1>4. Settled(sendZFILE(y)) /\ Settled(sendZFIN(y)) /\ Settled(sendZFIN(x))
  BY <1>1, <1>3, SendersSettle
<1>5. Settled(sendDataSubpackets(Requested(x, h.pos)))
  <2>1. Alike(x, Requested(x, h.pos))
    BY <1>1, CountedAlike DEF Running
  <2> QED BY <1>1, <2>1, AlikeRuns, StreamSettles DEF Alike
<1>6. Settled(Failed(sendCancel(Counted(x)))) /\ Settled(Resent(Counted(x)))
  <2>1. Alike(x, Counted(x)) /\ Running(Counted(x))
    BY <1>1, CountedAlike, AlikeRuns DEF Running
  <2>2. Settled(Failed(sendCancel(Counted(x))))
    BY <2>1, GivenUpSettles
  <2>3. Settled(Resent(Counted(x)))
    BY <1>1, <2>1, ResentSettles DEF Alike
  <2> QED BY <2>2, <2>3
<1>7. Settled(Complete(Write(x, "OO", 0, 0))) /\ Settled(Failed(x))
  BY <1>1, GivenUpSettles, VerdictSettles
<1>8. parseReceivedHeader(x0, h) \in
        {sendZFILE(y), sendZFIN(y), y, sendDataSubpackets(Requested(x, h.pos)), sendZFIN(x),
         Failed(sendCancel(Counted(x))), Resent(Counted(x)), Complete(Write(x, "OO", 0, 0)),
         Failed(x), x}
  BY DEF parseReceivedHeader, x, y
<1> QED BY <1>2, <1>3, <1>4, <1>5, <1>6, <1>7, <1>8

(* A header whose stream cannot start fails the transfer. *)
LEMMA HeaderFailuresSettle ==
  ASSUME NEW x, Running(x), ~x.timer, NEW h, NEW y \in HeaderFailures(x, h)
  PROVE  Settled(y)
<1>1. y \in StreamFailures(Requested(x, h.pos)) \/ y \in StreamFailures(Counted(x))
  BY DEF HeaderFailures
<1>2. Alike(x, Requested(x, h.pos)) /\ Alike(x, Counted(x))
  BY CountedAlike DEF Running
<1> QED BY <1>1, <1>2, AlikeRuns, StreamFailuresSettle DEF Alike
-----------------------------------------------------------------------------
(* The entry points *)

(* Where a handler begins: nothing is written yet. *)
LEMMA FreshAlike ==
  ASSUME Settled(z)
  PROVE  Alike(z, Fresh) /\ Settled(Fresh) /\ (isActive => Running(Fresh))
<1> DEFINE none == <<>>
           y == [z EXCEPT !.out = none]
<1>1. Fresh = y
  BY DEF Fresh
<1> HIDE DEF none
<1>2. Alike(z, y)
  BY DEF Settled, Shape, Alike
<1> HIDE DEF y
<1> QED BY <1>1, <1>2 DEF Alike, Settled, Running, Owed, isActive

(* cancelTransfer settles the transfer it ends. *)
LEMMA CancelledSettles ==
  ASSUME NEW x, Running(x)
  PROVE  Settled(Cancelled(x)) /\ Cancelled(x).state = "Idle"
<1> DEFINE w == sendCancel(x)
           f == Failed(w)
<1>1. Running(w) /\ Settled(f) /\ f.state = "Idle"
  <2>1. Running(w)
    BY WriteAlike, AlikeRuns DEF sendCancel, Running
  <2> HIDE DEF w
  <2>2. f.state = "Idle"
    BY <2>1 DEF Running, Shape, Failed
  <2> QED BY <2>1, <2>2, VerdictSettles
<1>2. Cancelled(x) = [f EXCEPT !.timer = FALSE, !.partial = FALSE]
  BY DEF Cancelled
<1> HIDE DEF w, f
<1> QED BY <1>1, <1>2 DEF Settled, Shape, Owed

(* Nothing runs after the transfer that is replaced, if any, was cancelled. *)
LEMMA ReplacedSettles ==
  ASSUME Settled(z)
  PROVE  Settled(Replaced) /\ Replaced.state \in {"Idle", "Done"}
<1>1. CASE isActive
  BY <1>1, FreshAlike, CancelledSettles DEF Replaced
<1>2. CASE ~isActive
  BY <1>2, FreshAlike DEF Replaced, Alike, isActive
<1> QED BY <1>1, <1>2

(* A transfer that begins owes one verdict, and waits. *)
LEMMA BegunSettles ==
  ASSUME NEW r, Settled(r), r.state \in {"Idle", "Done"}, NEW size
  PROVE  Settled(sendZRQINIT([r EXCEPT !.size = size, !.pos = 0, !.offset = 0, !.retries = 0,
                                       !.partial = FALSE, !.starts = @ + 1]))
<1> DEFINE n == r.starts + 1
           zero == 0
           y == [r EXCEPT !.size = size, !.pos = zero, !.offset = zero, !.retries = zero,
                          !.partial = FALSE, !.starts = n]
           v == sendZRQINIT(y)
<1>1. Shape(r) /\ Owed(r) = 0 /\ n \in Nat /\ n = r.starts + 1
  BY DEF Settled, Shape
<1> HIDE DEF n, zero
<1>2. Shape(r) /\ n \in Nat
  BY <1>1
<1>3. Shape(y) /\ y.starts = n /\ y.failed = r.failed /\ y.ok = r.ok
  <2>1. ASSUME NEW w, w = y
        PROVE  Shape(w) /\ w.starts = n /\ w.failed = r.failed /\ w.ok = r.ok
    BY <1>2, <2>1 DEF Shape
  <2> QED BY <2>1
<1> HIDE DEF y
<1>4. Shape(v) /\ v.state = "SentZRQINIT" /\ v.starts = n /\ v.failed = r.failed /\ v.ok = r.ok
  BY <1>3, WaitForWaits DEF sendZRQINIT, Waits
<1> HIDE DEF v
<1>5. Owed(v) = 1
  BY <1>1, <1>4 DEF Owed, Shape
<1>6. Settled(v)
  BY <1>4, <1>5 DEF Settled
<1> QED BY <1>6 DEF v, y, n, zero

(* A file that does not open has its verdict at once. *)
LEMMA RefusedSettles ==
  ASSUME NEW r, Settled(r), r.state \in {"Idle", "Done"}
  PROVE  Settled([r EXCEPT !.starts = @ + 1, !.failed = @ + 1])
<1> DEFINE n == r.starts + 1
           m == r.failed + 1
           y == [r EXCEPT !.starts = n, !.failed = m]
<1>1. /\ Shape(r) /\ Owed(r) = 0
      /\ n \in Nat /\ n = r.starts + 1 /\ m \in Nat /\ m = r.failed + 1
  BY DEF Settled, Shape
<1> HIDE DEF n, m
<1>2. Shape(r) /\ n \in Nat /\ m \in Nat
  BY <1>1
<1>3. Shape(y) /\ y.state = r.state /\ y.starts = n /\ y.failed = m /\ y.ok = r.ok
  <2>1. ASSUME NEW w, w = y
        PROVE  Shape(w) /\ w.state = r.state /\ w.starts = n /\ w.failed = m /\ w.ok = r.ok
    BY <1>2, <2>1 DEF Shape
  <2> QED BY <2>1
<1> HIDE DEF y
<1>4. Owed(y) = 0
  BY <1>1, <1>3 DEF Owed, Shape
<1>5. Settled(y)
  BY <1>3, <1>4 DEF Settled
<1> QED BY <1>5 DEF y, n, m

(* startTransfer, whether the file opens or not. *)
LEMMA StartSettles ==
  ASSUME Settled(z), startTransfer \/ startUnreadable
  PROVE  Settled(z')
<1> DEFINE r == Replaced
<1>1. Settled(r) /\ r.state \in {"Idle", "Done"}
  BY ReplacedSettles
<1>2. CASE startTransfer
  <2>1. PICK size \in FileSizes :
           z' = sendZRQINIT([r EXCEPT !.size = size, !.pos = 0, !.offset = 0, !.retries = 0,
                                      !.partial = FALSE, !.starts = @ + 1])
    BY <1>2 DEF startTransfer
  <2> HIDE DEF r
  <2> QED BY <1>1, <2>1, BegunSettles
<1>3. CASE startUnreadable
  <2>1. z' = [r EXCEPT !.starts = @ + 1, !.failed = @ + 1]
    BY <1>3 DEF startUnreadable
  <2> HIDE DEF r
  <2> QED BY <1>1, <2>1, RefusedSettles
<1> QED BY <1>2, <1>3

(* cancelTransfer *)
LEMMA CancelSettles ==
  ASSUME Settled(z), cancelTransfer
  PROVE  Settled(z')
  BY FreshAlike, CancelledSettles DEF cancelTransfer

(* processInput, whatever the bytes were. *)
LEMMA InputSettles ==
  ASSUME Settled(z), NEW h, processInput(h)
  PROVE  Settled(z')
<1>1. isActive /\ Alike(z, Fresh) /\ Running(Fresh)
  BY FreshAlike DEF processInput
<1>2. PICK reading \in Readings(z.partial, h) :
        LET x == [Fresh EXCEPT !.partial = (reading = "unfinished")]
        IN  IF reading = "whole"
            THEN z' = parseReceivedHeader(x, h)
                 \/ z' \in HeaderFailures([x EXCEPT !.timer = FALSE], h)
            ELSE z' = x
  BY DEF processInput
<1> DEFINE f == Fresh
           b == (reading = "unfinished")
           x == [f EXCEPT !.partial = b]
           y == [x EXCEPT !.timer = FALSE]
<1>3. \/ z' = parseReceivedHeader(x, h)
      \/ z' \in HeaderFailures(y, h)
      \/ z' = x
  BY <1>2
<1> HIDE DEF f, b
<1>4. Alike(f, x)
  BY <1>1 DEF f, Running, Shape, Alike
<1>5. Running(x) /\ (x.state = "SendingData" => x.live = 1 /\ ~x.timer)
  BY <1>1, <1>4, AlikeRuns DEF f, Alike, Settled
<1> HIDE DEF x
<1>6. Running(y) /\ ~y.timer
  BY <1>5, TimerStops DEF Running
<1> HIDE DEF y
<1>7. Settled(x)
  BY <1>5 DEF Running, Settled
<1> QED BY <1>3, <1>5, <1>6, <1>7, HeaderSettles, HeaderFailuresSettle

(* The continuations: that of the current generation goes on with the stream, if
   there still is one, and any other does nothing. *)
LEMMA ContinueSettles ==
  ASSUME Settled(z), continueLive \/ continueStale
  PROVE  Settled(z')
<1> DEFINE f == Fresh
           n == f.live - 1
           m == f.stale - 1
           x == [f EXCEPT !.live = n]
           y == [f EXCEPT !.stale = m]
<1>1. Settled(f) /\ Alike(z, f)
  BY FreshAlike
<1>2. CASE continueLive
  <2>1. n = 0 /\ n \in 0 .. 1
    BY <1>1, <1>2 DEF continueLive, Alike, Settled, Shape
  <2>2. IF x.state = "SendingData" THEN z' = sendNextDataChunk(x) \/ z' \in ReadFailures(x)
        ELSE z' = x
    BY <1>2 DEF continueLive
  <2> HIDE DEF f, n
  <2>3. /\ Shape(x) /\ x.state = f.state /\ x.timer = f.timer /\ x.live = 0
        /\ x.starts = f.starts /\ x.failed = f.failed /\ x.ok = f.ok
    BY <1>1, <2>1 DEF Settled, Shape
  <2> HIDE DEF x
  <2>4. Owed(x) = Owed(f)
    BY <2>3 DEF Owed
  <2>5. CASE x.state = "SendingData"
    BY <1>1, <2>2, <2>3, <2>4, <2>5, ChunkSettles, ReadFailuresSettle DEF Settled, Running
  <2>6. CASE x.state # "SendingData"
    BY <1>1, <2>2, <2>3, <2>4, <2>6 DEF Settled
  <2> QED BY <2>5, <2>6
<1>3. CASE continueStale
  <2>1. z' = y
    BY <1>3 DEF continueStale
  <2> HIDE DEF f, m
  <2>2. Alike(f, y)
    BY <1>1 DEF Settled, Shape, Alike
  <2> HIDE DEF y
  <2> QED BY <1>1, <2>1, <2>2 DEF Settled, Alike, Owed
<1> QED BY <1>2, <1>3

(* handleTimeout *)
LEMMA TimeoutSettles ==
  ASSUME Settled(z), handleTimeout
  PROVE  Settled(z')
<1> DEFINE f == Fresh
           x == [f EXCEPT !.timer = FALSE]
<1>1. Alike(z, f) /\ Running(f) /\ f.state # "SendingData"
  BY FreshAlike DEF handleTimeout, Alike, Settled
<1>2. z' = Failed(sendCancel(Counted(x))) \/ z' = Repeated(Counted(x))
  BY DEF handleTimeout
<1> HIDE DEF f
<1>3. Running(x) /\ x.state = f.state
  BY <1>1, TimerStops DEF Running
<1> HIDE DEF x
<1>4. Running(Counted(x)) /\ Counted(x).state # "SendingData"
  <2>1. Alike(x, Counted(x))
    BY <1>3, CountedAlike DEF Running
  <2> QED BY <1>1, <1>3, <2>1, AlikeRuns DEF Alike
<1> QED BY <1>2, <1>4, GivenUpSettles, RepeatedSettles

-----------------------------------------------------------------------------
(* The sender on its line *)

(* The constructor. *)
LEMMA InitSettles == LinkInit => IInv
<1> SUFFICES ASSUME Init PROVE Settled(z)
  BY DEF LinkInit, IInv
<1> DEFINE none == <<>>
           zero == 0
<1>1. z = [state |-> "Idle", size |-> zero, pos |-> zero, offset |-> zero, retries |-> zero,
           timer |-> FALSE, live |-> zero, stale |-> zero, partial |-> FALSE, out |-> none,
           starts |-> zero, failed |-> zero, ok |-> zero]
      /\ zero = 0 /\ zero \in Nat /\ zero \in 0 .. 1
  BY DEF Init
<1> HIDE DEF none, zero
<1>2. Shape(z) /\ z.state = "Idle" /\ z.starts = zero /\ z.failed = zero /\ z.ok = zero
  BY <1>1 DEF Shape, States
<1> QED BY <1>1, <1>2 DEF Settled, Owed

(* Whatever the line and the device do, the sender settles. *)
LEMMA LinkSettles == IInv /\ [LinkNext]_linkVars => IInv'
<1> SUFFICES ASSUME Settled(z), [LinkNext]_linkVars PROVE Settled(z')
  BY DEF IInv
<1>1. CASE Start
  BY <1>1, StartSettles DEF Start
<1>2. CASE Cancel
  BY <1>2, CancelSettles DEF Cancel
<1>3. CASE Deliver
  BY <1>3, InputSettles DEF Deliver
<1>4. CASE Continue
  BY <1>4, ContinueSettles DEF Continue
<1>5. CASE SenderTimeout \/ EarlyTimeout
  BY <1>5, TimeoutSettles DEF SenderTimeout, EarlyTimeout
<1>6. CASE Receive \/ Restart \/ Damage \/ Lose \/ Repeat \/ Abort \/ UNCHANGED linkVars
  BY <1>6 DEF Receive, Restart, Damage, Lose, Repeat, Abort, linkVars
<1> QED BY <1>1, <1>2, <1>3, <1>4, <1>5, <1>6 DEF LinkNext

(* Every transfer reports one verdict, however it ends (OneVerdictPerTransfer). *)
THEOREM VerdictCorrect == LinkSpec => []OneVerdictPerTransfer
<1>1. IInv => OneVerdictPerTransfer
  BY DEF IInv, Settled, Shape, Owed, OneVerdictPerTransfer, isActive
<1> QED BY <1>1, InitSettles, LinkSettles, PTL DEF LinkSpec

(* The stream goes on through exactly one continuation, and no timer competes
   with it (StreamHasOneDriver). *)
THEOREM DriverCorrect == LinkSpec => []StreamHasOneDriver
<1>1. IInv => StreamHasOneDriver
  BY DEF IInv, Settled, Shape, StreamHasOneDriver
<1> QED BY <1>1, InitSettles, LinkSettles, PTL DEF LinkSpec

-----------------------------------------------------------------------------
(* Delivery *)

(* What is on the line *)
Packets == [kind : {"ZRQINIT", "ZFILE", "ZDATA", "DATA", "ZEOF", "ZFIN", "CAN", "OO", "damaged"},
            file : Nat, pos : Nat, len : Nat]
Headers == [kind : {"ZRINIT", "ZRPOS", "ZACK", "ZSKIP", "ZNAK", "ZFIN", "ZABORT",
                    "garbled", "truncated"},
            pos : Nat]

Devices == [phase : {"waiting", "data", "done", "stopped"}, file : Nat, stored : Nat,
            frame : BOOLEAN, exact : BOOLEAN, skipped : BOOLEAN]

(* The members of a sender *)
Members(x) ==
    x = [state |-> x.state, size |-> x.size, pos |-> x.pos, offset |-> x.offset,
         retries |-> x.retries, timer |-> x.timer, live |-> x.live, stale |-> x.stale,
         partial |-> x.partial, out |-> x.out, starts |-> x.starts, failed |-> x.failed,
         ok |-> x.ok]

(* A sender whose file stands within the file. *)
Sized(x) ==
    /\ Members(x)
    /\ x.size \in Nat /\ x.pos \in 0 .. x.size /\ x.offset \in 0 .. x.size
    /\ x.starts \in Nat /\ x.ok \in Nat /\ x.out \in Seq(Packets)

(* The device takes data from pos where the packet p ends. *)
Reaches(p, pos) ==
    p.kind = "damaged" \/ (p.kind \in {"ZDATA", "DATA"} /\ p.pos + p.len = pos)
Expects(d, pos) == d.phase = "data" /\ d.frame => d.stored = pos

(* Every subpacket follows the one before it, or the header of its frame. *)
Linked(s) == \A i \in 2 .. Len(s) : s[i].kind = "DATA" => Reaches(s[i - 1], s[i].pos)

Has(s, kind) == \E i \in 1 .. Len(s) : s[i].kind = kind

(* What is known of a packet of the transfer of x *)
Fits(p, x) ==
    /\ p.kind \in {"ZFILE", "DATA"} => p.file = x.starts
    /\ p.kind \in {"ZFILE", "ZEOF"} => p.pos = x.size
    /\ p.kind = "DATA" => p.pos + p.len <= x.size
    /\ p.kind = "ZDATA" => p.len = 0

-----------------------------------------------------------------------------
(* What a step of the sender writes *)

(* A handler that has written nothing yet *)
Begins(x) ==
    /\ Sized(x) /\ x.out = <<>>
    /\ x.state = z.state /\ x.pos = z.pos /\ x.size = z.size /\ x.starts = z.starts /\ x.ok = z.ok

(* One packet, and the wait for its answer *)
Sent(x, state, kind) ==
    /\ x.state = state /\ x.size = z.size /\ x.starts = z.starts /\ x.ok = z.ok
    /\ Sized(x) /\ \E p \in Packets : p.kind = kind /\ Fits(p, x) /\ x.out = <<p>>

(* Data, up to where the file stands *)
Streaming(x) ==
    /\ Sized(x) /\ x.size = z.size /\ x.starts = z.starts /\ x.ok = z.ok
    /\ Linked(x.out)
    /\ \A i \in 1 .. Len(x.out) : x.out[i].kind \in {"ZDATA", "DATA"} /\ Fits(x.out[i], x)
    /\ x.out = <<>> => z.state = "SendingData" /\ x.pos = z.pos
    /\ x.out # <<>> => /\ Reaches(x.out[Len(x.out)], x.pos)
                       /\ x.out[1].kind = "DATA" => z.state = "SendingData" /\ x.out[1].pos = z.pos

(* A stream that goes on, or has come to the end of the file *)
Streams(x) ==
    /\ Sized(x) /\ x.size = z.size /\ x.starts = z.starts /\ x.ok = z.ok
    /\ Linked(x.out) /\ x.out # <<>>
    /\ \A i \in 1 .. Len(x.out) : x.out[i].kind \in {"ZDATA", "DATA", "ZEOF"} /\ Fits(x.out[i], x)
    /\ x.out[1].kind = "DATA" => z.state = "SendingData" /\ x.out[1].pos = z.pos
    /\ x.state \in {"SendingData", "SentZEOF"}
    /\ x.state = "SendingData" => Reaches(x.out[Len(x.out)], x.pos)

(* The transfer is over. *)
Ends(x) ==
    x.state = "Idle" /\ x.starts = z.starts /\ x.ok = z.ok /\ Sized(x) /\ ~Has(x.out, "ZFILE")

(* The constants are what a file can be cut with. *)
LEMMA Positive ==
  BlockSize \in Nat /\ BlockSize > 0 /\ ChunksPerYield \in Nat /\ ChunksPerYield > 0
  /\ FileSizes \subseteq Nat
  BY ZModemAssumptions

(* The number of blocks of a file is its size divided by theirs, rounded up. *)
LEMMA Ceiling ==
  ASSUME NEW a \in Nat, NEW b \in Nat, b > 0
  PROVE  LET q == (a + b - 1) \div b
         IN  q \in Nat /\ a <= q * b /\ (q > 0 => (q - 1) * b < a)
<1>. DEFINE n == a + b - 1
            q == n \div b
<1>1. n \in Nat
  OBVIOUS
<1>. HIDE DEF n
<1>2. q \in Int /\ q * b <= n /\ n < q * b + b
  BY <1>1
<1>. HIDE DEF q
<1>3. q >= 0
  <2>1. ASSUME q < 0 PROVE FALSE
    <3>1. q + 1 <= 0
      BY <1>2, <2>1
    <3>2. (q + 1) * b <= 0
      BY <1>2, <3>1
    <3>3. (q + 1) * b = q * b + b
      BY <1>2
    <3> QED BY <1>1, <1>2, <3>2, <3>3
  <2> QED BY <1>2, <2>1
<1>4. (q - 1) * b = q * b - b
  BY <1>2
<1> QED BY <1>2, <1>3, <1>4 DEF n, q

(* Multiples of a number grow with their factor. *)
LEMMA Times ==
  ASSUME NEW b \in Nat, NEW i \in Nat, NEW j \in Nat, i <= j
  PROVE  i * b <= j * b /\ i * b \in Nat /\ (i + 1) * b = i * b + b
  OBVIOUS

(* The subpackets of a turn: one after the other from where the file stands. *)
LEMMA BatchFits ==
  ASSUME NEW x, Sized(x)
  PROVE  LET b == Batch(x)
             p == SmallerOf(x.pos + Len(b) * BlockSize, x.size)
         IN  /\ b \in Seq(Packets) /\ p \in 0 .. x.size
             /\ \A i \in 1 .. Len(b) : b[i].kind = "DATA" /\ Fits(b[i], x)
             /\ \A i \in 2 .. Len(b) : Reaches(b[i - 1], b[i].pos)
             /\ Len(b) > 0 => b[1].pos = x.pos /\ Reaches(b[Len(b)], p)
             /\ Len(b) = 0 => p = x.pos /\ p = x.size
<1>. DEFINE a == x.size - x.pos
            left == (a + BlockSize - 1) \div BlockSize
            n == SmallerOf(ChunksPerYield, left)
            start(i) == x.pos + (i - 1) * BlockSize
            f(i) == Packet("DATA", x.starts, start(i), SmallerOf(BlockSize, x.size - start(i)))
            b == Batch(x)
            p == SmallerOf(x.pos + n * BlockSize, x.size)
<1>0. /\ x.pos \in Nat /\ x.size \in Nat /\ x.pos <= x.size /\ x.starts \in Nat /\ a \in Nat
      /\ x.pos + a = x.size /\ x.size - x.pos + BlockSize - 1 = a + BlockSize - 1
  BY DEF Sized, Members
<1>1. b = [i \in 1 .. n |-> f(i)]
  BY <1>0 DEF Batch
<1>2. left \in Nat /\ a <= left * BlockSize /\ (left > 0 => (left - 1) * BlockSize < a)
  BY <1>0, Positive, Ceiling
<1>3. n \in Nat /\ n <= left /\ (n = left \/ n < left) /\ (n = 0 => left = 0)
  BY <1>2, Positive DEF SmallerOf
<1>. HIDE DEF a, left, n, b
<1>4. Len(b) = n /\ \A i \in 1 .. n : b[i] = f(i)
  BY <1>1, <1>3
<1>5. ASSUME NEW i \in 1 .. n
      PROVE  /\ start(i) \in Nat /\ start(i) < x.size
             /\ start(i) + BlockSize = x.pos + i * BlockSize
             /\ (i - 1) * BlockSize \in Nat
  <2>1. i - 1 \in Nat /\ left - 1 \in Nat /\ i - 1 <= left - 1 /\ left > 0
    BY <1>2, <1>3
  <2>2. /\ (i - 1) * BlockSize \in Nat /\ (i - 1) * BlockSize <= (left - 1) * BlockSize
        /\ (i - 1 + 1) * BlockSize = (i - 1) * BlockSize + BlockSize
    BY <2>1, Positive, Times
  <2>3. (left - 1) * BlockSize \in Nat
    BY <2>1, Positive, Times
  <2>4. (i - 1) * BlockSize < a
    BY <1>0, <1>2, <2>1, <2>2, <2>3
  <2>5. i - 1 + 1 = i
    OBVIOUS
  <2> QED BY <1>0, <2>2, <2>4, <2>5, Positive
<1>6. ASSUME NEW i \in 1 .. n
      PROVE  /\ b[i] \in Packets /\ b[i].kind = "DATA" /\ b[i].file = x.starts
             /\ b[i].pos = start(i) /\ b[i].len = SmallerOf(BlockSize, x.size - start(i))
             /\ b[i].pos + b[i].len <= x.size
  <2>. DEFINE s == start(i)
              m == SmallerOf(BlockSize, x.size - s)
  <2>1. s \in Nat /\ m \in Nat /\ s + m <= x.size
    BY <1>0, <1>5, Positive DEF SmallerOf
  <2>2. b[i] = Packet("DATA", x.starts, s, m)
    BY <1>4
  <2>. HIDE DEF s, m
  <2>3. /\ b[i] \in Packets /\ b[i].kind = "DATA" /\ b[i].file = x.starts /\ b[i].pos = s
        /\ b[i].len = m
    BY <1>0, <2>1, <2>2 DEF Packet, Packets
  <2> QED BY <2>1, <2>3 DEF s, m
<1>7. b \in Seq(Packets)
  <2>1. b = [i \in 1 .. n |-> b[i]]
    BY <1>1
  <2>2. \A i \in 1 .. n : b[i] \in Packets
    BY <1>6
  <2> QED BY <1>3, <2>1, <2>2
<1>8. \A i \in 1 .. n : b[i].kind = "DATA" /\ Fits(b[i], x)
  BY <1>6 DEF Fits
<1>9. ASSUME NEW i \in 2 .. n PROVE Reaches(b[i - 1], b[i].pos)
  <2>1. i - 1 \in 1 .. n /\ i \in 1 .. n /\ start(i) = start(i - 1) + BlockSize
    <3>1. i - 1 \in 1 .. n /\ i \in 1 .. n
      BY <1>3
    <3>2. start(i - 1) + BlockSize = x.pos + (i - 1) * BlockSize
      BY <1>5, <3>1
    <3> QED BY <3>1, <3>2
  <2>2. start(i - 1) \in Nat /\ start(i) \in Nat /\ start(i) < x.size
    BY <1>5, <2>1
  <2>3. SmallerOf(BlockSize, x.size - start(i - 1)) = BlockSize
    BY <1>0, <2>1, <2>2, Positive DEF SmallerOf
  <2> QED BY <1>6, <2>1, <2>3 DEF Reaches
<1>10. n * BlockSize \in Nat /\ p \in 0 .. x.size
  <2>1. n * BlockSize \in Nat
    BY <1>3, Positive, Times
  <2> QED BY <1>0, <2>1 DEF SmallerOf
<1>11. ASSUME n > 0 PROVE b[1].pos = x.pos /\ Reaches(b[n], p)
  <2>1. 1 \in 1 .. n /\ n \in 1 .. n
    BY <1>3, <1>11
  <2>2. start(1) = x.pos
    BY <1>0, Positive
  <2>3. /\ start(n) \in Nat /\ start(n) < x.size /\ start(n) + BlockSize = x.pos + n * BlockSize
    BY <1>5, <2>1
  <2>4. start(n) + SmallerOf(BlockSize, x.size - start(n)) = p
    BY <1>0, <1>10, <2>3, Positive DEF SmallerOf
  <2> QED BY <1>6, <2>1, <2>2, <2>4 DEF Reaches
<1>12. ASSUME n = 0 PROVE p = x.pos /\ p = x.size
  <2>1. left * BlockSize = 0
    BY <1>3, <1>12, Positive
  <2>2. a = 0
    BY <1>0, <1>2, <2>1
  <2> QED BY <1>0, <1>12, <2>2, Positive DEF SmallerOf
<1> QED BY <1>4, <1>7, <1>8, <1>9, <1>10, <1>11, <1>12 DEF b

-----------------------------------------------------------------------------
(* Lines *)

(* What a concatenation is made of. *)
LEMMA Concat ==
  ASSUME NEW S, NEW s \in Seq(S), NEW t \in Seq(S)
  PROVE  /\ s \o t \in Seq(S) /\ Len(s) \in Nat /\ Len(t) \in Nat /\ Len(s \o t) = Len(s) + Len(t)
         /\ \A i \in 1 .. Len(s) + Len(t) :
               \/ i \in 1 .. Len(s) /\ (s \o t)[i] = s[i]
               \/ i - Len(s) \in 1 .. Len(t) /\ (s \o t)[i] = t[i - Len(s)]
         /\ \A i \in 1 .. Len(s) : (s \o t)[i] = s[i] /\ i \in 1 .. Len(s) + Len(t)
         /\ \A i \in 1 .. Len(t) : (s \o t)[Len(s) + i] = t[i]
         /\ s = <<>> <=> Len(s) = 0
         /\ s = <<>> => s \o t = t
<1>1. /\ s \o t \in Seq(S) /\ Len(s) \in Nat /\ Len(t) \in Nat /\ Len(s \o t) = Len(s) + Len(t)
      /\ \A i \in 1 .. Len(s) + Len(t) :
            (s \o t)[i] = IF i <= Len(s) THEN s[i] ELSE t[i - Len(s)]
      /\ s = <<>> <=> Len(s) = 0
  OBVIOUS
<1>2. s = <<>> => s \o t = t
  OBVIOUS
<1>3. ASSUME NEW i \in 1 .. Len(s) + Len(t)
      PROVE  \/ i \in 1 .. Len(s) /\ (s \o t)[i] = s[i]
             \/ i - Len(s) \in 1 .. Len(t) /\ (s \o t)[i] = t[i - Len(s)]
  BY <1>1
<1>4. ASSUME NEW i \in 1 .. Len(s)
      PROVE  (s \o t)[i] = s[i] /\ i \in 1 .. Len(s) + Len(t)
  BY <1>1
<1>5. ASSUME NEW i \in 1 .. Len(t)
      PROVE  (s \o t)[Len(s) + i] = t[i]
  <2>1. Len(s) + i \in 1 .. Len(s) + Len(t) /\ ~(Len(s) + i <= Len(s)) /\ Len(s) + i - Len(s) = i
    BY <1>1
  <2> QED BY <1>1, <2>1
<1> QED BY <1>1, <1>2, <1>3, <1>4, <1>5

(* A kind on a longer line was there before, or is in what was added. *)
LEMMA HasConcat ==
  ASSUME NEW q \in Seq(Packets), NEW o \in Seq(Packets), NEW k
  PROVE  Has(q \o o, k) => Has(q, k) \/ Has(o, k)
<1>. DEFINE u == q \o o
<1>1. /\ Len(u) = Len(q) + Len(o)
      /\ \A i \in 1 .. Len(q) + Len(o) :
            \/ i \in 1 .. Len(q) /\ u[i] = q[i]
            \/ i - Len(q) \in 1 .. Len(o) /\ u[i] = o[i - Len(q)]
  BY Concat
<1>. HIDE DEF u
<1>2. ASSUME Has(u, k) PROVE Has(q, k) \/ Has(o, k)
  BY <1>1, <1>2 DEF Has
<1> QED BY <1>2 DEF u

(* Two linked runs make one, if the second goes on where the first ends. *)
LEMMA Links ==
  ASSUME NEW s \in Seq(Packets), NEW t \in Seq(Packets), Linked(s), Linked(t),
         s # <<>> /\ t # <<>> /\ t[1].kind = "DATA" => Reaches(s[Len(s)], t[1].pos)
  PROVE  Linked(s \o t)
<1>. DEFINE u == s \o t
<1>1. /\ u \in Seq(Packets) /\ Len(s) \in Nat /\ Len(t) \in Nat /\ Len(u) = Len(s) + Len(t)
      /\ \A i \in 1 .. Len(s) : u[i] = s[i]
      /\ \A i \in 1 .. Len(t) : u[Len(s) + i] = t[i]
      /\ s = <<>> <=> Len(s) = 0
  BY Concat
<1>. HIDE DEF u
<1>2. SUFFICES ASSUME NEW i \in 2 .. Len(u), u[i].kind = "DATA"
               PROVE  Reaches(u[i - 1], u[i].pos)
  BY DEF Linked, u
<1>3. CASE i <= Len(s)
  <2>1. i \in 2 .. Len(s) /\ i - 1 \in 1 .. Len(s) /\ i \in 1 .. Len(s)
    BY <1>1, <1>3
  <2> QED BY <1>1, <1>2, <2>1 DEF Linked
<1>4. CASE i = Len(s) + 1
  <2>1. Len(s) \in 1 .. Len(s) /\ 1 \in 1 .. Len(t) /\ i - 1 = Len(s) /\ Len(s) # 0 /\ Len(t) # 0
    BY <1>1, <1>4
  <2>2. u[i - 1] = s[Len(s)] /\ u[i] = t[1]
    BY <1>1, <1>4, <2>1
  <2>3. s # <<>> /\ t # <<>>
    BY <1>1, <2>1
  <2> QED BY <1>2, <2>2, <2>3
<1>5. CASE i > Len(s) + 1
  <2>. DEFINE j == i - Len(s)
  <2>1. /\ j \in 2 .. Len(t) /\ j \in 1 .. Len(t) /\ j - 1 \in 1 .. Len(t)
        /\ i = Len(s) + j /\ i - 1 = Len(s) + (j - 1)
    BY <1>1, <1>5
  <2>. HIDE DEF j
  <2>2. u[i] = t[j] /\ u[i - 1] = t[j - 1]
    BY <1>1, <2>1
  <2> QED BY <1>2, <2>1, <2>2 DEF Linked
<1> QED BY <1>1, <1>3, <1>4, <1>5

(* A run of one packet. *)
LEMMA Single ==
  ASSUME NEW p
  PROVE  Len(<<p>>) = 1 /\ <<p>>[1] = p /\ Linked(<<p>>) /\ <<p>> # <<>>
         /\ (p \in Packets => <<p>> \in Seq(Packets))
         /\ \A k : Has(<<p>>, k) => p.kind = k
  BY DEF Linked, Has

-----------------------------------------------------------------------------
(* The handlers *)

(* A change of what was written changes nothing else. *)
LEMMA Rewritten ==
  ASSUME NEW x, Sized(x), NEW o \in Seq(Packets), NEW y, y = [x EXCEPT !.out = o]
  PROVE  /\ Sized(y) /\ y.state = x.state /\ y.pos = x.pos /\ y.size = x.size /\ y.offset = x.offset
         /\ y.starts = x.starts /\ y.ok = x.ok /\ y.out = o
<1>1. /\ y.state = x.state /\ y.pos = x.pos /\ y.size = x.size /\ y.offset = x.offset
      /\ y.starts = x.starts /\ y.ok = x.ok /\ y.out = o
  BY DEF Sized, Members
<1>2. Members(y)
  BY DEF Sized, Members
<1> QED BY <1>1, <1>2 DEF Sized

(* Write appends one packet and changes nothing else. *)
LEMMA Writes ==
  ASSUME NEW x, Sized(x), NEW kind, NEW pos, NEW len, Packet(kind, x.starts, pos, len) \in Packets,
         NEW y, y = Write(x, kind, pos, len)
  PROVE  /\ Sized(y) /\ y.state = x.state /\ y.pos = x.pos /\ y.size = x.size /\ y.offset = x.offset
         /\ y.starts = x.starts /\ y.out = Append(x.out, Packet(kind, x.starts, pos, len))
         /\ y.ok = x.ok /\ y.stale = x.stale /\ y.live = x.live
<1>. DEFINE o == Append(x.out, Packet(kind, x.starts, pos, len))
<1>1. y = [x EXCEPT !.out = o] /\ o \in Seq(Packets)
  BY DEF Write, Sized, Members
<1>. HIDE DEF o
<1> QED BY <1>1 DEF Sized, o, Members

(* WaitFor appends one packet and moves to the state that waits. *)
LEMMA Waiting ==
  ASSUME NEW x, Sized(x), NEW state, NEW kind, NEW pos, Packet(kind, x.starts, pos, 0) \in Packets,
         NEW y, y = WaitFor(x, state, kind, pos)
  PROVE  /\ Sized(y) /\ y.state = state /\ y.pos = x.pos /\ y.size = x.size /\ y.offset = x.offset
         /\ y.starts = x.starts /\ y.ok = x.ok
         /\ y.out = Append(x.out, Packet(kind, x.starts, pos, 0))
<1>. DEFINE w == Write(x, kind, pos, 0)
<1>1. y = [w EXCEPT !.state = state, !.timer = TRUE]
  BY DEF WaitFor
<1>2. /\ Sized(w) /\ w.pos = x.pos /\ w.size = x.size /\ w.offset = x.offset
      /\ w.starts = x.starts /\ w.ok = x.ok /\ w.out = Append(x.out, Packet(kind, x.starts, pos, 0))
  BY Writes
<1>. HIDE DEF w
<1> QED BY <1>1, <1>2 DEF Sized, Members

(* The handlers that write one packet *)
LEMMA Senders ==
  ASSUME NEW x, Begins(x)
  PROVE  /\ Sent(sendZRQINIT(x), "SentZRQINIT", "ZRQINIT")
         /\ Sent(sendZFILE(x), "SentZFILE", "ZFILE")
         /\ Sent(sendZEOF(x), "SentZEOF", "ZEOF")
         /\ Sent(sendZFIN(x), "SentZFIN", "ZFIN")
<1>0. /\ Sized(x) /\ x.starts \in Nat /\ x.size \in Nat /\ x.out = <<>>
      /\ \A p : Append(<<>>, p) = <<p>>
  BY DEF Begins, Sized, Members
<1>1. ASSUME NEW state, NEW kind \in {"ZRQINIT", "ZFILE", "ZEOF", "ZFIN"}, NEW pos \in Nat,
             kind \in {"ZFILE", "ZEOF"} => pos = x.size, NEW y, y = WaitFor(x, state, kind, pos)
      PROVE  Sent(y, state, kind)
  <2>1. Packet(kind, x.starts, pos, 0) \in Packets
    BY <1>0 DEF Packet, Packets
  <2>2. /\ Sized(y) /\ y.state = state /\ y.size = x.size /\ y.starts = x.starts /\ y.ok = x.ok
        /\ y.out = <<Packet(kind, x.starts, pos, 0)>>
    BY <1>0, <1>1, <2>1, Waiting
  <2>3. Packet(kind, x.starts, pos, 0).kind = kind /\ Fits(Packet(kind, x.starts, pos, 0), y)
    BY <1>1, <2>2 DEF Packet, Fits
  <2> QED BY <2>1, <2>2, <2>3 DEF Sent, Begins
<1> QED BY <1>0, <1>1 DEF sendZRQINIT, sendZFILE, sendZEOF, sendZFIN

(* A verdict leaves the file closed. *)
LEMMA Verdicts ==
  ASSUME NEW x, Sized(x)
  PROVE  /\ Sized(Failed(x)) /\ Failed(x).state = "Idle" /\ Failed(x).starts = x.starts
         /\ Failed(x).ok = x.ok /\ Failed(x).out = x.out
         /\ Sized(Complete(x)) /\ Complete(x).state = "Done" /\ Complete(x).starts = x.starts
         /\ Complete(x).out = x.out
<1>1. ASSUME NEW y, NEW n, y = [x EXCEPT !.state = "Idle", !.pos = 0, !.failed = n]
      PROVE  Sized(y) /\ y.state = "Idle" /\ y.starts = x.starts /\ y.ok = x.ok /\ y.out = x.out
  <2>1. /\ y.state = "Idle" /\ y.starts = x.starts /\ y.ok = x.ok /\ y.pos = 0 /\ y.size = x.size
        /\ y.offset = x.offset /\ y.out = x.out
    BY <1>1 DEF Sized, Members
  <2>2. x.size \in Nat /\ 0 \in 0 .. x.size
    BY DEF Sized, Members
  <2>3. Members(y)
    BY <1>1 DEF Sized, Members
  <2> QED BY <2>1, <2>2, <2>3 DEF Sized, Members
<1>2. ASSUME NEW y, NEW n \in Nat, y = [x EXCEPT !.state = "Done", !.pos = 0, !.ok = n]
      PROVE  Sized(y) /\ y.state = "Done" /\ y.starts = x.starts /\ y.out = x.out
  <2>1. /\ y.state = "Done" /\ y.starts = x.starts /\ y.ok = n /\ y.pos = 0 /\ y.size = x.size
        /\ y.offset = x.offset /\ y.out = x.out
    BY <1>2 DEF Sized, Members
  <2>2. x.size \in Nat /\ 0 \in 0 .. x.size
    BY DEF Sized, Members
  <2>3. Members(y)
    BY <1>2 DEF Sized, Members
  <2> QED BY <1>2, <2>1, <2>2, <2>3 DEF Sized, Members
<1>3. x.ok + 1 \in Nat
  BY DEF Sized, Members
<1> QED BY <1>1, <1>2, <1>3, Zenon DEF Failed, Complete

(* A batch appends to a stream, and reaches the end of the file if it is empty. *)
LEMMA BatchStreams ==
  ASSUME NEW x, Streaming(x), NEW y, y = WithBatch(x)
  PROVE  /\ Streaming(y) /\ y.state = x.state
         /\ y.pos < y.size => y.out # <<>>
<1>. DEFINE b == Batch(x)
            p == SmallerOf(x.pos + Len(b) * BlockSize, x.size)
            o == x.out \o b
<1>1. /\ Sized(x) /\ x.out \in Seq(Packets) /\ x.pos \in Nat /\ x.size \in Nat
      /\ b \in Seq(Packets) /\ p \in 0 .. x.size /\ Len(b) \in Nat
      /\ \A i \in 1 .. Len(b) : b[i].kind = "DATA" /\ Fits(b[i], x)
      /\ \A i \in 2 .. Len(b) : Reaches(b[i - 1], b[i].pos)
      /\ Len(b) > 0 => b[1].pos = x.pos /\ Reaches(b[Len(b)], p)
      /\ Len(b) = 0 => p = x.pos /\ p = x.size
  BY BatchFits DEF Streaming, Sized, Members
<1>2. y = [x EXCEPT !.pos = p, !.out = o]
  BY DEF WithBatch
<1>3. /\ o \in Seq(Packets) /\ Len(x.out) \in Nat /\ Len(o) = Len(x.out) + Len(b)
      /\ \A i \in 1 .. Len(x.out) + Len(b) :
            \/ i \in 1 .. Len(x.out) /\ o[i] = x.out[i]
            \/ i - Len(x.out) \in 1 .. Len(b) /\ o[i] = b[i - Len(x.out)]
      /\ \A i \in 1 .. Len(x.out) : o[i] = x.out[i]
      /\ \A i \in 1 .. Len(b) : o[Len(x.out) + i] = b[i]
      /\ x.out = <<>> <=> Len(x.out) = 0
      /\ x.out = <<>> => o = b
      /\ o = <<>> <=> Len(o) = 0
  BY <1>1, Concat
<1>4. Linked(b) /\ Linked(x.out)
  BY <1>1 DEF Linked, Streaming
<1>. HIDE DEF b, p
<1>5. Linked(o)
  <2>1. x.out # <<>> /\ b # <<>> => Reaches(x.out[Len(x.out)], b[1].pos)
    BY <1>1 DEF Streaming
  <2> QED BY <1>1, <1>4, <2>1, Links
<1>. HIDE DEF o
<1>6. /\ Sized(y) /\ y.state = x.state /\ y.size = x.size /\ y.starts = x.starts /\ y.ok = x.ok
      /\ y.pos = p /\ y.out = o
  BY <1>1, <1>2, <1>3 DEF Sized, Members
<1>7. \A i \in 1 .. Len(o) : o[i].kind \in {"ZDATA", "DATA"} /\ Fits(o[i], y)
  <2>1. \A q : Fits(q, x) => Fits(q, y)
    BY <1>6 DEF Fits
  <2>2. \A i \in 1 .. Len(x.out) : x.out[i].kind \in {"ZDATA", "DATA"} /\ Fits(x.out[i], x)
    BY DEF Streaming
  <2>3. \A i \in 1 .. Len(b) : b[i].kind = "DATA" /\ Fits(b[i], x)
    BY <1>1
  <2>4. SUFFICES ASSUME NEW i \in 1 .. Len(o)
                 PROVE  o[i].kind \in {"ZDATA", "DATA"} /\ Fits(o[i], y)
    OBVIOUS
  <2>5. \/ i \in 1 .. Len(x.out) /\ o[i] = x.out[i]
        \/ i - Len(x.out) \in 1 .. Len(b) /\ o[i] = b[i - Len(x.out)]
    BY <1>3
  <2> QED BY <2>1, <2>2, <2>3, <2>5
<1>8. CASE Len(b) = 0
  <2>1. o = x.out
    BY <1>1, <1>3, <1>8
  <2> QED BY <1>1, <1>5, <1>6, <1>7, <1>8, <2>1 DEF Streaming
<1>9. CASE Len(b) > 0
  <2>1. o # <<>> /\ Len(b) \in 1 .. Len(b) /\ 1 \in 1 .. Len(b) /\ o[Len(o)] = b[Len(b)]
    BY <1>1, <1>3, <1>9
  <2>2. Reaches(o[Len(o)], p)
    BY <1>1, <1>9, <2>1
  <2>3. CASE x.out = <<>>
    BY <1>1, <1>3, <1>5, <1>6, <1>7, <1>9, <2>1, <2>2, <2>3 DEF Streaming
  <2>4. CASE x.out # <<>>
    <3>1. 1 \in 1 .. Len(x.out) /\ o[1] = x.out[1]
      BY <1>3, <2>4
    <3> QED BY <1>5, <1>6, <1>7, <2>1, <2>2, <2>4, <3>1 DEF Streaming
  <2> QED BY <2>3, <2>4
<1> QED BY <1>1, <1>8, <1>9

(* A turn of a stream *)
LEMMA ChunkStreams ==
  ASSUME NEW x, Streaming(x), x.state = "SendingData"
  PROVE  Streams(sendNextDataChunk(x))
<1>. DEFINE y == WithBatch(x)
<1>1. Streaming(y) /\ y.state = "SendingData" /\ (y.pos < y.size => y.out # <<>>)
  BY BatchStreams
<1>2. sendNextDataChunk(x) = IF y.pos < y.size THEN [y EXCEPT !.live = @ + 1] ELSE sendZEOF(y)
  BY DEF sendNextDataChunk
<1>. HIDE DEF y
<1>3. CASE y.pos < y.size
  <2>. DEFINE n == y.live + 1
              v == [y EXCEPT !.live = n]
  <2>1. sendNextDataChunk(x) = v
    BY <1>2, <1>3
  <2>. HIDE DEF n
  <2>2. /\ Sized(v) /\ v.state = y.state /\ v.pos = y.pos /\ v.size = y.size
        /\ v.starts = y.starts /\ v.ok = y.ok /\ v.out = y.out
    BY <1>1 DEF Streaming, Sized, Members
  <2>3. \A q : Fits(q, y) => Fits(q, v)
    BY <2>2 DEF Fits
  <2>. HIDE DEF v
  <2>4. 1 \in 1 .. Len(y.out)
    BY <1>1, <1>3 DEF Streaming, Sized, Members
  <2> QED BY <1>1, <1>3, <2>1, <2>2, <2>3, <2>4 DEF Streaming, Streams
<1>4. CASE ~(y.pos < y.size)
  <2>. DEFINE e == Packet("ZEOF", y.starts, y.size, 0)
              v == sendZEOF(y)
  <2>1. e \in Packets /\ e.kind = "ZEOF" /\ e.pos = y.size /\ y.out \in Seq(Packets)
    BY <1>1 DEF Packet, Packets, Streaming, Sized, Members
  <2>2. /\ Sized(v) /\ v.state = "SentZEOF" /\ v.pos = y.pos /\ v.size = y.size
        /\ v.starts = y.starts /\ v.ok = y.ok /\ v.out = Append(y.out, e)
    BY <1>1, <2>1, Waiting DEF sendZEOF, Streaming
  <2>. HIDE DEF e, v
  <2>3. /\ v.out = y.out \o <<e>> /\ <<e>> \in Seq(Packets) /\ Linked(<<e>>) /\ Len(<<e>>) = 1
        /\ <<e>>[1] = e
    BY <2>1, <2>2, Single
  <2>4. Linked(v.out)
    BY <1>1, <2>1, <2>3, Links DEF Streaming
  <2>5. /\ Len(y.out) \in Nat /\ Len(v.out) = Len(y.out) + 1
        /\ \A i \in 1 .. Len(y.out) : v.out[i] = y.out[i]
        /\ v.out[Len(y.out) + 1] = e
        /\ y.out = <<>> <=> Len(y.out) = 0
    BY <2>1, <2>2
  <2>6. Fits(e, v) /\ \A q : Fits(q, y) => Fits(q, v)
    BY <2>1, <2>2 DEF Fits
  <2>7. \A i \in 1 .. Len(v.out) : v.out[i].kind \in {"ZDATA", "DATA", "ZEOF"} /\ Fits(v.out[i], v)
    <3>1. SUFFICES ASSUME NEW i \in 1 .. Len(v.out)
                   PROVE  v.out[i].kind \in {"ZDATA", "DATA", "ZEOF"} /\ Fits(v.out[i], v)
      OBVIOUS
    <3>2. i \in 1 .. Len(y.out) \/ i = Len(y.out) + 1
      BY <2>5
    <3> QED BY <1>1, <2>1, <2>5, <2>6, <3>2 DEF Streaming
  <2>8. v.out[1].kind = "DATA" => z.state = "SendingData" /\ v.out[1].pos = z.pos
    <3>1. CASE y.out = <<>>
      BY <2>1, <2>5, <3>1
    <3>2. CASE y.out # <<>>
      <4>1. 1 \in 1 .. Len(y.out)
        BY <2>5, <3>2
      <4> QED BY <1>1, <2>5, <3>2, <4>1 DEF Streaming
    <3> QED BY <3>1, <3>2
  <2>9. v.out # <<>>
    <3>1. Len(v.out) # 0
      BY <2>5
    <3> QED BY <3>1
  <2> QED BY <1>1, <1>2, <1>4, <2>2, <2>4, <2>7, <2>8, <2>9 DEF Streams, Streaming, v
<1> QED BY <1>3, <1>4

(* A stream starts with the header that names where it starts. *)
LEMMA SeekStreams ==
  ASSUME NEW x, Begins(x)
  PROVE  Streaming(Seek(x)) /\ Seek(x).state = "SendingData"
<1>. DEFINE w == Write(x, "ZDATA", x.offset, 0)
            p == Packet("ZDATA", x.starts, x.offset, 0)
            n == w.stale + x.live
            m == x.stale + x.live
            y == Seek(x)
<1>1. /\ Sized(x) /\ x.starts \in Nat /\ x.size \in Nat /\ x.offset \in 0 .. x.size
      /\ x.offset \in Nat
      /\ x.out = <<>> /\ x.size = z.size /\ x.starts = z.starts /\ x.ok = z.ok
  BY DEF Begins, Sized, Members
<1>2. p \in Packets /\ p.kind = "ZDATA" /\ p.pos = x.offset /\ p.len = 0
  BY <1>1 DEF Packet, Packets
<1>3. /\ Sized(w) /\ w.size = x.size /\ w.starts = x.starts /\ w.ok = x.ok /\ w.offset = x.offset
      /\ w.out = <<p>>
  <2>1. Append(<<>>, p) = <<p>>
    OBVIOUS
  <2> QED BY <1>1, <1>2, <2>1, Writes
<1>4. \E l : y = [w EXCEPT !.state = "SendingData", !.pos = x.offset, !.live = 0, !.stale = l]
  BY DEF Seek
<1>. HIDE DEF w, p, y
<1>5. PICK l : y = [w EXCEPT !.state = "SendingData", !.pos = x.offset, !.live = 0, !.stale = l]
  BY <1>4
<1>6. /\ y.state = "SendingData" /\ y.pos = x.offset /\ y.size = x.size /\ y.offset = x.offset
      /\ y.starts = x.starts /\ y.ok = x.ok /\ y.out = <<p>>
  BY <1>3, <1>5 DEF Sized, Members
<1>7. Members(y)
  BY <1>3, <1>5 DEF Sized, Members
<1>8. Len(<<p>>) = 1 /\ <<p>>[1] = p /\ Linked(<<p>>) /\ <<p>> # <<>> /\ <<p>> \in Seq(Packets)
  BY <1>2, Single
<1>9. Sized(y)
  BY <1>1, <1>6, <1>7, <1>8 DEF Sized, Members
<1>10. Fits(p, y) /\ Reaches(p, y.pos)
  BY <1>1, <1>2, <1>6 DEF Fits, Reaches
<1>11. Streaming(y)
  <2>1. \A i \in 1 .. Len(y.out) : y.out[i].kind \in {"ZDATA", "DATA"} /\ Fits(y.out[i], y)
    BY <1>2, <1>6, <1>8, <1>10
  <2>2. y.size = z.size /\ y.starts = z.starts /\ y.ok = z.ok /\ Linked(y.out) /\ y.out # <<>>
    BY <1>1, <1>6, <1>8
  <2>3. Reaches(y.out[Len(y.out)], y.pos) /\ y.out[1].kind # "DATA"
    BY <1>2, <1>6, <1>8, <1>10
  <2> QED BY <1>9, <2>1, <2>2, <2>3 DEF Streaming
<1> QED BY <1>6, <1>11 DEF y

(* Seek and the first turn of the stream together. *)
LEMMA SubpacketsStream ==
  ASSUME NEW x, Begins(x)
  PROVE  Streams(sendDataSubpackets(x))
  BY SeekStreams, ChunkStreams DEF sendDataSubpackets

(* A failed read, or a failed seek, ends the transfer. *)
LEMMA ReadsFail ==
  ASSUME NEW x, Sized(x), x.starts = z.starts, x.ok = z.ok, ~Has(x.out, "ZFILE"),
         NEW y \in ReadFailures(x)
  PROVE  Ends(y)
<1>. DEFINE b == Batch(x)
<1>1. /\ b \in Seq(Packets) /\ x.out \in Seq(Packets)
      /\ \A i \in 1 .. Len(b) : b[i].kind = "DATA"
  BY BatchFits DEF Sized, Members
<1>2. PICK k \in 0 .. Len(b) - 1 : y = Failed([x EXCEPT !.out = @ \o SubSeq(b, 1, k)])
  BY DEF ReadFailures
<1>. HIDE DEF b
<1>. DEFINE c == SubSeq(b, 1, k)
            o == x.out \o c
            w == [x EXCEPT !.out = o]
<1>3. c \in Seq(Packets) /\ ~Has(c, "ZFILE")
  <2>1. c \in Seq(Packets) /\ Len(c) = k /\ \A i \in 1 .. k : c[i] = b[i] /\ i \in 1 .. Len(b)
    BY <1>1, <1>2
  <2>. HIDE DEF c
  <2> QED BY <1>1, <2>1 DEF Has
<1>4. o \in Seq(Packets) /\ ~Has(o, "ZFILE")
  <2>. HIDE DEF c
  <2> QED BY <1>1, <1>3, Concat, HasConcat
<1>5. y = Failed(w)
  BY <1>2
<1>. HIDE DEF o
<1>6. Sized(w) /\ w.starts = z.starts /\ w.ok = z.ok /\ w.out = o
  BY <1>4, Rewritten
<1>. HIDE DEF w
<1> QED BY <1>4, <1>5, <1>6, Verdicts DEF Ends

(* A stream that fails to start ends the transfer. *)
LEMMA StreamsFail ==
  ASSUME NEW x, Begins(x), NEW y \in StreamFailures(x)
  PROVE  Ends(y)
<1>1. /\ Sized(Seek(x)) /\ Seek(x).starts = z.starts /\ Seek(x).ok = z.ok
      /\ ~Has(Seek(x).out, "ZFILE")
  BY SeekStreams DEF Streaming, Has
<1>2. x.out \in Seq(Packets) /\ ~Has(x.out, "ZFILE")
  BY DEF Begins, Sized, Has
<1>. DEFINE k == Seek(x)
            w == [k EXCEPT !.out = x.out]
<1>3. y = Failed(w) \/ y \in ReadFailures(k)
  BY DEF StreamFailures
<1>. HIDE DEF k
<1>4. Sized(w) /\ w.starts = z.starts /\ w.ok = z.ok /\ w.out = x.out
  BY <1>1, <1>2 DEF Sized, k, Members
<1>. HIDE DEF w
<1>5. CASE y = Failed(w)
  BY <1>2, <1>4, <1>5, Verdicts DEF Ends
<1>6. CASE y \in ReadFailures(k)
  BY <1>1, <1>6, ReadsFail DEF k
<1> QED BY <1>3, <1>5, <1>6

(* What a handler does before it writes *)
LEMMA Prepares ==
  ASSUME NEW x, Begins(x), NEW v, NEW pos \in Nat
  PROVE  /\ Begins([x EXCEPT !.timer = v]) /\ Begins([x EXCEPT !.retries = v])
         /\ Begins([x EXCEPT !.partial = v]) /\ Begins([x EXCEPT !.live = v])
         /\ Begins([x EXCEPT !.stale = v]) /\ Begins(Counted(x)) /\ Begins(Requested(x, pos))
<1>1. ASSUME NEW n, NEW y \in {[x EXCEPT !.timer = n], [x EXCEPT !.retries = n],
                                [x EXCEPT !.partial = n], [x EXCEPT !.live = n],
                                [x EXCEPT !.stale = n]}
      PROVE  Begins(y)
  <2>0. Sized(x)
    BY DEF Begins
  <2>1. /\ Sized(y) /\ y.state = x.state /\ y.pos = x.pos /\ y.size = x.size
        /\ y.starts = x.starts /\ y.ok = x.ok /\ y.out = x.out
    BY <2>0 DEF Sized, Members
  <2> QED BY <2>1 DEF Begins
<1>2. Begins(Counted(x))
  <2>. DEFINE n == x.retries + 1
  <2>1. Counted(x) = [x EXCEPT !.retries = n]
    BY DEF Counted
  <2>. HIDE DEF n
  <2> QED BY <1>1, <2>1
<1>3. Begins(Requested(x, pos))
  <2>. DEFINE n == SmallerOf(pos, x.size)
  <2>1. n \in 0 .. x.size /\ Requested(x, pos) = [x EXCEPT !.offset = n]
    BY DEF Begins, Sized, SmallerOf, Requested, Members
  <2>. HIDE DEF n
  <2>2. ASSUME NEW y, y = [x EXCEPT !.offset = n] PROVE Begins(y)
    <3>1. /\ y.state = x.state /\ y.pos = x.pos /\ y.size = x.size /\ y.offset = n
          /\ y.starts = x.starts /\ y.ok = x.ok /\ y.out = x.out
      BY <2>2 DEF Begins, Sized, Members
    <3>2. Members(y)
      BY <2>2 DEF Begins, Sized, Members
    <3> QED BY <2>1, <3>1, <3>2 DEF Begins, Sized, Members
  <2> QED BY <2>1, <2>2
<1> QED BY <1>1, <1>2, <1>3

(* What a step of the sender does, on a header of kind k or (k = "none") on its own *)
Does(x, k) ==
    \/ Begins(x) \/ Ends(x)
    \/ Sent(x, "SentZRQINIT", "ZRQINIT") /\ z.state = "SentZRQINIT"
    \/ Sent(x, "SentZFILE", "ZFILE") /\ z.state \in {"SentZRQINIT", "SentZFILE"}
    \/ Sent(x, "SentZEOF", "ZEOF") /\ z.state = "SentZEOF"
    \/ /\ Sent(x, "SentZFIN", "ZFIN")
       /\ z.state = "SentZFIN" \/ k = "ZSKIP" \/ (z.state = "SentZEOF" /\ k = "ZRINIT")
    \/ Streams(x) /\ (z.state \in {"SendingData", "SentZEOF"} \/ k = "ZRPOS")

(* The last ZFIN *)
Succeeds(x, k) ==
    k = "ZFIN" /\ x.state = "Done" /\ x.starts = z.starts /\ Sized(x) /\ ~Has(x.out, "ZFILE")

(* A cancel sequence, and the verdict after it, end the transfer. *)
LEMMA CancelEnds ==
  ASSUME NEW x, Begins(x)
  PROVE  Ends(Failed(sendCancel(x)))
<1>. DEFINE p == Packet("CAN", x.starts, 0, 0)
            w == sendCancel(x)
<1>1. p \in Packets /\ p.kind = "CAN" /\ Sized(x) /\ x.out = <<>> /\ Append(<<>>, p) = <<p>>
  BY DEF Begins, Sized, Packet, Packets
<1>2. Sized(w) /\ w.starts = x.starts /\ w.ok = x.ok /\ w.out = Append(x.out, p)
  BY <1>1, Writes DEF sendCancel
<1>. HIDE DEF p, w
<1>3. ~Has(w.out, "ZFILE")
  BY <1>1, <1>2, Single
<1> QED BY <1>2, <1>3, Verdicts DEF Ends, Begins, w

(* What parseReceivedHeader does with a whole header. *)
LEMMA ParsedDoes ==
  ASSUME NEW x0, Begins(x0), NEW h \in Headers, NEW p, p = parseReceivedHeader(x0, h)
  PROVE  Does(p, h.kind) \/ Succeeds(p, h.kind)
<1>. DEFINE x == [x0 EXCEPT !.timer = FALSE]
            y == [x EXCEPT !.retries = 0]
<1>1. Begins(x) /\ Begins(y) /\ Begins(Counted(x)) /\ Begins(Requested(x, h.pos)) /\ h.pos \in Nat
  <2>1. Begins(x) /\ h.pos \in Nat
    BY Prepares DEF Headers
  <2>. HIDE DEF x
  <2> QED BY <2>1, Prepares
<1>2. x.state = z.state /\ y.state = z.state /\ Counted(x).state = z.state
  BY <1>1 DEF Begins
<1>3. p = CASE h.kind = "ZRINIT" -> (CASE x.state = "SentZRQINIT" -> sendZFILE(y)
                                      [] x.state = "SentZEOF"    -> sendZFIN(y)
                                      [] OTHER                   -> y)
            [] h.kind = "ZRPOS"  -> sendDataSubpackets(Requested(x, h.pos))
            [] h.kind = "ZACK"   -> y
            [] h.kind = "ZSKIP"  -> sendZFIN(x)
            [] h.kind = "ZNAK"   -> IF Exhausted(x) THEN Failed(sendCancel(Counted(x)))
                                    ELSE Resent(Counted(x))
            [] h.kind = "ZFIN"   -> Complete(Write(x, "OO", 0, 0))
            [] h.kind = "ZABORT" -> Failed(x)
            [] OTHER             -> x
  BY DEF parseReceivedHeader
<1>. HIDE DEF x, y
<1>4. CASE h.kind = "ZRINIT"
  <2>1. CASE z.state = "SentZRQINIT"
    BY <1>1, <1>2, <1>3, <1>4, <2>1, Senders DEF Does
  <2>2. CASE z.state = "SentZEOF"
    BY <1>1, <1>2, <1>3, <1>4, <2>2, Senders DEF Does
  <2>3. CASE z.state \notin {"SentZRQINIT", "SentZEOF"}
    BY <1>1, <1>2, <1>3, <1>4, <2>3 DEF Does
  <2> QED BY <2>1, <2>2, <2>3
<1>5. CASE h.kind = "ZRPOS"
  BY <1>1, <1>3, <1>5, SubpacketsStream DEF Does
<1>6. CASE h.kind = "ZACK"
  BY <1>1, <1>3, <1>6 DEF Does
<1>7. CASE h.kind = "ZSKIP"
  BY <1>1, <1>3, <1>7, Senders DEF Does
<1>8. CASE h.kind = "ZNAK"
  <2>. DEFINE c == Counted(x)
  <2>1. CASE Exhausted(x)
    BY <1>1, <1>3, <1>8, <2>1, CancelEnds DEF Does
  <2>2. CASE ~Exhausted(x)
    <3>1. p = CASE c.state = "SentZRQINIT" -> sendZRQINIT(c)
                [] c.state = "SentZFILE"   -> sendZFILE(c)
                [] c.state = "SentZEOF"    -> sendDataSubpackets(c)
                [] OTHER                   -> c
      BY <1>3, <1>8, <2>2 DEF Resent
    <3>2. Begins(c) /\ c.state = z.state
      BY <1>1, <1>2
    <3>. HIDE DEF c
    <3>3. CASE z.state = "SentZRQINIT"
      BY <3>1, <3>2, <3>3, Senders DEF Does
    <3>4. CASE z.state = "SentZFILE"
      BY <3>1, <3>2, <3>4, Senders DEF Does
    <3>5. CASE z.state = "SentZEOF"
      BY <3>1, <3>2, <3>5, SubpacketsStream DEF Does
    <3>6. CASE z.state \notin {"SentZRQINIT", "SentZFILE", "SentZEOF"}
      BY <3>1, <3>2, <3>6 DEF Does
    <3> QED BY <3>3, <3>4, <3>5, <3>6
  <2> QED BY <2>1, <2>2
<1>9. CASE h.kind = "ZFIN"
  <2>. DEFINE o == Packet("OO", x.starts, 0, 0)
              w == Write(x, "OO", 0, 0)
  <2>1. o \in Packets /\ o.kind = "OO" /\ Sized(x) /\ x.out = <<>> /\ Append(<<>>, o) = <<o>>
    BY <1>1 DEF Begins, Sized, Packet, Packets
  <2>2. Sized(w) /\ w.starts = x.starts /\ w.out = Append(x.out, o)
    BY <2>1, Writes
  <2>3. p = Complete(w)
    BY <1>3, <1>9
  <2>. HIDE DEF o, w
  <2>4. ~Has(w.out, "ZFILE")
    BY <2>1, <2>2, Single
  <2> QED BY <1>1, <1>9, <2>2, <2>3, <2>4, Verdicts DEF Succeeds, Begins
<1>10. CASE h.kind = "ZABORT"
  <2>1. Ends(Failed(x))
    BY <1>1, Verdicts DEF Begins, Ends, Has
  <2> QED BY <1>3, <1>10, <2>1 DEF Does
<1>11. CASE h.kind \notin {"ZRINIT", "ZRPOS", "ZACK", "ZSKIP", "ZNAK", "ZFIN", "ZABORT"}
  BY <1>1, <1>3, <1>11 DEF Does
<1> QED BY <1>4, <1>5, <1>6, <1>7, <1>8, <1>9, <1>10, <1>11

(* A handler starts with nothing written. *)
LEMMA BeginsFresh ==
  ASSUME Sized(z)
  PROVE  Begins(Fresh)
<1>. DEFINE o == <<>>
<1>1. o \in Seq(Packets) /\ Fresh = [z EXCEPT !.out = o] /\ o = <<>>
  BY DEF Fresh
<1>. HIDE DEF o
<1>2. /\ Fresh.state = z.state /\ Fresh.pos = z.pos /\ Fresh.size = z.size /\ Fresh.out = o
      /\ Fresh.offset = z.offset /\ Fresh.starts = z.starts /\ Fresh.ok = z.ok
  BY <1>1 DEF Sized, Members
<1>3. Members(Fresh)
  BY <1>1 DEF Sized, Members
<1> QED BY <1>1, <1>2, <1>3 DEF Begins, Sized

(* A header that arrives *)
LEMMA HeaderDoes ==
  ASSUME Sized(z), NEW h \in Headers, processInput(h)
  PROVE  Does(z', h.kind) \/ Succeeds(z', h.kind)
<1>1. PICK reading \in Readings(z.partial, h) :
          LET x == [Fresh EXCEPT !.partial = (reading = "unfinished")]
          IN  IF reading = "whole"
              THEN \/ z' = parseReceivedHeader(x, h)
                   \/ z' \in HeaderFailures([x EXCEPT !.timer = FALSE], h)
              ELSE z' = x
  BY DEF processInput
<1>. DEFINE b == (reading = "unfinished")
            x == [Fresh EXCEPT !.partial = b]
            w == [x EXCEPT !.timer = FALSE]
<1>2. Begins(x) /\ Begins(w) /\ h.pos \in Nat
  <2>. HIDE DEF b
  <2>1. Begins(x) /\ h.pos \in Nat
    BY BeginsFresh, Prepares DEF Headers
  <2>. HIDE DEF x
  <2> QED BY <2>1, Prepares
<1>3. \/ z' = parseReceivedHeader(x, h) \/ z' \in HeaderFailures(w, h) \/ z' = x
  BY <1>1
<1>. HIDE DEF x, w, b
<1>4. CASE z' = parseReceivedHeader(x, h)
  BY <1>2, <1>4, ParsedDoes
<1>5. CASE z' \in HeaderFailures(w, h)
  <2>1. z' \in StreamFailures(Requested(w, h.pos)) \/ z' \in StreamFailures(Counted(w))
    BY <1>5 DEF HeaderFailures
  <2>2. Begins(Requested(w, h.pos)) /\ Begins(Counted(w))
    BY <1>2, Prepares
  <2> QED BY <2>1, <2>2, StreamsFail DEF Does
<1>6. CASE z' = x
  BY <1>2, <1>6 DEF Does
<1> QED BY <1>3, <1>4, <1>5, <1>6

(* The expiry of the timer *)
LEMMA TimeoutDoes ==
  ASSUME Sized(z), handleTimeout
  PROVE  Does(z', "none")
<1>. DEFINE x == [Fresh EXCEPT !.timer = FALSE]
            c == Counted(x)
<1>1. z' = IF Exhausted(x) THEN Failed(sendCancel(c)) ELSE Repeated(c)
  BY DEF handleTimeout
<1>2. Begins(x)
  BY BeginsFresh, Prepares
<1>. HIDE DEF x
<1>3. Begins(c) /\ c.state = z.state
  BY <1>2, Prepares DEF Begins
<1>4. Repeated(c) = CASE c.state = "SentZRQINIT" -> sendZRQINIT(c)
                      [] c.state = "SentZFILE"   -> sendZFILE(c)
                      [] c.state = "SentZEOF"    -> sendZEOF(c)
                      [] c.state = "SentZFIN"    -> sendZFIN(c)
                      [] OTHER                   -> [c EXCEPT !.timer = TRUE]
  BY DEF Repeated
<1>. HIDE DEF c
<1>5. CASE Exhausted(x)
  BY <1>1, <1>3, <1>5, CancelEnds DEF Does
<1>6. CASE ~Exhausted(x)
  <2>1. CASE z.state = "SentZRQINIT"
    BY <1>1, <1>3, <1>4, <1>6, <2>1, Senders DEF Does
  <2>2. CASE z.state = "SentZFILE"
    BY <1>1, <1>3, <1>4, <1>6, <2>2, Senders DEF Does
  <2>3. CASE z.state = "SentZEOF"
    BY <1>1, <1>3, <1>4, <1>6, <2>3, Senders DEF Does
  <2>4. CASE z.state = "SentZFIN"
    BY <1>1, <1>3, <1>4, <1>6, <2>4, Senders DEF Does
  <2>5. CASE z.state \notin {"SentZRQINIT", "SentZFILE", "SentZEOF", "SentZFIN"}
    <3>1. z' = [c EXCEPT !.timer = TRUE]
      BY <1>1, <1>3, <1>4, <1>6, <2>5
    <3> QED BY <1>3, <3>1, Prepares DEF Does
  <2> QED BY <2>1, <2>2, <2>3, <2>4, <2>5
<1> QED BY <1>5, <1>6

(* A continuation, of this stream or of an earlier one *)
LEMMA ContinueDoes ==
  ASSUME Sized(z), continueLive \/ continueStale
  PROVE  Does(z', "none")
<1>. DEFINE l == Fresh.live - 1
            t == Fresh.stale - 1
            x == [Fresh EXCEPT !.live = l]
            y == [Fresh EXCEPT !.stale = t]
<1>1. \/ z' = y
      \/ x.state = "SendingData" /\ (z' = sendNextDataChunk(x) \/ z' \in ReadFailures(x))
      \/ z' = x
  BY DEF continueLive, continueStale
<1>2. Begins(x) /\ Begins(y)
  <2>. HIDE DEF l, t
  <2> QED BY BeginsFresh, Prepares
<1>. HIDE DEF x, y
<1>3. CASE z' = y \/ z' = x
  BY <1>2, <1>3 DEF Does
<1>4. CASE x.state = "SendingData" /\ z' = sendNextDataChunk(x)
  <2>1. Streaming(x)
    BY <1>2, <1>4 DEF Begins, Streaming, Linked
  <2> QED BY <1>2, <1>4, <2>1, ChunkStreams DEF Does, Begins
<1>5. CASE z' \in ReadFailures(x)
  <2>1. Sized(x) /\ x.starts = z.starts /\ x.ok = z.ok /\ ~Has(x.out, "ZFILE")
    BY <1>2 DEF Begins, Has
  <2> QED BY <1>5, <2>1, ReadsFail DEF Does
<1> QED BY <1>1, <1>3, <1>4, <1>5

(* cancelTransfer *)
LEMMA CancelDoes ==
  ASSUME Sized(z), NEW y, y = Cancelled(Fresh)
  PROVE  Ends(y)
<1>. DEFINE f == Failed(sendCancel(Fresh))
<1>1. Ends(f)
  BY BeginsFresh, CancelEnds
<1>2. y = [f EXCEPT !.timer = FALSE, !.partial = FALSE]
  BY DEF Cancelled
<1>. HIDE DEF f
<1>3. /\ y.state = f.state /\ y.pos = f.pos /\ y.size = f.size /\ y.out = f.out
      /\ y.offset = f.offset /\ y.starts = f.starts /\ y.ok = f.ok
  BY <1>1, <1>2 DEF Ends, Sized, Members
<1>4. Members(y)
  BY <1>1, <1>2 DEF Ends, Sized, Members
<1> QED BY <1>1, <1>3, <1>4 DEF Ends, Sized

(* A transfer under way *)
Live(x) == x.state \notin {"Idle", "Done"}

(* A new transfer, or a refused one *)
Opens(x) ==
    /\ Sized(x) /\ x.starts = z.starts + 1 /\ x.ok = z.ok
    /\ Live(x) => x.state = "SentZRQINIT"
    /\ \A i \in 1 .. Len(x.out) : x.out[i].kind \in {"CAN", "ZRQINIT"}

(* A transfer that is replaced is cancelled. *)
LEMMA ReplacedWrites ==
  ASSUME Sized(z)
  PROVE  /\ Sized(Replaced) /\ ~Live(Replaced) /\ Replaced.starts = z.starts /\ Replaced.ok = z.ok
         /\ \A i \in 1 .. Len(Replaced.out) : Replaced.out[i].kind \in {"CAN", "ZRQINIT"}
<1>1. Begins(Fresh)
  BY BeginsFresh
<1>2. CASE isActive
  <2>. DEFINE p == Packet("CAN", Fresh.starts, 0, 0)
              w == sendCancel(Fresh)
              f == Failed(w)
              y == Cancelled(Fresh)
  <2>1. Ends(y)
    BY CancelDoes
  <2>2. p \in Packets /\ p.kind = "CAN" /\ Sized(Fresh) /\ Fresh.out = <<>>
    BY <1>1 DEF Begins, Sized, Packet, Packets
  <2>3. Sized(w) /\ w.out = Append(Fresh.out, p)
    BY <2>2, Writes DEF sendCancel
  <2>4. w.out = <<p>>
    BY <2>2, <2>3
  <2>5. y = [f EXCEPT !.timer = FALSE, !.partial = FALSE]
    BY DEF Cancelled
  <2>6. \E n : f = [w EXCEPT !.state = "Idle", !.pos = 0, !.failed = n]
    BY DEF Failed
  <2>7. Replaced = y
    BY <1>2 DEF Replaced
  <2>8. Ends(f)
    BY <1>1, CancelEnds
  <2>. HIDE DEF p, y, f, w
  <2>9. f.out = w.out
    BY <2>3, <2>6 DEF Sized, Members
  <2>10. y.out = f.out
    BY <2>5, <2>8 DEF Ends, Sized, Members
  <2>11. \A i \in 1 .. Len(y.out) : y.out[i].kind \in {"CAN", "ZRQINIT"}
    <3>1. Len(<<p>>) = 1 /\ <<p>>[1] = p
      OBVIOUS
    <3> QED BY <2>2, <2>4, <2>9, <2>10, <3>1
  <2> QED BY <2>1, <2>7, <2>11 DEF Ends, Live
<1>3. CASE ~isActive
  <2>1. Replaced = Fresh /\ Len(Fresh.out) = 0
    BY <1>1, <1>3 DEF Replaced, Begins
  <2> QED BY <1>1, <1>3, <2>1 DEF Begins, Live, isActive
<1> QED BY <1>2, <1>3

(* startTransfer, of a file that can be opened and of one that cannot *)
LEMMA StartDoes ==
  ASSUME Sized(z), startTransfer \/ startUnreadable
  PROVE  Opens(z')
<1>. DEFINE r == Replaced
            n == r.starts + 1
<1>1. /\ Sized(r) /\ ~Live(r) /\ r.starts = z.starts /\ r.ok = z.ok /\ n = z.starts + 1
      /\ \A i \in 1 .. Len(r.out) : r.out[i].kind \in {"CAN", "ZRQINIT"}
  BY ReplacedWrites
<1>2. n \in Nat
  BY <1>1 DEF Sized
<1>3. CASE startTransfer
  <2>1. PICK size \in FileSizes :
          z' = sendZRQINIT([r EXCEPT !.size = size, !.pos = 0, !.offset = 0, !.retries = 0,
                                     !.partial = FALSE, !.starts = n])
    BY <1>3 DEF startTransfer
  <2>. DEFINE w == [r EXCEPT !.size = size, !.pos = 0, !.offset = 0, !.retries = 0,
                             !.partial = FALSE, !.starts = n]
              p == Packet("ZRQINIT", w.starts, 0, 0)
              y == sendZRQINIT(w)
  <2>2. size \in Nat /\ 0 \in 0 .. size
    BY Positive
  <2>. HIDE DEF r, n
  <2>3. /\ w.state = r.state /\ w.pos = 0 /\ w.size = size /\ w.offset = 0 /\ w.out = r.out
        /\ w.starts = n /\ w.ok = r.ok
    BY <1>1 DEF Sized, Members
  <2>4. Members(w)
    <3>1. ASSUME NEW x, Members(x), NEW k,
                 NEW v, v = [x EXCEPT !.size = size, !.pos = 0, !.offset = 0, !.retries = 0,
                                      !.partial = FALSE, !.starts = k]
          PROVE  Members(v)
      BY <3>1 DEF Members
    <3> QED BY <1>1, <3>1 DEF Sized
  <2>. HIDE DEF w
  <2>5. Sized(w)
    BY <1>1, <1>2, <2>2, <2>3, <2>4 DEF Sized
  <2>6. p \in Packets /\ p.kind = "ZRQINIT" /\ w.out \in Seq(Packets)
    BY <1>2, <2>3, <2>5 DEF Packet, Packets, Sized
  <2>7. /\ Sized(y) /\ y.state = "SentZRQINIT" /\ y.starts = w.starts /\ y.ok = w.ok
        /\ y.out = Append(w.out, p)
    BY <2>5, <2>6, Waiting DEF sendZRQINIT
  <2>8. z' = y
    BY <2>1 DEF w
  <2>. HIDE DEF y, p
  <2>9. \A i \in 1 .. Len(y.out) : y.out[i].kind \in {"CAN", "ZRQINIT"}
    <3>1. SUFFICES ASSUME NEW i \in 1 .. Len(y.out) PROVE y.out[i].kind \in {"CAN", "ZRQINIT"}
      OBVIOUS
    <3>2. \/ i \in 1 .. Len(w.out) /\ y.out[i] = w.out[i]
          \/ y.out[i] = p
      BY <2>6, <2>7
    <3> QED BY <1>1, <2>3, <2>6, <3>2
  <2> QED BY <1>1, <2>3, <2>7, <2>8, <2>9 DEF Opens
<1>4. CASE startUnreadable
  <2>1. \E m : z' = [r EXCEPT !.starts = n, !.failed = m]
    BY <1>4 DEF startUnreadable
  <2>. HIDE DEF r, n
  <2>2. PICK m : z' = [r EXCEPT !.starts = n, !.failed = m]
    BY <2>1
  <2>. DEFINE y == [r EXCEPT !.starts = n, !.failed = m]
  <2>3. /\ y.state = r.state /\ y.pos = r.pos /\ y.size = r.size /\ y.offset = r.offset
        /\ y.out = r.out /\ y.starts = n /\ y.ok = r.ok
    BY <1>1 DEF Sized, Members
  <2>4. Members(y)
    <3>1. ASSUME NEW x, Members(x), NEW k, NEW w, w = [x EXCEPT !.starts = k, !.failed = m]
          PROVE  Members(w)
      BY <3>1 DEF Members
    <3> QED BY <1>1, <3>1 DEF Sized
  <2>5. z' = y
    BY <2>2
  <2>. HIDE DEF y
  <2> QED BY <1>1, <1>2, <2>3, <2>4, <2>5 DEF Opens, Live, Sized
<1> QED BY <1>3, <1>4

-----------------------------------------------------------------------------
(* The invariant of the link *)

(* No ZRINIT waits behind a ZRPOS. *)
InitFirst(s) ==
    \A i, j \in 1 .. Len(s) : j < i /\ s[i].kind = "ZRINIT" => s[j].kind # "ZRPOS"

Early == {"SentZRQINIT", "SentZFILE"}

(* The device has taken up the file of this transfer; it holds it whole. *)
Taken(x, d) == d.file = x.starts
Whole(x, d) == Taken(x, d) /\ (d.skipped \/ (d.exact /\ d.stored = x.size))

(* The data on the line goes where the device will store it, and ends where the
   sender goes on. *)
Flow(x, q, d) ==
    /\ \A i \in 1 .. Len(q) : Fits(q[i], x)
    /\ Linked(q)
    /\ q # <<>> /\ q[1].kind = "DATA" => Expects(d, q[1].pos)
    /\ x.state = "SendingData" => IF q = <<>> THEN Expects(d, x.pos)
                                             ELSE Reaches(q[Len(q)], x.pos)

(* A transfer opens with its ZRQINITs, and its ZFILEs follow. *)
Opening(x, q) ==
    /\ \A i, j \in 1 .. Len(q) : i < j /\ q[i].kind = "ZFILE" => q[j].kind # "ZRQINIT"
    /\ x.state = "SentZRQINIT" => ~Has(q, "ZFILE")

Untaken(x, s, d) ==
    ~Taken(x, d) => x.state \in Early /\ d.phase # "data" /\ ~Has(s, "ZRPOS")

Held(x, q, d) ==
    Taken(x, d) =>
        /\ x.state # "SentZRQINIT" /\ ~Has(q, "ZRQINIT")
        /\ d.phase # "waiting"
        /\ d.skipped => d.phase # "data"
        /\ ~d.skipped => d.exact
        /\ d.phase = "done" => Whole(x, d)

(* Nothing says that the transfer is over, or will make the sender say so. *)
Unfinished(x, q, s, d) ==
    ~Whole(x, d) =>
        /\ x.state # "SentZFIN" /\ ~Has(q, "ZFIN") /\ ~Has(s, "ZSKIP") /\ ~Has(s, "ZFIN")
        /\ Has(s, "ZRINIT") => x.state \in Early
        /\ InitFirst(s)

(* No file on the line is of a transfer to come. *)
Begun(x, q) == \A i \in 1 .. Len(q) : q[i].kind = "ZFILE" => q[i].file <= x.starts

Consistent(x, q, s, d) ==
    /\ Sized(x) /\ q \in Seq(Packets) /\ s \in Seq(Headers) /\ d \in Devices
    /\ d.file <= x.starts /\ Begun(x, q)
    /\ Live(x) => /\ x.starts > 0
                  /\ Flow(x, q, d) /\ Opening(x, q)
                  /\ Untaken(x, s, d) /\ Held(x, q, d) /\ Unfinished(x, q, s, d)

(* The inductive invariant of the link *)
DeliveryIInv == Consistent(z, toReceiver, toSender, device)

-----------------------------------------------------------------------------
(* Lines that grow and shrink *)

(* A line without its first packet. *)
LEMMA TailOf ==
  ASSUME NEW S, NEW s \in Seq(S), s # <<>>
  PROVE  /\ Tail(s) \in Seq(S) /\ Len(s) \in Nat /\ Len(s) > 0 /\ Len(Tail(s)) = Len(s) - 1
         /\ \A i \in 1 .. Len(s) - 1 : Tail(s)[i] = s[i + 1]
         /\ Tail(s) = <<>> <=> Len(s) = 1
         /\ Head(s) = s[1] /\ s[1] \in S
<1>1. Len(s) \in Nat /\ Len(s) > 0 /\ s[1] \in S /\ Head(s) = s[1]
  OBVIOUS
<1>2. Tail(s) \in Seq(S) /\ Len(Tail(s)) = Len(s) - 1
  BY <1>1
<1>3. \A i \in 1 .. Len(s) - 1 : Tail(s)[i] = s[i + 1]
  BY <1>1
<1>4. Tail(s) = <<>> <=> Len(s) = 1
  BY <1>1, <1>2
<1> QED BY <1>1, <1>2, <1>3, <1>4

(* Headers that were waiting already, but for those damaged on the way *)
Thinner(t, s) ==
    \E n \in {0, 1} : /\ Len(t) = Len(s) - n
                      /\ \A i \in 1 .. Len(t) : \/ t[i].kind = s[i + n].kind
                                                 \/ t[i].kind \in {"garbled", "truncated"}

(* A thinner line has no header that was not there, in no other order. *)
LEMMA ThinnerHas ==
  ASSUME NEW s \in Seq(Headers), NEW t \in Seq(Headers), Thinner(t, s)
  PROVE  /\ \A k \in {"ZRINIT", "ZRPOS", "ZSKIP", "ZFIN"} : Has(t, k) => Has(s, k)
         /\ InitFirst(s) => InitFirst(t)
<1>1. PICK n \in {0, 1} : /\ Len(t) = Len(s) - n
                          /\ \A i \in 1 .. Len(t) : \/ t[i].kind = s[i + n].kind
                                                     \/ t[i].kind \in {"garbled", "truncated"}
  BY DEF Thinner
<1>2. Len(s) \in Nat /\ Len(t) \in Nat /\ \A i \in 1 .. Len(t) : i + n \in 1 .. Len(s)
  BY <1>1
<1>3. ASSUME NEW k \in {"ZRINIT", "ZRPOS", "ZSKIP", "ZFIN"}, Has(t, k) PROVE Has(s, k)
  <2>1. PICK i \in 1 .. Len(t) : t[i].kind = k
    BY <1>3 DEF Has
  <2>2. s[i + n].kind = k /\ i + n \in 1 .. Len(s)
    BY <1>1, <1>2, <2>1
  <2> QED BY <2>2 DEF Has
<1>4. ASSUME InitFirst(s) PROVE InitFirst(t)
  <2>1. SUFFICES ASSUME NEW i \in 1 .. Len(t), NEW j \in 1 .. Len(t), j < i, t[i].kind = "ZRINIT",
                        t[j].kind = "ZRPOS"
                 PROVE  FALSE
    BY DEF InitFirst
  <2>2. s[i + n].kind = "ZRINIT" /\ s[j + n].kind = "ZRPOS"
    BY <1>1, <2>1
  <2>3. i + n \in 1 .. Len(s) /\ j + n \in 1 .. Len(s) /\ j + n < i + n
    BY <1>2, <2>1
  <2> QED BY <1>4, <2>2, <2>3 DEF InitFirst
<1> QED BY <1>3, <1>4

(* A header more *)
LEMMA OneMore ==
  ASSUME NEW s \in Seq(Headers), NEW h \in Headers
  PROVE  /\ Append(s, h) \in Seq(Headers)
         /\ \A k : Has(Append(s, h), k) => Has(s, k) \/ h.kind = k
         /\ InitFirst(s) /\ (h.kind = "ZRINIT" => ~Has(s, "ZRPOS")) => InitFirst(Append(s, h))
<1>. DEFINE t == Append(s, h)
<1>1. /\ t \in Seq(Headers) /\ Len(s) \in Nat /\ Len(t) = Len(s) + 1 /\ t[Len(s) + 1] = h
      /\ \A i \in 1 .. Len(s) : t[i] = s[i]
      /\ \A i \in 1 .. Len(t) : i \in 1 .. Len(s) \/ i = Len(s) + 1
  OBVIOUS
<1>. HIDE DEF t
<1>2. ASSUME NEW k, Has(t, k) PROVE Has(s, k) \/ h.kind = k
  BY <1>1, <1>2 DEF Has
<1>3. ASSUME InitFirst(s), h.kind = "ZRINIT" => ~Has(s, "ZRPOS")
      PROVE  InitFirst(t)
  <2>1. SUFFICES ASSUME NEW i \in 1 .. Len(t), NEW j \in 1 .. Len(t), j < i, t[i].kind = "ZRINIT",
                        t[j].kind = "ZRPOS"
                 PROVE  FALSE
    BY DEF InitFirst
  <2>2. j \in 1 .. Len(s) /\ s[j].kind = "ZRPOS"
    BY <1>1, <2>1
  <2> QED BY <1>1, <1>3, <2>1, <2>2 DEF InitFirst, Has
<1> QED BY <1>1, <1>2, <1>3 DEF t

-----------------------------------------------------------------------------
(* A step of the sender *)

(* The kinds of packet a step writes *)
LEMMA Kinds ==
  ASSUME NEW x, NEW k, NEW kind
  PROVE  /\ Begins(x) => ~Has(x.out, kind)
         /\ \A state, sent : Sent(x, state, sent) /\ Has(x.out, kind) => kind = sent
         /\ Streams(x) /\ Has(x.out, kind) => kind \in {"ZDATA", "DATA", "ZEOF"}
<1>1. ASSUME Begins(x) PROVE ~Has(x.out, kind)
  BY <1>1 DEF Begins, Has
<1>2. ASSUME NEW state, NEW sent, Sent(x, state, sent), Has(x.out, kind) PROVE kind = sent
  <2>1. PICK p \in Packets : p.kind = sent /\ x.out = <<p>>
    BY <1>2 DEF Sent
  <2>2. Len(x.out) = 1 /\ x.out[1] = p
    BY <2>1
  <2> QED BY <1>2, <2>1, <2>2 DEF Has
<1>3. ASSUME Streams(x), Has(x.out, kind) PROVE kind \in {"ZDATA", "DATA", "ZEOF"}
  BY <1>3 DEF Streams, Has
<1> QED BY <1>1, <1>2, <1>3

(* What a step does to the course of the transfer *)
LEMMA Courses ==
  ASSUME NEW x, NEW k, Does(x, k), ~Ends(x)
  PROVE  /\ Sized(x) /\ x.size = z.size /\ x.starts = z.starts /\ x.ok = z.ok
         /\ Has(x.out, "ZRQINIT") => z.state = "SentZRQINIT" /\ ~Has(x.out, "ZFILE")
         /\ x.state = "SentZRQINIT" => z.state = "SentZRQINIT" /\ ~Has(x.out, "ZFILE")
         /\ z.state \in Early /\ k \notin {"ZRPOS", "ZSKIP"} => x.state \in Early
         /\ x.state = "SentZFIN" \/ Has(x.out, "ZFIN") =>
               z.state = "SentZFIN" \/ k = "ZSKIP" \/ (z.state = "SentZEOF" /\ k = "ZRINIT")
<1>1. CASE Begins(x)
  BY <1>1, Kinds DEF Begins
<1>2. CASE Sent(x, "SentZRQINIT", "ZRQINIT") /\ z.state = "SentZRQINIT"
  BY <1>2, Kinds DEF Sent, Early
<1>3. CASE Sent(x, "SentZFILE", "ZFILE") /\ z.state \in {"SentZRQINIT", "SentZFILE"}
  BY <1>3, Kinds DEF Sent, Early
<1>4. CASE Sent(x, "SentZEOF", "ZEOF") /\ z.state = "SentZEOF"
  BY <1>4, Kinds DEF Sent, Early
<1>5. CASE /\ Sent(x, "SentZFIN", "ZFIN")
           /\ z.state = "SentZFIN" \/ k = "ZSKIP" \/ (z.state = "SentZEOF" /\ k = "ZRINIT")
  BY <1>5, Kinds DEF Sent, Early
<1>6. CASE Streams(x) /\ (z.state \in {"SendingData", "SentZEOF"} \/ k = "ZRPOS")
  BY <1>6, Kinds DEF Streams, Early
<1> QED BY <1>1, <1>2, <1>3, <1>4, <1>5, <1>6 DEF Does

(* What it writes joins the data on the line where that ends. *)
LEMMA FlowGoesOn ==
  ASSUME NEW q \in Seq(Packets), NEW d, Flow(z, q, d), NEW x, Sized(x),
         x.size = z.size, x.starts = z.starts, Linked(x.out),
         \A i \in 1 .. Len(x.out) : Fits(x.out[i], x),
         x.out # <<>> /\ x.out[1].kind = "DATA" => z.state = "SendingData" /\ x.out[1].pos = z.pos,
         x.out = <<>> /\ x.state = "SendingData" => z.state = "SendingData" /\ x.pos = z.pos,
         x.out # <<>> /\ x.state = "SendingData" => Reaches(x.out[Len(x.out)], x.pos)
  PROVE  Flow(x, q \o x.out, d)
<1>. DEFINE o == x.out
            u == q \o o
<1>1. /\ o \in Seq(Packets) /\ u \in Seq(Packets) /\ Len(q) \in Nat /\ Len(o) \in Nat
      /\ Len(u) = Len(q) + Len(o)
      /\ \A i \in 1 .. Len(q) + Len(o) :
            \/ i \in 1 .. Len(q) /\ u[i] = q[i]
            \/ i - Len(q) \in 1 .. Len(o) /\ u[i] = o[i - Len(q)]
      /\ \A i \in 1 .. Len(q) : u[i] = q[i]
      /\ \A i \in 1 .. Len(o) : u[Len(q) + i] = o[i]
      /\ q = <<>> <=> Len(q) = 0
      /\ o = <<>> <=> Len(o) = 0
      /\ u = <<>> <=> Len(u) = 0
      /\ q = <<>> => u = o
  <2>1. o \in Seq(Packets)
    BY DEF Sized
  <2>. HIDE DEF o
  <2>2. o = <<>> <=> Len(o) = 0
    BY <2>1
  <2>3. u \in Seq(Packets)
    BY <2>1, Concat
  <2>4. u = <<>> <=> Len(u) = 0
    <3>. HIDE DEF u
    <3> QED BY <2>3
  <2> QED BY <2>1, <2>2, <2>3, <2>4, Concat
<1>. HIDE DEF u
<1>2. \A i \in 1 .. Len(u) : Fits(u[i], x)
  <2>1. \A p : Fits(p, z) => Fits(p, x)
    BY DEF Fits
  <2>2. SUFFICES ASSUME NEW i \in 1 .. Len(u) PROVE Fits(u[i], x)
    OBVIOUS
  <2>3. \/ i \in 1 .. Len(q) /\ u[i] = q[i]
        \/ i - Len(q) \in 1 .. Len(o) /\ u[i] = o[i - Len(q)]
    BY <1>1
  <2> QED BY <2>1, <2>3 DEF Flow
<1>3. q # <<>> /\ o # <<>> /\ o[1].kind = "DATA" => Reaches(q[Len(q)], o[1].pos)
  BY DEF Flow
<1>4. Linked(u)
  BY <1>1, <1>3, Links DEF Flow, u
<1>5. u # <<>> /\ u[1].kind = "DATA" => Expects(d, u[1].pos)
  <2>1. CASE q = <<>>
    BY <1>1, <2>1 DEF Flow
  <2>2. CASE q # <<>>
    <3>1. u[1] = q[1]
      BY <1>1, <2>2
    <3> QED BY <2>2, <3>1 DEF Flow
  <2> QED BY <2>1, <2>2
<1>6. x.state = "SendingData" => IF u = <<>> THEN Expects(d, x.pos) ELSE Reaches(u[Len(u)], x.pos)
  <2>1. CASE o = <<>>
    <3>1. Len(u) = Len(q) /\ (u = <<>> <=> q = <<>>) /\ (q # <<>> => u[Len(u)] = q[Len(q)])
      BY <1>1, <2>1
    <3> QED BY <2>1, <3>1 DEF Flow
  <2>2. CASE o # <<>>
    <3>1. u # <<>> /\ Len(o) \in 1 .. Len(o) /\ u[Len(u)] = o[Len(o)]
      BY <1>1, <2>2
    <3> QED BY <2>2, <3>1
  <2> QED BY <2>1, <2>2
<1> QED BY <1>2, <1>4, <1>5, <1>6 DEF Flow, u

(* Every step of the sender keeps the flow of data. *)
LEMMA DoesFlow ==
  ASSUME NEW q \in Seq(Packets), NEW d, Flow(z, q, d), NEW x, NEW k, Does(x, k), ~Ends(x)
  PROVE  Flow(x, q \o x.out, d)
<1>1. Sized(x) /\ x.size = z.size /\ x.starts = z.starts
  BY Courses
<1>2. CASE Begins(x)
  <2>1. /\ x.out = <<>> /\ x.state = z.state /\ x.pos = z.pos /\ Linked(x.out)
        /\ \A i \in 1 .. Len(x.out) : Fits(x.out[i], x)
    <3>1. x.out = <<>> /\ x.state = z.state /\ x.pos = z.pos /\ Len(x.out) = 0
      BY <1>2 DEF Begins
    <3> QED BY <3>1 DEF Linked
  <2> QED BY <1>1, <2>1, FlowGoesOn
<1>3. CASE \E state, sent : Sent(x, state, sent) /\ state # "SendingData" /\ sent # "DATA"
  <2>1. PICK state, sent : Sent(x, state, sent) /\ state # "SendingData" /\ sent # "DATA"
    BY <1>3
  <2>2. PICK p \in Packets : p.kind = sent /\ Fits(p, x) /\ x.out = <<p>>
    BY <2>1 DEF Sent
  <2>3. Len(x.out) = 1 /\ x.out[1] = p /\ Linked(x.out) /\ x.out # <<>>
    BY <2>2, Single
  <2>4. x.state # "SendingData" /\ x.out[1].kind # "DATA"
    BY <2>1, <2>2, <2>3 DEF Sent
  <2>5. \A i \in 1 .. Len(x.out) : Fits(x.out[i], x)
    BY <2>2, <2>3
  <2> QED BY <1>1, <2>3, <2>4, <2>5, FlowGoesOn
<1>4. CASE Streams(x)
  BY <1>1, <1>4, FlowGoesOn DEF Streams
<1> QED BY <1>2, <1>3, <1>4 DEF Does

(* Every step of the sender keeps the order in which a transfer opens. *)
LEMMA OpeningGoesOn ==
  ASSUME NEW q \in Seq(Packets), Opening(z, q), NEW x, NEW k, Does(x, k), ~Ends(x)
  PROVE  Opening(x, q \o x.out)
<1>. DEFINE o == x.out
            u == q \o o
<1>1. /\ Has(o, "ZRQINIT") => z.state = "SentZRQINIT" /\ ~Has(o, "ZFILE")
      /\ x.state = "SentZRQINIT" => z.state = "SentZRQINIT" /\ ~Has(o, "ZFILE")
      /\ o \in Seq(Packets)
  BY Courses DEF Sized
<1>2. /\ Len(u) = Len(q) + Len(o) /\ Len(q) \in Nat /\ Len(o) \in Nat
      /\ \A i \in 1 .. Len(q) + Len(o) :
            \/ i \in 1 .. Len(q) /\ u[i] = q[i]
            \/ i - Len(q) \in 1 .. Len(o) /\ u[i] = o[i - Len(q)]
  BY <1>1, Concat
<1>3. Has(u, "ZFILE") => Has(q, "ZFILE") \/ Has(o, "ZFILE")
  BY <1>1, HasConcat
<1>. HIDE DEF u, o
<1>4. ASSUME NEW i \in 1 .. Len(u), NEW j \in 1 .. Len(u), i < j, u[i].kind = "ZFILE",
             u[j].kind = "ZRQINIT"
      PROVE  FALSE
  <2>1. \/ i \in 1 .. Len(q) /\ u[i] = q[i]
        \/ i - Len(q) \in 1 .. Len(o) /\ u[i] = o[i - Len(q)]
    BY <1>2
  <2>2. \/ j \in 1 .. Len(q) /\ u[j] = q[j]
        \/ j - Len(q) \in 1 .. Len(o) /\ u[j] = o[j - Len(q)]
    BY <1>2
  <2>3. CASE j \in 1 .. Len(q) /\ u[j] = q[j]
    <3>1. i \in 1 .. Len(q) /\ u[i] = q[i]
      BY <1>2, <1>4, <2>1, <2>3
    <3> QED BY <1>4, <2>3, <3>1 DEF Opening
  <2>4. CASE j - Len(q) \in 1 .. Len(o) /\ u[j] = o[j - Len(q)]
    <3>1. Has(o, "ZRQINIT")
      BY <1>4, <2>4 DEF Has
    <3>2. Has(q, "ZFILE") \/ Has(o, "ZFILE")
      BY <1>4, <2>1 DEF Has
    <3> QED BY <1>1, <3>1, <3>2 DEF Opening
  <2> QED BY <2>2, <2>3, <2>4
<1> QED BY <1>1, <1>3, <1>4 DEF Opening, u, o

(* Once the transfer is over the line has only its files to bring. *)
LEMMA OverKeeps ==
  ASSUME NEW q \in Seq(Packets), Begun(z, q), NEW d \in Devices, d.file <= z.starts,
         z.starts \in Nat, NEW s \in Seq(Headers), NEW x, Sized(x), x.starts >= z.starts,
         ~Live(x), ~Has(x.out, "ZFILE")
  PROVE  Consistent(x, q \o x.out, s, d)
<1>. DEFINE o == x.out
            u == q \o o
<1>1. o \in Seq(Packets) /\ x.starts \in Nat /\ d.file \in Nat
  BY DEF Sized, Devices
<1>2. /\ u \in Seq(Packets) /\ Len(u) = Len(q) + Len(o)
      /\ \A i \in 1 .. Len(q) + Len(o) :
            \/ i \in 1 .. Len(q) /\ u[i] = q[i]
            \/ i - Len(q) \in 1 .. Len(o) /\ u[i] = o[i - Len(q)]
  BY <1>1, Concat
<1>3. ~Has(o, "ZFILE")
  OBVIOUS
<1>. HIDE DEF u, o
<1>4. Begun(x, u)
  <2>1. SUFFICES ASSUME NEW i \in 1 .. Len(u), u[i].kind = "ZFILE" PROVE u[i].file <= x.starts
    BY DEF Begun
  <2>2. i \in 1 .. Len(q) /\ u[i] = q[i]
    BY <1>2, <1>3, <2>1 DEF Has
  <2>3. q[i] \in Packets /\ q[i].kind = "ZFILE"
    BY <2>1, <2>2
  <2>4. q[i].file \in Nat /\ q[i].file <= z.starts
    BY <2>2, <2>3 DEF Begun, Packets
  <2> QED BY <1>1, <2>2, <2>4
<1>5. d.file <= x.starts
  BY <1>1
<1> QED BY <1>2, <1>4, <1>5 DEF Consistent, u, o

(* A step of the sender keeps the invariant: of a header of kind
   k that it takes from those waiting, or (k = "none") on its own. *)
LEMMA SenderKeeps ==
  ASSUME NEW q, NEW s, NEW d, Consistent(z, q, s, d), Live(z),
         NEW x, NEW k, Does(x, k), NEW t,
         (k = "none" /\ t = s) \/ (s # <<>> /\ k = s[1].kind /\ t = Tail(s))
  PROVE  Consistent(x, q \o x.out, t, d)
<1>1. /\ Sized(z) /\ q \in Seq(Packets) /\ s \in Seq(Headers) /\ d \in Devices
      /\ d.file <= z.starts /\ Begun(z, q) /\ z.starts > 0
      /\ Flow(z, q, d) /\ Opening(z, q) /\ Untaken(z, s, d) /\ Held(z, q, d)
      /\ Unfinished(z, q, s, d)
  BY DEF Consistent
<1>2. /\ t \in Seq(Headers) /\ Thinner(t, s) /\ (k # "none" => Has(s, k))
      /\ k = "ZRPOS" /\ InitFirst(s) => ~Has(t, "ZRINIT")
  <2>1. CASE k = "none" /\ t = s
    BY <1>1, <2>1 DEF Thinner
  <2>2. CASE s # <<>> /\ k = s[1].kind /\ t = Tail(s)
    <3>1. /\ t \in Seq(Headers) /\ Len(s) \in Nat /\ Len(s) > 0 /\ Len(t) = Len(s) - 1
          /\ \A i \in 1 .. Len(s) - 1 : t[i] = s[i + 1]
      BY <1>1, <2>2, TailOf
    <3>2. Thinner(t, s) /\ Has(s, k)
      <4>1. \A i \in 1 .. Len(t) : t[i].kind = s[i + 1].kind
        BY <3>1
      <4>2. 1 \in {0, 1} /\ 1 \in 1 .. Len(s)
        BY <3>1
      <4>3. Thinner(t, s)
        BY <3>1, <4>1, <4>2 DEF Thinner
      <4> QED BY <2>2, <4>2, <4>3 DEF Has
    <3>3. ASSUME k = "ZRPOS", InitFirst(s), Has(t, "ZRINIT") PROVE FALSE
      <4>1. PICK i \in 1 .. Len(t) : t[i].kind = "ZRINIT"
        BY <3>3 DEF Has
      <4>2. i + 1 \in 1 .. Len(s) /\ 1 \in 1 .. Len(s) /\ 1 < i + 1 /\ s[i + 1].kind = "ZRINIT"
        BY <3>1, <4>1
      <4> QED BY <2>2, <3>3, <4>2 DEF InitFirst
    <3> QED BY <3>1, <3>2, <3>3
  <2> QED BY <2>1, <2>2
<1>3. CASE Ends(x)
  <2>1. Sized(x) /\ x.starts = z.starts /\ ~Live(x) /\ ~Has(x.out, "ZFILE")
    BY <1>3 DEF Ends, Live
  <2>2. z.starts \in Nat /\ x.starts >= z.starts
    BY <1>1, <2>1 DEF Sized
  <2> QED BY <1>1, <1>2, <2>1, <2>2, OverKeeps
<1>4. CASE ~Ends(x)
  <2>1. /\ Sized(x) /\ x.size = z.size /\ x.starts = z.starts
        /\ Has(x.out, "ZRQINIT") => z.state = "SentZRQINIT"
        /\ x.state = "SentZRQINIT" => z.state = "SentZRQINIT"
        /\ z.state \in Early /\ k \notin {"ZRPOS", "ZSKIP"} => x.state \in Early
        /\ x.state = "SentZFIN" \/ Has(x.out, "ZFIN") =>
              z.state = "SentZFIN" \/ k = "ZSKIP" \/ (z.state = "SentZEOF" /\ k = "ZRINIT")
    BY <1>4, Courses
  <2>2. x.out \in Seq(Packets) /\ q \o x.out \in Seq(Packets)
    BY <1>1, <2>1, Concat DEF Sized
  <2>3. Flow(x, q \o x.out, d) /\ Opening(x, q \o x.out)
    BY <1>1, <1>4, DoesFlow, OpeningGoesOn
  <2>4. /\ \A m \in {"ZRINIT", "ZRPOS", "ZSKIP", "ZFIN"} : Has(t, m) => Has(s, m)
        /\ InitFirst(s) => InitFirst(t)
    BY <1>1, <1>2, ThinnerHas
  <2>9. Begun(x, q \o x.out)
    BY <2>1, <2>2, <2>3 DEF Begun, Flow, Fits, Sized
  <2>5. (Taken(x, d) <=> Taken(z, d)) /\ (Whole(x, d) <=> Whole(z, d))
    BY <2>1 DEF Taken, Whole
  <2>6. Untaken(x, t, d)
    <3>1. SUFFICES ASSUME ~Taken(x, d)
                   PROVE x.state \in Early /\ d.phase # "data" /\ ~Has(t, "ZRPOS")
      BY DEF Untaken
    <3>2. z.state \in Early /\ d.phase # "data" /\ ~Has(s, "ZRPOS") /\ ~Has(s, "ZSKIP")
      BY <1>1, <2>5, <3>1 DEF Untaken, Unfinished, Whole
    <3> QED BY <1>2, <2>1, <2>4, <3>2
  <2>7. Held(x, q \o x.out, d)
    <3>1. Has(q \o x.out, "ZRQINIT") => Has(q, "ZRQINIT") \/ Has(x.out, "ZRQINIT")
      BY <1>1, <2>2, HasConcat
    <3> QED BY <1>1, <2>1, <2>5, <3>1 DEF Held
  <2>8. Unfinished(x, q \o x.out, t, d)
    <3>1. SUFFICES ASSUME ~Whole(x, d)
                   PROVE  /\ x.state # "SentZFIN" /\ ~Has(q \o x.out, "ZFIN")
                          /\ ~Has(t, "ZSKIP") /\ ~Has(t, "ZFIN")
                          /\ Has(t, "ZRINIT") => x.state \in Early
                          /\ InitFirst(t)
      BY DEF Unfinished
    <3>2. /\ z.state # "SentZFIN" /\ ~Has(q, "ZFIN") /\ ~Has(s, "ZSKIP") /\ ~Has(s, "ZFIN")
          /\ Has(s, "ZRINIT") => z.state \in Early
          /\ InitFirst(s)
      BY <1>1, <2>5, <3>1 DEF Unfinished
    <3>3. ~(x.state = "SentZFIN" \/ Has(x.out, "ZFIN"))
      BY <1>2, <2>1, <3>2 DEF Early
    <3>4. Has(q \o x.out, "ZFIN") => Has(q, "ZFIN") \/ Has(x.out, "ZFIN")
      BY <1>1, <2>2, HasConcat
    <3>5. Has(t, "ZRINIT") => x.state \in Early
      BY <1>2, <2>1, <2>4, <3>2
    <3> QED BY <2>4, <3>2, <3>3, <3>4, <3>5
  <2> QED BY <1>1, <1>2, <2>1, <2>2, <2>3, <2>6, <2>7, <2>8, <2>9 DEF Consistent
<1> QED BY <1>3, <1>4

(* A transfer starts on a quiet line, before its file is taken up. *)
LEMMA StartKeeps ==
  ASSUME NEW d, Consistent(z, <<>>, <<>>, d), d.phase # "data", NEW x, Opens(x)
  PROVE  Consistent(x, <<>> \o x.out, <<>>, d)
<1>. DEFINE o == x.out
<1>1. /\ Sized(x) /\ x.starts = z.starts + 1 /\ o \in Seq(Packets) /\ z.starts \in Nat
      /\ d \in Devices /\ d.file \in Nat /\ d.file <= z.starts
      /\ \A i \in 1 .. Len(o) : o[i].kind \in {"CAN", "ZRQINIT"}
  BY DEF Consistent, Opens, Sized, Devices
<1>2. d.file < x.starts /\ x.starts > 0
  BY <1>1
<1>3. /\ ~Has(o, "ZFILE") /\ ~Has(o, "ZFIN")
      /\ \A i \in 1 .. Len(o) : o[i].kind # "DATA" /\ Fits(o[i], x)
  BY <1>1 DEF Has, Fits
<1>4. <<>> \o o = o
  BY <1>1
<1>5. <<>> \in Seq(Headers) /\ \A k : ~Has(<<>>, k)
  BY DEF Has
<1>. HIDE DEF o
<1>6. Begun(x, o)
  BY <1>1, <1>3 DEF Begun, Has
<1>7. ASSUME Live(x)
      PROVE  /\ Flow(x, o, d) /\ Opening(x, o) /\ Untaken(x, <<>>, d) /\ Held(x, o, d)
             /\ Unfinished(x, o, <<>>, d)
  <2>1. x.state = "SentZRQINIT" /\ ~Taken(x, d) /\ ~Whole(x, d)
    BY <1>1, <1>2, <1>7 DEF Opens, Taken, Whole
  <2>2. /\ Len(o) \in Nat /\ (o # <<>> => 1 \in 1 .. Len(o))
        /\ \A i \in 2 .. Len(o) : i \in 1 .. Len(o)
    BY <1>1
  <2>3. Flow(x, o, d)
    BY <1>3, <2>1, <2>2 DEF Flow, Linked
  <2>4. Opening(x, o)
    BY <1>3 DEF Opening, Has
  <2>5. InitFirst(<<>>)
    BY DEF InitFirst
  <2> QED BY <1>3, <1>5, <2>1, <2>3, <2>4, <2>5 DEF Untaken, Held, Unfinished, Early
<1> QED BY <1>1, <1>2, <1>4, <1>5, <1>6, <1>7 DEF Consistent, o

-----------------------------------------------------------------------------
(* A step of the device or of the line *)

(* Packets that were on the line already, but for those damaged on the way *)
Fewer(t, q) ==
    \E n \in {0, 1} : /\ Len(t) = Len(q) - n
                      /\ \A i \in 1 .. Len(t) : t[i] = q[i + n] \/ t[i].kind = "damaged"

(* The line has no packet that was not there, in no other order. *)
LEMMA FewerKeeps ==
  ASSUME NEW x, NEW q \in Seq(Packets), NEW t \in Seq(Packets), Fewer(t, q)
  PROVE  /\ \A k : k # "damaged" /\ Has(t, k) => Has(q, k)
         /\ Opening(x, q) => Opening(x, t)
         /\ Begun(x, q) => Begun(x, t)
<1>1. PICK n \in {0, 1} : /\ Len(t) = Len(q) - n
                          /\ \A i \in 1 .. Len(t) : t[i] = q[i + n] \/ t[i].kind = "damaged"
  BY DEF Fewer
<1>2. Len(q) \in Nat /\ Len(t) \in Nat /\ \A i \in 1 .. Len(t) : i + n \in 1 .. Len(q)
  BY <1>1
<1>3. ASSUME NEW k, k # "damaged", Has(t, k) PROVE Has(q, k)
  BY <1>1, <1>2, <1>3 DEF Has
<1>4. ASSUME Opening(x, q) PROVE Opening(x, t)
  <2>1. ASSUME NEW i \in 1 .. Len(t), NEW j \in 1 .. Len(t), i < j, t[i].kind = "ZFILE",
               t[j].kind = "ZRQINIT"
        PROVE  FALSE
    <3>1. q[i + n].kind = "ZFILE" /\ q[j + n].kind = "ZRQINIT"
      BY <1>1, <2>1
    <3>2. i + n \in 1 .. Len(q) /\ j + n \in 1 .. Len(q) /\ i + n < j + n
      BY <1>2, <2>1
    <3> QED BY <1>4, <3>1, <3>2 DEF Opening
  <2> QED BY <1>3, <1>4, <2>1 DEF Opening
<1>5. ASSUME Begun(x, q) PROVE Begun(x, t)
  <2>1. SUFFICES ASSUME NEW i \in 1 .. Len(t), t[i].kind = "ZFILE" PROVE t[i].file <= x.starts
    BY DEF Begun
  <2>2. t[i] = q[i + n] /\ i + n \in 1 .. Len(q)
    BY <1>1, <1>2, <2>1
  <2> QED BY <1>5, <2>1, <2>2 DEF Begun
<1> QED BY <1>3, <1>4, <1>5

(* A line without its first packet, and the line itself. *)
LEMMA TailFewer ==
  ASSUME NEW q \in Seq(Packets), q # <<>>
  PROVE  Tail(q) \in Seq(Packets) /\ Fewer(Tail(q), q) /\ Fewer(q, q)
<1>1. /\ Tail(q) \in Seq(Packets) /\ Len(q) \in Nat /\ Len(Tail(q)) = Len(q) - 1
      /\ \A i \in 1 .. Len(q) - 1 : Tail(q)[i] = q[i + 1]
  BY TailOf
<1>2. Fewer(Tail(q), q)
  <2>1. 1 \in {0, 1} /\ \A i \in 1 .. Len(Tail(q)) : Tail(q)[i] = q[i + 1]
    BY <1>1
  <2> QED BY <1>1, <2>1 DEF Fewer
<1>3. Fewer(q, q)
  <2>1. 0 \in {0, 1} /\ Len(q) = Len(q) - 0 /\ \A i \in 1 .. Len(q) : q[i] = q[i + 0]
    BY <1>1
  <2> QED BY <2>1 DEF Fewer
<1> QED BY <1>1, <1>2, <1>3

(* The data goes on after the packet that the device has taken, or the line lost. *)
LEMMA FlowShrinks ==
  ASSUME NEW x, NEW q \in Seq(Packets), q # <<>>, NEW d, Flow(x, q, d), NEW e,
         \A pos : Reaches(q[1], pos) => Expects(e, pos)
  PROVE  Flow(x, Tail(q), e)
<1>. DEFINE t == Tail(q)
<1>1. /\ t \in Seq(Packets) /\ Len(q) \in Nat /\ Len(q) > 0 /\ Len(t) = Len(q) - 1
      /\ \A i \in 1 .. Len(q) - 1 : t[i] = q[i + 1]
      /\ t = <<>> <=> Len(q) = 1
  BY TailOf
<1>. HIDE DEF t
<1>2. \A i \in 1 .. Len(t) : t[i] = q[i + 1] /\ i + 1 \in 1 .. Len(q)
  BY <1>1
<1>3. \A i \in 1 .. Len(t) : Fits(t[i], x)
  BY <1>2 DEF Flow
<1>4. Linked(t)
  <2>1. SUFFICES ASSUME NEW i \in 2 .. Len(t), t[i].kind = "DATA" PROVE Reaches(t[i - 1], t[i].pos)
    BY DEF Linked
  <2>2. /\ i \in 1 .. Len(t) /\ i - 1 \in 1 .. Len(t) /\ i + 1 \in 2 .. Len(q) /\ i - 1 + 1 = i
        /\ i + 1 - 1 = i
    BY <1>1
  <2>3. t[i] = q[i + 1] /\ t[i - 1] = q[i]
    BY <1>2, <2>2
  <2> QED BY <2>1, <2>2, <2>3 DEF Flow, Linked
<1>5. t # <<>> /\ t[1].kind = "DATA" => Expects(e, t[1].pos)
  <2>1. SUFFICES ASSUME t # <<>>, t[1].kind = "DATA" PROVE Expects(e, t[1].pos)
    OBVIOUS
  <2>2. 2 \in 2 .. Len(q) /\ 2 - 1 = 1 /\ t[1] = q[2]
    BY <1>1, <2>1
  <2>3. Reaches(q[1], q[2].pos)
    BY <2>1, <2>2 DEF Flow, Linked
  <2> QED BY <2>2, <2>3
<1>6. x.state = "SendingData" => IF t = <<>> THEN Expects(e, x.pos) ELSE Reaches(t[Len(t)], x.pos)
  <2>1. CASE t = <<>>
    <3>1. q[Len(q)] = q[1]
      BY <1>1, <2>1
    <3> QED BY <2>1, <3>1 DEF Flow
  <2>2. CASE t # <<>>
    <3>1. t[Len(t)] = q[Len(q)]
      <4>1. Len(t) \in 1 .. Len(t) /\ Len(t) + 1 = Len(q)
        BY <1>1, <2>2
      <4> QED BY <1>2, <4>1
    <3> QED BY <2>2, <3>1 DEF Flow
  <2> QED BY <2>1, <2>2
<1> QED BY <1>3, <1>4, <1>5, <1>6 DEF Flow, t

(* A device that is not within a frame expects no data. *)
LEMMA FlowOf ==
  ASSUME NEW x, NEW q, NEW d, Flow(x, q, d), NEW e,
         \/ e.phase # "data" \/ ~e.frame
         \/ e.phase = d.phase /\ e.frame = d.frame /\ e.stored = d.stored
  PROVE  Flow(x, q, e)
  BY DEF Flow, Expects

(* What follows a damaged packet may be anything. *)
LEMMA FlowDamaged ==
  ASSUME NEW x, NEW q \in Seq(Packets), q # <<>>, NEW d, Flow(x, q, d)
  PROVE  LET t == <<Packet("damaged", 0, 0, 0)>> \o Tail(q)
         IN  Flow(x, t, d)
<1>. DEFINE p == Packet("damaged", 0, 0, 0)
            r == Tail(q)
            t == <<p>> \o r
<1>1. p \in Packets /\ p.kind = "damaged"
  BY DEF Packet, Packets
<1>. HIDE DEF p
<1>2. /\ r \in Seq(Packets) /\ Len(q) \in Nat /\ Len(q) > 0 /\ Len(r) = Len(q) - 1
      /\ \A i \in 1 .. Len(q) - 1 : r[i] = q[i + 1]
  BY TailOf
<1>. HIDE DEF r
<1>3. t \in Seq(Packets) /\ Len(t) = Len(q) /\ t[1] = p /\ \A i \in 2 .. Len(q) : t[i] = q[i]
  <2>1. <<p>> \in Seq(Packets) /\ Len(<<p>>) = 1 /\ <<p>>[1] = p
    BY <1>1
  <2>2. /\ t \in Seq(Packets) /\ Len(t) = 1 + Len(r)
        /\ \A i \in 1 .. 1 : t[i] = <<p>>[i]
        /\ \A i \in 1 .. Len(r) : t[1 + i] = r[i]
    BY <1>2, <2>1, Concat
  <2>3. ASSUME NEW i \in 2 .. Len(q) PROVE t[i] = q[i]
    <3>1. i - 1 \in 1 .. Len(r) /\ i - 1 \in 1 .. Len(q) - 1 /\ 1 + (i - 1) = i /\ i - 1 + 1 = i
      BY <1>2
    <3>2. t[1 + (i - 1)] = r[i - 1] /\ r[i - 1] = q[i - 1 + 1]
      BY <1>2, <2>2, <3>1
    <3> QED BY <3>1, <3>2
  <2> QED BY <1>2, <2>1, <2>2, <2>3
<1>. HIDE DEF t
<1>4. \A i \in 1 .. Len(t) : i = 1 \/ (i \in 2 .. Len(q) /\ i \in 1 .. Len(q))
  BY <1>2, <1>3
<1>5. \A i \in 1 .. Len(t) : Fits(t[i], x)
  BY <1>1, <1>3, <1>4 DEF Flow, Fits
<1>6. Linked(t)
  <2>1. SUFFICES ASSUME NEW i \in 2 .. Len(t), t[i].kind = "DATA" PROVE Reaches(t[i - 1], t[i].pos)
    BY DEF Linked
  <2>2. i \in 2 .. Len(q) /\ t[i] = q[i] /\ (i = 2 \/ i - 1 \in 2 .. Len(q))
    BY <1>3
  <2>3. CASE i = 2
    BY <1>1, <1>3, <2>3 DEF Reaches
  <2>4. CASE i - 1 \in 2 .. Len(q)
    BY <1>3, <2>1, <2>2, <2>4 DEF Flow, Linked
  <2> QED BY <2>2, <2>3, <2>4
<1>7. x.state = "SendingData" => t # <<>> /\ Reaches(t[Len(t)], x.pos)
  <2>1. t # <<>> /\ (Len(t) = 1 \/ Len(t) \in 2 .. Len(q))
    BY <1>2, <1>3
  <2> QED BY <1>1, <1>3, <2>1 DEF Flow, Reaches
<1> QED BY <1>1, <1>3, <1>5, <1>6, <1>7 DEF Flow, t, p, r

(* The device learns nothing and says nothing that could mislead the sender. *)
LEMMA CalmKeeps ==
  ASSUME NEW x, NEW q, NEW s, NEW d, Consistent(x, q, s, d),
         NEW t \in Seq(Packets), Fewer(t, q), NEW e \in Devices, Live(x) => Flow(x, t, e),
         e.file = d.file, e.stored = d.stored, e.exact = d.exact, e.skipped = d.skipped,
         e.phase \in {d.phase, "stopped"},
         NEW r \in Seq(Headers),
         \/ Thinner(r, s)
         \/ \E h \in Headers : /\ r = Append(s, h)
                               /\ \/ h.kind \in {"ZNAK", "ZACK", "ZABORT"}
                                  \/ h.kind = "ZRPOS" /\ d.phase = "data"
  PROVE  Consistent(x, t, r, e)
<1>1. q \in Seq(Packets) /\ s \in Seq(Headers) /\ Sized(x) /\ d.file <= x.starts /\ Begun(x, q)
  BY DEF Consistent
<1>2. /\ \A k : k # "damaged" /\ Has(t, k) => Has(q, k)
      /\ Opening(x, q) => Opening(x, t)
      /\ Begun(x, t)
  BY <1>1, FewerKeeps
<1>3. /\ \A k \in {"ZRINIT", "ZSKIP", "ZFIN"} : Has(r, k) => Has(s, k)
      /\ Has(r, "ZRPOS") => Has(s, "ZRPOS") \/ d.phase = "data"
      /\ InitFirst(s) => InitFirst(r)
  <2>1. CASE Thinner(r, s)
    BY <1>1, <2>1, ThinnerHas
  <2>2. CASE \E h \in Headers : /\ r = Append(s, h)
                               /\ \/ h.kind \in {"ZNAK", "ZACK", "ZABORT"}
                                  \/ h.kind = "ZRPOS" /\ d.phase = "data"
    <3>1. PICK h \in Headers : /\ r = Append(s, h)
                               /\ \/ h.kind \in {"ZNAK", "ZACK", "ZABORT"}
                                  \/ h.kind = "ZRPOS" /\ d.phase = "data"
      BY <2>2
    <3>2. /\ \A k : Has(r, k) => Has(s, k) \/ h.kind = k
          /\ InitFirst(s) => InitFirst(r)
      BY <1>1, <3>1, OneMore
    <3> QED BY <3>1, <3>2
  <2> QED BY <2>1, <2>2
<1>4. ASSUME Live(x)
      PROVE  /\ x.starts > 0 /\ Opening(x, t)
             /\ Untaken(x, r, e) /\ Held(x, t, e) /\ Unfinished(x, t, r, e)
  <2>1. /\ x.starts > 0 /\ Opening(x, q) /\ Untaken(x, s, d) /\ Held(x, q, d)
        /\ Unfinished(x, q, s, d)
    BY <1>4 DEF Consistent
  <2>2. (Taken(x, e) <=> Taken(x, d)) /\ (Whole(x, e) <=> Whole(x, d))
    BY DEF Taken, Whole
  <2>3. Untaken(x, r, e)
    BY <1>3, <2>1, <2>2 DEF Untaken
  <2>4. Held(x, t, e)
    BY <1>2, <2>1, <2>2 DEF Held
  <2>5. Unfinished(x, t, r, e)
    BY <1>2, <1>3, <2>1, <2>2 DEF Unfinished
  <2> QED BY <1>2, <2>1, <2>3, <2>4, <2>5
<1> QED BY <1>1, <1>2, <1>4 DEF Consistent

(* A ZRINIT is said before the file is taken up, or once it is held whole. *)
LEMMA InitKeeps ==
  ASSUME NEW x, NEW q, NEW s, NEW d, Consistent(x, q, s, d),
         NEW t \in Seq(Packets), Fewer(t, q), NEW e \in Devices, Live(x) => Flow(x, t, e),
         e.file <= x.starts, e.phase # "data",
         Live(x) => \/ ~Taken(x, e) /\ ~Taken(x, d)
                    \/ Whole(x, e) /\ Taken(x, d) /\ e.phase = "done",
         NEW h \in Headers, h.kind = "ZRINIT"
  PROVE  Consistent(x, t, Append(s, h), e)
<1>. DEFINE r == Append(s, h)
<1>1. q \in Seq(Packets) /\ s \in Seq(Headers) /\ Sized(x) /\ Begun(x, q)
  BY DEF Consistent
<1>2. /\ \A k : k # "damaged" /\ Has(t, k) => Has(q, k)
      /\ Opening(x, q) => Opening(x, t)
      /\ Begun(x, t)
  BY <1>1, FewerKeeps
<1>3. /\ r \in Seq(Headers)
      /\ \A k : Has(r, k) => Has(s, k) \/ k = "ZRINIT"
      /\ InitFirst(s) /\ ~Has(s, "ZRPOS") => InitFirst(r)
  BY <1>1, OneMore
<1>. HIDE DEF r
<1>4. ASSUME Live(x)
      PROVE  /\ x.starts > 0 /\ Opening(x, t)
             /\ Untaken(x, r, e) /\ Held(x, t, e) /\ Unfinished(x, t, r, e)
  <2>1. /\ x.starts > 0 /\ Opening(x, q) /\ Untaken(x, s, d) /\ Held(x, q, d)
        /\ Unfinished(x, q, s, d)
    BY <1>4 DEF Consistent
  <2>2. CASE ~Taken(x, e) /\ ~Taken(x, d)
    BY <1>2, <1>3, <2>1, <2>2 DEF Untaken, Held, Unfinished, Whole
  <2>3. CASE Whole(x, e) /\ Taken(x, d) /\ e.phase = "done"
    BY <1>2, <2>1, <2>3 DEF Untaken, Held, Unfinished, Whole
  <2> QED BY <1>2, <1>4, <2>1, <2>2, <2>3
<1> QED BY <1>1, <1>2, <1>3, <1>4 DEF Consistent, r

(* The device takes up the file, from the offset it asks for, or skips it. *)
LEMMA FileKeeps ==
  ASSUME NEW x, NEW q, NEW s, NEW d, Consistent(x, q, s, d), q # <<>>, q[1].kind = "ZFILE",
         d.phase = "waiting", NEW e \in Devices, e.file = q[1].file, e.exact, ~e.frame,
         NEW h \in Headers,
         \/ e.phase = "data" /\ ~e.skipped /\ h.kind = "ZRPOS"
         \/ e.phase = "done" /\ e.skipped /\ h.kind = "ZSKIP"
  PROVE  Consistent(x, Tail(q), Append(s, h), e)
<1>. DEFINE t == Tail(q)
            r == Append(s, h)
<1>1. q \in Seq(Packets) /\ s \in Seq(Headers) /\ Sized(x) /\ Begun(x, q)
  BY DEF Consistent
<1>2. /\ t \in Seq(Packets) /\ Fewer(t, q) /\ Len(q) \in Nat /\ 1 \in 1 .. Len(q)
      /\ Len(t) = Len(q) - 1 /\ \A i \in 1 .. Len(q) - 1 : t[i] = q[i + 1]
  <2>1. /\ t \in Seq(Packets) /\ Len(q) \in Nat /\ Len(q) > 0
        /\ Len(t) = Len(q) - 1 /\ \A i \in 1 .. Len(q) - 1 : t[i] = q[i + 1]
    BY <1>1, TailOf
  <2> QED BY <1>1, <2>1, TailFewer
<1>3. e.file <= x.starts
  BY <1>1, <1>2 DEF Begun
<1>4. /\ \A k : k # "damaged" /\ Has(t, k) => Has(q, k)
      /\ Opening(x, q) => Opening(x, t)
      /\ Begun(x, t)
  BY <1>1, <1>2, FewerKeeps
<1>5. /\ r \in Seq(Headers)
      /\ \A k : Has(r, k) => Has(s, k) \/ h.kind = k
      /\ InitFirst(s) => InitFirst(r)
  BY <1>1, OneMore
<1>6. ASSUME Live(x)
      PROVE  /\ x.starts > 0 /\ Flow(x, t, e) /\ Opening(x, t)
             /\ Untaken(x, r, e) /\ Held(x, t, e) /\ Unfinished(x, t, r, e)
  <2>1. /\ x.starts > 0 /\ Flow(x, q, d) /\ Opening(x, q) /\ Held(x, q, d) /\ Unfinished(x, q, s, d)
    BY <1>6 DEF Consistent
  <2>2. Taken(x, e) /\ ~Whole(x, d)
    <3>1. q[1].file = x.starts
      BY <1>2, <2>1 DEF Flow, Fits
    <3> QED BY <2>1, <3>1 DEF Taken, Whole, Held
  <2>3. Flow(x, t, e)
    BY <1>1, <2>1, FlowShrinks DEF Expects
  <2>4. ~Has(t, "ZRQINIT")
    <3>1. SUFFICES ASSUME NEW i \in 1 .. Len(t), t[i].kind = "ZRQINIT" PROVE FALSE
      BY DEF Has
    <3>2. i + 1 \in 1 .. Len(q) /\ 1 < i + 1 /\ t[i] = q[i + 1]
      BY <1>2
    <3> QED BY <1>2, <2>1, <3>1, <3>2 DEF Opening
  <2>5. x.state # "SentZRQINIT"
    BY <1>2, <2>1 DEF Opening, Has
  <2>6. Held(x, t, e)
    BY <2>2, <2>4, <2>5 DEF Held, Whole
  <2>7. Untaken(x, r, e)
    BY <2>2 DEF Untaken
  <2>8. Unfinished(x, t, r, e)
    <3>1. CASE e.skipped
      BY <2>2, <3>1 DEF Unfinished, Whole
    <3>2. CASE ~e.skipped
      <4>1. h.kind = "ZRPOS"
        BY <3>2
      <4> QED BY <1>4, <1>5, <2>1, <2>2, <4>1 DEF Unfinished
    <3> QED BY <3>1, <3>2
  <2> QED BY <1>4, <2>1, <2>3, <2>6, <2>7, <2>8
<1> QED BY <1>1, <1>2, <1>3, <1>4, <1>5, <1>6 DEF Consistent

(* The device stores data, where it belongs. *)
LEMMA DataKeeps ==
  ASSUME NEW x, NEW q, NEW s, NEW d, Consistent(x, q, s, d), q # <<>>, q[1].kind = "DATA",
         d.phase = "data", d.frame, NEW e \in Devices, e.file = d.file, e.phase = d.phase,
         e.skipped = d.skipped, e.stored = d.stored + q[1].len,
         e.exact = (d.exact /\ q[1].file = d.file /\ q[1].pos = d.stored)
  PROVE  Consistent(x, Tail(q), s, e)
<1>. DEFINE t == Tail(q)
            p == q[1]
<1>1. /\ q \in Seq(Packets) /\ s \in Seq(Headers) /\ Sized(x) /\ Begun(x, q) /\ d.file <= x.starts
      /\ d.stored \in Nat /\ x.size \in Nat
  BY DEF Consistent, Devices, Sized
<1>2. /\ t \in Seq(Packets) /\ Fewer(t, q) /\ Len(q) \in Nat /\ 1 \in 1 .. Len(q)
      /\ p.len \in Nat /\ p.pos \in Nat
  <2>1. t \in Seq(Packets) /\ Len(q) \in Nat /\ Len(q) > 0 /\ p \in Packets
    BY <1>1, TailOf
  <2> QED BY <1>1, <2>1, TailFewer DEF Packets
<1>3. /\ \A k : k # "damaged" /\ Has(t, k) => Has(q, k)
      /\ Opening(x, q) => Opening(x, t)
      /\ Begun(x, t)
  BY <1>1, <1>2, FewerKeeps
<1>4. ASSUME Live(x)
      PROVE  /\ x.starts > 0 /\ Flow(x, t, e) /\ Opening(x, t)
             /\ Untaken(x, s, e) /\ Held(x, t, e) /\ Unfinished(x, t, s, e)
  <2>1. /\ x.starts > 0 /\ Flow(x, q, d) /\ Opening(x, q) /\ Untaken(x, s, d) /\ Held(x, q, d)
        /\ Unfinished(x, q, s, d)
    BY <1>4 DEF Consistent
  <2>2. Taken(x, d) /\ Taken(x, e) /\ ~d.skipped /\ d.exact
    BY <2>1 DEF Untaken, Held, Taken
  <2>3. p.pos = d.stored /\ p.file = x.starts /\ p.pos + p.len <= x.size
    BY <1>2, <2>1 DEF Flow, Expects, Fits
  <2>4. e.exact /\ ~e.skipped
    BY <2>2, <2>3 DEF Taken
  <2>5. Flow(x, t, e)
    <3>1. ASSUME NEW pos, Reaches(p, pos) PROVE Expects(e, pos)
      BY <2>3, <3>1 DEF Reaches, Expects
    <3> QED BY <1>1, <2>1, <3>1, FlowShrinks
  <2>6. Whole(x, d) => Whole(x, e)
    BY <1>1, <1>2, <2>2, <2>3, <2>4 DEF Whole
  <2>7. Held(x, t, e)
    BY <1>3, <2>1, <2>2, <2>4 DEF Held
  <2>8. Untaken(x, s, e) /\ Unfinished(x, t, s, e)
    BY <1>3, <2>1, <2>2, <2>6 DEF Untaken, Unfinished
  <2> QED BY <1>3, <2>1, <2>5, <2>7, <2>8
<1> QED BY <1>1, <1>2, <1>3, <1>4 DEF Consistent

(* The device takes a packet. *)
LEMMA DeviceKeeps ==
  ASSUME NEW x, NEW q, NEW s, NEW d, Consistent(x, q, s, d), q # <<>>,
         NEW a, a \in Answers(d, Head(q))
  PROVE  Consistent(x, Tail(q), s \o a.says, a.d)
<1>. DEFINE p == Head(q)
            t == Tail(q)
            e == a.d
            r == s \o a.says
<1>. SUFFICES Consistent(x, t, r, e)
  OBVIOUS
<1>0. a \in Answers(d, p)
  OBVIOUS
<1>1. /\ q \in Seq(Packets) /\ s \in Seq(Headers) /\ Sized(x) /\ x.size \in Nat /\ x.starts \in Nat
      /\ d \in Devices /\ d.file <= x.starts /\ Begun(x, q)
  BY DEF Consistent, Sized
<1>2. /\ p = q[1] /\ p \in Packets /\ t \in Seq(Packets) /\ Fewer(t, q)
      /\ Len(q) \in Nat /\ 1 \in 1 .. Len(q)
  <2>1. /\ p = q[1] /\ p \in Packets /\ t \in Seq(Packets) /\ Len(q) \in Nat /\ Len(q) > 0
    BY <1>1, TailOf
  <2> QED BY <1>1, <2>1, TailFewer
<1>3. p.kind = "ZFILE" => p.file <= x.starts
  BY <1>1, <1>2 DEF Begun
<1>4. ASSUME Live(x)
      PROVE  /\ x.starts > 0 /\ Flow(x, q, d) /\ Opening(x, q) /\ Untaken(x, s, d) /\ Held(x, q, d)
             /\ Unfinished(x, q, s, d) /\ Fits(p, x)
             /\ p.kind = "DATA" => Expects(d, p.pos)
  <2>1. /\ x.starts > 0 /\ Flow(x, q, d) /\ Opening(x, q) /\ Untaken(x, s, d) /\ Held(x, q, d)
        /\ Unfinished(x, q, s, d)
    BY <1>4 DEF Consistent
  <2> QED BY <1>2, <2>1 DEF Flow
<1>5. ASSUME NEW f \in Devices, Live(x) => \A pos : Reaches(p, pos) => Expects(f, pos)
      PROVE  Live(x) => Flow(x, t, f)
  BY <1>1, <1>2, <1>4, <1>5, FlowShrinks
<1>6. /\ s \o <<>> = s /\ \A h : s \o <<h>> = Append(s, h)
      /\ Thinner(s, s)
  <2>1. 0 \in {0, 1} /\ Len(s) = Len(s) - 0 /\ \A i \in 1 .. Len(s) : s[i].kind = s[i + 0].kind
    BY <1>1
  <2>2. Thinner(s, s)
    BY <2>1 DEF Thinner
  <2>3. s \o <<>> = s /\ \A h : s \o <<h>> = Append(s, h)
    BY <1>1
  <2> QED BY <2>2, <2>3
<1>7. d.phase \in {"stopped", "waiting", "data", "done"}
  BY <1>1 DEF Devices
<1>8. \A k \in {"ZRINIT", "ZRPOS", "ZNAK", "ZFIN", "ZSKIP"} : \A n \in Nat :
         Header(k, n) \in Headers /\ Header(k, n).kind = k
  BY DEF Header, Headers
<1>. HIDE DEF p, t
(* It says nothing. *)
<1>9. ASSUME NEW f \in Devices, a = Silent(f),
             Live(x) => \A pos : Reaches(p, pos) => Expects(f, pos),
             f.file = d.file, f.stored = d.stored, f.exact = d.exact, f.skipped = d.skipped,
             f.phase \in {d.phase, "stopped"}
      PROVE  Consistent(x, t, r, e)
  <2>1. e = f /\ r = s
    BY <1>6, <1>9 DEF Silent
  <2>2. Live(x) => Flow(x, t, e)
    BY <1>5, <1>9, <2>1
  <2> QED BY <1>1, <1>2, <1>6, <1>9, <2>1, <2>2, CalmKeeps
(* It asks for the rest, or for a repetition. *)
<1>10. ASSUME NEW f \in Devices, NEW k, NEW n \in Nat, a = Says(f, k, n),
              k = "ZNAK" \/ (k = "ZRPOS" /\ d.phase = "data"),
              Live(x) => \A pos : Reaches(p, pos) => Expects(f, pos),
              f.file = d.file, f.stored = d.stored, f.exact = d.exact, f.skipped = d.skipped,
              f.phase = d.phase
      PROVE  Consistent(x, t, r, e)
  <2>. DEFINE h == Header(k, n)
  <2>1. e = f /\ r = Append(s, h) /\ h \in Headers /\ h.kind = k
    BY <1>6, <1>8, <1>10 DEF Says
  <2>2. Live(x) => Flow(x, t, e)
    BY <1>5, <1>10, <2>1
  <2>. HIDE DEF h, e, r
  <2>3. r \in Seq(Headers)
    BY <1>1, <2>1, OneMore
  <2>4. \E g \in Headers : /\ r = Append(s, g)
                          /\ \/ g.kind \in {"ZNAK", "ZACK", "ZABORT"}
                             \/ g.kind = "ZRPOS" /\ d.phase = "data"
    BY <1>10, <2>1
  <2> QED BY <1>2, <1>10, <2>1, <2>2, <2>3, <2>4, CalmKeeps
(* It is ready for a file. *)
<1>11. ASSUME NEW f \in Devices, a = Says(f, "ZRINIT", 0), f.file <= x.starts, f.phase # "data",
              Live(x) => \/ ~Taken(x, f) /\ ~Taken(x, d)
                         \/ Whole(x, f) /\ Taken(x, d) /\ f.phase = "done"
      PROVE  Consistent(x, t, r, e)
  <2>. DEFINE h == Header("ZRINIT", 0)
  <2>1. e = f /\ r = Append(s, h) /\ h \in Headers /\ h.kind = "ZRINIT"
    BY <1>6, <1>8, <1>11 DEF Says
  <2>2. Live(x) => Flow(x, t, e)
    BY <1>5, <1>11, <2>1 DEF Expects
  <2>. HIDE DEF h, e, r
  <2> QED BY <1>2, <1>11, <2>1, <2>2, InitKeeps
<1>12. CASE d.phase = "stopped"
  <2>1. a = Silent(d)
    BY <1>0, <1>12 DEF Answers
  <2> QED BY <1>1, <1>9, <1>12, <2>1 DEF Expects
<1>13. CASE d.phase # "stopped" /\ p.kind = "CAN"
  <2>. DEFINE f == [d EXCEPT !.phase = "stopped"]
  <2>1. a = Silent(f)
    BY <1>0, <1>13 DEF Answers
  <2>2. /\ f \in Devices /\ f.phase = "stopped"
        /\ f.file = d.file /\ f.stored = d.stored /\ f.exact = d.exact /\ f.skipped = d.skipped
    BY <1>1 DEF Devices
  <2>. HIDE DEF f
  <2> QED BY <1>9, <2>1, <2>2 DEF Expects
<1>14. CASE d.phase # "stopped" /\ p.kind = "ZRQINIT"
  <2>1. a = Says(FreshDevice, "ZRINIT", 0)
    BY <1>0, <1>14 DEF Answers
  <2>2. FreshDevice \in Devices /\ FreshDevice.phase = "waiting" /\ FreshDevice.file = 0
    BY DEF FreshDevice, Devices
  <2>3. Live(x) => ~Taken(x, FreshDevice) /\ ~Taken(x, d)
    <3>1. Has(q, "ZRQINIT")
      BY <1>2, <1>14 DEF Has
    <3> QED BY <1>4, <2>2, <3>1 DEF Taken, Held
  <2> QED BY <1>1, <1>11, <2>1, <2>2, <2>3
<1>15. CASE d.phase # "stopped" /\ p.kind = "ZFIN"
  <2>. DEFINE h == Header("ZFIN", 0)
  <2>1. a = Says(d, "ZFIN", 0)
    BY <1>0, <1>15 DEF Answers
  <2>2. e = d /\ r = Append(s, h) /\ h \in Headers /\ h.kind = "ZFIN"
    BY <1>6, <1>8, <2>1 DEF Says
  <2>3. Live(x) => Flow(x, t, d)
    BY <1>1, <1>5, <1>15 DEF Reaches
  <2>. HIDE DEF h, e, r
  <2>4. /\ \A k : k # "damaged" /\ Has(t, k) => Has(q, k)
        /\ Opening(x, q) => Opening(x, t)
        /\ Begun(x, t)
    BY <1>1, <1>2, FewerKeeps
  <2>5. r \in Seq(Headers)
    BY <1>1, <2>2, OneMore
  <2>6. ASSUME Live(x)
        PROVE  Untaken(x, r, e) /\ Held(x, t, e) /\ Unfinished(x, t, r, e)
    <3>1. Has(q, "ZFIN")
      BY <1>2, <1>15 DEF Has
    <3>2. Whole(x, d)
      BY <1>4, <2>6, <3>1 DEF Unfinished
    <3>3. Taken(x, d)
      BY <3>2 DEF Whole
    <3> QED BY <1>4, <2>2, <2>4, <2>6, <3>2, <3>3 DEF Untaken, Held, Unfinished
  <2> QED BY <1>1, <1>2, <1>4, <2>2, <2>3, <2>4, <2>5, <2>6 DEF Consistent
<1>16. CASE d.phase = "waiting" /\ p.kind \notin {"CAN", "ZRQINIT", "ZFIN"}
  <2>1. CASE p.kind = "damaged"
    <3>1. a = Says(d, "ZNAK", 0)
      BY <1>0, <1>16, <2>1 DEF Answers, AnswersWaiting
    <3> QED BY <1>1, <1>10, <1>16, <3>1 DEF Expects
  <2>2. CASE p.kind \notin {"ZFILE", "damaged"}
    <3>1. a = Silent(d)
      BY <1>0, <1>16, <2>2 DEF Answers, AnswersWaiting
    <3> QED BY <1>1, <1>9, <1>16, <3>1 DEF Expects
  <2>3. CASE p.kind = "ZFILE"
    <3>1. CASE \E k \in {k \in Kept : k <= p.pos} :
                  a = Says([FreshDevice EXCEPT !.phase = "data", !.file = p.file, !.stored = k],
                           "ZRPOS", k)
      <4>1. PICK k \in {k \in Kept : k <= p.pos} :
                  a = Says([FreshDevice EXCEPT !.phase = "data", !.file = p.file, !.stored = k],
                           "ZRPOS", k)
        BY <3>1
      <4>. DEFINE f == [FreshDevice EXCEPT !.phase = "data", !.file = p.file, !.stored = k]
                  h == Header("ZRPOS", k)
      <4>2. k \in Nat
        BY LinkAssumptions
      <4>3. /\ f \in Devices /\ f.file = p.file /\ f.exact /\ ~f.frame /\ f.phase = "data"
            /\ ~f.skipped
        BY <1>2, <4>2 DEF FreshDevice, Devices, Packets
      <4>4. e = f /\ r = Append(s, h) /\ h \in Headers /\ h.kind = "ZRPOS"
        BY <1>6, <1>8, <4>1, <4>2 DEF Says
      <4>. HIDE DEF f, h, e, r
      <4> QED BY <1>2, <1>16, <2>3, <4>3, <4>4, FileKeeps DEF t
    <3>2. CASE a = Says([FreshDevice EXCEPT !.phase = "done", !.file = p.file, !.skipped = TRUE],
                        "ZSKIP", 0)
      <4>. DEFINE f == [FreshDevice EXCEPT !.phase = "done", !.file = p.file, !.skipped = TRUE]
                  h == Header("ZSKIP", 0)
      <4>1. /\ f \in Devices /\ f.file = p.file /\ f.exact /\ ~f.frame /\ f.phase = "done"
            /\ f.skipped
        BY <1>2 DEF FreshDevice, Devices, Packets
      <4>2. e = f /\ r = Append(s, h) /\ h \in Headers /\ h.kind = "ZSKIP"
        BY <1>6, <1>8, <3>2 DEF Says
      <4>. HIDE DEF f, h, e, r
      <4> QED BY <1>2, <1>16, <2>3, <4>1, <4>2, FileKeeps DEF t
    <3> QED BY <1>0, <1>16, <2>3, <3>1, <3>2 DEF Answers, AnswersWaiting
  <2> QED BY <2>1, <2>2, <2>3
<1>17. CASE d.phase = "data" /\ p.kind \notin {"CAN", "ZRQINIT", "ZFIN"}
  <2>. DEFINE g == [d EXCEPT !.frame = FALSE]
  <2>1. /\ g \in Devices /\ ~g.frame /\ g.phase = d.phase /\ d.stored \in Nat
        /\ g.file = d.file /\ g.stored = d.stored /\ g.exact = d.exact /\ g.skipped = d.skipped
    BY <1>1 DEF Devices
  <2>2. AskAgain(d) = Says(g, "ZRPOS", d.stored)
    BY DEF AskAgain
  <2>. HIDE DEF g
  <2>3. CASE a = AskAgain(d)
    BY <1>10, <1>17, <2>1, <2>2, <2>3 DEF Expects
  <2>4. CASE p.kind = "ZDATA" /\ a # AskAgain(d)
    <3>. DEFINE f == [d EXCEPT !.frame = TRUE]
    <3>1. p.pos = d.stored /\ a = Silent(f)
      BY <1>0, <1>17, <2>4 DEF Answers, AnswersReceiving
    <3>2. /\ f \in Devices /\ f.phase = d.phase
          /\ f.file = d.file /\ f.stored = d.stored /\ f.exact = d.exact /\ f.skipped = d.skipped
      BY <1>1 DEF Devices
    <3>. HIDE DEF f
    <3>3. Live(x) => \A pos : Reaches(p, pos) => Expects(f, pos)
      <4>1. Live(x) => p.pos + p.len = p.pos
        BY <1>2, <1>4, <2>4 DEF Fits, Packets
      <4> QED BY <2>4, <3>1, <3>2, <4>1 DEF Expects, Reaches
    <3> QED BY <1>9, <3>1, <3>2, <3>3
  <2>5. CASE p.kind = "DATA" /\ d.frame
    <3>. DEFINE n == d.stored + p.len
                b == (d.exact /\ p.file = d.file /\ p.pos = d.stored)
                f == [d EXCEPT !.stored = n, !.exact = b]
    <3>1. a = Silent(f)
      BY <1>0, <1>17, <2>5 DEF Answers, AnswersReceiving
    <3>2. n \in Nat /\ b \in BOOLEAN
      BY <1>1, <1>2 DEF Devices, Packets
    <3>. HIDE DEF n, b
    <3>3. /\ f \in Devices /\ f.file = d.file /\ f.phase = d.phase /\ f.skipped = d.skipped
          /\ f.stored = n /\ f.exact = b
      BY <1>1, <3>2 DEF Devices
    <3>4. e = f /\ r = s
      BY <1>6, <3>1 DEF Silent
    <3>. HIDE DEF f, e, r
    <3>5. Consistent(x, Tail(q), s, f)
      BY <1>2, <1>17, <2>5, <3>3, DataKeeps DEF n, b
    <3> QED BY <3>4, <3>5 DEF t
  <2>6. CASE p.kind = "ZEOF" /\ p.pos = d.stored
    <3>. DEFINE f == [d EXCEPT !.phase = "done", !.frame = FALSE]
    <3>1. a = Says(f, "ZRINIT", 0)
      BY <1>0, <1>17, <2>6 DEF Answers, AnswersReceiving
    <3>2. /\ f \in Devices /\ f.phase = "done"
          /\ f.file = d.file /\ f.stored = d.stored /\ f.exact = d.exact /\ f.skipped = d.skipped
      BY <1>1 DEF Devices
    <3>. HIDE DEF f
    <3>3. Live(x) => Whole(x, f) /\ Taken(x, d)
      BY <1>4, <1>17, <2>6, <3>2 DEF Untaken, Held, Whole, Taken, Fits
    <3> QED BY <1>1, <1>11, <3>1, <3>2, <3>3
  <2>7. CASE /\ a # AskAgain(d) /\ p.kind # "ZDATA" /\ ~(p.kind = "DATA" /\ d.frame)
             /\ ~(p.kind = "ZEOF" /\ p.pos = d.stored)
    <3>1. a = Silent(d) /\ p.kind \notin {"ZFILE", "damaged", "ZDATA"}
      BY <1>0, <1>17, <2>7 DEF Answers, AnswersReceiving
    <3> QED BY <1>1, <1>9, <2>7, <3>1 DEF Expects, Reaches
  <2> QED BY <2>3, <2>4, <2>5, <2>6, <2>7
<1>18. CASE d.phase = "done" /\ p.kind \notin {"CAN", "ZRQINIT", "ZFIN"}
  <2>1. CASE p.kind = "ZEOF"
    <3>1. a = Says(d, "ZRINIT", 0)
      BY <1>0, <1>18, <2>1 DEF Answers, AnswersDone
    <3>2. Live(x) => ~Taken(x, d) \/ (Whole(x, d) /\ Taken(x, d))
      BY <1>4, <1>18 DEF Held
    <3> QED BY <1>1, <1>11, <1>18, <3>1, <3>2
  <2>2. CASE p.kind = "damaged"
    <3>1. a = Says(d, "ZNAK", 0)
      BY <1>0, <1>18, <2>2 DEF Answers, AnswersDone
    <3> QED BY <1>1, <1>10, <1>18, <3>1 DEF Expects
  <2>3. CASE p.kind \notin {"ZEOF", "damaged"}
    <3>1. a = Silent(d)
      BY <1>0, <1>18, <2>3 DEF Answers, AnswersDone
    <3> QED BY <1>1, <1>9, <1>18, <3>1 DEF Expects
  <2> QED BY <2>1, <2>2, <2>3
<1> QED BY <1>7, <1>12, <1>13, <1>14, <1>15, <1>16, <1>17, <1>18

(* Lines that stay as they are, or give up their first header. *)
LEMMA Nothing ==
  ASSUME NEW q \in Seq(Packets), NEW s \in Seq(Headers)
  PROVE  /\ Fewer(q, q) /\ Thinner(s, s)
         /\ (s # <<>> => Tail(s) \in Seq(Headers) /\ Thinner(Tail(s), s))
<1>1. Len(q) = Len(q) - 0 /\ \A i \in 1 .. Len(q) : q[i] = q[i + 0]
  OBVIOUS
<1>2. Len(s) = Len(s) - 0 /\ \A i \in 1 .. Len(s) : s[i].kind = s[i + 0].kind
  OBVIOUS
<1>3. ASSUME s # <<>> PROVE Tail(s) \in Seq(Headers) /\ Thinner(Tail(s), s)
  <2>1. /\ Tail(s) \in Seq(Headers) /\ Len(Tail(s)) = Len(s) - 1
        /\ \A i \in 1 .. Len(Tail(s)) : Tail(s)[i].kind = s[i + 1].kind
    BY <1>3, TailOf
  <2>2. 1 \in {0, 1}
    OBVIOUS
  <2> QED BY <2>1, <2>2 DEF Thinner
<1>4. 0 \in {0, 1}
  OBVIOUS
<1>5. Fewer(q, q)
  BY <1>1, <1>4 DEF Fewer
<1>6. Thinner(s, s)
  BY <1>2, <1>4 DEF Thinner
<1> QED BY <1>3, <1>5, <1>6

(* A step of the sender on its own *)
LEMMA OwnStepKeeps ==
  ASSUME NEW q, NEW s, NEW d, Consistent(z, q, s, d), NEW x, Does(x, "none")
  PROVE  Consistent(x, q \o x.out, s, d)
<1>1. CASE Live(z)
  BY <1>1, SenderKeeps
<1>2. CASE ~Live(z)
  <2>1. /\ q \in Seq(Packets) /\ Begun(z, q) /\ d \in Devices /\ d.file <= z.starts
        /\ z.starts \in Nat
        /\ s \in Seq(Headers)
    BY DEF Consistent, Sized
  <2>2. Begins(x) \/ Ends(x)
    BY <1>2 DEF Does, Live
  <2>3. Sized(x) /\ x.starts = z.starts /\ ~Live(x) /\ ~Has(x.out, "ZFILE")
    BY <1>2, <2>2 DEF Begins, Ends, Live, Has
  <2> QED BY <2>1, <2>3, OverKeeps
<1> QED BY <1>1, <1>2

(* A header reaches the sender. *)
LEMMA DeliverKeeps ==
  ASSUME DeliveryIInv, Deliver
  PROVE  DeliveryIInv' /\ (z'.ok > z.ok => Whole(z, device))
<1>. DEFINE s == toSender
            h == Head(s)
<1>1. /\ Sized(z) /\ toReceiver \in Seq(Packets) /\ s \in Seq(Headers) /\ device \in Devices
      /\ device.file <= z.starts /\ Begun(z, toReceiver) /\ z.starts \in Nat /\ z.ok \in Nat
      /\ Consistent(z, toReceiver, s, device)
  BY DEF DeliveryIInv, Consistent, Sized
<1>2. s # <<>> /\ toSender' = Tail(s) /\ device' = device
  BY DEF Deliver
<1>3. /\ h \in Headers /\ h = s[1] /\ 1 \in 1 .. Len(s) /\ Tail(s) \in Seq(Headers)
      /\ Thinner(Tail(s), s)
  <2>1. h \in Headers /\ h = s[1] /\ Len(s) \in Nat /\ Len(s) > 0
    BY <1>1, <1>2, TailOf
  <2> QED BY <1>1, <1>2, <2>1, Nothing
<1>4. CASE isActive
  <2>1. processInput(h) /\ toReceiver' = toReceiver \o z'.out
    BY <1>4 DEF Deliver, Transmit
  <2>2. Live(z) /\ (Does(z', h.kind) \/ Succeeds(z', h.kind))
    BY <1>1, <1>3, <1>4, <2>1, HeaderDoes DEF Live, isActive
  <2>. HIDE DEF h
  <2>3. CASE Does(z', h.kind)
    <3>1. Consistent(z', toReceiver \o z'.out, Tail(s), device)
      BY <1>1, <1>2, <1>3, <2>2, <2>3, SenderKeeps
    <3>2. z'.ok = z.ok
      BY <2>3, Courses DEF Ends
    <3> QED BY <1>1, <1>2, <2>1, <3>1, <3>2 DEF DeliveryIInv
  <2>4. CASE Succeeds(z', h.kind)
    <3>1. Sized(z') /\ z'.starts = z.starts /\ ~Live(z') /\ ~Has(z'.out, "ZFILE") /\ h.kind = "ZFIN"
      BY <2>4 DEF Succeeds, Live
    <3>2. Consistent(z', toReceiver \o z'.out, Tail(s), device)
      <4>1. ASSUME NEW x, Sized(x), x.starts = z.starts, ~Live(x), ~Has(x.out, "ZFILE")
            PROVE  Consistent(x, toReceiver \o x.out, Tail(s), device)
        <5>1. x.starts >= z.starts
          BY <1>1, <4>1
        <5> QED BY <1>1, <1>3, <4>1, <5>1, OverKeeps
      <4> QED BY <3>1, <4>1
    <3>3. Has(s, "ZFIN")
      BY <1>3, <3>1 DEF Has
    <3>4. Whole(z, device)
      BY <1>1, <2>2, <3>3 DEF Consistent, Unfinished
    <3> QED BY <1>2, <2>1, <3>2, <3>4 DEF DeliveryIInv
  <2> QED BY <2>2, <2>3, <2>4
<1>5. CASE ~isActive
  <2>1. z' = z /\ toReceiver' = toReceiver
    BY <1>5 DEF Deliver
  <2>2. Live(z) => Flow(z, toReceiver, device)
    BY <1>1 DEF Consistent
  <2>3. Fewer(toReceiver, toReceiver)
    BY <1>1, Nothing
  <2>4. Consistent(z, toReceiver, Tail(s), device)
    BY <1>1, <1>3, <2>2, <2>3, CalmKeeps
  <2> QED BY <1>1, <1>2, <2>1, <2>4 DEF DeliveryIInv
<1> QED BY <1>4, <1>5

(* A packet or a header that was damaged on the way *)
LEMMA DamagedFewer ==
  ASSUME NEW q \in Seq(Packets), q # <<>>
  PROVE  LET t == <<Packet("damaged", 0, 0, 0)>> \o Tail(q)
         IN  t \in Seq(Packets) /\ Fewer(t, q)
<1>. DEFINE p == Packet("damaged", 0, 0, 0)
            r == Tail(q)
            t == <<p>> \o r
<1>1. /\ p \in Packets /\ p.kind = "damaged" /\ <<p>> \in Seq(Packets) /\ Len(<<p>>) = 1
      /\ <<p>>[1] = p
  BY DEF Packet, Packets
<1>. HIDE DEF p
<1>2. /\ r \in Seq(Packets) /\ Len(q) \in Nat /\ Len(q) > 0 /\ Len(r) = Len(q) - 1
      /\ \A i \in 1 .. Len(q) - 1 : r[i] = q[i + 1]
  BY TailOf
<1>. HIDE DEF r
<1>3. /\ t \in Seq(Packets) /\ Len(t) = 1 + Len(r)
      /\ \A i \in 1 .. 1 + Len(r) :
            \/ i \in 1 .. 1 /\ t[i] = <<p>>[i]
            \/ i - 1 \in 1 .. Len(r) /\ t[i] = r[i - 1]
  <2>. DEFINE c == <<p>>
  <2>1. Len(c) = 1
    BY <1>1
  <2>. HIDE DEF c
  <2>2. /\ c \o r \in Seq(Packets) /\ Len(c \o r) = Len(c) + Len(r)
        /\ \A i \in 1 .. Len(c) + Len(r) :
              \/ i \in 1 .. Len(c) /\ (c \o r)[i] = c[i]
              \/ i - Len(c) \in 1 .. Len(r) /\ (c \o r)[i] = r[i - Len(c)]
    BY <1>1, <1>2, Concat DEF c
  <2> QED BY <2>1, <2>2 DEF c
<1>. HIDE DEF t
<1>4. ASSUME NEW i \in 1 .. Len(t) PROVE t[i] = q[i + 0] \/ t[i].kind = "damaged"
  <2>1. \/ i \in 1 .. 1 /\ t[i] = <<p>>[i]
        \/ i - 1 \in 1 .. Len(r) /\ t[i] = r[i - 1]
    BY <1>3
  <2>2. i - 1 \in 1 .. Len(q) - 1 => r[i - 1] = q[i - 1 + 1]
    BY <1>2
  <2> QED BY <1>1, <1>2, <2>1, <2>2
<1>5. 0 \in {0, 1} /\ Len(t) = Len(q) - 0
  BY <1>2, <1>3
<1>6. Fewer(t, q)
  BY <1>4, <1>5 DEF Fewer
<1> QED BY <1>3, <1>6 DEF t, p, r

(* A header that was damaged on the way. *)
LEMMA SpoiltThinner ==
  ASSUME NEW s \in Seq(Headers), s # <<>>, NEW h \in Headers, h.kind \in {"garbled", "truncated"}
  PROVE  LET r == <<h>> \o Tail(s)
         IN  r \in Seq(Headers) /\ Thinner(r, s)
<1>. DEFINE t == Tail(s)
            r == <<h>> \o t
<1>1. <<h>> \in Seq(Headers) /\ Len(<<h>>) = 1 /\ <<h>>[1] = h
  OBVIOUS
<1>2. /\ t \in Seq(Headers) /\ Len(s) \in Nat /\ Len(s) > 0 /\ Len(t) = Len(s) - 1
      /\ \A i \in 1 .. Len(s) - 1 : t[i] = s[i + 1]
  BY TailOf
<1>. HIDE DEF t
<1>3. /\ r \in Seq(Headers) /\ Len(r) = 1 + Len(t)
      /\ \A i \in 1 .. 1 + Len(t) :
            \/ i \in 1 .. 1 /\ r[i] = <<h>>[i]
            \/ i - 1 \in 1 .. Len(t) /\ r[i] = t[i - 1]
  <2>. DEFINE c == <<h>>
  <2>1. Len(c) = 1
    BY <1>1
  <2>. HIDE DEF c
  <2>2. /\ c \o t \in Seq(Headers) /\ Len(c \o t) = Len(c) + Len(t)
        /\ \A i \in 1 .. Len(c) + Len(t) :
              \/ i \in 1 .. Len(c) /\ (c \o t)[i] = c[i]
              \/ i - Len(c) \in 1 .. Len(t) /\ (c \o t)[i] = t[i - Len(c)]
    BY <1>1, <1>2, Concat DEF c
  <2> QED BY <2>1, <2>2 DEF c
<1>. HIDE DEF r
<1>4. ASSUME NEW i \in 1 .. Len(r)
      PROVE  r[i].kind = s[i + 0].kind \/ r[i].kind \in {"garbled", "truncated"}
  <2>1. \/ i \in 1 .. 1 /\ r[i] = <<h>>[i]
        \/ i - 1 \in 1 .. Len(t) /\ r[i] = t[i - 1]
    BY <1>3
  <2>2. i - 1 \in 1 .. Len(s) - 1 => t[i - 1] = s[i - 1 + 1]
    BY <1>2
  <2> QED BY <1>1, <1>2, <2>1, <2>2
<1>5. 0 \in {0, 1} /\ Len(r) = Len(s) - 0
  BY <1>2, <1>3
<1>6. Thinner(r, s)
  BY <1>4, <1>5 DEF Thinner
<1> QED BY <1>3, <1>6 DEF r, t

(* The line and the device may fail at any moment. *)
LEMMA FaultsKeep ==
  ASSUME DeliveryIInv, Damage \/ Lose \/ Repeat \/ Abort
  PROVE  DeliveryIInv'
<1>. DEFINE q == toReceiver
            s == toSender
            d == device
<1>1. /\ Sized(z) /\ q \in Seq(Packets) /\ s \in Seq(Headers) /\ d \in Devices
      /\ d.file <= z.starts /\ z.starts \in Nat /\ d.stored \in Nat
      /\ Consistent(z, q, s, d)
      /\ Live(z) => Flow(z, q, d) /\ Untaken(z, s, d) /\ Held(z, q, d)
  BY DEF DeliveryIInv, Consistent, Sized, Devices
<1>2. Fewer(q, q) /\ Thinner(s, s) /\ (s # <<>> => Tail(s) \in Seq(Headers) /\ Thinner(Tail(s), s))
  BY <1>1, Nothing
<1>3. CASE Damage
  <2>1. CASE /\ q # <<>> /\ z' = z /\ device' = d /\ toSender' = s
             /\ toReceiver' = <<Packet("damaged", 0, 0, 0)>> \o Tail(q)
    <3>. DEFINE t == <<Packet("damaged", 0, 0, 0)>> \o Tail(q)
    <3>1. t \in Seq(Packets) /\ Fewer(t, q) /\ (Live(z) => Flow(z, t, d))
      BY <1>1, <2>1, FlowDamaged, DamagedFewer
    <3>2. toReceiver' = t
      BY <2>1
    <3>. HIDE DEF t
    <3>3. Consistent(z, t, s, d)
      BY <1>1, <1>2, <3>1, CalmKeeps
    <3> QED BY <2>1, <3>2, <3>3 DEF DeliveryIInv
  <2>2. CASE /\ s # <<>> /\ z' = z /\ device' = d /\ toReceiver' = q
             /\ \E kind \in {"garbled", "truncated"} : toSender' = <<Header(kind, 0)>> \o Tail(s)
    <3>1. PICK kind \in {"garbled", "truncated"} : toSender' = <<Header(kind, 0)>> \o Tail(s)
      BY <2>2
    <3>. DEFINE h == Header(kind, 0)
                r == <<h>> \o Tail(s)
    <3>2. h \in Headers /\ h.kind \in {"garbled", "truncated"}
      BY DEF Header, Headers
    <3>. HIDE DEF h
    <3>3. r \in Seq(Headers) /\ Thinner(r, s)
      BY <1>1, <2>2, <3>2, SpoiltThinner
    <3>4. toSender' = r
      BY <3>1 DEF h
    <3>. HIDE DEF r
    <3>5. Consistent(z, q, r, d)
      BY <1>1, <1>2, <3>3, CalmKeeps
    <3> QED BY <2>2, <3>4, <3>5 DEF DeliveryIInv
  <2> QED BY <1>3, <2>1, <2>2 DEF Damage
<1>4. CASE Lose
  <2>1. CASE /\ q # <<>> /\ z' = z /\ device' = d /\ toSender' = s /\ toReceiver' = Tail(q)
             /\ Head(q).kind \in
                  Damageable \ ({"DATA"} \cup IF d.frame THEN {"ZDATA"} ELSE {})
    <3>1. Tail(q) \in Seq(Packets) /\ Fewer(Tail(q), q)
      BY <1>1, <2>1, TailFewer
    <3>2. Head(q) = q[1]
      BY <1>1, <2>1, TailOf
    <3>3. \A pos : Reaches(q[1], pos) => Expects(d, pos)
      BY <2>1, <3>2 DEF Damageable, Reaches, Expects
    <3>4. Live(z) => Flow(z, Tail(q), d)
      BY <1>1, <2>1, <3>3, FlowShrinks
    <3>5. Consistent(z, Tail(q), s, d)
      BY <1>1, <1>2, <3>1, <3>4, CalmKeeps
    <3> QED BY <2>1, <3>5 DEF DeliveryIInv
  <2>2. CASE s # <<>> /\ z' = z /\ device' = d /\ toReceiver' = q /\ toSender' = Tail(s)
    <3>1. Consistent(z, q, Tail(s), d)
      BY <1>1, <1>2, <2>2, CalmKeeps
    <3> QED BY <2>2, <3>1 DEF DeliveryIInv
  <2> QED BY <1>4, <2>1, <2>2 DEF Lose
<1>5. CASE Repeat
  <2>1. PICK h \in CASE d.phase = "waiting" -> {Header("ZRINIT", 0)}
                     [] d.phase = "data"    -> {Header("ZRPOS", d.stored), Header("ZACK", 0)}
                     [] d.phase = "done"    -> {Header("ZRINIT", 0)}
                     [] OTHER               -> {} :
               toSender' = Append(s, h)
    BY <1>5 DEF Repeat
  <2>2. z' = z /\ device' = d /\ toReceiver' = q
    BY <1>5 DEF Repeat
  <2>3. /\ h \in Headers
        /\ \/ d.phase \in {"waiting", "done"} /\ h.kind = "ZRINIT"
           \/ d.phase = "data" /\ h.kind \in {"ZRPOS", "ZACK"}
    BY <1>1, <2>1 DEF Header, Headers, Devices
  <2>4. Append(s, h) \in Seq(Headers)
    BY <1>1, <2>3
  <2>5. Consistent(z, q, Append(s, h), d)
    <3>1. CASE d.phase \in {"waiting", "done"} /\ h.kind = "ZRINIT"
      <4>1. d.phase # "data" /\ (Live(z) => \/ ~Taken(z, d)
                                            \/ Whole(z, d) /\ Taken(z, d) /\ d.phase = "done")
        BY <1>1, <3>1 DEF Held
      <4> QED BY <1>1, <1>2, <2>3, <3>1, <4>1, InitKeeps
    <3>2. CASE d.phase = "data" /\ h.kind \in {"ZRPOS", "ZACK"}
      BY <1>1, <1>2, <2>3, <2>4, <3>2, CalmKeeps
    <3> QED BY <2>3, <3>1, <3>2
  <2> QED BY <2>1, <2>2, <2>5 DEF DeliveryIInv
<1>6. CASE Abort
  <2>. DEFINE e == [d EXCEPT !.phase = "stopped", !.frame = FALSE]
              h == Header("ZABORT", 0)
  <2>1. z' = z /\ toReceiver' = q /\ device' = e /\ toSender' = Append(s, h)
    BY <1>6 DEF Abort
  <2>2. h \in Headers /\ h.kind = "ZABORT"
    BY DEF Header, Headers
  <2>3. /\ e \in Devices /\ e.phase = "stopped"
        /\ e.file = d.file /\ e.stored = d.stored /\ e.exact = d.exact /\ e.skipped = d.skipped
    BY <1>1 DEF Devices
  <2>. HIDE DEF e, h
  <2>4. Append(s, h) \in Seq(Headers)
    BY <1>1, <2>2
  <2>5. Live(z) => Flow(z, q, e)
    BY <1>1, <2>3, FlowOf
  <2>6. Consistent(z, q, Append(s, h), e)
    BY <1>1, <1>2, <2>2, <2>3, <2>4, <2>5, CalmKeeps
  <2> QED BY <2>1, <2>6 DEF DeliveryIInv
<1> QED BY <1>3, <1>4, <1>5, <1>6

(* Nothing is under way at the beginning. *)
LEMMA DeliveryStarts == LinkInit => DeliveryIInv
<1>. SUFFICES ASSUME LinkInit PROVE DeliveryIInv
  OBVIOUS
<1>1. /\ z = [state |-> "Idle", size |-> 0, pos |-> 0, offset |-> 0, retries |-> 0,
              timer |-> FALSE, live |-> 0, stale |-> 0, partial |-> FALSE, out |-> <<>>,
              starts |-> 0, failed |-> 0, ok |-> 0]
      /\ toReceiver = <<>> /\ toSender = <<>> /\ device = FreshDevice
  BY DEF LinkInit, Init
<1>2. Sized(z) /\ ~Live(z) /\ z.starts = 0
  <2>1. <<>> \in Seq(Packets) /\ 0 \in 0 .. 0
    OBVIOUS
  <2> QED BY <1>1, <2>1 DEF Sized, Members, Live
<1>3. FreshDevice \in Devices /\ FreshDevice.file = 0
  BY DEF FreshDevice, Devices
<1>4. <<>> \in Seq(Packets) /\ <<>> \in Seq(Headers) /\ Begun(z, <<>>)
  BY DEF Begun
<1> QED BY <1>1, <1>2, <1>3, <1>4 DEF DeliveryIInv, Consistent

(* Every step of the link keeps the invariant, and finished(true) comes with the
   whole file. *)
LEMMA DeliveryStep ==
  ASSUME DeliveryIInv, [LinkNext]_linkVars
  PROVE  DeliveryIInv' /\ (z'.ok > z.ok => Whole(z, device))
<1>1. /\ Sized(z) /\ z.ok \in Nat /\ toReceiver \in Seq(Packets) /\ toSender \in Seq(Headers)
      /\ device \in Devices /\ z.starts \in Nat /\ Begun(z, toReceiver)
      /\ Consistent(z, toReceiver, toSender, device)
  BY DEF DeliveryIInv, Consistent, Sized
<1>2. ASSUME Does(z', "none"), Transmit, UNCHANGED <<toSender, device>>
      PROVE  DeliveryIInv' /\ z'.ok = z.ok
  <2>1. Consistent(z', toReceiver \o z'.out, toSender, device)
    BY <1>1, <1>2, OwnStepKeeps
  <2>2. z'.ok = z.ok
    BY <1>2, Courses DEF Ends
  <2> QED BY <1>2, <2>1, <2>2 DEF DeliveryIInv, Transmit
<1>3. CASE Start
  <2>1. Opens(z')
    BY <1>1, <1>3, StartDoes DEF Start
  <2>2. /\ toReceiver = <<>> /\ toSender = <<>> /\ device.phase # "data"
        /\ toReceiver' = toReceiver \o z'.out /\ UNCHANGED <<toSender, device>>
    BY <1>3 DEF Start, Transmit
  <2>3. Consistent(z', <<>> \o z'.out, <<>>, device)
    BY <1>1, <2>1, <2>2, StartKeeps
  <2> QED BY <1>1, <2>1, <2>2, <2>3 DEF DeliveryIInv, Opens
<1>4. CASE Cancel
  <2>1. Does(z', "none") /\ Transmit /\ UNCHANGED <<toSender, device>>
    BY <1>1, <1>4, CancelDoes DEF Cancel, cancelTransfer, Does
  <2> QED BY <1>1, <1>2, <2>1
<1>5. CASE Deliver
  BY <1>5, DeliverKeeps
<1>6. CASE Continue
  <2>1. Does(z', "none") /\ Transmit /\ UNCHANGED <<toSender, device>>
    BY <1>1, <1>6, ContinueDoes DEF Continue
  <2> QED BY <1>1, <1>2, <2>1
<1>7. CASE SenderTimeout \/ EarlyTimeout
  <2>1. Does(z', "none") /\ Transmit /\ UNCHANGED <<toSender, device>>
    BY <1>1, <1>7, TimeoutDoes DEF SenderTimeout, EarlyTimeout
  <2> QED BY <1>1, <1>2, <2>1
<1>8. CASE Receive
  <2>1. PICK a \in Answers(device, Head(toReceiver)) :
                device' = a.d /\ toSender' = toSender \o a.says
    BY <1>8 DEF Receive
  <2>2. toReceiver # <<>> /\ toReceiver' = Tail(toReceiver) /\ z' = z
    BY <1>8 DEF Receive
  <2>3. Consistent(z, Tail(toReceiver), toSender \o a.says, a.d)
    BY <1>1, <2>1, <2>2, DeviceKeeps
  <2> QED BY <1>1, <2>1, <2>2, <2>3 DEF DeliveryIInv
<1>9. CASE Restart
  <2>1. ~Live(z) /\ device' = FreshDevice /\ z' = z /\ UNCHANGED <<toReceiver, toSender>>
    BY <1>9 DEF Restart, Live, isActive, line
  <2>2. FreshDevice \in Devices /\ FreshDevice.file = 0
    BY DEF FreshDevice, Devices
  <2>3. Consistent(z, toReceiver, toSender, FreshDevice)
    BY <1>1, <2>1, <2>2 DEF Consistent
  <2> QED BY <1>1, <2>1, <2>3 DEF DeliveryIInv
<1>10. CASE Damage \/ Lose \/ Repeat \/ Abort
  <2>1. z' = z
    BY <1>10 DEF Damage, Lose, Repeat, Abort
  <2> QED BY <1>1, <1>10, <2>1, FaultsKeep
<1>11. CASE UNCHANGED linkVars
  BY <1>1, <1>11 DEF linkVars, line, DeliveryIInv
<1> QED BY <1>3, <1>4, <1>5, <1>6, <1>7, <1>8, <1>9, <1>10, <1>11 DEF LinkNext

(* finished(true) is emitted only if the device holds the file of this very
   transfer whole and in order, or has skipped it. *)
THEOREM DeliveryCorrect == LinkSpec => SuccessMeansDelivered
<1>1. DeliveryIInv /\ [LinkNext]_linkVars => DeliveryIInv'
  BY DeliveryStep
<1>2. DeliveryIInv /\ [LinkNext]_linkVars
        => [z'.ok > z.ok => /\ device.file = z.starts
                            /\ device.skipped \/ (device.exact /\ device.stored = z.size)]_linkVars
  BY DeliveryStep DEF Whole, Taken
<1> QED BY <1>1, <1>2, DeliveryStarts, PTL DEF LinkSpec, SuccessMeansDelivered
===============================================================================
