----------------------- MODULE FileTransmissionProofs -----------------------
(***************************************************************************)
(* The safety properties of both senders behind their front end, for every *)
(* file, block size, block-number modulus and retry limit, and for every   *)
(* order of starts, stops, mode changes, bytes and timeouts; and of the    *)
(* link behind it, for any number of faults.                               *)
(*                                                                         *)
(* The properties are not inductive one by one: a retransmission reads     *)
(* what the previous send left in lastBlockStart, lastBlockBytes and       *)
(* bytesSent, so the invariants say for every state where the file stands. *)
(* In XMODEM's mode XModem's invariant holds and the batch machine rests;  *)
(* in YMODEM's mode BatchIInv holds.  An idle sender satisfies both, which *)
(* is why the mode may change only once the sender is stopped.             *)
(*                                                                         *)
(* On the link a packet or its answer is under way, never both.  So the    *)
(* device either holds the file up to the block in flight or that block    *)
(* too, the number of the block tells which, and no ACK is on its way      *)
(* before it was stored.                                                   *)
(***************************************************************************)
EXTENDS XModemLink, TLAPS

-----------------------------------------------------------------------------
(* XModem alone *)

(* Where the file stands in each state of the sender. *)
PositionInv ==
    /\ state = "Idle" =>
          filePos = 0 /\ bytesSent = 0 /\ lastBlockStart = 0 /\ lastBlockBytes = 0
    /\ state = "WaitingForStart" =>
          filePos = 0 /\ bytesSent = 0 /\ lastBlockStart = 0 /\ lastBlockBytes = 0
    /\ RewindIsExact
    /\ EotAfterWholeFile

(* What the retry counters and the verdicts have to do with the state. *)
CounterInv ==
    /\ TimerGuardsEveryWait
    /\ OneVerdictPerTransfer
    /\ blockErrors <= retryCount
    /\ state = "Idle" => blockErrors = 0

IInv == TypeOK /\ PositionInv /\ CounterInv

(* What the proofs need of the constants. *)
LEMMA Constants ==
  /\ FileSizes \subseteq Nat
  /\ BlockSize \in Nat /\ BlockSize > 0
  /\ NumModulus \in Nat /\ NumModulus > 1
  /\ MaxRetries \in Nat /\ MaxRetries > 0
  BY FileSizesAssumption, BlockSizeAssumption, NumModulusAssumption, MaxRetriesAssumption

(* A remainder is smaller than its modulus. *)
LEMMA ModRange ==
  ASSUME NEW a \in Nat, NEW b \in Nat, b > 0
  PROVE  a % b \in 0 .. b - 1
  OBVIOUS

(* The constructor of the sender establishes the invariant. *)
LEMMA InitIInv == Init => IInv
  BY Constants DEF Init, IInv, TypeOK, States, PositionInv, RewindIsExact,
         BehindLastBlock, EotAfterWholeFile, CounterInv, TimerGuardsEveryWait,
         OneVerdictPerTransfer, isActive

(* A verdict leaves the object idle and accounts for one transfer. *)
LEMMA FinishIInv ==
  ASSUME IInv, isActive, NEW ok \in BOOLEAN, NEW packets, Finish(ok, packets),
         UNCHANGED starts, errorCount' \in Nat
  PROVE  IInv'
  BY Constants DEF Finish, resetState, IInv, TypeOK, States, PositionInv, RewindIsExact,
         BehindLastBlock, EotAfterWholeFile, CounterInv, TimerGuardsEveryWait,
         OneVerdictPerTransfer, isActive

(* A block sent from a position inside the file re-establishes the invariant. *)
LEMMA SendBlockIInv ==
  ASSUME IInv, isActive, NEW pos \in 0 .. fileSize, NEW num \in 0 .. NumModulus - 1,
         sendBlock(pos, num, pos), UNCHANGED starts, errorCount' \in Nat,
         retryCount' \in 0 .. MaxRetries - 1, blockErrors' \in 0 .. retryCount'
  PROVE  IInv'
  BY Constants DEF sendBlock, sendEOT, ReadLength, SmallerOf, IInv, TypeOK, States, PositionInv,
         RewindIsExact, BehindLastBlock, EotAfterWholeFile, CounterInv, TimerGuardsEveryWait,
         OneVerdictPerTransfer, isActive

(* EOT sent from the end of the file re-establishes the invariant. *)
LEMMA SendEotIInv ==
  ASSUME IInv, isActive, sendEOT, filePos = fileSize, bytesSent = fileSize,
         UNCHANGED <<file, starts>>, errorCount' \in Nat,
         blockNumber' \in 0 .. NumModulus - 1,
         retryCount' \in 0 .. MaxRetries - 1, blockErrors' \in 0 .. retryCount'
  PROVE  IInv'
  BY Constants DEF sendEOT, file, IInv, TypeOK, States, PositionInv, RewindIsExact,
         BehindLastBlock, EotAfterWholeFile, CounterInv, TimerGuardsEveryWait,
         OneVerdictPerTransfer, isActive

(* A step that changes nothing but the output keeps the invariant. *)
LEMMA QuietIInv ==
  ASSUME IInv, UNCHANGED <<file, proto, history>>
  PROVE  IInv'
  BY Constants DEF file, proto, history, IInv, TypeOK, PositionInv, RewindIsExact,
         BehindLastBlock, EotAfterWholeFile, CounterInv, TimerGuardsEveryWait,
         OneVerdictPerTransfer, isActive

(* startTransfer preserves the invariant, whether the file opens or not. *)
LEMMA StartIInv == IInv /\ (startTransfer \/ startUnreadable) => IInv'
<1> SUFFICES ASSUME IInv, startTransfer \/ startUnreadable PROVE IInv'
  OBVIOUS
<1> USE DEF IInv, TypeOK, States, PositionInv, CounterInv, RewindIsExact, BehindLastBlock,
        EotAfterWholeFile, TimerGuardsEveryWait, OneVerdictPerTransfer, isActive
<1>1. CASE startTransfer
  <2>1. PICK size \in FileSizes : fileSize' = size
    BY <1>1 DEF startTransfer, startFrom
  <2>2. fileSize' \in Nat
    BY <2>1, Constants
  <2>3. CASE isActive
    BY <1>1, <2>2, <2>3, Constants DEF startTransfer, startFrom
  <2>4. CASE ~isActive
    <3>1. /\ result' = result /\ starts' = starts + 1 /\ blockErrors' = 0 /\ errorCount' = 0
          /\ state' = "WaitingForStart" /\ timer' = "armed" /\ filePos' = 0 /\ bytesSent' = 0
          /\ blockNumber' = 1 /\ retryCount' = 0
          /\ UNCHANGED <<lastBlockStart, lastBlockBytes>>
      BY <1>1, <2>4 DEF startTransfer, startFrom
    <3> QED BY <2>2, <2>4, <3>1, Constants
  <2> QED BY <2>3, <2>4
<1>2. CASE startUnreadable
  <2>1. CASE isActive
    BY <1>2, <2>1, Constants DEF startUnreadable, resetState
  <2>2. CASE ~isActive
    <3>1. result' = [result EXCEPT !.failed = @ + 1]
      BY <1>2, <2>2 DEF startUnreadable
    <3>2. result'.failed = result.failed + 1 /\ result'.ok = result.ok
          /\ result' \in [failed : Nat, ok : Nat]
      BY <3>1
    <3>3. resetState /\ starts' = starts + 1 /\ blockErrors' = 0 /\ errorCount' = 0
      BY <1>2 DEF startUnreadable
    <3> QED BY <2>2, <3>2, <3>3, Constants DEF resetState
  <2> QED BY <2>1, <2>2
<1> QED BY <1>1, <1>2

(* The rewind of resendBlock lands on the start of the block in flight. *)
LEMMA ResendIInv ==
  ASSUME IInv, state = "WaitingForAck", resendBlock, UNCHANGED starts, errorCount' \in Nat,
         retryCount' = retryCount + 1, blockErrors' = blockErrors + 1, ~retriesExhausted
  PROVE  IInv'
<1>1. /\ lastBlockStart \in 0 .. fileSize
      /\ LargerOf(0, bytesSent - lastBlockBytes) = lastBlockStart
      /\ blockNumber \in 0 .. NumModulus - 1
  BY Constants DEF IInv, TypeOK, PositionInv, RewindIsExact, BehindLastBlock, LargerOf
<1>2. sendBlock(lastBlockStart, blockNumber, lastBlockStart)
  BY <1>1 DEF resendBlock
<1>3. retryCount' \in 0 .. MaxRetries - 1 /\ blockErrors' \in 0 .. retryCount'
  BY Constants DEF IInv, TypeOK, CounterInv, retriesExhausted
<1> QED BY <1>1, <1>2, <1>3, SendBlockIInv DEF isActive

(* processInput preserves the invariant for every byte in every state. *)
LEMMA InputIInv ==
  ASSUME IInv, NEW ch \in Bytes, processInput(ch)
  PROVE  IInv'
<1> USE DEF isActive
<1>e. errorCount \in Nat /\ retryCount \in 0 .. MaxRetries - 1
  BY Constants DEF IInv, TypeOK
<1>1. CASE receiveStart(ch)
  <2>1. CASE ch = "C" /\ sendBlock(filePos, blockNumber, bytesSent)
                      /\ UNCHANGED <<retryCount, blockErrors>>
    <3>1. filePos \in 0 .. fileSize /\ bytesSent = filePos /\ blockNumber \in 0 .. NumModulus - 1
      BY <1>1 DEF IInv, TypeOK, PositionInv, receiveStart
    <3>2. blockErrors' \in 0 .. retryCount'
      BY <2>1 DEF IInv, TypeOK, CounterInv
    <3> QED BY <1>1, <1>e, <2>1, <3>1, <3>2, SendBlockIInv DEF receiveStart
  <2>2. CASE FileError
    BY <1>1, <1>e, <2>2, FinishIInv DEF FileError, receiveStart
  <2>3. CASE ch # "C"
    BY <1>1, <2>3, QuietIInv DEF receiveStart, history
  <2> QED BY <1>1, <2>1, <2>2, <2>3 DEF receiveStart
<1>2. CASE receiveAck(ch)
  <2>0. /\ state = "WaitingForAck"
        /\ filePos \in 0 .. fileSize /\ bytesSent = filePos
        /\ (blockNumber + 1) % NumModulus \in 0 .. NumModulus - 1
    <3>1. blockNumber + 1 \in Nat
      BY DEF IInv, TypeOK
    <3>2. (blockNumber + 1) % NumModulus \in 0 .. NumModulus - 1
      BY <3>1, Constants, ModRange
    <3> QED BY <1>2, <3>2 DEF receiveAck, IInv, TypeOK, PositionInv, RewindIsExact, BehindLastBlock
  <2>1. CASE ch = "ACK" /\ handleAck
    <3>1. CASE /\ sendBlock(filePos, (blockNumber + 1) % NumModulus, bytesSent)
               /\ retryCount' = 0 /\ blockErrors' = 0
      BY <1>e, <2>0, <2>1, <3>1, Constants, SendBlockIInv DEF handleAck
    <3>2. CASE /\ atEnd(filePos) /\ sendEOT
               /\ blockNumber' = (blockNumber + 1) % NumModulus
               /\ retryCount' = 0 /\ blockErrors' = 0 /\ UNCHANGED file
      BY <1>e, <2>0, <2>1, <3>2, Constants, SendEotIInv DEF handleAck, atEnd
    <3>3. CASE FileError
      BY <1>e, <2>0, <2>1, <3>3, FinishIInv DEF FileError, handleAck
    <3> QED BY <2>1, <3>1, <3>2, <3>3 DEF handleAck
  <2>2. CASE ch = "NAK" /\ handleNak
    <3>1. CASE retriesExhausted
      BY <1>e, <2>0, <2>2, <3>1, FinishIInv DEF handleNak
    <3>2. CASE ~retriesExhausted /\ resendBlock /\ retryCount' = retryCount + 1
                                 /\ blockErrors' = blockErrors + 1
      BY <1>e, <2>0, <2>2, <3>2, ResendIInv DEF handleNak
    <3>3. CASE ~retriesExhausted /\ FileError
      <4>1. errorCount' \in Nat
        BY <1>e, <2>2, <3>3 DEF handleNak
      <4> QED BY <2>0, <2>2, <3>3, <4>1, FinishIInv DEF handleNak, FileError
    <3> QED BY <2>2, <3>1, <3>2, <3>3 DEF handleNak
  <2>3. CASE ch = "CAN"
    BY <1>2, <1>e, <2>0, <2>3, FinishIInv DEF receiveAck
  <2>4. CASE ch \notin {"ACK", "NAK", "CAN"}
    BY <1>2, <2>4, QuietIInv DEF receiveAck
  <2> QED BY <1>2, <2>1, <2>2, <2>3, <2>4 DEF receiveAck
<1>3. CASE receiveEotAck(ch)
  <2>1. CASE ch = "ACK"
    BY <1>3, <1>e, <2>1, FinishIInv DEF receiveEotAck
  <2>2. CASE ch = "NAK"
    <3>1. filePos = fileSize /\ bytesSent = fileSize /\ blockErrors' \in 0 .. retryCount'
          /\ blockNumber' \in 0 .. NumModulus - 1
      BY <1>3, <2>2 DEF receiveEotAck, IInv, TypeOK, PositionInv, EotAfterWholeFile, CounterInv
    <3> QED BY <1>3, <1>e, <2>2, <3>1, SendEotIInv DEF receiveEotAck
  <2>3. CASE ch \notin {"ACK", "NAK"}
    BY <1>3, <2>3, QuietIInv DEF receiveEotAck, history
  <2> QED BY <2>1, <2>2, <2>3
<1> QED BY <1>1, <1>2, <1>3 DEF processInput

(* handleTimeout preserves the invariant. *)
LEMMA TimeoutIInv == IInv /\ handleTimeout => IInv'
<1> SUFFICES ASSUME IInv, handleTimeout PROVE IInv'
  OBVIOUS
<1>e. errorCount \in Nat /\ retryCount \in 0 .. MaxRetries - 1
  BY Constants DEF IInv, TypeOK
<1>1. CASE retriesExhausted
  BY <1>e, <1>1, FinishIInv DEF handleTimeout
<1>2. CASE ~retriesExhausted /\ state = "WaitingForStart"
  BY <1>2, Constants DEF handleTimeout, retriesExhausted, file, IInv, TypeOK, States, PositionInv,
     RewindIsExact, BehindLastBlock, EotAfterWholeFile, CounterInv, TimerGuardsEveryWait,
     OneVerdictPerTransfer, isActive
<1>3. CASE ~retriesExhausted /\ state = "WaitingForAck" /\ FileError
  <2>1. errorCount' \in Nat
    BY <1>e, <1>3 DEF handleTimeout
  <2> QED BY <1>3, <2>1, FinishIInv DEF handleTimeout, FileError
<1>4. CASE ~retriesExhausted /\ state = "WaitingForAck" /\ resendBlock
           /\ retryCount' = retryCount + 1 /\ blockErrors' = blockErrors + 1
  BY <1>e, <1>4, ResendIInv DEF handleTimeout
<1>5. CASE ~retriesExhausted /\ state = "WaitingForEOTAck"
  <2>1. /\ filePos = fileSize /\ bytesSent = fileSize
        /\ retryCount' \in 0 .. MaxRetries - 1 /\ blockErrors' \in 0 .. retryCount'
        /\ blockNumber' \in 0 .. NumModulus - 1
    BY <1>5, Constants DEF handleTimeout, retriesExhausted, IInv, TypeOK, PositionInv,
       EotAfterWholeFile, CounterInv
  <2> QED BY <1>e, <1>5, <2>1, SendEotIInv DEF handleTimeout
<1> QED BY <1>1, <1>2, <1>3, <1>4, <1>5 DEF handleTimeout

(* Every step of the sender preserves the invariant. *)
LEMMA NextIInv == IInv /\ [Next]_xvars => IInv'
<1> SUFFICES ASSUME IInv, [Next]_xvars PROVE IInv'
  OBVIOUS
<1>1. CASE startTransfer \/ startUnreadable
  BY <1>1, StartIInv
<1>2. CASE cancelTransfer
  BY <1>2, FinishIInv DEF cancelTransfer, IInv, TypeOK
<1>3. CASE \E ch \in Bytes : processInput(ch)
  BY <1>3, InputIInv
<1>4. CASE handleTimeout
  BY <1>4, TimeoutIInv
<1>5. CASE UNCHANGED xvars
  BY <1>5, QuietIInv DEF xvars
<1> QED BY <1>1, <1>2, <1>3, <1>4, <1>5 DEF Next

(* Every state of the sender satisfies the invariant. *)
THEOREM Invariance == Spec => []IInv
  BY InitIInv, NextIInv, PTL DEF Spec

(* Type correctness of the sender, whatever bytes it receives and whenever
   its timer fires. *)
THEOREM TypeCorrect == Spec => []TypeOK
<1>1. IInv => TypeOK
  BY DEF IInv
<1> QED BY <1>1, Invariance, PTL

(* A retransmission rewinds the file and the progress exactly. *)
THEOREM RewindCorrect == Spec => []RewindIsExact
<1>1. IInv => RewindIsExact
  BY DEF IInv, PositionInv
<1> QED BY <1>1, Invariance, PTL

(* EOT is sent only once the whole file has been handed to the line. *)
THEOREM EotCorrect == Spec => []EotAfterWholeFile
<1>1. IInv => EotAfterWholeFile
  BY DEF IInv, PositionInv
<1> QED BY <1>1, Invariance, PTL

(* finished() is emitted exactly once per startTransfer. *)
THEOREM VerdictCorrect == Spec => []OneVerdictPerTransfer
<1>1. IInv => OneVerdictPerTransfer
  BY DEF IInv, CounterInv
<1> QED BY <1>1, Invariance, PTL

(* A waiting sender always has a timer, and an idle one never has. *)
THEOREM TimerCorrect == Spec => []TimerGuardsEveryWait
<1>1. IInv => TimerGuardsEveryWait
  BY DEF IInv, CounterInv
<1> QED BY <1>1, Invariance, PTL

(* No block is retransmitted beyond the configured number of retries. *)
THEOREM RetransmissionBounded == Spec => []BoundedRetransmission
<1>1. IInv => BoundedRetransmission
  BY Constants DEF IInv, CounterInv, TypeOK, BoundedRetransmission
<1> QED BY <1>1, Invariance, PTL

-----------------------------------------------------------------------------
(* The front end over both senders *)

(* Where the file stands in each state of the batch. *)
BatchPosition ==
    /\ yState \in YStates /\ state \in {"Idle", "WaitingForStart"}
    /\ MachinesAgree
    /\ state = "Idle" =>
          filePos = 0 /\ bytesSent = 0 /\ lastBlockStart = 0 /\ lastBlockBytes = 0
    /\ yState \in {"WaitingForInitialC", "WaitingForBlock0Ack", "WaitingForDataC"} =>
          filePos = 0 /\ bytesSent = 0
    /\ yState = "WaitingForDataAck" => BehindLastBlock
    /\ EotAfterWholeBatchFile

(* The counters, and that only a data block in flight has errors of its own. *)
BatchCounter ==
    /\ TimerGuardsEveryWait
    /\ OneVerdictPerTransfer
    /\ blockErrors <= retryCount
    /\ yState # "WaitingForDataAck" => blockErrors = 0

BatchIInv == TypeOK /\ BatchPosition /\ BatchCounter

FileIInv ==
    /\ mode \in Modes
    /\ mode = "XModem" => IInv /\ yState \in {"Idle", "Done"}
    /\ mode = "YModem" => BatchIInv

-----------------------------------------------------------------------------
(* The batch *)

(* A sender at rest satisfies the invariants of both modes. *)
LEMMA RestIsRest ==
  ASSUME ~isActive, yState \in {"Idle", "Done"}, IInv \/ BatchIInv
  PROVE  IInv /\ BatchIInv
  BY Constants DEF IInv, BatchIInv, PositionInv, CounterInv, BatchPosition, BatchCounter,
         MachinesAgree, EotAfterWholeBatchFile, RewindIsExact, EotAfterWholeFile, isActive,
         YStates, BehindLastBlock

(* A verdict leaves the sender at rest and accounts for one transfer. *)
LEMMA BatchFinishes ==
  ASSUME BatchIInv, isActive, NEW ok \in BOOLEAN, NEW packets, yFinish(ok, packets),
         UNCHANGED starts, errorCount' \in Nat
  PROVE  BatchIInv'
  BY Constants DEF yFinish, Finish, resetState, BatchIInv, TypeOK, States, YStates, BatchPosition,
         BatchCounter, BehindLastBlock, EotAfterWholeBatchFile, MachinesAgree,
         TimerGuardsEveryWait, OneVerdictPerTransfer, isActive

(* A block sent from a position inside the file re-establishes the invariant. *)
LEMMA BatchSends ==
  ASSUME BatchIInv, isActive, NEW pos \in 0 .. fileSize, NEW num \in 0 .. NumModulus - 1,
         sendDataBlock(pos, num, pos), UNCHANGED starts, errorCount' \in Nat,
         retryCount' \in 0 .. MaxRetries - 1, blockErrors' \in 0 .. retryCount',
         pos < fileSize \/ blockErrors' = 0
  PROVE  BatchIInv'
<1>1. /\ fileSize \in Nat /\ lastBlockBytes \in Nat /\ state = "WaitingForStart"
      /\ starts = result.failed + result.ok + 1
      /\ result \in [failed : Nat, ok : Nat] /\ starts \in Nat
  BY DEF BatchIInv, TypeOK, BatchPosition, BatchCounter, OneVerdictPerTransfer, isActive
<1>2. CASE pos = fileSize
  <2>1. ReadLength(pos) = 0
    BY <1>1, <1>2, Constants DEF ReadLength, SmallerOf
  <2> QED
    BY <1>1, <1>2, <2>1, Constants DEF sendDataBlock, SmallerOf, BatchIInv, TypeOK, States,
       YStates, BatchPosition, BatchCounter, BehindLastBlock, EotAfterWholeBatchFile,
       MachinesAgree, TimerGuardsEveryWait, OneVerdictPerTransfer, isActive
<1>3. CASE pos < fileSize
  <2>1. ReadLength(pos) \in 1 .. fileSize - pos
    BY <1>1, <1>3, Constants DEF ReadLength, SmallerOf
  <2> QED
    BY <1>1, <1>3, <2>1, Constants DEF sendDataBlock, SmallerOf, BatchIInv, TypeOK, States,
       YStates, BatchPosition, BatchCounter, BehindLastBlock, EotAfterWholeBatchFile,
       MachinesAgree, TimerGuardsEveryWait, OneVerdictPerTransfer, isActive
<1> QED BY <1>1, <1>2, <1>3

(* The rewind lands on the start of the block in flight. *)
LEMMA BatchResends ==
  ASSUME BatchIInv, yState = "WaitingForDataAck", resendDataBlock, UNCHANGED starts,
         errorCount' \in Nat, ~retriesExhausted,
         retryCount' = retryCount + 1, blockErrors' = blockErrors + 1
  PROVE  BatchIInv'
<1>1. /\ lastBlockStart \in 0 .. fileSize /\ lastBlockStart < fileSize
      /\ LargerOf(0, bytesSent - lastBlockBytes) = lastBlockStart
      /\ blockNumber \in 0 .. NumModulus - 1 /\ isActive
  BY Constants DEF BatchIInv, TypeOK, BatchPosition, BehindLastBlock, LargerOf, MachinesAgree
<1>2. sendDataBlock(lastBlockStart, blockNumber, lastBlockStart)
  BY <1>1 DEF resendDataBlock
<1>3. retryCount' \in 0 .. MaxRetries - 1 /\ blockErrors' \in 0 .. retryCount'
  BY Constants DEF BatchIInv, TypeOK, BatchCounter, retriesExhausted
<1> QED BY <1>1, <1>2, <1>3, BatchSends

(* A packet without data and a new wait, from a state where the file stands as the
   new wait needs it. *)
LEMMA BatchWaits ==
  ASSUME BatchIInv, isActive, NEW packets, NEW place \in YStates \ {"Idle", "Done"},
         waitAfter(packets, place), UNCHANGED starts, errorCount' \in Nat,
         retryCount' \in 0 .. MaxRetries - 1, blockErrors' = 0,
         blockNumber' \in 0 .. NumModulus - 1,
         place # "WaitingForDataAck",
         place \in {"WaitingForInitialC", "WaitingForBlock0Ack", "WaitingForDataC"} =>
            filePos = 0 /\ bytesSent = 0,
         place \in {"WaitingForFirstEOTResponse", "WaitingForSecondEOTAck"} =>
            filePos = fileSize /\ bytesSent = fileSize
  PROVE  BatchIInv'
  BY Constants DEF waitAfter, file, BatchIInv, TypeOK, States, YStates, BatchPosition,
         BatchCounter, EotAfterWholeBatchFile, MachinesAgree, TimerGuardsEveryWait,
         OneVerdictPerTransfer, isActive

(* A step that changes nothing but the output keeps the invariant. *)
LEMMA BatchRests ==
  ASSUME BatchIInv, UNCHANGED <<file, proto, yState, history>>
  PROVE  BatchIInv'
  BY Constants DEF file, proto, history, BatchIInv, TypeOK, BatchPosition, BatchCounter,
         BehindLastBlock, EotAfterWholeBatchFile, MachinesAgree, TimerGuardsEveryWait,
         OneVerdictPerTransfer, isActive

(* yStartTransfer preserves the invariant, whether the file opens or not. *)
LEMMA BatchStarts == BatchIInv /\ (yStartTransfer \/ yStartUnreadable) => BatchIInv'
<1> SUFFICES ASSUME BatchIInv, yStartTransfer \/ yStartUnreadable PROVE BatchIInv'
  OBVIOUS
<1> USE DEF BatchIInv, TypeOK, States, YStates, BatchPosition, BatchCounter, BehindLastBlock,
        EotAfterWholeBatchFile, MachinesAgree, TimerGuardsEveryWait, OneVerdictPerTransfer,
        isActive
<1>1. CASE yStartTransfer
  <2>1. PICK size \in FileSizes : fileSize' = size
    BY <1>1 DEF yStartTransfer, startFrom
  <2>2. fileSize' \in Nat
    BY <2>1, Constants
  <2>3. CASE isActive
    BY <1>1, <2>2, <2>3, Constants DEF yStartTransfer, startFrom
  <2>4. CASE ~isActive
    <3>1. /\ result' = result /\ starts' = starts + 1 /\ blockErrors' = 0 /\ errorCount' = 0
          /\ state' = "WaitingForStart" /\ timer' = "armed" /\ filePos' = 0 /\ bytesSent' = 0
          /\ blockNumber' = 0 /\ retryCount' = 0 /\ yState' = "WaitingForInitialC"
          /\ UNCHANGED <<lastBlockStart, lastBlockBytes>>
      BY <1>1, <2>4 DEF yStartTransfer, startFrom
    <3> QED BY <2>2, <2>4, <3>1, Constants
  <2> QED BY <2>3, <2>4
<1>2. CASE yStartUnreadable
  <2>0. yState' = IF isActive THEN "Idle" ELSE yState
    BY <1>2 DEF yStartUnreadable
  <2>1. CASE isActive
    BY <1>2, <2>0, <2>1, Constants DEF yStartUnreadable, startUnreadable, resetState
  <2>2. CASE ~isActive
    <3>1. result' = [result EXCEPT !.failed = @ + 1]
      BY <1>2, <2>2 DEF yStartUnreadable, startUnreadable
    <3>2. result'.failed = result.failed + 1 /\ result'.ok = result.ok
          /\ result' \in [failed : Nat, ok : Nat]
      BY <3>1
    <3>3. resetState /\ starts' = starts + 1 /\ blockErrors' = 0 /\ errorCount' = 0
      BY <1>2 DEF yStartUnreadable, startUnreadable
    <3> QED BY <2>0, <2>2, <3>2, <3>3, Constants DEF resetState
  <2> QED BY <2>1, <2>2
<1> QED BY <1>1, <1>2

(* What the invariant says of the fields that the handlers read. *)
LEMMA BatchFields ==
  ASSUME BatchIInv
  PROVE  /\ errorCount \in Nat /\ retryCount \in 0 .. MaxRetries - 1
         /\ blockNumber \in 0 .. NumModulus - 1
         /\ (blockNumber + 1) % NumModulus \in 0 .. NumModulus - 1
         /\ fileSize \in Nat /\ yState \in YStates
         /\ yState # "WaitingForDataAck" => blockErrors = 0
         /\ yState \notin {"Idle", "Done"} => isActive
<1>1. blockNumber + 1 \in Nat
  BY DEF BatchIInv, TypeOK
<1>2. (blockNumber + 1) % NumModulus \in 0 .. NumModulus - 1
  BY <1>1, Constants, ModRange
<1> QED BY <1>2, Constants DEF BatchIInv, TypeOK, BatchPosition, BatchCounter, MachinesAgree

(* A C asks for the header, the data or the next header. *)
LEMMA BatchAsked ==
  ASSUME BatchIInv, receiveC, UNCHANGED starts
  PROVE  BatchIInv'
<1>e. errorCount' \in Nat
  BY BatchFields DEF receiveC
<1>1. CASE yState = "WaitingForInitialC" /\ waitAfter(<<Header>>, "WaitingForBlock0Ack")
           /\ UNCHANGED <<blockNumber, retryCount, blockErrors>>
  <2>1. filePos = 0 /\ bytesSent = 0 /\ isActive
    BY <1>1, BatchFields DEF BatchIInv, BatchPosition
  <2> QED BY <1>e, <1>1, <2>1, BatchFields, BatchWaits DEF YStates
<1>2. CASE yState = "WaitingForDataC"
           /\ sendDataBlock(filePos, 1, bytesSent) /\ retryCount' = 0 /\ blockErrors' = 0
  <2>1. filePos \in 0 .. fileSize /\ bytesSent = filePos /\ isActive
    BY <1>2, BatchFields DEF BatchIInv, BatchPosition
  <2>2. 1 \in 0 .. NumModulus - 1 /\ retryCount' \in 0 .. MaxRetries - 1
        /\ blockErrors' \in 0 .. retryCount'
    BY <1>2, Constants
  <2>3. sendDataBlock(filePos, 1, filePos)
    BY <1>2, <2>1
  <2> QED BY <1>e, <1>2, <2>1, <2>2, <2>3, BatchSends
<1>3. CASE yState = "WaitingForDataC" /\ YFileError
  BY <1>e, <1>3, BatchFields, BatchFinishes DEF YFileError
<1>4. CASE yState \in {"WaitingForSecondEOTAck", "WaitingForEndBatchC"}
           /\ waitAfter(<<EndOfBatch>>, "WaitingForEndBatchAck")
           /\ UNCHANGED <<blockNumber, retryCount, blockErrors>>
  BY <1>e, <1>4, BatchFields, BatchWaits DEF YStates
<1> QED BY <1>1, <1>2, <1>3, <1>4 DEF receiveC

(* The answer to a data block: the next one, or the first EOT. *)
LEMMA BatchAcknowledged ==
  ASSUME BatchIInv, yState = "WaitingForDataAck", dataAcknowledged, UNCHANGED starts,
         errorCount' \in Nat
  PROVE  BatchIInv'
<1>1. filePos \in 0 .. fileSize /\ bytesSent = filePos /\ isActive
  BY BatchFields, Constants DEF BatchIInv, BatchPosition, BehindLastBlock, TypeOK
<1>2. CASE /\ sendDataBlock(filePos, (blockNumber + 1) % NumModulus, bytesSent)
           /\ retryCount' = 0 /\ blockErrors' = 0
  <2>1. sendDataBlock(filePos, (blockNumber + 1) % NumModulus, filePos)
    BY <1>1, <1>2
  <2>2. retryCount' \in 0 .. MaxRetries - 1 /\ blockErrors' \in 0 .. retryCount'
    BY <1>2, Constants
  <2> QED BY <1>1, <1>2, <2>1, <2>2, BatchFields, BatchSends
<1>3. CASE /\ atEnd(filePos) /\ waitAfter(<<EOT>>, "WaitingForFirstEOTResponse")
           /\ blockNumber' = (blockNumber + 1) % NumModulus
           /\ retryCount' = 0 /\ blockErrors' = 0
  <2>1. filePos = fileSize /\ bytesSent = fileSize /\ retryCount' \in 0 .. MaxRetries - 1
    BY <1>1, <1>3, Constants DEF atEnd
  <2> QED BY <1>1, <1>3, <2>1, BatchFields, BatchWaits DEF YStates
<1>4. CASE YFileError
  BY <1>1, <1>4, BatchFinishes DEF YFileError
<1> QED BY <1>2, <1>3, <1>4 DEF dataAcknowledged

(* An ACK, in every state that knows it. *)
LEMMA BatchACK ==
  ASSUME BatchIInv, receiveACK, UNCHANGED starts
  PROVE  BatchIInv'
<1>e. errorCount' \in Nat /\ MaxRetries \in Nat /\ MaxRetries > 0
  BY BatchFields, Constants DEF receiveACK
<1>1. CASE yState = "WaitingForBlock0Ack" /\ waitAfter(<<>>, "WaitingForDataC")
           /\ retryCount' = 0 /\ UNCHANGED <<blockNumber, blockErrors>>
  <2>1. filePos = 0 /\ bytesSent = 0 /\ isActive
    BY <1>1, BatchFields DEF BatchIInv, BatchPosition
  <2> QED BY <1>e, <1>1, <2>1, BatchFields, BatchWaits DEF YStates
<1>2. CASE yState = "WaitingForDataAck" /\ dataAcknowledged
  BY <1>e, <1>2, BatchAcknowledged
<1>3. CASE yState = "WaitingForFirstEOTResponse" /\ waitAfter(<<EOT>>, "WaitingForSecondEOTAck")
           /\ UNCHANGED <<blockNumber, retryCount, blockErrors>>
  <2>1. filePos = fileSize /\ bytesSent = fileSize /\ isActive
    BY <1>3, BatchFields DEF BatchIInv, BatchPosition, EotAfterWholeBatchFile
  <2> QED BY <1>e, <1>3, <2>1, BatchFields, BatchWaits DEF YStates
<1>4. CASE yState = "WaitingForSecondEOTAck" /\ waitAfter(<<>>, "WaitingForEndBatchC")
           /\ retryCount' = 0 /\ UNCHANGED <<blockNumber, blockErrors>>
  BY <1>e, <1>4, BatchFields, BatchWaits DEF YStates
<1>5. CASE yState = "WaitingForEndBatchAck" /\ yFinish(TRUE, <<>>)
  BY <1>e, <1>5, BatchFields, BatchFinishes
<1> QED BY <1>1, <1>2, <1>3, <1>4, <1>5 DEF receiveACK

(* A NAK repeats the block in flight, or counts as the answer to the first EOT. *)
LEMMA BatchNAK ==
  ASSUME BatchIInv, receiveNAK, UNCHANGED starts
  PROVE  BatchIInv'
<1>1. CASE yState = "WaitingForDataAck" /\ yFinish(FALSE, <<CancelBytes>>) /\ UNCHANGED errorCount
  BY <1>1, BatchFields, BatchFinishes
<1>2. CASE /\ yState = "WaitingForDataAck" /\ ~retriesExhausted
           /\ errorCount' = errorCount + 1
           /\ resendDataBlock
           /\ retryCount' = retryCount + 1 /\ blockErrors' = blockErrors + 1
  BY <1>2, BatchFields, BatchResends
<1>3. CASE yState = "WaitingForDataAck" /\ errorCount' = errorCount + 1 /\ YFileError
  <2>1. errorCount' \in Nat
    BY <1>3, BatchFields
  <2> QED BY <1>3, <2>1, BatchFields, BatchFinishes DEF YFileError
<1>4. CASE /\ yState = "WaitingForFirstEOTResponse"
           /\ waitAfter(<<EOT>>, "WaitingForSecondEOTAck")
           /\ UNCHANGED <<blockNumber, retryCount, errorCount, blockErrors>>
  <2>1. filePos = fileSize /\ bytesSent = fileSize /\ isActive
    BY <1>4, BatchFields DEF BatchIInv, BatchPosition, EotAfterWholeBatchFile
  <2> QED BY <1>4, <2>1, BatchFields, BatchWaits DEF YStates
<1> QED BY <1>1, <1>2, <1>3, <1>4 DEF receiveNAK

(* yProcessInput preserves the invariant for every byte in every state. *)
LEMMA BatchInput ==
  ASSUME BatchIInv, NEW ch \in Bytes, yProcessInput(ch)
  PROVE  BatchIInv'
<1>1. CASE receiveC
  BY <1>1, BatchAsked DEF yProcessInput
<1>2. CASE receiveACK
  BY <1>2, BatchACK DEF yProcessInput
<1>3. CASE receiveNAK
  BY <1>3, BatchNAK DEF yProcessInput
<1>4. CASE receiveCAN
  <2>1. yState \notin {"Idle", "Done"}
    BY <1>4 DEF receiveCAN
  <2> QED BY <1>4, <2>1, BatchFields, BatchFinishes DEF receiveCAN, yProcessInput
<1>5. CASE UNCHANGED <<file, proto, yState, result, errorCount, blockErrors>>
  BY <1>5, BatchRests DEF yProcessInput, history
<1> QED BY <1>1, <1>2, <1>3, <1>4, <1>5 DEF yProcessInput

(* yHandleTimeout preserves the invariant. *)
LEMMA BatchTimeout == BatchIInv /\ yHandleTimeout => BatchIInv'
<1> SUFFICES ASSUME BatchIInv, yHandleTimeout PROVE BatchIInv'
  OBVIOUS
<1>0. isActive /\ UNCHANGED starts
  BY DEF yHandleTimeout
<1>1. CASE yFinish(FALSE, <<CancelBytes>>) /\ UNCHANGED errorCount
  BY <1>0, <1>1, BatchFields, BatchFinishes
<1>2. CASE /\ ~retriesExhausted /\ errorCount' = errorCount + 1
           /\ yState = "WaitingForDataAck" /\ resendDataBlock
           /\ retryCount' = retryCount + 1 /\ blockErrors' = blockErrors + 1
  BY <1>0, <1>2, BatchFields, BatchResends
<1>3. CASE errorCount' = errorCount + 1 /\ YFileError
  <2>1. errorCount' \in Nat
    BY <1>3, BatchFields
  <2> QED BY <1>0, <1>3, <2>1, BatchFinishes DEF YFileError
<1>4. CASE /\ ~retriesExhausted /\ errorCount' = errorCount + 1
           /\ yState # "WaitingForDataAck"
           /\ waitAfter(Repeated, yState)
           /\ retryCount' = retryCount + 1
           /\ UNCHANGED <<blockNumber, blockErrors>>
  <2>1. /\ errorCount' \in Nat /\ retryCount' \in 0 .. MaxRetries - 1 /\ blockErrors' = 0
        /\ blockNumber' \in 0 .. NumModulus - 1
    BY <1>4, BatchFields, Constants DEF retriesExhausted
  <2>2. yState \in YStates \ {"Idle", "Done"}
    BY <1>0 DEF BatchIInv, BatchPosition, MachinesAgree
  <2>3. /\ yState \in {"WaitingForInitialC", "WaitingForBlock0Ack", "WaitingForDataC"} =>
             filePos = 0 /\ bytesSent = 0
        /\ yState \in {"WaitingForFirstEOTResponse", "WaitingForSecondEOTAck"} =>
             filePos = fileSize /\ bytesSent = fileSize
    BY DEF BatchIInv, BatchPosition, EotAfterWholeBatchFile
  <2> QED BY <1>0, <1>4, <2>1, <2>2, <2>3, BatchWaits
<1> QED BY <1>1, <1>2, <1>3, <1>4 DEF yHandleTimeout

-----------------------------------------------------------------------------
(* The front end *)

(* Both senders start at rest. *)
LEMMA FileInit == FInit => FileIInv
  BY InitIInv, RestIsRest DEF FInit, YInit, Init, FileIInv, isActive

(* A cancel leaves the sender of either mode at rest. *)
LEMMA CancelRests ==
  ASSUME FileIInv, cancelActive
  PROVE  ~isActive' /\ yState' \in {"Idle", "Done"} /\ (IInv' \/ BatchIInv')
<1>1. cancelTransfer
  BY DEF cancelActive, yCancelTransfer
<1>2. ~isActive'
  BY <1>1 DEF cancelTransfer, Finish, resetState, isActive
<1>3. CASE mode = "XModem" /\ UNCHANGED yState
  BY <1>1, <1>2, <1>3, FinishIInv DEF FileIInv, cancelTransfer, IInv, TypeOK
<1>4. CASE mode = "YModem" /\ yState' = "Idle"
  <2>1. yFinish(FALSE, <<CancelBytes>>) /\ isActive /\ UNCHANGED starts /\ errorCount' \in Nat
    BY <1>1, <1>4, BatchFields DEF cancelTransfer, yFinish, FileIInv
  <2> QED BY <1>2, <1>4, <2>1, BatchFinishes DEF FileIInv
<1> QED BY <1>3, <1>4 DEF cancelActive, yCancelTransfer

(* At rest the invariant of either mode is that of the other. *)
LEMMA RestServesBothModes ==
  ASSUME ~isActive', yState' \in {"Idle", "Done"}, IInv' \/ BatchIInv', mode' \in Modes
  PROVE  FileIInv'
<1>1. IInv' /\ BatchIInv'
  BY Constants DEF IInv, BatchIInv, TypeOK, PositionInv, CounterInv, BatchPosition, BatchCounter,
     MachinesAgree, EotAfterWholeBatchFile, RewindIsExact, EotAfterWholeFile, isActive,
     YStates, BehindLastBlock, TimerGuardsEveryWait, OneVerdictPerTransfer
<1> QED BY <1>1 DEF FileIInv

(* Every step of the front end preserves the invariant. *)
LEMMA FileNext == FileIInv /\ [FNext]_fvars => FileIInv'
<1> SUFFICES ASSUME FileIInv, [FNext]_fvars PROVE FileIInv'
  OBVIOUS
<1>m. mode \in Modes
  BY DEF FileIInv
<1>1. CASE beginTransmission
  <2>1. CASE mode = "XModem" /\ (startTransfer \/ startUnreadable) /\ UNCHANGED yState
    BY <1>1, <2>1, StartIInv DEF FileIInv, beginTransmission
  <2>2. CASE mode = "YModem" /\ (yStartTransfer \/ yStartUnreadable)
    BY <1>1, <2>2, BatchStarts DEF FileIInv, beginTransmission
  <2> QED BY <1>1, <2>1, <2>2 DEF beginTransmission
<1>2. CASE stopTransmission
  BY <1>2, <1>m, CancelRests, RestServesBothModes DEF stopTransmission
<1>3. ASSUME NEW m \in Modes, setTransferMode(m) PROVE FileIInv'
  <2>1. CASE cancelActive
    BY <1>3, <2>1, CancelRests, RestServesBothModes DEF setTransferMode
  <2>2. CASE ~isActive /\ UNCHANGED <<file, proto, yState, history>>
    <3>1. ~isActive' /\ yState' \in {"Idle", "Done"}
      BY <2>2 DEF FileIInv, Modes, isActive, proto, BatchIInv, BatchPosition, MachinesAgree
    <3>2. IInv' \/ BatchIInv'
      BY <1>m, <2>2, QuietIInv, BatchRests DEF FileIInv, Modes
    <3> QED BY <1>3, <3>1, <3>2, RestServesBothModes DEF setTransferMode
  <2> QED BY <1>3, <2>1, <2>2 DEF setTransferMode
<1>4. ASSUME NEW ch \in Bytes, onRawDataReceived(ch) PROVE FileIInv'
  <2>1. CASE mode = "XModem" /\ processInput(ch) /\ UNCHANGED yState
    BY <1>4, <2>1, InputIInv DEF FileIInv, onRawDataReceived
  <2>2. CASE mode = "YModem" /\ yProcessInput(ch)
    BY <1>4, <2>2, BatchInput DEF FileIInv, onRawDataReceived
  <2>3. CASE UNCHANGED <<file, proto, yState, history>>
    BY <1>4, <2>3, QuietIInv, BatchRests DEF FileIInv, onRawDataReceived
  <2> QED BY <1>4, <2>1, <2>2, <2>3 DEF onRawDataReceived
<1>5. CASE timeout
  <2>1. CASE mode = "XModem" /\ handleTimeout /\ UNCHANGED yState
    BY <1>5, <2>1, TimeoutIInv DEF FileIInv, timeout
  <2>2. CASE mode = "YModem" /\ yHandleTimeout
    BY <1>5, <2>2, BatchTimeout DEF FileIInv, timeout
  <2> QED BY <1>5, <2>1, <2>2 DEF timeout
<1>6. CASE UNCHANGED fvars
  BY <1>6, QuietIInv, BatchRests DEF fvars, yvars, xvars, FileIInv
<1> QED BY <1>1, <1>2, <1>3, <1>4, <1>5, <1>6 DEF FNext

(* The invariant holds in every state of the front end. *)
THEOREM FileInvariance == FSpec => []FileIInv
  BY FileInit, FileNext, PTL DEF FSpec

(* A retransmission of either sender rewinds the file and the progress exactly. *)
THEOREM FileRewindCorrect == FSpec => []RewindsAreExact
<1>1. FileIInv => RewindsAreExact
  BY DEF FileIInv, Modes, IInv, PositionInv, RewindsAreExact, BatchIInv, BatchPosition,
         RewindIsExact
<1> QED BY <1>1, FileInvariance, PTL

(* finished() is emitted exactly once per transfer, in either mode, for the user's
   stop, the mode change and the lost link as for the end of the protocol. *)
THEOREM FileVerdictCorrect == FSpec => []OneVerdictPerTransfer
<1>1. FileIInv => OneVerdictPerTransfer
  BY DEF FileIInv, Modes, IInv, CounterInv, BatchIInv, BatchCounter
<1> QED BY <1>1, FileInvariance, PTL

(* In either mode a transfer that runs has its timer, and no other has. *)
THEOREM FileTimerCorrect == FSpec => []TimerGuardsEveryWait
<1>1. FileIInv => TimerGuardsEveryWait
  BY DEF FileIInv, Modes, IInv, CounterInv, BatchIInv, BatchCounter
<1> QED BY <1>1, FileInvariance, PTL

(* Neither sender repeats a data block beyond the configured number of retries. *)
THEOREM FileRetransmissionBounded == FSpec => []BoundedRetransmission
<1>1. FileIInv => BoundedRetransmission
  BY Constants DEF FileIInv, Modes, IInv, CounterInv, BatchIInv, BatchCounter, TypeOK,
     BoundedRetransmission
<1> QED BY <1>1, FileInvariance, PTL

(* YMODEM's own state and the inherited one agree on whether a transfer runs, so no
   late byte resumes a batch on a closed file. *)
THEOREM FileMachinesAgree == FSpec => [](mode = "YModem" => MachinesAgree)
<1>1. FileIInv => (mode = "YModem" => MachinesAgree)
  BY DEF FileIInv, BatchIInv, BatchPosition
<1> QED BY <1>1, FileInvariance, PTL

(* YMODEM's EOTs follow the whole file. *)
THEOREM FileEotCorrect == FSpec => [](mode = "YModem" => EotAfterWholeBatchFile)
<1>1. FileIInv => (mode = "YModem" => EotAfterWholeBatchFile)
  BY DEF FileIInv, BatchIInv, BatchPosition
<1> QED BY <1>1, FileInvariance, PTL

-----------------------------------------------------------------------------
(* The link *)

(* The four stages of a transfer: no packet was sent yet; a header was, and no
   data; a data block waits for its answer; the whole file was sent. *)
Opening   == \/ mode = "XModem" /\ state = "WaitingForStart"
             \/ mode = "YModem" /\ yState = "WaitingForInitialC"
Announced == mode = "YModem" /\ yState \in {"WaitingForBlock0Ack", "WaitingForDataC"}
InBlock   == \/ mode = "XModem" /\ state = "WaitingForAck"
             \/ mode = "YModem" /\ yState = "WaitingForDataAck"
Ended     == \/ mode = "XModem" /\ state = "WaitingForEOTAck"
             \/ /\ mode = "YModem"
                /\ yState \in {"WaitingForFirstEOTResponse", "WaitingForSecondEOTAck",
                               "WaitingForEndBatchC", "WaitingForEndBatchAck"}

Packets == [kind : {"block", "EOT", "CAN", "header", "end", "damaged"},
            num : Nat, start : Nat, len : Nat]
Phases  == {"starting", "ready", "receiving", "ending", "closing", "done", "stopped"}
Devices == [protocol : Modes, phase : Phases, expected : Nat, file : Nat, stored : Nat,
            exact : BOOLEAN]

LinkTypes ==
    /\ toReceiver \in Seq(Packets) /\ toSender \in Seq(Bytes)
    /\ device \in Devices /\ faults \in Nat

(* The bytes that answer a packet; a C asks for one. *)
Answering == {"ACK", "NAK"}

Has(s, b)  == \E i \in 1 .. Len(s) : s[i] \in b
One(s)     == \A i, j \in 1 .. Len(s) : s[i] \in Answering /\ s[j] \in Answering => i = j
NoBlock(s) == \A i \in 1 .. Len(s) : s[i].kind # "block"

(* The device has the first n bytes of this transfer's file, once and in order. *)
Holds(n) == device.exact /\ device.file \in {0, starts} /\ device.stored = n
Clean    == device.exact /\ device.file = 0 /\ device.stored = 0 /\ device.expected = 1

(* A packet or its answer is on the line, never both, until the file was sent. *)
Orderly ==
    ~Ended /\ isActive =>
        /\ Len(toReceiver) <= 1
        /\ toReceiver # <<>> => ~Has(toSender, Answering)
        /\ One(toSender)

OpeningOK ==
    Opening =>
        /\ ~Has(toSender, Answering)
        /\ \A i \in 1 .. Len(toReceiver) : toReceiver[i] = CancelBytes
        /\ device.phase \in {"starting", "done", "stopped"}
        /\ Has(toSender, {"C"}) => toReceiver = <<>> /\ Clean
        /\ mode = "XModem" => blockNumber = 1

AnnouncedOK ==
    Announced =>
        /\ Holds(0) /\ device.expected = 1
        /\ device.phase \in {"starting", "ready", "done", "stopped"}
        /\ \A i \in 1 .. Len(toReceiver) : toReceiver[i] \in {Header, Control("damaged")}
        /\ yState = "WaitingForDataC" => toReceiver = <<>> /\ ~Has(toSender, Answering)

(* The block in flight is the one stored last, or the next, of which no ACK is
   on its way; its number tells the device which. *)
BlockOK ==
    InBlock =>
        /\ lastBlockBytes = ReadLength(lastBlockStart)
        /\ \A i \in 1 .. Len(toReceiver) :
              toReceiver[i] \in {Block(blockNumber, lastBlockStart, lastBlockBytes),
                                 Control("damaged")}
        /\ \/ Holds(filePos) /\ device.expected = (blockNumber + 1) % NumModulus
           \/ Holds(lastBlockStart) /\ device.expected = blockNumber /\ ~Has(toSender, {"ACK"})

EndedOK == Ended => Holds(fileSize) /\ NoBlock(toReceiver)

LinkIInv ==
    /\ FileIInv /\ LinkTypes
    /\ device.phase = "starting" => Clean
    /\ Orderly /\ OpeningOK /\ AnnouncedOK /\ BlockOK /\ EndedOK

-----------------------------------------------------------------------------
(* Lines *)

(* The rest of a line has nothing the line had not. *)
LEMMA TailHas ==
  ASSUME NEW S, NEW s \in Seq(S), s # <<>>, NEW b
  PROVE  /\ Tail(s) \in Seq(S) /\ Head(s) \in S
         /\ Has(Tail(s), b) => Has(s, b)
         /\ Head(s) \in b => Has(s, b)
<1>1. /\ Tail(s) \in Seq(S) /\ Head(s) \in S /\ Len(s) \in Nat \ {0} /\ Len(Tail(s)) = Len(s) - 1
      /\ Head(s) = s[1] /\ \A i \in 1 .. Len(s) - 1 : Tail(s)[i] = s[i + 1]
  OBVIOUS
<1>2. ASSUME Has(Tail(s), b) PROVE Has(s, b)
  <2>1. PICK i \in 1 .. Len(s) - 1 : Tail(s)[i] \in b
    BY <1>1, <1>2 DEF Has
  <2>2. i + 1 \in 1 .. Len(s) /\ s[i + 1] \in b
    BY <1>1, <2>1
  <2> QED BY <2>2 DEF Has
<1>3. ASSUME Head(s) \in b PROVE Has(s, b)
  <2>1. 1 \in 1 .. Len(s) /\ s[1] \in b
    BY <1>1, <1>3
  <2> QED BY <2>1 DEF Has
<1> QED BY <1>1, <1>2, <1>3

(* A line with one answer has none behind it. *)
LEMMA TailOne ==
  ASSUME NEW S, NEW s \in Seq(S), s # <<>>, One(s)
  PROVE  One(Tail(s)) /\ (Head(s) \in Answering => ~Has(Tail(s), Answering))
<1>1. /\ Len(s) \in Nat \ {0} /\ Len(Tail(s)) = Len(s) - 1
      /\ Head(s) = s[1] /\ \A i \in 1 .. Len(s) - 1 : Tail(s)[i] = s[i + 1]
  OBVIOUS
<1>2. One(Tail(s))
  <2>1. SUFFICES ASSUME NEW i \in 1 .. Len(s) - 1, NEW j \in 1 .. Len(s) - 1,
                        Tail(s)[i] \in Answering, Tail(s)[j] \in Answering
                 PROVE  i = j
    BY <1>1 DEF One
  <2>2. i + 1 \in 1 .. Len(s) /\ j + 1 \in 1 .. Len(s)
    BY <1>1
  <2>3. s[i + 1] \in Answering /\ s[j + 1] \in Answering
    BY <1>1, <2>1
  <2>4. i + 1 = j + 1
    BY <2>2, <2>3 DEF One
  <2> QED BY <2>4
<1>3. ASSUME Head(s) \in Answering, Has(Tail(s), Answering) PROVE FALSE
  <2>1. PICK i \in 1 .. Len(s) - 1 : Tail(s)[i] \in Answering
    BY <1>1, <1>3 DEF Has
  <2>2. i + 1 \in 1 .. Len(s) /\ 1 \in 1 .. Len(s) /\ s[i + 1] \in Answering /\ s[1] \in Answering
    BY <1>1, <1>3, <2>1
  <2>3. i + 1 = 1
    BY <2>2 DEF One
  <2> QED BY <2>3
<1> QED BY <1>2, <1>3

(* Two lines joined have what either had, *)
LEMMA ConcatHas ==
  ASSUME NEW S, NEW s \in Seq(S), NEW t \in Seq(S), NEW b, Has(s \o t, b)
  PROVE  Has(s, b) \/ Has(t, b)
<1>1. /\ Len(s) \in Nat /\ Len(t) \in Nat /\ Len(s \o t) = Len(s) + Len(t)
      /\ \A i \in 1 .. Len(s) + Len(t) :
            (s \o t)[i] = IF i <= Len(s) THEN s[i] ELSE t[i - Len(s)]
  OBVIOUS
<1>2. PICK i \in 1 .. Len(s) + Len(t) : (s \o t)[i] \in b
  BY <1>1 DEF Has
<1>3. CASE i <= Len(s)
  <2>1. i \in 1 .. Len(s) /\ s[i] \in b
    BY <1>1, <1>2, <1>3
  <2> QED BY <2>1 DEF Has
<1>4. CASE ~(i <= Len(s))
  <2>1. i - Len(s) \in 1 .. Len(t) /\ t[i - Len(s)] \in b
    BY <1>1, <1>2, <1>4
  <2> QED BY <2>1 DEF Has
<1> QED BY <1>3, <1>4

(* and one answer if one of them had none. *)
LEMMA ConcatOne ==
  ASSUME NEW S, NEW s \in Seq(S), NEW t \in Seq(S), One(s), One(t),
         ~Has(s, Answering) \/ ~Has(t, Answering)
  PROVE  One(s \o t)
<1>1. /\ Len(s) \in Nat /\ Len(t) \in Nat /\ Len(s \o t) = Len(s) + Len(t)
      /\ \A i \in 1 .. Len(s) + Len(t) :
            (s \o t)[i] = IF i <= Len(s) THEN s[i] ELSE t[i - Len(s)]
  OBVIOUS
<1>2. SUFFICES ASSUME NEW i \in 1 .. Len(s) + Len(t), NEW j \in 1 .. Len(s) + Len(t),
                      (s \o t)[i] \in Answering, (s \o t)[j] \in Answering
               PROVE  i = j
  BY <1>1 DEF One
<1>3. ASSUME NEW k \in 1 .. Len(s) + Len(t), (s \o t)[k] \in Answering
      PROVE  \/ k \in 1 .. Len(s) /\ s[k] \in Answering /\ Has(s, Answering)
             \/ k - Len(s) \in 1 .. Len(t) /\ t[k - Len(s)] \in Answering /\ Has(t, Answering)
  <2>1. CASE k <= Len(s)
    <3>1. k \in 1 .. Len(s) /\ s[k] \in Answering
      BY <1>1, <1>3, <2>1
    <3> QED BY <3>1 DEF Has
  <2>2. CASE ~(k <= Len(s))
    <3>1. k - Len(s) \in 1 .. Len(t) /\ t[k - Len(s)] \in Answering
      BY <1>1, <1>3, <2>2
    <3> QED BY <3>1 DEF Has
  <2> QED BY <2>1, <2>2
<1>4. CASE ~Has(t, Answering)
  BY <1>2, <1>3, <1>4 DEF One
<1>5. CASE ~Has(s, Answering)
  <2>1. i - Len(s) \in 1 .. Len(t) /\ j - Len(s) \in 1 .. Len(t) /\ i - Len(s) = j - Len(s)
    BY <1>2, <1>3, <1>5 DEF One
  <2> QED BY <1>1, <2>1
<1> QED BY <1>4, <1>5

(* Lines of at most two *)
LEMMA Short ==
  /\ \A b : ~Has(<<>>, b)
  /\ One(<<>>) /\ NoBlock(<<>>)
  /\ \A x, b : Has(<<x>>, b) <=> x \in b
  /\ \A x : One(<<x>>) /\ (NoBlock(<<x>>) <=> x.kind # "block")
  /\ One(<<"ACK", "C">>) /\ ~Has(<<"ACK", "C">>, {"NAK"})
  BY DEF Has, One, NoBlock, Answering

(* No block joins, no block stays behind. *)
LEMMA ConcatNoBlock ==
  ASSUME NEW s \in Seq(Packets), NEW t \in Seq(Packets), NoBlock(s), NoBlock(t)
  PROVE  NoBlock(s \o t)
  BY DEF NoBlock

LEMMA TailNoBlock ==
  ASSUME NEW s \in Seq(Packets), s # <<>>, NoBlock(s)
  PROVE  NoBlock(Tail(s)) /\ Head(s).kind # "block"
  BY DEF NoBlock

-----------------------------------------------------------------------------
(* What a step of the sender does *)

(* The transfer ends, or nothing changes. *)
Gone  == ~isActive' /\ out' \in Seq(Packets) /\ UNCHANGED <<mode, starts>>
Rests == out' = <<>> /\ UNCHANGED <<mode, state, yState, file, blockNumber, starts>>

Announces == /\ mode' = "YModem" /\ yState' = "WaitingForBlock0Ack" /\ out' = <<Header>>
             /\ UNCHANGED starts
Agrees    == /\ mode' = "YModem" /\ yState' = "WaitingForDataC" /\ out' = <<>>
             /\ UNCHANGED starts

(* The block from s goes out under number num. *)
Blocks(s, num) ==
    /\ InBlock' /\ ReadLength(s) > 0
    /\ blockNumber' = num /\ lastBlockStart' = s /\ lastBlockBytes' = ReadLength(s)
    /\ filePos' = s + ReadLength(s)
    /\ out' = <<Block(num, s, ReadLength(s))>>
    /\ UNCHANGED <<fileSize, mode, starts>>

Closes == Ended' /\ out' \in Seq(Packets) /\ NoBlock(out') /\ UNCHANGED <<fileSize, starts>>

NextNumber == (blockNumber + 1) % NumModulus

(* What a byte brings about. *)
Reacts(ch) ==
    \/ Gone \/ Rests
    \/ Opening /\ ch = "C" /\ Announces
    \/ Opening /\ ch = "C" /\ Blocks(0, 1)
    \/ Opening /\ ch = "C" /\ fileSize = 0 /\ Closes
    \/ Announced /\ yState = "WaitingForBlock0Ack" /\ ch = "ACK" /\ Agrees
    \/ Announced /\ yState = "WaitingForDataC" /\ ch = "C" /\ Blocks(0, 1)
    \/ Announced /\ yState = "WaitingForDataC" /\ ch = "C" /\ fileSize = 0 /\ Closes
    \/ InBlock /\ ch = "ACK" /\ Blocks(filePos, NextNumber)
    \/ InBlock /\ ch = "ACK" /\ filePos = fileSize /\ Closes
    \/ InBlock /\ ch = "NAK" /\ Blocks(lastBlockStart, blockNumber)
    \/ Ended /\ Closes

(* What the timer brings about. *)
Repeats ==
    \/ Gone
    \/ ~InBlock /\ Rests
    \/ Announced /\ yState = "WaitingForBlock0Ack" /\ Announces
    \/ InBlock /\ Blocks(lastBlockStart, blockNumber)
    \/ Ended /\ Closes

(* What the senders write *)
LEMMA OutPackets ==
  /\ Header \in Packets /\ EndOfBatch \in Packets /\ EOT \in Packets /\ CancelBytes \in Packets
  /\ Control("damaged") \in Packets
  /\ \A num, s, n \in Nat : Block(num, s, n) \in Packets
  /\ Header.kind = "header" /\ EndOfBatch.kind = "end"
  /\ EOT.kind = "EOT" /\ CancelBytes.kind = "CAN"
  BY DEF Header, EndOfBatch, EOT, CancelBytes, Control, Block, Packets

(* What the front end's invariant says of each stage. *)
LEMMA Stages ==
  ASSUME FileIInv
  PROVE  /\ fileSize \in Nat /\ filePos \in Nat /\ lastBlockStart \in Nat /\ lastBlockBytes \in Nat
         /\ bytesSent \in Nat /\ starts \in Nat /\ blockNumber \in 0 .. NumModulus - 1
         /\ result \in [failed : Nat, ok : Nat]
         /\ isActive <=> Opening \/ Announced \/ InBlock \/ Ended
         /\ Opening => ~Announced /\ ~InBlock /\ ~Ended /\ filePos = 0 /\ bytesSent = 0
         /\ Announced => ~InBlock /\ ~Ended /\ filePos = 0 /\ bytesSent = 0
         /\ InBlock => ~Ended /\ BehindLastBlock
  BY DEF FileIInv, Modes, IInv, BatchIInv, TypeOK, States, YStates, PositionInv, BatchPosition,
     RewindIsExact, BehindLastBlock, MachinesAgree, isActive, Opening, Announced, InBlock, Ended

(* A read from within the file *)
LEMMA Reads ==
  ASSUME FileIInv, NEW pos \in 0 .. fileSize
  PROVE  /\ ReadLength(pos) \in Nat /\ pos + ReadLength(pos) <= fileSize
         /\ ReadLength(pos) = 0 <=> pos = fileSize
  BY Stages, Constants DEF ReadLength, SmallerOf

(* What is sent from a position in the file is its block, or EOT at its end. *)
LEMMA SendsBlock ==
  ASSUME FileIInv, mode = "XModem", UNCHANGED <<mode, starts>>, NEW pos \in 0 .. fileSize,
         NEW num, NEW sent, sendBlock(pos, num, sent)
  PROVE  Blocks(pos, num) \/ (pos = fileSize /\ Closes)
<1>0. ReadLength(pos) \in Nat /\ (ReadLength(pos) = 0 <=> pos = fileSize)
  BY Reads
<1>1. CASE ReadLength(pos) = 0
  <2>1. Ended' /\ out' = <<EOT>> /\ UNCHANGED fileSize
    BY <1>1 DEF sendBlock, sendEOT, Ended
  <2> QED BY <1>0, <1>1, <2>1, Short, OutPackets DEF Closes
<1>2. CASE ReadLength(pos) # 0
  BY <1>0, <1>2 DEF sendBlock, Blocks, InBlock
<1> QED BY <1>1, <1>2

LEMMA SendsDataBlock ==
  ASSUME FileIInv, mode = "YModem", UNCHANGED <<mode, starts>>, NEW pos \in 0 .. fileSize,
         NEW num, NEW sent, sendDataBlock(pos, num, sent)
  PROVE  Blocks(pos, num) \/ (pos = fileSize /\ Closes)
<1>0. ReadLength(pos) \in Nat /\ (ReadLength(pos) = 0 <=> pos = fileSize)
  BY Reads
<1>1. CASE ReadLength(pos) = 0
  <2>1. Ended' /\ out' = <<EOT>> /\ UNCHANGED fileSize
    BY <1>1 DEF sendDataBlock, Ended
  <2> QED BY <1>0, <1>1, <2>1, Short, OutPackets DEF Closes
<1>2. CASE ReadLength(pos) # 0
  BY <1>0, <1>2 DEF sendDataBlock, Blocks, InBlock
<1> QED BY <1>1, <1>2

(* The end of a transfer, and the EOT, by what they leave behind *)
LEMMA Ends ==
  ASSUME UNCHANGED <<mode, starts>>, NEW ok, NEW packets \in {<<>>, <<CancelBytes>>},
         Finish(ok, packets)
  PROVE  Gone
<1>1. <<>> \in Seq(Packets) /\ <<CancelBytes>> \in Seq(Packets)
  BY OutPackets
<1> QED BY <1>1 DEF Finish, resetState, Gone, isActive

LEMMA SendsEot ==
  ASSUME mode = "XModem", UNCHANGED <<mode, starts, fileSize>>, sendEOT
  PROVE  Closes
  BY Short, OutPackets DEF sendEOT, Closes, Ended

(* The block in flight is read again from where it began. *)
LEMMA Rereads ==
  ASSUME FileIInv, InBlock
  PROVE  lastBlockStart \in 0 .. fileSize /\ lastBlockStart # fileSize /\ filePos \in 0 .. fileSize
  BY Stages DEF BehindLastBlock

(* XMODEM reacts to a byte in one of the ways of Reacts, *)
LEMMA XModemReacts ==
  ASSUME FileIInv, OpeningOK, mode = "XModem", NEW ch \in Bytes, processInput(ch),
         UNCHANGED <<mode, yState>>
  PROVE  Reacts(ch)
<1>0. UNCHANGED starts
  BY DEF processInput, receiveStart, receiveAck, receiveEotAck, handleAck, handleNak, history
<1>1. CASE receiveStart(ch)
  <2>1. Opening /\ blockNumber = 1 /\ filePos = 0 /\ bytesSent = 0 /\ 0 \in 0 .. fileSize
    BY <1>1, Stages DEF receiveStart, Opening, OpeningOK
  <2>2. CASE ch = "C" /\ sendBlock(filePos, blockNumber, bytesSent)
    <3>1. sendBlock(0, 1, 0)
      BY <2>1, <2>2
    <3> QED BY <1>0, <2>1, <2>2, <3>1, SendsBlock DEF Reacts
  <2>3. CASE FileError
    BY <1>0, <2>3, Ends DEF FileError, Reacts
  <2>4. CASE out' = <<>> /\ UNCHANGED <<file, proto, result, blockErrors>>
    BY <1>0, <2>4 DEF Reacts, Rests, proto
  <2> QED BY <1>1, <2>2, <2>3, <2>4 DEF receiveStart
<1>2. CASE receiveAck(ch)
  <2>1. InBlock /\ filePos \in 0 .. fileSize /\ lastBlockStart \in 0 .. fileSize
        /\ lastBlockStart # fileSize
    BY <1>2, Rereads DEF receiveAck, InBlock
  <2>2. CASE ch = "ACK" /\ handleAck
    <3>1. CASE sendBlock(filePos, (blockNumber + 1) % NumModulus, bytesSent)
      BY <1>0, <2>1, <2>2, <3>1, SendsBlock DEF Reacts, NextNumber
    <3>2. CASE atEnd(filePos) /\ sendEOT /\ UNCHANGED file
      BY <1>0, <2>1, <2>2, <3>2, SendsEot DEF Reacts, atEnd, file
    <3>3. CASE FileError
      BY <1>0, <3>3, Ends DEF FileError, Reacts
    <3> QED BY <2>2, <3>1, <3>2, <3>3 DEF handleAck
  <2>3. CASE ch = "NAK" /\ handleNak
    <3>1. CASE Finish(FALSE, <<CancelBytes>>) \/ FileError
      BY <1>0, <3>1, Ends DEF FileError, Reacts
    <3>2. CASE resendBlock
      BY <1>0, <2>1, <2>3, <3>2, SendsBlock DEF resendBlock, Reacts
    <3> QED BY <2>3, <3>1, <3>2 DEF handleNak
  <2>4. CASE Finish(FALSE, <<>>)
    BY <1>0, <2>4, Ends DEF Reacts
  <2>5. CASE out' = <<>> /\ UNCHANGED <<file, proto, history>>
    BY <2>5, <1>0 DEF Reacts, Rests, proto
  <2> QED BY <1>2, <2>2, <2>3, <2>4, <2>5 DEF receiveAck
<1>3. CASE receiveEotAck(ch)
  <2>1. Ended
    BY <1>3 DEF receiveEotAck, Ended
  <2>2. CASE Finish(TRUE, <<>>)
    BY <1>0, <2>2, Ends DEF Reacts
  <2>3. CASE sendEOT /\ UNCHANGED file
    BY <1>0, <2>1, <2>3, SendsEot DEF Reacts, file
  <2>4. CASE out' = <<>> /\ UNCHANGED <<file, proto>>
    BY <1>0, <2>4 DEF Reacts, Rests, proto
  <2> QED BY <1>3, <2>2, <2>3, <2>4 DEF receiveEotAck
<1> QED BY <1>1, <1>2, <1>3 DEF processInput

(* Whatever YMODEM writes that is no data *)
LEMMA YModemWaits ==
  ASSUME mode = "YModem", UNCHANGED <<mode, starts>>, NEW packets, NEW place,
         waitAfter(packets, place)
  PROVE  /\ place = "WaitingForBlock0Ack" /\ packets = <<Header>> => Announces
         /\ place = "WaitingForDataC" /\ packets = <<>> => Agrees
         /\ /\ place \in {"WaitingForFirstEOTResponse", "WaitingForSecondEOTAck",
                          "WaitingForEndBatchC", "WaitingForEndBatchAck"}
            /\ packets \in {<<>>, <<EOT>>, <<EndOfBatch>>}
            => Closes
<1>1. <<>> \in Seq(Packets) /\ <<EOT>> \in Seq(Packets) /\ <<EndOfBatch>> \in Seq(Packets)
  BY OutPackets
<1>2. NoBlock(<<>>) /\ NoBlock(<<EOT>>) /\ NoBlock(<<EndOfBatch>>)
  BY OutPackets, Short
<1> QED BY <1>1, <1>2 DEF waitAfter, Announces, Agrees, Closes, Ended, file

(* and so does YMODEM. *)
LEMMA YModemReacts ==
  ASSUME FileIInv, mode = "YModem", NEW ch \in Bytes, yProcessInput(ch), UNCHANGED mode
  PROVE  Reacts(ch)
<1>0. UNCHANGED starts
  BY DEF yProcessInput
<1>1. CASE ch = "C" /\ receiveC
  <2>1. CASE yState = "WaitingForInitialC" /\ waitAfter(<<Header>>, "WaitingForBlock0Ack")
    BY <1>0, <1>1, <2>1, YModemWaits DEF Reacts, Opening
  <2>2. CASE yState = "WaitingForDataC" /\ sendDataBlock(filePos, 1, bytesSent)
    <3>1. Announced /\ filePos = 0 /\ 0 \in 0 .. fileSize
      BY <2>2, Stages DEF Announced
    <3>2. sendDataBlock(0, 1, bytesSent)
      BY <2>2, <3>1
    <3> QED BY <1>0, <1>1, <2>2, <3>1, <3>2, SendsDataBlock DEF Reacts
  <2>3. CASE YFileError
    BY <1>0, <2>3, Ends DEF YFileError, yFinish, Reacts
  <2>4. CASE yState \in {"WaitingForSecondEOTAck", "WaitingForEndBatchC"}
             /\ waitAfter(<<EndOfBatch>>, "WaitingForEndBatchAck")
    BY <1>0, <2>4, YModemWaits DEF Reacts, Ended
  <2> QED BY <1>1, <2>1, <2>2, <2>3, <2>4 DEF receiveC
<1>2. CASE ch = "ACK" /\ receiveACK
  <2>1. CASE yState = "WaitingForBlock0Ack" /\ waitAfter(<<>>, "WaitingForDataC")
    BY <1>0, <1>2, <2>1, YModemWaits DEF Reacts, Announced
  <2>2. CASE yState = "WaitingForDataAck" /\ dataAcknowledged
    <3>1. InBlock /\ filePos \in 0 .. fileSize
      BY <2>2, Rereads DEF InBlock
    <3>2. CASE sendDataBlock(filePos, (blockNumber + 1) % NumModulus, bytesSent)
      BY <1>0, <1>2, <3>1, <3>2, SendsDataBlock DEF Reacts, NextNumber
    <3>3. CASE atEnd(filePos) /\ waitAfter(<<EOT>>, "WaitingForFirstEOTResponse")
      BY <1>0, <1>2, <3>1, <3>3, YModemWaits DEF Reacts, atEnd
    <3>4. CASE YFileError
      BY <1>0, <3>4, Ends DEF YFileError, yFinish, Reacts
    <3> QED BY <2>2, <3>2, <3>3, <3>4 DEF dataAcknowledged
  <2>3. CASE \/ /\ yState = "WaitingForFirstEOTResponse"
                /\ waitAfter(<<EOT>>, "WaitingForSecondEOTAck")
             \/ /\ yState = "WaitingForSecondEOTAck"
                /\ waitAfter(<<>>, "WaitingForEndBatchC")
    BY <1>0, <2>3, YModemWaits DEF Reacts, Ended
  <2>4. CASE yFinish(TRUE, <<>>)
    BY <1>0, <2>4, Ends DEF yFinish, Reacts
  <2> QED BY <1>2, <2>1, <2>2, <2>3, <2>4 DEF receiveACK
<1>3. CASE ch = "NAK" /\ receiveNAK
  <2>1. CASE yFinish(FALSE, <<CancelBytes>>) \/ YFileError
    BY <1>0, <2>1, Ends DEF YFileError, yFinish, Reacts
  <2>2. CASE yState = "WaitingForDataAck" /\ resendDataBlock
    <3>1. InBlock /\ lastBlockStart \in 0 .. fileSize /\ lastBlockStart # fileSize
      BY <2>2, Rereads DEF InBlock
    <3> QED BY <1>0, <1>3, <2>2, <3>1, SendsDataBlock DEF resendDataBlock, Reacts
  <2>3. CASE yState = "WaitingForFirstEOTResponse" /\ waitAfter(<<EOT>>, "WaitingForSecondEOTAck")
    BY <1>0, <2>3, YModemWaits DEF Reacts, Ended
  <2> QED BY <1>3, <2>1, <2>2, <2>3 DEF receiveNAK
<1>4. CASE receiveCAN
  BY <1>0, <1>4, Ends DEF receiveCAN, yFinish, Reacts
<1>5. CASE out' = <<>> /\ UNCHANGED <<file, proto, yState, result, errorCount, blockErrors>>
  BY <1>0, <1>5 DEF Reacts, Rests, proto
<1> QED BY <1>1, <1>2, <1>3, <1>4, <1>5 DEF yProcessInput

(* A timeout of either sender repeats what was sent last, or ends the transfer. *)
LEMMA TimerRepeats ==
  ASSUME FileIInv, timeout
  PROVE  Repeats
<1>0. UNCHANGED <<mode, starts>>
  BY DEF timeout, handleTimeout, yHandleTimeout
<1>1. CASE mode = "XModem" /\ handleTimeout /\ UNCHANGED yState
  <2>1. CASE Finish(FALSE, <<CancelBytes>>) \/ FileError
    BY <1>0, <2>1, Ends DEF FileError, Repeats
  <2>2. CASE state = "WaitingForStart" /\ out' = <<>> /\ UNCHANGED <<file, state, blockNumber>>
    BY <1>0, <1>1, <2>2 DEF Repeats, Rests, InBlock
  <2>3. CASE state = "WaitingForAck" /\ resendBlock
    <3>1. InBlock /\ lastBlockStart \in 0 .. fileSize /\ lastBlockStart # fileSize
      BY <1>1, <2>3, Rereads DEF InBlock
    <3> QED BY <1>0, <1>1, <2>3, <3>1, SendsBlock DEF resendBlock, Repeats
  <2>4. CASE state = "WaitingForEOTAck" /\ sendEOT /\ UNCHANGED file
    BY <1>0, <1>1, <2>4, SendsEot DEF Repeats, Ended, file
  <2> QED BY <1>1, <2>1, <2>2, <2>3, <2>4 DEF handleTimeout
<1>2. CASE mode = "YModem" /\ yHandleTimeout
  <2>1. CASE yFinish(FALSE, <<CancelBytes>>) \/ YFileError
    BY <1>0, <2>1, Ends DEF YFileError, yFinish, Repeats
  <2>2. CASE yState = "WaitingForDataAck" /\ resendDataBlock
    <3>1. InBlock /\ lastBlockStart \in 0 .. fileSize /\ lastBlockStart # fileSize
      BY <1>2, <2>2, Rereads DEF InBlock
    <3> QED BY <1>0, <1>2, <2>2, <3>1, SendsDataBlock DEF resendDataBlock, Repeats
  <2>3. CASE /\ yState # "WaitingForDataAck" /\ waitAfter(Repeated, yState)
             /\ UNCHANGED blockNumber
    <3>1. isActive /\ (Opening \/ Announced \/ Ended)
      BY <1>2, <2>3, Stages DEF yHandleTimeout, InBlock
    <3>2. CASE yState \in {"WaitingForInitialC", "WaitingForDataC"}
      BY <1>0, <1>2, <2>3, <3>2 DEF waitAfter, Repeated, Repeats, Rests, InBlock
    <3>3. CASE yState = "WaitingForBlock0Ack"
      BY <1>0, <1>2, <2>3, <3>3, YModemWaits DEF Repeated, Repeats, Announced
    <3>4. CASE Ended
      <4>1. Repeated \in {<<>>, <<EOT>>, <<EndOfBatch>>}
        BY <1>2, <3>4 DEF Ended, Repeated
      <4> QED BY <1>0, <1>2, <2>3, <3>4, <4>1, YModemWaits DEF Ended, Repeats
    <3> QED BY <1>2, <3>1, <3>2, <3>3, <3>4 DEF Opening, Announced
  <2> QED BY <1>2, <2>1, <2>2, <2>3 DEF yHandleTimeout
<1> QED BY <1>1, <1>2 DEF timeout

-----------------------------------------------------------------------------
(* The invariant after a step of the sender, by what the sender did *)

(* Stages, for the state after a step *)
LEMMA StagesAfter ==
  ASSUME FileIInv'
  PROVE  /\ fileSize' \in Nat /\ filePos' \in Nat
         /\ lastBlockStart' \in Nat /\ lastBlockBytes' \in Nat
         /\ isActive' <=> Opening' \/ Announced' \/ InBlock' \/ Ended'
         /\ Opening' => ~Announced' /\ ~InBlock' /\ ~Ended'
         /\ Announced' => ~InBlock' /\ ~Ended'
         /\ InBlock' => ~Ended'
  BY DEF FileIInv, Modes, IInv, BatchIInv, TypeOK, States, YStates, PositionInv, BatchPosition,
     RewindIsExact, BehindLastBlock, MachinesAgree, isActive, Opening, Announced, InBlock, Ended

(* A line without an answer has no ACK and no NAK. *)
LEMMA NoneIsOne ==
  ASSUME NEW s, ~Has(s, Answering)
  PROVE  One(s) /\ ~Has(s, {"ACK"}) /\ ~Has(s, {"NAK"})
  BY DEF One, Has, Answering

(* No transfer runs after the step. *)
LEMMA WhenGone ==
  ASSUME LinkIInv, FileIInv', LinkTypes', UNCHANGED device, ~isActive'
  PROVE  LinkIInv'
  BY StagesAfter DEF LinkIInv, Clean, Orderly, OpeningOK, AnnouncedOK, BlockOK, EndedOK

(* The sender ignored the byte. *)
LEMMA WhenRests ==
  ASSUME LinkIInv, FileIInv', LinkTypes', UNCHANGED <<device, toReceiver>>, Rests,
         Has(toSender', Answering) => Has(toSender, Answering),
         Has(toSender', {"ACK"}) => Has(toSender, {"ACK"}),
         Has(toSender', {"C"}) => Has(toSender, {"C"}),
         One(toSender) => One(toSender')
  PROVE  LinkIInv'
<1>1. /\ UNCHANGED <<mode, state, yState, file, blockNumber, starts, device, toReceiver>>
  BY DEF Rests
<1>2. /\ (Opening' <=> Opening) /\ (Announced' <=> Announced) /\ (InBlock' <=> InBlock)
      /\ (Ended' <=> Ended) /\ (isActive' <=> isActive)
  BY <1>1 DEF Opening, Announced, InBlock, Ended, isActive
<1>3. Clean' <=> Clean
  BY <1>1 DEF Clean
<1>4. Orderly'
  BY <1>1, <1>2 DEF LinkIInv, Orderly
<1>5. OpeningOK'
  BY <1>1, <1>2, <1>3 DEF LinkIInv, OpeningOK
<1>6. AnnouncedOK'
  BY <1>1, <1>2 DEF LinkIInv, AnnouncedOK, Holds
<1>7. BlockOK'
  BY <1>1, <1>2 DEF LinkIInv, BlockOK, Holds, ReadLength, file
<1>8. EndedOK'
  BY <1>1, <1>2 DEF LinkIInv, EndedOK, Holds, file
<1> QED BY <1>1, <1>3, <1>4, <1>5, <1>6, <1>7, <1>8 DEF LinkIInv

(* The header went out. *)
LEMMA WhenAnnounces ==
  ASSUME LinkIInv, FileIInv', LinkTypes', UNCHANGED device, Announces, toReceiver' = out',
         ~Has(toSender', Answering), Holds(0), device.expected = 1,
         device.phase \in {"starting", "ready", "done", "stopped"}
  PROVE  LinkIInv'
<1>1. Announced'
  BY DEF Announces, Announced
<1>2. Len(toReceiver') = 1 /\ toReceiver'[1] = Header
  BY DEF Announces
<1>3. Orderly'
  BY <1>2, NoneIsOne DEF Orderly
<1>4. AnnouncedOK'
  BY <1>2 DEF AnnouncedOK, Holds, Announces
<1>5. ~Opening' /\ ~InBlock' /\ ~Ended'
  BY <1>1, StagesAfter
<1> QED BY <1>3, <1>4, <1>5 DEF LinkIInv, Clean, OpeningOK, BlockOK, EndedOK

(* The header was acknowledged. *)
LEMMA WhenAgrees ==
  ASSUME LinkIInv, FileIInv', LinkTypes', UNCHANGED device, Agrees, toReceiver' = <<>>,
         ~Has(toSender', Answering), Holds(0), device.expected = 1,
         device.phase \in {"starting", "ready", "done", "stopped"}
  PROVE  LinkIInv'
<1>1. Announced'
  BY DEF Agrees, Announced
<1>3. Orderly'
  BY NoneIsOne DEF Orderly
<1>4. AnnouncedOK'
  BY DEF AnnouncedOK, Holds, Agrees
<1>5. ~Opening' /\ ~InBlock' /\ ~Ended'
  BY <1>1, StagesAfter
<1> QED BY <1>3, <1>4, <1>5 DEF LinkIInv, Clean, OpeningOK, BlockOK, EndedOK

(* A block went out: the one the device expects, or the one it stored last. *)
LEMMA WhenBlocks ==
  ASSUME LinkIInv, FileIInv', LinkTypes', UNCHANGED device, NEW s, NEW num, Blocks(s, num),
         toReceiver' = out', ~Has(toSender', Answering),
         \/ Holds(s) /\ device.expected = num
         \/ Holds(s + ReadLength(s)) /\ device.expected = (num + 1) % NumModulus
  PROVE  LinkIInv'
<1>1. InBlock' /\ ReadLength(s)' = ReadLength(s)
  BY DEF Blocks, ReadLength
<1>2. Len(toReceiver') = 1 /\ toReceiver'[1] = Block(num, s, ReadLength(s))
  BY DEF Blocks
<1>3. Orderly'
  BY <1>2, NoneIsOne DEF Orderly
<1>4. BlockOK'
  <2>1. lastBlockBytes' = ReadLength(lastBlockStart)'
    BY DEF Blocks, ReadLength
  <2>2. \A i \in 1 .. Len(toReceiver') :
           toReceiver'[i] = Block(blockNumber, lastBlockStart, lastBlockBytes)'
    BY <1>2 DEF Blocks, Block
  <2>3. \/ Holds(filePos)' /\ (device.expected)' = ((blockNumber + 1) % NumModulus)'
        \/ Holds(lastBlockStart)' /\ (device.expected)' = blockNumber' /\ ~Has(toSender', {"ACK"})
    BY NoneIsOne DEF Blocks, Holds
  <2> QED BY <2>1, <2>2, <2>3 DEF BlockOK
<1>5. ~Opening' /\ ~Announced' /\ ~Ended'
  BY <1>1, StagesAfter
<1> QED BY <1>3, <1>4, <1>5 DEF LinkIInv, Clean, OpeningOK, AnnouncedOK, EndedOK

(* The file was sent to its end. *)
LEMMA WhenCloses ==
  ASSUME LinkIInv, FileIInv', LinkTypes', UNCHANGED device, Closes,
         toReceiver' = toReceiver \o out',
         NoBlock(toReceiver), Holds(fileSize)
  PROVE  LinkIInv'
<1>1. Ended' /\ NoBlock(toReceiver')
  BY ConcatNoBlock DEF Closes, LinkIInv, LinkTypes
<1>2. EndedOK'
  BY <1>1 DEF EndedOK, Closes, Holds
<1>3. ~Opening' /\ ~Announced' /\ ~InBlock'
  BY <1>1, StagesAfter
<1> QED BY <1>1, <1>2, <1>3 DEF LinkIInv, Clean, OpeningOK, AnnouncedOK, BlockOK, Orderly

-----------------------------------------------------------------------------
(* The steps of the sender *)

(* What a step that is not Gone writes is packets. *)
LEMMA WritesPackets ==
  ASSUME FileIInv, \/ Gone \/ Rests \/ Announces \/ Agrees \/ Closes
                   \/ \E s \in Nat, num \in Nat : Blocks(s, num)
  PROVE  out' \in Seq(Packets)
<1>1. ASSUME NEW s \in Nat, NEW num \in Nat, Blocks(s, num)
      PROVE  out' \in Seq(Packets)
  <2>1. ReadLength(s) \in Nat
    BY <1>1, Stages, Constants DEF Blocks, ReadLength, SmallerOf
  <2>2. Block(num, s, ReadLength(s)) \in Packets
    BY <2>1, OutPackets
  <2> QED BY <1>1, <2>2 DEF Blocks
<1>2. CASE Gone \/ Rests \/ Announces \/ Agrees \/ Closes
  <2>1. <<>> \in Seq(Packets) /\ <<Header>> \in Seq(Packets)
    BY OutPackets
  <2> QED BY <1>2, <2>1 DEF Gone, Rests, Announces, Agrees, Closes
<1> QED BY <1>1, <1>2

(* With a modulus of two or more, a block and the next have different numbers. *)
LEMMA NumberNext ==
  ASSUME FileIInv
  PROVE  /\ blockNumber \in Nat /\ NextNumber \in Nat /\ 1 \in Nat /\ 0 \in Nat
         /\ blockNumber < NumModulus /\ NextNumber # blockNumber
<1>1. blockNumber \in 0 .. NumModulus - 1
  BY Stages
<1>2. CASE blockNumber + 1 < NumModulus
  BY <1>1, <1>2, Constants DEF NextNumber
<1>3. CASE blockNumber + 1 = NumModulus
  BY <1>1, <1>3, Constants DEF NextNumber
<1> QED BY <1>1, <1>2, <1>3, Constants

(* A byte arrives.  An ACK of a block is only on its way if the device stored it, and
   then nothing else is on the line. *)
LEMMA DeliverKeeps ==
  ASSUME LinkIInv, Deliver
  PROVE  LinkIInv'
<1>. DEFINE ch == Head(toSender)
<1>0. /\ toReceiver \in Seq(Packets) /\ toSender \in Seq(Bytes) /\ toSender # <<>>
      /\ FileIInv /\ device \in Devices /\ faults \in Nat
      /\ toSender' = Tail(toSender) /\ UNCHANGED <<device, faults>>
      /\ onRawDataReceived(ch) /\ toReceiver' = toReceiver \o out'
  BY DEF LinkIInv, LinkTypes, Deliver, Transmit
<1>1. /\ toSender' \in Seq(Bytes) /\ ch \in Bytes
      /\ \A b : Has(toSender', b) => Has(toSender, b)
      /\ \A b : ch \in b => Has(toSender, b)
      /\ One(toSender) => One(toSender')
      /\ One(toSender) /\ ch \in Answering => ~Has(toSender', Answering)
  BY <1>0, TailHas, TailOne
<1>2. FileIInv'
  BY <1>0, <1>1, FileNext DEF FNext
<1>3. Reacts(ch)
  <2>1. CASE ~isActive /\ out' = <<>> /\ UNCHANGED <<file, proto, yState, history>>
    BY <1>0, <2>1 DEF onRawDataReceived, Reacts, Rests, proto, history
  <2>2. CASE isActive /\ mode = "XModem" /\ processInput(ch) /\ UNCHANGED yState
    BY <1>0, <1>1, <2>2, XModemReacts DEF onRawDataReceived, LinkIInv
  <2>3. CASE isActive /\ mode = "YModem" /\ yProcessInput(ch)
    BY <1>0, <1>1, <2>3, YModemReacts DEF onRawDataReceived
  <2> QED BY <1>0, <2>1, <2>2, <2>3 DEF onRawDataReceived
<1>. HIDE DEF ch
<1>4. out' \in Seq(Packets)
  BY <1>0, <1>3, WritesPackets, Stages, NumberNext DEF Reacts
<1>5. LinkTypes'
  BY <1>0, <1>1, <1>4 DEF LinkTypes
<1>6. toReceiver = <<>> => toReceiver' = out'
  BY <1>0, <1>4
<1>7. ch \in {"ACK", "NAK"} /\ (Announced \/ InBlock) =>
         toReceiver = <<>> /\ ~Has(toSender', Answering)
  <2>1. SUFFICES ASSUME ch \in Answering, Announced \/ InBlock
                 PROVE  toReceiver = <<>> /\ ~Has(toSender', Answering)
    BY DEF Answering
  <2>2. Has(toSender, Answering) /\ isActive /\ ~Ended
    BY <1>0, <1>1, <2>1, Stages
  <2> QED BY <1>1, <2>1, <2>2 DEF LinkIInv, Orderly
<1>8. ch = "C" /\ Opening =>
         toReceiver = <<>> /\ ~Has(toSender', Answering) /\ Clean
         /\ device.phase \in {"starting", "done", "stopped"}
  BY <1>1 DEF LinkIInv, OpeningOK
<1>9. CASE Gone
  BY <1>0, <1>2, <1>5, <1>9, WhenGone DEF Gone
<1>10. CASE Rests
  <2>1. UNCHANGED <<device, toReceiver>>
    BY <1>0, <1>10 DEF Rests
  <2>2. /\ Has(toSender', Answering) => Has(toSender, Answering)
        /\ Has(toSender', {"ACK"}) => Has(toSender, {"ACK"})
        /\ Has(toSender', {"C"}) => Has(toSender, {"C"})
        /\ One(toSender) => One(toSender')
    BY <1>1
  <2> QED BY <1>2, <1>5, <1>10, <2>1, <2>2, WhenRests
<1>11. CASE Opening /\ ch = "C" /\ Announces
  BY <1>0, <1>2, <1>5, <1>6, <1>8, <1>11, WhenAnnounces DEF Clean, Holds
<1>12. CASE Opening /\ ch = "C" /\ Blocks(0, 1)
  BY <1>0, <1>2, <1>5, <1>6, <1>8, <1>12, WhenBlocks DEF Clean, Holds
<1>13. CASE Opening /\ ch = "C" /\ fileSize = 0 /\ Closes
  BY <1>0, <1>2, <1>5, <1>8, <1>13, WhenCloses, Short DEF Clean, Holds
<1>14. CASE Announced /\ yState = "WaitingForBlock0Ack" /\ ch = "ACK" /\ Agrees
  BY <1>0, <1>2, <1>5, <1>6, <1>7, <1>14, WhenAgrees DEF LinkIInv, AnnouncedOK, Agrees
<1>15. CASE Announced /\ yState = "WaitingForDataC" /\ Blocks(0, 1)
  BY <1>0, <1>1, <1>2, <1>5, <1>6, <1>15, WhenBlocks DEF LinkIInv, AnnouncedOK
<1>16. CASE Announced /\ yState = "WaitingForDataC" /\ fileSize = 0 /\ Closes
  BY <1>0, <1>2, <1>5, <1>16, WhenCloses, Short DEF LinkIInv, AnnouncedOK
<1>17. CASE InBlock /\ ch = "ACK" /\ (Blocks(filePos, NextNumber) \/ (filePos = fileSize /\ Closes))
  <2>1. Holds(filePos) /\ device.expected = NextNumber
    BY <1>1, <1>17 DEF LinkIInv, BlockOK, NextNumber
  <2>2. CASE Blocks(filePos, NextNumber)
    BY <1>0, <1>2, <1>5, <1>6, <1>7, <1>17, <2>1, <2>2, WhenBlocks
  <2>3. CASE filePos = fileSize /\ Closes
    BY <1>0, <1>2, <1>5, <1>7, <1>17, <2>1, <2>3, WhenCloses, Short
  <2> QED BY <1>17, <2>2, <2>3
<1>18. CASE InBlock /\ ch = "NAK" /\ Blocks(lastBlockStart, blockNumber)
  <2>1. filePos = lastBlockStart + ReadLength(lastBlockStart)
    BY <1>0, <1>18, Stages DEF LinkIInv, BlockOK, BehindLastBlock
  <2>2. \/ Holds(lastBlockStart) /\ device.expected = blockNumber
        \/ /\ Holds(lastBlockStart + ReadLength(lastBlockStart))
           /\ device.expected = (blockNumber + 1) % NumModulus
    BY <1>18, <2>1 DEF LinkIInv, BlockOK
  <2> QED BY <1>0, <1>2, <1>5, <1>6, <1>7, <1>18, <2>2, WhenBlocks
<1>19. CASE Ended /\ Closes
  BY <1>0, <1>2, <1>5, <1>19, WhenCloses DEF LinkIInv, EndedOK
<1> QED BY <1>3, <1>9, <1>10, <1>11, <1>12, <1>13, <1>14, <1>15, <1>16,
           <1>17, <1>18, <1>19 DEF Reacts

(* The timer expires, on a quiet line. *)
LEMMA TimeoutKeeps ==
  ASSUME LinkIInv, SenderTimeout
  PROVE  LinkIInv'
<1>0. /\ toReceiver = <<>> /\ toSender = <<>> /\ FileIInv /\ device \in Devices /\ faults \in Nat
      /\ toSender' = <<>> /\ UNCHANGED <<device, faults>>
      /\ timeout /\ toReceiver' = toReceiver \o out'
  BY DEF LinkIInv, LinkTypes, SenderTimeout, Transmit, Quiet
<1>1. FileIInv'
  BY <1>0, FileNext DEF FNext
<1>2. Repeats
  BY <1>0, TimerRepeats
<1>3. out' \in Seq(Packets)
  BY <1>0, <1>2, WritesPackets, Stages, NumberNext DEF Repeats
<1>4. LinkTypes' /\ toReceiver' = out'
  BY <1>0, <1>3 DEF LinkTypes
<1>5. ~Has(toSender', Answering) /\ NoBlock(toReceiver)
  BY <1>0, Short
<1>6. CASE Gone
  BY <1>0, <1>1, <1>4, <1>6, WhenGone DEF Gone
<1>7. CASE Rests
  <2>1. UNCHANGED <<device, toReceiver, toSender>>
    BY <1>0, <1>7 DEF Rests
  <2> QED BY <1>1, <1>4, <1>7, <2>1, WhenRests
<1>8. CASE Announced /\ yState = "WaitingForBlock0Ack" /\ Announces
  BY <1>0, <1>1, <1>4, <1>5, <1>8, WhenAnnounces DEF LinkIInv, AnnouncedOK
<1>9. CASE InBlock /\ Blocks(lastBlockStart, blockNumber)
  <2>1. filePos = lastBlockStart + ReadLength(lastBlockStart)
    BY <1>0, <1>9, Stages DEF LinkIInv, BlockOK, BehindLastBlock
  <2>2. \/ Holds(lastBlockStart) /\ device.expected = blockNumber
        \/ /\ Holds(lastBlockStart + ReadLength(lastBlockStart))
           /\ device.expected = (blockNumber + 1) % NumModulus
    BY <1>9, <2>1 DEF LinkIInv, BlockOK
  <2> QED BY <1>0, <1>1, <1>4, <1>5, <1>9, <2>2, WhenBlocks
<1>10. CASE Ended /\ Closes
  BY <1>0, <1>1, <1>4, <1>5, <1>10, WhenCloses DEF LinkIInv, EndedOK
<1> QED BY <1>2, <1>6, <1>7, <1>8, <1>9, <1>10 DEF Repeats

(* A cancel of an active sender, whoever asks for it *)
LEMMA Cancels ==
  ASSUME cancelActive
  PROVE  ~isActive' /\ out' = <<CancelBytes>>
  BY DEF cancelActive, cancelTransfer, yCancelTransfer, Finish, resetState, isActive

(* A transfer starts, on a quiet line. *)
LEMMA StartKeeps ==
  ASSUME LinkIInv, Start
  PROVE  LinkIInv'
<1>0. /\ toReceiver = <<>> /\ toSender = <<>> /\ FileIInv /\ device \in Devices /\ faults \in Nat
      /\ toSender' = <<>> /\ UNCHANGED <<device, faults>>
      /\ device.phase \in {"starting", "done", "stopped"}
      /\ beginTransmission /\ toReceiver' = toReceiver \o out'
      /\ device.phase = "starting" => Clean
  BY DEF LinkIInv, LinkTypes, Start, Transmit, Quiet
<1>1. FileIInv'
  BY <1>0, FileNext DEF FNext
<1>2. out' \in {<<>>, <<CancelBytes>>} /\ mode' = mode
  BY <1>0 DEF beginTransmission, startTransfer, startUnreadable, startFrom, yStartTransfer,
     yStartUnreadable
<1>3. <<>> \in Seq(Packets) /\ <<CancelBytes>> \in Seq(Packets)
  BY OutPackets
<1>4. LinkTypes' /\ toReceiver' = out'
  <2>1. out' \in Seq(Packets)
    BY <1>2, <1>3
  <2>2. toReceiver' = out'
    BY <1>0, <2>1
  <2> QED BY <1>0, <2>1, <2>2 DEF LinkTypes
<1>5. ~isActive' \/ (Opening' /\ (mode' = "XModem" => blockNumber' = 1))
  BY <1>0 DEF beginTransmission, startTransfer, startUnreadable, startFrom, yStartTransfer,
     yStartUnreadable, resetState, isActive, Opening
<1>6. CASE ~isActive'
  BY <1>0, <1>1, <1>4, <1>6, WhenGone
<1>7. CASE Opening' /\ (mode' = "XModem" => blockNumber' = 1)
  <2>1. ~Announced' /\ ~InBlock' /\ ~Ended'
    BY <1>1, <1>7, StagesAfter
  <2>2. /\ \A i \in 1 .. Len(toReceiver') : toReceiver'[i] = CancelBytes
        /\ Len(toReceiver') <= 1
    BY <1>2, <1>4
  <2>3. \A b : ~Has(toSender', b)
    BY <1>0, Short
  <2>4. OpeningOK'
    BY <1>0, <1>7, <2>2, <2>3 DEF OpeningOK
  <2>5. Orderly'
    BY <2>2, <2>3, NoneIsOne DEF Orderly
  <2>6. Clean' <=> Clean
    BY <1>0 DEF Clean
  <2> QED BY <1>0, <1>1, <1>4, <2>1, <2>4, <2>5, <2>6 DEF LinkIInv, AnnouncedOK, BlockOK, EndedOK
<1> QED BY <1>5, <1>6, <1>7

(* A transfer is stopped. *)
LEMMA StopKeeps ==
  ASSUME LinkIInv, Cancel \/ SwitchMode \/ Drop
  PROVE  LinkIInv'
<1>0. /\ FileIInv /\ toReceiver \in Seq(Packets) /\ toSender \in Seq(Bytes)
      /\ device \in Devices /\ faults \in Nat /\ UNCHANGED device
  BY DEF LinkIInv, LinkTypes, Cancel, SwitchMode, Drop
<1>1. FileIInv'
  BY <1>0, FileNext DEF FNext, Cancel, SwitchMode, Drop
<1>2. ~isActive' /\ (out' = <<>> \/ out' = <<CancelBytes>>)
  <2>1. CASE cancelActive
    BY <2>1, Cancels
  <2>2. CASE ~isActive /\ out' = <<>> /\ UNCHANGED <<file, proto, yState, history>>
    BY <2>2 DEF isActive, proto
  <2> QED BY <2>1, <2>2 DEF Cancel, SwitchMode, Drop, stopTransmission, setTransferMode
<1>3. out' \in Seq(Packets)
  <2>1. <<>> \in Seq(Packets) /\ <<CancelBytes>> \in Seq(Packets)
    BY OutPackets
  <2> QED BY <1>2, <2>1
<1>4. LinkTypes'
  <2>1. CASE Cancel \/ SwitchMode
    <3>1. toReceiver' = toReceiver \o out' /\ UNCHANGED <<toSender, faults>>
      BY <2>1 DEF Cancel, SwitchMode, Transmit
    <3>2. toReceiver \o out' \in Seq(Packets)
      BY <1>0, <1>3
    <3> QED BY <1>0, <3>1, <3>2 DEF LinkTypes
  <2>2. CASE Drop
    BY <1>0, <2>2 DEF LinkTypes, Drop, Fault
  <2> QED BY <2>1, <2>2
<1> QED BY <1>0, <1>1, <1>2, <1>4, WhenGone

-----------------------------------------------------------------------------
(* The steps of the device and of the line *)

(* The sender and its file stay as they are. *)
LEMMA SenderRests ==
  ASSUME FileIInv, UNCHANGED fvars
  PROVE  /\ FileIInv'
         /\ (Opening' <=> Opening) /\ (Announced' <=> Announced) /\ (InBlock' <=> InBlock)
         /\ (Ended' <=> Ended) /\ (isActive' <=> isActive)
         /\ UNCHANGED <<mode, yState, fileSize, filePos, lastBlockStart, lastBlockBytes,
                        blockNumber, starts>>
         /\ ReadLength(lastBlockStart)' = ReadLength(lastBlockStart)
<1>1. FileIInv'
  BY FileNext
<1>2. UNCHANGED <<mode, state, yState, fileSize, filePos, lastBlockStart, lastBlockBytes,
                  blockNumber, starts>>
  BY DEF fvars, yvars, xvars, file, proto, history
<1> QED BY <1>1, <1>2 DEF Opening, Announced, InBlock, Ended, isActive, ReadLength

(* A line of which one was taken *)
LEMMA TailShort ==
  ASSUME NEW s \in Seq(Packets), s # <<>>
  PROVE  /\ Tail(s) \in Seq(Packets) /\ Head(s) \in Packets /\ Head(s) = s[1] /\ 1 \in 1 .. Len(s)
         /\ Len(s) <= 1 => Tail(s) = <<>> /\ Len(Tail(s)) = 0
<1>1. /\ Tail(s) \in Seq(Packets) /\ Len(s) \in Nat \ {0} /\ Len(Tail(s)) = Len(s) - 1
      /\ Head(s) = s[1]
  OBVIOUS
<1>2. 1 \in 1 .. Len(s) /\ s[1] \in Packets
  BY <1>1
<1>3. ASSUME Len(s) <= 1 PROVE Tail(s) = <<>> /\ Len(Tail(s)) = 0
  <2>1. Len(Tail(s)) = 0
    BY <1>1, <1>3
  <2>2. \A t \in Seq(Packets) : Len(t) = 0 => t = <<>>
    OBVIOUS
  <2>3. Tail(s) = <<>>
    BY <1>1, <2>1, <2>2
  <2> QED BY <2>1, <2>3
<1> QED BY <1>1, <1>2, <1>3

(* The device asks anew or starts over. *)
LEMMA RestartKeeps ==
  ASSUME LinkIInv, Restart
  PROVE  LinkIInv'
<1>0. /\ FileIInv /\ toReceiver = <<>> /\ toSender = <<>> /\ faults \in Nat
      /\ UNCHANGED <<toReceiver, toSender, faults>> /\ UNCHANGED fvars
      /\ device' = FreshDevice(mode) /\ mode \in Modes
  BY DEF LinkIInv, LinkTypes, Restart, Quiet, line, FileIInv
<1>1. Clean' /\ device' \in Devices /\ device'.phase = "starting"
  BY <1>0 DEF FreshDevice, Clean, Devices, Phases
<1>2. ~Announced /\ ~InBlock /\ ~Ended
  <2>1. CASE state = "Idle"
    BY <1>0, <2>1, Stages DEF isActive
  <2>2. CASE state = "WaitingForStart" /\ yState \in {"Idle", "Done", "WaitingForInitialC"}
    BY <2>2 DEF Announced, InBlock, Ended
  <2> QED BY <2>1, <2>2 DEF Restart, NotBegun
<1>3. ~Announced' /\ ~InBlock' /\ ~Ended' /\ FileIInv' /\ (Opening' <=> Opening)
      /\ blockNumber' = blockNumber /\ mode' = mode
  BY <1>0, <1>2, SenderRests
<1>4. OpeningOK'
  BY <1>0, <1>1, <1>3, Short DEF LinkIInv, OpeningOK
<1>5. Orderly'
  BY <1>0, Short DEF Orderly
<1>6. LinkTypes'
  BY <1>0, <1>1 DEF LinkTypes
<1> QED BY <1>1, <1>3, <1>4, <1>5, <1>6 DEF LinkIInv, AnnouncedOK, BlockOK, EndedOK

(* The device asks: a C is no answer, and before the first packet it comes only from
   one that has nothing. *)
LEMMA AskKeeps ==
  ASSUME LinkIInv, Ask
  PROVE  LinkIInv'
<1>. DEFINE b == IF device.phase \in {"receiving", "ending"} THEN "NAK" ELSE "C"
<1>0. /\ FileIInv /\ toReceiver = <<>> /\ faults \in Nat /\ device \in Devices
      /\ UNCHANGED <<toReceiver, device, faults>> /\ UNCHANGED fvars
      /\ device.phase \notin {"done", "stopped"} /\ toSender' = <<b>>
  BY DEF LinkIInv, LinkTypes, Ask, Quiet
<1>1. b \in {"NAK", "C"} /\ b \in Bytes
  BY DEF Bytes
<1>2. ~Has(toSender', {"ACK"}) /\ One(toSender')
  BY <1>0, <1>1, Short
<1>3. LinkTypes'
  BY <1>0, <1>1 DEF LinkTypes
<1>4. Orderly'
  BY <1>0, <1>2 DEF Orderly
<1>5. OpeningOK'
  <2>1. SUFFICES ASSUME Opening PROVE OpeningOK'
    BY <1>0, SenderRests DEF OpeningOK
  <2>2. device.phase = "starting" /\ Clean
    BY <1>0, <2>1 DEF LinkIInv, OpeningOK
  <2>3. ~Has(toSender', Answering)
    BY <1>0, <2>2, Short DEF Answering
  <2>4. Clean'
    BY <1>0, <2>2 DEF Clean
  <2> QED BY <1>0, <2>1, <2>2, <2>3, <2>4, SenderRests DEF LinkIInv, OpeningOK
<1>6. AnnouncedOK'
  <2>1. SUFFICES ASSUME Announced PROVE AnnouncedOK'
    BY <1>0, SenderRests DEF AnnouncedOK
  <2>2. b = "C"
    BY <2>1 DEF LinkIInv, AnnouncedOK
  <2>3. ~Has(toSender', Answering)
    BY <1>0, <2>2, Short DEF Answering
  <2> QED BY <1>0, <2>1, <2>3, SenderRests DEF LinkIInv, AnnouncedOK, Holds
<1>7. BlockOK'
  BY <1>0, <1>2, SenderRests DEF LinkIInv, BlockOK, Holds
<1>8. EndedOK'
  BY <1>0, SenderRests DEF LinkIInv, EndedOK, Holds
<1>9. Clean' <=> Clean
  BY <1>0 DEF Clean
<1> QED BY <1>0, <1>3, <1>4, <1>5, <1>6, <1>7, <1>8, <1>9, SenderRests DEF LinkIInv

(* The bytes to the sender change, and none is added that has a role: the device
   goes on or is stopped. *)
LEMMA WhenHeard ==
  ASSUME LinkIInv, UNCHANGED fvars, UNCHANGED toReceiver, LinkTypes', device' \in {device, Stopped},
         Has(toSender', Answering) => Has(toSender, Answering),
         Has(toSender', {"ACK"}) => Has(toSender, {"ACK"}),
         Has(toSender', {"C"}) => Has(toSender, {"C"}),
         One(toSender) => One(toSender')
  PROVE  LinkIInv'
<1>0. FileIInv /\ device \in Devices
  BY DEF LinkIInv, LinkTypes
<1>1. /\ device'.expected = device.expected /\ device'.file = device.file
      /\ device'.stored = device.stored /\ device'.exact = device.exact
      /\ device'.phase \in {device.phase, "stopped"}
  BY <1>0 DEF Stopped, Devices
<1>2. Clean' <=> Clean
  BY <1>1 DEF Clean
<1>3. Orderly'
  BY <1>0, SenderRests DEF LinkIInv, Orderly
<1>4. OpeningOK'
  BY <1>0, <1>1, <1>2, SenderRests DEF LinkIInv, OpeningOK
<1>5. AnnouncedOK'
  BY <1>0, <1>1, SenderRests DEF LinkIInv, AnnouncedOK, Holds
<1>6. BlockOK'
  BY <1>0, <1>1, SenderRests DEF LinkIInv, BlockOK, Holds
<1>7. EndedOK'
  BY <1>0, <1>1, SenderRests DEF LinkIInv, EndedOK, Holds
<1> QED BY <1>0, <1>1, <1>2, <1>3, <1>4, <1>5, <1>6, <1>7, SenderRests DEF LinkIInv

(* A packet is taken off the line. *)
LEMMA WhenTaken ==
  ASSUME LinkIInv, UNCHANGED fvars, LinkTypes', toReceiver # <<>>, toReceiver' = Tail(toReceiver),
         device'.phase = "starting" => Clean',
         ~Ended /\ isActive => One(toSender'),
         Opening => /\ device'.phase \in {"starting", "done", "stopped"}
                    /\ ~Has(toSender', Answering) /\ ~Has(toSender', {"C"}),
         Announced => /\ device'.phase \in {"starting", "ready", "done", "stopped"}
                      /\ Holds(0)' /\ device'.expected = 1,
         InBlock => \/ Holds(filePos)' /\ device'.expected = NextNumber
                    \/ /\ Holds(lastBlockStart)' /\ device'.expected = blockNumber
                       /\ ~Has(toSender', {"ACK"}),
         Ended => Holds(fileSize)'
  PROVE  LinkIInv'
<1>0. FileIInv /\ toReceiver \in Seq(Packets)
  BY DEF LinkIInv, LinkTypes
<1>1. ~Ended /\ isActive => toReceiver' = <<>> /\ Len(toReceiver') = 0
  BY <1>0, TailShort DEF LinkIInv, Orderly
<1>2. Opening \/ Announced \/ InBlock => ~Ended /\ isActive
  BY <1>0, Stages
<1>3. Orderly'
  BY <1>0, <1>1, SenderRests DEF Orderly
<1>4. OpeningOK'
  BY <1>0, <1>1, <1>2, SenderRests DEF LinkIInv, OpeningOK
<1>5. AnnouncedOK'
  <2>1. yState # "WaitingForDataC" \/ ~Announced
    BY DEF LinkIInv, AnnouncedOK
  <2> QED BY <1>0, <1>1, <1>2, <2>1, SenderRests DEF AnnouncedOK
<1>6. BlockOK'
  BY <1>0, <1>1, <1>2, SenderRests DEF LinkIInv, BlockOK, Holds, NextNumber
<1>7. EndedOK'
  BY <1>0, TailNoBlock, SenderRests DEF LinkIInv, EndedOK, Holds
<1> QED BY <1>0, <1>3, <1>4, <1>5, <1>6, <1>7, SenderRests DEF LinkIInv

(* A packet or a byte is lost. *)
LEMMA LoseKeeps ==
  ASSUME LinkIInv, Lose
  PROVE  LinkIInv'
<1>0. /\ FileIInv /\ toReceiver \in Seq(Packets) /\ toSender \in Seq(Bytes) /\ device \in Devices
      /\ faults' \in Nat /\ UNCHANGED fvars /\ UNCHANGED device
  BY DEF LinkIInv, LinkTypes, Lose, Fault
<1>1. CASE toReceiver # <<>> /\ toReceiver' = Tail(toReceiver) /\ UNCHANGED toSender
  <2>1. LinkTypes'
    BY <1>0, <1>1, TailShort DEF LinkTypes
  <2>2. Clean' <=> Clean
    BY <1>0 DEF Clean
  <2>3. ~Ended /\ isActive => One(toSender')
    BY <1>1 DEF LinkIInv, Orderly
  <2>4. Opening => /\ device'.phase \in {"starting", "done", "stopped"}
                   /\ ~Has(toSender', Answering) /\ ~Has(toSender', {"C"})
    BY <1>0, <1>1 DEF LinkIInv, OpeningOK
  <2>5. Announced => /\ device'.phase \in {"starting", "ready", "done", "stopped"}
                     /\ Holds(0)' /\ device'.expected = 1
    BY <1>0, SenderRests DEF LinkIInv, AnnouncedOK, Holds
  <2>6. InBlock => \/ Holds(filePos)' /\ device'.expected = NextNumber
                   \/ /\ Holds(lastBlockStart)' /\ device'.expected = blockNumber
                      /\ ~Has(toSender', {"ACK"})
    BY <1>0, <1>1, SenderRests DEF LinkIInv, BlockOK, Holds, NextNumber
  <2>7. Ended => Holds(fileSize)'
    BY <1>0, SenderRests DEF LinkIInv, EndedOK, Holds
  <2>8. device'.phase = "starting" => Clean'
    BY <1>0, <2>2 DEF LinkIInv
  <2> QED BY <1>0, <1>1, <2>1, <2>3, <2>4, <2>5, <2>6, <2>7, <2>8, WhenTaken
<1>2. CASE toSender # <<>> /\ toSender' = Tail(toSender) /\ UNCHANGED toReceiver
  <2>1. /\ toSender' \in Seq(Bytes) /\ \A b : Has(toSender', b) => Has(toSender, b)
        /\ One(toSender) => One(toSender')
    BY <1>0, <1>2, TailHas, TailOne
  <2>2. LinkTypes'
    BY <1>0, <1>2, <2>1 DEF LinkTypes
  <2> QED BY <1>0, <1>2, <2>1, <2>2, WhenHeard
<1> QED BY <1>1, <1>2 DEF Lose

(* A byte without a role arrives. *)
LEMMA StrayKeeps ==
  ASSUME LinkIInv, Stray
  PROVE  LinkIInv'
<1>0. /\ FileIInv /\ toReceiver \in Seq(Packets) /\ toSender \in Seq(Bytes) /\ device \in Devices
      /\ faults' \in Nat /\ UNCHANGED fvars /\ UNCHANGED <<toReceiver, device>>
      /\ toSender' = <<"other">> \o toSender
  BY DEF LinkIInv, LinkTypes, Stray, Fault
<1>1. <<"other">> \in Seq(Bytes)
  BY DEF Bytes
<1>2. ~Has(<<"other">>, Answering) /\ ~Has(<<"other">>, {"ACK"}) 
      /\ ~Has(<<"other">>, {"C"}) /\ One(<<"other">>)
  BY Short DEF Answering
<1>3. /\ Has(toSender', Answering) => Has(toSender, Answering)
      /\ Has(toSender', {"ACK"}) => Has(toSender, {"ACK"})
      /\ Has(toSender', {"C"}) => Has(toSender, {"C"})
      /\ One(toSender) => One(toSender')
  BY <1>0, <1>1, <1>2, ConcatHas, ConcatOne
<1>4. toSender' \in Seq(Bytes)
  BY <1>0, <1>1
<1>5. LinkTypes'
  BY <1>0, <1>4 DEF LinkTypes
<1> QED BY <1>0, <1>3, <1>5, WhenHeard

(* The device aborts. *)
LEMMA AbortKeeps ==
  ASSUME LinkIInv, Abort
  PROVE  LinkIInv'
<1>0. /\ FileIInv /\ toReceiver \in Seq(Packets) /\ toSender \in Seq(Bytes) /\ device \in Devices
      /\ faults' \in Nat /\ UNCHANGED fvars /\ UNCHANGED toReceiver /\ device' = Stopped
      /\ toSender' = Append(toSender, "CAN")
  BY DEF LinkIInv, LinkTypes, Abort, Fault
<1>1. <<"CAN">> \in Seq(Bytes) /\ toSender' = toSender \o <<"CAN">>
  BY <1>0 DEF Bytes
<1>2. ~Has(<<"CAN">>, Answering) /\ ~Has(<<"CAN">>, {"ACK"}) 
      /\ ~Has(<<"CAN">>, {"C"}) /\ One(<<"CAN">>)
  BY Short DEF Answering
<1>3. /\ Has(toSender', Answering) => Has(toSender, Answering)
      /\ Has(toSender', {"ACK"}) => Has(toSender, {"ACK"})
      /\ Has(toSender', {"C"}) => Has(toSender, {"C"})
      /\ One(toSender) => One(toSender')
  <2>1. \A b : Has(toSender', b) => Has(toSender, b) \/ Has(<<"CAN">>, b)
    BY <1>0, <1>1, ConcatHas
  <2>2. One(toSender) => One(toSender')
    BY <1>0, <1>1, <1>2, ConcatOne
  <2> QED BY <1>2, <2>1, <2>2
<1>4. toSender' \in Seq(Bytes)
  BY <1>0, <1>1
<1>5. Stopped \in Devices
  BY <1>0 DEF Stopped, Devices, Phases
<1>6. LinkTypes'
  BY <1>0, <1>4, <1>5 DEF LinkTypes
<1> QED BY <1>0, <1>3, <1>6, WhenHeard

(* A packet is damaged. *)
LEMMA DamageKeeps ==
  ASSUME LinkIInv, Damage
  PROVE  LinkIInv'
<1>. DEFINE bad == Control("damaged")
<1>0. /\ FileIInv /\ toReceiver \in Seq(Packets) /\ toSender \in Seq(Bytes) /\ device \in Devices
      /\ faults' \in Nat /\ UNCHANGED fvars /\ UNCHANGED <<device, toSender>>
      /\ toReceiver # <<>> /\ Head(toReceiver).kind # "CAN"
      /\ toReceiver' = <<bad>> \o Tail(toReceiver)
  BY DEF LinkIInv, LinkTypes, Damage, Fault
<1>1. bad \in Packets /\ bad.kind # "block" /\ CancelBytes.kind = "CAN"
  BY OutPackets DEF Control
<1>2. /\ Tail(toReceiver) \in Seq(Packets) /\ <<bad>> \in Seq(Packets)
      /\ Head(toReceiver) = toReceiver[1] /\ 1 \in 1 .. Len(toReceiver)
  BY <1>0, <1>1, TailShort
<1>3. LinkTypes'
  BY <1>0, <1>2 DEF LinkTypes
<1>4. ~Ended /\ isActive => /\ toReceiver' = <<bad>> /\ Len(toReceiver') = 1
                            /\ \A i \in 1 .. Len(toReceiver') : toReceiver'[i] = bad
  <2>. HIDE DEF bad
  <2>1. SUFFICES ASSUME ~Ended, isActive
                 PROVE  toReceiver' = <<bad>>
    <3>1. \A x : Len(<<x>>) = 1 /\ \A i \in 1 .. Len(<<x>>) : <<x>>[i] = x
      OBVIOUS
    <3> QED BY <3>1
  <2>2. Tail(toReceiver) = <<>>
    BY <1>0, <2>1, TailShort DEF LinkIInv, Orderly
  <2>3. <<bad>> \o <<>> = <<bad>>
    BY <1>2
  <2> QED BY <1>0, <2>2, <2>3
<1>5. ~Opening
  BY <1>0, <1>1, <1>2 DEF LinkIInv, OpeningOK
<1>6. Orderly'
  BY <1>0, <1>4, SenderRests DEF LinkIInv, Orderly
<1>7. AnnouncedOK'
  BY <1>0, <1>4, Stages, SenderRests DEF LinkIInv, AnnouncedOK, Holds
<1>8. BlockOK'
  BY <1>0, <1>4, Stages, SenderRests DEF LinkIInv, BlockOK, Holds
<1>9. EndedOK'
  <2>1. SUFFICES ASSUME Ended PROVE EndedOK'
    BY <1>0, SenderRests DEF EndedOK
  <2>2. NoBlock(Tail(toReceiver)) /\ NoBlock(<<bad>>)
    BY <1>0, <1>1, <2>1, TailNoBlock, Short DEF LinkIInv, EndedOK
  <2>3. NoBlock(toReceiver')
    BY <1>0, <1>2, <2>2, ConcatNoBlock
  <2> QED BY <1>0, <2>1, <2>3, SenderRests DEF LinkIInv, EndedOK, Holds
<1>10. Clean' <=> Clean
  BY <1>0 DEF Clean
<1> QED BY <1>0, <1>3, <1>5, <1>6, <1>7, <1>8, <1>9, <1>10, SenderRests DEF LinkIInv, OpeningOK

(* What a device may answer *)
Replies == {<<>>, <<"ACK">>, <<"NAK">>, <<"CAN">>, <<"ACK", "C">>}

LEMMA ReplyBytes ==
  ASSUME NEW r \in Replies
  PROVE  r \in Seq(Bytes) /\ One(r)
<1>1. <<>> \in Seq(Bytes) /\ <<"ACK">> \in Seq(Bytes) /\ <<"NAK">> \in Seq(Bytes)
      /\ <<"CAN">> \in Seq(Bytes) /\ <<"ACK", "C">> \in Seq(Bytes)
  BY DEF Bytes
<1>2. One(<<>>) /\ One(<<"ACK">>) /\ One(<<"NAK">>) /\ One(<<"CAN">>) /\ One(<<"ACK", "C">>)
  BY Short
<1> QED BY <1>1, <1>2 DEF Replies

(* To what is no block it answers without a change of what it holds. *)
LEMMA AnswersControl ==
  ASSUME device \in Devices, starts \in Nat, NEW packet \in Packets, packet.kind # "block"
  PROVE  LET a == Answer(packet)
         IN  /\ a.says \in Replies /\ a.d \in Devices
             /\ a.d.expected = device.expected /\ a.d.stored = device.stored
             /\ a.d.exact = device.exact
             /\ a.d.file \in {device.file, starts}
             /\ a.d.phase = "starting" => a.d = device
             /\ packet.kind = "damaged" => a.d = device /\ a.says = <<"NAK">>
             /\ packet.kind = "CAN" => a.d.phase = "stopped" /\ a.says = <<>>
             /\ packet.kind = "header" => a.d.phase \in {"ready", "stopped"}
<1>. DEFINE Kept(d) == /\ d \in Devices /\ d.expected = device.expected /\ d.stored = device.stored
                       /\ d.exact = device.exact /\ d.file \in {device.file, starts}
                       /\ d.phase = "starting" => d = device
<1>1. Kept(device) /\ Kept(Stopped) /\ Stopped.phase = "stopped"
  BY DEF Devices, Phases, Stopped
<1>2. /\ \A p \in Phases \ {"starting"} : Kept([device EXCEPT !.phase = p])
      /\ Kept([device EXCEPT !.phase = "ready", !.file = starts])
      /\ [device EXCEPT !.phase = "ready", !.file = starts].phase = "ready"
  BY DEF Devices, Phases
<1>. HIDE DEF Kept
<1>3. CASE packet.kind = "damaged"
  <2>1. Answer(packet) = Say(device, <<"NAK">>)
    BY <1>3 DEF Answer
  <2> QED BY <1>1, <1>3, <2>1 DEF Say, Replies, Kept
<1>4. CASE packet.kind = "CAN"
  <2>1. Answer(packet) = Say(Stopped, <<>>)
    BY <1>4 DEF Answer
  <2> QED BY <1>1, <1>4, <2>1 DEF Say, Replies, Kept
<1>5. CASE packet.kind = "EOT"
  <2>1. Answer(packet) = AnswerToEot
    BY <1>5 DEF Answer
  <2>2. AnswerToEot.says \in Replies /\ Kept(AnswerToEot.d)
    BY <1>1, <1>2 DEF AnswerToEot, Say, Replies, Phases
  <2> QED BY <1>5, <2>1, <2>2 DEF Kept
<1>6. CASE packet.kind = "header"
  <2>1. Answer(packet) = AnswerToHeader
    BY <1>6 DEF Answer
  <2>2. AnswerToHeader.says \in Replies /\ Kept(AnswerToHeader.d)
        /\ AnswerToHeader.d.phase \in {"ready", "stopped"}
    BY <1>1, <1>2 DEF AnswerToHeader, Say, Replies
  <2> QED BY <1>6, <2>1, <2>2 DEF Kept
<1>7. CASE packet.kind = "end"
  <2>1. Answer(packet) = AnswerToEnd
    BY <1>7 DEF Answer
  <2>2. AnswerToEnd.says \in Replies /\ Kept(AnswerToEnd.d)
    BY <1>1, <1>2 DEF AnswerToEnd, Say, Replies, Phases
  <2> QED BY <1>7, <2>1, <2>2 DEF Kept
<1> QED BY <1>3, <1>4, <1>5, <1>6, <1>7 DEF Packets

(* A block is stored, acknowledged once more, or the end of the device's part. *)
LEMMA AnswersBlock ==
  ASSUME device \in Devices, starts \in Nat, NEW packet \in Packets, packet.kind = "block"
  PROVE  LET a == Answer(packet)
         IN  \/ packet.num = device.expected /\ a = Say(Stored(packet), <<"ACK">>)
             \/ /\ device.stored > 0 /\ (packet.num + 1) % NumModulus = device.expected
                /\ a = Say(device, <<"ACK">>)
             \/ /\ ~(device.stored > 0 /\ (packet.num + 1) % NumModulus = device.expected)
                /\ a = Say(Stopped, <<"CAN">>)
  BY DEF Answer, AnswerToBlock

(* What a device holds that has stored a block *)
LEMMA StoredDevice ==
  ASSUME FileIInv, device \in Devices, NEW packet \in Packets
  PROVE  /\ Stored(packet) \in Devices
         /\ Stored(packet).phase = "receiving" /\ Stored(packet).file = starts
         /\ Stored(packet).expected = (device.expected + 1) % NumModulus
         /\ Stored(packet).stored = device.stored + packet.len
         /\ Stored(packet).exact <=>
               device.exact /\ packet.start = device.stored /\ device.file \in {0, starts}
<1>1. starts \in Nat /\ device.expected \in Nat /\ device.stored \in Nat /\ packet.len \in Nat
  BY Stages DEF Devices, Packets
<1>2. (device.expected + 1) % NumModulus \in Nat /\ device.stored + packet.len \in Nat
  BY <1>1, Constants
<1> QED BY <1>1, <1>2 DEF Stored, Devices, Phases

(* The device receives a packet.  The block in flight is expected, and then it is the
   next of the file, or it is the last stored, and then it is acknowledged again. *)
LEMMA ReceiveKeeps ==
  ASSUME LinkIInv, Receive
  PROVE  LinkIInv'
<1>. DEFINE packet == Head(toReceiver)
            a == Answer(packet)
<1>0. /\ FileIInv /\ toReceiver \in Seq(Packets) /\ toSender \in Seq(Bytes) /\ device \in Devices
      /\ faults' \in Nat /\ UNCHANGED fvars
      /\ toReceiver # <<>> /\ toReceiver' = Tail(toReceiver)
      /\ device.phase = "starting" => Clean
      /\ starts \in Nat
  BY Stages DEF LinkIInv, LinkTypes, Receive
<1>1. /\ Tail(toReceiver) \in Seq(Packets) /\ packet \in Packets
      /\ packet = toReceiver[1] /\ 1 \in 1 .. Len(toReceiver)
  BY <1>0, TailShort
<1>. HIDE DEF packet
<1>2. Opening => packet = CancelBytes /\ ~Has(toSender, Answering) /\ ~Has(toSender, {"C"})
  BY <1>0, <1>1 DEF LinkIInv, OpeningOK
<1>3. Announced => packet.kind \in {"header", "damaged"}
  BY <1>0, <1>1, OutPackets DEF LinkIInv, AnnouncedOK, Control
<1>4. ~Ended /\ isActive => ~Has(toSender, Answering) /\ One(toSender)
  BY <1>0 DEF LinkIInv, Orderly
<1>7. Opening \/ Announced \/ InBlock => ~Ended /\ isActive
  BY <1>0, Stages
<1>5. CASE device.phase = "stopped" /\ UNCHANGED <<device, toSender>>
  <2>1. LinkTypes'
    BY <1>0, <1>1, <1>5 DEF LinkTypes
  <2>2. ~Ended /\ isActive => One(toSender')
    BY <1>4, <1>5
  <2>3. Opening => /\ device'.phase \in {"starting", "done", "stopped"}
                   /\ ~Has(toSender', Answering) /\ ~Has(toSender', {"C"})
    BY <1>2, <1>5
  <2>4. Announced => /\ device'.phase \in {"starting", "ready", "done", "stopped"}
                     /\ Holds(0)' /\ device'.expected = 1
    BY <1>0, <1>5, SenderRests DEF LinkIInv, AnnouncedOK, Holds
  <2>5. InBlock => \/ Holds(filePos)' /\ device'.expected = NextNumber
                   \/ /\ Holds(lastBlockStart)' /\ device'.expected = blockNumber
                      /\ ~Has(toSender', {"ACK"})
    BY <1>0, <1>5, SenderRests DEF LinkIInv, BlockOK, Holds, NextNumber
  <2>6. Ended => Holds(fileSize)'
    BY <1>0, <1>5, SenderRests DEF LinkIInv, EndedOK, Holds
  <2>7. device'.phase # "starting"
    BY <1>5
  <2> QED BY <1>0, <2>1, <2>2, <2>3, <2>4, <2>5, <2>6, <2>7, WhenTaken
<1>6. CASE device.phase # "stopped" /\ device' = a.d /\ toSender' = toSender \o a.says
  <2>. HIDE DEF a
  <2>1. a.says \in Replies /\ a.d \in Devices /\ (a.d.phase = "starting" => a.d = device)
    <3>1. CASE packet.kind # "block"
      BY <1>0, <1>1, <3>1, AnswersControl DEF a
    <3>2. CASE packet.kind = "block"
      <4>1. Stopped \in Devices /\ Stopped.phase = "stopped"
        BY <1>0 DEF Stopped, Devices, Phases
      <4>2. Stored(packet) \in Devices /\ Stored(packet).phase = "receiving"
        BY <1>0, <1>1, StoredDevice
      <4> QED BY <1>0, <1>1, <3>2, <4>1, <4>2, AnswersBlock DEF a, Say, Replies
    <3> QED BY <3>1, <3>2
  <2>2. a.says \in Seq(Bytes) /\ One(a.says) /\ toSender' \in Seq(Bytes)
    BY <1>0, <1>6, <2>1, ReplyBytes
  <2>3. \A b : Has(toSender', b) => Has(toSender, b) \/ Has(a.says, b)
    BY <1>0, <1>6, <2>2, ConcatHas
  <2>4. LinkTypes'
    BY <1>0, <1>1, <1>6, <2>1, <2>2 DEF LinkTypes
  <2>5. ~Ended /\ isActive => One(toSender')
    BY <1>0, <1>4, <1>6, <2>2, ConcatOne
  <2>6. device'.phase = "starting" => Clean'
    BY <1>0, <1>6, <2>1 DEF Clean
  <2>7. Opening => /\ device'.phase \in {"starting", "done", "stopped"}
                   /\ ~Has(toSender', Answering) /\ ~Has(toSender', {"C"})
    <3>1. SUFFICES ASSUME Opening
                   PROVE  /\ device'.phase \in {"starting", "done", "stopped"}
                          /\ ~Has(toSender', Answering) /\ ~Has(toSender', {"C"})
      OBVIOUS
    <3>2. a.d.phase = "stopped" /\ a.says = <<>>
      BY <1>0, <1>1, <1>2, <3>1, AnswersControl, OutPackets DEF a
    <3> QED BY <1>2, <1>6, <2>3, <3>1, <3>2, Short
  <2>8. Announced => /\ device'.phase \in {"starting", "ready", "done", "stopped"}
                     /\ Holds(0)' /\ device'.expected = 1
    <3>1. SUFFICES ASSUME Announced
                   PROVE  /\ a.d.phase \in {"starting", "ready", "done", "stopped"}
                          /\ Holds(0)' /\ a.d.expected = 1
      BY <1>6
    <3>2. /\ Holds(0) /\ device.expected = 1
          /\ device.phase \in {"starting", "ready", "done", "stopped"}
      BY <3>1 DEF LinkIInv, AnnouncedOK
    <3>3. packet.kind # "block" /\ packet.kind \in {"header", "damaged"}
      BY <1>3, <3>1
    <3>4. /\ a.d.expected = 1 /\ a.d.stored = 0 /\ a.d.exact /\ a.d.file \in {0, starts}
          /\ a.d.phase \in {"starting", "ready", "done", "stopped"}
      BY <1>0, <1>1, <3>2, <3>3, AnswersControl DEF a, Holds
    <3> QED BY <1>0, <1>6, <3>4, SenderRests DEF Holds
  <2>9. InBlock => \/ Holds(filePos)' /\ device'.expected = NextNumber
                   \/ /\ Holds(lastBlockStart)' /\ device'.expected = blockNumber
                      /\ ~Has(toSender', {"ACK"})
    <3>1. SUFFICES ASSUME InBlock
                   PROVE  \/ Holds(filePos)' /\ device'.expected = NextNumber
                          \/ /\ Holds(lastBlockStart)' /\ device'.expected = blockNumber
                             /\ ~Has(toSender', {"ACK"})
      OBVIOUS
    <3>2. /\ packet \in {Block(blockNumber, lastBlockStart, lastBlockBytes), Control("damaged")}
          /\ lastBlockBytes \in Nat /\ lastBlockStart \in Nat /\ lastBlockBytes > 0
          /\ filePos = lastBlockStart + lastBlockBytes
          /\ ~Has(toSender, Answering) /\ ~Has(toSender, {"ACK"})
          /\ \/ Holds(filePos) /\ device.expected = NextNumber
             \/ Holds(lastBlockStart) /\ device.expected = blockNumber
      BY <1>0, <1>1, <1>4, <1>7, <3>1, Stages, NoneIsOne
      DEF LinkIInv, BlockOK, BehindLastBlock, NextNumber
    <3>3. UNCHANGED <<starts, filePos, lastBlockStart, blockNumber>>
      BY <1>0, SenderRests
    <3>4. CASE packet = Control("damaged")
      <4>1. a.d = device /\ a.says = <<"NAK">>
        BY <1>0, <1>1, <3>4, AnswersControl DEF a, Control
      <4>2. ~Has(toSender', {"ACK"})
        BY <2>3, <3>2, <4>1, Short
      <4> QED BY <1>6, <3>2, <3>3, <4>1, <4>2 DEF Holds
    <3>5. CASE packet = Block(blockNumber, lastBlockStart, lastBlockBytes)
      <4>1. /\ packet.kind = "block" /\ packet.num = blockNumber /\ packet.start = lastBlockStart
            /\ packet.len = lastBlockBytes
        BY <3>5 DEF Block
      <4>2. CASE Holds(filePos) /\ device.expected = NextNumber
        <5>1. device.stored > 0
          BY <3>2, <4>2 DEF Holds
        <5>2. packet.num # device.expected /\ (packet.num + 1) % NumModulus = device.expected
          BY <1>0, <4>1, <4>2, NumberNext DEF NextNumber
        <5>3. a = Say(device, <<"ACK">>)
          BY <1>0, <1>1, <4>1, <5>1, <5>2, AnswersBlock DEF a
        <5> QED BY <1>6, <3>3, <4>2, <5>3 DEF Say, Holds
      <4>3. CASE Holds(lastBlockStart) /\ device.expected = blockNumber
        <5>1. (packet.num + 1) % NumModulus # device.expected
          BY <1>0, <4>1, <4>3, NumberNext DEF NextNumber
        <5>2. CASE a = Say(Stored(packet), <<"ACK">>)
          BY <1>0, <1>1, <1>6, <3>2, <3>3, <4>1, <4>3, <5>2, StoredDevice DEF Say, Holds, NextNumber
        <5>3. CASE a = Say(Stopped, <<"CAN">>)
          <6>1. ~Has(toSender', {"ACK"})
            BY <2>3, <3>2, <5>3, Short DEF Say
          <6>2. /\ Stopped.expected = device.expected /\ Stopped.stored = device.stored
                /\ Stopped.file = device.file /\ Stopped.exact = device.exact
            BY <1>0 DEF Stopped, Devices
          <6> QED BY <1>6, <3>3, <4>3, <5>3, <6>1, <6>2 DEF Say, Holds
        <5> QED BY <1>0, <1>1, <4>1, <5>1, <5>2, <5>3, AnswersBlock DEF a
      <4> QED BY <3>2, <4>2, <4>3
    <3> QED BY <3>2, <3>4, <3>5
  <2>10. Ended => Holds(fileSize)'
    <3>1. SUFFICES ASSUME Ended PROVE Holds(fileSize)'
      OBVIOUS
    <3>2. packet.kind # "block" /\ Holds(fileSize)
      BY <1>0, <3>1, TailNoBlock DEF LinkIInv, EndedOK, packet
    <3>3. /\ a.d.stored = device.stored /\ a.d.exact = device.exact
          /\ a.d.file \in {device.file, starts}
      BY <1>0, <1>1, <3>2, AnswersControl DEF a
    <3> QED BY <1>0, <1>6, <3>2, <3>3, SenderRests DEF Holds
  <2> QED BY <1>0, <2>4, <2>5, <2>6, <2>7, <2>8, <2>9, <2>10, WhenTaken
<1> QED BY <1>5, <1>6 DEF Receive, packet, a

(* The invariant holds at first and is kept by every step of the link. *)
LEMMA LinkInitIInv == LinkInit => LinkIInv
<1> SUFFICES ASSUME LinkInit PROVE LinkIInv
  OBVIOUS
<1>1. FileIInv
  BY FileInit DEF LinkInit
<1>2. ~isActive
  BY DEF LinkInit, FInit, YInit, Init, isActive
<1>3. device.phase = "starting" /\ Clean /\ device \in Devices
  BY <1>1 DEF LinkInit, FreshDevice, Clean, Devices, Phases, FileIInv
<1>4. LinkTypes
  BY <1>3 DEF LinkInit, LinkTypes
<1>5. ~Opening /\ ~Announced /\ ~InBlock /\ ~Ended
  BY <1>1, <1>2, Stages
<1> QED BY <1>1, <1>2, <1>3, <1>4, <1>5
        DEF LinkIInv, Orderly, OpeningOK, AnnouncedOK, BlockOK, EndedOK

LEMMA LinkNextIInv == LinkIInv /\ [LinkNext]_linkVars => LinkIInv'
<1> SUFFICES ASSUME LinkIInv, [LinkNext]_linkVars PROVE LinkIInv'
  OBVIOUS
<1>1. CASE UNCHANGED linkVars
  <2>1. UNCHANGED fvars /\ UNCHANGED <<toReceiver, toSender, device, faults>>
    BY <1>1 DEF linkVars, line
  <2>2. LinkTypes'
    BY <2>1 DEF LinkIInv, LinkTypes
  <2> QED BY <2>1, <2>2, WhenHeard
<1>2. CASE Start \/ Cancel \/ SwitchMode \/ Deliver \/ SenderTimeout
  BY <1>2, StartKeeps, StopKeeps, DeliverKeeps, TimeoutKeeps
<1>3. CASE Receive \/ Restart \/ Ask
  BY <1>3, ReceiveKeeps, RestartKeeps, AskKeeps
<1>4. CASE Damage \/ Lose \/ Stray \/ Abort \/ Drop
  BY <1>4, DamageKeeps, LoseKeeps, StrayKeeps, AbortKeeps, StopKeeps
<1> QED BY <1>1, <1>2, <1>3, <1>4 DEF LinkNext

(* In every state of the link the device holds what the sender believes it does, up to
   the one block in flight. *)
THEOREM LinkInvariance == LinkSpec => []LinkIInv
  BY LinkInitIInv, LinkNextIInv, PTL DEF LinkSpec

(* finished(true) is emitted for the last answer to the end of a file, and for
   nothing else. *)
NoSuccess == result'.ok = result.ok

(* A failure is no success. *)
LEMMA Fails ==
  ASSUME result \in [failed : Nat, ok : Nat], NEW packets, Finish(FALSE, packets)
  PROVE  NoSuccess
  BY DEF Finish, NoSuccess

(* Neither sender succeeds but at the end, *)
LEMMA XModemSucceeds ==
  ASSUME result \in [failed : Nat, ok : Nat], mode = "XModem", NEW ch, processInput(ch)
  PROVE  NoSuccess \/ Ended
<1>1. CASE receiveStart(ch)
  BY <1>1, Fails DEF receiveStart, sendBlock, sendEOT, FileError, NoSuccess
<1>2. CASE receiveAck(ch)
  BY <1>2, Fails DEF receiveAck, handleAck, handleNak, resendBlock, sendBlock, sendEOT, FileError,
     NoSuccess, history
<1>3. CASE receiveEotAck(ch)
  BY <1>3 DEF receiveEotAck, Ended
<1> QED BY <1>1, <1>2, <1>3 DEF processInput

LEMMA YModemSucceeds ==
  ASSUME result \in [failed : Nat, ok : Nat], mode = "YModem", NEW ch, yProcessInput(ch)
  PROVE  NoSuccess \/ Ended
<1>1. CASE receiveC
  BY <1>1, Fails DEF receiveC, waitAfter, sendDataBlock, YFileError, yFinish, NoSuccess
<1>2. CASE receiveACK
  BY <1>2, Fails DEF receiveACK, dataAcknowledged, waitAfter, sendDataBlock, YFileError, yFinish,
     NoSuccess, Ended
<1>3. CASE receiveNAK \/ receiveCAN
  BY <1>3, Fails DEF receiveNAK, receiveCAN, resendDataBlock, waitAfter, sendDataBlock, YFileError,
     yFinish, NoSuccess
<1>4. CASE UNCHANGED result
  BY <1>4 DEF NoSuccess
<1> QED BY <1>1, <1>2, <1>3, <1>4 DEF yProcessInput

(* and neither does the front end. *)
LEMMA SuccessEnds ==
  ASSUME FileIInv, [FNext]_fvars
  PROVE  NoSuccess \/ Ended
<1>0. result \in [failed : Nat, ok : Nat]
  BY Stages
<1>1. CASE beginTransmission
  BY <1>0, <1>1 DEF beginTransmission, startTransfer, startUnreadable, startFrom, yStartTransfer,
     yStartUnreadable, NoSuccess
<1>2. CASE cancelActive
  BY <1>0, <1>2, Fails DEF cancelActive, cancelTransfer, yCancelTransfer
<1>3. CASE UNCHANGED result
  BY <1>3 DEF NoSuccess
<1>4. ASSUME NEW m, setTransferMode(m) PROVE NoSuccess \/ Ended
  BY <1>2, <1>3, <1>4 DEF setTransferMode, history
<1>5. ASSUME NEW ch, onRawDataReceived(ch) PROVE NoSuccess \/ Ended
  BY <1>0, <1>3, <1>5, XModemSucceeds, YModemSucceeds DEF onRawDataReceived, history
<1>6. CASE timeout
  <2>1. CASE handleTimeout
    BY <1>0, <2>1, Fails DEF handleTimeout, resendBlock, sendBlock, sendEOT, FileError, NoSuccess
  <2>2. CASE yHandleTimeout
    BY <1>0, <2>2, Fails DEF yHandleTimeout, resendDataBlock, waitAfter, sendDataBlock, YFileError,
       yFinish, NoSuccess
  <2> QED BY <1>6, <2>1, <2>2 DEF timeout
<1>7. CASE UNCHANGED fvars
  BY <1>3, <1>7 DEF fvars, yvars, xvars, history
<1> QED BY <1>1, <1>2, <1>4, <1>5, <1>6, <1>7 DEF FNext, stopTransmission

(* A step of the link is a step of the front end, or none. *)
LEMMA LinkRefines ==
  ASSUME LinkIInv, [LinkNext]_linkVars
  PROVE  [FNext]_fvars
<1>1. CASE Deliver
  <2>1. Head(toSender) \in Bytes
    BY <1>1, TailHas DEF LinkIInv, LinkTypes, Deliver
  <2> QED BY <1>1, <2>1 DEF Deliver, FNext
<1>2. CASE Start \/ Cancel \/ SwitchMode \/ SenderTimeout \/ Drop
  BY <1>2 DEF Start, Cancel, SwitchMode, SenderTimeout, Drop, FNext
<1>3. CASE Receive \/ Restart \/ Ask \/ Damage \/ Lose \/ Stray \/ Abort \/ UNCHANGED linkVars
  BY <1>3 DEF Receive, Restart, Ask, Damage, Lose, Stray, Abort, linkVars
<1> QED BY <1>1, <1>2, <1>3 DEF LinkNext

(* The link leaves the front end's own specification as it is: what is proved of
   the front end alone holds behind the line too. *)
THEOREM LinkImplementsFrontEnd == LinkSpec => FSpec
<1>1. LinkInit => FInit
  BY DEF LinkInit
<1>2. LinkIInv /\ [LinkNext]_linkVars => [FNext]_fvars
  BY LinkRefines
<1> QED BY <1>1, <1>2, LinkInvariance, PTL DEF LinkSpec, FSpec

(* finished(true) is never emitted unless the device holds the whole file of this
   transfer, each block once and in its place, whatever the line did. *)
THEOREM DeliveryCorrect == LinkSpec => SuccessMeansDelivered
<1>1. LinkIInv /\ [LinkNext]_linkVars =>
         [result'.ok > result.ok =>
            device.exact /\ device.file \in {0, starts} /\ device.stored = fileSize]_linkVars
  <2>1. SUFFICES ASSUME LinkIInv, [LinkNext]_linkVars, result'.ok > result.ok
                 PROVE  device.exact /\ device.file \in {0, starts} /\ device.stored = fileSize
    OBVIOUS
  <2>2. FileIInv /\ result.ok \in Nat
    BY <2>1, Stages DEF LinkIInv
  <2>3. Ended
    BY <2>1, <2>2, LinkRefines, SuccessEnds DEF NoSuccess
  <2> QED BY <2>1, <2>3 DEF LinkIInv, EndedOK, Holds
<1> QED BY <1>1, LinkInvariance, PTL DEF LinkSpec, SuccessMeansDelivered
=============================================================================
