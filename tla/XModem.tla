------------------------------- MODULE XModem -------------------------------
(***************************************************************************)
(* The XMODEM-CRC sender, core/Protocols/FileTransfer/XMODEM.cpp.          *)
(*                                                                         *)
(* One action per entry point of the class: startTransfer, cancelTransfer, *)
(* one received byte of processInput, and the expiry of the single-shot    *)
(* timer.  The whole handler, up to the packet it writes, is one step: the *)
(* object lives on the GUI thread and no handler re-enters another.        *)
(*                                                                         *)
(* A file is its size; a block is the file range it carries.  The padding  *)
(* and the CRC of buildBlock are left out, the number and the range stay.  *)
(* out holds the packets the last step wrote (the writeRequested signal),  *)
(* for the module that connects the sender to a line.                      *)
(***************************************************************************)
EXTENDS Integers, Sequences

CONSTANTS
    FileSizes,      \* sizes, in bytes, of the files offered for transfer
    BlockSize,      \* 128 in XMODEM, 1024 in XMODEM-1K
    NumModulus,     \* 256: m_blockNumber is a quint8
    MaxRetries,     \* m_maxRetries; setMaxRetries clamps it to at least 1
    MaxTransfers    \* bound on the number of calls of startTransfer

ASSUME FileSizesAssumption    == FileSizes \subseteq Nat
ASSUME BlockSizeAssumption    == BlockSize \in Nat \ {0}
ASSUME NumModulusAssumption   == NumModulus \in Nat \ {0, 1}
ASSUME MaxRetriesAssumption   == MaxRetries \in Nat \ {0}
ASSUME MaxTransfersAssumption == MaxTransfers \in Nat

VARIABLES
    state,          \* m_state
    filePos,        \* m_file.pos(); 0 while the file is closed
    fileSize,       \* m_fileSize
    bytesSent,      \* m_bytesSent
    blockNumber,    \* m_blockNumber
    retryCount,     \* m_retryCount
    lastBlockStart, \* m_lastBlockStart
    lastBlockBytes, \* m_lastBlockBytes
    timer,          \* m_timeoutTimer, armed or stopped
    out,            \* packets written by the last step
    starts,         \* history: transfers that were started
    errorCount,     \* protocolError emissions of the transfer, as the dialog counts them
    result,         \* history: failures and successes reported by finished()
    blockErrors     \* history: NAKs and timeouts suffered by the current block

file    == <<filePos, fileSize, bytesSent, lastBlockStart, lastBlockBytes>>
proto   == <<state, blockNumber, retryCount, timer>>
history == <<starts, errorCount, result, blockErrors>>
xvars   == <<file, proto, out, history>>

(* Control bytes of XMODEM.h; "other" stands for every byte without a role. *)
Bytes == {"ACK", "NAK", "CAN", "C", "other"}

States == {"Idle", "WaitingForStart", "WaitingForAck", "WaitingForEOTAck"}

Block(num, start, len) ==
    [kind |-> "block", num |-> num, start |-> start, len |-> len]
Control(kind) == [kind |-> kind, num |-> 0, start |-> 0, len |-> 0]
EOT           == Control("EOT")
CancelBytes   == Control("CAN")

isActive == state # "Idle"

SmallerOf(a, b) == IF a <= b THEN a ELSE b
LargerOf(a, b)  == IF a >= b THEN a ELSE b

(* Bytes that a read of one block returns at offset pos. *)
ReadLength(pos) == SmallerOf(BlockSize, fileSize - pos)

atEnd(pos) == pos = fileSize

Init ==
    /\ state = "Idle"
    /\ filePos = 0 /\ fileSize = 0 /\ bytesSent = 0
    /\ lastBlockStart = 0 /\ lastBlockBytes = 0
    /\ blockNumber = 1 /\ retryCount = 0 /\ timer = "stopped"
    /\ out = <<>>
    /\ starts = 0 /\ result = [failed |-> 0, ok |-> 0]
    /\ blockErrors = 0 /\ errorCount = 0

-----------------------------------------------------------------------------
(* Helpers of the handlers. *)

resetState ==
    /\ state' = "Idle" /\ timer' = "stopped"
    /\ blockNumber' = 1 /\ retryCount' = 0
    /\ filePos' = 0 /\ fileSize' = 0 /\ bytesSent' = 0
    /\ lastBlockStart' = 0 /\ lastBlockBytes' = 0

(* resetState() followed by finished(ok), after writing packets. *)
Finish(ok, packets) ==
    /\ resetState
    /\ out' = packets
    /\ result' = IF ok THEN [result EXCEPT !.ok = @ + 1]
                       ELSE [result EXCEPT !.failed = @ + 1]
    /\ blockErrors' = 0

(* Mutant: EOT written without restarting the timer. *)
SendEotNoTimer ==
    /\ state' = "WaitingForEOTAck"
    /\ timer' = "stopped"
    /\ out' = <<EOT>>
    /\ UNCHANGED result

sendEOT ==
    /\ state' = "WaitingForEOTAck"
    /\ timer' = "armed"
    /\ out' = <<EOT>>
    /\ UNCHANGED result

(***************************************************************************)
(* sendBlock with the file positioned at pos, block number num and sent    *)
(* bytes already accounted for.  An empty read means the end of the file.  *)
(***************************************************************************)
sendBlock(pos, num, sent) ==
    LET n == ReadLength(pos) IN
    /\ lastBlockStart' = pos
    /\ blockNumber' = num
    /\ UNCHANGED fileSize
    /\ IF n = 0
       THEN /\ sendEOT
            /\ filePos' = pos /\ bytesSent' = sent
            /\ UNCHANGED lastBlockBytes
       ELSE /\ lastBlockBytes' = n
            /\ filePos' = pos + n
            /\ bytesSent' = SmallerOf(sent + n, fileSize)
            /\ state' = "WaitingForAck"
            /\ timer' = "armed"
            /\ out' = <<Block(num, pos, n)>>
            /\ UNCHANGED result

(* Mutant: progress not taken back. *)
ResendKeepsProgress == sendBlock(lastBlockStart, blockNumber, bytesSent)

(* The seek back to the last block that a NAK and a timeout share. *)
resendBlock ==
    sendBlock(lastBlockStart, blockNumber, LargerOf(0, bytesSent - lastBlockBytes))

(* A failing read or seek ends the transfer without writing anything. *)
FileError == Finish(FALSE, <<>>)

-----------------------------------------------------------------------------
(* Entry points. *)

(* startTransfer: a running transfer is cancelled first; the file is opened, and
   its first block will have the given number. *)
startFrom(number) ==
    /\ starts < MaxTransfers
    /\ starts' = starts + 1
    /\ out' = IF isActive THEN <<CancelBytes>> ELSE <<>>
    /\ \E size \in FileSizes :
          /\ fileSize' = size
          /\ state' = "WaitingForStart" /\ timer' = "armed"
          /\ filePos' = 0 /\ bytesSent' = 0 /\ blockNumber' = number /\ retryCount' = 0
          /\ IF isActive THEN lastBlockStart' = 0 /\ lastBlockBytes' = 0
                         ELSE UNCHANGED <<lastBlockStart, lastBlockBytes>>
    /\ result' = IF isActive THEN [result EXCEPT !.failed = @ + 1] ELSE result
    /\ blockErrors' = 0
    /\ errorCount' = 0

startTransfer == startFrom(1)

(* startTransfer of a file that cannot be opened. *)
startUnreadable ==
    /\ starts < MaxTransfers
    /\ starts' = starts + 1
    /\ resetState
    /\ out' = IF isActive THEN <<CancelBytes>> ELSE <<>>
    /\ result' = [result EXCEPT !.failed = @ + (IF isActive THEN 2 ELSE 1)]
    /\ blockErrors' = 0 /\ errorCount' = 0

(* Mutant: a cancel that does not ask whether a transfer is running. *)
CancelUnguarded ==
    /\ Finish(FALSE, <<CancelBytes>>)
    /\ UNCHANGED <<starts, errorCount>>

cancelTransfer ==
    /\ isActive
    /\ Finish(FALSE, <<CancelBytes>>)
    /\ UNCHANGED <<starts, errorCount>>

(* WaitingForStart: only 'C' matters. *)
receiveStart(ch) ==
    /\ state = "WaitingForStart"
    /\ UNCHANGED <<starts, errorCount>>
    /\ IF ch = "C"
       THEN \/ /\ sendBlock(filePos, blockNumber, bytesSent)
               /\ UNCHANGED <<retryCount, blockErrors>>
            \/ FileError
       ELSE /\ out' = <<>>
            /\ UNCHANGED <<file, proto, result, blockErrors>>

(* handleAckByte *)
handleAck ==
    /\ UNCHANGED <<starts, errorCount>>
    /\ \/ /\ ~atEnd(filePos)
          /\ sendBlock(filePos, (blockNumber + 1) % NumModulus, bytesSent)
          /\ retryCount' = 0 /\ blockErrors' = 0
       \/ /\ atEnd(filePos)
          /\ sendEOT
          /\ blockNumber' = (blockNumber + 1) % NumModulus
          /\ retryCount' = 0 /\ blockErrors' = 0
          /\ UNCHANGED file
       \/ ~atEnd(filePos) /\ FileError

retriesExhausted == retryCount + 1 >= MaxRetries

handleNak ==
    /\ UNCHANGED starts
    /\ IF retriesExhausted
       THEN Finish(FALSE, <<CancelBytes>>) /\ UNCHANGED errorCount
       ELSE /\ errorCount' = errorCount + 1
            /\ \/ /\ resendBlock
                  /\ retryCount' = retryCount + 1
                  /\ blockErrors' = blockErrors + 1
               \/ FileError

receiveAck(ch) ==
    /\ state = "WaitingForAck"
    /\ CASE ch = "ACK" -> handleAck
         [] ch = "NAK" -> handleNak
         [] ch = "CAN" -> Finish(FALSE, <<>>) /\ UNCHANGED <<starts, errorCount>>
         [] OTHER      -> out' = <<>> /\ UNCHANGED <<file, proto, history>>

(* handleEotAckByte: a NAK repeats EOT without counting a retry. *)
receiveEotAck(ch) ==
    /\ state = "WaitingForEOTAck"
    /\ UNCHANGED starts
    /\ CASE ch = "ACK" -> Finish(TRUE, <<>>) /\ UNCHANGED errorCount
         [] ch = "NAK" -> /\ sendEOT
                          /\ UNCHANGED <<file, blockNumber, retryCount, blockErrors, errorCount>>
         [] OTHER      -> /\ out' = <<>>
                          /\ UNCHANGED <<file, proto, result, blockErrors, errorCount>>

(* One byte of processInput; FileTransmission feeds only an active sender. *)
processInput(ch) ==
    \/ receiveStart(ch)
    \/ receiveAck(ch)
    \/ receiveEotAck(ch)

handleTimeout ==
    /\ timer = "armed"
    /\ isActive
    /\ UNCHANGED starts
    /\ IF retriesExhausted
       THEN Finish(FALSE, <<CancelBytes>>) /\ UNCHANGED errorCount
       ELSE /\ errorCount' = errorCount + 1
            /\ \/ /\ state = "WaitingForStart"
                  /\ out' = <<>>
                  /\ UNCHANGED <<file, state, blockNumber, timer, result, blockErrors>>
                  /\ retryCount' = retryCount + 1
               \/ /\ state = "WaitingForAck"
                  /\ resendBlock
                  /\ retryCount' = retryCount + 1
                  /\ blockErrors' = blockErrors + 1
               \/ /\ state = "WaitingForAck"
                  /\ FileError
               \/ /\ state = "WaitingForEOTAck"
                  /\ sendEOT
                  /\ retryCount' = retryCount + 1
                  /\ UNCHANGED <<file, blockNumber, blockErrors>>

Next ==
    \/ startTransfer
    \/ startUnreadable
    \/ cancelTransfer
    \/ \E ch \in Bytes : processInput(ch)
    \/ handleTimeout

Spec == Init /\ [][Next]_xvars

-----------------------------------------------------------------------------
(* Properties. *)

(* Type invariant of the sender object. *)
TypeOK ==
    /\ state \in States
    /\ filePos \in Nat /\ fileSize \in Nat /\ bytesSent \in Nat
    /\ lastBlockStart \in Nat /\ lastBlockBytes \in Nat
    /\ blockNumber \in 0 .. NumModulus - 1
    /\ retryCount \in 0 .. MaxRetries - 1
    /\ timer \in {"armed", "stopped"}
    /\ starts \in Nat /\ errorCount \in Nat /\ blockErrors \in Nat
    /\ result \in [failed : Nat, ok : Nat]

(* The file stands right behind the last block, and so does the progress. *)
BehindLastBlock ==
    /\ lastBlockBytes > 0
    /\ filePos = lastBlockStart + lastBlockBytes
    /\ bytesSent = filePos
    /\ filePos <= fileSize

(* The rewind of a retransmission is exact: while a block awaits its answer
   the file stands right behind it, and the progress shown equals that
   position, however many NAKs, timeouts and short last blocks there were. *)
RewindIsExact == state = "WaitingForAck" => BehindLastBlock

(* EOT goes out only when the whole file has been read and handed to the
   line; a resent block never makes the end look closer than it is. *)
EotAfterWholeFile ==
    state = "WaitingForEOTAck" => filePos = fileSize /\ bytesSent = fileSize

(* finished() is emitted exactly once for every startTransfer. *)
OneVerdictPerTransfer ==
    starts = result.failed + result.ok + (IF isActive THEN 1 ELSE 0)

(* An active sender always has its timer armed, so it can never wait for ever
   on a receiver that went away; an idle one has none. *)
TimerGuardsEveryWait == (timer = "armed") <=> isActive

(* No data block is put on the line more than MaxRetries times in a row. *)
BoundedRetransmission == blockErrors < MaxRetries
=============================================================================
