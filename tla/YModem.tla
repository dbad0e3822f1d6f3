------------------------------- MODULE YModem -------------------------------
(***************************************************************************)
(* The YMODEM sender, core/Protocols/FileTransfer/YMODEM.cpp: a file       *)
(* announced by a header block, sent in numbered blocks, closed by two EOT *)
(* and followed by an empty header, the end of the batch.                  *)
(*                                                                         *)
(* The class derives from XMODEM and keeps its fields.  A state machine of *)
(* its own, yState, decides what a byte means; the inherited state says    *)
(* only whether a transfer runs.  As in module XModem one handler is one   *)
(* step.  The header is its kind: the name and the size it carries are     *)
(* data, and a receiver tells it from a block by what it waits for.        *)
(***************************************************************************)
EXTENDS XModem

VARIABLE yState     \* m_yState

yvars == <<xvars, yState>>

YStates == {"Idle", "WaitingForInitialC", "WaitingForBlock0Ack", "WaitingForDataC",
            "WaitingForDataAck", "WaitingForFirstEOTResponse", "WaitingForSecondEOTAck",
            "WaitingForEndBatchC", "WaitingForEndBatchAck", "Done"}

Header     == Control("header")
EndOfBatch == Control("end")

YInit == Init /\ yState = "Idle"

-----------------------------------------------------------------------------
(* Helpers of the handlers. *)

(* Mutant: the answer to what was written is awaited without a timer. *)
WaitUntimed(packets, place) ==
    /\ yState' = place /\ timer' = "stopped" /\ out' = packets
    /\ UNCHANGED <<file, state, result>>

(* Whatever is written that is no data, and the wait for its answer: sendBlock0,
   sendEndOfBatch, either EOT, or nothing. *)
waitAfter(packets, place) ==
    /\ yState' = place /\ timer' = "armed" /\ out' = packets
    /\ UNCHANGED <<file, state, result>>

(* sendDataBlock from pos; an empty read is the end of the file. *)
sendDataBlock(pos, num, sent) ==
    LET n == ReadLength(pos) IN
    /\ lastBlockStart' = pos /\ blockNumber' = num
    /\ timer' = "armed"
    /\ filePos' = pos + n /\ bytesSent' = SmallerOf(sent + n, fileSize)
    /\ lastBlockBytes' = IF n = 0 THEN lastBlockBytes ELSE n
    /\ yState' = IF n = 0 THEN "WaitingForFirstEOTResponse" ELSE "WaitingForDataAck"
    /\ out' = IF n = 0 THEN <<EOT>> ELSE <<Block(num, pos, n)>>
    /\ UNCHANGED <<fileSize, state, result>>

(* Mutant: the file is read on from where it stands. *)
ResendReadsOn == sendDataBlock(filePos, blockNumber, bytesSent)

(* The seek back to the last block that a NAK and a timeout share. *)
resendDataBlock ==
    sendDataBlock(lastBlockStart, blockNumber, LargerOf(0, bytesSent - lastBlockBytes))

(* The end of a transfer; the batch state is set beside the inherited one. *)
yFinish(ok, packets) ==
    /\ Finish(ok, packets)
    /\ yState' = IF ok THEN "Done" ELSE "Idle"

(* A failing read or seek ends the transfer without writing anything. *)
YFileError == yFinish(FALSE, <<>>)

-----------------------------------------------------------------------------
(* Entry points. *)

yStartTransfer == startFrom(0) /\ yState' = "WaitingForInitialC"

yStartUnreadable ==
    /\ startUnreadable
    /\ yState' = IF isActive THEN "Idle" ELSE yState

yCancelTransfer == cancelTransfer /\ yState' = "Idle"

(* A C asks for the header, for the data or for the next header. *)
receiveC ==
    /\ UNCHANGED errorCount
    /\ \/ /\ yState = "WaitingForInitialC"
          /\ waitAfter(<<Header>>, "WaitingForBlock0Ack")
          /\ UNCHANGED <<blockNumber, retryCount, blockErrors>>
       \/ /\ yState = "WaitingForDataC"
          /\ \/ sendDataBlock(filePos, 1, bytesSent) /\ retryCount' = 0 /\ blockErrors' = 0
             \/ YFileError
       \/ /\ yState \in {"WaitingForSecondEOTAck", "WaitingForEndBatchC"}
          /\ waitAfter(<<EndOfBatch>>, "WaitingForEndBatchAck")
          /\ UNCHANGED <<blockNumber, retryCount, blockErrors>>

(* handleDataAckByte, ACK: the next block, or the first EOT. *)
dataAcknowledged ==
    LET next == (blockNumber + 1) % NumModulus IN
    \/ /\ ~atEnd(filePos)
       /\ sendDataBlock(filePos, next, bytesSent)
       /\ retryCount' = 0 /\ blockErrors' = 0
    \/ /\ atEnd(filePos)
       /\ waitAfter(<<EOT>>, "WaitingForFirstEOTResponse")
       /\ blockNumber' = next /\ retryCount' = 0 /\ blockErrors' = 0
    \/ ~atEnd(filePos) /\ YFileError

receiveACK ==
    /\ UNCHANGED errorCount
    /\ \/ /\ yState = "WaitingForBlock0Ack"
          /\ waitAfter(<<>>, "WaitingForDataC")
          /\ retryCount' = 0 /\ UNCHANGED <<blockNumber, blockErrors>>
       \/ yState = "WaitingForDataAck" /\ dataAcknowledged
       \/ /\ yState = "WaitingForFirstEOTResponse"
          /\ waitAfter(<<EOT>>, "WaitingForSecondEOTAck")
          /\ UNCHANGED <<blockNumber, retryCount, blockErrors>>
       \/ /\ yState = "WaitingForSecondEOTAck"
          /\ waitAfter(<<>>, "WaitingForEndBatchC")
          /\ retryCount' = 0 /\ UNCHANGED <<blockNumber, blockErrors>>
       \/ yState = "WaitingForEndBatchAck" /\ yFinish(TRUE, <<>>)

(* A NAK repeats a data block; after the first EOT it means as much as an ACK. *)
receiveNAK ==
    \/ /\ yState = "WaitingForDataAck" /\ retriesExhausted
       /\ yFinish(FALSE, <<CancelBytes>>) /\ UNCHANGED errorCount
    \/ /\ yState = "WaitingForDataAck" /\ ~retriesExhausted
       /\ errorCount' = errorCount + 1
       /\ \/ /\ resendDataBlock
             /\ retryCount' = retryCount + 1 /\ blockErrors' = blockErrors + 1
          \/ YFileError
    \/ /\ yState = "WaitingForFirstEOTResponse"
       /\ waitAfter(<<EOT>>, "WaitingForSecondEOTAck")
       /\ UNCHANGED <<blockNumber, retryCount, errorCount, blockErrors>>

receiveCAN ==
    /\ yState \in {"WaitingForBlock0Ack", "WaitingForDataAck"}
    /\ yFinish(FALSE, <<>>) /\ UNCHANGED errorCount

(* The bytes with a role in each state; any other leaves everything as it is. *)
Roles ==
    [s \in YStates |->
        CASE s \in {"WaitingForInitialC", "WaitingForDataC", "WaitingForEndBatchC"} -> {"C"}
          [] s = "WaitingForBlock0Ack"        -> {"ACK", "CAN"}
          [] s = "WaitingForDataAck"          -> {"ACK", "NAK", "CAN"}
          [] s = "WaitingForFirstEOTResponse" -> {"ACK", "NAK"}
          [] s = "WaitingForSecondEOTAck"     -> {"ACK", "C"}
          [] s = "WaitingForEndBatchAck"      -> {"ACK"}
          [] OTHER                            -> {}]

(* One byte of processInput; FileTransmission feeds only an active sender. *)
yProcessInput(ch) ==
    /\ UNCHANGED starts
    /\ \/ ch = "C" /\ receiveC
       \/ ch = "ACK" /\ receiveACK
       \/ ch = "NAK" /\ receiveNAK
       \/ ch = "CAN" /\ receiveCAN
       \/ /\ ch \notin Roles[yState]
          /\ out' = <<>>
          /\ UNCHANGED <<file, proto, yState, result, errorCount, blockErrors>>

(* What a timeout sends again; a wait for a C only restarts the timer. *)
Repeated ==
    CASE yState = "WaitingForBlock0Ack"   -> <<Header>>
      [] yState = "WaitingForEndBatchAck" -> <<EndOfBatch>>
      [] yState \in {"WaitingForFirstEOTResponse", "WaitingForSecondEOTAck"} -> <<EOT>>
      [] OTHER -> <<>>

yHandleTimeout ==
    /\ timer = "armed" /\ isActive
    /\ UNCHANGED starts
    /\ \/ /\ retriesExhausted
          /\ yFinish(FALSE, <<CancelBytes>>) /\ UNCHANGED errorCount
       \/ /\ ~retriesExhausted
          /\ errorCount' = errorCount + 1
          /\ \/ /\ yState = "WaitingForDataAck"
                /\ resendDataBlock
                /\ retryCount' = retryCount + 1 /\ blockErrors' = blockErrors + 1
             \/ yState = "WaitingForDataAck" /\ YFileError
             \/ /\ yState # "WaitingForDataAck"
                /\ waitAfter(Repeated, yState)
                /\ retryCount' = retryCount + 1
                /\ UNCHANGED <<blockNumber, blockErrors>>

YNext ==
    \/ yStartTransfer
    \/ yStartUnreadable
    \/ yCancelTransfer
    \/ \E ch \in Bytes : isActive /\ yProcessInput(ch)
    \/ yHandleTimeout

YSpec == YInit /\ [][YNext]_yvars

-----------------------------------------------------------------------------
(* Properties. *)

(* Both senders rewind exactly: while a data block awaits its answer, the file
   and the progress stand right behind it. *)
RewindsAreExact ==
    RewindIsExact /\ (yState = "WaitingForDataAck" => BehindLastBlock)

(* The inherited state and the batch's own agree on whether a transfer runs: bytes
   that arrive after its end cannot resume it on a closed file (cancelTransfer). *)
MachinesAgree == isActive <=> yState \notin {"Idle", "Done"}

(* A second EOT, which closes the file at the receiver, follows only the whole file. *)
EotAfterWholeBatchFile ==
    yState \in {"WaitingForFirstEOTResponse", "WaitingForSecondEOTAck"} =>
        filePos = fileSize /\ bytesSent = fileSize
=============================================================================
