----------------------------- MODULE XModemLink -----------------------------
(***************************************************************************)
(* The XMODEM and YMODEM senders behind their front end, connected by a    *)
(* serial line to a receiver.  The receiver is the device and is not part  *)
(* of the repository: it is the usual one, which asks for the file with C, *)
(* takes the block it expects, acknowledges a repetition of the block      *)
(* before it, answers a damaged packet with NAK and gives up on any other  *)
(* number.  One that speaks YMODEM takes a header first, asks for the data *)
(* with another C, refuses the first EOT and asks for the next header.     *)
(*                                                                         *)
(* The line is a FIFO in each direction.  Its faults, at most MaxFaults,   *)
(* are damaged or lost packets, lost answers, stray bytes, a device that   *)
(* aborts and a connection that drops.  Both ends wait longer for an       *)
(* answer than the line needs to bring it: a timer fires only when the     *)
(* line is quiet.                                                          *)
(***************************************************************************)
EXTENDS FileTransmission

CONSTANT MaxFaults      \* bound: faults of a behaviour

ASSUME MaxFaultsAssumption == MaxFaults \in Nat

VARIABLES
    toReceiver,     \* packets on their way to the device
    toSender,       \* bytes on their way to Serial Studio
    device,         \* the receiver: phase, number expected, transfer and bytes stored
    faults          \* faults so far

line     == <<toReceiver, toSender>>
linkVars == <<fvars, line, device, faults>>

Quiet == toReceiver = <<>> /\ toSender = <<>>

FreshDevice(protocol) ==
    [protocol |-> protocol, phase |-> "starting", expected |-> 1, file |-> 0, stored |-> 0,
     exact |-> TRUE]

LinkInit ==
    /\ FInit
    /\ toReceiver = <<>> /\ toSender = <<>>
    /\ device = FreshDevice(mode)
    /\ faults = 0

-----------------------------------------------------------------------------
(* Serial Studio.  What the sender writes joins the line. *)

Transmit == toReceiver' = toReceiver \o out'

(* A transfer starts on a quiet line, in the place of one that still waits too,
   with a device that is not left within an earlier file. *)
Start ==
    /\ Quiet
    /\ device.phase \in {"starting", "done", "stopped"}
    /\ beginTransmission
    /\ Transmit
    /\ UNCHANGED <<toSender, device, faults>>

Cancel ==
    /\ stopTransmission
    /\ Transmit
    /\ UNCHANGED <<toSender, device, faults>>

SwitchMode ==
    /\ \E m \in Modes : setTransferMode(m)
    /\ Transmit
    /\ UNCHANGED <<toSender, device, faults>>

Deliver ==
    /\ toSender # <<>>
    /\ toSender' = Tail(toSender)
    /\ onRawDataReceived(Head(toSender))
    /\ Transmit
    /\ UNCHANGED <<device, faults>>

SenderTimeout ==
    /\ Quiet
    /\ timeout
    /\ Transmit
    /\ UNCHANGED <<toSender, device, faults>>

-----------------------------------------------------------------------------
(* The device. *)

Say(d, bytes) == [d |-> d, says |-> bytes]

Stored(packet) ==
    [device EXCEPT !.phase    = "receiving",
                   !.expected = (@ + 1) % NumModulus,
                   !.file     = starts,
                   !.stored   = @ + packet.len,
                   !.exact    = @ /\ packet.start = device.stored /\ device.file \in {0, starts}]

Stopped == [device EXCEPT !.phase = "stopped"]

(* A data block; one that takes headers takes no data before the first. *)
AnswerToBlock(packet) ==
    CASE /\ packet.num = device.expected
         /\ device.phase \in IF device.protocol = "XModem" THEN {"starting", "receiving"}
                             ELSE {"ready", "receiving"} -> Say(Stored(packet), <<"ACK">>)
      [] device.stored > 0 /\ (packet.num + 1) % NumModulus = device.expected ->
            Say(device, <<"ACK">>)
      [] OTHER -> Say(Stopped, <<"CAN">>)

AnswerToEot ==
    IF device.protocol = "XModem" THEN Say([device EXCEPT !.phase = "done"], <<"ACK">>)
    ELSE CASE device.phase \in {"ready", "receiving"} ->
                 Say([device EXCEPT !.phase = "ending"], <<"NAK">>)
           [] device.phase \in {"ending", "closing"} ->
                 Say([device EXCEPT !.phase = "closing"], <<"ACK", "C">>)
           [] OTHER -> Say(device, <<>>)

AnswerToHeader ==
    IF device.protocol = "YModem" /\ device.phase \in {"starting", "ready"}
    THEN Say([device EXCEPT !.phase = "ready", !.file = starts], <<"ACK", "C">>)
    ELSE Say(Stopped, <<"CAN">>)

AnswerToEnd ==
    IF device.phase \in {"closing", "done"}
    THEN Say([device EXCEPT !.phase = "done"], <<"ACK">>) ELSE Say(Stopped, <<"CAN">>)

Answer(packet) ==
    CASE packet.kind = "damaged" -> Say(device, <<"NAK">>)
      [] packet.kind = "CAN"     -> Say(Stopped, <<>>)
      [] packet.kind = "EOT"     -> AnswerToEot
      [] packet.kind = "header"  -> AnswerToHeader
      [] packet.kind = "end"     -> AnswerToEnd
      [] packet.kind = "block"   -> AnswerToBlock(packet)

Receive ==
    /\ toReceiver # <<>>
    /\ toReceiver' = Tail(toReceiver)
    /\ IF device.phase = "stopped"
       THEN UNCHANGED <<device, toSender>>
       ELSE LET a == Answer(Head(toReceiver))
            IN  device' = a.d /\ toSender' = toSender \o a.says
    /\ UNCHANGED <<fvars, faults>>

(* No packet of the transfer was sent yet, or none is running. *)
NotBegun ==
    state = "Idle" \/ (state = "WaitingForStart" /\ yState \in {"Idle", "Done", "WaitingForInitialC"})

(* A device that is done, was stopped or lost its sender receives anew, set to the
   protocol of the sender. *)
Restart ==
    /\ Quiet /\ NotBegun
    /\ device # FreshDevice(mode)
    /\ device' = FreshDevice(mode)
    /\ UNCHANGED <<fvars, line, faults>>

(* The device asks for what it is waiting for. *)
Ask ==
    /\ Quiet /\ isActive
    /\ device.phase \notin {"done", "stopped"}
    /\ toSender' = <<IF device.phase \in {"receiving", "ending"} THEN "NAK" ELSE "C">>
    /\ UNCHANGED <<fvars, toReceiver, device, faults>>

-----------------------------------------------------------------------------
(* The faults. *)

Fault == faults < MaxFaults /\ faults' = faults + 1

Damage ==
    /\ Fault
    /\ toReceiver # <<>> /\ Head(toReceiver).kind \notin {"damaged", "CAN"}
    /\ toReceiver' = <<Control("damaged")>> \o Tail(toReceiver)
    /\ UNCHANGED <<fvars, toSender, device>>

(* The several bytes of a cancel are not all lost. *)
Lose ==
    /\ Fault
    /\ \/ /\ toReceiver # <<>> /\ Head(toReceiver).kind # "CAN"
          /\ toReceiver' = Tail(toReceiver) /\ UNCHANGED toSender
       \/ toSender # <<>> /\ toSender' = Tail(toSender) /\ UNCHANGED toReceiver
    /\ UNCHANGED <<fvars, device>>

Stray ==
    /\ Fault
    /\ toSender' = <<"other">> \o toSender
    /\ UNCHANGED <<fvars, toReceiver, device>>

(* The device cannot go on: its disk is full, its operator stops it. *)
Abort ==
    /\ Fault
    /\ device.phase \notin {"done", "stopped"}
    /\ device' = Stopped
    /\ toSender' = Append(toSender, "CAN")
    /\ UNCHANGED <<fvars, toReceiver>>

(* The connection drops: what was on the line is gone, and so is the cancel that
   connectedChanged brings about. *)
Drop ==
    /\ Fault
    /\ isActive /\ stopTransmission
    /\ toReceiver' = <<>> /\ toSender' = <<>>
    /\ UNCHANGED device

LinkNext ==
    \/ Start \/ Cancel \/ SwitchMode \/ Deliver \/ SenderTimeout
    \/ Receive \/ Restart \/ Ask
    \/ Damage \/ Lose \/ Stray \/ Abort \/ Drop

LinkSpec == LinkInit /\ [][LinkNext]_linkVars

(* The event loop delivers what arrived and the line brings what it does not
   lose.  The timer of an active sender runs on while the device keeps asking:
   a C or any byte without a role does not restart it, so it fires even though
   the line is not quiet all the time. *)
FairLink ==
    /\ LinkSpec
    /\ WF_linkVars(Deliver) /\ WF_linkVars(Receive)
    /\ SF_linkVars(SenderTimeout)

-----------------------------------------------------------------------------
(* Properties. *)

(* finished(true) is never emitted unless the device holds the whole file of
   this very transfer, no block of it twice and none skipped: whatever was
   damaged, lost, repeated or cut short on the way, and although the number of
   a block, by which a repetition is told from the next block, wraps. *)
SuccessMeansDelivered ==
    [][result'.ok > result.ok =>
          device.exact /\ device.file \in {0, starts} /\ device.stored = fileSize]_linkVars

(* A transfer that was started ends, whatever the device and the line do. *)
EveryTransferEnds == [](isActive => <>~isActive)
=============================================================================
