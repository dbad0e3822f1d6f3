-------------------------- MODULE FileTransmission --------------------------
(***************************************************************************)
(* The front end of the transfers, core/Devices/IO/FileTransmission.cpp,   *)
(* over its XMODEM and YMODEM senders: it starts the sender of the chosen  *)
(* mode, stops it for the user, for another mode and for a lost link, and  *)
(* hands it the bytes of the device while it is active.                    *)
(*                                                                         *)
(* The senders are two objects.  At most one of them is active, and one    *)
(* that is not has the fields of a new one, so they share their variables. *)
(* XMODEM-1K is XMODEM with another BlockSize.                             *)
(***************************************************************************)
EXTENDS YModem

VARIABLE mode       \* m_transferMode

fvars == <<yvars, mode>>

Modes == {"XModem", "YModem"}

FInit == YInit /\ mode \in Modes

(* beginTransmission: the sender of the mode, on the file that was selected.
   Without a connection it is a stop. *)
beginTransmission ==
    /\ \/ mode = "XModem" /\ (startTransfer \/ startUnreadable) /\ UNCHANGED yState
       \/ mode = "YModem" /\ (yStartTransfer \/ yStartUnreadable)
    /\ UNCHANGED mode

(* The active sender is told to cancel. *)
cancelActive ==
    \/ mode = "XModem" /\ cancelTransfer /\ UNCHANGED yState
    \/ mode = "YModem" /\ yCancelTransfer

(* stopTransmission, for the user or for connectedChanged. *)
stopTransmission == cancelActive /\ UNCHANGED mode

setTransferMode(m) ==
    /\ m # mode /\ mode' = m
    /\ \/ isActive /\ cancelActive
       \/ ~isActive /\ out' = <<>> /\ UNCHANGED <<file, proto, yState, history>>

(* onRawDataReceived: dropped unless the sender of the mode is active. *)
onRawDataReceived(ch) ==
    /\ \/ isActive /\ mode = "XModem" /\ processInput(ch) /\ UNCHANGED yState
       \/ isActive /\ mode = "YModem" /\ yProcessInput(ch)
       \/ ~isActive /\ out' = <<>> /\ UNCHANGED <<file, proto, yState, history>>
    /\ UNCHANGED mode

(* The timer of the active sender expires. *)
timeout ==
    /\ \/ mode = "XModem" /\ handleTimeout /\ UNCHANGED yState
       \/ mode = "YModem" /\ yHandleTimeout
    /\ UNCHANGED mode

FNext ==
    \/ beginTransmission \/ stopTransmission
    \/ \E m \in Modes : setTransferMode(m)
    \/ \E ch \in Bytes : onRawDataReceived(ch)
    \/ timeout

FSpec == FInit /\ [][FNext]_fvars
=============================================================================
