----------------------------- MODULE ZModemLink -----------------------------
(***************************************************************************)
(* The ZMODEM sender of module ZModem connected by a serial line to a      *)
(* receiver.  The receiver is the device and is not part of the            *)
(* repository: it is the usual one.  It answers ZRQINIT with ZRINIT, names *)
(* with ZRPOS the offset it wants, appends the subpackets of a frame that  *)
(* starts at that offset, asks again after a damaged one, ignores a ZEOF   *)
(* that is not where its file ends, and may keep the first part of a file  *)
(* from an earlier session (crash recovery) or skip a file.                *)
(*                                                                         *)
(* The line is a FIFO in each direction.  Its faults, at most MaxFaults,   *)
(* are damaged packets, lost or damaged headers, a device that repeats     *)
(* itself or aborts, and an answer that comes after the timeout.           *)
(***************************************************************************)
EXTENDS ZModem

CONSTANTS
    Kept,           \* bytes a device may hold of a file before its transfer
    MaxFaults       \* bound: faults of the line and of the device

ASSUME LinkAssumptions == Kept \subseteq Nat /\ 0 \in Kept /\ MaxFaults \in Nat

VARIABLES
    toReceiver,     \* packets on their way to the device
    toSender,       \* headers on their way to Serial Studio
    device,         \* the receiver: phase, file, bytes stored, within a frame
    faults          \* faults so far

line     == <<toReceiver, toSender>>
linkVars == <<z, line, device, faults>>

Quiet == toReceiver = <<>> /\ toSender = <<>> /\ z.live = 0

Header(kind, pos) == [kind |-> kind, pos |-> pos]

FreshDevice == [phase |-> "waiting", file |-> 0, stored |-> 0,
                frame |-> FALSE, exact |-> TRUE, skipped |-> FALSE]

LinkInit ==
    /\ Init
    /\ toReceiver = <<>> /\ toSender = <<>>
    /\ device = FreshDevice
    /\ faults = 0

-----------------------------------------------------------------------------
(* Serial Studio.  What the sender writes joins the line. *)

Transmit == toReceiver' = toReceiver \o z'.out

(* A transfer starts on a quiet line, with a device that is not left within an
   earlier file. *)
Start ==
    /\ toReceiver = <<>> /\ toSender = <<>>
    /\ device.phase # "data"
    /\ startTransfer \/ startUnreadable
    /\ Transmit
    /\ UNCHANGED <<toSender, device, faults>>

Cancel ==
    /\ cancelTransfer
    /\ Transmit
    /\ UNCHANGED <<toSender, device, faults>>

(* onRawDataReceived: the bytes reach an active sender and are dropped otherwise. *)
Deliver ==
    /\ toSender # <<>>
    /\ toSender' = Tail(toSender)
    /\ IF isActive THEN processInput(Head(toSender)) /\ Transmit
                   ELSE UNCHANGED <<z, toReceiver>>
    /\ UNCHANGED <<device, faults>>

(* A turn of the event loop. *)
Continue ==
    /\ continueLive \/ continueStale
    /\ Transmit
    /\ UNCHANGED <<toSender, device, faults>>

SenderTimeout ==
    /\ Quiet
    /\ handleTimeout
    /\ Transmit
    /\ UNCHANGED <<toSender, device, faults>>

-----------------------------------------------------------------------------
(* The device. *)

Silent(d)         == [d |-> d, says |-> <<>>]
Says(d, kind, pos) == [d |-> d, says |-> <<Header(kind, pos)>>]

AskAgain(d) == Says([d EXCEPT !.frame = FALSE], "ZRPOS", d.stored)

(* To a ZFILE a device has several answers. *)
AnswersWaiting(d, p) ==
    CASE p.kind = "ZFILE" ->
            {Says([FreshDevice EXCEPT !.phase = "data", !.file = p.file, !.stored = k],
                  "ZRPOS", k) : k \in {k \in Kept : k <= p.pos}}
            \cup {Says([FreshDevice EXCEPT !.phase = "done", !.file = p.file, !.skipped = TRUE],
                       "ZSKIP", 0)}
      [] p.kind = "damaged" -> {Says(d, "ZNAK", 0)}
      [] OTHER              -> {Silent(d)}

AnswersReceiving(d, p) ==
    CASE p.kind \in {"ZFILE", "damaged"} -> {AskAgain(d)}
      [] p.kind = "ZDATA" ->
            {IF p.pos = d.stored THEN Silent([d EXCEPT !.frame = TRUE]) ELSE AskAgain(d)}
      [] p.kind = "DATA" /\ d.frame ->
            {Silent([d EXCEPT !.stored = @ + p.len,
                              !.exact = @ /\ p.file = d.file /\ p.pos = d.stored])}
      [] p.kind = "ZEOF" /\ p.pos = d.stored ->
            {Says([d EXCEPT !.phase = "done", !.frame = FALSE], "ZRINIT", 0)}
      [] OTHER -> {Silent(d)}

AnswersDone(d, p) ==
    CASE p.kind = "ZEOF"    -> {Says(d, "ZRINIT", 0)}
      [] p.kind = "damaged" -> {Says(d, "ZNAK", 0)}
      [] OTHER              -> {Silent(d)}

(* What a device does with a packet. *)
Answers(d, p) ==
    IF d.phase = "stopped" THEN {Silent(d)}
    ELSE CASE p.kind = "CAN"     -> {Silent([d EXCEPT !.phase = "stopped"])}
           [] p.kind = "ZRQINIT" -> {Says(FreshDevice, "ZRINIT", 0)}
           [] p.kind = "ZFIN"    -> {Says(d, "ZFIN", 0)}
           [] OTHER ->
              CASE d.phase = "waiting" -> AnswersWaiting(d, p)
                [] d.phase = "data"    -> AnswersReceiving(d, p)
                [] d.phase = "done"    -> AnswersDone(d, p)

Receive ==
    /\ toReceiver # <<>>
    /\ toReceiver' = Tail(toReceiver)
    /\ \E a \in Answers(device, Head(toReceiver)) :
          device' = a.d /\ toSender' = toSender \o a.says
    /\ UNCHANGED <<z, faults>>

(* A device whose sender went away gives its file up and waits for the next. *)
Restart ==
    /\ Quiet /\ ~isActive
    /\ device # FreshDevice
    /\ device' = FreshDevice
    /\ UNCHANGED <<z, line, faults>>

-----------------------------------------------------------------------------
(* The faults. *)

Damageable == {"ZRQINIT", "ZFILE", "ZDATA", "DATA", "ZEOF", "ZFIN"}

Fault == faults < MaxFaults /\ faults' = faults + 1

Damage ==
    /\ Fault
    /\ UNCHANGED <<z, device>>
    /\ \/ /\ toReceiver # <<>> /\ Head(toReceiver).kind \in Damageable
          /\ toReceiver' = <<Packet("damaged", 0, 0, 0)>> \o Tail(toReceiver)
          /\ UNCHANGED toSender
       \/ /\ toSender # <<>> /\ Head(toSender).kind \notin {"garbled", "truncated"}
          /\ \E kind \in {"garbled", "truncated"} :
                toSender' = <<Header(kind, 0)>> \o Tail(toSender)
          /\ UNCHANGED toReceiver

(* A subpacket cannot vanish whole, and within a frame neither can the ZDATA of the
   next: what is lost of them damages what follows.  Subpackets carry no position,
   so no receiver could tell that the stream had jumped. *)
Lose ==
    /\ Fault
    /\ UNCHANGED <<z, device>>
    /\ \/ /\ toReceiver # <<>>
          /\ Head(toReceiver).kind \in
                Damageable \ ({"DATA"} \cup IF device.frame THEN {"ZDATA"} ELSE {})
          /\ toReceiver' = Tail(toReceiver) /\ UNCHANGED toSender
       \/ toSender # <<>> /\ toSender' = Tail(toSender) /\ UNCHANGED toReceiver

(* The device repeats itself while the line is still busy, or says what no one asked. *)
Repeat ==
    /\ Fault
    /\ \E h \in CASE device.phase = "waiting" -> {Header("ZRINIT", 0)}
                  [] device.phase = "data"    -> {Header("ZRPOS", device.stored), Header("ZACK", 0)}
                  [] device.phase = "done"    -> {Header("ZRINIT", 0)}
                  [] OTHER                    -> {} :
          toSender' = Append(toSender, h)
    /\ UNCHANGED <<z, toReceiver, device>>

(* The device cannot go on: its disk is full, its operator stops it. *)
Abort ==
    /\ Fault
    /\ device.phase \in {"data", "waiting"}
    /\ device' = [device EXCEPT !.phase = "stopped", !.frame = FALSE]
    /\ toSender' = Append(toSender, Header("ZABORT", 0))
    /\ UNCHANGED <<z, toReceiver>>

(* The timer expires while an answer is still on its way. *)
EarlyTimeout ==
    /\ Fault
    /\ ~Quiet
    /\ handleTimeout
    /\ Transmit
    /\ UNCHANGED <<toSender, device>>

LinkNext ==
    \/ Start \/ Cancel \/ Deliver \/ Continue \/ SenderTimeout
    \/ Receive \/ Restart
    \/ Damage \/ Lose \/ Repeat \/ Abort \/ EarlyTimeout

LinkSpec == LinkInit /\ [][LinkNext]_linkVars

(* The event loop delivers what arrived and runs what is queued, the line
   brings what it does not lose, and an armed timer expires. *)
FairLink ==
    /\ LinkSpec
    /\ WF_linkVars(Deliver) /\ WF_linkVars(Receive) /\ WF_linkVars(Continue)
    /\ WF_linkVars(SenderTimeout)

-----------------------------------------------------------------------------
(* Properties *)

(* finished(true) is emitted only if the device holds the file of this very
   transfer whole and in order, or has skipped it: whatever was damaged, asked
   for again, cancelled and started anew, or kept from before. *)
SuccessMeansDelivered ==
    [][z'.ok > z.ok =>
          /\ device.file = z.starts
          /\ device.skipped \/ (device.exact /\ device.stored = z.size)]_linkVars

(* A transfer ends, whatever the line and the device do, unless an answer that
   has no role in the sender's state has stopped the timer of its wait. *)
EndsOrLosesItsTimer ==
    [](isActive => <>(~isActive \/ (z.state \in Waits /\ ~z.timer)))
=============================================================================
