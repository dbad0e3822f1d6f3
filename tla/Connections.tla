------------------------------ MODULE Connections ------------------------------
(* IO::ConnectionManager: the devices of a session, and who opens and closes them.

   A connect opens every device of the project.  A serial port is open when
   open() returns; a TCP device only starts to dial, and owes a verdict that it
   reports later, once, unless the dial is given up first.  Devices are opened
   by the user (the button, the API, a project edit that has to reconnect) and
   by a serial port that comes back after it was unplugged; they are closed by
   the user, by a failed dial, by a link error, and by a rebuild after an edit of
   the project or a change of mode.

   Everything runs on the GUI thread: an action is one event with all the calls
   it makes.  A handler takes the session and returns the sessions it can leave,
   for the network decides what open() does.  A request is therefore over, and
   its wait cursor restored, at the end of the turn it began in: m_pending,
   m_fanOut and m_waitCursorActive are not part of the state.  *)
EXTENDS AsyncTcpDial, Sequences, SequencesExt, FiniteSetsExt

CONSTANTS LastDevice,   \* the devices are 0..LastDevice, 0 the primary one
          Scopes        \* bounds of a run: the kind of each device, and how much happens

Devices == 0..LastDevice

ASSUME ConnectionsAssumptions ==
    /\ LastDevice \in Nat
    /\ Scopes \subseteq [kind : [Devices -> {"tcp", "serial"}],
                         connects : Nat, edits : Nat, switches : Nat]

VARIABLES
    io,       \* the session: the manager, its devices and their drivers
    posted,   \* calls queued for a later turn: "rebuild", "bus", "reconnect"
    left      \* what the scope still allows

vars == <<io, posted, left>>

(* A driver that was just made *)
IdleDriver == [dial |-> IdleDial, connecting |-> FALSE, up |-> FALSE, armed |-> FALSE,
               recover |-> FALSE]

Init ==
    /\ left \in Scopes
    /\ io = [mode |-> "project",
             sources |-> Devices,                \* the project's
             devices |-> Devices,                \* m_devices
             driver |-> [d \in Devices |-> IdleDriver],
             pending |-> {},                     \* m_pendingDialVerdicts
             failures |-> {},                    \* m_openFailures
             closeRequested |-> FALSE,
             told |-> [connected |-> FALSE, connecting |-> FALSE, count |-> 0],
             attempt |-> [d \in Devices |-> "none"],   \* what became of the last open
             overtaken |-> {}]                   \* devices whose reopen failed during a dial
    /\ posted = <<>>

-----------------------------------------------------------------------------
(* What the session knows about its links *)

IsOpen(x, d) == d \in x.devices /\ x.driver[d].up

IsConnected(x) == IF x.mode = "project" THEN \E d \in Devices : IsOpen(x, d) ELSE IsOpen(x, 0)

IsConnecting(x) == \E d \in x.devices : x.driver[d].connecting

Links(x) == [connected |-> IsConnected(x), connecting |-> IsConnecting(x),
             count |-> Cardinality({d \in Devices : IsOpen(x, d)})]

(* notifyConnectedStateChanged(): tell what changed since the last time. *)
Notify(x) == [x EXCEPT !.told = Links(x)]

-----------------------------------------------------------------------------
(* Verdicts *)

(* Mutant: the outcome is kept, but nobody is told. *)
OpenFinishedSilently(x, d, ok) ==
    [x EXCEPT !.failures = IF ok THEN @ \ {d} ELSE @ \cup {d},
              !.attempt[d] = IF @ # "open" THEN "twice" ELSE IF ok THEN "ok" ELSE "failed"]

(* onDeviceOpenFinished() *)
OpenFinished(x, d, ok) ==
    Notify([x EXCEPT !.failures = IF ok THEN @ \ {d} ELSE @ \cup {d},
                     !.attempt[d] = IF @ # "open" THEN "twice" ELSE IF ok THEN "ok" ELSE "failed"])

(* Mutant: a port that was unplugged is still waited for. *)
CloseStillWaiting(v) == [v EXCEPT !.dial = Cancel(@), !.connecting = FALSE, !.up = FALSE]

(* The driver's close(): it gives up the dial and the wait for the port. *)
Close(v) == [v EXCEPT !.dial = Cancel(@), !.connecting = FALSE, !.up = FALSE, !.recover = FALSE]

(* disconnectDevice(id) for each of ids: a dial that was still open is cancelled,
   it has not failed. *)
DisconnectDevices(x, ids) ==
    Notify([x EXCEPT !.pending = @ \ ids,
                     !.driver = [d \in Devices |-> IF d \in ids \cap x.devices
                                                   THEN [Close(@[d]) EXCEPT !.armed = FALSE]
                                                   ELSE @[d]],
                     !.attempt = [d \in Devices |-> IF d \in ids \cap x.pending /\ @[d] = "open"
                                                    THEN "cancelled" ELSE @[d]]])

(* Mutant: a verdict counts even if no dial is noted. *)
AnyVerdictCounts(x, d, ok) ==
    OpenFinished(IF ok THEN x ELSE DisconnectDevices(x, {d}), d, ok)

(* onDriverOpenFinished(): a verdict nobody waits for is ignored. *)
OnDriverOpenFinished(x, d, ok) ==
    IF d \notin x.pending THEN x
    ELSE LET y == [x EXCEPT !.pending = @ \ {d}]
         IN IF ok THEN OpenFinished(y, d, TRUE)
            ELSE OpenFinished(DisconnectDevices(y, {d}), d, FALSE)

(* reportOpenFinished(): the latch lets one report through. *)
ReportOpenFinished(x, d, ok) ==
    IF x.driver[d].armed THEN OnDriverOpenFinished([x EXCEPT !.driver[d].armed = FALSE], d, ok)
    ELSE x

(* The dialer of d goes on as r says; the driver passes a verdict on. *)
DialGoesOn(x, d, r) ==
    LET y == [x EXCEPT !.driver[d].dial = r.dial]
    IN IF r.verdict = "none" THEN y
       ELSE ReportOpenFinished([y EXCEPT !.driver[d].connecting = FALSE,
                                         !.driver[d].up = (r.verdict = "ok")],
                               d, r.verdict = "ok")

-----------------------------------------------------------------------------
(* Opening *)

(* The driver's open(): the sessions it can leave, and what it returned.  A TCP
   driver may refuse (no port), or its dial may fail before start() returns. *)
DriverOpen(x, d) ==
    LET y == [x EXCEPT !.driver[d] = Close(@)]
    IN IF left.kind[d] = "serial"
       THEN {[io |-> [y EXCEPT !.driver[d].up = ok], ok |-> ok] : ok \in BOOLEAN}
       ELSE {[io |-> y, ok |-> FALSE]}
            \cup {LET z == DialGoesOn([y EXCEPT !.driver[d].connecting = TRUE], d, r)
                  IN [io |-> z, ok |-> z.driver[d].connecting \/ z.driver[d].up] :
                     r \in UNION {Start(y.driver[d].dial, named) : named \in BOOLEAN}}

(* openDevice(): note the verdict a dial owes, or hand on what open() said. *)
OpenDevice(x, d) ==
    IF d \notin x.devices THEN {x}
    ELSE {LET y == o.io
          IN IF o.ok /\ y.driver[d].connecting
             THEN Notify([y EXCEPT !.pending = @ \cup {d}, !.failures = @ \ {d}])
             ELSE OpenFinished([y EXCEPT !.driver[d].armed = FALSE,
                                         !.overtaken = IF x.attempt[d] = "open" THEN @ \cup {d}
                                                       ELSE @], d, o.ok) :
             o \in DriverOpen([x EXCEPT !.driver[d].armed = TRUE, !.attempt[d] = "open"], d)}

(* The devices a session-wide gesture reaches *)
Reached(x) == IF x.mode = "project" THEN Devices ELSE {0}

(* connectDevice(): device 0 first and, for a project, then the others in order. *)
Connect(x) ==
    LET opened[d \in Devices] ==
            UNION {OpenDevice(y, d) :
                       y \in IF d = 0 THEN {[x EXCEPT !.closeRequested = FALSE]} ELSE opened[d - 1]}
    IN opened[Max(Reached(x))]

(* disconnectDevice() *)
Disconnect(x) ==
    [DisconnectDevices([x EXCEPT !.closeRequested = TRUE], Reached(x)) EXCEPT !.failures = {}]

(* disconnectDevice(driver): a driver gave up its link; the session goes on. *)
DropDevice(x, d) ==
    IF d \in x.pending
    THEN DisconnectDevices(OpenFinished([x EXCEPT !.pending = @ \ {d}], d, FALSE), {d})
    ELSE DisconnectDevices(x, {d})

-----------------------------------------------------------------------------
(* The user *)

(* toggleConnection(), the button: a dial counts as connected. *)
ToggleConnection ==
    /\ IF IsConnected(io) \/ IsConnecting(io)
       THEN io' = Disconnect(io) /\ UNCHANGED left
       ELSE /\ left.connects > 0
            /\ io' \in Connect(io)
            /\ left' = [left EXCEPT !.connects = @ - 1]
    /\ UNCHANGED posted

(* The API's io.connect, refused only when connected: it may overtake a dial. *)
ConnectCommand ==
    /\ left.connects > 0
    /\ ~IsConnected(io)
    /\ io' \in Connect(io)
    /\ left' = [left EXCEPT !.connects = @ - 1]
    /\ UNCHANGED posted

(* DisconnectRequested on the message bus, the window that closes *)
DisconnectRequested ==
    /\ io' = Disconnect(io)
    /\ UNCHANGED <<posted, left>>

-----------------------------------------------------------------------------
(* The network and the ports *)

Hear(d, results) ==
    /\ \E r \in results : io' = DialGoesOn(io, d, r)
    /\ UNCHANGED <<posted, left>>

LookupAnswers(d) ==
    /\ io.driver[d].dial.asked
    /\ \E n \in 0..MaxAddresses : Hear(d, OnLookupFinished(io.driver[d].dial, TRUE, n))

(* The answer of an attempt that is over, or the news that there will be none *)
LateAnswer(d) ==
    /\ io.driver[d].dial.late > 0
    /\ \/ Hear(d, {LookupAborted(io.driver[d].dial)})
       \/ \E n \in 0..MaxAddresses : Hear(d, OnLookupFinished(io.driver[d].dial, FALSE, n))

ProbeAnswers(d) ==
    /\ io.driver[d].dial.probe
    /\ \/ Hear(d, OnProbeConnected(io.driver[d].dial))
       \/ \E refusal \in BOOLEAN : Hear(d, OnProbeError(io.driver[d].dial, refusal))

PaceElapses(d) ==
    /\ io.driver[d].dial.pace
    /\ Hear(d, OnPaceElapsed(io.driver[d].dial))

SocketAnswers(d) ==
    /\ io.driver[d].dial.socket
    /\ \/ Hear(d, OnSocketConnected(io.driver[d].dial))
       \/ Hear(d, OnSocketError(io.driver[d].dial))

DeadlineReached(d) ==
    /\ io.driver[d].dial.deadline
    /\ Hear(d, OnDeadlineReached(io.driver[d].dial))

(* An established link fails.  A serial port may wait for its port to come back. *)
LinkError(d) ==
    /\ io.driver[d].up
    /\ \E wait \in BOOLEAN :
         /\ wait => left.kind[d] = "serial"
         /\ io' = [DropDevice(io, d) EXCEPT !.driver[d].recover = wait]
    /\ UNCHANGED <<posted, left>>

(* pollAutoReconnect(): the port is back. *)
PortReturns(d) ==
    /\ io.driver[d].recover
    /\ io' \in OpenDevice([io EXCEPT !.driver[d].recover = FALSE], d)
    /\ UNCHANGED <<posted, left>>

-----------------------------------------------------------------------------
(* Edits and rebuilds *)

(* The devices a rebuild replaces: all the project's, device 0 only if its source
   says something about it (primary). *)
Retired(x, primary) == IF x.mode = "project" /\ primary THEN x.devices ELSE x.devices \ {0}

(* Mutant: a retired device is still owed its verdict. *)
RetireUnforgotten(x, gone) ==
    [x EXCEPT !.devices = @ \ gone,
              !.driver = [d \in Devices |-> IF d \in gone THEN IdleDriver ELSE @[d]],
              !.attempt = [d \in Devices |-> IF d \in gone THEN "none" ELSE @[d]]]

(* forgetDevice() and the end of the old drivers *)
Retire(x, gone) ==
    [x EXCEPT !.pending = @ \ gone, !.failures = @ \ gone, !.overtaken = @ \ gone,
              !.devices = @ \ gone,
              !.driver = [d \in Devices |-> IF d \in gone THEN IdleDriver ELSE @[d]],
              !.attempt = [d \in Devices |-> IF d \in gone THEN "none" ELSE @[d]]]

(* rebuildDevices(): a session it closed is connected again in a later turn; in
   the other modes device 0 is left to the bus that is restored, also later. *)
RebuildDevices(x, queue, primary) ==
    LET y    == Retire(x, Retired(x, primary))
        made == IF x.mode # "project" THEN {}
                ELSE IF primary THEN x.sources ELSE x.sources \ {0}
    IN /\ io' = Notify([y EXCEPT !.devices = @ \cup made])
       /\ posted' = queue \o (IF x.mode = "project" THEN <<>> ELSE <<"bus">>)
                           \o (IF IsConnected(x) THEN <<"reconnect">> ELSE <<>>)

Rebuild(x, queue) ==
    \E primary \in BOOLEAN : (0 \notin x.devices => primary) /\ RebuildDevices(x, queue, primary)

(* A structure edit of the project rebuilds at once. *)
EditProject ==
    /\ left.edits > 0
    /\ \E sources \in SUBSET Devices : 
         0 \in sources /\ Rebuild([io EXCEPT !.sources = sources], posted)
    /\ left' = [left EXCEPT !.edits = @ - 1]

(* A change of mode counts at once, and rebuilds later. *)
SwitchMode ==
    /\ left.switches > 0
    /\ io' = [io EXCEPT !.mode = IF @ = "project" THEN "quick" ELSE "project"]
    /\ posted' = Append(posted, "rebuild")
    /\ left' = [left EXCEPT !.switches = @ - 1]

(* setBusType(): another bus closes and replaces device 0, or leaves none when
   its driver is not available.  Its failure text stays. *)
SetBusType(x) ==
    LET y == [DisconnectDevices(x, {0}) EXCEPT !.driver[0] = IdleDriver, !.attempt[0] = "none",
                                         !.overtaken = @ \ {0}]
    IN {[y EXCEPT !.devices = @ \cup {0}], [y EXCEPT !.devices = @ \ {0}]}
       \cup (IF 0 \in x.devices THEN {x} ELSE {})

ChooseBus ==
    /\ left.edits > 0
    /\ io' \in SetBusType(io)
    /\ left' = [left EXCEPT !.edits = @ - 1]
    /\ UNCHANGED posted

(* The event loop reaches the first posted call. *)
Serve(call) == posted # <<>> /\ Head(posted) = call

RebuildPosted ==
    /\ Serve("rebuild")
    /\ Rebuild(io, Tail(posted))
    /\ UNCHANGED left

RestoreBus ==
    /\ Serve("bus")
    /\ io' \in SetBusType(io)
    /\ posted' = Tail(posted)
    /\ UNCHANGED left

(* queueReconnect(): unless the session came up in the meantime. *)
Reconnect ==
    /\ Serve("reconnect")
    /\ io' \in (IF IsConnected(io) THEN {io} ELSE Connect(io))
    /\ posted' = Tail(posted)
    /\ UNCHANGED left

-----------------------------------------------------------------------------
Next ==
    \/ ToggleConnection \/ ConnectCommand \/ DisconnectRequested
    \/ EditProject \/ SwitchMode \/ ChooseBus
    \/ RebuildPosted \/ RestoreBus \/ Reconnect
    \/ \E d \in Devices : \/ LookupAnswers(d) \/ LateAnswer(d) \/ ProbeAnswers(d)
                          \/ PaceElapses(d) \/ SocketAnswers(d) \/ DeadlineReached(d)
                          \/ LinkError(d) \/ PortReturns(d)

Spec == Init /\ [][Next]_vars

(* The deadline timer fires; the network and the user owe nothing.  This is
   WF_vars(DeadlineReached(d)), written out: the action is enabled exactly while
   the timer runs. *)
TimersFire == \A d \in Devices : []<>~io.driver[d].dial.deadline \/ []<><<DeadlineReached(d)>>_vars

FairSpec == Spec /\ TimersFire

-----------------------------------------------------------------------------
(* Properties *)

(* An open of a device is answered once: by its failure or success, or by the
   cancel that ended its dial - and it stays open exactly as long as the driver
   dials.  The exception is a device that was opened again while it dialed and
   whose new open failed at once: the verdict of the first dial is still noted,
   and is delivered on top.  (onDeviceOpenFinished: "every open reports its
   outcome here exactly once") *)
OneVerdictPerAttempt ==
    \A d \in Devices : /\ io.attempt[d] = "twice" => d \in io.overtaken
                       /\ io.attempt[d] = "open" <=> io.driver[d].connecting

(* The button never hangs on "connecting": a driver that says so has a dial that
   runs, a latch that lets its report through, and a manager that waits for it;
   and the manager waits for no other device.
   (HAL_Driver::reportOpenFinished, ConnectFanOut::takePendingDial) *)
ConnectingMeansAnswerComes ==
    \A d \in Devices :
        LET x == io.driver[d]
        IN /\ x.connecting <=> x.dial.active
           /\ x.connecting => x.armed /\ d \in io.pending
           /\ d \in io.pending => x.connecting \/ d \in io.overtaken

(* What the program was told last is so, except between a change of mode and the
   rebuild it posted; and a failure that is shown is that of the device's last
   open, except on device 0, whose text outlives a change of bus.
   (notifyConnectedStateChanged, ConnectFanOut::noteOpenOutcome, forgetDevice) *)
ToldIsTrue ==
    /\ Contains(posted, "rebuild") \/ io.told = Links(io)
    /\ \A d \in io.failures \ {0} : io.attempt[d] \in {"failed", "twice"}

(* What the user closed stays closed until something connects again: no dial, no
   link, no port that is waited for, except between a change of mode and its
   rebuild, when the devices of the project no longer count.
   (disconnectDevice, lastCloseRequested, UART::close) *)
ClosedStaysClosed ==
    io.closeRequested =>
        \/ Contains(posted, "rebuild")
        \/ \A d \in Devices : LET x == io.driver[d] IN ~(x.connecting \/ x.up \/ x.recover)

(* Every dial ends, however the network behaves.  (AsyncTcpDial: one deadline) *)
EveryDialEnds == \A d \in Devices : io.driver[d].dial.active ~> ~io.driver[d].dial.active
===============================================================================
