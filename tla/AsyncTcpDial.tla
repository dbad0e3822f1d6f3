----------------------------- MODULE AsyncTcpDial -----------------------------
(* IO::AsyncTcpDial: one TCP dial without blocking.

   A name is looked up, the resolved addresses are probed on throwaway sockets
   until one accepts (a refusal is tried again after a pause: a helper process
   may still be starting), and only then is the caller's socket connected, once.
   One deadline covers the whole attempt.

   A dialer is a record.  Each operator below is one slot of the class; it
   returns the results the slot can have, each with the dialer it leaves and the
   verdict it reports ("none": finished() is not emitted).  A slot runs to its
   end on the GUI thread, with every slot it calls: a socket may fail inside
   connectToHost(), so a sweep can step over several addresses in one turn.

   What Qt does is in the fields asked and late.  abortHostLookup() cannot
   recall an answer that is already in the event queue, so the answer of an
   ended attempt may still arrive, and the slot does not look at its id. *)
EXTENDS Naturals

CONSTANT MaxAddresses   \* bound on the addresses a name resolves to

ASSUME AsyncTcpDialAssumptions == MaxAddresses \in Nat \ {0}

(* A dialer that does nothing *)
IdleDial ==
    [active |-> FALSE,           \* m_active
     lookup |-> FALSE,           \* m_lookupId >= 0
     asked |-> FALSE,            \* the answer of this attempt's lookup is on its way
     late |-> 0,                 \* answers of ended attempts that may still arrive
     count |-> 0, index |-> 0,   \* the number of m_addresses, m_addressIndex
     refused |-> FALSE,          \* m_refusedRound
     probe |-> FALSE,            \* m_probe is connecting
     pace |-> FALSE,             \* m_paceTimer runs
     deadline |-> FALSE,         \* m_deadlineTimer runs
     socket |-> FALSE]           \* the caller's socket connects, its signals are wired

(* End the attempt without a verdict.  The answer of a lookup that was asked
   may come late, whether or not its id is still known to abort it. *)
Cancel(x) == [x EXCEPT !.active = FALSE, !.lookup = FALSE, !.asked = FALSE,
                       !.late = IF x.asked THEN @ + 1 ELSE @,
                       !.probe = FALSE, !.pace = FALSE, !.deadline = FALSE, !.socket = FALSE]

Going(x) == [dial |-> x, verdict |-> "none"]

(* report(): once per attempt, and the attempt is over before anybody hears it. *)
Report(x, v) == IF x.active THEN [dial |-> Cancel(x), verdict |-> v] ELSE Going(x)

(* probeNextAddress() from address k on, r: a refusal was met in this round. *)
Probe(x, k, r) ==
    LET y == [x EXCEPT !.index = k, !.refused = r, !.probe = k < x.count]
    IN IF k < x.count THEN Going(y)
       ELSE IF r THEN Going([y EXCEPT !.index = 0, !.refused = FALSE, !.pace = TRUE])
       ELSE Report(y, "failed")

(* The addresses before k fail inside connectToHost(), refused or not. *)
ProbeNextAddress(x) ==
    IF ~x.active THEN {Going(x)}
    ELSE {Probe(x, x.index, x.refused)}
         \cup UNION {{Probe(x, k, x.refused), Probe(x, k, TRUE)} : k \in x.index + 1 .. x.count}

(* Connect the caller's socket, which may fail at once; Qt ignores the call when
   the socket is connecting already. *)
DialSocket(x) == {Going([x EXCEPT !.socket = TRUE])}
                 \cup (IF x.socket THEN {} ELSE {Report(x, "failed")})

ApplyResolution(x, n) == ProbeNextAddress([x EXCEPT !.count = n, !.index = 0, !.refused = FALSE])

(* Mutant: the deadline covers the lookup only. *)
StartLookupBound(x, named) ==
    LET y == [Cancel(x) EXCEPT !.active = TRUE, !.count = 0, !.index = 0, !.refused = FALSE,
                               !.deadline = named]
    IN IF named THEN {Going([y EXCEPT !.lookup = TRUE, !.asked = TRUE])}
       ELSE ApplyResolution(y, 1)

(* start(): a literal host (named = FALSE) is probed at once. *)
Start(x, named) ==
    LET y == [Cancel(x) EXCEPT !.active = TRUE, !.count = 0, !.index = 0, !.refused = FALSE,
                               !.deadline = TRUE]
    IN IF named THEN {Going([y EXCEPT !.lookup = TRUE, !.asked = TRUE])}
       ELSE ApplyResolution(y, 1)

(* An answer with n addresses, 0 for an error: of this attempt's lookup if mine. *)
OnLookupFinished(x, mine, n) ==
    LET y == [x EXCEPT !.lookup = FALSE, !.asked = @ /\ ~mine,
                       !.late = IF mine THEN @ ELSE @ - 1]
    IN CASE ~y.active        -> {Going(y)}
         [] y.active /\ n = 0 -> {Report(y, "failed")}
         [] OTHER            -> ApplyResolution(y, n)

(* The abort came in time after all. *)
LookupAborted(x) == Going([x EXCEPT !.late = @ - 1])

OnProbeConnected(x) == DialSocket([x EXCEPT !.probe = FALSE])

OnProbeError(x, refusal) ==
    IF x.active THEN ProbeNextAddress([x EXCEPT !.refused = @ \/ refusal, !.index = @ + 1,
                                                !.probe = FALSE])
    ELSE {Going(x)}

OnPaceElapsed(x) == ProbeNextAddress([x EXCEPT !.pace = FALSE])

OnSocketConnected(x) == {Report(x, "ok")}

OnSocketError(x) == {Report(x, "failed")}

OnDeadlineReached(x) == {Report([x EXCEPT !.deadline = FALSE], "failed")}
=============================================================================
