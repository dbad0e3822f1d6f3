--------------------------- MODULE ConnectionsProofs ---------------------------
(* Theorems about the connection manager, for every number of devices, every
   kind of device and every scope: an open is answered once, the button never
   hangs on "connecting", what was told is true, and what was closed stays closed.

   The invariant is one statement per device (DeviceInv), kept by every operator
   that maps a session to the next, and two about the session as a whole. *)
EXTENDS Connections, FiniteSetTheorems, WellFoundedInduction, TLAPS

(* What the assumptions on the constants say. *)
LEMMA Constants ==
    /\ LastDevice \in Nat /\ MaxAddresses \in Nat
    /\ 0 \in Devices /\ Devices \subseteq Nat
    /\ \A l \in Scopes : /\ l.kind \in [Devices -> {"tcp", "serial"}]
                         /\ l.connects \in Nat /\ l.edits \in Nat /\ l.switches \in Nat
BY ConnectionsAssumptions, AsyncTcpDialAssumptions DEF Devices

-----------------------------------------------------------------------------
(* One dialer *)

DialType ==
    [active : BOOLEAN, lookup : BOOLEAN, asked : BOOLEAN, late : Nat, count : Nat, index : Nat,
     refused : BOOLEAN, probe : BOOLEAN, pace : BOOLEAN, deadline : BOOLEAN, socket : BOOLEAN]

(* r is what a slot of the dialer x returns: without a verdict the dial is as
   alive as it was, with one it was alive and is over. *)
Follows(x, r) ==
    /\ r \in [dial : DialType, verdict : {"none", "ok", "failed"}]
    /\ r.verdict = "none" => r.dial.active = x.active
    /\ r.verdict # "none" => x.active = TRUE /\ r.dial.active = FALSE

(* y is a dialer as alive as x. *)
AsAlive(x, y) == y \in DialType /\ y.active = x.active

(* One field of a dialer set: only "active" says whether it is alive. *)
LEMMA SetFlag ==
    ASSUME NEW w, NEW x, AsAlive(w, x), NEW b \in BOOLEAN
    PROVE  /\ AsAlive(w, [x EXCEPT !.lookup = b]) /\ AsAlive(w, [x EXCEPT !.asked = b])
           /\ AsAlive(w, [x EXCEPT !.refused = b]) /\ AsAlive(w, [x EXCEPT !.probe = b])
           /\ AsAlive(w, [x EXCEPT !.pace = b]) /\ AsAlive(w, [x EXCEPT !.deadline = b])
           /\ AsAlive(w, [x EXCEPT !.socket = b])
BY DEF DialType, AsAlive

LEMMA SetNumber ==
    ASSUME NEW w, NEW x, AsAlive(w, x), NEW n \in Nat
    PROVE  /\ AsAlive(w, [x EXCEPT !.late = n]) /\ AsAlive(w, [x EXCEPT !.count = n])
           /\ AsAlive(w, [x EXCEPT !.index = n])
BY DEF DialType, AsAlive

LEMMA SetActive ==
    ASSUME NEW x \in DialType, NEW b \in BOOLEAN
    PROVE  [x EXCEPT !.active = b] \in DialType /\ [x EXCEPT !.active = b].active = b
BY DEF DialType

LEMMA AsAliveAsItself ==
    ASSUME NEW x \in DialType
    PROVE  AsAlive(x, x)
BY DEF AsAlive

LEMMA CancelEnds ==
    ASSUME NEW x \in DialType
    PROVE  Cancel(x) \in DialType /\ Cancel(x).active = FALSE
<1> DEFINE late == IF x.asked THEN x.late + 1 ELSE x.late
           a == [x EXCEPT !.active = FALSE]
           b == [a EXCEPT !.lookup = FALSE]
           c == [b EXCEPT !.asked = FALSE]
           d == [c EXCEPT !.late = late]
           e == [d EXCEPT !.probe = FALSE]
           f == [e EXCEPT !.pace = FALSE]
           g == [f EXCEPT !.deadline = FALSE]
           h == [g EXCEPT !.socket = FALSE]
<1>1. late \in Nat
  BY DEF DialType
<1>2. Cancel(x) = h
  BY DEF Cancel
<1> HIDE DEF late
<1>3. a \in DialType /\ a.active = FALSE /\ AsAlive(a, a)
  BY SetActive, AsAliveAsItself
<1> HIDE DEF a
<1>4. AsAlive(a, d)
  BY <1>1, <1>3, SetFlag, SetNumber
<1> HIDE DEF d
<1>5. AsAlive(a, h)
  BY <1>4, SetFlag
<1> HIDE DEF h
<1> QED BY <1>2, <1>3, <1>5 DEF AsAlive

LEMMA GoingFollows ==
    ASSUME NEW x, NEW y, AsAlive(x, y)
    PROVE  Follows(x, Going(y))
BY DEF Going, Follows, AsAlive

LEMMA ReportFollows ==
    ASSUME NEW x, NEW y, AsAlive(x, y), NEW v \in {"ok", "failed"}
    PROVE  Follows(x, Report(y, v))
<1>1. y \in DialType /\ y.active \in BOOLEAN /\ x.active = y.active
  BY DEF AsAlive, DialType
<1>2. CASE y.active = TRUE
  <2>1. Report(y, v) = [dial |-> Cancel(y), verdict |-> v]
    BY <1>2 DEF Report
  <2>2. Cancel(y) \in DialType /\ Cancel(y).active = FALSE
    BY <1>1, CancelEnds
  <2> QED BY <1>1, <1>2, <2>1, <2>2 DEF Follows
<1>3. CASE y.active = FALSE
  BY <1>3, GoingFollows DEF Report
<1> QED BY <1>1, <1>2, <1>3

LEMMA ProbeFollows ==
    ASSUME NEW w, NEW x, AsAlive(w, x), NEW k \in Nat, NEW r \in BOOLEAN
    PROVE  Follows(w, Probe(x, k, r))
<1> DEFINE y == [x EXCEPT !.index = k, !.refused = r, !.probe = k < x.count]
           z == [y EXCEPT !.index = 0, !.refused = FALSE, !.pace = TRUE]
<1>1. Probe(x, k, r) \in {Going(y), Going(z), Report(y, "failed")}
  BY DEF Probe
<1>2. (k < x.count) \in BOOLEAN
  OBVIOUS
<1>3. AsAlive(w, [x EXCEPT !.index = k])
  BY SetNumber
<1>4. AsAlive(w, [x EXCEPT !.index = k, !.refused = r])
  BY <1>3, SetFlag, Zenon
<1>5. AsAlive(w, y)
  BY <1>2, <1>4, SetFlag, Zenon
<1> HIDE DEF y
<1>6. AsAlive(w, [y EXCEPT !.index = 0])
  BY <1>5, SetNumber
<1>7. AsAlive(w, z)
  BY <1>6, SetFlag
<1> HIDE DEF z
<1> QED BY <1>1, <1>5, <1>7, GoingFollows, ReportFollows

(* A sweep over the addresses, however many of them fail inside it. *)
LEMMA SweepFollows ==
    ASSUME NEW x, NEW y, AsAlive(x, y), NEW z \in ProbeNextAddress(y)
    PROVE  Follows(x, z)
<1>1. y \in DialType /\ y.index \in Nat /\ y.count \in Nat /\ y.refused \in BOOLEAN
  BY DEF DialType, AsAlive
<1>2. CASE ~y.active
  BY <1>2, GoingFollows DEF ProbeNextAddress
<1>3. CASE y.active
  <2>1. \/ z = Probe(y, y.index, y.refused)
        \/ \E k \in y.index + 1 .. y.count : z \in {Probe(y, k, y.refused), Probe(y, k, TRUE)}
    BY <1>3, Zenon DEF ProbeNextAddress
  <2>2. \A k \in y.index + 1 .. y.count : k \in Nat
    BY <1>1
  <2> QED BY <1>1, <2>1, <2>2, ProbeFollows, Zenon
<1> QED BY <1>2, <1>3

LEMMA ResolutionFollows ==
    ASSUME NEW x, NEW y, AsAlive(x, y), NEW n \in Nat, NEW r \in ApplyResolution(y, n)
    PROVE  Follows(x, r)
<1>1. AsAlive(x, [y EXCEPT !.count = n, !.index = 0])
  BY SetNumber
<1>2. AsAlive(x, [y EXCEPT !.count = n, !.index = 0, !.refused = FALSE])
  BY <1>1, SetFlag
<1> QED BY <1>2, SweepFollows DEF ApplyResolution

(* A dial that starts is alive, or has ended with a verdict. *)
LEMMA StartFollows ==
    ASSUME NEW x, x.active = TRUE, NEW y \in DialType, NEW named \in BOOLEAN,
           NEW r \in Start(y, named)
    PROVE  Follows(x, r)
<1> DEFINE a == [Cancel(y) EXCEPT !.active = TRUE]
           b == [a EXCEPT !.count = 0, !.index = 0]
           e == [b EXCEPT !.refused = FALSE, !.deadline = TRUE]
           g == [e EXCEPT !.lookup = TRUE, !.asked = TRUE]
<1>1. IF named THEN r = Going(g) ELSE r \in ApplyResolution(e, 1)
  BY DEF Start
<1>2. AsAlive(x, a)
  BY CancelEnds, SetActive DEF AsAlive
<1> HIDE DEF a
<1>3. AsAlive(x, b)
  BY <1>2, SetNumber
<1> HIDE DEF b
<1>4. AsAlive(x, e)
  BY <1>3, SetFlag
<1> HIDE DEF e
<1>5. AsAlive(x, g)
  BY <1>4, SetFlag
<1> HIDE DEF g
<1> QED BY <1>1, <1>4, <1>5, GoingFollows, ResolutionFollows

LEMMA LookupFollows ==
    ASSUME NEW x \in DialType, NEW mine \in BOOLEAN, ~mine => x.late > 0, NEW n \in Nat,
           NEW r \in OnLookupFinished(x, mine, n)
    PROVE  Follows(x, r)
<1> DEFINE other == x.asked /\ ~mine
           late  == IF mine THEN x.late ELSE x.late - 1
           y     == [x EXCEPT !.lookup = FALSE, !.asked = other, !.late = late]
<1>1. r \in {Going(y), Report(y, "failed")} \union ApplyResolution(y, n)
  BY DEF OnLookupFinished
<1>2. other \in BOOLEAN /\ late \in Nat
  BY DEF DialType
<1>3. AsAlive(x, [x EXCEPT !.lookup = FALSE])
  BY SetFlag, AsAliveAsItself
<1> HIDE DEF other, late
<1>4. AsAlive(x, [x EXCEPT !.lookup = FALSE, !.asked = other])
  BY <1>2, <1>3, SetFlag, Zenon
<1>5. AsAlive(x, y)
  BY <1>2, <1>4, SetNumber, Zenon
<1> HIDE DEF y
<1> QED BY <1>1, <1>5, GoingFollows, ReportFollows, ResolutionFollows

(* Everything else a dialer can be told. *)
LEMMA EventFollows ==
    ASSUME NEW x \in DialType, NEW refusal \in BOOLEAN, NEW r,
           \/ x.late > 0 /\ r = LookupAborted(x)
           \/ r \in OnProbeConnected(x) \/ r \in OnProbeError(x, refusal)
           \/ r \in OnPaceElapsed(x) \/ r \in OnSocketConnected(x)
           \/ r \in OnSocketError(x) \/ r \in OnDeadlineReached(x)
    PROVE  Follows(x, r)
<1>1. CASE x.late > 0 /\ r = LookupAborted(x)
  <2>1. x.late - 1 \in Nat
    BY <1>1 DEF DialType
  <2>2. AsAlive(x, [x EXCEPT !.late = x.late - 1])
    BY <2>1, SetNumber, AsAliveAsItself
  <2> QED BY <1>1, <2>2, GoingFollows DEF LookupAborted
<1>2. CASE r \in OnProbeConnected(x)
  <2> DEFINE y == [x EXCEPT !.probe = FALSE]
             z == [y EXCEPT !.socket = TRUE]
  <2>1. r \in {Going(z), Report(y, "failed")}
    BY <1>2 DEF OnProbeConnected, DialSocket
  <2>2. AsAlive(x, y)
    BY SetFlag, AsAliveAsItself
  <2> HIDE DEF y
  <2>3. AsAlive(x, z)
    BY <2>2, SetFlag
  <2> HIDE DEF z
  <2> QED BY <2>1, <2>2, <2>3, GoingFollows, ReportFollows
<1>3. CASE r \in OnProbeError(x, refusal)
  <2> DEFINE met == x.refused \/ refusal
             y == [x EXCEPT !.refused = met, !.index = x.index + 1, !.probe = FALSE]
  <2>1. r = Going(x) \/ r \in ProbeNextAddress(y)
    BY <1>3 DEF OnProbeError
  <2>2. met \in BOOLEAN /\ x.index + 1 \in Nat
    BY DEF DialType
  <2> HIDE DEF met
  <2>3. AsAlive(x, [x EXCEPT !.refused = met])
    BY <2>2, SetFlag, AsAliveAsItself, Zenon
  <2>4. AsAlive(x, [x EXCEPT !.refused = met, !.index = x.index + 1])
    BY <2>2, <2>3, SetNumber, Zenon
  <2>5. AsAlive(x, y)
    BY <2>4, SetFlag, Zenon
  <2> HIDE DEF y
  <2> QED BY <2>1, <2>5, GoingFollows, SweepFollows, AsAliveAsItself
<1>4. CASE r \in OnPaceElapsed(x)
  <2>1. AsAlive(x, [x EXCEPT !.pace = FALSE])
    BY SetFlag, AsAliveAsItself
  <2> QED BY <1>4, <2>1, SweepFollows DEF OnPaceElapsed
<1>5. CASE r \in OnSocketConnected(x) \/ r \in OnSocketError(x)
  BY <1>5, ReportFollows, AsAliveAsItself DEF OnSocketConnected, OnSocketError
<1>6. CASE r \in OnDeadlineReached(x)
  <2>1. AsAlive(x, [x EXCEPT !.deadline = FALSE])
    BY SetFlag, AsAliveAsItself
  <2> QED BY <1>6, <2>1, ReportFollows DEF OnDeadlineReached
<1> QED BY <1>1, <1>2, <1>3, <1>4, <1>5, <1>6

-----------------------------------------------------------------------------
(* The invariant *)

Results == {"none", "open", "ok", "failed", "cancelled", "twice"}

DriverType == [dial : DialType, connecting : BOOLEAN, up : BOOLEAN, armed : BOOLEAN,
               recover : BOOLEAN]

(* A session has these fields. *)
Fields(x) ==
    x = [mode |-> x.mode, sources |-> x.sources, devices |-> x.devices, driver |-> x.driver,
         pending |-> x.pending, failures |-> x.failures, closeRequested |-> x.closeRequested,
         told |-> x.told, attempt |-> x.attempt, overtaken |-> x.overtaken]

(* The types of those the invariant reads *)
Shape(x) ==
    /\ Fields(x)
    /\ x.sources \subseteq Devices /\ x.devices \subseteq Devices /\ x.failures \subseteq Devices
    /\ x.driver \in [Devices -> DriverType] /\ x.attempt \in [Devices -> Results]

(* What a device, its driver and its dial owe one another: *)
DeviceInv(x, d) ==
    LET v == x.driver[d]
    IN /\ v.connecting = v.dial.active
       /\ v.connecting => v.armed /\ d \in x.pending
       /\ d \in x.pending => v.connecting \/ d \in x.overtaken
       /\ v.connecting <=> x.attempt[d] = "open"
       /\ x.attempt[d] = "twice" => d \in x.overtaken
       /\ d \notin x.devices => ~v.connecting /\ ~v.up /\ ~v.recover
       /\ d \in x.failures /\ d # 0 => x.attempt[d] \in {"failed", "twice"}

Session(x) == Shape(x) /\ \A d \in Devices : DeviceInv(x, d)

Closed(x, d) == LET v == x.driver[d] IN ~v.connecting /\ ~v.up /\ ~v.recover

(* A rebuild is to come, after which the devices are the project's again. *)
RebuildDue(queue) == Contains(queue, "rebuild")

(* What a close left closed: device 0 always, the others unless the mode has
   changed since, in which case the rebuild replaces them. *)
ClosedInv(x, due) ==
    /\ x.closeRequested => Closed(x, 0) /\ (due \/ \A d \in Devices : Closed(x, d))
    /\ x.mode # "project" => due \/ x.devices \subseteq {0}

Told(x) == x.told = Links(x)

IInv ==
    /\ Session(io)
    /\ posted \in Seq({"rebuild", "bus", "reconnect"})
    /\ RebuildDue(posted) \/ Told(io)
    /\ ClosedInv(io, RebuildDue(posted))

-----------------------------------------------------------------------------
(* What is told, and what an operator leaves alone *)

(* y differs from x in what was told at most. *)
Alike(x, y) ==
    /\ Shape(y)
    /\ y.mode = x.mode /\ y.sources = x.sources /\ y.devices = x.devices
    /\ y.driver = x.driver /\ y.pending = x.pending /\ y.failures = x.failures
    /\ y.closeRequested = x.closeRequested /\ y.attempt = x.attempt
    /\ y.overtaken = x.overtaken

(* y differs from x in what concerns device d at most. *)
Only(x, y, d) ==
    /\ Shape(y)
    /\ y.mode = x.mode /\ y.sources = x.sources /\ y.devices = x.devices
    /\ y.closeRequested = x.closeRequested
    /\ \A e \in Devices \ {d} :
          /\ y.driver[e] = x.driver[e] /\ y.attempt[e] = x.attempt[e]
          /\ e \in y.pending <=> e \in x.pending
          /\ e \in y.failures <=> e \in x.failures
          /\ e \in y.overtaken <=> e \in x.overtaken

LEMMA AlikeOnly ==
    ASSUME NEW x, NEW y, Alike(x, y), NEW d
    PROVE  Only(x, y, d)
BY DEF Alike, Only

LEMMA OnlyTransitive ==
    ASSUME NEW x, NEW y, NEW z, NEW d, Only(x, y, d), Only(y, z, d)
    PROVE  Only(x, z, d)
BY DEF Only

(* The others keep their invariant; d has to be looked at. *)
LEMMA OnlySession ==
    ASSUME NEW x, Session(x), NEW y, NEW d, Only(x, y, d), d \in Devices => DeviceInv(y, d)
    PROVE  Session(y)
<1>1. ASSUME NEW e \in Devices, e # d PROVE DeviceInv(y, e)
  BY <1>1 DEF Session, Only, DeviceInv
<1> QED BY <1>1 DEF Session, Only

LEMMA AlikeSession ==
    ASSUME NEW x, Session(x), NEW y, Alike(x, y)
    PROVE  Session(y)
<1>1. ASSUME NEW e \in Devices PROVE DeviceInv(y, e)
  BY DEF Session, Alike, DeviceInv
<1> QED BY <1>1 DEF Session, Alike

(* The links depend on the mode, the devices and their drivers. *)
LEMMA LinksAlike ==
    ASSUME NEW x, NEW y, y.mode = x.mode, y.devices = x.devices, y.driver = x.driver
    PROVE  Links(y) = Links(x)
<1>1. \A d : IsOpen(y, d) = IsOpen(x, d)
  BY DEF IsOpen
<1>2. IsConnected(y) = IsConnected(x) /\ IsConnecting(y) = IsConnecting(x)
  BY Zenon DEF IsConnected, IsConnecting, IsOpen
<1>3. {d \in Devices : IsOpen(y, d)} = {d \in Devices : IsOpen(x, d)}
  BY <1>1
<1> QED BY <1>2, <1>3 DEF Links

(* More precisely on which devices are there and open, and which there dial. *)
Dials(x, d) == d \in x.devices /\ x.driver[d].connecting

LEMMA LinksEqual ==
    ASSUME NEW x, NEW y, x.devices \subseteq Devices, y.devices \subseteq Devices, y.mode = x.mode,
           \A d \in Devices : (IsOpen(y, d) <=> IsOpen(x, d)) /\ (Dials(y, d) <=> Dials(x, d))
    PROVE  Links(y) = Links(x)
<1>1. {d \in Devices : IsOpen(y, d)} = {d \in Devices : IsOpen(x, d)}
  OBVIOUS
<1>2. IsConnected(y) = IsConnected(x)
  <2>1. (\E d \in Devices : IsOpen(y, d)) = (\E d \in Devices : IsOpen(x, d))
    BY Zenon
  <2>2. IsOpen(y, 0) = IsOpen(x, 0)
    BY Constants, Zenon DEF IsOpen
  <2> QED BY <2>1, <2>2, Zenon DEF IsConnected
<1>3. IsConnecting(y) <=> IsConnecting(x)
  BY DEF IsConnecting, Dials
<1>4. IsConnecting(y) = IsConnecting(x)
  BY <1>3, Zenon DEF IsConnecting
<1> QED BY <1>1, <1>2, <1>4 DEF Links

LEMMA NotifyTells ==
    ASSUME NEW x, Shape(x)
    PROVE  Alike(x, Notify(x)) /\ Told(Notify(x))
<1> DEFINE l == Links(x)
           y == [x EXCEPT !.told = l]
<1>1. Notify(x) = y
  BY DEF Notify
<1> HIDE DEF l
<1>2. Alike(x, y) /\ y.told = l
  BY DEF Shape, Fields, Alike
<1> HIDE DEF y
<1>3. Links(y) = Links(x)
  BY <1>2, LinksAlike DEF Alike
<1> QED BY <1>1, <1>2, <1>3 DEF Told, l

-----------------------------------------------------------------------------
(* The updates of a session that the operators make *)

(* Every field of y but those of changed is that of x. *)
Same(x, y, changed) ==
    /\ Fields(y)
    /\ "mode" \notin changed => y.mode = x.mode
    /\ "sources" \notin changed => y.sources = x.sources
    /\ "devices" \notin changed => y.devices = x.devices
    /\ "driver" \notin changed => y.driver = x.driver
    /\ "pending" \notin changed => y.pending = x.pending
    /\ "failures" \notin changed => y.failures = x.failures
    /\ "closeRequested" \notin changed => y.closeRequested = x.closeRequested
    /\ "told" \notin changed => y.told = x.told
    /\ "attempt" \notin changed => y.attempt = x.attempt
    /\ "overtaken" \notin changed => y.overtaken = x.overtaken

-----------------------------------------------------------------------------
(* Verdicts *)

(* y is x with the outcome of an open of d noted and told. *)
Noted(x, y, d, ok) ==
    /\ Only(x, y, d) /\ Told(y)
    /\ y.driver = x.driver /\ y.pending = x.pending /\ y.overtaken = x.overtaken
    /\ x.attempt[d] # "open" => y.attempt[d] = "twice"
    /\ x.attempt[d] = "open" => y.attempt[d] = (IF ok THEN "ok" ELSE "failed")
    /\ ok => d \notin y.failures

LEMMA OpenFinishedNotes ==
    ASSUME NEW x, Shape(x), NEW d \in Devices, NEW ok \in BOOLEAN
    PROVE  Noted(x, OpenFinished(x, d, ok), d, ok)
<1> DEFINE f == IF ok THEN x.failures \ {d} ELSE x.failures \cup {d}
           r == IF x.attempt[d] # "open" THEN "twice" ELSE IF ok THEN "ok" ELSE "failed"
           a == [x.attempt EXCEPT ![d] = r]
           w == [x EXCEPT !.failures = f, !.attempt = a]
           y == OpenFinished(x, d, ok)
<1>1. y = Notify(w)
  BY DEF OpenFinished
<1>2. /\ r \in Results
      /\ x.attempt[d] # "open" => r = "twice"
      /\ x.attempt[d] = "open" => r = (IF ok THEN "ok" ELSE "failed")
  BY DEF Results
<1>3. ok => d \notin f
  OBVIOUS
<1>4. f \subseteq Devices /\ \A e \in Devices \ {d} : e \in f <=> e \in x.failures
  BY DEF Shape
<1> HIDE DEF f, r
<1>5. /\ a \in [Devices -> Results] /\ a[d] = r
      /\ \A e \in Devices \ {d} : a[e] = x.attempt[e]
  BY <1>2 DEF Shape
<1> HIDE DEF a
<1>11. w = [x EXCEPT !.failures = f, !.attempt = a]
  OBVIOUS
<1> HIDE DEF w
<1>6. Same(x, w, {"failures", "attempt"}) /\ w.failures = f /\ w.attempt = a
  <2>1. Fields(x)
    BY DEF Shape
  <2> QED BY <1>11, <2>1 DEF Fields, Same
<1>10. Shape(w) /\ Only(x, w, d)
  BY <1>4, <1>5, <1>6 DEF Shape, Only, Same
<1>7. Alike(w, y) /\ Told(y)
  BY <1>1, <1>10, NotifyTells
<1> HIDE DEF y
<1>8. Only(x, y, d)
  BY <1>10, <1>7, AlikeOnly, OnlyTransitive
<1>9. /\ y.driver = x.driver /\ y.pending = x.pending /\ y.overtaken = x.overtaken
      /\ y.attempt = a /\ y.failures = f
  BY <1>6, <1>7 DEF Alike, Same
<1> QED BY <1>2, <1>3, <1>5, <1>7, <1>8, <1>9 DEF y, Noted

(* The close of a driver ends its dial, its link and its wait. *)
LEMMA CloseEnds ==
    ASSUME NEW v \in DriverType
    PROVE  /\ Close(v) \in DriverType /\ Close(v).dial.active = FALSE
           /\ Close(v).connecting = FALSE /\ Close(v).up = FALSE /\ Close(v).recover = FALSE
           /\ Close(v).armed = v.armed
<1> DEFINE c == Cancel(v.dial)
<1>1. c \in DialType /\ c.active = FALSE
  BY CancelEnds DEF DriverType
<1>2. Close(v) = [v EXCEPT !.dial = c, !.connecting = FALSE, !.up = FALSE, !.recover = FALSE]
  BY DEF Close
<1> HIDE DEF c
<1> QED BY <1>1, <1>2 DEF DriverType

(* y is x with the drivers of ids that are there closed, and the verdicts of all
   of ids forgotten, and told. *)
Disconnected(x, y, ids) ==
    /\ Shape(y) /\ Told(y)
    /\ y.mode = x.mode /\ y.sources = x.sources /\ y.devices = x.devices
    /\ y.closeRequested = x.closeRequested /\ y.failures = x.failures
    /\ y.overtaken = x.overtaken /\ y.pending = x.pending \ ids
    /\ \A d \in Devices :
          /\ d \notin ids \cap x.devices => y.driver[d] = x.driver[d]
          /\ d \in ids \cap x.devices => y.driver[d].dial.active = FALSE /\ Closed(y, d)
          /\ y.attempt[d] = IF d \in ids \cap x.pending /\ x.attempt[d] = "open"
                            THEN "cancelled" ELSE x.attempt[d]

LEMMA DisconnectCloses ==
    ASSUME NEW x, Shape(x), NEW ids
    PROVE  Disconnected(x, DisconnectDevices(x, ids), ids)
<1> DEFINE p == x.pending \ ids
           v == [d \in Devices |-> IF d \in ids \cap x.devices
                                   THEN [Close(x.driver[d]) EXCEPT !.armed = FALSE]
                                   ELSE x.driver[d]]
           a == [d \in Devices |-> IF d \in ids \cap x.pending /\ x.attempt[d] = "open"
                                   THEN "cancelled" ELSE x.attempt[d]]
           w == [x EXCEPT !.pending = p, !.driver = v, !.attempt = a]
           y == DisconnectDevices(x, ids)
<1>1. y = Notify(w)
  BY DEF DisconnectDevices
<1>2. a \in [Devices -> Results]
  BY DEF Shape, Results
<1>3. ASSUME NEW d \in Devices
      PROVE  LET c == [Close(x.driver[d]) EXCEPT !.armed = FALSE]
             IN /\ c \in DriverType /\ c.dial.active = FALSE
                /\ c.connecting = FALSE /\ c.up = FALSE /\ c.recover = FALSE
  <2> DEFINE c == Close(x.driver[d])
  <2>1. /\ c \in DriverType /\ c.dial.active = FALSE
        /\ c.connecting = FALSE /\ c.up = FALSE /\ c.recover = FALSE
    BY CloseEnds DEF Shape
  <2> HIDE DEF c
  <2>2. LET b == [c EXCEPT !.armed = FALSE]
        IN /\ b \in DriverType /\ b.dial.active = FALSE
           /\ b.connecting = FALSE /\ b.up = FALSE /\ b.recover = FALSE
    BY <2>1 DEF DriverType
  <2> QED BY <2>2 DEF c
<1>4. v \in [Devices -> DriverType]
  BY <1>3 DEF Shape
<1>5. \A d \in Devices :
         /\ d \notin ids \cap x.devices => v[d] = x.driver[d]
         /\ d \in ids \cap x.devices =>
               /\ v[d].dial.active = FALSE
               /\ v[d].connecting = FALSE /\ v[d].up = FALSE /\ v[d].recover = FALSE
  BY <1>3
<1>6. \A d \in Devices : a[d] = IF d \in ids \cap x.pending /\ x.attempt[d] = "open"
                                THEN "cancelled" ELSE x.attempt[d]
  OBVIOUS
<1> HIDE DEF p, v, a
<1>11. w = [x EXCEPT !.pending = p, !.driver = v, !.attempt = a]
  OBVIOUS
<1> HIDE DEF w
<1>7. /\ Same(x, w, {"pending", "driver", "attempt"})
      /\ w.pending = p /\ w.driver = v /\ w.attempt = a
  <2>1. Fields(x)
    BY DEF Shape
  <2> QED BY <1>11, <2>1 DEF Fields, Same
<1>10. Shape(w)
  BY <1>2, <1>4, <1>7 DEF Shape, Same
<1>8. Alike(w, y) /\ Told(y)
  BY <1>1, <1>10, NotifyTells
<1> HIDE DEF y
<1>9. y.pending = p /\ y.driver = v /\ y.attempt = a
  BY <1>7, <1>8 DEF Alike
<1> QED BY <1>5, <1>6, <1>7, <1>8, <1>9 DEF y, p, Alike, Same, Closed, Disconnected
-----------------------------------------------------------------------------
(* A driver goes on *)

WithDriver(x, d, v) == [x EXCEPT !.driver[d] = v]

LEMMA DriverReplaced ==
    ASSUME NEW x, Shape(x), NEW d \in Devices, NEW v \in DriverType
    PROVE  LET y == WithDriver(x, d, v)
           IN Only(x, y, d) /\ Same(x, y, {"driver"}) /\ y.driver[d] = v
<1> DEFINE f == [x.driver EXCEPT ![d] = v]
           y == WithDriver(x, d, v)
<1>1. y = [x EXCEPT !.driver = f]
  BY DEF WithDriver
<1>2. /\ f \in [Devices -> DriverType] /\ f[d] = v
      /\ \A e \in Devices \ {d} : f[e] = x.driver[e]
  BY DEF Shape
<1> HIDE DEF f, y
<1>3. Same(x, y, {"driver"}) /\ y.driver = f
  <2>1. Fields(x)
    BY DEF Shape
  <2> QED BY <1>1, <2>1 DEF Fields, Same
<1> QED BY <1>2, <1>3 DEF Only, Same, Shape, y

(* y is x after a verdict on d was reported while the latch was set: nobody waits
   for it any more, and if somebody did the outcome is noted. *)
Reported(x, y, d, ok) ==
    /\ Only(x, y, d) /\ d \notin y.pending /\ y.overtaken = x.overtaken
    /\ y.driver[d].connecting = FALSE /\ y.driver[d].dial.active = FALSE
    /\ x.driver[d].recover = FALSE => y.driver[d].recover = FALSE
    /\ d \notin x.pending => y.attempt = x.attempt /\ y.failures = x.failures
    /\ d \in x.pending =>
          /\ Told(y)
          /\ x.attempt[d] # "open" => y.attempt[d] = "twice"
          /\ x.attempt[d] = "open" => y.attempt[d] = (IF ok THEN "ok" ELSE "failed")
          /\ ok => d \notin y.failures

LEMMA ReportEnds ==
    ASSUME NEW x, Shape(x), NEW d \in Devices, x.driver[d].armed = TRUE, NEW ok \in BOOLEAN,
           x.driver[d].connecting = FALSE, x.driver[d].dial.active = FALSE
    PROVE  Reported(x, ReportOpenFinished(x, d, ok), d, ok)
<1> DEFINE v == [x.driver[d] EXCEPT !.armed = FALSE]
           w == WithDriver(x, d, v)
           y == ReportOpenFinished(x, d, ok)
<1>1. y = OnDriverOpenFinished(w, d, ok)
  BY DEF ReportOpenFinished, WithDriver
<1>2. /\ v \in DriverType /\ v.connecting = FALSE /\ v.dial.active = FALSE
      /\ v.recover = x.driver[d].recover
  BY DEF Shape, DriverType
<1> HIDE DEF v
<1>3. Only(x, w, d) /\ Same(x, w, {"driver"}) /\ w.driver[d] = v /\ Shape(w)
  BY <1>2, DriverReplaced DEF Only
<1> HIDE DEF w
<1>4. w.pending = x.pending /\ w.failures = x.failures /\ w.overtaken = x.overtaken
      /\ w.attempt = x.attempt
  BY <1>3 DEF Same
<1>5. CASE d \notin x.pending
  <2>1. y = w
    BY <1>1, <1>4, <1>5 DEF OnDriverOpenFinished
  <2> HIDE DEF y
  <2> QED BY <1>2, <1>3, <1>4, <1>5, <2>1 DEF y, Reported
<1>6. CASE d \in x.pending
  <2> DEFINE q == w.pending \ {d}
             p == [w EXCEPT !.pending = q]
  <2>1. y = IF ok THEN OpenFinished(p, d, TRUE)
            ELSE OpenFinished(DisconnectDevices(p, {d}), d, FALSE)
    BY <1>1, <1>4, <1>6 DEF OnDriverOpenFinished
  <2>2. d \notin q /\ \A e \in Devices \ {d} : e \in q <=> e \in w.pending
    OBVIOUS
  <2>3. p = [w EXCEPT !.pending = q]
    OBVIOUS
  <2> HIDE DEF p, q, y
  <2>4. Same(w, p, {"pending"}) /\ p.pending = q
    <3>1. Fields(w)
      BY <1>3 DEF Shape
    <3> QED BY <2>3, <3>1 DEF Fields, Same
  <2>5. Only(w, p, d) /\ Shape(p) /\ p.driver[d] = v
        /\ p.attempt = x.attempt /\ p.overtaken = x.overtaken /\ d \notin p.pending
    BY <1>3, <1>4, <2>2, <2>4 DEF Only, Same, Shape
  <2>6. Only(x, p, d)
    BY <1>3, <2>5, OnlyTransitive
  <2>7. CASE ok = TRUE
    <3> DEFINE z == OpenFinished(p, d, TRUE)
    <3>1. y = z
      BY <2>1, <2>7
    <3>2. Noted(p, z, d, TRUE)
      BY <2>5, OpenFinishedNotes
    <3> HIDE DEF z
    <3>3. Only(x, y, d)
      BY <2>6, <3>1, <3>2, OnlyTransitive DEF Noted
    <3> QED BY <1>2, <1>6, <2>5, <2>7, <3>1, <3>2, <3>3 DEF y, Noted, Reported
  <2>8. CASE ok = FALSE
    <3> DEFINE c == DisconnectDevices(p, {d})
               z == OpenFinished(c, d, FALSE)
    <3>1. y = z
      BY <2>1, <2>8
    <3>2. Disconnected(p, c, {d})
      BY <2>5, DisconnectCloses
    <3>7. Shape(c)
      BY <3>2 DEF Disconnected
    <3> HIDE DEF c
    <3>3. Only(p, c, d) /\ c.attempt[d] = p.attempt[d] /\ d \notin c.pending
      BY <2>5, <3>2 DEF Only, Disconnected
    <3>4. /\ c.driver[d].connecting = FALSE /\ c.driver[d].dial.active = FALSE
          /\ x.driver[d].recover = FALSE => c.driver[d].recover = FALSE
      <4>1. CASE d \in p.devices
        <5>1. c.driver[d].dial.active = FALSE /\ Closed(c, d) /\ c.driver[d] \in DriverType
          BY <3>2, <3>7, <4>1 DEF Shape, Disconnected
        <5> QED BY <5>1 DEF Closed, DriverType
      <4>2. CASE d \notin p.devices
        BY <1>2, <2>5, <3>2, <4>2 DEF Disconnected
      <4> QED BY <4>1, <4>2
    <3>5. Noted(c, z, d, FALSE)
      BY <3>7, OpenFinishedNotes
    <3> HIDE DEF z
    <3>6. Only(x, y, d)
      BY <2>6, <3>1, <3>3, <3>5, OnlyTransitive DEF Noted
    <3> QED BY <1>6, <2>5, <2>8, <3>1, <3>2, <3>3, <3>4, <3>5, <3>6 DEF y, Noted, Reported, Disconnected
  <2> QED BY <2>7, <2>8
<1> QED BY <1>5, <1>6
DialResult == [dial : DialType, verdict : {"none", "ok", "failed"}]

LEMMA GoesOnSilently ==
    ASSUME NEW x, Shape(x), NEW d \in Devices, NEW r \in DialResult, r.verdict = "none"
    PROVE  LET y == DialGoesOn(x, d, r)
               v == x.driver[d]
               u == y.driver[d]
           IN /\ Only(x, y, d) /\ Same(x, y, {"driver"}) /\ u.dial = r.dial
              /\ u.connecting = v.connecting /\ u.up = v.up /\ u.armed = v.armed
              /\ u.recover = v.recover
<1> DEFINE u == [x.driver[d] EXCEPT !.dial = r.dial]
           y == DialGoesOn(x, d, r)
<1>1. y = WithDriver(x, d, u)
  BY DEF DialGoesOn, WithDriver
<1>2. /\ u \in DriverType /\ u.dial = r.dial
      /\ u.connecting = x.driver[d].connecting /\ u.up = x.driver[d].up
      /\ u.armed = x.driver[d].armed /\ u.recover = x.driver[d].recover
  BY DEF Shape, DriverType, DialResult
<1> HIDE DEF u, y
<1>3. Only(x, y, d) /\ Same(x, y, {"driver"}) /\ y.driver[d] = u
  BY <1>1, <1>2, DriverReplaced
<1> QED BY <1>2, <1>3 DEF y

LEMMA GoesOnReporting ==
    ASSUME NEW x, Shape(x), NEW d \in Devices, NEW r \in DialResult, r.verdict # "none",
           r.dial.active = FALSE, x.driver[d].armed = TRUE
    PROVE  Reported(x, DialGoesOn(x, d, r), d, r.verdict = "ok")
<1> DEFINE ok == r.verdict = "ok"
           u == [x.driver[d] EXCEPT !.dial = r.dial]
           v == [u EXCEPT !.connecting = FALSE]
           w == [v EXCEPT !.up = ok]
           a == WithDriver(x, d, u)
           b == WithDriver(a, d, v)
           c == WithDriver(b, d, w)
           y == DialGoesOn(x, d, r)
<1>1. /\ u \in DriverType /\ u.dial.active = FALSE /\ u.armed = TRUE
      /\ u.recover = x.driver[d].recover
  BY DEF Shape, DriverType, DialResult
<1> HIDE DEF u
<1>2. Only(x, a, d) /\ Same(x, a, {"driver"}) /\ a.driver[d] = u /\ Shape(a)
  BY <1>1, DriverReplaced DEF Only
<1>3. a = [x EXCEPT !.driver[d].dial = r.dial]
  BY DEF WithDriver, u
<1> HIDE DEF a
<1>4. /\ v \in DriverType /\ v.dial.active = FALSE /\ v.armed = TRUE
      /\ v.recover = x.driver[d].recover /\ v.connecting = FALSE
  BY <1>1 DEF DriverType
<1>5. b = [a EXCEPT !.driver[d].connecting = FALSE]
  BY <1>2 DEF WithDriver
<1> HIDE DEF v
<1>6. Only(a, b, d) /\ Same(a, b, {"driver"}) /\ b.driver[d] = v /\ Shape(b)
  BY <1>2, <1>4, DriverReplaced DEF Only
<1> HIDE DEF b
<1>7. ok \in BOOLEAN
  OBVIOUS
<1>8. c = [b EXCEPT !.driver[d].up = ok]
  BY <1>6 DEF WithDriver
<1>9. y = ReportOpenFinished(c, d, ok)
  <2>1. y = ReportOpenFinished([a EXCEPT !.driver[d].connecting = FALSE, !.driver[d].up = ok],
                               d, ok)
    BY <1>3, Zenon DEF DialGoesOn
  <2>2. [a EXCEPT !.driver[d].connecting = FALSE, !.driver[d].up = ok]
        = [[a EXCEPT !.driver[d].connecting = FALSE] EXCEPT !.driver[d].up = ok]
    OBVIOUS
  <2> HIDE DEF y, ok
  <2> QED BY <1>5, <1>8, <2>1, <2>2, Zenon
<1> HIDE DEF ok, y
<1>10. /\ w \in DriverType /\ w.dial.active = FALSE /\ w.armed = TRUE
       /\ w.recover = x.driver[d].recover /\ w.connecting = FALSE
  BY <1>4, <1>7 DEF DriverType
<1> HIDE DEF w
<1>11. Only(b, c, d) /\ Same(b, c, {"driver"}) /\ c.driver[d] = w /\ Shape(c)
  BY <1>6, <1>10, DriverReplaced DEF Only
<1> HIDE DEF c
<1>12. Only(x, c, d) /\ Same(x, c, {"driver"})
  BY <1>2, <1>6, <1>11, OnlyTransitive DEF Same
<1>13. Reported(c, y, d, ok)
  BY <1>7, <1>9, <1>10, <1>11, ReportEnds
<1>14. Only(x, y, d)
  BY <1>12, <1>13, OnlyTransitive DEF Reported
<1>15. Reported(x, y, d, ok)
  BY <1>10, <1>11, <1>12, <1>13, <1>14 DEF Reported, Same
<1> QED BY <1>15 DEF ok, y

(* What an event that concerns device d leaves of the invariant. *)
Keeps(x, y, d) ==
    /\ Session(y) /\ Only(x, y, d)
    /\ Told(x) => Told(y)
    /\ Closed(x, d) => Closed(y, d)

LEMMA DialGoesOnKeeps ==
    ASSUME NEW x, Session(x), NEW d \in Devices, NEW r, Follows(x.driver[d].dial, r)
    PROVE  Keeps(x, DialGoesOn(x, d, r), d)
<1> DEFINE y == DialGoesOn(x, d, r)
<1>1. Shape(x) /\ DeviceInv(x, d) /\ r \in DialResult
  BY DEF Session, Follows, DialResult
<1>2. x.driver[d] \in DriverType
  BY <1>1 DEF Shape
<1>3. CASE r.verdict = "none"
  <2>1. /\ Only(x, y, d) /\ Same(x, y, {"driver"}) /\ y.driver[d].dial = r.dial
        /\ y.driver[d].connecting = x.driver[d].connecting /\ y.driver[d].up = x.driver[d].up
        /\ y.driver[d].armed = x.driver[d].armed /\ y.driver[d].recover = x.driver[d].recover
    BY <1>1, <1>3, GoesOnSilently
  <2> HIDE DEF y
  <2>2. DeviceInv(y, d)
    BY <1>1, <1>3, <2>1 DEF DeviceInv, Same, Follows
  <2>3. \A e \in Devices : y.driver[e].up = x.driver[e].up
                           /\ y.driver[e].connecting = x.driver[e].connecting
    BY <2>1 DEF Only
  <2>4. Links(y) = Links(x)
    BY <1>1, <2>1, <2>3, LinksEqual DEF IsOpen, Dials, Same, Shape
  <2>5. Told(x) => Told(y)
    BY <2>1, <2>4 DEF Told, Same
  <2>6. Closed(x, d) => Closed(y, d)
    BY <2>1 DEF Closed
  <2> QED BY <2>1, <2>2, <2>5, <2>6, OnlySession DEF Keeps, y
<1>4. CASE r.verdict # "none"
  <2>1. /\ x.driver[d].connecting = TRUE /\ x.driver[d].armed = TRUE /\ d \in x.pending
        /\ x.attempt[d] = "open" /\ d \in x.devices /\ r.dial.active = FALSE
    BY <1>1, <1>2, <1>4 DEF Follows, DeviceInv, DriverType
  <2>2. Reported(x, y, d, r.verdict = "ok")
    BY <1>1, <1>4, <2>1, GoesOnReporting
  <2>3. (r.verdict = "ok") \in BOOLEAN
    OBVIOUS
  <2>4. ~Closed(x, d)
    BY <2>1 DEF Closed
  <2> HIDE DEF y
  <2>5. y.attempt[d] = (IF r.verdict = "ok" THEN "ok" ELSE "failed")
        /\ (r.verdict = "ok" => d \notin y.failures)
    BY <2>1, <2>2 DEF Reported
  <2>6. DeviceInv(y, d)
    BY <1>1, <2>1, <2>2, <2>5 DEF Reported, DeviceInv, Only
  <2> QED BY <2>1, <2>2, <2>4, <2>6, OnlySession DEF Keeps, Reported, y
<1> QED BY <1>3, <1>4
-----------------------------------------------------------------------------
(* Opening *)

(* z is x after an open of device d that either dials, with the latch set, or is
   over; a verdict of an earlier dial that is still noted is told apart by the
   outcome noted for it. *)
Opening(x, z, d) ==
    /\ Only(x, z, d) /\ z.overtaken = x.overtaken /\ z.driver[d].recover = FALSE
    /\ \/ /\ z.driver[d].connecting = TRUE /\ z.driver[d].dial.active = TRUE
          /\ z.driver[d].armed = TRUE /\ z.attempt[d] = "open" /\ z.pending = x.pending
       \/ /\ z.driver[d].connecting = FALSE /\ z.driver[d].dial.active = FALSE
          /\ d \in z.pending => d \in x.pending /\ z.attempt[d] = "open"
          /\ z.attempt[d] # "open" => d \in x.pending

(* The session in which openDevice() calls the driver *)
Armed(x, d) == [x EXCEPT !.driver[d].armed = TRUE, !.attempt[d] = "open"]

LEMMA ArmedOpens ==
    ASSUME NEW x, Shape(x), NEW d \in Devices
    PROVE  LET y == Armed(x, d)
           IN /\ Only(x, y, d) /\ Same(x, y, {"driver", "attempt"}) /\ y.attempt[d] = "open"
              /\ y.driver[d] \in DriverType /\ y.driver[d].armed = TRUE
<1> DEFINE v == [x.driver[d] EXCEPT !.armed = TRUE]
           w == WithDriver(x, d, v)
           a == [w.attempt EXCEPT ![d] = "open"]
           y == Armed(x, d)
<1>1. v \in DriverType /\ v.armed = TRUE
  BY DEF Shape, DriverType
<1>2. w = [x EXCEPT !.driver[d].armed = TRUE]
  BY DEF WithDriver
<1> HIDE DEF v
<1>3. Only(x, w, d) /\ Same(x, w, {"driver"}) /\ w.driver[d] = v /\ Shape(w) /\ Fields(w)
  BY <1>1, DriverReplaced DEF Only, Shape
<1> HIDE DEF w
<1>4. y = [w EXCEPT !.attempt = a]
  BY <1>2 DEF Armed
<1>5. /\ a \in [Devices -> Results] /\ a[d] = "open"
      /\ \A e \in Devices \ {d} : a[e] = w.attempt[e]
  BY <1>3 DEF Shape, Results
<1> HIDE DEF a, y
<1>6. Same(w, y, {"attempt"}) /\ y.attempt = a
  BY <1>3, <1>4 DEF Fields, Same
<1>7. Only(w, y, d)
  BY <1>3, <1>5, <1>6 DEF Only, Same, Shape
<1>8. Only(x, y, d)
  BY <1>3, <1>7, OnlyTransitive
<1> QED BY <1>1, <1>3, <1>5, <1>6, <1>8 DEF Same, y

(* The driver is closed first, which leaves the latch as it is. *)
LEMMA ClosedFirst ==
    ASSUME NEW x, Shape(x), NEW d \in Devices, x.driver[d].armed = TRUE
    PROVE  LET y == WithDriver(x, d, Close(x.driver[d]))
           IN /\ Only(x, y, d) /\ Same(x, y, {"driver"}) /\ y.driver[d] \in DriverType
              /\ y.driver[d].connecting = FALSE /\ y.driver[d].dial.active = FALSE
              /\ y.driver[d].recover = FALSE /\ y.driver[d].armed = TRUE
<1> DEFINE v == Close(x.driver[d])
<1>1. /\ v \in DriverType /\ v.dial.active = FALSE /\ v.connecting = FALSE
      /\ v.recover = FALSE /\ v.armed = TRUE
  BY CloseEnds DEF Shape
<1> HIDE DEF v
<1>2. LET y == WithDriver(x, d, v)
      IN Only(x, y, d) /\ Same(x, y, {"driver"}) /\ y.driver[d] = v
  BY <1>1, DriverReplaced
<1> QED BY <1>1, <1>2 DEF v

LEMMA DriverOpens ==
    ASSUME NEW x, Shape(x), NEW d \in Devices, NEW o \in DriverOpen(Armed(x, d), d)
    PROVE  Opening(x, o.io, d) /\ o.ok \in BOOLEAN /\ (o.io.driver[d].connecting = TRUE => o.ok)
<1> DEFINE a == Armed(x, d)
           y == WithDriver(a, d, Close(a.driver[d]))
<1>1. /\ Only(x, a, d) /\ Same(x, a, {"driver", "attempt"}) /\ a.attempt[d] = "open"
      /\ a.driver[d] \in DriverType /\ a.driver[d].armed = TRUE
  BY ArmedOpens
<1>2. y = [a EXCEPT !.driver[d] = Close(@)]
  BY DEF WithDriver
<1>3. \/ o \in {[io |-> [y EXCEPT !.driver[d].up = ok], ok |-> ok] : ok \in BOOLEAN}
      \/ o = [io |-> y, ok |-> FALSE]
      \/ \E named \in BOOLEAN : \E r \in Start(y.driver[d].dial, named) :
           LET z == DialGoesOn([y EXCEPT !.driver[d].connecting = TRUE], d, r)
           IN o = [io |-> z, ok |-> z.driver[d].connecting \/ z.driver[d].up]
  <2> HIDE DEF a, y
  <2>1. o \in LET u == y
              IN IF left.kind[d] = "serial"
                 THEN {[io |-> [u EXCEPT !.driver[d].up = ok], ok |-> ok] : ok \in BOOLEAN}
                 ELSE {[io |-> u, ok |-> FALSE]}
                      \cup {LET z == DialGoesOn([u EXCEPT !.driver[d].connecting = TRUE], d, r)
                            IN [io |-> z, ok |-> z.driver[d].connecting \/ z.driver[d].up] :
                               r \in UNION {Start(u.driver[d].dial, named) : named \in BOOLEAN}}
    BY <1>2, Zenon DEF DriverOpen, a
  <2> QED BY <2>1, Zenon
<1> HIDE DEF a
<1>4. /\ Only(a, y, d) /\ Same(a, y, {"driver"}) /\ y.driver[d] \in DriverType
      /\ y.driver[d].connecting = FALSE /\ y.driver[d].dial.active = FALSE
      /\ y.driver[d].recover = FALSE /\ y.driver[d].armed = TRUE
  BY <1>1, ClosedFirst DEF Only
<1> HIDE DEF y
<1>5. Only(x, y, d) /\ Shape(y)
  BY <1>1, <1>4, OnlyTransitive DEF Only
<1>6. y.attempt[d] = "open" /\ y.pending = x.pending /\ y.overtaken = x.overtaken
  BY <1>1, <1>4 DEF Same
<1>7. Opening(x, y, d)
  BY <1>4, <1>5, <1>6 DEF Opening
<1>8. CASE o = [io |-> y, ok |-> FALSE]
  <2>1. o.io = y /\ o.ok = FALSE
    BY <1>8
  <2> QED BY <1>4, <1>7, <2>1
<1>9. CASE o \in {[io |-> [y EXCEPT !.driver[d].up = ok], ok |-> ok] : ok \in BOOLEAN}
  <2>1. PICK ok \in BOOLEAN : o = [io |-> [y EXCEPT !.driver[d].up = ok], ok |-> ok]
    BY <1>9, Zenon
  <2> DEFINE v == [y.driver[d] EXCEPT !.up = ok]
             z == WithDriver(y, d, v)
  <2>2. z = [y EXCEPT !.driver[d].up = ok]
    BY DEF WithDriver
  <2>3. o = [io |-> z, ok |-> ok]
    BY <2>1, <2>2, Zenon
  <2>4. /\ v \in DriverType /\ v.connecting = FALSE /\ v.dial.active = FALSE
        /\ v.recover = FALSE
    BY <1>4 DEF DriverType
  <2> HIDE DEF v
  <2>5. Only(y, z, d) /\ Same(y, z, {"driver"}) /\ z.driver[d] = v
    BY <1>5, <2>4, DriverReplaced
  <2> HIDE DEF z
  <2>6. Only(x, z, d)
    BY <1>5, <2>5, OnlyTransitive
  <2>7. Opening(x, z, d)
    BY <1>6, <2>4, <2>5, <2>6 DEF Opening, Same
  <2>8. o.io = z /\ o.ok = ok
    BY <2>3
  <2> QED BY <2>4, <2>5, <2>7, <2>8
<1>10. CASE \E named \in BOOLEAN : \E r \in Start(y.driver[d].dial, named) :
              LET z == DialGoesOn([y EXCEPT !.driver[d].connecting = TRUE], d, r)
              IN o = [io |-> z, ok |-> z.driver[d].connecting \/ z.driver[d].up]
  <2>0. PICK named \in BOOLEAN : \E r \in Start(y.driver[d].dial, named) :
              LET z == DialGoesOn([y EXCEPT !.driver[d].connecting = TRUE], d, r)
              IN o = [io |-> z, ok |-> z.driver[d].connecting \/ z.driver[d].up]
    BY <1>10, Zenon
  <2>1. PICK r \in Start(y.driver[d].dial, named) :
              LET z == DialGoesOn([y EXCEPT !.driver[d].connecting = TRUE], d, r)
              IN o = [io |-> z, ok |-> z.driver[d].connecting \/ z.driver[d].up]
    BY <2>0, Zenon
  <2> DEFINE v == [y.driver[d] EXCEPT !.connecting = TRUE]
             w == WithDriver(y, d, v)
             z == DialGoesOn(w, d, r)
  <2>2. w = [y EXCEPT !.driver[d].connecting = TRUE]
    BY DEF WithDriver
  <2>3. o = [io |-> z, ok |-> z.driver[d].connecting \/ z.driver[d].up]
    BY <2>1, <2>2, Zenon
  <2>4. /\ v \in DriverType /\ v.connecting = TRUE /\ v.armed = TRUE /\ v.recover = FALSE
    BY <1>4 DEF DriverType
  <2> HIDE DEF v
  <2>5. Only(y, w, d) /\ Same(y, w, {"driver"}) /\ w.driver[d] = v /\ Shape(w)
    BY <1>5, <2>4, DriverReplaced DEF Only
  <2> HIDE DEF w
  <2>6. Only(x, w, d)
    BY <1>5, <2>5, OnlyTransitive
  <2>7. w.attempt[d] = "open" /\ w.pending = x.pending /\ w.overtaken = x.overtaken
    BY <1>6, <2>5 DEF Same
  <2>8. Follows([y.driver[d].dial EXCEPT !.active = TRUE], r) /\ r \in DialResult
    <3> DEFINE s == [y.driver[d].dial EXCEPT !.active = TRUE]
    <3>1. y.driver[d].dial \in DialType
      BY <1>4 DEF DriverType
    <3>2. s.active = TRUE
      BY <3>1, SetActive
    <3> HIDE DEF s
    <3>3. Follows(s, r)
      BY <3>1, <3>2, StartFollows
    <3> QED BY <3>3 DEF Follows, DialResult, s
  <2>9. /\ r.verdict = "none" => r.dial.active = TRUE
        /\ r.verdict # "none" => r.dial.active = FALSE
    BY <1>4, <2>8, SetActive DEF Follows, DriverType
  <2>10. o.io = z /\ o.ok = (z.driver[d].connecting \/ z.driver[d].up)
    BY <2>3, Zenon
  <2>11. CASE r.verdict = "none"
    <3>1. /\ Only(w, z, d) /\ Same(w, z, {"driver"}) /\ z.driver[d].dial = r.dial
          /\ z.driver[d].connecting = w.driver[d].connecting
          /\ z.driver[d].armed = w.driver[d].armed /\ z.driver[d].recover = w.driver[d].recover
      BY <2>5, <2>8, <2>11, GoesOnSilently
    <3> HIDE DEF z
    <3>2. Only(x, z, d)
      BY <2>6, <3>1, OnlyTransitive
    <3>3. Opening(x, z, d)
      BY <2>4, <2>5, <2>7, <2>9, <2>11, <3>1, <3>2 DEF Opening, Same
    <3> QED BY <2>10, <3>3, Zenon
  <2>12. CASE r.verdict # "none"
    <3>1. Reported(w, z, d, r.verdict = "ok")
      BY <2>4, <2>5, <2>8, <2>9, <2>12, GoesOnReporting
    <3> HIDE DEF z
    <3>2. Only(x, z, d)
      BY <2>6, <3>1, OnlyTransitive DEF Reported
    <3>3. Opening(x, z, d)
      BY <2>4, <2>5, <2>7, <3>1, <3>2 DEF Opening, Reported
    <3> QED BY <2>10, <3>3, Zenon
  <2> QED BY <2>11, <2>12
<1> QED BY <1>3, <1>8, <1>9, <1>10
(* y is the session x after an open of device d, told if the device is there. *)
Opened(x, y, d) ==
    /\ Session(y) /\ Only(x, y, d)
    /\ IF d \in x.devices THEN Told(y) ELSE y = x

LEMMA OpenDeviceOpens ==
    ASSUME NEW x, Session(x), NEW d \in Devices, NEW y \in OpenDevice(x, d)
    PROVE  Opened(x, y, d)
<1>1. Shape(x) /\ DeviceInv(x, d)
  BY DEF Session
<1>2. CASE d \notin x.devices
  <2>1. y = x
    BY <1>2 DEF OpenDevice
  <2>2. Only(x, x, d)
    BY <1>1 DEF Only
  <2> QED BY <1>2, <2>1, <2>2 DEF Opened
<1>3. CASE d \in x.devices
  <2> DEFINE Taken(z) == IF x.attempt[d] = "open" THEN z.overtaken \cup {d} ELSE z.overtaken
             Dialing(z) == Notify([z EXCEPT !.pending = @ \cup {d}, !.failures = @ \ {d}])
             Over(z, ok) == OpenFinished([z EXCEPT !.driver[d].armed = FALSE,
                                                   !.overtaken = Taken(z)], d, ok)
  <2>1. PICK o \in DriverOpen(Armed(x, d), d) :
           y = IF o.ok /\ o.io.driver[d].connecting THEN Dialing(o.io) ELSE Over(o.io, o.ok)
    BY <1>3, Zenon DEF OpenDevice, Armed
  <2> DEFINE z == o.io
             ok == o.ok
  <2>2. Opening(x, z, d) /\ ok \in BOOLEAN /\ (z.driver[d].connecting = TRUE => ok)
    BY <1>1, DriverOpens
  <2>3. y = IF ok /\ z.driver[d].connecting THEN Dialing(z) ELSE Over(z, ok)
    BY <2>1, Zenon
  <2> HIDE DEF z, ok
  <2>4. Only(x, z, d) /\ Shape(z) /\ Fields(z) /\ z.overtaken = x.overtaken
    BY <2>2 DEF Opening, Only, Shape
  <2>5. ASSUME z.driver[d].connecting = TRUE
        PROVE  Opened(x, y, d)
    <3> DEFINE p == z.pending \cup {d}
               f == z.failures \ {d}
               w == [z EXCEPT !.pending = p, !.failures = f]
    <3>1. y = Notify(w)
      BY <2>2, <2>3, <2>5
    <3>2. d \in p /\ d \notin f /\ f \subseteq Devices
          /\ \A e \in Devices \ {d} : (e \in p <=> e \in z.pending) /\ (e \in f <=> e \in z.failures)
      BY <2>4 DEF Shape
    <3>3. w = [z EXCEPT !.pending = p, !.failures = f]
      OBVIOUS
    <3> HIDE DEF p, f, w
    <3>4. Same(z, w, {"pending", "failures"}) /\ w.pending = p /\ w.failures = f
      BY <2>4, <3>3 DEF Fields, Same
    <3>5. Only(z, w, d) /\ Shape(w)
      BY <2>4, <3>2, <3>4 DEF Only, Same, Shape
    <3>6. Alike(w, y) /\ Told(y)
      BY <3>1, <3>5, NotifyTells
    <3>7. Only(x, y, d)
      BY <2>4, <3>5, <3>6, AlikeOnly, OnlyTransitive
    <3>8. DeviceInv(y, d)
      BY <1>1, <1>3, <2>2, <2>4, <2>5, <3>2, <3>4, <3>6, <3>7
      DEF DeviceInv, Opening, Alike, Same, Only
    <3> QED BY <1>3, <3>6, <3>7, <3>8, OnlySession DEF Opened
  <2>6. ASSUME z.driver[d].connecting # TRUE
        PROVE  Opened(x, y, d)
    <3> DEFINE v == [z.driver[d] EXCEPT !.armed = FALSE]
               u == WithDriver(z, d, v)
               t == Taken(z)
               w == [u EXCEPT !.overtaken = t]
    <3>1. z.driver[d].connecting = FALSE
      BY <2>2, <2>6 DEF Opening
    <3>2. y = Over(z, ok)
      BY <2>3, <3>1
    <3>3. u = [z EXCEPT !.driver[d].armed = FALSE]
      BY DEF WithDriver
    <3>4. w = [z EXCEPT !.driver[d].armed = FALSE, !.overtaken = Taken(z)]
      BY <3>3
    <3>5. y = OpenFinished(w, d, ok)
      BY <3>2, <3>4, Zenon
    <3>6. /\ v \in DriverType /\ v.connecting = FALSE /\ v.recover = z.driver[d].recover
          /\ v.dial = z.driver[d].dial
      BY <2>4, <3>1 DEF Shape, DriverType
    <3>7. /\ x.attempt[d] = "open" => d \in t
          /\ d \in z.overtaken => d \in t
          /\ \A e \in Devices \ {d} : e \in t <=> e \in z.overtaken
      OBVIOUS
    <3>14. w = [u EXCEPT !.overtaken = t]
      OBVIOUS
    <3> HIDE DEF v, t, w
    <3>8. Only(z, u, d) /\ Same(z, u, {"driver"}) /\ u.driver[d] = v /\ Shape(u) /\ Fields(u)
      BY <2>4, <3>6, DriverReplaced DEF Only, Shape
    <3> HIDE DEF u
    <3>9. Same(u, w, {"overtaken"}) /\ w.overtaken = t
      BY <3>14, <3>8 DEF Fields, Same
    <3>10. Only(z, w, d) /\ Shape(w)
      BY <3>7, <3>8, <3>9 DEF Only, Same, Shape
    <3>11. Noted(w, y, d, ok)
      BY <2>2, <3>5, <3>10, OpenFinishedNotes
    <3>12. Only(x, y, d)
      BY <2>4, <3>10, <3>11, OnlyTransitive DEF Noted
    <3>13. DeviceInv(y, d)
      <4>1. /\ y.driver[d] = v /\ y.pending = z.pending /\ y.overtaken = t
            /\ w.attempt = z.attempt
        BY <3>8, <3>9, <3>11 DEF Noted, Same
      <4>2. /\ z.attempt[d] # "open" => y.attempt[d] = "twice"
            /\ z.attempt[d] = "open" => y.attempt[d] \in {"ok", "failed"}
            /\ z.attempt[d] = "open" /\ d \in y.failures => y.attempt[d] = "failed"
        BY <2>2, <3>11, <4>1 DEF Noted
      <4>3. d \in y.devices
        BY <1>3, <3>12 DEF Only
      <4>4. /\ v.connecting = FALSE /\ v.dial.active = FALSE
            /\ d \in z.pending => d \in x.pending /\ z.attempt[d] = "open"
            /\ z.attempt[d] # "open" => d \in x.pending
        BY <2>2, <2>6, <3>6 DEF Opening
      <4>5. d \in x.pending => d \in t
        BY <1>1, <2>4, <3>7 DEF DeviceInv
      <4> QED BY <4>1, <4>2, <4>3, <4>4, <4>5 DEF DeviceInv
    <3> QED BY <1>3, <3>11, <3>12, <3>13, OnlySession DEF Opened, Noted
  <2> QED BY <2>5, <2>6
<1> QED BY <1>2, <1>3
-----------------------------------------------------------------------------
(* Induction over the naturals, for a set *)

Below == {ss \in Nat \X Nat : ss[1] < ss[2]}

LEMMA BelowWellFounded == IsWellFoundedOn(Below, Nat)
BY NatLessThanWellFounded, Zenon DEF OpToRel, Below

LEMMA SetInduction ==
    ASSUME NEW S, 0 \in S, \A n \in Nat : n \in S => n + 1 \in S
    PROVE  \A n \in Nat : n \in S
<1> DEFINE T == Nat \ S
<1>1. SUFFICES ASSUME T # {} PROVE FALSE
  BY <1>1
<1>2. T \in SUBSET Nat
  OBVIOUS
<1> HIDE DEF T
<1>3. PICK m \in T : \A n \in T : ~(<<n, m>> \in Below)
  BY <1>1, <1>2, BelowWellFounded, WFMin, Zenon
<1>4. m \in Nat /\ m \notin S
  BY <1>3 DEF T
<1>5. m - 1 \in Nat /\ m - 1 < m /\ m = (m - 1) + 1
  BY <1>4
<1>6. m - 1 \in T
  BY <1>4, <1>5 DEF T
<1>7. <<m - 1, m>> \in Below
  BY <1>4, <1>5 DEF Below
<1> QED BY <1>3, <1>6, <1>7

-----------------------------------------------------------------------------
(* A connect opens the devices one after the other. *)

Opens(S, d) == UNION {OpenDevice(y, d) : y \in S}

(* f gives, for each of 0..n, the sessions after the opens up to it. *)
OpensInTurn(f, x, n) ==
    f = [d \in 0..n |-> Opens(IF d = 0 THEN {x} ELSE f[d - 1], d)]

(* There is such a function for every n. *)
LEMMA OpensExist ==
    ASSUME NEW x
    PROVE  \A n \in Nat : \E f : OpensInTurn(f, x, n)
<1> DEFINE S == {n \in Nat : \E f : OpensInTurn(f, x, n)}
<1>1. 0 \in S
  <2> DEFINE f == [d \in 0..0 |-> Opens({x}, d)]
  <2>1. f = [d \in 0..0 |-> Opens(IF d = 0 THEN {x} ELSE f[d - 1], d)]
    <3>1. \A d \in 0..0 : d = 0
      OBVIOUS
    <3> QED BY <3>1
  <2> QED BY <2>1 DEF OpensInTurn
<1>2. ASSUME NEW n \in Nat, n \in S PROVE n + 1 \in S
  <2>1. PICK f : OpensInTurn(f, x, n)
    BY <1>2
  <2> DEFINE g == [d \in 0..n + 1 |-> IF d \in 0..n THEN f[d] ELSE Opens(f[n], d)]
  <2>2. g = [d \in 0..n + 1 |-> Opens(IF d = 0 THEN {x} ELSE g[d - 1], d)]
    <3> SUFFICES ASSUME NEW d \in 0..n + 1
                 PROVE  g[d] = Opens(IF d = 0 THEN {x} ELSE g[d - 1], d)
      BY Zenon
    <3>1. CASE d \in 0..n
      <4>1. f[d] = Opens(IF d = 0 THEN {x} ELSE f[d - 1], d)
        BY <2>1, <3>1 DEF OpensInTurn
      <4>2. d # 0 => d - 1 \in 0..n + 1 /\ d - 1 \in 0..n
        BY <3>1
      <4>3. d # 0 => g[d - 1] = f[d - 1]
        BY <4>2
      <4>4. g[d] = f[d]
        BY <3>1
      <4> HIDE DEF g
      <4> QED BY <4>1, <4>3, <4>4
    <3>2. CASE d \notin 0..n
      <4>1. d = n + 1 /\ d # 0 /\ d - 1 = n /\ n \in 0..n /\ n \in 0..n + 1
        BY <3>2
      <4>2. g[d] = Opens(f[n], d)
        BY <3>2
      <4>3. g[n] = f[n]
        BY <4>1
      <4> HIDE DEF g
      <4> QED BY <4>1, <4>2, <4>3
    <3> QED BY <3>1, <3>2
  <2>3. OpensInTurn(g, x, n + 1)
    BY <2>2, Zenon DEF OpensInTurn
  <2> HIDE DEF g
  <2> QED BY <2>3
<1> HIDE DEF S
<1>3. \A n \in Nat : n \in S
  BY <1>1, <1>2, SetInduction
<1> QED BY <1>3 DEF S

LEMMA ConnectOpens ==
    ASSUME NEW x
    PROVE  \E f : /\ OpensInTurn(f, [x EXCEPT !.closeRequested = FALSE], LastDevice)
                  /\ Connect(x) = f[Max(Reached(x))]
<1> DEFINE w == [x EXCEPT !.closeRequested = FALSE]
           opened[d \in Devices] ==
              UNION {OpenDevice(y, d) : y \in IF d = 0 THEN {w} ELSE opened[d - 1]}
<1>1. Connect(x) = opened[Max(Reached(x))]
  BY Zenon DEF Connect
<1>2. \E f : f = [d \in Devices |-> UNION {OpenDevice(y, d) : y \in IF d = 0 THEN {w} ELSE f[d - 1]}]
  <2>1. \E f : OpensInTurn(f, w, LastDevice)
    BY OpensExist, Constants, Zenon
  <2> QED BY <2>1, Zenon DEF OpensInTurn, Opens, Devices
<1>3. opened = [d \in Devices |-> UNION {OpenDevice(y, d) : y \in IF d = 0 THEN {w} ELSE opened[d - 1]}]
  BY <1>2, Zenon
<1> HIDE DEF opened
<1>4. OpensInTurn(opened, w, LastDevice)
  BY <1>3, Zenon DEF OpensInTurn, Opens, Devices
<1> QED BY <1>1, <1>4, Zenon
(* What a session that connects keeps *)
Reopened(x, y) ==
    /\ Session(y)
    /\ y.mode = x.mode /\ y.sources = x.sources /\ y.devices = x.devices
    /\ y.closeRequested = x.closeRequested
    /\ Told(x) => Told(y)

LEMMA OpensInTurnReopen ==
    ASSUME NEW x, Session(x), NEW f, OpensInTurn(f, x, LastDevice), NEW d \in Devices
    PROVE  \A y \in f[d] : Reopened(x, y)
<1> DEFINE S == {n \in Nat : n \in Devices => \A y \in f[n] : Reopened(x, y)}
<1>1. Reopened(x, x)
  BY DEF Reopened
<1>2. ASSUME NEW n \in Devices, NEW z, Reopened(x, z), NEW y \in OpenDevice(z, n)
      PROVE  Reopened(x, y)
  <2>1. Session(z)
    BY <1>2 DEF Reopened
  <2>2. Opened(z, y, n)
    BY <2>1, OpenDeviceOpens
  <2>3. Session(y) /\ (Told(z) => Told(y)) /\ Only(z, y, n)
    BY <2>2 DEF Opened
  <2> QED BY <1>2, <2>3 DEF Reopened, Only
<1>3. \A n \in Devices : f[n] = Opens(IF n = 0 THEN {x} ELSE f[n - 1], n)
  BY Zenon DEF OpensInTurn, Devices
<1>4. 0 \in S
  <2>1. f[0] = Opens({x}, 0)
    BY <1>3, Constants
  <2> QED BY <1>1, <1>2, <2>1, Constants DEF Opens
<1>5. ASSUME NEW n \in Nat, n \in S PROVE n + 1 \in S
  <2> SUFFICES ASSUME n + 1 \in Devices, NEW y \in f[n + 1]
               PROVE  Reopened(x, y)
    OBVIOUS
  <2>1. n \in Devices /\ n + 1 # 0 /\ (n + 1) - 1 = n
    BY Constants DEF Devices
  <2>2. f[n + 1] = Opens(f[n], n + 1)
    BY <1>3, <2>1
  <2>3. PICK z \in f[n] : y \in OpenDevice(z, n + 1)
    BY <2>2 DEF Opens
  <2>4. Reopened(x, z)
    BY <1>5, <2>1, <2>3
  <2> QED BY <1>2, <2>3, <2>4
<1> HIDE DEF S
<1>6. \A n \in Nat : n \in S
  BY <1>4, <1>5, SetInduction
<1> QED BY <1>6, Constants DEF S

LEMMA ConnectReopens ==
    ASSUME NEW x, Session(x), NEW y \in Connect(x)
    PROVE  /\ Session(y) /\ y.closeRequested = FALSE
           /\ y.mode = x.mode /\ y.sources = x.sources /\ y.devices = x.devices
           /\ Told(x) => Told(y)
<1> DEFINE w == [x EXCEPT !.closeRequested = FALSE]
<1>1. PICK f : OpensInTurn(f, w, LastDevice) /\ Connect(x) = f[Max(Reached(x))]
  BY ConnectOpens, Zenon
<1>2. w = [x EXCEPT !.closeRequested = FALSE]
  OBVIOUS
<1> HIDE DEF w
<1>3. Shape(x) /\ Fields(x)
  BY DEF Session, Shape
<1>4. Same(x, w, {"closeRequested"}) /\ w.closeRequested = FALSE
  BY <1>2, <1>3 DEF Fields, Same
<1>5. Shape(w)
  BY <1>3, <1>4 DEF Same, Shape
<1>6. ASSUME NEW d \in Devices PROVE DeviceInv(w, d)
  BY <1>4 DEF Session, DeviceInv, Same
<1>7. Session(w)
  BY <1>5, <1>6 DEF Session
<1>8. Told(x) => Told(w)
  BY <1>4, LinksAlike DEF Told, Same
<1>9. Max(Reached(x)) \in Devices
  <2>1. CASE x.mode = "project"
    <3>1. LastDevice \in Devices /\ \A e \in Devices : LastDevice >= e
      BY Constants DEF Devices
    <3> QED BY <2>1, <3>1 DEF Reached, Max
  <2>2. CASE x.mode # "project"
    <3>1. 0 \in {0} /\ \A e \in {0} : 0 >= e
      OBVIOUS
    <3>2. Max({0}) \in {0}
      BY <3>1 DEF Max
    <3> QED BY <2>2, <3>2, Constants DEF Reached
  <2> QED BY <2>1, <2>2
<1>10. y \in f[Max(Reached(x))]
  BY <1>1, Zenon
<1>11. Reopened(w, y)
  BY <1>1, <1>7, <1>9, <1>10, OpensInTurnReopen
<1> QED BY <1>4, <1>8, <1>11 DEF Reopened, Same

-----------------------------------------------------------------------------
(* A disconnect *)

(* y is x, told, with the devices of ids closed and none opened. *)
Shut(x, y, ids) ==
    /\ Session(y) /\ Told(y)
    /\ y.mode = x.mode /\ y.sources = x.sources /\ y.devices = x.devices
    /\ \A d \in Devices : d \in ids \/ Closed(x, d) => Closed(y, d)

LEMMA DisconnectShuts ==
    ASSUME NEW x, Session(x), NEW ids
    PROVE  LET y == DisconnectDevices(x, ids)
           IN Shut(x, y, ids) /\ Disconnected(x, y, ids)
<1> DEFINE y == DisconnectDevices(x, ids)
<1>1. Shape(x)
  BY DEF Session
<1>2. Disconnected(x, y, ids)
  BY <1>1, DisconnectCloses
<1> HIDE DEF y
<1>3. ASSUME NEW d \in Devices PROVE DeviceInv(y, d)
  <2>1. DeviceInv(x, d) /\ x.driver[d] \in DriverType /\ y.driver[d] \in DriverType
    BY <1>2 DEF Session, Shape, Disconnected
  <2>2. CASE d \in ids \cap x.devices
    <3>1. y.driver[d].dial.active = FALSE /\ Closed(y, d) /\ d \notin y.pending
      BY <1>2, <2>2 DEF Disconnected
    <3>2. y.driver[d].connecting = FALSE
      BY <2>1, <3>1 DEF Closed, DriverType
    <3>3. y.attempt[d] = IF x.attempt[d] = "open" THEN "cancelled" ELSE x.attempt[d]
      BY <1>2, <2>1, <2>2 DEF Disconnected, DeviceInv
    <3> QED BY <1>2, <2>1, <2>2, <3>1, <3>2, <3>3 DEF DeviceInv, Disconnected
  <2>3. CASE d \notin ids \cap x.devices
    <3>1. y.driver[d] = x.driver[d] /\ y.attempt[d] = x.attempt[d]
      BY <1>2, <2>1, <2>3 DEF Disconnected, DeviceInv
    <3>2. d \in y.pending => d \in x.pending
      BY <1>2 DEF Disconnected
    <3>3. d \in x.pending /\ x.driver[d].connecting => d \in y.pending
      BY <1>2, <2>1, <2>3 DEF Disconnected, DeviceInv
    <3> QED BY <1>2, <2>1, <3>1, <3>2, <3>3 DEF DeviceInv, Disconnected
  <2> QED BY <2>2, <2>3
<1>4. ASSUME NEW d \in Devices, d \in ids \/ Closed(x, d) PROVE Closed(y, d)
  <2>1. CASE d \in ids \cap x.devices
    BY <1>2, <2>1 DEF Disconnected
  <2>2. CASE d \notin ids \cap x.devices
    <3>1. Closed(x, d)
      BY <1>4, <2>2 DEF Session, DeviceInv, Closed
    <3>2. y.driver[d] = x.driver[d]
      BY <1>2, <2>2 DEF Disconnected
    <3> QED BY <3>1, <3>2 DEF Closed
  <2> QED BY <2>1, <2>2
<1> QED BY <1>2, <1>3, <1>4 DEF Shut, Session, Disconnected, y

LEMMA DisconnectClosesAll ==
    ASSUME NEW x, Session(x)
    PROVE  LET y == Disconnect(x)
           IN Shut(x, y, Reached(x)) /\ y.closeRequested = TRUE
<1> DEFINE w == [x EXCEPT !.closeRequested = TRUE]
           z == DisconnectDevices(w, Reached(x))
           y == Disconnect(x)
<1>1. y = [z EXCEPT !.failures = {}]
  BY DEF Disconnect
<1>2. w = [x EXCEPT !.closeRequested = TRUE]
  OBVIOUS
<1> HIDE DEF w, y
<1>3. Shape(x) /\ Fields(x)
  BY DEF Session, Shape
<1>4. Same(x, w, {"closeRequested"}) /\ w.closeRequested = TRUE
  BY <1>2, <1>3 DEF Fields, Same
<1>5. Shape(w)
  BY <1>3, <1>4 DEF Same, Shape
<1>6. ASSUME NEW d \in Devices PROVE DeviceInv(w, d)
  BY <1>4 DEF Session, DeviceInv, Same
<1>7. Session(w)
  BY <1>5, <1>6 DEF Session
<1>8. Shut(w, z, Reached(x)) /\ Disconnected(w, z, Reached(x))
  BY <1>7, DisconnectShuts
<1> HIDE DEF z
<1>9. Shape(z) /\ Fields(z) /\ Session(z) /\ Told(z)
  BY <1>8 DEF Shut, Session, Shape
<1>10. Same(z, y, {"failures"}) /\ y.failures = {}
  BY <1>1, <1>9 DEF Fields, Same
<1>11. Shape(y)
  BY <1>9, <1>10 DEF Same, Shape
<1>12. ASSUME NEW d \in Devices PROVE DeviceInv(y, d)
  BY <1>9, <1>10 DEF Session, DeviceInv, Same
<1>13. Told(y)
  BY <1>9, <1>10, LinksAlike DEF Told, Same
<1>14. ASSUME NEW d \in Devices, d \in Reached(x) \/ Closed(x, d) PROVE Closed(y, d)
  <2>1. d \in Reached(x) \/ Closed(w, d)
    BY <1>4, <1>14 DEF Closed, Same
  <2>2. Closed(z, d)
    BY <1>8, <2>1 DEF Shut
  <2> QED BY <1>10, <2>2 DEF Closed, Same
<1>15. /\ y.mode = x.mode /\ y.sources = x.sources /\ y.devices = x.devices
       /\ y.closeRequested = TRUE
  BY <1>4, <1>8, <1>10 DEF Same, Disconnected
<1> QED BY <1>11, <1>12, <1>13, <1>14, <1>15 DEF Shut, Session, y

(* A driver gave up its link. *)
LEMMA DropShuts ==
    ASSUME NEW x, Session(x), NEW d \in Devices
    PROVE  LET y == DropDevice(x, d)
           IN Shut(x, y, {d}) /\ Only(x, y, d) /\ d \notin y.pending
<1>1. Shape(x) /\ Fields(x) /\ DeviceInv(x, d)
  BY DEF Session, Shape
<1>2. ASSUME NEW w, Session(w), NEW y, y = DisconnectDevices(w, {d})
      PROVE  Shut(w, y, {d}) /\ Only(w, y, d) /\ d \notin y.pending
  <2>1. Shut(w, y, {d}) /\ Disconnected(w, y, {d})
    BY <1>2, DisconnectShuts
  <2> QED BY <2>1 DEF Disconnected, Only
<1>3. CASE d \notin x.pending
  BY <1>2, <1>3 DEF DropDevice
<1>4. CASE d \in x.pending
  <2> DEFINE q == x.pending \ {d}
             p == [x EXCEPT !.pending = q]
             w == OpenFinished(p, d, FALSE)
             y == DropDevice(x, d)
  <2>1. y = DisconnectDevices(w, {d})
    BY <1>4 DEF DropDevice
  <2>2. d \notin q /\ \A e \in Devices \ {d} : e \in q <=> e \in x.pending
    OBVIOUS
  <2>3. p = [x EXCEPT !.pending = q]
    OBVIOUS
  <2> HIDE DEF q, p
  <2>4. Same(x, p, {"pending"}) /\ p.pending = q
    BY <1>1, <2>3 DEF Fields, Same
  <2>5. Only(x, p, d) /\ Shape(p)
    BY <1>1, <2>2, <2>4 DEF Only, Same, Shape
  <2>6. Noted(p, w, d, FALSE)
    BY <2>5, OpenFinishedNotes
  <2> HIDE DEF w
  <2>7. Only(x, w, d)
    BY <2>5, <2>6, OnlyTransitive DEF Noted
  <2>8. /\ w.driver[d] = x.driver[d] /\ w.overtaken = x.overtaken /\ d \notin w.pending
        /\ x.attempt[d] # "open" => w.attempt[d] = "twice"
        /\ x.attempt[d] = "open" => w.attempt[d] = "failed"
    BY <2>2, <2>4, <2>6 DEF Noted, Same
  \* The dial may still run in this turn: the disconnect is what ends it.
  <2>9. Shape(w)
    BY <2>7 DEF Only
  <2>10. Disconnected(w, y, {d})
    BY <2>1, <2>9, DisconnectCloses
  <2> HIDE DEF y
  <2>11. Only(w, y, d)
    BY <2>10 DEF Disconnected, Only
  <2>12. Only(x, y, d)
    BY <2>7, <2>11, OnlyTransitive
  <2>13. /\ y.attempt[d] = w.attempt[d] /\ y.overtaken = x.overtaken /\ d \notin y.pending
         /\ y.devices = x.devices
    BY <2>8, <2>10, <2>12 DEF Disconnected, Only
  <2>14. Closed(y, d) /\ y.driver[d].dial.active = FALSE
    <3>1. CASE d \in x.devices
      BY <2>10, <2>13, <3>1 DEF Disconnected
    <3>2. CASE d \notin x.devices
      <4>1. y.driver[d] = x.driver[d] /\ x.driver[d] \in DriverType
        BY <1>1, <2>8, <2>10, <2>13, <3>2 DEF Disconnected, Shape
      <4>2. x.driver[d].dial.active = FALSE /\ Closed(x, d)
        BY <1>1, <3>2, <4>1 DEF DeviceInv, DriverType, Closed
      <4> QED BY <4>1, <4>2 DEF Closed
    <3> QED BY <3>1, <3>2
  <2>15. y.driver[d].connecting = FALSE
    BY <2>12, <2>14 DEF Closed, Only, Shape, DriverType
  <2>16. DeviceInv(y, d)
    BY <1>1, <1>4, <2>8, <2>13, <2>14, <2>15 DEF DeviceInv, Closed
  <2>17. Session(y)
    BY <2>12, <2>16, OnlySession
  <2>18. ASSUME NEW e \in Devices, e \in {d} \/ Closed(x, e) PROVE Closed(y, e)
    BY <2>12, <2>14, <2>18 DEF Only, Closed
  <2> QED BY <2>10, <2>12, <2>13, <2>17, <2>18 DEF Shut, Only, Disconnected, y
<1> QED BY <1>3, <1>4
-----------------------------------------------------------------------------
(* Edits *)

LEMMA IdleDriverIdle ==
    /\ IdleDriver \in DriverType /\ IdleDriver.dial.active = FALSE
    /\ IdleDriver.connecting = FALSE /\ IdleDriver.up = FALSE /\ IdleDriver.recover = FALSE
<1>1. IdleDial \in DialType /\ IdleDial.active = FALSE
  BY DEF IdleDial, DialType
<1> QED BY <1>1 DEF IdleDriver, DriverType

(* The devices that are there matter only where a driver is not idle. *)
LEMMA BusReplaced ==
    ASSUME NEW x, Session(x), NEW y \in SetBusType(x)
    PROVE  /\ Session(y) /\ (Told(x) => Told(y))
           /\ y.mode = x.mode /\ y.closeRequested = x.closeRequested
           /\ y.devices \subseteq x.devices \cup {0}
           /\ \A d \in Devices : Closed(x, d) => Closed(y, d)
<1> DEFINE z == DisconnectDevices(x, {0})
           v == [z.driver EXCEPT ![0] = IdleDriver]
           a == [z.attempt EXCEPT ![0] = "none"]
           o == z.overtaken \ {0}
           w == [z EXCEPT !.driver = v, !.attempt = a, !.overtaken = o]
<1>1. y = x \/ \E s \in {w.devices \cup {0}, w.devices \ {0}} : y = [w EXCEPT !.devices = s]
  <2>1. w = [z EXCEPT !.driver[0] = IdleDriver, !.attempt[0] = "none",
                      !.overtaken = @ \ {0}]
    OBVIOUS
  <2> DEFINE u == [z EXCEPT !.driver[0] = IdleDriver, !.attempt[0] = "none",
                            !.overtaken = @ \ {0}]
  <2>2. y = [u EXCEPT !.devices = @ \cup {0}] \/ y = [u EXCEPT !.devices = @ \ {0}] \/ y = x
    BY Zenon DEF SetBusType
  <2>3. u = w
    BY <2>1, Zenon
  <2> HIDE DEF u, w
  <2> QED BY <2>2, <2>3
<1>2. CASE y = x
  <2>1. Shape(x)
    BY DEF Session
  <2> QED BY <1>2, <2>1
<1>3. ASSUME NEW s \in {w.devices \cup {0}, w.devices \ {0}}, y = [w EXCEPT !.devices = s]
      PROVE  /\ Session(y) /\ Told(y)
             /\ y.mode = x.mode /\ y.closeRequested = x.closeRequested
             /\ y.devices \subseteq x.devices \cup {0}
             /\ \A d \in Devices : Closed(x, d) => Closed(y, d)
  <2>1. Shut(x, z, {0}) /\ Disconnected(x, z, {0})
    BY DisconnectShuts
  <2>2. w = [z EXCEPT !.driver = v, !.attempt = a, !.overtaken = o]
    OBVIOUS
  <2> HIDE DEF z, w
  <2>3. Session(z) /\ Shape(z) /\ Fields(z) /\ Told(z)
    BY <2>1 DEF Shut, Session, Shape
  <2>4. /\ v \in [Devices -> DriverType] /\ v[0] = IdleDriver
        /\ \A d \in Devices \ {0} : v[d] = z.driver[d]
    BY <2>3, Constants, IdleDriverIdle DEF Shape
  <2>5. /\ a \in [Devices -> Results] /\ a[0] = "none"
        /\ \A d \in Devices \ {0} : a[d] = z.attempt[d]
    BY <2>3, Constants DEF Shape, Results
  <2>6. 0 \notin o /\ \A d \in Devices \ {0} : d \in o <=> d \in z.overtaken
    OBVIOUS
  <2> HIDE DEF v, a, o
  <2>7. /\ Same(z, w, {"driver", "attempt", "overtaken"}) /\ Fields(w)
        /\ w.driver = v /\ w.attempt = a /\ w.overtaken = o
    BY <2>2, <2>3 DEF Fields, Same
  <2>8. w.devices = z.devices
    BY <2>7 DEF Same
  <2>9. Same(w, y, {"devices"}) /\ y.devices = s
    BY <1>3, <2>7 DEF Fields, Same
  <2>10. s \subseteq Devices /\ \A d \in Devices \ {0} : d \in s <=> d \in z.devices
    BY <1>3, <2>3, <2>8, Constants DEF Shape
  <2>11. Shape(y)
    BY <2>3, <2>4, <2>5, <2>7, <2>9, <2>10 DEF Shape, Same
  <2>12. /\ y.mode = x.mode /\ y.closeRequested = x.closeRequested
         /\ y.driver = v /\ y.attempt = a /\ y.overtaken = o /\ y.devices = s
         /\ y.pending = z.pending /\ y.failures = z.failures /\ 0 \notin y.pending
         /\ y.told = z.told /\ y.mode = z.mode
    BY <2>1, <2>7, <2>9 DEF Same, Disconnected
  <2>13. ASSUME NEW d \in Devices PROVE DeviceInv(y, d)
    <3>1. CASE d = 0
      BY <2>4, <2>5, <2>12, <3>1, IdleDriverIdle DEF DeviceInv
    <3>2. CASE d # 0
      <4>1. DeviceInv(z, d)
        BY <2>3 DEF Session
      <4> QED BY <2>4, <2>5, <2>6, <2>10, <2>12, <3>2, <4>1 DEF DeviceInv
    <3> QED BY <3>1, <3>2
  <2>14. Closed(y, 0) /\ Closed(z, 0)
    BY <2>1, <2>4, <2>12, IdleDriverIdle, Constants DEF Closed, Shut
  <2>15. \A d \in Devices \ {0} : y.driver[d] = z.driver[d]
    BY <2>4, <2>12
  <2>16. Links(y) = Links(z)
    <3>1. ASSUME NEW d \in Devices
          PROVE  (IsOpen(y, d) <=> IsOpen(z, d)) /\ (Dials(y, d) <=> Dials(z, d))
      <4>1. CASE d = 0
        BY <2>14, <4>1 DEF IsOpen, Dials, Closed
      <4>2. CASE d # 0
        BY <2>10, <2>12, <2>15, <4>2 DEF IsOpen, Dials
      <4> QED BY <4>1, <4>2
    <3>2. y.devices \subseteq Devices /\ z.devices \subseteq Devices /\ y.mode = z.mode
      BY <2>3, <2>11, <2>12 DEF Shape
    <3> QED BY <3>1, <3>2, LinksEqual
  <2>17. Told(y)
    BY <2>3, <2>12, <2>16 DEF Told
  <2>18. ASSUME NEW d \in Devices, Closed(x, d) PROVE Closed(y, d)
    <3>1. Closed(z, d)
      BY <2>1, <2>18 DEF Shut
    <3> QED BY <2>14, <2>15, <3>1 DEF Closed
  <2>19. y.devices \subseteq x.devices \cup {0}
    BY <1>3, <2>1, <2>8, <2>9 DEF Disconnected
  <2> QED BY <2>11, <2>12, <2>13, <2>17, <2>18, <2>19 DEF Session
<1> QED BY <1>1, <1>2, <1>3

(* The session in which the devices gone were retired, and those made are new *)
Rebuilt(x, gone, made) ==
    LET y == Retire(x, gone) IN Notify([y EXCEPT !.devices = @ \cup made])

Renewed(x, z, gone, made) ==
    /\ Session(z) /\ Told(z)
    /\ z.mode = x.mode /\ z.closeRequested = x.closeRequested
    /\ z.devices = (x.devices \ gone) \cup made
    /\ \A d \in Devices : d \in gone \/ Closed(x, d) => Closed(z, d)

LEMMA RetireKeeps ==
    ASSUME NEW x, Session(x), NEW gone, gone \subseteq x.devices, NEW made \in SUBSET Devices
    PROVE  Renewed(x, Rebuilt(x, gone, made), gone, made)
<1> DEFINE p == x.pending \ gone
           f == x.failures \ gone
           o == x.overtaken \ gone
           k == x.devices \ gone
           v == [d \in Devices |-> IF d \in gone THEN IdleDriver ELSE x.driver[d]]
           a == [d \in Devices |-> IF d \in gone THEN "none" ELSE x.attempt[d]]
           y == Retire(x, gone)
           s == k \cup made
           w == [y EXCEPT !.devices = s]
           z == Notify(w)
<1>1. y = [x EXCEPT !.pending = p, !.failures = f, !.overtaken = o, !.devices = k,
                    !.driver = v, !.attempt = a]
  BY DEF Retire
<1>2. Shape(x) /\ Fields(x)
  BY DEF Session, Shape
<1>3. /\ v \in [Devices -> DriverType] /\ a \in [Devices -> Results]
      /\ \A d \in Devices :
            /\ d \in gone => v[d] = IdleDriver /\ a[d] = "none"
            /\ d \notin gone => v[d] = x.driver[d] /\ a[d] = x.attempt[d]
  BY <1>2, IdleDriverIdle DEF Shape, Results
<1>4. \A d \in Devices :
         /\ d \in gone => d \notin p /\ d \notin f /\ d \notin o
         /\ d \notin gone => /\ d \in p <=> d \in x.pending
                             /\ d \in f <=> d \in x.failures
                             /\ d \in o <=> d \in x.overtaken
  OBVIOUS
<1>5. s \subseteq Devices /\ f \subseteq Devices
      /\ \A d \in Devices : d \notin s => d \notin x.devices \/ d \in gone
  BY <1>2 DEF Shape
<1>6. w = [y EXCEPT !.devices = s]
  OBVIOUS
<1>16. s = (x.devices \ gone) \cup made
  OBVIOUS
<1>17. Rebuilt(x, gone, made) = z
  <2>1. [y EXCEPT !.devices = @ \cup made] = w
    BY <1>1, <1>2 DEF Fields
  <2> HIDE DEF w
  <2> QED BY <2>1, Zenon DEF Rebuilt
<1> HIDE DEF p, f, o, k, v, a, s, y, w
<1>7. /\ Same(x, y, {"pending", "failures", "overtaken", "devices", "driver", "attempt"})
      /\ y.pending = p /\ y.failures = f /\ y.overtaken = o /\ y.driver = v /\ y.attempt = a
      /\ y.devices = k
  BY <1>1, <1>2 DEF Fields, Same
<1>8. Same(y, w, {"devices"}) /\ w.devices = s
  BY <1>6, <1>7 DEF Fields, Same
<1>9. Shape(w)
  BY <1>2, <1>3, <1>5, <1>7, <1>8 DEF Shape, Same
<1>10. Alike(w, z) /\ Told(z)
  BY <1>9, NotifyTells
<1> HIDE DEF z
<1>11. /\ z.pending = p /\ z.failures = f /\ z.overtaken = o /\ z.driver = v /\ z.attempt = a
       /\ z.devices = s /\ z.mode = x.mode /\ z.closeRequested = x.closeRequested /\ Shape(z)
  BY <1>7, <1>8, <1>10 DEF Same, Alike
<1>12. ASSUME NEW d \in Devices PROVE DeviceInv(z, d)
  <2>1. CASE d \in gone
    BY <1>3, <1>4, <1>11, <2>1, IdleDriverIdle DEF DeviceInv
  <2>2. CASE d \notin gone
    <3>1. DeviceInv(x, d)
      BY DEF Session
    <3> QED BY <1>3, <1>4, <1>5, <1>11, <2>2, <3>1 DEF DeviceInv
  <2> QED BY <2>1, <2>2
<1>13. ASSUME NEW d \in Devices, d \in gone \/ Closed(x, d) PROVE Closed(z, d)
  BY <1>3, <1>11, <1>13, IdleDriverIdle DEF Closed
<1> QED BY <1>10, <1>11, <1>12, <1>13, <1>16, <1>17 DEF Session, Renewed
-----------------------------------------------------------------------------
(* What was closed *)

(* An event of a device that is not closed, or stays closed, opens nothing that
   the user closed. *)
LEMMA ClosedInvKept ==
    ASSUME NEW x, Session(x), NEW y, NEW d \in Devices, Only(x, y, d), NEW queue,
           ClosedInv(x, RebuildDue(queue)), Closed(x, d) => Closed(y, d)
    PROVE  ClosedInv(y, RebuildDue(queue))
<1>1. \A e \in Devices : Closed(x, e) => Closed(y, e)
  BY DEF Only, Closed
<1> QED BY <1>1, Constants DEF ClosedInv, Only

(* A disconnect closes what it has to. *)
LEMMA ShutIsClosed ==
    ASSUME NEW x, Session(x), NEW y, Shut(x, y, Reached(x)), NEW queue,
           ClosedInv(x, RebuildDue(queue))
    PROVE  ClosedInv(y, RebuildDue(queue))
<1>1. 0 \in Reached(x)
  BY Constants DEF Reached
<1>2. Closed(y, 0)
  BY <1>1, Constants DEF Shut
<1>3. ASSUME NEW d \in Devices, ~RebuildDue(queue) PROVE Closed(y, d)
  <2>1. CASE x.mode = "project"
    BY <2>1 DEF Reached, Shut
  <2>2. CASE x.mode # "project"
    <3>1. d \in Reached(x) \/ d \notin x.devices
      BY <1>1, <1>3, <2>2 DEF ClosedInv
    <3>2. d \notin x.devices => Closed(x, d)
      BY DEF Session, DeviceInv, Closed
    <3> QED BY <3>1, <3>2 DEF Shut
  <2> QED BY <2>1, <2>2
<1> QED BY <1>2, <1>3 DEF ClosedInv, Shut

-----------------------------------------------------------------------------
(* The actions *)

Queue == Seq({"rebuild", "bus", "reconnect"})

(* Only a rebuild that is served ends one that is due. *)
LEMMA ServedOther ==
    ASSUME posted \in Queue, NEW call, Serve(call), posted' = Tail(posted)
    PROVE  posted' \in Queue /\ (call # "rebuild" => RebuildDue(posted') = RebuildDue(posted))
<1>1. /\ posted # <<>> /\ posted[1] = call /\ Tail(posted) \in Queue
      /\ Len(posted) \in Nat /\ Len(posted) > 0
  BY DEF Serve, Queue
<1>2. Len(Tail(posted)) = Len(posted) - 1 /\ \A i \in 1..Len(posted) - 1 : Tail(posted)[i] = posted[i + 1]
  BY <1>1 DEF Queue
<1>3. ASSUME call # "rebuild", RebuildDue(Tail(posted)) PROVE RebuildDue(posted)
  <2>1. PICK i \in 1..Len(Tail(posted)) : Tail(posted)[i] = "rebuild"
    BY <1>3 DEF RebuildDue, Contains
  <2>2. i + 1 \in 1..Len(posted) /\ posted[i + 1] = "rebuild"
    BY <1>1, <1>2, <2>1
  <2> QED BY <2>2 DEF RebuildDue, Contains
<1>4. ASSUME call # "rebuild", RebuildDue(posted) PROVE RebuildDue(Tail(posted))
  <2>1. PICK i \in 1..Len(posted) : posted[i] = "rebuild"
    BY <1>4 DEF RebuildDue, Contains
  <2>2. i # 1
    BY <1>1, <1>4, <2>1
  <2>3. i - 1 \in 1..Len(Tail(posted)) /\ i - 1 \in 1..Len(posted) - 1 /\ (i - 1) + 1 = i
    BY <1>1, <1>2, <2>2
  <2>4. Tail(posted)[i - 1] = "rebuild"
    BY <1>2, <2>1, <2>3
  <2> QED BY <2>3, <2>4 DEF RebuildDue, Contains
<1>5. call # "rebuild" => (RebuildDue(Tail(posted)) <=> RebuildDue(posted))
  BY <1>3, <1>4
<1>6. call # "rebuild" => RebuildDue(Tail(posted)) = RebuildDue(posted)
  BY <1>5, Zenon DEF RebuildDue, Contains
<1> QED BY <1>1, <1>6

LEMMA ConnectKeeps ==
    ASSUME IInv, io' \in Connect(io), posted' \in Queue, RebuildDue(posted') = RebuildDue(posted)
    PROVE  IInv'
<1>1. /\ Session(io') /\ io'.closeRequested = FALSE /\ io'.mode = io.mode
      /\ io'.devices = io.devices /\ (Told(io) => Told(io'))
  BY ConnectReopens DEF IInv
<1>2. ClosedInv(io', RebuildDue(posted'))
  BY <1>1 DEF IInv, ClosedInv
<1> QED BY <1>1, <1>2 DEF IInv, Queue

LEMMA DisconnectKeeps ==
    ASSUME IInv, io' = Disconnect(io), UNCHANGED posted
    PROVE  IInv'
<1>1. Shut(io, io', Reached(io))
  BY DisconnectClosesAll DEF IInv
<1>2. ClosedInv(io', RebuildDue(posted))
  BY <1>1, ShutIsClosed DEF IInv
<1> QED BY <1>1, <1>2 DEF IInv, Shut

(* An event of one device *)
LEMMA DeviceKeeps ==
    ASSUME IInv, NEW d \in Devices, Keeps(io, io', d), UNCHANGED posted
    PROVE  IInv'
<1>1. ClosedInv(io', RebuildDue(posted))
  BY ClosedInvKept DEF IInv, Keeps
<1> QED BY <1>1 DEF IInv, Keeps

LEMMA HearKeeps ==
    ASSUME IInv, NEW d \in Devices, NEW results, Hear(d, results),
           \A r \in results : Follows(io.driver[d].dial, r)
    PROVE  IInv'
<1>1. PICK r \in results : io' = DialGoesOn(io, d, r)
  BY DEF Hear
<1>2. Keeps(io, io', d)
  BY <1>1, DialGoesOnKeeps DEF IInv
<1> QED BY <1>2, DeviceKeeps DEF Hear

LEMMA NetworkKeeps ==
    ASSUME IInv, NEW d \in Devices,
           \/ LookupAnswers(d) \/ LateAnswer(d) \/ ProbeAnswers(d)
           \/ PaceElapses(d) \/ SocketAnswers(d) \/ DeadlineReached(d)
    PROVE  IInv'
<1> DEFINE x == io.driver[d].dial
<1>1. x \in DialType
  BY DEF IInv, Session, Shape, DriverType
<1>2. \A n \in 0..MaxAddresses : n \in Nat
  BY Constants
<1>3. CASE LookupAnswers(d)
  <2>1. PICK n \in 0..MaxAddresses : Hear(d, OnLookupFinished(x, TRUE, n))
    BY <1>3 DEF LookupAnswers
  <2> HIDE DEF x
  <2>2. \A r \in OnLookupFinished(x, TRUE, n) : Follows(x, r)
    BY <1>1, <1>2, LookupFollows
  <2> QED BY <2>1, <2>2, HearKeeps DEF x
<1>4. CASE LateAnswer(d)
  <2>1. x.late > 0
    BY <1>4 DEF LateAnswer
  <2>2. \/ Hear(d, {LookupAborted(x)})
        \/ \E n \in 0..MaxAddresses : Hear(d, OnLookupFinished(x, FALSE, n))
    BY <1>4 DEF LateAnswer
  <2> HIDE DEF x
  <2>3. CASE Hear(d, {LookupAborted(x)})
    <3>1. \A r \in {LookupAborted(x)} : Follows(x, r)
      BY <1>1, <2>1, EventFollows
    <3> QED BY <2>3, <3>1, HearKeeps DEF x
  <2>4. CASE \E n \in 0..MaxAddresses : Hear(d, OnLookupFinished(x, FALSE, n))
    <3>1. PICK n \in 0..MaxAddresses : Hear(d, OnLookupFinished(x, FALSE, n))
      BY <2>4
    <3>2. \A r \in OnLookupFinished(x, FALSE, n) : Follows(x, r)
      BY <1>1, <1>2, <2>1, LookupFollows
    <3> QED BY <3>1, <3>2, HearKeeps DEF x
  <2> QED BY <2>2, <2>3, <2>4
<1>5. CASE ProbeAnswers(d)
  <2>1. \/ Hear(d, OnProbeConnected(x))
        \/ \E refusal \in BOOLEAN : Hear(d, OnProbeError(x, refusal))
    BY <1>5, Zenon DEF ProbeAnswers
  <2> HIDE DEF x
  <2>2. CASE Hear(d, OnProbeConnected(x))
    <3>1. \A r \in OnProbeConnected(x) : Follows(x, r)
      BY <1>1, EventFollows
    <3> QED BY <2>2, <3>1, HearKeeps DEF x
  <2>3. CASE \E refusal \in BOOLEAN : Hear(d, OnProbeError(x, refusal))
    <3>1. PICK refusal \in BOOLEAN : Hear(d, OnProbeError(x, refusal))
      BY <2>3
    <3>2. \A r \in OnProbeError(x, refusal) : Follows(x, r)
      BY <1>1, EventFollows
    <3> QED BY <3>1, <3>2, HearKeeps DEF x
  <2> QED BY <2>1, <2>2, <2>3
<1>6. CASE PaceElapses(d)
  <2>1. Hear(d, OnPaceElapsed(x))
    BY <1>6 DEF PaceElapses
  <2> HIDE DEF x
  <2>2. \A r \in OnPaceElapsed(x) : Follows(x, r)
    BY <1>1, EventFollows
  <2> QED BY <2>1, <2>2, HearKeeps DEF x
<1>7. CASE SocketAnswers(d)
  <2>1. Hear(d, OnSocketConnected(x)) \/ Hear(d, OnSocketError(x))
    BY <1>7 DEF SocketAnswers
  <2> HIDE DEF x
  <2>2. \A r \in OnSocketConnected(x) \cup OnSocketError(x) : Follows(x, r)
    BY <1>1, EventFollows
  <2> QED BY <2>1, <2>2, HearKeeps DEF x
<1>8. CASE DeadlineReached(d)
  <2>1. Hear(d, OnDeadlineReached(x))
    BY <1>8 DEF DeadlineReached
  <2> HIDE DEF x
  <2>2. \A r \in OnDeadlineReached(x) : Follows(x, r)
    BY <1>1, EventFollows
  <2> QED BY <2>1, <2>2, HearKeeps DEF x
<1> QED BY <1>3, <1>4, <1>5, <1>6, <1>7, <1>8
(* Who raises the wait for the port again is down, and the rest is unchanged. *)
LEMMA RecoverKeeps ==
    ASSUME NEW x, Session(x), NEW d \in Devices, d \in x.devices, NEW b \in BOOLEAN
    PROVE  LET y == WithDriver(x, d, [x.driver[d] EXCEPT !.recover = b])
           IN Session(y) /\ Only(x, y, d) /\ (Told(x) => Told(y))
<1> DEFINE v == [x.driver[d] EXCEPT !.recover = b]
           y == WithDriver(x, d, v)
<1>1. Shape(x) /\ DeviceInv(x, d)
  BY DEF Session
<1>2. /\ v \in DriverType /\ v.connecting = x.driver[d].connecting /\ v.up = x.driver[d].up
      /\ v.armed = x.driver[d].armed /\ v.dial = x.driver[d].dial
  BY <1>1 DEF Shape, DriverType
<1> HIDE DEF v
<1>3. Only(x, y, d) /\ Same(x, y, {"driver"}) /\ y.driver[d] = v
  BY <1>1, <1>2, DriverReplaced
<1> HIDE DEF y
<1>4. DeviceInv(y, d)
  BY <1>1, <1>2, <1>3 DEF DeviceInv, Same
<1>5. Session(y)
  BY <1>3, <1>4, OnlySession
<1>6. \A e \in Devices : y.driver[e].up = x.driver[e].up
                         /\ y.driver[e].connecting = x.driver[e].connecting
  BY <1>2, <1>3 DEF Only
<1>7. Links(y) = Links(x)
  BY <1>1, <1>3, <1>6, LinksEqual DEF IsOpen, Dials, Same, Shape
<1> QED BY <1>3, <1>5, <1>7 DEF Told, Same, y, v

LEMMA LinkErrorKeeps ==
    ASSUME IInv, NEW d \in Devices, LinkError(d)
    PROVE  IInv'
<1> DEFINE z == DropDevice(io, d)
<1>1. PICK wait \in BOOLEAN : io' = [z EXCEPT !.driver[d].recover = wait]
  BY DEF LinkError
<1>2. Session(io) /\ ClosedInv(io, RebuildDue(posted)) /\ ~Closed(io, d) /\ d \in io.devices
  BY DEF IInv, LinkError, Closed, Session, DeviceInv
<1>3. Shut(io, z, {d}) /\ Only(io, z, d)
  BY <1>2, DropShuts
<1>4. io' = WithDriver(z, d, [z.driver[d] EXCEPT !.recover = wait])
  BY <1>1 DEF WithDriver
<1> HIDE DEF z
<1>5. Session(z) /\ Told(z) /\ d \in z.devices
  BY <1>2, <1>3 DEF Shut
<1>6. Session(io') /\ Only(z, io', d) /\ Told(io')
  BY <1>4, <1>5, RecoverKeeps
<1>7. Only(io, io', d)
  BY <1>3, <1>6, OnlyTransitive
<1>8. ClosedInv(io', RebuildDue(posted))
  BY <1>2, <1>7, ClosedInvKept
<1> QED BY <1>6, <1>8 DEF IInv, LinkError

LEMMA PortReturnsKeeps ==
    ASSUME IInv, NEW d \in Devices, PortReturns(d)
    PROVE  IInv'
<1> DEFINE w == WithDriver(io, d, [io.driver[d] EXCEPT !.recover = FALSE])
<1>1. io' \in OpenDevice(w, d)
  BY DEF PortReturns, WithDriver
<1>2. Session(io) /\ ClosedInv(io, RebuildDue(posted)) /\ ~Closed(io, d) /\ d \in io.devices
  BY DEF IInv, PortReturns, Closed, Session, DeviceInv
<1>3. Session(w) /\ Only(io, w, d)
  BY <1>2, RecoverKeeps
<1> HIDE DEF w
<1>4. Opened(w, io', d)
  BY <1>1, <1>3, OpenDeviceOpens
<1>5. Session(io') /\ Only(io, io', d) /\ Told(io')
  BY <1>2, <1>3, <1>4, OnlyTransitive DEF Opened, Only
<1>6. ClosedInv(io', RebuildDue(posted))
  BY <1>2, <1>5, ClosedInvKept
<1> QED BY <1>5, <1>6 DEF IInv, PortReturns

(* After a rebuild what was told is so, and what was closed is closed, whatever
   else is posted. *)
LEMMA RebuildKeeps ==
    ASSUME NEW x, Session(x), x.closeRequested => Closed(x, 0), NEW queue \in Queue,
           Rebuild(x, queue)
    PROVE  IInv'
<1>1. PICK primary \in BOOLEAN : RebuildDevices(x, queue, primary)
  BY DEF Rebuild
<1> DEFINE gone == Retired(x, primary)
           made == IF x.mode # "project" THEN {} ELSE IF primary THEN x.sources ELSE x.sources \ {0}
<1>2. io' = Rebuilt(x, gone, made)
  BY <1>1, Zenon DEF RebuildDevices, Rebuilt
<1>3. posted' \in Queue
  <2> DEFINE a == IF x.mode = "project" THEN <<>> ELSE <<"bus">>
             b == IF IsConnected(x) THEN <<"reconnect">> ELSE <<>>
  <2>1. posted' = queue \o a \o b
    BY <1>1, Zenon DEF RebuildDevices
  <2>2. <<>> \in Queue /\ <<"bus">> \in Queue /\ <<"reconnect">> \in Queue
    BY DEF Queue
  <2>3. a \in Queue /\ b \in Queue
    BY <2>2
  <2> HIDE DEF a, b
  <2> QED BY <2>1, <2>3 DEF Queue
<1>4. Shape(x)
  BY DEF Session
<1>5. gone \subseteq x.devices /\ made \in SUBSET Devices
  BY <1>4 DEF Retired, Shape
<1>6. \A d \in Devices \ {0} : d \in gone \/ d \notin x.devices
  BY DEF Retired
<1>7. x.mode # "project" => (x.devices \ gone) \cup made \subseteq {0}
  BY DEF Retired
<1> HIDE DEF gone, made
<1>8. /\ Session(io') /\ Told(io')
      /\ io'.mode = x.mode /\ io'.closeRequested = x.closeRequested
      /\ io'.devices = (x.devices \ gone) \cup made
      /\ \A d \in Devices : d \in gone \/ Closed(x, d) => Closed(io', d)
  <2>1. Renewed(x, io', gone, made)
    BY <1>2, <1>5, RetireKeeps
  <2> QED BY <2>1 DEF Renewed
<1>9. \A d \in Devices : d \notin x.devices => Closed(x, d)
  BY DEF Session, DeviceInv, Closed
<1>10. ASSUME x.closeRequested, NEW d \in Devices PROVE Closed(io', d)
  BY <1>6, <1>8, <1>9, <1>10
<1>11. ClosedInv(io', RebuildDue(posted'))
  BY <1>7, <1>8, <1>10, Constants DEF ClosedInv
<1> QED BY <1>3, <1>8, <1>11 DEF IInv, Queue

LEMMA EditProjectKeeps ==
    ASSUME IInv, EditProject
    PROVE  IInv'
<1>1. PICK s \in SUBSET Devices : Rebuild([io EXCEPT !.sources = s], posted)
  BY DEF EditProject
<1> DEFINE x == [io EXCEPT !.sources = s]
<1>2. x = [io EXCEPT !.sources = s]
  OBVIOUS
<1>3. Rebuild(x, posted)
  BY <1>1, Zenon
<1> HIDE DEF x
<1>4. Shape(io) /\ Fields(io)
  BY DEF IInv, Session, Shape
<1>5. Same(io, x, {"sources"}) /\ x.sources = s
  BY <1>2, <1>4 DEF Fields, Same
<1>6. Shape(x)
  BY <1>4, <1>5 DEF Shape, Same
<1>7. ASSUME NEW d \in Devices PROVE DeviceInv(x, d)
  BY <1>5 DEF IInv, Session, DeviceInv, Same
<1>8. x.closeRequested => Closed(x, 0)
  BY <1>5 DEF IInv, ClosedInv, Closed, Same
<1>9. posted \in Queue
  BY DEF IInv, Queue
<1> QED BY <1>3, <1>6, <1>7, <1>8, <1>9, RebuildKeeps DEF Session

LEMMA SwitchModeKeeps ==
    ASSUME IInv, SwitchMode
    PROVE  IInv'
<1> DEFINE m == IF io.mode = "project" THEN "quick" ELSE "project"
<1>1. io' = [io EXCEPT !.mode = m]
  BY DEF SwitchMode
<1> HIDE DEF m
<1>2. Shape(io) /\ Fields(io) /\ posted \in Queue
  BY DEF IInv, Session, Shape, Queue
<1>3. Same(io, io', {"mode"})
  BY <1>1, <1>2 DEF Fields, Same
<1>4. Shape(io')
  BY <1>2, <1>3 DEF Shape, Same
<1>5. ASSUME NEW d \in Devices PROVE DeviceInv(io', d)
  BY <1>3 DEF IInv, Session, DeviceInv, Same
<1>6. posted' \in Queue /\ RebuildDue(posted')
  <2>1. posted' = Append(posted, "rebuild")
    BY DEF SwitchMode
  <2>2. /\ posted' \in Queue /\ Len(posted') = Len(posted) + 1
        /\ posted'[Len(posted) + 1] = "rebuild" /\ Len(posted) \in Nat
    BY <1>2, <2>1 DEF Queue
  <2>3. Len(posted) + 1 \in 1..Len(posted')
    BY <2>2
  <2> QED BY <2>2, <2>3 DEF RebuildDue, Contains
<1>7. ClosedInv(io', RebuildDue(posted'))
  BY <1>3, <1>6 DEF IInv, ClosedInv, Closed, Same
<1> QED BY <1>4, <1>5, <1>6, <1>7 DEF IInv, Session, Queue

LEMMA BusKeeps ==
    ASSUME IInv, io' \in SetBusType(io), posted' \in Queue,
           RebuildDue(posted') = RebuildDue(posted)
    PROVE  IInv'
<1>1. /\ Session(io') /\ (Told(io) => Told(io'))
      /\ io'.mode = io.mode /\ io'.closeRequested = io.closeRequested
      /\ io'.devices \subseteq io.devices \cup {0}
      /\ \A d \in Devices : Closed(io, d) => Closed(io', d)
  BY BusReplaced DEF IInv
<1>2. ClosedInv(io', RebuildDue(posted'))
  BY <1>1, Constants DEF IInv, ClosedInv
<1> QED BY <1>1, <1>2 DEF IInv, Queue

LEMMA NextKeeps ==
    ASSUME IInv, [Next]_vars
    PROVE  IInv'
<1>1. posted \in Queue
  BY DEF IInv, Queue
<1>2. UNCHANGED posted => posted' \in Queue /\ RebuildDue(posted') = RebuildDue(posted)
  BY <1>1
<1>3. CASE UNCHANGED vars
  BY <1>3 DEF vars, IInv
<1>4. CASE ToggleConnection
  BY <1>2, <1>4, ConnectKeeps, DisconnectKeeps DEF ToggleConnection
<1>5. CASE ConnectCommand
  BY <1>2, <1>5, ConnectKeeps DEF ConnectCommand
<1>6. CASE DisconnectRequested
  BY <1>6, DisconnectKeeps DEF DisconnectRequested
<1>7. CASE EditProject
  BY <1>7, EditProjectKeeps
<1>8. CASE SwitchMode
  BY <1>8, SwitchModeKeeps
<1>9. CASE ChooseBus
  BY <1>2, <1>9, BusKeeps DEF ChooseBus
<1>10. CASE RebuildPosted
  <2>1. Tail(posted) \in Queue
    BY <1>1, <1>10 DEF RebuildPosted, Serve, Queue
  <2> QED BY <1>10, <2>1, RebuildKeeps DEF RebuildPosted, IInv, ClosedInv
<1>11. CASE RestoreBus
  BY <1>1, <1>11, ServedOther, BusKeeps DEF RestoreBus
<1>12. CASE Reconnect
  <2>1. posted' \in Queue /\ RebuildDue(posted') = RebuildDue(posted)
    BY <1>1, <1>12, ServedOther DEF Reconnect
  <2>2. CASE IsConnected(io)
    <3>1. io' = io
      BY <1>12, <2>2 DEF Reconnect
    <3> QED BY <2>1, <3>1 DEF IInv, Queue
  <2>3. CASE ~IsConnected(io)
    <3>1. io' \in Connect(io)
      BY <1>12, <2>3 DEF Reconnect
    <3> QED BY <2>1, <3>1, ConnectKeeps
  <2> QED BY <2>2, <2>3
<1>13. ASSUME NEW d \in Devices, LinkError(d) PROVE IInv'
  BY <1>13, LinkErrorKeeps
<1>14. ASSUME NEW d \in Devices, PortReturns(d) PROVE IInv'
  BY <1>14, PortReturnsKeeps
<1>15. ASSUME NEW d \in Devices,
              \/ LookupAnswers(d) \/ LateAnswer(d) \/ ProbeAnswers(d)
              \/ PaceElapses(d) \/ SocketAnswers(d) \/ DeadlineReached(d)
       PROVE  IInv'
  BY <1>15, NetworkKeeps
<1> QED
  BY <1>3, <1>4, <1>5, <1>6, <1>7, <1>8, <1>9, <1>10, <1>11, <1>12, <1>13, <1>14, <1>15 DEF Next
LEMMA InitHolds ==
    ASSUME Init
    PROVE  IInv
<1> DEFINE v == [d \in Devices |-> IdleDriver]
           a == [d \in Devices |-> "none"]
           t == [connected |-> FALSE, connecting |-> FALSE, count |-> 0]
<1>1. io = [mode |-> "project", sources |-> Devices, devices |-> Devices, driver |-> v,
            pending |-> {}, failures |-> {}, closeRequested |-> FALSE, told |-> t,
            attempt |-> a, overtaken |-> {}]
  BY Zenon DEF Init
<1>2. /\ v \in [Devices -> DriverType] /\ a \in [Devices -> Results]
      /\ \A d \in Devices : v[d] = IdleDriver /\ a[d] = "none"
  BY IdleDriverIdle DEF Results
<1> HIDE DEF v, a, t
<1>3. Fields(io)
  BY <1>1 DEF Fields
<1>4. /\ io.sources = Devices /\ io.devices = Devices /\ io.driver = v /\ io.attempt = a
      /\ io.pending = {} /\ io.failures = {} /\ io.closeRequested = FALSE /\ io.told = t
      /\ io.overtaken = {} /\ io.mode = "project"
  BY <1>1
<1>5. Shape(io)
  BY <1>2, <1>3, <1>4 DEF Shape
<1>6. ASSUME NEW d \in Devices PROVE DeviceInv(io, d)
  BY <1>2, <1>4, IdleDriverIdle DEF DeviceInv
<1>7. Told(io)
  <2>1. ASSUME NEW d \in Devices PROVE ~IsOpen(io, d) /\ ~Dials(io, d)
    BY <1>2, <1>4, IdleDriverIdle DEF IsOpen, Dials
  <2>2. {d \in Devices : IsOpen(io, d)} = {}
    BY <2>1
  <2>3. Cardinality({d \in Devices : IsOpen(io, d)}) = 0
    BY <2>2, FS_EmptySet
  <2>4. ~IsConnected(io)
    BY <2>1, Constants DEF IsConnected
  <2>5. ~IsConnecting(io)
    BY <1>4, <2>1 DEF IsConnecting, Dials
  <2>6. IsConnected(io) = FALSE
    BY <1>4, <2>4, Zenon DEF IsConnected
  <2>7. IsConnecting(io) = FALSE
    BY <2>5, Zenon DEF IsConnecting
  <2> QED BY <1>4, <2>3, <2>6, <2>7 DEF Told, Links, t
<1>8. posted \in Queue
  BY DEF Init, Queue
<1>9. ClosedInv(io, RebuildDue(posted))
  BY <1>4 DEF ClosedInv
<1> QED BY <1>5, <1>6, <1>7, <1>8, <1>9 DEF IInv, Session, Queue

-----------------------------------------------------------------------------
(* The invariant holds in every state the manager can reach. *)
THEOREM InvariantHolds == Spec => []IInv
<1>1. Init => IInv
  BY InitHolds
<1>2. IInv /\ [Next]_vars => IInv'
  BY NextKeeps
<1> QED BY <1>1, <1>2, PTL DEF Spec

(* An open of a device is answered once, whatever opens, closes, rebuilds or
   overtakes it.  (onDeviceOpenFinished) *)
THEOREM OneVerdict == Spec => []OneVerdictPerAttempt
<1>1. IInv => OneVerdictPerAttempt
  <2> SUFFICES ASSUME IInv, NEW d \in Devices
               PROVE  /\ io.attempt[d] = "twice" => d \in io.overtaken
                      /\ io.attempt[d] = "open" <=> io.driver[d].connecting
    BY DEF OneVerdictPerAttempt
  <2> QED BY DEF IInv, Session, DeviceInv
<1> QED BY <1>1, InvariantHolds, PTL

(* The button never hangs: who says "connecting" has a dial that runs, a latch
   that lets its report through and a manager that waits for it.
   (reportOpenFinished, takePendingDial) *)
THEOREM AnswerComes == Spec => []ConnectingMeansAnswerComes
<1>1. IInv => ConnectingMeansAnswerComes
  <2> SUFFICES ASSUME IInv, NEW d \in Devices
               PROVE  LET x == io.driver[d]
                      IN /\ x.connecting <=> x.dial.active
                         /\ x.connecting => x.armed /\ d \in io.pending
                         /\ d \in io.pending => x.connecting \/ d \in io.overtaken
    BY DEF ConnectingMeansAnswerComes
  <2> QED BY DEF IInv, Session, DeviceInv
<1> QED BY <1>1, InvariantHolds, PTL

(* What the program was told is so outside a change of mode, and a failure that
   is shown is that of the device's last open.  (notifyConnectedStateChanged) *)
THEOREM Truthful == Spec => []ToldIsTrue
<1>1. IInv => ToldIsTrue
  <2>1. ASSUME IInv, NEW d \in io.failures \ {0}
        PROVE  io.attempt[d] \in {"failed", "twice"}
    <3>1. d \in Devices
      BY <2>1 DEF IInv, Session, Shape
    <3> QED BY <2>1, <3>1 DEF IInv, Session, DeviceInv
  <2> QED BY <2>1 DEF IInv, ToldIsTrue, RebuildDue, Told
<1> QED BY <1>1, InvariantHolds, PTL

(* What the user closed stays closed until something connects again.
   (disconnectDevice, lastCloseRequested) *)
THEOREM StaysClosed == Spec => []ClosedStaysClosed
<1>1. IInv => ClosedStaysClosed
  BY DEF IInv, ClosedInv, Closed, RebuildDue, ClosedStaysClosed
<1> QED BY <1>1, InvariantHolds, PTL
================================================================================
