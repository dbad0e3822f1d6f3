-------------------------- MODULE PipelineHostProofs --------------------------
(***************************************************************************)
(* Theorems about the calls between the two threads, for any number of     *)
(* edits, calls, commands, chunks and readers.                             *)
(***************************************************************************)
EXTENDS PipelineHost, SequenceTheorems, TLAPS

-----------------------------------------------------------------------------
(* Types *)

Ops == {"sync", "ask", "command", "quit", ""}

FrameType ==
    [op : Ops, call : Nat, snap : Nat,
     pc : {"check", "marshal", "wait", "abandon", "recursing", "run", "wake", "disconnect", "join"}]

EventType ==
    [kind : {"dispatch", "sync", "apply", "chunk", "delete"}, n : Nat, op : Ops, snap : Nat]

GuiType ==
    [stack : Seq(FrameType), queue : Seq({"sync", "collect", "command"}), exiting : BOOLEAN,
     inFlight : BOOLEAN, pending : BOOLEAN, deferred : Nat]

PipeType ==
    [pc : {"idle", "gate", "ask", "blocked", "answered", "apply", "script", "hung", "parking",
           "parked"},
     queue : Seq(EventType), held : Nat, reader : Nat, snap : Nat, applied : Nat, lost : Nat]

TypeInv ==
    /\ project \in Nat
    /\ gui \in GuiType
    /\ pipe \in PipeType
    /\ calls \in [made : Nat, waiting : SUBSET Nat, woken : SUBSET Nat]
    /\ flags \in [parked : BOOLEAN, tearing : BOOLEAN, abandoned : BOOLEAN,
                  thread : {"running", "quitting", "finished"}]
    /\ readers \in [current : Nat, made : Nat, freed : SUBSET Nat]
    /\ left \in [edits : Nat, asks : Nat, commands : Nat, chunks : Nat, readers : Nat,
                 hang : BOOLEAN, quit : {"none", "engine", "direct"}]

-----------------------------------------------------------------------------
(* What the operations on the stack of calls do. *)

(* The innermost call of a type-correct stack. *)
LEMMA TopIsLast ==
    ASSUME TypeInv
    PROVE  /\ gui.stack \in Seq(FrameType) /\ Len(gui.stack) \in Nat
           /\ Top.pc # "idle" => /\ gui.stack # <<>> /\ Len(gui.stack) > 0
                                 /\ Top = gui.stack[Len(gui.stack)]
                                 /\ Top \in FrameType
<1>1. gui.stack \in Seq(FrameType)
  BY DEF TypeInv, GuiType
<1>2. CASE gui.stack = <<>>
  <2>1. Top.pc = "idle"
    BY <1>2 DEF Top, Frame
  <2> QED BY <1>1, <2>1
<1>3. CASE gui.stack # <<>>
  BY <1>1, <1>3 DEF Top, Last
<1> QED BY <1>2, <1>3

(* Two values that differ in their stacks only. *)
SameButStack(x, y) ==
    /\ x.queue = y.queue /\ x.exiting = y.exiting /\ x.inFlight = y.inFlight
    /\ x.pending = y.pending /\ x.deferred = y.deferred

(* A value of the GUI thread's state whose stack is replaced keeps its type. *)
LEMMA StackReplaced ==
    ASSUME NEW x \in GuiType, NEW s \in Seq(FrameType)
    PROVE  /\ [x EXCEPT !.stack = s] \in GuiType
           /\ [x EXCEPT !.stack = s].stack = s
           /\ SameButStack([x EXCEPT !.stack = s], x)
BY DEF GuiType, SameButStack

(* Entering a call leaves the outer ones as they are. *)
LEMMA PushShape ==
    ASSUME NEW x \in GuiType, NEW f \in FrameType
    PROVE  /\ Push(x, f) \in GuiType
           /\ SameButStack(Push(x, f), x)
           /\ Len(Push(x, f).stack) = Len(x.stack) + 1
           /\ \A i \in 1 .. Len(x.stack) : Push(x, f).stack[i] = x.stack[i]
           /\ Push(x, f).stack[Len(x.stack) + 1] = f
<1>1. x.stack \in Seq(FrameType)
  BY DEF GuiType
<1>2. Push(x, f) = [x EXCEPT !.stack = Append(x.stack, f)]
  BY DEF Push
<1> DEFINE s == Append(x.stack, f)
<1>3. /\ s \in Seq(FrameType) /\ Len(s) = Len(x.stack) + 1 /\ s[Len(x.stack) + 1] = f
      /\ \A i \in 1 .. Len(x.stack) : s[i] = x.stack[i]
  BY <1>1
<1> HIDE DEF s
<1> QED BY <1>2, <1>3, StackReplaced DEF s

(* So does leaving one. *)
LEMMA PopShape ==
    ASSUME TypeInv, gui.stack # <<>>
    PROVE  /\ Pop(gui) \in GuiType
           /\ SameButStack(Pop(gui), gui)
           /\ Len(Pop(gui).stack) = Len(gui.stack) - 1
           /\ \A i \in 1 .. Len(gui.stack) - 1 : Pop(gui).stack[i] = gui.stack[i]
<1>1. gui \in GuiType /\ gui.stack \in Seq(FrameType) /\ Len(gui.stack) > 0
  BY DEF TypeInv, GuiType
<1>2. /\ Front(gui.stack) \in Seq(FrameType)
      /\ Len(Front(gui.stack)) = Len(gui.stack) - 1
      /\ \A i \in 1 .. Len(gui.stack) - 1 : Front(gui.stack)[i] = gui.stack[i]
  BY <1>1 DEF Front
<1>3. Pop(gui) = [gui EXCEPT !.stack = Front(gui.stack)]
  BY DEF Pop
<1> QED BY <1>1, <1>2, <1>3, StackReplaced

(* Going on in the innermost call changes nothing but its place in the code. *)
LEMMA MoveShape ==
    ASSUME TypeInv, gui.stack # <<>>,
           NEW p \in {"check", "marshal", "wait", "abandon", "recursing", "run", "wake",
                      "disconnect", "join"}
    PROVE  /\ MoveTo(gui, p) \in GuiType
           /\ SameButStack(MoveTo(gui, p), gui)
           /\ Len(MoveTo(gui, p).stack) = Len(gui.stack)
           /\ \A i \in 1 .. Len(gui.stack) - 1 : MoveTo(gui, p).stack[i] = gui.stack[i]
           /\ MoveTo(gui, p).stack[Len(gui.stack)] = [gui.stack[Len(gui.stack)] EXCEPT !.pc = p]
<1>1. gui \in GuiType /\ gui.stack \in Seq(FrameType) /\ Len(gui.stack) \in 1 .. Len(gui.stack)
  BY DEF TypeInv, GuiType
<1>2. gui.stack[Len(gui.stack)] \in FrameType
  BY <1>1
<1>3. [gui.stack[Len(gui.stack)] EXCEPT !.pc = p] \in FrameType
  BY <1>2 DEF FrameType
<1> DEFINE s == [gui.stack EXCEPT ![Len(gui.stack)] = [gui.stack[Len(gui.stack)] EXCEPT !.pc = p]]
<1>4. /\ s \in Seq(FrameType) /\ Len(s) = Len(gui.stack)
      /\ \A i \in 1 .. Len(gui.stack) - 1 : s[i] = gui.stack[i]
      /\ s[Len(gui.stack)] = [gui.stack[Len(gui.stack)] EXCEPT !.pc = p]
  BY <1>1, <1>3
<1>5. MoveTo(gui, p) = [gui EXCEPT !.stack = s]
  BY <1>1, <1>2 DEF MoveTo
<1> HIDE DEF s
<1> QED BY <1>1, <1>4, <1>5, StackReplaced

(* The start of a sync either enters a call or leaves a note. *)
LEMMA StartShape ==
    ASSUME NEW x \in GuiType, NEW v \in Nat
    PROVE  /\ startSync(x, v) \in GuiType
           /\ startSync(x, v).queue = x.queue /\ startSync(x, v).exiting = x.exiting
           /\ startSync(x, v).deferred = x.deferred
           /\ \/ startSync(x, v).stack = x.stack
              \/ /\ Len(startSync(x, v).stack) = Len(x.stack) + 1
                 /\ \A i \in 1 .. Len(x.stack) : startSync(x, v).stack[i] = x.stack[i]
                 /\ startSync(x, v).stack[Len(x.stack) + 1] = Frame("sync", "check", v)
<1>1. CASE x.inFlight
  BY <1>1 DEF startSync, GuiType
<1>2. CASE ~x.inFlight
  <2> DEFINE y == [x EXCEPT !.inFlight = TRUE, !.pending = FALSE]
  <2>1. /\ y \in GuiType /\ y.stack = x.stack /\ y.queue = x.queue
        /\ y.exiting = x.exiting /\ y.deferred = x.deferred
    BY DEF GuiType
  <2>2. Frame("sync", "check", v) \in FrameType
    BY DEF Frame, FrameType, Ops, None
  <2>3. startSync(x, v) = Push(y, Frame("sync", "check", v))
    BY <1>2 DEF startSync
  <2> HIDE DEF y
  <2> DEFINE f == Frame("sync", "check", v)
             z == Push(y, f)
  <2>4. /\ z \in GuiType /\ SameButStack(z, y)
        /\ Len(z.stack) = Len(y.stack) + 1
        /\ \A i \in 1 .. Len(y.stack) : z.stack[i] = y.stack[i]
        /\ z.stack[Len(y.stack) + 1] = f
    BY <2>1, <2>2, PushShape
  <2>5. startSync(x, v) = z
    BY <2>3
  <2> HIDE DEF z, f
  <2> QED BY <2>1, <2>4, <2>5 DEF SameButStack, f
<1> QED BY <1>1, <1>2

(* A call that returns is left, or takes another turn. *)
LEMMA ReturnedShape ==
    ASSUME TypeInv, gui.stack # <<>>
    PROVE  /\ Returned(gui) \in GuiType
           /\ Returned(gui).queue = gui.queue /\ Returned(gui).exiting = gui.exiting
           /\ Returned(gui).deferred = gui.deferred
           /\ \A i \in 1 .. Len(gui.stack) - 1 : Returned(gui).stack[i] = gui.stack[i]
           /\ \/ Len(Returned(gui).stack) = Len(gui.stack) - 1
              \/ /\ Len(Returned(gui).stack) = Len(gui.stack)
                 /\ Returned(gui).stack[Len(gui.stack)].op = gui.stack[Len(gui.stack)].op
                 /\ Returned(gui).stack[Len(gui.stack)].call = gui.stack[Len(gui.stack)].call
                 /\ Returned(gui).stack[Len(gui.stack)].pc = "check"
<1>1. CASE Top.op # "sync"
  BY <1>1, PopShape DEF Returned, SameButStack
<1>2. CASE Top.op = "sync" /\ ~gui.pending
  <2>1. Returned(gui) = [Pop(gui) EXCEPT !.inFlight = FALSE]
    BY <1>2 DEF Returned, endSyncTurn
  <2> QED BY <2>1, PopShape DEF SameButStack, GuiType
<1>3. CASE Top.op = "sync" /\ gui.pending
  <2> DEFINE y == MoveTo(gui, "check")
             n == Len(gui.stack)
  <2>1. Returned(gui) = [y EXCEPT !.pending = FALSE, !.stack[n].snap = project]
    BY <1>3 DEF Returned, endSyncTurn
  <2>2. /\ y \in GuiType /\ SameButStack(y, gui) /\ Len(y.stack) = n
        /\ \A i \in 1 .. n - 1 : y.stack[i] = gui.stack[i]
        /\ y.stack[n] = [gui.stack[n] EXCEPT !.pc = "check"]
    BY MoveShape
  <2>3. n \in 1 .. Len(y.stack) /\ gui.stack[n] \in FrameType /\ project \in Nat
    BY <2>2 DEF TypeInv, GuiType
  <2> DEFINE f == [y.stack[n] EXCEPT !.snap = project]
             t == [y.stack EXCEPT ![n] = f]
  <2>4. f \in FrameType /\ f.pc = "check" /\ f.op = gui.stack[n].op /\ f.call = gui.stack[n].call
    BY <2>2, <2>3 DEF FrameType
  <2> HIDE DEF y, f
  <2>5. /\ t \in Seq(FrameType) /\ Len(t) = n /\ t[n] = f
        /\ \A i \in 1 .. n - 1 : t[i] = gui.stack[i]
    BY <2>2, <2>3, <2>4 DEF GuiType
  <2>6. Returned(gui) = [y EXCEPT !.pending = FALSE, !.stack = t]
    BY <2>1, <2>2 DEF GuiType, f
  <2> HIDE DEF t
  <2> DEFINE z == [y EXCEPT !.pending = FALSE, !.stack = t]
  <2>7. /\ z \in GuiType /\ z.stack = t
        /\ z.queue = gui.queue /\ z.exiting = gui.exiting /\ z.deferred = gui.deferred
    BY <2>2, <2>5 DEF GuiType, SameButStack
  <2> HIDE DEF z
  <2> QED BY <2>4, <2>5, <2>6, <2>7 DEF z
<1> QED BY <1>1, <1>2, <1>3

-----------------------------------------------------------------------------
(* The processing thread's queue *)

(* Posting appends one event. *)
LEMMA PostShape ==
    ASSUME TypeInv, NEW e \in EventType
    PROVE  /\ Post(e) \in PipeType
           /\ Post(e) = [pipe EXCEPT !.queue = Append(pipe.queue, e)]
           /\ Len(Post(e).queue) = Len(pipe.queue) + 1
           /\ \A i \in 1 .. Len(pipe.queue) : Post(e).queue[i] = pipe.queue[i]
           /\ Post(e).queue[Len(pipe.queue) + 1] = e
<1>1. pipe \in PipeType /\ pipe.queue \in Seq(EventType)
  BY DEF TypeInv, PipeType
<1> DEFINE q == Append(pipe.queue, e)
<1>2. /\ q \in Seq(EventType) /\ Len(q) = Len(pipe.queue) + 1 /\ q[Len(pipe.queue) + 1] = e
      /\ \A i \in 1 .. Len(pipe.queue) : q[i] = pipe.queue[i]
  BY <1>1
<1>3. Post(e) = [pipe EXCEPT !.queue = q]
  BY DEF Post
<1> HIDE DEF q
<1>4. [pipe EXCEPT !.queue = q] \in PipeType /\ [pipe EXCEPT !.queue = q].queue = q
  BY <1>1, <1>2 DEF PipeType
<1> QED BY <1>2, <1>3, <1>4 DEF q

(* Taking the first event shifts the others. *)
LEMMA TakeShape ==
    ASSUME TypeInv, pipe.queue # <<>>
    PROVE  /\ pipe.queue \in Seq(EventType) /\ Len(pipe.queue) > 0
           /\ Tail(pipe.queue) \in Seq(EventType)
           /\ Len(Tail(pipe.queue)) = Len(pipe.queue) - 1
           /\ \A i \in 1 .. Len(pipe.queue) - 1 : Tail(pipe.queue)[i] = pipe.queue[i + 1]
           /\ Head(pipe.queue) = pipe.queue[1] /\ Head(pipe.queue) \in EventType
           /\ [pipe EXCEPT !.queue = Tail(@)] \in PipeType
<1>1. pipe \in PipeType /\ pipe.queue \in Seq(EventType)
  BY DEF TypeInv, PipeType
<1>2. /\ Len(pipe.queue) > 0 /\ Tail(pipe.queue) \in Seq(EventType)
      /\ Len(Tail(pipe.queue)) = Len(pipe.queue) - 1
      /\ \A i \in 1 .. Len(pipe.queue) - 1 : Tail(pipe.queue)[i] = pipe.queue[i + 1]
      /\ Head(pipe.queue) = pipe.queue[1] /\ Head(pipe.queue) \in EventType
  BY <1>1
<1> QED BY <1>1, <1>2 DEF PipeType

(* A snapshot changes the version and its loss, nothing else. *)
LEMMA ApplyShape ==
    ASSUME NEW p \in PipeType, NEW v \in Nat, NEW owner \in BOOLEAN
    PROVE  LET q == applyProjectSnapshot(p, v, owner)
           IN  /\ q \in PipeType
               /\ q.pc = p.pc /\ q.queue = p.queue /\ q.held = p.held /\ q.reader = p.reader
               /\ ~owner => q.applied = p.applied
BY DEF applyProjectSnapshot, Newest, None, PipeType

(* Retiring a reader posts its deletion or nothing. *)
LEMMA RetireShape ==
    ASSUME TypeInv
    PROVE  /\ PipeAfterRetire \in PipeType
           /\ ReadersAfterRetire \in [current : Nat, made : Nat, freed : SUBSET Nat]
           /\ ReadersAfterRetire.current = None /\ ReadersAfterRetire.made = readers.made
           /\ retireReader = "post" =>
                 /\ PipeAfterRetire = Post(Event("delete", readers.current, "", None))
                 /\ Event("delete", readers.current, "", None) \in EventType
                 /\ ReadersAfterRetire.freed = readers.freed
                 /\ readers.current # None
           /\ retireReader # "post" => PipeAfterRetire = pipe
           /\ retireReader = "free" =>
                 /\ ReadersAfterRetire.freed = readers.freed \cup {readers.current}
                 /\ flags.thread = "finished" /\ readers.current # None
           /\ retireReader \notin {"post", "free"} =>
                 ReadersAfterRetire.freed = readers.freed
<1>1. readers \in [current : Nat, made : Nat, freed : SUBSET Nat] /\ pipe \in PipeType
  BY DEF TypeInv
<1>2. Event("delete", readers.current, "", None) \in EventType
  BY <1>1 DEF Event, EventType, Ops, None
<1>3. PipeAfterRetire \in PipeType
  BY <1>1, <1>2, PostShape DEF PipeAfterRetire
<1>4. retireReader = "free" => flags.thread = "finished" /\ readers.current # None
  BY DEF retireReader
<1>5. retireReader = "post" => readers.current # None
  BY DEF retireReader
<1> QED BY <1>1, <1>2, <1>3, <1>4, <1>5 DEF PipeAfterRetire, ReadersAfterRetire, None

-----------------------------------------------------------------------------
(* The inductive invariant *)

(* A token in the GUI thread's queue stands for a wait of the other thread: for
   its answer, or for the command of its script. *)
TokenPlace ==
    \A i \in 1 .. Len(gui.queue) :
        /\ gui.queue[i] = "collect" => pipe.pc = "blocked"
        /\ gui.queue[i] = "command" => pipe.pc = "parked"

(* There is one token at most for each. *)
TokenOnce ==
    \A i, j \in 1 .. Len(gui.queue) :
        gui.queue[i] = gui.queue[j] /\ gui.queue[i] # "sync" => i = j

(* A command that the GUI thread carries out is one the other thread is parked
   for, and it ends with the flag lowered. *)
CommandPlace ==
    \A i \in 1 .. Len(gui.stack) : gui.stack[i].op = "command" =>
        /\ pipe.pc = "parked" /\ gui.stack[i].pc \in {"run", "wake"}
        /\ gui.stack[i].pc = "wake" => ~flags.parked

(* There is one command at most, carried out or in the queue. *)
CommandOnce ==
    /\ \A i, j \in 1 .. Len(gui.stack) :
          gui.stack[i].op = "command" /\ gui.stack[j].op = "command" => i = j
    /\ \A i \in 1 .. Len(gui.stack), j \in 1 .. Len(gui.queue) :
          ~(gui.stack[i].op = "command" /\ gui.queue[j] = "command")

BracketInv == ParkedMeansQuiescent /\ TokenPlace /\ TokenOnce /\ CommandPlace /\ CommandOnce

(* The function that runs was dispatched for a call that waits ... *)
HeldWaits == pipe.held # None => pipe.held \in calls.waiting

(* ... and a call that waits is one of the GUI thread's. *)
WaitersAreCallers ==
    \A c \in calls.waiting : \E i \in 1 .. Len(gui.stack) :
        gui.stack[i].call = c /\ gui.stack[i].pc \in {"wait", "abandon"}

WaiterInv == HeldWaits /\ WaitersAreCallers

(* The thread is in a reader only while it parses, scripts included. *)
ParseInv == pipe.reader # None => pipe.pc \in {"script", "hung", "parking", "parked"}

(* The GUI thread is in the call of a quit, or of what that serves; none of it
   waits in an event loop that serves devices. *)
QuitCalled ==
    \E k \in 1 .. Len(gui.stack) :
        /\ gui.stack[k].op = "quit" /\ gui.stack[k].pc \in {"disconnect", "join"}
        /\ \A i \in k .. Len(gui.stack) : gui.stack[i].pc # "wait"

(* From the start of teardown on it is, until the program's last event. *)
TeardownInv ==
    /\ flags.thread # "running" => flags.tearing
    /\ \A i \in 1 .. Len(gui.stack) : gui.stack[i].op = "quit" => flags.tearing
    /\ flags.tearing /\ ~gui.exiting => QuitCalled

(* A thread that has ended is at rest, and no chunk will reach it. *)
FinishedInv ==
    flags.thread = "finished" =>
        /\ pipe.pc = "idle"
        /\ \A i \in 1 .. Len(pipe.queue) : pipe.queue[i].kind # "chunk"

(* A reader that is current or in use is not freed. *)
ReadersLive ==
    /\ readers.current <= readers.made /\ readers.current \notin readers.freed
    /\ \A r \in readers.freed : r # None /\ r <= readers.made
    /\ pipe.reader \notin readers.freed

(* A reader that is to be deleted is not the current one. *)
DeletedRetired ==
    \A i \in 1 .. Len(pipe.queue) : pipe.queue[i].kind = "delete" =>
        /\ pipe.queue[i].n # None /\ pipe.queue[i].n # readers.current
        /\ pipe.queue[i].n <= readers.made

(* A chunk is queued for a reader that lives, and ahead of its deletion. *)
ChunksLive ==
    \A i \in 1 .. Len(pipe.queue) : pipe.queue[i].kind = "chunk" =>
        /\ pipe.queue[i].n <= readers.made /\ pipe.queue[i].n \notin readers.freed
        /\ \A j \in 1 .. Len(pipe.queue) :
              pipe.queue[j].kind = "delete" /\ pipe.queue[j].n = pipe.queue[i].n => i < j

ReaderInv == ReadersLive /\ DeletedRetired /\ ChunksLive

IInv ==
    TypeInv /\ BracketInv /\ WaiterInv /\ ParseInv /\ TeardownInv /\ FinishedInv /\ ReaderInv

-----------------------------------------------------------------------------
(* What the actions that several parts of the invariant look at do. *)

(* An edit reaches the GUI thread's stack or queue, or the other thread's queue. *)
LEMMA EditedShape ==
    ASSUME TypeInv, Edited
    PROVE  /\ TypeInv'
           /\ UNCHANGED <<calls, flags, readers>>
           /\ gui'.exiting = gui.exiting
           /\ \/ gui'.queue = gui.queue
              \/ gui'.queue = Append(gui.queue, "sync")
           /\ \/ gui'.stack = gui.stack
              \/ /\ Len(gui'.stack) = Len(gui.stack) + 1
                 /\ \A i \in 1 .. Len(gui.stack) : gui'.stack[i] = gui.stack[i]
                 /\ gui'.stack[Len(gui.stack) + 1] = Frame("sync", "check", project + 1)
           /\ pipe' = pipe \/ pipe' = Post(Event("sync", None, "sync", None))
<1>1. project' \in Nat /\ project' = project + 1 /\ left' = [left EXCEPT !.edits = @ - 1]
      /\ left.edits > 0 /\ UNCHANGED <<calls, flags, readers>>
  BY DEF Edited, TypeInv
<1>2. left' \in [edits : Nat, asks : Nat, commands : Nat, chunks : Nat, readers : Nat,
                 hang : BOOLEAN, quit : {"none", "engine", "direct"}]
  BY <1>1 DEF TypeInv
<1>3. Event("sync", None, "sync", None) \in EventType
  BY DEF Event, EventType, Ops, None
<1>4. CASE gui' = startSync(gui, project + 1) /\ UNCHANGED pipe
  <2>1. gui \in GuiType /\ project + 1 \in Nat
    BY DEF TypeInv
  <2>2. /\ gui' \in GuiType /\ gui'.queue = gui.queue /\ gui'.exiting = gui.exiting
        /\ \/ gui'.stack = gui.stack
           \/ /\ Len(gui'.stack) = Len(gui.stack) + 1
              /\ \A i \in 1 .. Len(gui.stack) : gui'.stack[i] = gui.stack[i]
              /\ gui'.stack[Len(gui.stack) + 1] = Frame("sync", "check", project + 1)
    BY <1>4, <2>1, StartShape, Zenon
  <2> QED BY <1>1, <1>2, <1>4, <2>2 DEF TypeInv
<1>5. CASE /\ gui' = IF "sync" \in Range(gui.queue) THEN gui
                     ELSE [gui EXCEPT !.queue = Append(@, "sync")]
           /\ UNCHANGED pipe
  <2>1. gui' \in GuiType /\ gui'.exiting = gui.exiting /\ gui'.stack = gui.stack
        /\ (gui'.queue = gui.queue \/ gui'.queue = Append(gui.queue, "sync"))
    <3>1. gui \in GuiType /\ Append(gui.queue, "sync") \in Seq({"sync", "collect", "command"})
      BY DEF GuiType, TypeInv
    <3>2. [gui EXCEPT !.queue = Append(@, "sync")] \in GuiType
      BY <3>1 DEF GuiType
    <3> QED BY <1>5, <3>1, <3>2 DEF GuiType
  <2> QED BY <1>1, <1>2, <1>5, <2>1 DEF TypeInv
<1>6. CASE pipe' = Post(Event("sync", None, "sync", None)) /\ UNCHANGED gui
  BY <1>1, <1>2, <1>3, <1>6, PostShape DEF TypeInv
<1> QED BY <1>4, <1>5, <1>6 DEF Edited

(* A question enters a call. *)
LEMMA AskedShape ==
    ASSUME TypeInv, Asked
    PROVE  /\ TypeInv'
           /\ UNCHANGED <<pipe, calls, flags, readers>>
           /\ gui'.exiting = gui.exiting /\ gui'.queue = gui.queue
           /\ Len(gui'.stack) = Len(gui.stack) + 1
           /\ \A i \in 1 .. Len(gui.stack) : gui'.stack[i] = gui.stack[i]
           /\ gui'.stack[Len(gui.stack) + 1] = Frame("ask", "marshal", None)
<1>1. Frame("ask", "marshal", None) \in FrameType
  BY DEF Frame, FrameType, Ops, None
<1>2. left' \in [edits : Nat, asks : Nat, commands : Nat, chunks : Nat, readers : Nat,
                 hang : BOOLEAN, quit : {"none", "engine", "direct"}]
  BY DEF Asked, TypeInv
<1>3. gui \in GuiType /\ gui' = Push(gui, Frame("ask", "marshal", None))
  BY DEF Asked, TypeInv
<1>4. /\ gui' \in GuiType /\ SameButStack(gui', gui)
      /\ Len(gui'.stack) = Len(gui.stack) + 1
      /\ \A i \in 1 .. Len(gui.stack) : gui'.stack[i] = gui.stack[i]
      /\ gui'.stack[Len(gui.stack) + 1] = Frame("ask", "marshal", None)
  BY <1>1, <1>3, PushShape, Zenon
<1> QED BY <1>2, <1>4 DEF Asked, TypeInv, SameButStack

(* A quit enters its call and starts teardown. *)
LEMMA QuitShape ==
    ASSUME TypeInv, onQuit
    PROVE  /\ TypeInv'
           /\ UNCHANGED <<pipe, calls, readers>>
           /\ flags'.parked = flags.parked /\ flags'.thread = flags.thread /\ flags'.tearing
           /\ gui'.exiting = gui.exiting /\ gui'.queue = gui.queue
           /\ Len(gui'.stack) = Len(gui.stack) + 1
           /\ \A i \in 1 .. Len(gui.stack) : gui'.stack[i] = gui.stack[i]
           /\ gui'.stack[Len(gui.stack) + 1] = Frame("quit", "disconnect", None)
<1>1. Frame("quit", "disconnect", None) \in FrameType
  BY DEF Frame, FrameType, Ops, None
<1>2. /\ left' \in [edits : Nat, asks : Nat, commands : Nat, chunks : Nat, readers : Nat,
                    hang : BOOLEAN, quit : {"none", "engine", "direct"}]
      /\ flags' \in [parked : BOOLEAN, tearing : BOOLEAN, abandoned : BOOLEAN,
                     thread : {"running", "quitting", "finished"}]
      /\ flags'.parked = flags.parked /\ flags'.thread = flags.thread /\ flags'.tearing
  BY DEF onQuit, TypeInv
<1>3. gui \in GuiType /\ gui' = Push(gui, Frame("quit", "disconnect", None))
  BY DEF onQuit, TypeInv
<1>4. /\ gui' \in GuiType /\ SameButStack(gui', gui)
      /\ Len(gui'.stack) = Len(gui.stack) + 1
      /\ \A i \in 1 .. Len(gui.stack) : gui'.stack[i] = gui.stack[i]
      /\ gui'.stack[Len(gui.stack) + 1] = Frame("quit", "disconnect", None)
  BY <1>1, <1>3, PushShape, Zenon
<1> QED BY <1>2, <1>4 DEF onQuit, TypeInv, SameButStack

(* The GUI thread serves the first event posted to it. *)
LEMMA ServeShape ==
    ASSUME TypeInv, ServeQueued
    PROVE  /\ TypeInv'
           /\ UNCHANGED <<calls, flags, readers>>
           /\ gui'.exiting = gui.exiting
           /\ gui.queue # <<>> /\ Len(gui'.queue) = Len(gui.queue) - 1
           /\ \A i \in 1 .. Len(gui.queue) - 1 : gui'.queue[i] = gui.queue[i + 1]
           /\ \/ /\ gui.queue[1] = "sync" /\ UNCHANGED pipe
                 /\ \/ gui'.stack = gui.stack
                    \/ /\ Len(gui'.stack) = Len(gui.stack) + 1
                       /\ \A i \in 1 .. Len(gui.stack) : gui'.stack[i] = gui.stack[i]
                       /\ gui'.stack[Len(gui.stack) + 1] = Frame("sync", "check", project)
              \/ /\ gui.queue[1] = "collect" /\ gui'.stack = gui.stack
                 /\ pipe' = [pipe EXCEPT !.pc = "answered", !.snap = project]
              \/ /\ gui.queue[1] = "command" /\ UNCHANGED pipe
                 /\ Len(gui'.stack) = Len(gui.stack) + 1
                 /\ \A i \in 1 .. Len(gui.stack) : gui'.stack[i] = gui.stack[i]
                 /\ gui'.stack[Len(gui.stack) + 1] = Frame("command", "run", None)
<1> DEFINE x == [gui EXCEPT !.queue = Tail(@)]
<1>1. gui \in GuiType /\ gui.queue \in Seq({"sync", "collect", "command"}) /\ gui.queue # <<>>
      /\ project \in Nat
  BY DEF TypeInv, GuiType, ServeQueued
<1>2. /\ Tail(gui.queue) \in Seq({"sync", "collect", "command"})
      /\ Len(Tail(gui.queue)) = Len(gui.queue) - 1
      /\ \A i \in 1 .. Len(gui.queue) - 1 : Tail(gui.queue)[i] = gui.queue[i + 1]
      /\ Head(gui.queue) = gui.queue[1]
  BY <1>1
<1>3. x \in GuiType /\ x.queue = Tail(gui.queue) /\ x.stack = gui.stack /\ x.exiting = gui.exiting
  BY <1>1, <1>2 DEF GuiType
<1>4. UNCHANGED <<project, calls, flags, readers, left>>
  BY DEF ServeQueued
<1>5. CASE Head(gui.queue) = "sync" /\ gui' = startSync(x, project) /\ UNCHANGED pipe
  <2> HIDE DEF x
  <2>1. /\ gui' \in GuiType /\ gui'.queue = x.queue /\ gui'.exiting = x.exiting
        /\ \/ gui'.stack = x.stack
           \/ /\ Len(gui'.stack) = Len(x.stack) + 1
              /\ \A i \in 1 .. Len(x.stack) : gui'.stack[i] = x.stack[i]
              /\ gui'.stack[Len(x.stack) + 1] = Frame("sync", "check", project)
    BY <1>1, <1>3, <1>5, StartShape, Zenon
  <2> QED BY <1>1, <1>2, <1>3, <1>4, <1>5, <2>1 DEF TypeInv
<1>6. CASE /\ Head(gui.queue) = "collect" /\ gui' = x
           /\ pipe' = [pipe EXCEPT !.pc = "answered", !.snap = project]
  <2> HIDE DEF x
  <2>1. pipe' \in PipeType
    BY <1>1, <1>6 DEF TypeInv, PipeType
  <2> QED BY <1>1, <1>2, <1>3, <1>4, <1>6, <2>1 DEF TypeInv
<1>7. CASE Head(gui.queue) = "command" /\ gui' = Push(x, Frame("command", "run", None))
           /\ UNCHANGED pipe
  <2>1. Frame("command", "run", None) \in FrameType
    BY DEF Frame, FrameType, Ops, None
  <2> HIDE DEF x
  <2>2. /\ gui' \in GuiType /\ SameButStack(gui', x)
        /\ Len(gui'.stack) = Len(x.stack) + 1
        /\ \A i \in 1 .. Len(x.stack) : gui'.stack[i] = x.stack[i]
        /\ gui'.stack[Len(x.stack) + 1] = Frame("command", "run", None)
    BY <1>3, <1>7, <2>1, PushShape, Zenon
  <2>3. /\ gui'.queue = Tail(gui.queue) /\ gui'.exiting = gui.exiting
        /\ Len(gui'.stack) = Len(gui.stack) + 1
        /\ \A i \in 1 .. Len(gui.stack) : gui'.stack[i] = gui.stack[i]
        /\ gui'.stack[Len(gui.stack) + 1] = Frame("command", "run", None)
    BY <1>3, <2>2 DEF SameButStack
  <2>4. TypeInv'
    BY <1>1, <1>4, <1>7, <2>2 DEF TypeInv
  <2> QED BY <1>1, <1>2, <1>4, <1>7, <2>3, <2>4
<1>8. \/ Head(gui.queue) = "sync" /\ gui' = startSync(x, project) /\ UNCHANGED pipe
      \/ /\ Head(gui.queue) = "collect" /\ gui' = x
         /\ pipe' = [pipe EXCEPT !.pc = "answered", !.snap = project]
      \/ /\ Head(gui.queue) = "command" /\ gui' = Push(x, Frame("command", "run", None))
         /\ UNCHANGED pipe
  BY DEF ServeQueued
<1> HIDE DEF x
<1> QED BY <1>5, <1>6, <1>7, <1>8

(* Only the innermost call changes: it goes on, or is left. *)
InnerOnly ==
    /\ gui.stack # <<>> /\ Len(gui.stack) > 0
    /\ gui'.queue = gui.queue
    /\ \A i \in 1 .. Len(gui.stack) - 1 : gui'.stack[i] = gui.stack[i]
    /\ \/ Len(gui'.stack) = Len(gui.stack) - 1
       \/ /\ Len(gui'.stack) = Len(gui.stack)
          /\ gui'.stack[Len(gui.stack)].op = gui.stack[Len(gui.stack)].op

(* The innermost call goes on at another place. *)
LEMMA MovedShape ==
    ASSUME TypeInv, Top.pc # "idle",
           NEW p \in {"check", "marshal", "wait", "abandon", "recursing", "run", "wake",
                      "disconnect", "join"},
           gui' = MoveTo(gui, p)
    PROVE  /\ gui' \in GuiType /\ InnerOnly /\ gui'.exiting = gui.exiting
           /\ Top = gui.stack[Len(gui.stack)] /\ Len(gui'.stack) = Len(gui.stack)
           /\ gui'.stack[Len(gui.stack)].call = Top.call
           /\ gui'.stack[Len(gui.stack)].pc = p
<1>1. /\ gui.stack # <<>> /\ Len(gui.stack) > 0
      /\ Top = gui.stack[Len(gui.stack)] /\ Top \in FrameType
  BY TopIsLast
<1>2. /\ gui' \in GuiType /\ SameButStack(gui', gui)
      /\ Len(gui'.stack) = Len(gui.stack)
      /\ \A i \in 1 .. Len(gui.stack) - 1 : gui'.stack[i] = gui.stack[i]
      /\ gui'.stack[Len(gui.stack)] = [gui.stack[Len(gui.stack)] EXCEPT !.pc = p]
  BY <1>1, MoveShape, Zenon
<1> DEFINE f == gui'.stack[Len(gui.stack)]
<1>3. f.op = Top.op /\ f.call = Top.call /\ f.pc = p
  BY <1>1, <1>2 DEF FrameType
<1> QED BY <1>1, <1>2, <1>3 DEF InnerOnly, SameButStack

(* The innermost call is left. *)
LEMMA PoppedShape ==
    ASSUME TypeInv, Top.pc # "idle"
    PROVE  /\ Pop(gui) \in GuiType /\ SameButStack(Pop(gui), gui)
           /\ gui.stack # <<>> /\ Len(gui.stack) > 0 /\ Top = gui.stack[Len(gui.stack)]
           /\ Len(Pop(gui).stack) = Len(gui.stack) - 1
           /\ \A i \in 1 .. Len(gui.stack) - 1 : Pop(gui).stack[i] = gui.stack[i]
<1>1. gui.stack # <<>> /\ Len(gui.stack) > 0 /\ Top = gui.stack[Len(gui.stack)]
  BY TopIsLast
<1> QED BY <1>1, PopShape, Zenon

(* The steps of a call before and after its wait, and of a sync's loop. *)
LEMMA CallShape ==
    ASSUME TypeInv,
           SyncChecksParked \/ MarshalSkipped \/ MarshalInline \/ LoopReturns \/ abandon
    PROVE  /\ TypeInv' /\ InnerOnly /\ gui'.exiting = gui.exiting
           /\ UNCHANGED <<flags, readers>>
           /\ calls'.waiting = IF abandon THEN calls.waiting \ {Top.call} ELSE calls.waiting
           /\ pipe'.pc = pipe.pc /\ pipe'.queue = pipe.queue /\ pipe'.held = pipe.held
           /\ pipe'.reader = pipe.reader /\ pipe'.applied = pipe.applied
           /\ Top = gui.stack[Len(gui.stack)]
           /\ Top.pc \in {"check", "marshal", "wait", "abandon"}
           /\ Top.pc = "wait" => /\ Len(gui'.stack) = Len(gui.stack)
                                 /\ gui'.stack[Len(gui.stack)].call = Top.call
                                 /\ gui'.stack[Len(gui.stack)].pc = "abandon"
           /\ Top.pc = "abandon" => abandon
           /\ Len(gui'.stack) = Len(gui.stack) =>
                 gui'.stack[Len(gui.stack)].pc \in {"check", "marshal", "abandon", "recursing"}
<1>1. CASE SyncChecksParked
  <2>1. Top.pc = "check" /\ Top \in FrameType /\ Top.pc # "idle"
    BY <1>1, TopIsLast DEF SyncChecksParked, Running
  <2>2. UNCHANGED <<project, pipe, calls, flags, readers, left>> /\ ~abandon
    BY <1>1, <2>1 DEF SyncChecksParked, abandon
  <2>3. CASE flags.parked
    <3> DEFINE y == Pop(gui)
    <3>1. gui' = [y EXCEPT !.inFlight = FALSE, !.deferred = Top.snap]
      BY <1>1, <2>3 DEF SyncChecksParked
    <3>2. /\ y \in GuiType /\ SameButStack(y, gui) /\ Len(y.stack) = Len(gui.stack) - 1
          /\ \A i \in 1 .. Len(gui.stack) - 1 : y.stack[i] = gui.stack[i]
          /\ gui.stack # <<>> /\ Len(gui.stack) > 0 /\ Top = gui.stack[Len(gui.stack)]
      BY <2>1, PoppedShape, Zenon
    <3> HIDE DEF y
    <3>3. gui' \in GuiType /\ gui'.stack = y.stack /\ gui'.queue = y.queue
          /\ gui'.exiting = y.exiting
      BY <2>1, <3>1, <3>2 DEF GuiType, FrameType
    <3>4. InnerOnly /\ gui'.exiting = gui.exiting /\ Len(gui'.stack) # Len(gui.stack)
      BY <3>2, <3>3 DEF SameButStack, InnerOnly
    <3> QED BY <2>1, <2>2, <3>2, <3>3, <3>4 DEF TypeInv
  <2>4. CASE ~flags.parked
    <3>1. gui' = MoveTo(gui, "marshal")
      BY <1>1, <2>4 DEF SyncChecksParked
    <3> QED BY <2>1, <2>2, <3>1, MovedShape DEF TypeInv
  <2> QED BY <2>3, <2>4
<1>2. ASSUME Top.pc \in {"marshal", "abandon"}, gui' = Returned(gui)
      PROVE  /\ gui' \in GuiType /\ InnerOnly /\ gui'.exiting = gui.exiting
             /\ Top = gui.stack[Len(gui.stack)]
             /\ Len(gui'.stack) = Len(gui.stack) => gui'.stack[Len(gui.stack)].pc = "check"
  <2>1. gui.stack # <<>> /\ Len(gui.stack) > 0 /\ Top = gui.stack[Len(gui.stack)]
    BY <1>2, TopIsLast
  <2> QED BY <1>2, <2>1, ReturnedShape DEF InnerOnly
<1>3. CASE MarshalSkipped
  BY <1>2, <1>3 DEF MarshalSkipped, TypeInv, abandon
<1>4. CASE MarshalInline
  <2>1. CASE /\ Top.op = "sync" /\ gui' = Returned(gui)
             /\ pipe' = applyProjectSnapshot(pipe, Top.snap, FALSE)
    <3>1. Top.snap \in Nat /\ pipe \in PipeType
      BY <1>4, TopIsLast DEF MarshalInline, TypeInv, FrameType
    <3>2. /\ pipe' \in PipeType /\ pipe'.pc = pipe.pc /\ pipe'.queue = pipe.queue
          /\ pipe'.held = pipe.held /\ pipe'.reader = pipe.reader /\ pipe'.applied = pipe.applied
      BY <2>1, <3>1, ApplyShape
    <3> QED BY <1>2, <1>4, <2>1, <3>2 DEF MarshalInline, TypeInv, abandon
  <2>2. CASE Top.op = "ask" /\ gui' = MoveTo(gui, "recursing") /\ UNCHANGED pipe
    <3>1. Top.pc = "marshal" /\ Top.pc # "idle"
      BY <1>4 DEF MarshalInline
    <3> QED BY <1>4, <2>2, <3>1, MovedShape DEF MarshalInline, TypeInv, abandon
  <2> QED BY <1>4, <2>1, <2>2 DEF MarshalInline
<1>5. CASE LoopReturns
  <2>1. Top.pc = "wait" /\ Top.pc # "idle"
    BY <1>5 DEF LoopReturns
  <2> QED BY <1>5, <2>1, MovedShape DEF LoopReturns, TypeInv, abandon
<1>6. CASE abandon
  BY <1>2, <1>6 DEF abandon, TypeInv
<1> QED BY <1>1, <1>3, <1>4, <1>5, <1>6

(* A call is posted to the other thread, and its caller waits. *)
LEMMA PostedShape ==
    ASSUME TypeInv, MarshalPosted
    PROVE  /\ TypeInv' /\ InnerOnly /\ gui'.exiting = gui.exiting
           /\ UNCHANGED <<flags, readers>> /\ ~flags.tearing
           /\ calls'.waiting = calls.waiting \cup {calls.made + 1}
           /\ Top.pc = "marshal" /\ Top = gui.stack[Len(gui.stack)]
           /\ Len(gui'.stack) = Len(gui.stack)
           /\ gui'.stack[Len(gui.stack)].call = calls.made + 1
           /\ gui'.stack[Len(gui.stack)].pc = "wait"
           /\ \E e \in EventType : e.kind = "dispatch" /\ pipe' = Post(e)
<1>1. Top.pc = "marshal" /\ Top \in FrameType /\ calls.made + 1 \in Nat /\ gui \in GuiType
  BY TopIsLast DEF MarshalPosted, TypeInv
<1> DEFINE y == MoveTo(gui, "wait")
           n == Len(gui.stack)
<1>2. /\ y \in GuiType /\ SameButStack(y, gui) /\ Len(y.stack) = n
      /\ \A i \in 1 .. n - 1 : y.stack[i] = gui.stack[i]
      /\ y.stack[n] = [gui.stack[n] EXCEPT !.pc = "wait"]
      /\ gui.stack # <<>> /\ n > 0 /\ Top = gui.stack[n]
  BY <1>1, TopIsLast, MoveShape
<1> DEFINE f == [y.stack[n] EXCEPT !.call = calls.made + 1]
           t == [y.stack EXCEPT ![n] = f]
<1>3. f \in FrameType /\ f.pc = "wait" /\ f.op = Top.op /\ f.call = calls.made + 1
  BY <1>1, <1>2 DEF FrameType
<1>4. gui' = [y EXCEPT !.stack[n].call = calls.made + 1]
  BY DEF MarshalPosted
<1> HIDE DEF y, f
<1>5. /\ t \in Seq(FrameType) /\ Len(t) = n /\ t[n] = f
      /\ \A i \in 1 .. n - 1 : t[i] = gui.stack[i]
  BY <1>2, <1>3 DEF GuiType
<1>6. gui' = [y EXCEPT !.stack = t]
  BY <1>2, <1>4 DEF GuiType, f
<1> HIDE DEF t
<1>7. gui' \in GuiType /\ gui'.stack = t /\ gui'.queue = gui.queue /\ gui'.exiting = gui.exiting
  BY <1>2, <1>5, <1>6 DEF GuiType, SameButStack
<1> DEFINE e == Event("dispatch", calls.made + 1, Top.op, Top.snap)
<1>8. e \in EventType /\ e.kind = "dispatch" /\ pipe' = Post(e)
  BY <1>1 DEF Event, EventType, FrameType, MarshalPosted
<1>9. pipe' \in PipeType
  <2> HIDE DEF e
  <2> QED BY <1>8, PostShape
<1>10. /\ UNCHANGED <<project, flags, readers, left>> /\ ~flags.tearing
       /\ calls' = [calls EXCEPT !.made = @ + 1, !.waiting = @ \cup {calls.made + 1}]
  BY DEF MarshalPosted
<1>11. /\ calls' \in [made : Nat, waiting : SUBSET Nat, woken : SUBSET Nat]
       /\ calls'.waiting = calls.waiting \cup {calls.made + 1}
  BY <1>1, <1>10 DEF TypeInv
<1>12. TypeInv'
  BY <1>7, <1>9, <1>10, <1>11 DEF TypeInv
<1>13. InnerOnly
  BY <1>2, <1>3, <1>5, <1>7 DEF InnerOnly
<1> HIDE DEF e
<1> QED BY <1>1, <1>2, <1>3, <1>5, <1>7, <1>8, <1>10, <1>11, <1>12, <1>13

(* A command is carried out, and its script goes on. *)
LEMMA CommandShape ==
    ASSUME TypeInv, CommandFinished \/ ScriptWoken
    PROVE  /\ TypeInv' /\ InnerOnly /\ gui'.exiting = gui.exiting
           /\ UNCHANGED <<calls, readers>>
           /\ flags'.thread = flags.thread /\ flags'.tearing = flags.tearing
           /\ pipe'.held = pipe.held /\ pipe'.reader = pipe.reader /\ pipe'.applied = pipe.applied
           /\ Top = gui.stack[Len(gui.stack)] /\ Top.op = "command"
           /\ \/ /\ CommandFinished /\ Top.pc = "run" /\ pipe'.pc = pipe.pc /\ ~flags'.parked
                 /\ Len(gui'.stack) = Len(gui.stack)
                 /\ gui'.stack[Len(gui.stack)].pc = "wake"
                 /\ pipe' = pipe \/ (\E e \in EventType : e.kind = "apply" /\ pipe' = Post(e))
              \/ /\ ScriptWoken /\ Top.pc = "wake" /\ pipe'.pc = "script"
                 /\ flags' = flags /\ pipe'.queue = pipe.queue
                 /\ Len(gui'.stack) = Len(gui.stack) - 1
<1>1. CASE CommandFinished
  <2>1. Top.op = "command" /\ Top.pc = "run" /\ gui' = MoveTo(gui, "wake")
        /\ UNCHANGED <<project, calls, readers, left>> /\ flags' = [flags EXCEPT !.parked = FALSE]
    BY <1>1 DEF CommandFinished, Running
  <2>2. /\ gui' \in GuiType /\ InnerOnly /\ gui'.exiting = gui.exiting
        /\ Top = gui.stack[Len(gui.stack)] /\ Len(gui'.stack) = Len(gui.stack)
        /\ gui'.stack[Len(gui.stack)].pc = "wake"
    BY <2>1, MovedShape
  <2> DEFINE e == Event("apply", None, "sync", None)
  <2>3. e \in EventType /\ e.kind = "apply" /\ (pipe' = pipe \/ pipe' = Post(e))
    BY <1>1 DEF CommandFinished, Event, EventType, Ops, None
  <2> HIDE DEF e
  <2>4. /\ pipe' \in PipeType /\ pipe'.pc = pipe.pc /\ pipe'.held = pipe.held
        /\ pipe'.reader = pipe.reader /\ pipe'.applied = pipe.applied
    <3>1. CASE pipe' = pipe
      BY <3>1 DEF TypeInv
    <3>2. CASE pipe' = Post(e)
      <4>1. pipe' \in PipeType /\ pipe' = [pipe EXCEPT !.queue = Append(pipe.queue, e)]
        BY <2>3, <3>2, PostShape
      <4> QED BY <4>1 DEF TypeInv, PipeType
    <3> QED BY <2>3, <3>1, <3>2
  <2>5. /\ flags' \in [parked : BOOLEAN, tearing : BOOLEAN, abandoned : BOOLEAN,
                       thread : {"running", "quitting", "finished"}]
        /\ flags'.thread = flags.thread /\ flags'.tearing = flags.tearing /\ ~flags'.parked
    BY <2>1 DEF TypeInv
  <2> QED BY <1>1, <2>1, <2>2, <2>3, <2>4, <2>5 DEF TypeInv
<1>2. CASE ScriptWoken
  <2>1. Top.op = "command" /\ Top.pc = "wake" /\ gui' = Pop(gui)
        /\ UNCHANGED <<project, calls, flags, readers, left>>
        /\ pipe' = [pipe EXCEPT !.pc = "script"]
    BY <1>2 DEF ScriptWoken, Running
  <2>2. /\ gui' \in GuiType /\ SameButStack(gui', gui)
        /\ gui.stack # <<>> /\ Len(gui.stack) > 0 /\ Top = gui.stack[Len(gui.stack)]
        /\ Len(gui'.stack) = Len(gui.stack) - 1
        /\ \A i \in 1 .. Len(gui.stack) - 1 : gui'.stack[i] = gui.stack[i]
    BY <2>1, PoppedShape
  <2>3. /\ pipe' \in PipeType /\ pipe'.pc = "script" /\ pipe'.held = pipe.held
        /\ pipe'.reader = pipe.reader /\ pipe'.applied = pipe.applied /\ pipe'.queue = pipe.queue
    BY <2>1 DEF TypeInv, PipeType
  <2>4. InnerOnly /\ gui'.exiting = gui.exiting
    BY <2>2 DEF InnerOnly, SameButStack
  <2> QED BY <1>2, <2>1, <2>2, <2>3, <2>4 DEF TypeInv
<1> QED BY <1>1, <1>2

(* The devices are gone, the processing thread is told to quit, and the join
   begins; then it ends. *)
LEMMA ShutdownShape ==
    ASSUME TypeInv, shutdown \/ joinServingGuiMarshals
    PROVE  /\ TypeInv' /\ InnerOnly /\ UNCHANGED calls
           /\ flags'.parked = flags.parked /\ flags'.tearing = flags.tearing
           /\ Top = gui.stack[Len(gui.stack)] /\ Top.op = "quit"
           /\ \/ /\ shutdown /\ Top.pc = "disconnect" /\ flags'.thread = "quitting"
                 /\ gui'.exiting = gui.exiting
                 /\ \/ pipe' = PipeAfterRetire /\ readers' = ReadersAfterRetire
                    \/ UNCHANGED <<pipe, readers>>
                 /\ Len(gui'.stack) = Len(gui.stack)
                 /\ gui'.stack[Len(gui.stack)].pc = "join"
              \/ /\ joinServingGuiMarshals /\ Top.pc = "join" /\ flags'.thread = flags.thread
                 /\ gui'.exiting /\ UNCHANGED <<pipe, readers>>
                 /\ Len(gui'.stack) = Len(gui.stack) - 1
<1>1. CASE shutdown
  <2>1. /\ Top.op = "quit" /\ Top.pc = "disconnect" /\ gui' = MoveTo(gui, "join")
        /\ UNCHANGED <<project, calls, left>> /\ flags' = [flags EXCEPT !.thread = "quitting"]
        /\ \/ pipe' = PipeAfterRetire /\ readers' = ReadersAfterRetire
           \/ UNCHANGED <<pipe, readers>>
    BY <1>1 DEF shutdown, Running
  <2>2. /\ gui' \in GuiType /\ InnerOnly /\ gui'.exiting = gui.exiting
        /\ Top = gui.stack[Len(gui.stack)] /\ Len(gui'.stack) = Len(gui.stack)
        /\ gui'.stack[Len(gui.stack)].pc = "join"
    BY <2>1, MovedShape
  <2>3. pipe' \in PipeType /\ readers' \in [current : Nat, made : Nat, freed : SUBSET Nat]
    BY <2>1, RetireShape DEF TypeInv
  <2>4. /\ flags' \in [parked : BOOLEAN, tearing : BOOLEAN, abandoned : BOOLEAN,
                       thread : {"running", "quitting", "finished"}]
        /\ flags'.thread = "quitting" /\ flags'.tearing = flags.tearing
        /\ flags'.parked = flags.parked
    BY <2>1 DEF TypeInv
  <2>5. TypeInv'
    BY <2>1, <2>2, <2>3, <2>4 DEF TypeInv
  <2> QED BY <1>1, <2>1, <2>2, <2>4, <2>5
<1>2. CASE joinServingGuiMarshals
  <2>1. /\ Top.op = "quit" /\ Top.pc = "join" /\ gui' = [Pop(gui) EXCEPT !.exiting = TRUE]
        /\ UNCHANGED <<project, pipe, calls, readers, left>>
        /\ flags' = [flags EXCEPT !.abandoned = (flags.thread # "finished")]
    BY <1>2 DEF joinServingGuiMarshals, Running
  <2> DEFINE y == Pop(gui)
  <2>2. /\ y \in GuiType /\ SameButStack(y, gui)
        /\ gui.stack # <<>> /\ Len(gui.stack) > 0 /\ Top = gui.stack[Len(gui.stack)]
        /\ Len(y.stack) = Len(gui.stack) - 1
        /\ \A i \in 1 .. Len(gui.stack) - 1 : y.stack[i] = gui.stack[i]
    BY <2>1, PoppedShape
  <2> HIDE DEF y
  <2>3. gui' \in GuiType /\ gui'.stack = y.stack /\ gui'.queue = y.queue /\ gui'.exiting
    BY <2>1, <2>2 DEF GuiType, y
  <2>4. /\ flags' \in [parked : BOOLEAN, tearing : BOOLEAN, abandoned : BOOLEAN,
                       thread : {"running", "quitting", "finished"}]
        /\ flags'.thread = flags.thread /\ flags'.tearing = flags.tearing
        /\ flags'.parked = flags.parked
    BY <2>1 DEF TypeInv
  <2>5. TypeInv'
    BY <2>1, <2>3, <2>4 DEF TypeInv
  <2>6. InnerOnly
    BY <2>2, <2>3 DEF InnerOnly, SameButStack
  <2> QED BY <1>2, <2>1, <2>2, <2>3, <2>4, <2>5, <2>6
<1> QED BY <1>1, <1>2

(* Readers are attached and detached, and get chunks. *)
LEMMA DeviceShape ==
    ASSUME TypeInv, attach \/ detach \/ dataReceived \/ destroy
    PROVE  /\ TypeInv' /\ UNCHANGED <<gui, calls, flags>>
           /\ pipe'.pc = pipe.pc /\ pipe'.held = pipe.held /\ pipe'.reader = pipe.reader
           /\ pipe'.applied = pipe.applied
<1>1. ASSUME pipe' = PipeAfterRetire \/ (\E e \in EventType : pipe' = Post(e))
      PROVE  /\ pipe' \in PipeType
             /\ pipe'.pc = pipe.pc /\ pipe'.held = pipe.held /\ pipe'.reader = pipe.reader
             /\ pipe'.applied = pipe.applied
  <2>1. CASE pipe' = pipe
    BY <2>1 DEF TypeInv
  <2>2. CASE \E e \in EventType : pipe' = Post(e)
    <3>1. PICK e \in EventType : pipe' = Post(e)
      BY <2>2
    <3>2. pipe' \in PipeType /\ pipe' = [pipe EXCEPT !.queue = Append(pipe.queue, e)]
      BY <3>1, PostShape
    <3> QED BY <3>2 DEF TypeInv, PipeType
  <2> QED BY <1>1, <2>1, <2>2, RetireShape
<1>2. CASE attach
  <2>1. ASSUME NEW r \in [current : Nat, made : Nat, freed : SUBSET Nat],
               NEW n \in Nat, NEW m \in Nat
        PROVE  [r EXCEPT !.current = n, !.made = m]
                    \in [current : Nat, made : Nat, freed : SUBSET Nat]
    OBVIOUS
  <2>2. readers' \in [current : Nat, made : Nat, freed : SUBSET Nat]
    <3> DEFINE r == ReadersAfterRetire
    <3>1. r \in [current : Nat, made : Nat, freed : SUBSET Nat] /\ readers.made \in Nat
      BY RetireShape DEF TypeInv
    <3>2. readers.made + 1 \in Nat /\ r.made + 1 \in Nat
      BY <3>1
    <3>3. readers' = [r EXCEPT !.current = readers.made + 1, !.made = r.made + 1]
      BY <1>2 DEF attach
    <3> HIDE DEF r
    <3> QED BY <2>1, <3>1, <3>2, <3>3, Zenon
  <2>3. left' \in [edits : Nat, asks : Nat, commands : Nat, chunks : Nat, readers : Nat,
                   hang : BOOLEAN, quit : {"none", "engine", "direct"}]
    BY <1>2 DEF attach, TypeInv
  <2> QED BY <1>1, <1>2, <2>2, <2>3 DEF attach, TypeInv
<1>3. CASE detach \/ destroy
  BY <1>1, <1>3, RetireShape DEF detach, destroy, TypeInv
<1>4. CASE dataReceived
  <2>1. Event("chunk", readers.current, "", None) \in EventType
    BY DEF Event, EventType, Ops, None, TypeInv
  <2>2. left' \in [edits : Nat, asks : Nat, commands : Nat, chunks : Nat, readers : Nat,
                   hang : BOOLEAN, quit : {"none", "engine", "direct"}]
    <3>1. left' = [left EXCEPT !.chunks = @ - 1] /\ left.chunks > 0
      BY <1>4 DEF dataReceived
    <3> QED BY <3>1 DEF TypeInv
  <2>3. pipe' = Post(Event("chunk", readers.current, "", None))
        /\ UNCHANGED <<project, gui, calls, flags, readers>>
    BY <1>4 DEF dataReceived
  <2> QED BY <1>1, <2>1, <2>2, <2>3 DEF TypeInv
<1> QED BY <1>2, <1>3, <1>4

(* The processing thread takes an event: what it was, and where it goes. *)
LEMMA TakeStep ==
    ASSUME TypeInv, PipeTakes
    PROVE  /\ TypeInv'
           /\ UNCHANGED <<calls, flags>>
           /\ gui'.stack = gui.stack /\ gui'.queue = gui.queue /\ gui'.exiting = gui.exiting
           /\ pipe.pc = "idle" /\ pipe.queue # <<>> /\ flags.thread # "finished"
           /\ pipe'.queue = Tail(pipe.queue)
           /\ LET event == pipe.queue[1]
              IN  \/ /\ event.kind = "dispatch" /\ UNCHANGED readers
                    /\ pipe'.reader = pipe.reader /\ pipe'.applied = pipe.applied
                    /\ \/ pipe'.held = event.n /\ event.n \in calls.waiting
                          /\ pipe'.pc \in {"apply", "gate"}
                       \/ pipe'.held = pipe.held /\ pipe'.pc = pipe.pc
                 \/ /\ event.kind \in {"apply", "sync"} /\ UNCHANGED readers
                    /\ pipe'.reader = pipe.reader /\ pipe'.held = pipe.held
                    /\ pipe'.pc \in {"idle", "gate"}
                 \/ /\ event.kind = "chunk" /\ UNCHANGED readers
                    /\ pipe'.reader = event.n /\ pipe'.pc = "script"
                    /\ pipe'.held = pipe.held /\ pipe'.applied = pipe.applied
                 \/ /\ event.kind = "delete"
                    /\ readers' = [readers EXCEPT !.freed = @ \cup {event.n}]
                    /\ pipe'.reader = pipe.reader /\ pipe'.pc = pipe.pc
                    /\ pipe'.held = pipe.held /\ pipe'.applied = pipe.applied
<1> DEFINE event == Head(pipe.queue)
           p == [pipe EXCEPT !.queue = Tail(@)]
<1>1. /\ pipe.pc = "idle" /\ pipe.queue # <<>> /\ flags.thread # "finished"
      /\ UNCHANGED <<project, calls, flags, left>>
  BY DEF PipeTakes
<1>2. /\ event \in EventType /\ event = pipe.queue[1] /\ p \in PipeType
      /\ Tail(pipe.queue) \in Seq(EventType)
  BY <1>1, TakeShape
<1>3. /\ p.queue = Tail(pipe.queue) /\ p.pc = pipe.pc /\ p.held = pipe.held
      /\ p.reader = pipe.reader /\ p.applied = pipe.applied
  BY DEF TypeInv, PipeType
<1>4. CASE event.kind = "dispatch" /\ dispatch(event) /\ UNCHANGED <<gui, readers>>
  <2>1. CASE event.n \in calls.waiting
    <3>1. pipe' = [pipe EXCEPT !.queue = Tail(@), !.held = event.n, !.snap = event.snap,
                               !.pc = IF event.op = "sync" THEN "apply" ELSE "gate"]
      BY <1>4, <2>1 DEF dispatch
    <3>2. /\ pipe' \in PipeType /\ pipe'.queue = Tail(pipe.queue) /\ pipe'.held = event.n
          /\ pipe'.reader = pipe.reader /\ pipe'.applied = pipe.applied
          /\ pipe'.pc \in {"apply", "gate"}
      BY <1>2, <3>1 DEF TypeInv, PipeType, EventType
    <3> QED BY <1>1, <1>2, <1>4, <2>1, <3>2 DEF TypeInv
  <2>2. CASE event.n \notin calls.waiting
    <3>1. pipe' = p
      BY <1>4, <2>2 DEF dispatch
    <3> HIDE DEF p
    <3> QED BY <1>1, <1>2, <1>3, <1>4, <3>1 DEF TypeInv
  <2> QED BY <2>1, <2>2
<1>5. CASE event.kind = "apply" /\ applyDeferredProjectSnapshot /\ UNCHANGED readers
  <2>1. /\ pipe' = p \/ pipe' = applyProjectSnapshot(p, gui.deferred, TRUE)
        /\ gui' = [gui EXCEPT !.deferred = None]
    BY <1>5 DEF applyDeferredProjectSnapshot
  <2>2. /\ gui' \in GuiType /\ gui'.stack = gui.stack /\ gui'.queue = gui.queue
        /\ gui'.exiting = gui.exiting /\ gui.deferred \in Nat
    BY <2>1 DEF TypeInv, GuiType, None
  <2> HIDE DEF p
  <2>3. /\ pipe' \in PipeType /\ pipe'.queue = p.queue /\ pipe'.pc = p.pc
        /\ pipe'.held = p.held /\ pipe'.reader = p.reader
    <3>1. CASE pipe' = p
      BY <1>2, <3>1
    <3>2. CASE pipe' = applyProjectSnapshot(p, gui.deferred, TRUE)
      BY <1>2, <2>2, <3>2, ApplyShape, Zenon
    <3> QED BY <2>1, <3>1, <3>2
  <2> QED BY <1>1, <1>2, <1>3, <1>5, <2>2, <2>3 DEF TypeInv
<1>6. CASE /\ event.kind = "sync"
           /\ pipe' = [pipe EXCEPT !.queue = Tail(@), !.snap = None, !.pc = "gate"]
           /\ UNCHANGED <<gui, readers>>
  <2>1. /\ pipe' \in PipeType /\ pipe'.queue = Tail(pipe.queue) /\ pipe'.held = pipe.held
        /\ pipe'.reader = pipe.reader /\ pipe'.pc = "gate"
    BY <1>2, <1>6 DEF TypeInv, PipeType, None
  <2> QED BY <1>1, <1>2, <1>6, <2>1 DEF TypeInv
<1>7. CASE /\ event.kind = "chunk"
           /\ pipe' = [pipe EXCEPT !.queue = Tail(@), !.reader = event.n, !.pc = "script"]
           /\ UNCHANGED <<gui, readers>>
  <2>1. /\ pipe' \in PipeType /\ pipe'.queue = Tail(pipe.queue) /\ pipe'.held = pipe.held
        /\ pipe'.reader = event.n /\ pipe'.pc = "script" /\ pipe'.applied = pipe.applied
    BY <1>2, <1>7 DEF TypeInv, PipeType, EventType
  <2> QED BY <1>1, <1>2, <1>7, <2>1 DEF TypeInv
<1>8. CASE /\ event.kind = "delete" /\ pipe' = p
           /\ readers' = [readers EXCEPT !.freed = @ \cup {event.n}] /\ UNCHANGED gui
  <2>1. readers' \in [current : Nat, made : Nat, freed : SUBSET Nat]
    BY <1>2, <1>8 DEF TypeInv, EventType
  <2> HIDE DEF p
  <2> QED BY <1>1, <1>2, <1>3, <1>8, <2>1 DEF TypeInv
<1> QED BY <1>4, <1>5, <1>6, <1>7, <1>8 DEF PipeTakes

(* A function ends: the thread is idle, and a waiter may be woken. *)
LEMMA FinishShape ==
    ASSUME TypeInv, SnapshotApplied \/ ScriptEnds
    PROVE  /\ TypeInv' /\ UNCHANGED <<gui, flags, readers>> /\ calls'.waiting = calls.waiting
           /\ pipe'.pc = "idle" /\ pipe'.queue = pipe.queue
           /\ pipe'.held = None /\ pipe'.reader = None
           /\ \/ SnapshotApplied /\ pipe.pc = "apply"
              \/ ScriptEnds /\ pipe.pc = "script" /\ pipe'.applied = pipe.applied
<1>1. calls' \in [made : Nat, waiting : SUBSET Nat, woken : SUBSET Nat]
      /\ calls'.waiting = calls.waiting
  <2>1. \/ calls' = calls
        \/ calls' = [calls EXCEPT !.woken = @ \cup {pipe.held}]
    BY DEF SnapshotApplied, ScriptEnds, Wakes
  <2>2. pipe.held \in Nat
    BY DEF TypeInv, PipeType
  <2> QED BY <2>1, <2>2 DEF TypeInv
<1>2. ASSUME NEW p \in PipeType
      PROVE  /\ Finished(p) \in PipeType /\ Finished(p).pc = "idle" /\ Finished(p).queue = p.queue
             /\ Finished(p).held = None /\ Finished(p).reader = None
             /\ Finished(p).applied = p.applied
  BY DEF Finished, PipeType, None
<1>3. CASE SnapshotApplied
  <2> DEFINE p == applyProjectSnapshot(pipe, pipe.snap, TRUE)
  <2>1. pipe \in PipeType /\ pipe.snap \in Nat
    BY DEF TypeInv, PipeType
  <2>2. p \in PipeType /\ p.queue = pipe.queue
    BY <2>1, ApplyShape
  <2>3. pipe' = Finished(p) /\ pipe.pc = "apply" /\ UNCHANGED <<project, gui, flags, readers, left>>
    BY <1>3 DEF SnapshotApplied
  <2> HIDE DEF p
  <2> QED BY <1>1, <1>2, <1>3, <2>2, <2>3 DEF TypeInv
<1>4. CASE ScriptEnds
  BY <1>1, <1>2, <1>4 DEF ScriptEnds, TypeInv
<1> QED BY <1>3, <1>4

(* The processing thread goes on within a function. *)
LEMMA PipeShape ==
    ASSUME TypeInv,
           GateChecked \/ CollectPosted \/ Answered \/ CommandPosted \/ ScriptHangs \/ CommandIssued
    PROVE  /\ TypeInv' /\ UNCHANGED <<calls, readers>>
           /\ gui'.stack = gui.stack /\ gui'.exiting = gui.exiting
           /\ pipe'.queue = pipe.queue /\ pipe'.held = pipe.held
           /\ pipe'.reader = pipe.reader /\ pipe'.applied = pipe.applied
           /\ flags'.thread = flags.thread /\ flags'.tearing = flags.tearing
           /\ \/ /\ CollectPosted /\ pipe.pc = "ask" /\ pipe'.pc = "blocked" /\ flags' = flags
                 /\ gui'.queue = Append(gui.queue, "collect")
              \/ /\ CommandPosted /\ pipe.pc = "parking" /\ pipe'.pc = "parked" /\ flags' = flags
                 /\ gui'.queue = Append(gui.queue, "command")
              \/ /\ CommandIssued /\ pipe.pc = "script" /\ pipe'.pc = "parking"
                 /\ gui' = gui
              \/ /\ GateChecked \/ Answered \/ ScriptHangs
                 /\ pipe.pc \in {"gate", "answered", "script"} /\ gui' = gui /\ flags' = flags
                 /\ pipe'.pc \in {"ask", "answered", "apply", "script", "hung"}
                 /\ pipe.pc = "script" => pipe'.pc = "hung"
<1>1. ASSUME NEW c \in {"sync", "collect", "command"}, gui' = [gui EXCEPT !.queue = Append(@, c)]
      PROVE  /\ gui' \in GuiType /\ gui'.stack = gui.stack /\ gui'.exiting = gui.exiting
             /\ gui'.queue = Append(gui.queue, c)
  <2>1. gui \in GuiType /\ Append(gui.queue, c) \in Seq({"sync", "collect", "command"})
    BY DEF TypeInv, GuiType
  <2>2. ASSUME NEW q \in Seq({"sync", "collect", "command"})
        PROVE  /\ [gui EXCEPT !.queue = q] \in GuiType
               /\ [gui EXCEPT !.queue = q].stack = gui.stack
               /\ [gui EXCEPT !.queue = q].exiting = gui.exiting
               /\ [gui EXCEPT !.queue = q].queue = q
    BY <2>1 DEF GuiType
  <2> QED BY <1>1, <2>1, <2>2
<1>2. ASSUME NEW c \in {"ask", "blocked", "answered", "apply", "script", "hung", "parking", "parked"},
             pipe' = [pipe EXCEPT !.pc = c]
      PROVE  /\ pipe' \in PipeType /\ pipe'.pc = c /\ pipe'.queue = pipe.queue
             /\ pipe'.held = pipe.held /\ pipe'.reader = pipe.reader /\ pipe'.applied = pipe.applied
  BY <1>2 DEF TypeInv, PipeType
<1>3. CASE CollectPosted
  BY <1>1, <1>2, <1>3 DEF CollectPosted, TypeInv
<1>4. CASE CommandPosted
  BY <1>1, <1>2, <1>4 DEF CommandPosted, TypeInv
<1>5. CASE CommandIssued
  <2>1. /\ left' = [left EXCEPT !.commands = @ - 1] /\ left.commands > 0
        /\ flags' = [flags EXCEPT !.parked = TRUE]
    BY <1>5 DEF CommandIssued
  <2>2. left' \in [edits : Nat, asks : Nat, commands : Nat, chunks : Nat, readers : Nat,
                   hang : BOOLEAN, quit : {"none", "engine", "direct"}]
    BY <2>1 DEF TypeInv
  <2>3. /\ flags' \in [parked : BOOLEAN, tearing : BOOLEAN, abandoned : BOOLEAN,
                       thread : {"running", "quitting", "finished"}]
        /\ flags'.thread = flags.thread /\ flags'.tearing = flags.tearing
    BY <2>1 DEF TypeInv
  <2> QED BY <2>2, <2>3, <1>2, <1>5, <2>1 DEF CommandIssued, TypeInv
<1>6. CASE GateChecked
  BY <1>2, <1>6 DEF GateChecked, TypeInv
<1>7. CASE Answered
  BY <1>2, <1>7 DEF Answered, TypeInv
<1>8. CASE ScriptHangs
  <2>1. left' \in [edits : Nat, asks : Nat, commands : Nat, chunks : Nat, readers : Nat,
                   hang : BOOLEAN, quit : {"none", "engine", "direct"}]
    BY <1>8 DEF ScriptHangs, TypeInv
  <2> QED BY <1>2, <1>8, <2>1 DEF ScriptHangs, TypeInv
<1> QED BY <1>3, <1>4, <1>5, <1>6, <1>7, <1>8

(* The processing thread ends. *)
LEMMA EndShape ==
    ASSUME TypeInv, ThreadEnds
    PROVE  /\ TypeInv' /\ UNCHANGED <<gui, calls>>
           /\ flags.thread = "quitting" /\ flags'.thread = "finished"
           /\ flags'.parked = flags.parked /\ flags'.tearing = flags.tearing
           /\ pipe.pc = "idle" /\ pipe'.pc = "idle" /\ pipe'.queue = <<>>
           /\ pipe'.held = pipe.held /\ pipe'.reader = pipe.reader /\ pipe'.applied = pipe.applied
           /\ readers'.current = readers.current /\ readers'.made = readers.made
           /\ \A r \in readers'.freed :
                 \/ r \in readers.freed
                 \/ \E i \in DOMAIN pipe.queue :
                      pipe.queue[i].kind = "delete" /\ pipe.queue[i].n = r
<1> DEFINE gone == {e.n : e \in {d \in Range(pipe.queue) : d.kind = "delete"}}
<1>1. pipe.queue \in Seq(EventType)
  BY DEF TypeInv, PipeType
<1>2. \A r \in gone : /\ r \in Nat
                      /\ \E i \in DOMAIN pipe.queue :
                           pipe.queue[i].kind = "delete" /\ pipe.queue[i].n = r
  <2>1. \A e \in Range(pipe.queue) : e \in EventType
    BY <1>1 DEF Range
  <2> QED BY <2>1 DEF Range, EventType
<1>3. /\ flags.thread = "quitting" /\ pipe.pc = "idle" /\ UNCHANGED <<project, gui, calls, left>>
      /\ flags' = [flags EXCEPT !.thread = "finished"] /\ pipe' = [pipe EXCEPT !.queue = <<>>]
      /\ readers' = [readers EXCEPT !.freed = @ \cup gone]
  BY DEF ThreadEnds
<1> HIDE DEF gone
<1>4. /\ flags' \in [parked : BOOLEAN, tearing : BOOLEAN, abandoned : BOOLEAN,
                     thread : {"running", "quitting", "finished"}]
      /\ flags'.thread = "finished" /\ flags'.parked = flags.parked
      /\ flags'.tearing = flags.tearing
  BY <1>3 DEF TypeInv
<1>5. /\ pipe' \in PipeType /\ pipe'.pc = pipe.pc /\ pipe'.queue = <<>> /\ pipe'.held = pipe.held
      /\ pipe'.reader = pipe.reader /\ pipe'.applied = pipe.applied
  <2>1. ASSUME NEW q \in Seq(EventType)
        PROVE  LET p == [pipe EXCEPT !.queue = q]
               IN  /\ p \in PipeType /\ p.pc = pipe.pc /\ p.queue = q /\ p.held = pipe.held
                   /\ p.reader = pipe.reader /\ p.applied = pipe.applied
    BY DEF TypeInv, PipeType
  <2>2. <<>> \in Seq(EventType)
    OBVIOUS
  <2> QED BY <1>3, <2>1, <2>2
<1>6. /\ readers' \in [current : Nat, made : Nat, freed : SUBSET Nat]
      /\ readers'.current = readers.current /\ readers'.made = readers.made
      /\ readers'.freed = readers.freed \cup gone
  BY <1>2, <1>3 DEF TypeInv
<1> QED BY <1>2, <1>3, <1>4, <1>5, <1>6 DEF TypeInv

(* The event loops are told to return. *)
LEMMA ExitShape ==
    ASSUME TypeInv, QuitDirectly
    PROVE  /\ TypeInv' /\ UNCHANGED <<pipe, calls, flags, readers>>
           /\ gui'.exiting /\ gui'.stack = gui.stack /\ gui'.queue = gui.queue
<1>1. /\ left' \in [edits : Nat, asks : Nat, commands : Nat, chunks : Nat, readers : Nat,
                    hang : BOOLEAN, quit : {"none", "engine", "direct"}]
  BY DEF QuitDirectly, TypeInv
<1>2. gui' \in GuiType /\ gui'.exiting /\ gui'.stack = gui.stack /\ gui'.queue = gui.queue
  BY DEF QuitDirectly, TypeInv, GuiType
<1> QED BY <1>1, <1>2 DEF QuitDirectly, TypeInv

-----------------------------------------------------------------------------
(* Each part of the invariant is preserved. *)

(* The steps of the program, one by one. *)
Steps ==
    \/ SyncChecksParked \/ MarshalSkipped \/ MarshalInline \/ LoopReturns \/ abandon
    \/ MarshalPosted \/ ServeQueued
    \/ CommandFinished \/ ScriptWoken
    \/ shutdown \/ joinServingGuiMarshals
    \/ AboutToQuit \/ QuitFromEngine
    \/ UserEdits \/ CommandEdits
    \/ UserAsks \/ CommandAsks
    \/ attach \/ detach \/ dataReceived \/ destroy
    \/ QuitDirectly
    \/ PipeTakes
    \/ GateChecked \/ CollectPosted \/ Answered \/ CommandPosted \/ ScriptHangs \/ CommandIssued
    \/ SnapshotApplied \/ ScriptEnds
    \/ ThreadEnds
    \/ UNCHANGED vars

(* They are all of them. *)
LEMMA StepsAreNext == [Next]_vars <=> Steps
BY DEF Next, GuiTurn, User, PipeTurn, Script, Steps

(* Every step keeps the types. *)
LEMMA TypeStep ==
    ASSUME TypeInv, Steps
    PROVE  TypeInv'
<1>1. CASE UNCHANGED vars
  BY <1>1 DEF TypeInv, vars
<1>2. CASE AboutToQuit \/ QuitFromEngine
  BY <1>2, QuitShape DEF AboutToQuit, QuitFromEngine
<1>3. CASE UserEdits \/ CommandEdits
  BY <1>3, EditedShape DEF UserEdits, CommandEdits
<1>4. CASE UserAsks \/ CommandAsks
  BY <1>4, AskedShape DEF UserAsks, CommandAsks
<1> QED
  BY <1>1, <1>2, <1>3, <1>4, CallShape, PostedShape, ServeShape, CommandShape, ShutdownShape,
     DeviceShape, ExitShape, TakeStep, PipeShape, FinishShape, EndShape DEF Steps

(* The sequences of a type-correct state. *)
LEMMA SequenceTypes ==
    ASSUME TypeInv
    PROVE  /\ gui.stack \in Seq(FrameType) /\ DOMAIN gui.stack = 1 .. Len(gui.stack)
           /\ gui.queue \in Seq({"sync", "collect", "command"})
           /\ DOMAIN gui.queue = 1 .. Len(gui.queue)
           /\ pipe.queue \in Seq(EventType) /\ DOMAIN pipe.queue = 1 .. Len(pipe.queue)
           /\ Len(gui.stack) \in Nat /\ Len(gui.queue) \in Nat /\ Len(pipe.queue) \in Nat
BY DEF TypeInv, GuiType, PipeType

(* No step but one makes a command of the GUI thread. *)
SameCommands ==
    \A i \in 1 .. Len(gui'.stack) : gui'.stack[i].op = "command" =>
        i \in 1 .. Len(gui.stack) /\ gui'.stack[i] = gui.stack[i]

(* No step but two makes a token. *)
SameTokens ==
    \A i \in 1 .. Len(gui'.queue) : gui'.queue[i] # "sync" =>
        i \in 1 .. Len(gui.queue) /\ gui'.queue[i] = gui.queue[i]

(* The bracket survives a step that makes no token and no command, and leaves
   the thread where it is. *)
LEMMA BracketKept ==
    ASSUME BracketInv, SameTokens, SameCommands, pipe'.pc = pipe.pc, flags'.parked => flags.parked
    PROVE  BracketInv'
<1>1. ParkedMeansQuiescent' /\ CommandPlace'
  BY DEF BracketInv, ParkedMeansQuiescent, SameCommands, CommandPlace
<1>2. TokenPlace'
  BY DEF BracketInv, SameTokens, TokenPlace
<1>3. TokenOnce'
  BY DEF BracketInv, SameTokens, TokenOnce
<1>4. CommandOnce'
  BY DEF BracketInv, SameTokens, SameCommands, CommandOnce
<1> QED BY <1>1, <1>2, <1>3, <1>4 DEF BracketInv

(* With no token and no command there is nothing to keep. *)
LEMMA BracketEmpty ==
    ASSUME SameTokens, SameCommands, flags'.parked => pipe'.pc \in {"parking", "parked"},
           \A i \in 1 .. Len(gui.queue) : gui.queue[i] = "sync",
           \A i \in 1 .. Len(gui.stack) : gui.stack[i].op # "command"
    PROVE  BracketInv'
<1>1. \A i \in 1 .. Len(gui'.queue) : gui'.queue[i] = "sync"
  BY DEF SameTokens
<1>2. \A i \in 1 .. Len(gui'.stack) : gui'.stack[i].op # "command"
  BY DEF SameCommands
<1> QED BY <1>1, <1>2 DEF BracketInv, ParkedMeansQuiescent, TokenPlace, TokenOnce, CommandPlace, CommandOnce

(* The bracket is kept by every step. *)
LEMMA BracketStep ==
    ASSUME TypeInv, TypeInv', BracketInv, Steps
    PROVE  BracketInv'
<1> USE SequenceTypes
<1>1. CASE UNCHANGED vars \/ attach \/ detach \/ dataReceived \/ destroy \/ QuitDirectly \/ ThreadEnds
  <2>1. gui'.queue = gui.queue /\ gui'.stack = gui.stack /\ pipe'.pc = pipe.pc
        /\ flags'.parked = flags.parked
    BY <1>1, DeviceShape, ExitShape, EndShape DEF vars
  <2> QED BY <2>1, BracketKept DEF SameTokens, SameCommands
<1>2. CASE AboutToQuit \/ QuitFromEngine \/ UserAsks \/ CommandAsks
  <2>1. /\ pipe' = pipe /\ flags'.parked = flags.parked /\ gui'.queue = gui.queue
        /\ Len(gui'.stack) = Len(gui.stack) + 1
        /\ \A i \in 1 .. Len(gui.stack) : gui'.stack[i] = gui.stack[i]
        /\ gui'.stack[Len(gui.stack) + 1].op # "command"
    <3>1. Frame("quit", "disconnect", None).op # "command" /\ Frame("ask", "marshal", None).op # "command"
      BY DEF Frame
    <3>2. onQuit \/ Asked
      BY <1>2 DEF AboutToQuit, QuitFromEngine, UserAsks, CommandAsks
    <3>3. CASE onQuit
      BY <3>1, <3>3, QuitShape
    <3>4. CASE Asked
      BY <3>1, <3>4, AskedShape
    <3> QED BY <3>2, <3>3, <3>4
  <2>2. SameCommands
    BY <2>1 DEF SameCommands
  <2> QED BY <2>1, <2>2, BracketKept DEF SameTokens
<1>3. CASE UserEdits \/ CommandEdits
  <2>1. Edited
    BY <1>3 DEF UserEdits, CommandEdits
  <2>2. pipe'.pc = pipe.pc /\ flags' = flags
    <3>1. Event("sync", None, "sync", None) \in EventType
      BY DEF Event, EventType, Ops, None
    <3>2. CASE pipe' = Post(Event("sync", None, "sync", None))
      <4>1. pipe' = [pipe EXCEPT !.queue = Append(pipe.queue, Event("sync", None, "sync", None))]
        BY <3>1, <3>2, PostShape
      <4> QED BY <2>1, <4>1, EditedShape DEF TypeInv, PipeType
    <3> QED BY <2>1, <3>2, EditedShape
  <2>3. SameCommands
    <3>1. Frame("sync", "check", project + 1).op # "command"
      BY DEF Frame
    <3> QED BY <2>1, <3>1, EditedShape DEF SameCommands
  <2>4. SameTokens
    <3>1. CASE gui'.queue = Append(gui.queue, "sync")
      BY <3>1 DEF SameTokens
    <3> QED BY <2>1, <3>1, EditedShape DEF SameTokens
  <2> QED BY <2>2, <2>3, <2>4, BracketKept
<1>4. CASE SyncChecksParked \/ MarshalSkipped \/ MarshalInline \/ LoopReturns \/ abandon \/ MarshalPosted
  <2>1. /\ InnerOnly /\ pipe'.pc = pipe.pc /\ flags' = flags
        /\ Top = gui.stack[Len(gui.stack)] /\ Top.pc \in {"check", "marshal", "wait", "abandon"}
    <3>1. CASE MarshalPosted
      <4>1. PICK e \in EventType : pipe' = Post(e)
        BY <3>1, PostedShape
      <4>2. pipe' = [pipe EXCEPT !.queue = Append(pipe.queue, e)]
        BY <4>1, PostShape
      <4> QED BY <3>1, <4>2, PostedShape DEF TypeInv, PipeType
    <3> QED BY <1>4, <3>1, CallShape
  <2>2. gui.stack[Len(gui.stack)].op # "command"
    BY <2>1 DEF BracketInv, CommandPlace, InnerOnly
  <2>3. SameCommands /\ SameTokens
    BY <2>1, <2>2 DEF InnerOnly, SameCommands, SameTokens
  <2> QED BY <2>1, <2>3, BracketKept
<1>5. CASE ServeQueued
  <2>1. /\ flags' = flags /\ gui.queue # <<>> /\ Len(gui'.queue) = Len(gui.queue) - 1
        /\ \A i \in 1 .. Len(gui.queue) - 1 : gui'.queue[i] = gui.queue[i + 1]
        /\ Len(gui.queue) > 0
    BY <1>5, ServeShape
  <2>2. TokenOnce'
    BY <2>1 DEF BracketInv, TokenOnce
  <2>3. CASE gui.queue[1] = "sync"
    <3>1. pipe' = pipe /\ SameCommands
      <4>1. Frame("sync", "check", project).op # "command"
        BY DEF Frame
      <4>2. \/ gui'.stack = gui.stack
            \/ /\ Len(gui'.stack) = Len(gui.stack) + 1
               /\ \A i \in 1 .. Len(gui.stack) : gui'.stack[i] = gui.stack[i]
               /\ gui'.stack[Len(gui.stack) + 1] = Frame("sync", "check", project)
        BY <1>5, <2>3, ServeShape
      <4>3. pipe' = pipe
        BY <1>5, <2>3, ServeShape
      <4> QED BY <4>1, <4>2, <4>3 DEF SameCommands
    <3>2. ParkedMeansQuiescent' /\ TokenPlace'
      BY <2>1, <3>1 DEF BracketInv, ParkedMeansQuiescent, TokenPlace
    <3>3. CommandPlace'
      BY <2>1, <3>1 DEF BracketInv, CommandPlace, SameCommands
    <3>4. CommandOnce'
      <4>1. ASSUME NEW i \in 1 .. Len(gui'.stack), NEW j \in 1 .. Len(gui'.queue),
                   gui'.stack[i].op = "command", gui'.queue[j] = "command"
            PROVE  FALSE
        <5>1. i \in 1 .. Len(gui.stack) /\ gui.stack[i].op = "command"
          BY <3>1, <4>1 DEF SameCommands
        <5>2. j + 1 \in 1 .. Len(gui.queue) /\ gui.queue[j + 1] = "command"
          BY <2>1, <4>1
        <5> QED BY <5>1, <5>2 DEF BracketInv, CommandOnce
      <4>2. \A i, j \in 1 .. Len(gui'.stack) :
               gui'.stack[i].op = "command" /\ gui'.stack[j].op = "command" => i = j
        BY <3>1 DEF BracketInv, CommandOnce, SameCommands
      <4> QED BY <4>1, <4>2 DEF CommandOnce
    <3> QED BY <2>2, <3>2, <3>3, <3>4 DEF BracketInv
  <2>4. CASE gui.queue[1] = "collect"
    <3>1. gui'.stack = gui.stack /\ pipe'.pc = "answered"
      BY <1>5, <2>4, ServeShape DEF TypeInv, PipeType
    <3>2. pipe.pc = "blocked" /\ ~flags.parked
      BY <2>1, <2>4 DEF BracketInv, ParkedMeansQuiescent, TokenPlace
    <3>3. \A i \in 1 .. Len(gui.stack) : gui.stack[i].op # "command"
      BY <3>2 DEF BracketInv, CommandPlace
    <3>4. \A i \in 1 .. Len(gui'.queue) : gui'.queue[i] = "sync"
      BY <2>1, <2>4, <3>2 DEF BracketInv, TokenPlace, TokenOnce
    <3> QED BY <2>1, <2>2, <3>1, <3>2, <3>3, <3>4
            DEF BracketInv, ParkedMeansQuiescent, TokenPlace, CommandPlace, CommandOnce
  <2>5. CASE gui.queue[1] = "command"
    <3>1. /\ pipe' = pipe /\ Len(gui'.stack) = Len(gui.stack) + 1
          /\ \A i \in 1 .. Len(gui.stack) : gui'.stack[i] = gui.stack[i]
          /\ gui'.stack[Len(gui.stack) + 1].op = "command"
          /\ gui'.stack[Len(gui.stack) + 1].pc = "run"
      <4>1. Frame("command", "run", None).op = "command" /\ Frame("command", "run", None).pc = "run"
        BY DEF Frame
      <4> QED BY <1>5, <2>5, <4>1, ServeShape
    <3>2. pipe.pc = "parked" /\ \A i \in 1 .. Len(gui.stack) : gui.stack[i].op # "command"
      BY <2>1, <2>5 DEF BracketInv, TokenPlace, CommandOnce
    <3>3. \A i \in 1 .. Len(gui'.queue) : gui'.queue[i] = "sync"
      BY <2>1, <2>5, <3>2 DEF BracketInv, TokenPlace, TokenOnce
    <3>4. ParkedMeansQuiescent' /\ TokenPlace'
      BY <2>1, <3>1, <3>2, <3>3 DEF BracketInv, ParkedMeansQuiescent, TokenPlace
    <3>5. \A i \in 1 .. Len(gui'.stack) :
             gui'.stack[i].op = "command" => i = Len(gui.stack) + 1
      BY <3>1, <3>2
    <3>6. CommandPlace'
      BY <3>1, <3>2, <3>5 DEF CommandPlace
    <3>7. CommandOnce'
      BY <3>3, <3>5 DEF CommandOnce
    <3> QED BY <2>2, <3>4, <3>6, <3>7 DEF BracketInv
  <2> QED BY <2>1, <2>3, <2>4, <2>5
<1>6. CASE CommandFinished \/ ScriptWoken
  <2>1. InnerOnly /\ Top = gui.stack[Len(gui.stack)] /\ Top.op = "command"
    BY <1>6, CommandShape
  <2>2. pipe.pc = "parked"
    BY <2>1 DEF BracketInv, CommandPlace, InnerOnly
  <2>3. \A i \in 1 .. Len(gui.stack) - 1 : gui.stack[i].op # "command"
    BY <2>1 DEF BracketInv, CommandOnce, InnerOnly
  <2>4. \A i \in 1 .. Len(gui'.queue) : gui'.queue[i] = "sync"
    BY <2>1, <2>2 DEF BracketInv, TokenPlace, CommandOnce, InnerOnly
  <2>5. TokenPlace' /\ TokenOnce'
    BY <2>4 DEF TokenPlace, TokenOnce
  <2>6. CASE CommandFinished /\ Top.pc = "run"
    <3>1. pipe'.pc = "parked" /\ ~flags'.parked /\ Len(gui'.stack) = Len(gui.stack)
          /\ gui'.stack[Len(gui.stack)].pc = "wake"
      BY <2>2, <2>6, CommandShape DEF ScriptWoken, Running
    <3>2. CommandPlace'
      BY <2>1, <2>3, <3>1 DEF CommandPlace, InnerOnly
    <3>3. CommandOnce'
      BY <2>1, <2>3, <2>4, <3>1 DEF CommandOnce, InnerOnly
    <3> QED BY <2>5, <3>1, <3>2, <3>3 DEF BracketInv, ParkedMeansQuiescent
  <2>7. CASE ScriptWoken /\ Top.pc = "wake"
    <3>1. flags' = flags /\ Len(gui'.stack) = Len(gui.stack) - 1
      BY <2>7, CommandShape DEF CommandFinished, Running
    <3>2. ~flags'.parked
      BY <2>1, <2>7, <3>1 DEF BracketInv, CommandPlace, InnerOnly
    <3>3. \A i \in 1 .. Len(gui'.stack) : gui'.stack[i].op # "command"
      BY <2>1, <2>3, <3>1 DEF InnerOnly
    <3> QED BY <2>5, <3>2, <3>3 DEF BracketInv, ParkedMeansQuiescent, CommandPlace, CommandOnce
  <2> QED BY <1>6, <2>6, <2>7, CommandShape
<1>7. CASE shutdown \/ joinServingGuiMarshals
  <2>1. InnerOnly /\ flags'.parked = flags.parked /\ gui.stack[Len(gui.stack)].op = "quit"
    BY <1>7, ShutdownShape
  <2>2. pipe'.pc = pipe.pc
    <3>1. CASE retireReader = "post"
      <4>1. PICK e \in EventType : PipeAfterRetire = Post(e)
        BY <3>1, RetireShape
      <4>2. Post(e) = [pipe EXCEPT !.queue = Append(pipe.queue, e)]
        BY PostShape
      <4>3. PipeAfterRetire.pc = pipe.pc
        BY <4>1, <4>2 DEF TypeInv, PipeType
      <4> QED BY <1>7, <4>3, ShutdownShape
    <3> QED BY <1>7, <3>1, ShutdownShape, RetireShape
  <2>3. SameCommands /\ SameTokens
    BY <2>1 DEF InnerOnly, SameCommands, SameTokens
  <2> QED BY <2>1, <2>2, <2>3, BracketKept
<1>8. ASSUME pipe.pc \notin {"blocked", "parked"}
      PROVE  /\ \A i \in 1 .. Len(gui.queue) : gui.queue[i] = "sync"
             /\ \A i \in 1 .. Len(gui.stack) : gui.stack[i].op # "command"
  BY <1>8 DEF BracketInv, TokenPlace, CommandPlace
<1>9. CASE PipeTakes \/ SnapshotApplied \/ ScriptEnds
  <2>1. /\ gui'.stack = gui.stack /\ gui'.queue = gui.queue /\ flags' = flags
        /\ pipe.pc \in {"idle", "apply", "script"}
    BY <1>9, TakeStep, FinishShape
  <2>2. ~flags'.parked
    BY <2>1 DEF BracketInv, ParkedMeansQuiescent
  <2> QED BY <1>8, <2>1, <2>2, BracketEmpty DEF SameTokens, SameCommands
<1>10. CASE GateChecked \/ CollectPosted \/ Answered \/ CommandPosted \/ ScriptHangs \/ CommandIssued
  <2>1. gui'.stack = gui.stack /\ pipe.pc \in {"gate", "ask", "answered", "script", "parking"}
    BY <1>10, PipeShape
  <2>2. /\ \A i \in 1 .. Len(gui.queue) : gui.queue[i] = "sync"
        /\ \A i \in 1 .. Len(gui.stack) : gui.stack[i].op # "command"
    BY <1>8, <2>1
  <2>3. CASE gui' = gui
    <3>1. flags'.parked => pipe'.pc \in {"parking", "parked"}
      BY <1>10, <2>1, <2>3, PipeShape DEF BracketInv, ParkedMeansQuiescent
    <3> QED BY <2>2, <2>3, <3>1, BracketEmpty DEF SameTokens, SameCommands
  <2>4. ASSUME NEW c \in {"collect", "command"}, gui'.queue = Append(gui.queue, c)
        PROVE  /\ Len(gui'.queue) = Len(gui.queue) + 1 /\ gui'.queue[Len(gui.queue) + 1] = c
               /\ \A i \in 1 .. Len(gui.queue) : gui'.queue[i] = "sync"
    BY <2>2, <2>4
  <2>5. CommandPlace' /\ CommandOnce'
    BY <2>1, <2>2 DEF CommandPlace, CommandOnce
  <2>6. CASE CollectPosted
    <3>1. /\ pipe.pc = "ask" /\ pipe'.pc = "blocked" /\ flags' = flags
          /\ gui'.queue = Append(gui.queue, "collect")
      BY <2>6, PipeShape DEF CommandPosted, CommandIssued, GateChecked, Answered, ScriptHangs, CollectPosted
    <3>2. TokenPlace' /\ TokenOnce'
      BY <2>4, <3>1 DEF TokenPlace, TokenOnce
    <3> QED BY <2>5, <3>1, <3>2 DEF BracketInv, ParkedMeansQuiescent
  <2>7. CASE CommandPosted
    <3>1. /\ pipe.pc = "parking" /\ pipe'.pc = "parked" /\ flags' = flags
          /\ gui'.queue = Append(gui.queue, "command")
      BY <2>7, PipeShape DEF CommandPosted, CommandIssued, GateChecked, Answered, ScriptHangs, CollectPosted
    <3>2. TokenPlace' /\ TokenOnce'
      BY <2>4, <3>1 DEF TokenPlace, TokenOnce
    <3> QED BY <2>5, <3>1, <3>2 DEF BracketInv, ParkedMeansQuiescent
  <2> QED BY <1>10, <2>3, <2>6, <2>7, PipeShape
<1> QED BY <1>1, <1>2, <1>3, <1>4, <1>5, <1>6, <1>7, <1>9, <1>10 DEF Steps

(* A step keeps the waits that it does not end. *)
SameWaits ==
    \A i \in 1 .. Len(gui.stack) : gui.stack[i].pc \in {"wait", "abandon"} =>
        /\ i \in 1 .. Len(gui'.stack) /\ gui'.stack[i].call = gui.stack[i].call
        /\ gui'.stack[i].pc \in {"wait", "abandon"}

(* Callers stay with such a step. *)
LEMMA CallersKept ==
    ASSUME WaitersAreCallers, SameWaits, calls'.waiting = calls.waiting
    PROVE  WaitersAreCallers'
BY DEF WaitersAreCallers, SameWaits

(* What posting and retiring leave alone. *)
LEMMA PostKeeps ==
    ASSUME TypeInv, NEW e \in EventType
    PROVE  /\ Post(e).pc = pipe.pc /\ Post(e).held = pipe.held /\ Post(e).reader = pipe.reader
           /\ Post(e).applied = pipe.applied
<1>1. Post(e) = [pipe EXCEPT !.queue = Append(pipe.queue, e)]
  BY PostShape
<1> QED BY <1>1 DEF TypeInv, PipeType

(* Retiring a reader leaves the thread where it is. *)
LEMMA RetireKeeps ==
    ASSUME TypeInv
    PROVE  /\ PipeAfterRetire.pc = pipe.pc /\ PipeAfterRetire.held = pipe.held
           /\ PipeAfterRetire.reader = pipe.reader /\ PipeAfterRetire.applied = pipe.applied
BY RetireShape, PostKeeps

(* A wait and its function stay together. *)
LEMMA WaiterStep ==
    ASSUME TypeInv, BracketInv, WaiterInv, Steps
    PROVE  WaiterInv'
<1> USE DEF WaiterInv
<1>1. CASE \/ UNCHANGED vars \/ attach \/ detach \/ dataReceived \/ destroy \/ QuitDirectly
           \/ ThreadEnds \/ SnapshotApplied \/ ScriptEnds \/ PipeTakes
           \/ GateChecked \/ CollectPosted \/ Answered \/ CommandPosted \/ ScriptHangs \/ CommandIssued
  <2>1. /\ gui'.stack = gui.stack /\ calls'.waiting = calls.waiting
        /\ pipe'.held = pipe.held \/ pipe'.held = None \/ pipe'.held \in calls.waiting
    BY <1>1, DeviceShape, ExitShape, EndShape, FinishShape, TakeStep, PipeShape DEF vars
  <2>2. WaitersAreCallers'
    BY <2>1, CallersKept DEF SameWaits
  <2> QED BY <2>1, <2>2 DEF HeldWaits
<1>2. CASE \/ AboutToQuit \/ QuitFromEngine \/ UserAsks \/ CommandAsks \/ UserEdits \/ CommandEdits
           \/ ServeQueued
  <2>1. CASE onQuit
    BY <2>1, QuitShape, CallersKept DEF SameWaits, HeldWaits
  <2>2. CASE Asked
    BY <2>2, AskedShape, CallersKept DEF SameWaits, HeldWaits
  <2>3. CASE Edited
    <3>1. Event("sync", None, "sync", None) \in EventType
      BY DEF Event, EventType, Ops, None
    <3>2. pipe'.held = pipe.held
      BY <2>3, <3>1, EditedShape, PostKeeps
    <3> QED BY <2>3, <3>2, EditedShape, CallersKept DEF SameWaits, HeldWaits
  <2>4. CASE ServeQueued
    <3>1. pipe'.held = pipe.held
      BY <2>4, ServeShape DEF TypeInv, PipeType
    <3> QED BY <2>4, <3>1, ServeShape, CallersKept DEF SameWaits, HeldWaits
  <2> QED
    BY <1>2, <2>1, <2>2, <2>3, <2>4
    DEF AboutToQuit, QuitFromEngine, UserAsks, CommandAsks, UserEdits, CommandEdits
<1>3. CASE SyncChecksParked \/ MarshalSkipped \/ MarshalInline \/ LoopReturns
  <2>1. CASE abandon
    <3>1. Top.pc = "abandon"
      BY <2>1 DEF abandon
    <3> QED BY <1>3, <3>1 DEF SyncChecksParked, MarshalSkipped, MarshalInline, LoopReturns, Running
  <2>2. CASE ~abandon
    <3>1. InnerOnly /\ calls'.waiting = calls.waiting /\ pipe'.held = pipe.held
      BY <1>3, <2>2, CallShape
    <3>2. SameWaits
      BY <1>3, <2>2, <3>1, CallShape DEF InnerOnly, SameWaits
    <3> QED BY <3>1, <3>2, CallersKept DEF HeldWaits
  <2> QED BY <2>1, <2>2
<1>4. CASE abandon
  <2>1. /\ InnerOnly /\ calls'.waiting = calls.waiting \ {Top.call} /\ pipe'.held = pipe.held
        /\ Top = gui.stack[Len(gui.stack)] /\ pipe.held # Top.call
    BY <1>4, CallShape DEF abandon
  <2>2. HeldWaits'
    BY <2>1 DEF HeldWaits
  <2>3. ASSUME NEW c \in calls'.waiting
        PROVE  \E i \in 1 .. Len(gui'.stack) :
                   gui'.stack[i].call = c /\ gui'.stack[i].pc \in {"wait", "abandon"}
    <3>1. PICK i \in 1 .. Len(gui.stack) :
              gui.stack[i].call = c /\ gui.stack[i].pc \in {"wait", "abandon"}
      BY <2>1, <2>3 DEF WaitersAreCallers
    <3>2. i # Len(gui.stack)
      BY <2>1, <2>3, <3>1
    <3> QED BY <2>1, <3>1, <3>2 DEF InnerOnly
  <2> QED BY <2>2, <2>3 DEF WaitersAreCallers
<1>5. CASE MarshalPosted
  <2>1. /\ InnerOnly /\ calls'.waiting = calls.waiting \cup {calls.made + 1}
        /\ gui.stack[Len(gui.stack)].pc = "marshal" /\ Len(gui'.stack) = Len(gui.stack)
        /\ gui'.stack[Len(gui.stack)].call = calls.made + 1
        /\ gui'.stack[Len(gui.stack)].pc = "wait"
    BY <1>5, PostedShape
  <2>2. pipe'.held = pipe.held
    BY <1>5, PostedShape, PostKeeps
  <2>3. SameWaits
    BY <2>1 DEF InnerOnly, SameWaits
  <2>4. WaitersAreCallers'
    BY <2>1, <2>3 DEF WaitersAreCallers, SameWaits, InnerOnly
  <2> QED BY <2>1, <2>2, <2>4 DEF HeldWaits
<1>6. CASE CommandFinished \/ ScriptWoken
  <2>1. /\ InnerOnly /\ calls' = calls /\ pipe'.held = pipe.held
        /\ gui.stack[Len(gui.stack)].pc \in {"run", "wake"}
    BY <1>6, CommandShape
  <2>2. SameWaits
    BY <2>1 DEF InnerOnly, SameWaits
  <2> QED BY <2>1, <2>2, CallersKept DEF HeldWaits
<1>7. CASE shutdown \/ joinServingGuiMarshals
  <2>1. /\ InnerOnly /\ calls' = calls
        /\ gui.stack[Len(gui.stack)].pc \in {"disconnect", "join"}
    BY <1>7, ShutdownShape
  <2>2. pipe'.held = pipe.held
    BY <1>7, ShutdownShape, RetireKeeps
  <2>3. SameWaits
    BY <2>1 DEF InnerOnly, SameWaits
  <2> QED BY <2>1, <2>2, <2>3, CallersKept DEF HeldWaits
<1> QED BY <1>1, <1>2, <1>3, <1>4, <1>5, <1>6, <1>7 DEF Steps

(* Which steps move the processing thread, and from where. *)
LEMMA PlaceStep ==
    ASSUME TypeInv, BracketInv, Steps
    PROVE  \/ pipe'.pc = pipe.pc /\ pipe'.reader = pipe.reader
           \/ ServeQueued /\ pipe.pc = "blocked" /\ pipe'.reader = pipe.reader
           \/ ScriptWoken /\ pipe.pc = "parked" /\ pipe'.pc = "script" /\ pipe'.reader = pipe.reader
           \/ PipeTakes /\ pipe.pc = "idle" /\ flags.thread # "finished"
                 /\ (pipe'.reader = pipe.reader \/ pipe'.pc = "script")
           \/ pipe'.reader = None /\ pipe.pc \in {"apply", "script"}
           \/ /\ pipe'.reader = pipe.reader
              /\ \/ pipe.pc \in {"gate", "ask", "answered"}
                 \/ pipe.pc = "script" /\ pipe'.pc \in {"hung", "parking"}
                 \/ pipe.pc = "parking" /\ pipe'.pc = "parked"
<1>1. CASE UNCHANGED vars \/ attach \/ detach \/ dataReceived \/ destroy \/ QuitDirectly \/ ThreadEnds
  BY <1>1, DeviceShape, ExitShape, EndShape DEF vars
<1>2. CASE SnapshotApplied \/ ScriptEnds
  BY <1>2, FinishShape
<1>3. CASE PipeTakes
  BY <1>3, TakeStep
<1>4. CASE GateChecked \/ CollectPosted \/ Answered \/ CommandPosted \/ ScriptHangs \/ CommandIssued
  BY <1>4, PipeShape
<1>5. CASE AboutToQuit \/ QuitFromEngine \/ UserAsks \/ CommandAsks
  BY <1>5, QuitShape, AskedShape DEF AboutToQuit, QuitFromEngine, UserAsks, CommandAsks
<1>6. CASE UserEdits \/ CommandEdits
  <2>1. Event("sync", None, "sync", None) \in EventType
    BY DEF Event, EventType, Ops, None
  <2> QED BY <1>6, <2>1, EditedShape, PostKeeps DEF UserEdits, CommandEdits
<1>7. CASE ServeQueued
  <2>1. CASE gui.queue[1] = "collect"
    <3>1. 1 \in 1 .. Len(gui.queue)
      BY <1>7, SequenceTypes, ServeShape
    <3>2. pipe.pc = "blocked"
      BY <2>1, <3>1 DEF BracketInv, TokenPlace
    <3>3. gui.queue[1] \notin {"sync", "command"}
      BY <2>1
    <3>4. pipe' = [pipe EXCEPT !.pc = "answered", !.snap = project]
      BY <1>7, <3>3, ServeShape
    <3> QED BY <1>7, <3>2, <3>4 DEF TypeInv, PipeType
  <2>2. CASE gui.queue[1] # "collect"
    BY <1>7, <2>2, ServeShape
  <2> QED BY <2>1, <2>2
<1>8. CASE SyncChecksParked \/ MarshalSkipped \/ MarshalInline \/ LoopReturns \/ abandon
  BY <1>8, CallShape
<1>9. CASE MarshalPosted
  BY <1>9, PostedShape, PostKeeps
<1>10. CASE CommandFinished \/ ScriptWoken
  <2>1. /\ Len(gui.stack) \in 1 .. Len(gui.stack) /\ gui.stack[Len(gui.stack)].op = "command"
    BY <1>10, CommandShape, SequenceTypes DEF InnerOnly
  <2>2. pipe.pc = "parked"
    BY <2>1 DEF BracketInv, CommandPlace
  <2> QED BY <1>10, <2>2, CommandShape
<1>11. CASE shutdown \/ joinServingGuiMarshals
  BY <1>11, ShutdownShape, RetireKeeps
<1> QED BY <1>1, <1>2, <1>3, <1>4, <1>5, <1>6, <1>7, <1>8, <1>9, <1>10, <1>11 DEF Steps

(* The thread stays in a reader only while it parses. *)
LEMMA ParseStep ==
    ASSUME TypeInv, BracketInv, ParseInv, Steps
    PROVE  ParseInv'
BY PlaceStep DEF ParseInv

(* While it lasts no event loop serves devices. *)
LEMMA NoPumping ==
    ASSUME TypeInv, QuitCalled \/ gui.exiting
    PROVE  ~Pumping
<1>1. CASE gui.exiting
  BY <1>1 DEF Pumping
<1>2. CASE QuitCalled
  <2>1. PICK k \in 1 .. Len(gui.stack) : \A i \in k .. Len(gui.stack) : gui.stack[i].pc # "wait"
    BY <1>2 DEF QuitCalled
  <2>2. Len(gui.stack) \in k .. Len(gui.stack) /\ gui.stack # <<>>
    BY <2>1, SequenceTypes
  <2>3. Top = gui.stack[Len(gui.stack)] /\ Top \in FrameType
    BY <2>2, SequenceTypes DEF Top, Last
  <2> QED BY <2>1, <2>2, <2>3 DEF Pumping, FrameType
<1> QED BY <1>1, <1>2

(* A step leaves the innermost call's kind and all outer calls alone. *)
SameKinds ==
    /\ flags' = flags
    /\ \A i \in 1 .. Len(gui'.stack) : gui'.stack[i].op = "quit" =>
          i \in 1 .. Len(gui.stack) /\ gui.stack[i].op = "quit"

(* The call of a quit lasts through a step that enters a call, ... *)
LEMMA QuitLasts ==
    ASSUME TypeInv, TeardownInv, SameKinds, gui'.exiting = gui.exiting,
           \/ gui'.stack = gui.stack
           \/ /\ Len(gui'.stack) = Len(gui.stack) + 1
              /\ \A i \in 1 .. Len(gui.stack) : gui'.stack[i] = gui.stack[i]
              /\ gui'.stack[Len(gui.stack) + 1].pc # "wait"
    PROVE  TeardownInv'
<1>1. ASSUME QuitCalled PROVE QuitCalled'
  <2>1. PICK k \in 1 .. Len(gui.stack) :
          /\ gui.stack[k].op = "quit" /\ gui.stack[k].pc \in {"disconnect", "join"}
          /\ \A i \in k .. Len(gui.stack) : gui.stack[i].pc # "wait"
    BY <1>1 DEF QuitCalled
  <2>2. Len(gui.stack) \in Nat
    BY SequenceTypes
  <2>3. k \in 1 .. Len(gui'.stack) /\ gui'.stack[k] = gui.stack[k]
    BY <2>2
  <2>4. \A i \in k .. Len(gui'.stack) : gui'.stack[i].pc # "wait"
    BY <2>1, <2>2
  <2> QED BY <2>1, <2>3, <2>4 DEF QuitCalled
<1> QED BY <1>1 DEF TeardownInv, SameKinds

(* ... and through one of a call made from it. *)
LEMMA QuitOutlasts ==
    ASSUME TypeInv, TeardownInv, InnerOnly, gui'.exiting = gui.exiting,
           flags'.tearing = flags.tearing, flags'.thread = flags.thread,
           gui.stack[Len(gui.stack)].pc \notin {"disconnect", "join"},
           Len(gui'.stack) = Len(gui.stack) =>
               gui'.stack[Len(gui.stack)].pc # "wait" \/ ~flags.tearing
    PROVE  TeardownInv'
<1> USE SequenceTypes
<1>1. ASSUME QuitCalled, flags.tearing PROVE QuitCalled'
  <2>1. PICK k \in 1 .. Len(gui.stack) :
          /\ gui.stack[k].op = "quit" /\ gui.stack[k].pc \in {"disconnect", "join"}
          /\ \A i \in k .. Len(gui.stack) : gui.stack[i].pc # "wait"
    BY <1>1 DEF QuitCalled
  <2>2. k # Len(gui.stack)
    BY <2>1
  <2>3. k \in 1 .. Len(gui'.stack) /\ gui'.stack[k] = gui.stack[k]
    BY <2>2 DEF InnerOnly
  <2>4. \A i \in k .. Len(gui'.stack) : gui'.stack[i].pc # "wait"
    BY <1>1, <2>1 DEF InnerOnly
  <2> QED BY <2>1, <2>3, <2>4 DEF QuitCalled
<1>2. \A i \in 1 .. Len(gui'.stack) : gui'.stack[i].op = "quit" => flags.tearing
  BY DEF InnerOnly, TeardownInv
<1> QED BY <1>1, <1>2 DEF TeardownInv

(* Teardown keeps the GUI thread in the quit's call, or past it. *)
LEMMA TeardownStep ==
    ASSUME TypeInv, TypeInv', TeardownInv, Steps
    PROVE  TeardownInv'
<1> USE SequenceTypes
<1>1. CASE \/ UNCHANGED vars \/ attach \/ detach \/ dataReceived \/ destroy \/ PipeTakes
           \/ SnapshotApplied \/ ScriptEnds \/ ThreadEnds
           \/ GateChecked \/ CollectPosted \/ Answered \/ CommandPosted \/ ScriptHangs \/ CommandIssued
  <2>1. /\ gui'.stack = gui.stack /\ gui'.exiting = gui.exiting /\ flags'.tearing = flags.tearing
        /\ flags'.thread = flags.thread \/ flags.thread # "running"
    BY <1>1, DeviceShape, EndShape, TakeStep, FinishShape, PipeShape DEF vars
  <2>2. QuitCalled' <=> QuitCalled
    BY <2>1 DEF QuitCalled
  <2> QED BY <2>1, <2>2 DEF TeardownInv
<1>2. CASE QuitDirectly
  BY <1>2, ExitShape DEF TeardownInv
<1>3. CASE AboutToQuit \/ QuitFromEngine
  <2>1. Frame("quit", "disconnect", None).op = "quit" /\ Frame("quit", "disconnect", None).pc = "disconnect"
    BY DEF Frame
  <2>2. onQuit
    BY <1>3 DEF AboutToQuit, QuitFromEngine
  <2>3. /\ flags'.tearing /\ Len(gui'.stack) = Len(gui.stack) + 1
        /\ gui'.stack[Len(gui.stack) + 1].op = "quit"
        /\ gui'.stack[Len(gui.stack) + 1].pc = "disconnect"
    BY <2>1, <2>2, QuitShape
  <2>4. QuitCalled'
    <3>1. Len(gui.stack) + 1 \in 1 .. Len(gui'.stack)
      BY <2>3
    <3>2. \A i \in Len(gui.stack) + 1 .. Len(gui'.stack) : gui'.stack[i].pc # "wait"
      BY <2>3
    <3> QED BY <2>3, <3>1, <3>2 DEF QuitCalled
  <2> QED BY <2>3, <2>4 DEF TeardownInv
<1>4. CASE UserEdits \/ CommandEdits \/ UserAsks \/ CommandAsks \/ ServeQueued
  <2>1. /\ flags' = flags /\ gui'.exiting = gui.exiting
        /\ \/ gui'.stack = gui.stack
           \/ /\ Len(gui'.stack) = Len(gui.stack) + 1
              /\ \A i \in 1 .. Len(gui.stack) : gui'.stack[i] = gui.stack[i]
              /\ gui'.stack[Len(gui.stack) + 1].pc # "wait"
              /\ gui'.stack[Len(gui.stack) + 1].op # "quit"
    <3>1. /\ \A v : Frame("sync", "check", v).pc # "wait" /\ Frame("sync", "check", v).op # "quit"
          /\ Frame("ask", "marshal", None).pc # "wait" /\ Frame("ask", "marshal", None).op # "quit"
          /\ Frame("command", "run", None).pc # "wait" /\ Frame("command", "run", None).op # "quit"
      BY DEF Frame
    <3>2. CASE Edited
      BY <3>1, <3>2, EditedShape
    <3>3. CASE Asked
      BY <3>1, <3>3, AskedShape
    <3>4. CASE ServeQueued
      BY <3>1, <3>4, ServeShape
    <3> QED BY <1>4, <3>2, <3>3, <3>4 DEF UserEdits, CommandEdits, UserAsks, CommandAsks
  <2>2. SameKinds
    BY <2>1 DEF SameKinds
  <2> QED BY <2>1, <2>2, QuitLasts
<1>5. CASE SyncChecksParked \/ MarshalSkipped \/ MarshalInline \/ LoopReturns \/ abandon
  <2>1. /\ InnerOnly /\ gui'.exiting = gui.exiting /\ flags' = flags
        /\ gui.stack[Len(gui.stack)].pc \notin {"disconnect", "join"}
        /\ Len(gui'.stack) = Len(gui.stack) => gui'.stack[Len(gui.stack)].pc # "wait"
    BY <1>5, CallShape
  <2> QED BY <2>1, QuitOutlasts
<1>6. CASE MarshalPosted
  BY <1>6, PostedShape, QuitOutlasts
<1>7. CASE CommandFinished \/ ScriptWoken
  <2>1. /\ InnerOnly /\ gui'.exiting = gui.exiting
        /\ flags'.tearing = flags.tearing /\ flags'.thread = flags.thread
        /\ gui.stack[Len(gui.stack)].pc \notin {"disconnect", "join"}
        /\ Len(gui'.stack) = Len(gui.stack) => gui'.stack[Len(gui.stack)].pc # "wait"
    BY <1>7, CommandShape
  <2> QED BY <2>1, QuitOutlasts
<1>8. CASE joinServingGuiMarshals
  <2>1. /\ InnerOnly /\ gui'.exiting /\ flags'.tearing = flags.tearing
        /\ flags'.thread = flags.thread
        /\ gui.stack[Len(gui.stack)].op = "quit"
    BY <1>8, ShutdownShape DEF shutdown, joinServingGuiMarshals, Running
  <2>2. flags.tearing
    BY <2>1 DEF TeardownInv, InnerOnly
  <2> QED BY <2>1, <2>2 DEF TeardownInv
<1>9. CASE shutdown
  <2>1. /\ InnerOnly /\ gui'.exiting = gui.exiting /\ flags'.tearing = flags.tearing
        /\ gui.stack[Len(gui.stack)].op = "quit" /\ Len(gui'.stack) = Len(gui.stack)
        /\ gui'.stack[Len(gui.stack)].pc = "join"
    BY <1>9, ShutdownShape DEF shutdown, joinServingGuiMarshals, Running
  <2>2. flags.tearing
    BY <2>1 DEF TeardownInv, InnerOnly
  <2>3. QuitCalled'
    <3>1. Len(gui.stack) \in 1 .. Len(gui'.stack) /\ gui'.stack[Len(gui.stack)].op = "quit"
      BY <2>1 DEF InnerOnly
    <3>2. \A i \in Len(gui.stack) .. Len(gui'.stack) : gui'.stack[i].pc # "wait"
      BY <2>1
    <3> QED BY <2>1, <3>1, <3>2 DEF QuitCalled
  <2> QED BY <2>1, <2>2, <2>3 DEF TeardownInv
<1> QED BY <1>1, <1>2, <1>3, <1>4, <1>5, <1>6, <1>7, <1>8, <1>9 DEF Steps

(* What a step posts to the processing thread's queue, when it posts. *)
Posts(e) == e \in EventType /\ pipe' = Post(e)

(* The steps that touch the queue or the readers; the others leave both alone. *)
LEMMA QueueStep ==
    ASSUME TypeInv, Steps
    PROVE  \/ pipe'.queue = pipe.queue /\ readers' = readers
           \/ /\ \E e : Posts(e) /\ e.kind \notin {"chunk", "delete"}
              /\ readers' = readers
           \/ attach \/ detach \/ dataReceived \/ destroy \/ PipeTakes \/ ThreadEnds
           \/ shutdown /\ pipe' = PipeAfterRetire /\ readers' = ReadersAfterRetire
<1>1. CASE UNCHANGED vars \/ QuitDirectly \/ SnapshotApplied \/ ScriptEnds
           \/ GateChecked \/ CollectPosted \/ Answered \/ CommandPosted \/ ScriptHangs \/ CommandIssued
           \/ SyncChecksParked \/ MarshalSkipped \/ MarshalInline \/ LoopReturns \/ abandon
  BY <1>1, ExitShape, FinishShape, PipeShape, CallShape DEF vars
<1>2. CASE AboutToQuit \/ QuitFromEngine \/ UserAsks \/ CommandAsks
  BY <1>2, QuitShape, AskedShape DEF AboutToQuit, QuitFromEngine, UserAsks, CommandAsks
<1>3. CASE UserEdits \/ CommandEdits
  <2>1. /\ Event("sync", None, "sync", None) \in EventType
        /\ Event("sync", None, "sync", None).kind \notin {"chunk", "delete"}
    BY DEF Event, EventType, Ops, None
  <2>2. readers' = readers /\ (pipe' = pipe \/ pipe' = Post(Event("sync", None, "sync", None)))
    BY <1>3, EditedShape DEF UserEdits, CommandEdits
  <2> QED BY <2>1, <2>2 DEF Posts
<1>4. CASE ServeQueued
  BY <1>4, ServeShape DEF TypeInv, PipeType
<1>5. CASE MarshalPosted
  <2>1. PICK e \in EventType : e.kind = "dispatch" /\ pipe' = Post(e)
    BY <1>5, PostedShape
  <2> QED BY <1>5, <2>1, PostedShape DEF Posts
<1>6. CASE CommandFinished \/ ScriptWoken
  BY <1>6, CommandShape DEF Posts
<1>7. CASE shutdown \/ joinServingGuiMarshals
  BY <1>7, ShutdownShape
<1> QED BY <1>1, <1>2, <1>3, <1>4, <1>5, <1>6, <1>7 DEF Steps

(* The thread's state moves from running to quitting to finished. *)
LEMMA ThreadStep ==
    ASSUME TypeInv, Steps, flags'.thread = "finished"
    PROVE  flags.thread = "finished" \/ ThreadEnds
BY QuitShape, AskedShape, EditedShape, ServeShape, CallShape, PostedShape, CommandShape,
   ShutdownShape, DeviceShape, ExitShape, TakeStep, PipeShape, FinishShape
DEF Steps, vars, AboutToQuit, QuitFromEngine, UserAsks, CommandAsks, UserEdits, CommandEdits

(* A thread that has ended stays at rest. *)
LEMMA FinishedStep ==
    ASSUME TypeInv, TypeInv', BracketInv, TeardownInv, FinishedInv, Steps
    PROVE  FinishedInv'
<1> USE SequenceTypes
<1>1. CASE ThreadEnds
  BY <1>1, EndShape DEF FinishedInv
<1>2. CASE flags.thread = "finished"
  <2>1. /\ pipe.pc = "idle"
        /\ \A i \in 1 .. Len(pipe.queue) : pipe.queue[i].kind # "chunk"
    BY <1>2 DEF FinishedInv
  <2>2. pipe'.pc = "idle"
    BY <1>2, <2>1, PlaceStep
  <2>3. ~Pumping
    BY <1>2, NoPumping DEF TeardownInv
  <2>4. ASSUME NEW e, Posts(e), e.kind # "chunk"
        PROVE  \A i \in 1 .. Len(pipe'.queue) : pipe'.queue[i].kind # "chunk"
    BY <2>1, <2>4, PostShape DEF Posts
  <2>5. ASSUME pipe' = PipeAfterRetire
        PROVE  \A i \in 1 .. Len(pipe'.queue) : pipe'.queue[i].kind # "chunk"
    <3>1. Event("delete", readers.current, "", None).kind # "chunk"
      BY DEF Event
    <3> QED BY <2>1, <2>4, <2>5, <3>1, RetireShape DEF Posts
  <2>6. \A i \in 1 .. Len(pipe'.queue) : pipe'.queue[i].kind # "chunk"
    BY <1>2, <2>1, <2>3, <2>4, <2>5, QueueStep, TakeStep, EndShape
    DEF attach, detach, dataReceived, destroy
  <2> QED BY <2>2, <2>6 DEF FinishedInv
<1> QED BY <1>1, <1>2, ThreadStep DEF FinishedInv

(* Posting anything but a chunk or a deletion keeps the readers' order. *)
LEMMA ReadersKept ==
    ASSUME TypeInv, DeletedRetired, ChunksLive, readers' = readers,
           \/ pipe'.queue = pipe.queue
           \/ \E e : Posts(e) /\ e.kind \notin {"chunk", "delete"}
    PROVE  DeletedRetired' /\ ChunksLive'
<1>1. CASE pipe'.queue = pipe.queue
  BY <1>1 DEF DeletedRetired, ChunksLive
<1>2. CASE \E e : Posts(e) /\ e.kind \notin {"chunk", "delete"}
  <2>1. PICK e \in EventType : pipe' = Post(e) /\ e.kind \notin {"chunk", "delete"}
    BY <1>2 DEF Posts
  <2>2. /\ Len(pipe'.queue) = Len(pipe.queue) + 1 /\ pipe'.queue[Len(pipe.queue) + 1] = e
        /\ \A i \in 1 .. Len(pipe.queue) : pipe'.queue[i] = pipe.queue[i]
        /\ Len(pipe.queue) \in Nat
    BY <2>1, PostShape, SequenceTypes
  <2>3. \A i \in 1 .. Len(pipe'.queue) : pipe'.queue[i].kind \in {"chunk", "delete"} =>
            i \in 1 .. Len(pipe.queue) /\ pipe'.queue[i] = pipe.queue[i]
    BY <2>1, <2>2
  <2>4. DeletedRetired'
    BY <2>3 DEF DeletedRetired
  <2>5. ChunksLive'
    BY <2>3 DEF ChunksLive
  <2> QED BY <2>4, <2>5
<1> QED BY <1>1, <1>2

(* Retiring the current reader, and putting a new one in its place, keeps the
   order: the deletion follows all chunks, or no chunk is left. *)
LEMMA RetireStep ==
    ASSUME TypeInv, TypeInv', ParseInv, FinishedInv, ReaderInv,
           pipe' = PipeAfterRetire, readers'.freed = ReadersAfterRetire.freed,
           readers.made <= readers'.made, readers'.current <= readers'.made,
           readers'.current = None \/ readers.made < readers'.current
    PROVE  ReaderInv'
<1> DEFINE r == readers.current
<1>1. /\ r \in Nat /\ readers.made \in Nat /\ readers'.current \in Nat /\ readers'.made \in Nat
      /\ pipe.queue \in Seq(EventType) /\ Len(pipe.queue) \in Nat
      /\ readers.freed \subseteq Nat /\ readers'.freed \subseteq Nat
  BY SequenceTypes DEF TypeInv
<1>2. /\ r <= readers.made /\ r \notin readers.freed /\ pipe.reader \notin readers.freed
      /\ \A f \in readers.freed : f # None /\ f <= readers.made
  BY DEF ReaderInv, ReadersLive
<1>3. \A i \in 1 .. Len(pipe.queue) : pipe.queue[i].n \in Nat
  <2>1. \A i \in 1 .. Len(pipe.queue) : pipe.queue[i] \in EventType
    BY <1>1
  <2> QED BY <2>1 DEF EventType
<1>4. pipe'.reader = pipe.reader
  BY RetireKeeps
<1>5. CASE retireReader = "post"
  <2>1. /\ pipe' = Post(Event("delete", r, "", None))
        /\ Event("delete", r, "", None) \in EventType
        /\ readers'.freed = readers.freed /\ r # None
    BY <1>5, RetireShape
  <2> DEFINE e == Event("delete", r, "", None)
  <2>a. e.kind = "delete" /\ e.n = r
    BY DEF Event
  <2> HIDE DEF e
  <2>b. e \in EventType /\ pipe' = Post(e)
    BY <2>1 DEF e
  <2>2. /\ Len(pipe'.queue) = Len(pipe.queue) + 1
        /\ \A i \in 1 .. Len(pipe.queue) : pipe'.queue[i] = pipe.queue[i]
        /\ pipe'.queue[Len(pipe.queue) + 1] = e
    <3>1. /\ Len(Post(e).queue) = Len(pipe.queue) + 1
          /\ \A i \in 1 .. Len(pipe.queue) : Post(e).queue[i] = pipe.queue[i]
          /\ Post(e).queue[Len(pipe.queue) + 1] = e
      BY <2>b, PostShape, Zenon
    <3> QED BY <2>b, <3>1
  <2>3. ReadersLive'
    <3>1. \A f \in readers.freed : f # None /\ f <= readers'.made
      BY <1>1, <1>2
    <3>2. readers'.current \notin readers.freed
      BY <1>1, <1>2
    <3> QED BY <1>2, <1>4, <2>1, <3>1, <3>2 DEF ReadersLive
  <2>4. DeletedRetired'
    <3>1. \A i \in 1 .. Len(pipe.queue) : pipe.queue[i].kind = "delete" =>
              /\ pipe.queue[i].n # None /\ pipe.queue[i].n <= readers.made
      BY DEF DeletedRetired, ReaderInv
    <3>2. ASSUME NEW i \in 1 .. Len(pipe'.queue), pipe'.queue[i].kind = "delete"
          PROVE  pipe'.queue[i].n \in Nat /\ pipe'.queue[i].n # None /\ pipe'.queue[i].n <= readers.made
      <4>1. CASE i = Len(pipe.queue) + 1
        BY <1>1, <1>2, <2>1, <2>a, <2>2, <4>1
      <4>2. CASE i # Len(pipe.queue) + 1
        <5>1. i \in 1 .. Len(pipe.queue)
          BY <1>1, <2>2, <4>2
        <5> QED BY <1>3, <2>2, <3>1, <3>2, <5>1
      <4> QED BY <4>1, <4>2
    <3>3. \A n \in Nat : n # None /\ n <= readers.made => n # readers'.current /\ n <= readers'.made
      BY <1>1
    <3> QED BY <3>2, <3>3 DEF DeletedRetired
  <2>5. ASSUME NEW i \in 1 .. Len(pipe'.queue), pipe'.queue[i].kind = "chunk"
        PROVE  /\ pipe'.queue[i].n <= readers'.made /\ pipe'.queue[i].n \notin readers'.freed
               /\ \A j \in 1 .. Len(pipe'.queue) :
                     pipe'.queue[j].kind = "delete" /\ pipe'.queue[j].n = pipe'.queue[i].n => i < j
    <3>1. i \in 1 .. Len(pipe.queue) /\ pipe'.queue[i] = pipe.queue[i]
      BY <1>1, <2>a, <2>2, <2>5
    <3>2. /\ pipe.queue[i].n <= readers.made /\ pipe.queue[i].n \notin readers.freed
          /\ \A j \in 1 .. Len(pipe.queue) :
                pipe.queue[j].kind = "delete" /\ pipe.queue[j].n = pipe.queue[i].n => i < j
      BY <2>5, <3>1 DEF ReaderInv, ChunksLive
    <3>3. pipe.queue[i].n \in Nat
      BY <1>3, <3>1
    <3>4. pipe'.queue[i].n <= readers'.made /\ pipe'.queue[i].n \notin readers'.freed
      <4>1. \A n \in Nat : n <= readers.made => n <= readers'.made
        BY <1>1
      <4> QED BY <2>1, <3>1, <3>2, <3>3, <4>1
    <3>5. ASSUME NEW j \in 1 .. Len(pipe'.queue), pipe'.queue[j].kind = "delete",
                 pipe'.queue[j].n = pipe'.queue[i].n
          PROVE  i < j
      <4>1. CASE j = Len(pipe.queue) + 1
        BY <1>1, <3>1, <4>1
      <4>2. CASE j # Len(pipe.queue) + 1
        <5>1. j \in 1 .. Len(pipe.queue)
          BY <1>1, <2>2, <4>2
        <5> QED BY <2>2, <3>1, <3>2, <3>5, <5>1
      <4> QED BY <4>1, <4>2
    <3> QED BY <3>4, <3>5
  <2>6. ChunksLive'
    BY <2>5 DEF ChunksLive
  <2> QED BY <2>3, <2>4, <2>6 DEF ReaderInv
<1>6. CASE retireReader # "post"
  <2>1. pipe' = pipe
    BY <1>6, RetireShape
  <2>2. /\ \A f \in readers'.freed : f \in readers.freed \/ (f = r /\ r # None)
        /\ readers'.freed = readers.freed \/ flags.thread = "finished"
    <3>1. CASE retireReader = "free"
      <4>1. /\ ReadersAfterRetire.freed = readers.freed \cup {r}
            /\ flags.thread = "finished" /\ r # None
        BY <3>1, RetireShape, Zenon
      <4>2. readers'.freed = readers.freed \cup {r}
        BY <4>1
      <4> QED BY <4>1, <4>2
    <3>2. CASE retireReader # "free"
      <4>1. ReadersAfterRetire.freed = readers.freed
        BY <1>6, <3>2, RetireShape
      <4> QED BY <4>1
    <3> QED BY <3>1, <3>2
  <2>3. flags.thread = "finished" =>
            /\ pipe.reader = None
            /\ \A i \in 1 .. Len(pipe.queue) : pipe.queue[i].kind # "chunk"
    BY DEF FinishedInv, ParseInv
  <2>4. pipe'.reader \notin readers'.freed
    BY <1>2, <1>4, <2>2, <2>3
  <2>5. ReadersLive'
    BY <1>1, <1>2, <2>2, <2>4 DEF ReadersLive, None
  <2>6. DeletedRetired'
    <3>1. \A i \in 1 .. Len(pipe.queue) : pipe.queue[i].kind = "delete" =>
              /\ pipe.queue[i].n # None /\ pipe.queue[i].n <= readers.made
      BY DEF DeletedRetired, ReaderInv
    <3>2. \A n \in Nat : n # None /\ n <= readers.made => n # readers'.current /\ n <= readers'.made
      BY <1>1
    <3> QED BY <1>3, <2>1, <3>1, <3>2 DEF DeletedRetired
  <2>7. ChunksLive'
    <3>1. \A i \in 1 .. Len(pipe.queue) : pipe.queue[i].kind = "chunk" =>
              readers'.freed = readers.freed
      BY <2>2, <2>3
    <3>2. \A n \in Nat : n <= readers.made => n <= readers'.made
      BY <1>1
    <3> QED BY <1>3, <2>1, <3>1, <3>2 DEF ChunksLive, ReaderInv
  <2> QED BY <2>5, <2>6, <2>7 DEF ReaderInv
<1> QED BY <1>5, <1>6

(* Taking an event keeps it: a deletion that is carried out has no chunk behind
   it, and a chunk is for a reader that lives. *)
LEMMA TakeKeepsReaders ==
    ASSUME TypeInv, TypeInv', ParseInv, ReaderInv, PipeTakes
    PROVE  ReaderInv'
<1> DEFINE event == pipe.queue[1]
<1>1. /\ pipe'.queue = Tail(pipe.queue) /\ pipe.pc = "idle" /\ pipe.queue # <<>>
      /\ \/ /\ UNCHANGED readers
            /\ \/ pipe'.reader = pipe.reader
               \/ event.kind = "chunk" /\ pipe'.reader = event.n
         \/ /\ event.kind = "delete" /\ pipe'.reader = pipe.reader
            /\ readers' = [readers EXCEPT !.freed = @ \cup {event.n}]
  BY TakeStep
<1>2. /\ Len(pipe.queue) \in Nat /\ Len(pipe.queue) > 0 /\ 1 \in 1 .. Len(pipe.queue)
      /\ Len(pipe'.queue) = Len(pipe.queue) - 1
      /\ \A i \in 1 .. Len(pipe'.queue) : /\ pipe'.queue[i] = pipe.queue[i + 1]
                                          /\ i + 1 \in 1 .. Len(pipe.queue)
  BY <1>1, TakeShape, SequenceTypes
<1>3. pipe.reader = None
  BY <1>1 DEF ParseInv
<1>4. CASE UNCHANGED readers
  <2>1. pipe'.reader \notin readers.freed
    BY <1>1, <1>2, <1>3, <1>4 DEF ReaderInv, ReadersLive, ChunksLive
  <2>2. DeletedRetired'
    BY <1>2, <1>4 DEF ReaderInv, DeletedRetired
  <2>3. ASSUME NEW i \in 1 .. Len(pipe'.queue), pipe'.queue[i].kind = "chunk"
        PROVE  /\ pipe'.queue[i].n <= readers'.made /\ pipe'.queue[i].n \notin readers'.freed
               /\ \A j \in 1 .. Len(pipe'.queue) :
                     pipe'.queue[j].kind = "delete" /\ pipe'.queue[j].n = pipe'.queue[i].n => i < j
    BY <1>2, <1>4, <2>3 DEF ReaderInv, ChunksLive
  <2>4. ChunksLive'
    BY <2>3 DEF ChunksLive
  <2> QED BY <1>4, <2>1, <2>2, <2>4 DEF ReaderInv, ReadersLive
<1>5. CASE /\ event.kind = "delete" /\ pipe'.reader = pipe.reader
           /\ readers' = [readers EXCEPT !.freed = @ \cup {event.n}]
  <2>1. /\ readers'.current = readers.current /\ readers'.made = readers.made
        /\ readers'.freed = readers.freed \cup {event.n}
    BY <1>5 DEF TypeInv
  <2>2. event.n # None /\ event.n # readers.current /\ event.n <= readers.made
    BY <1>2, <1>5 DEF ReaderInv, DeletedRetired
  <2>3. ReadersLive'
    BY <1>3, <1>5, <2>1, <2>2 DEF ReaderInv, ReadersLive
  <2>4. DeletedRetired'
    BY <1>2, <2>1 DEF ReaderInv, DeletedRetired
  <2>5. ASSUME NEW i \in 1 .. Len(pipe'.queue), pipe'.queue[i].kind = "chunk"
        PROVE  /\ pipe'.queue[i].n <= readers'.made /\ pipe'.queue[i].n \notin readers'.freed
               /\ \A j \in 1 .. Len(pipe'.queue) :
                     pipe'.queue[j].kind = "delete" /\ pipe'.queue[j].n = pipe'.queue[i].n => i < j
    <3>1. /\ i + 1 \in 1 .. Len(pipe.queue) /\ pipe.queue[i + 1] = pipe'.queue[i]
          /\ pipe.queue[i + 1].kind = "chunk" /\ ~(i + 1 < 1)
      BY <1>2, <2>5
    <3>2. pipe.queue[i + 1].n # event.n
      BY <1>2, <1>5, <3>1 DEF ReaderInv, ChunksLive
    <3>3. /\ pipe.queue[i + 1].n <= readers.made /\ pipe.queue[i + 1].n \notin readers.freed
          /\ \A j \in 1 .. Len(pipe.queue) :
                pipe.queue[j].kind = "delete" /\ pipe.queue[j].n = pipe.queue[i + 1].n => i + 1 < j
      BY <3>1 DEF ReaderInv, ChunksLive
    <3>4. ASSUME NEW j \in 1 .. Len(pipe'.queue), pipe'.queue[j].kind = "delete",
                 pipe'.queue[j].n = pipe'.queue[i].n
          PROVE  i < j
      <4>1. j + 1 \in 1 .. Len(pipe.queue) /\ pipe.queue[j + 1] = pipe'.queue[j]
        BY <1>2
      <4>2. i + 1 < j + 1
        BY <3>1, <3>3, <3>4, <4>1
      <4> QED BY <4>2
    <3> QED BY <2>1, <3>1, <3>2, <3>3, <3>4
  <2>6. ChunksLive'
    BY <2>5 DEF ChunksLive
  <2> QED BY <2>3, <2>4, <2>6 DEF ReaderInv
<1> QED BY <1>1, <1>4, <1>5

(* A chunk is queued behind all deletions, none of which is of its reader. *)
LEMMA ChunkKeepsReaders ==
    ASSUME TypeInv, ReaderInv, dataReceived
    PROVE  ReaderInv'
<1> DEFINE e == Event("chunk", readers.current, "", None)
<1>1. e.kind = "chunk" /\ e.n = readers.current
  BY DEF Event
<1>2. e \in EventType
  BY DEF TypeInv, Event, EventType, Ops, None
<1>3. pipe' = Post(e) /\ readers' = readers
  BY DEF dataReceived
<1> HIDE DEF e
<1>4. /\ Len(Post(e).queue) = Len(pipe.queue) + 1
      /\ \A i \in 1 .. Len(pipe.queue) : Post(e).queue[i] = pipe.queue[i]
      /\ Post(e).queue[Len(pipe.queue) + 1] = e
  BY <1>2, PostShape, Zenon
<1>5. pipe'.reader = pipe.reader /\ Len(pipe.queue) \in Nat
  BY <1>2, <1>3, PostKeeps, SequenceTypes
<1>6. ReadersLive'
  BY <1>3, <1>5 DEF ReaderInv, ReadersLive
<1>7. \A i \in 1 .. Len(pipe'.queue) :
        \/ i \in 1 .. Len(pipe.queue) /\ pipe'.queue[i] = pipe.queue[i]
        \/ i = Len(pipe.queue) + 1 /\ pipe'.queue[i] = e
  BY <1>3, <1>4, <1>5
<1>8. DeletedRetired'
  BY <1>1, <1>3, <1>7 DEF ReaderInv, DeletedRetired
<1>9. ASSUME NEW i \in 1 .. Len(pipe'.queue), pipe'.queue[i].kind = "chunk"
      PROVE  /\ pipe'.queue[i].n <= readers'.made /\ pipe'.queue[i].n \notin readers'.freed
             /\ \A j \in 1 .. Len(pipe'.queue) :
                   pipe'.queue[j].kind = "delete" /\ pipe'.queue[j].n = pipe'.queue[i].n => i < j
  <2>1. CASE i \in 1 .. Len(pipe.queue) /\ pipe'.queue[i] = pipe.queue[i]
    BY <1>1, <1>3, <1>7, <1>9, <2>1 DEF ReaderInv, ChunksLive
  <2>2. CASE pipe'.queue[i] = e
    BY <1>1, <1>3, <1>7, <2>2 DEF ReaderInv, ReadersLive, DeletedRetired
  <2> QED BY <1>7, <2>1, <2>2
<1>10. ChunksLive'
  BY <1>9 DEF ChunksLive
<1> QED BY <1>6, <1>8, <1>10 DEF ReaderInv

(* Readers live as long as they are used. *)
LEMMA ReaderStep ==
    ASSUME TypeInv, TypeInv', BracketInv, ParseInv, FinishedInv, ReaderInv, Steps
    PROVE  ReaderInv'
<1>1. CASE PipeTakes
  BY <1>1, TakeKeepsReaders
<1>2. CASE dataReceived
  BY <1>2, ChunkKeepsReaders
<1>3. CASE attach
  <2>1. /\ pipe' = PipeAfterRetire
        /\ readers' = [ReadersAfterRetire EXCEPT !.current = readers.made + 1, !.made = @ + 1]
    BY <1>3 DEF attach
  <2>2. /\ ReadersAfterRetire \in [current : Nat, made : Nat, freed : SUBSET Nat]
        /\ ReadersAfterRetire.made = readers.made /\ readers.made \in Nat
    BY RetireShape DEF TypeInv
  <2>3. /\ readers'.current = readers.made + 1 /\ readers'.made = readers.made + 1
        /\ readers'.freed = ReadersAfterRetire.freed
    BY <2>1, <2>2
  <2>4. /\ readers.made <= readers'.made /\ readers'.current <= readers'.made
        /\ readers.made < readers'.current
    BY <2>2, <2>3
  <2> QED BY <2>1, <2>3, <2>4, RetireStep
<1>4. CASE \/ detach \/ destroy
           \/ shutdown /\ pipe' = PipeAfterRetire /\ readers' = ReadersAfterRetire
  <2>1. pipe' = PipeAfterRetire /\ readers' = ReadersAfterRetire
    BY <1>4 DEF detach, destroy
  <2>2. /\ readers'.current = None /\ readers'.made = readers.made
        /\ readers'.freed = ReadersAfterRetire.freed /\ readers.made \in Nat
    BY <2>1, RetireShape DEF TypeInv
  <2>3. readers.made <= readers'.made /\ readers'.current <= readers'.made
    BY <2>2 DEF None
  <2> QED BY <2>1, <2>2, <2>3, RetireStep
<1>5. CASE ThreadEnds
  <2>1. /\ pipe'.queue = <<>> /\ pipe'.reader = pipe.reader /\ pipe.pc = "idle"
        /\ readers'.current = readers.current /\ readers'.made = readers.made
    BY <1>5, EndShape
  <2>2. \A r \in readers'.freed :
            \/ r \in readers.freed
            \/ r # None /\ r # readers.current /\ r <= readers.made
    BY <1>5, EndShape, SequenceTypes DEF ReaderInv, DeletedRetired
  <2>3. ReadersLive'
    BY <2>1, <2>2 DEF ParseInv, ReaderInv, ReadersLive
  <2>4. DeletedRetired' /\ ChunksLive'
    BY <2>1 DEF DeletedRetired, ChunksLive
  <2> QED BY <2>3, <2>4 DEF ReaderInv
<1>6. CASE /\ readers' = readers
           /\ \/ pipe'.queue = pipe.queue
              \/ \E e : Posts(e) /\ e.kind \notin {"chunk", "delete"}
           /\ ~PipeTakes
  <2>1. DeletedRetired' /\ ChunksLive'
    BY <1>6, ReadersKept DEF ReaderInv
  <2>2. pipe'.reader = pipe.reader \/ pipe'.reader = None
    BY <1>6, PlaceStep
  <2>3. ReadersLive'
    BY <1>6, <2>2 DEF ReaderInv, ReadersLive
  <2> QED BY <2>1, <2>3 DEF ReaderInv
<1> QED BY <1>1, <1>2, <1>3, <1>4, <1>5, <1>6, QueueStep

(* Only a taken event or the end of a sync changes the version applied. *)
LEMMA AppliedStep ==
    ASSUME TypeInv, Steps
    PROVE  pipe'.applied = pipe.applied \/ PipeTakes \/ SnapshotApplied
<1>1. CASE UNCHANGED vars \/ QuitDirectly \/ ScriptEnds \/ ThreadEnds
           \/ GateChecked \/ CollectPosted \/ Answered \/ CommandPosted \/ ScriptHangs \/ CommandIssued
           \/ SyncChecksParked \/ MarshalSkipped \/ MarshalInline \/ LoopReturns \/ abandon
           \/ attach \/ detach \/ dataReceived \/ destroy \/ CommandFinished \/ ScriptWoken
  BY <1>1, ExitShape, FinishShape, EndShape, PipeShape, CallShape, DeviceShape, CommandShape DEF vars
<1>2. CASE AboutToQuit \/ QuitFromEngine \/ UserAsks \/ CommandAsks
  BY <1>2, QuitShape, AskedShape DEF AboutToQuit, QuitFromEngine, UserAsks, CommandAsks
<1>3. CASE UserEdits \/ CommandEdits
  <2>1. Event("sync", None, "sync", None) \in EventType
    BY DEF Event, EventType, Ops, None
  <2> QED BY <1>3, <2>1, EditedShape, PostKeeps DEF UserEdits, CommandEdits
<1>4. CASE ServeQueued
  BY <1>4, ServeShape DEF TypeInv, PipeType
<1>5. CASE MarshalPosted
  BY <1>5, PostedShape, PostKeeps
<1>6. CASE shutdown \/ joinServingGuiMarshals
  BY <1>6, ShutdownShape, RetireKeeps
<1> QED BY <1>1, <1>2, <1>3, <1>4, <1>5, <1>6 DEF Steps

(* The program starts in the invariant ... *)
LEMMA InitIInv ==
    ASSUME PipelineHostAssumptions, Init
    PROVE  IInv
<1>1. /\ gui = [stack |-> <<>>, queue |-> <<>>, exiting |-> FALSE, inFlight |-> FALSE,
                pending |-> FALSE, deferred |-> None]
      /\ pipe = [pc |-> "idle", queue |-> <<>>, held |-> None, reader |-> None, snap |-> None,
                 applied |-> 1, lost |-> None]
      /\ calls = [made |-> 0, waiting |-> {}, woken |-> {}]
      /\ flags = [parked |-> FALSE, tearing |-> FALSE, thread |-> "running", abandoned |-> FALSE]
      /\ readers = [current |-> None, made |-> 0, freed |-> {}]
      /\ project = 1 /\ left \in Scopes
  BY DEF Init
<1>2. left \in [edits : Nat, asks : Nat, commands : Nat, chunks : Nat, readers : Nat,
                hang : BOOLEAN, quit : {"none", "engine", "direct"}]
  BY <1>1 DEF PipelineHostAssumptions
<1>3. gui \in GuiType
  BY <1>1 DEF GuiType, None
<1>4. pipe \in PipeType
  BY <1>1 DEF PipeType, None
<1>5. TypeInv
  BY <1>1, <1>2, <1>3, <1>4 DEF TypeInv, None
<1>6. gui.stack = <<>> /\ gui.queue = <<>> /\ pipe.queue = <<>>
  BY <1>1
<1>7. BracketInv
  BY <1>1, <1>6 DEF BracketInv, ParkedMeansQuiescent, TokenPlace, TokenOnce, CommandPlace, CommandOnce
<1>8. WaiterInv /\ ParseInv
  BY <1>1 DEF WaiterInv, HeldWaits, WaitersAreCallers, ParseInv
<1>9. TeardownInv /\ FinishedInv
  BY <1>1, <1>6 DEF TeardownInv, FinishedInv
<1>10. ReaderInv
  BY <1>1, <1>6 DEF ReaderInv, ReadersLive, DeletedRetired, ChunksLive, None
<1> QED BY <1>5, <1>7, <1>8, <1>9, <1>10 DEF IInv

(* ... and every step stays in it. *)
LEMMA NextIInv ==
    ASSUME IInv, [Next]_vars
    PROVE  IInv'
<1>1. Steps
  BY StepsAreNext
<1>2. TypeInv'
  BY <1>1, TypeStep DEF IInv
<1> QED
  BY <1>1, <1>2, BracketStep, WaiterStep, ParseStep, TeardownStep, FinishedStep, ReaderStep DEF IInv

-----------------------------------------------------------------------------
(* The theorems *)

(* The inductive invariant holds for any bounds. *)
THEOREM IInvCorrect == Spec => []IInv
<1>1. Init => IInv
  BY InitIInv, PipelineHostAssumptions
<1>2. IInv /\ [Next]_vars => IInv'
  BY NextIInv
<1> QED BY <1>1, <1>2, PTL DEF Spec

(* The flag s_pipelineParkedOnGui is raised only while the processing thread
   stands in its script's command, so that an inline call never runs beside it. *)
THEOREM ParkedCorrect == Spec => []ParkedMeansQuiescent
<1>1. IInv => ParkedMeansQuiescent
  BY DEF IInv, BracketInv
<1> QED BY <1>1, IInvCorrect, PTL

(* A dispatched function never outlives the wait of the call whose locals it
   reads, whatever ends that wait. *)
THEOREM WaiterCorrect == Spec => []FunctorHasItsWaiter
<1>1. IInv => FunctorHasItsWaiter
  <2> SUFFICES ASSUME IInv, pipe.held # None
               PROVE  \E i \in DOMAIN gui.stack :
                        gui.stack[i].call = pipe.held /\ gui.stack[i].pc \in {"wait", "abandon"}
    BY DEF FunctorHasItsWaiter
  <2>1. DOMAIN gui.stack = 1 .. Len(gui.stack)
    BY SequenceTypes DEF IInv
  <2> QED BY <2>1 DEF IInv, WaiterInv, HeldWaits, WaitersAreCallers
<1> QED BY <1>1, IInvCorrect, PTL

(* A reader is deleted only when the processing thread is out of it and has no
   chunk queued for it, through replacements, teardown and an abandoned join. *)
THEOREM ReaderCorrect == Spec => []ReaderOutlivesItsUse
<1>1. IInv => ReaderOutlivesItsUse
  <2> SUFFICES ASSUME IInv
               PROVE  ReaderOutlivesItsUse
    OBVIOUS
  <2>1. pipe.queue \in Seq(EventType) /\ pipe.reader \notin readers.freed
    BY SequenceTypes DEF IInv, ReaderInv, ReadersLive
  <2>2. \A c \in Range(pipe.queue) : \E i \in 1 .. Len(pipe.queue) : c = pipe.queue[i]
    BY <2>1 DEF Range
  <2>3. \A c \in Range(pipe.queue) : c.kind = "chunk" => c.n \notin readers.freed
    BY <2>2 DEF IInv, ReaderInv, ChunksLive
  <2> QED BY <2>1, <2>3 DEF ReaderOutlivesItsUse
<1> QED BY <1>1, IInvCorrect, PTL

(* No step applies a project while a frame is being parsed. *)
THEOREM MidFrameCorrect == Spec => NeverAppliedMidFrame
<1>1. ASSUME IInv, [Next]_vars, pipe'.applied # pipe.applied
      PROVE  pipe.reader = None
  <2>1. Steps /\ TypeInv /\ ParseInv
    BY <1>1, StepsAreNext DEF IInv
  <2>2. PipeTakes \/ SnapshotApplied
    BY <1>1, <2>1, AppliedStep
  <2>3. pipe.pc \in {"idle", "apply"}
    BY <2>2 DEF PipeTakes, SnapshotApplied
  <2> QED BY <2>1, <2>3 DEF ParseInv
<1>2. IInv /\ [Next]_vars => [pipe'.applied # pipe.applied => pipe.reader = None]_vars
  BY <1>1
<1> QED BY <1>2, IInvCorrect, PTL DEF Spec, NeverAppliedMidFrame

-----------------------------------------------------------------------------
(* The last edit arrives *)

(* Teardown has begun, after which no edit has to arrive. *)
Ending == gui.exiting = TRUE \/ flags.tearing = TRUE

(* A call that another one is nested in is at a place that serves events. *)
OuterServe ==
    \A i \in 1 .. Len(gui.stack) - 1 : gui.stack[i].pc \in {"wait", "run", "join"}

(* The mark of a sync in flight stands for one on the stack. *)
SyncRuns == gui.inFlight = TRUE => \E i \in 1 .. Len(gui.stack) : gui.stack[i].op = "sync"

(* A sync on its way to the other thread has the last version, as no edit is
   made before it waits; a wait is left because it was answered. *)
FrameCurrent(f) ==
    /\ f.snap <= project
    /\ f.op = "sync" /\ f.pc \in {"check", "marshal"} => f.snap = project
    /\ f.pc = "abandon" => f.call \in calls.woken

FramesCurrent == \A i \in 1 .. Len(gui.stack) : FrameCurrent(gui.stack[i])

FrameInv == OuterServe /\ SyncRuns /\ FramesCurrent

(* No version is ahead of the project's. *)
VersionsPast ==
    /\ project > 0
    /\ gui.deferred <= project /\ pipe.snap <= project
    /\ pipe.applied <= project /\ pipe.lost <= project
    /\ \A i \in 1 .. Len(pipe.queue) : pipe.queue[i].snap <= project

(* Calls are numbered from one on. *)
CallNumbers ==
    /\ \A n \in calls.waiting \cup calls.woken : n # None /\ n <= calls.made
    /\ pipe.held <= calls.made
    /\ pipe.pc = "idle" => pipe.held = None

(* A dispatch in the queue is the only one of its call, which nothing answered. *)
DispatchesLive ==
    \A i \in 1 .. Len(pipe.queue) : pipe.queue[i].kind = "dispatch" =>
        /\ pipe.queue[i].n # None /\ pipe.queue[i].n <= calls.made
        /\ pipe.queue[i].n \notin calls.woken /\ pipe.queue[i].n # pipe.held
        /\ \A j \in 1 .. Len(pipe.queue) :
              pipe.queue[j].kind = "dispatch" /\ pipe.queue[j].n = pipe.queue[i].n => i = j

CallInv == CallNumbers /\ DispatchesLive

(* The last version is applied or known to be lost ... *)
Known == pipe.applied = project \/ pipe.lost = project

(* ... or an event that brings it is queued for the processing thread ... *)
Brings(e) ==
    \/ e.kind = "sync"
    \/ e.kind = "apply" /\ gui.deferred = project
    \/ e.kind = "dispatch" /\ e.op = "sync" /\ e.snap = project /\ e.n \in calls.waiting

Queued == \E i \in 1 .. Len(pipe.queue) : Brings(pipe.queue[i])

(* ... which is on its way to ask for it, or has it ... *)
InSync ==
    \/ pipe.held = None /\ pipe.pc \in {"gate", "ask", "blocked"}
    \/ pipe.held = None /\ pipe.pc = "answered" /\ pipe.snap = project
    \/ pipe.pc = "apply" /\ pipe.snap = project

(* ... or the GUI thread has yet to send it: in a queued sync, in the next turn
   of the one in flight, in one about to be sent, or when the script's command
   is done. *)
InGui ==
    \/ \E i \in 1 .. Len(gui.queue) : gui.queue[i] = "sync"
    \/ gui.inFlight = TRUE /\ gui.pending = TRUE
    \/ \E i \in 1 .. Len(gui.stack) :
          gui.stack[i].op = "sync" /\ gui.stack[i].pc \in {"check", "marshal"}
    \/ flags.parked = TRUE /\ gui.deferred = project

Carried == Known \/ Queued \/ InSync \/ InGui

ArrivalInv == FrameInv /\ VersionsPast /\ CallInv /\ Carried

-----------------------------------------------------------------------------
(* The stack of calls, between two states *)

Entered(s, t, f) ==
    /\ Len(t) = Len(s) + 1 /\ t[Len(s) + 1] = f
    /\ \A i \in 1 .. Len(s) : t[i] = s[i]

Leaves(s, t) ==
    /\ Len(s) > 0 /\ Len(t) = Len(s) - 1
    /\ \A i \in 1 .. Len(s) - 1 : t[i] = s[i]

GoesOn(s, t) ==
    /\ Len(s) > 0 /\ Len(t) = Len(s) /\ t[Len(s)].op = s[Len(s)].op
    /\ \A i \in 1 .. Len(s) - 1 : t[i] = s[i]

(* y is x after the start of a sync of version v. *)
Begun(x, y, v) ==
    /\ y.queue = x.queue /\ y.exiting = x.exiting /\ y.deferred = x.deferred
    /\ y.inFlight = TRUE
    /\ \/ y.pending = TRUE /\ y.stack = x.stack /\ x.inFlight = TRUE
       \/ Entered(x.stack, y.stack, Frame("sync", "check", v))

(* A sync that starts goes on the stack, or is remembered by the one in flight. *)
LEMMA StartBegins ==
    ASSUME NEW x \in GuiType, NEW v \in Nat
    PROVE  Begun(x, startSync(x, v), v)
<1>1. CASE x.inFlight
  BY <1>1 DEF startSync, GuiType, Begun
<1>2. CASE ~x.inFlight
  <2> DEFINE y == [x EXCEPT !.inFlight = TRUE, !.pending = FALSE]
             f == Frame("sync", "check", v)
             z == Push(y, f)
  <2>1. /\ y \in GuiType /\ y.stack = x.stack /\ y.queue = x.queue
        /\ y.exiting = x.exiting /\ y.deferred = x.deferred /\ y.inFlight = TRUE
    BY DEF GuiType
  <2>2. f \in FrameType
    BY DEF Frame, FrameType, Ops, None
  <2>3. startSync(x, v) = z
    BY <1>2 DEF startSync
  <2> HIDE DEF y, f
  <2>4. /\ SameButStack(z, y) /\ Len(z.stack) = Len(y.stack) + 1
        /\ \A i \in 1 .. Len(y.stack) : z.stack[i] = y.stack[i]
        /\ z.stack[Len(y.stack) + 1] = f
    BY <2>1, <2>2, PushShape
  <2> HIDE DEF z
  <2>5. Entered(x.stack, z.stack, f)
    BY <2>1, <2>4 DEF Entered
  <2> QED BY <2>1, <2>3, <2>4, <2>5 DEF SameButStack, Begun, f
<1> QED BY <1>1, <1>2 DEF GuiType

(* The innermost call moves to another place. *)
Moved(y, p) ==
    /\ GoesOn(gui.stack, y.stack) /\ SameButStack(y, gui)
    /\ y.stack[Len(gui.stack)].pc = p /\ y.stack[Len(gui.stack)].call = Top.call
    /\ y.stack[Len(gui.stack)].snap = Top.snap

(* Moving the innermost call changes nothing else of it. *)
LEMMA MoveMoves ==
    ASSUME TypeInv, Top.pc # "idle",
           NEW p \in {"check", "marshal", "wait", "abandon", "recursing", "run", "wake",
                      "disconnect", "join"}
    PROVE  Moved(MoveTo(gui, p), p)
<1>1. /\ gui.stack # <<>> /\ Len(gui.stack) > 0 /\ Len(gui.stack) \in Nat
      /\ Top = gui.stack[Len(gui.stack)] /\ Top \in FrameType
  BY TopIsLast
<1> DEFINE y == MoveTo(gui, p)
<1>2. /\ y \in GuiType /\ SameButStack(y, gui) /\ Len(y.stack) = Len(gui.stack)
      /\ \A i \in 1 .. Len(gui.stack) - 1 : y.stack[i] = gui.stack[i]
      /\ y.stack[Len(gui.stack)] = [gui.stack[Len(gui.stack)] EXCEPT !.pc = p]
  BY <1>1, MoveShape, Zenon
<1> HIDE DEF y
<1> DEFINE f == y.stack[Len(gui.stack)]
<1>3. f.op = Top.op /\ f.call = Top.call /\ f.pc = p /\ f.snap = Top.snap
  BY <1>1, <1>2 DEF FrameType
<1> HIDE DEF f
<1>4. GoesOn(gui.stack, y.stack)
  BY <1>1, <1>2, <1>3 DEF GoesOn, f
<1> QED BY <1>2, <1>3, <1>4 DEF Moved, f, y

(* What follows a call that returned: the call is left, or a sync takes
   another turn with the version of now. *)
Ended(y) ==
    /\ y.queue = gui.queue /\ y.exiting = gui.exiting /\ y.deferred = gui.deferred
    /\ \/ /\ Leaves(gui.stack, y.stack) /\ y.pending = gui.pending
          /\ \/ Top.op # "sync" /\ y.inFlight = gui.inFlight
             \/ Top.op = "sync" /\ gui.pending = FALSE /\ y.inFlight = FALSE
       \/ /\ GoesOn(gui.stack, y.stack) /\ y.inFlight = gui.inFlight
          /\ y.stack[Len(gui.stack)].pc = "check"
          /\ y.stack[Len(gui.stack)].snap = project /\ Top.op = "sync"

(* A call that returns ends in one of these ways. *)
LEMMA ReturnedEnds ==
    ASSUME TypeInv, Top.pc # "idle"
    PROVE  Ended(Returned(gui))
<1>1. /\ Pop(gui) \in GuiType /\ SameButStack(Pop(gui), gui)
      /\ Len(gui.stack) > 0 /\ gui.stack # <<>> /\ Top = gui.stack[Len(gui.stack)]
      /\ Leaves(gui.stack, Pop(gui).stack)
  BY PoppedShape DEF Leaves
<1>2. CASE Top.op # "sync"
  <2>1. Returned(gui) = Pop(gui)
    BY <1>2 DEF Returned
  <2> QED BY <1>1, <1>2, <2>1 DEF SameButStack, Ended
<1>3. CASE Top.op = "sync" /\ ~gui.pending
  <2> DEFINE y == Pop(gui)
  <2>1. Returned(gui) = [y EXCEPT !.inFlight = FALSE]
    BY <1>3 DEF Returned, endSyncTurn
  <2>2. y \in GuiType /\ SameButStack(y, gui) /\ Leaves(gui.stack, y.stack)
    BY <1>1
  <2> HIDE DEF y
  <2> DEFINE z == [y EXCEPT !.inFlight = FALSE]
  <2>3. /\ z.stack = y.stack /\ z.queue = y.queue /\ z.exiting = y.exiting
        /\ z.pending = y.pending /\ z.deferred = y.deferred /\ z.inFlight = FALSE
    BY <2>2 DEF GuiType
  <2> HIDE DEF z
  <2>4. gui.pending = FALSE
    BY <1>3 DEF TypeInv, GuiType
  <2>5. Ended(z)
    BY <1>3, <2>2, <2>3, <2>4 DEF Ended, SameButStack
  <2> QED BY <2>1, <2>5 DEF z
<1>4. CASE Top.op = "sync" /\ gui.pending
  <2> DEFINE y == MoveTo(gui, "check")
             n == Len(gui.stack)
  <2>1. Returned(gui) = [y EXCEPT !.pending = FALSE, !.stack[n].snap = project]
    BY <1>4 DEF Returned, endSyncTurn
  <2>2. /\ y \in GuiType /\ SameButStack(y, gui) /\ Len(y.stack) = n
        /\ \A i \in 1 .. n - 1 : y.stack[i] = gui.stack[i]
        /\ y.stack[n] = [gui.stack[n] EXCEPT !.pc = "check"]
    BY <1>1, MoveShape
  <2>3. n \in 1 .. Len(y.stack) /\ gui.stack[n] \in FrameType /\ project \in Nat
    <3>1. n \in Nat /\ gui.stack[n] \in FrameType
      BY <1>1, TopIsLast
    <3> QED BY <1>1, <2>2, <3>1 DEF TypeInv
  <2> DEFINE f == [y.stack[n] EXCEPT !.snap = project]
             t == [y.stack EXCEPT ![n] = f]
  <2>4. f \in FrameType /\ f.pc = "check" /\ f.op = gui.stack[n].op /\ f.snap = project
    BY <2>2, <2>3 DEF FrameType
  <2> HIDE DEF y, f
  <2>5. /\ t \in Seq(FrameType) /\ Len(t) = n /\ t[n] = f
        /\ \A i \in 1 .. n - 1 : t[i] = gui.stack[i]
    BY <2>2, <2>3, <2>4 DEF GuiType
  <2>6. Returned(gui) = [y EXCEPT !.pending = FALSE, !.stack = t]
    BY <2>1, <2>2 DEF GuiType, f
  <2> HIDE DEF t
  <2> DEFINE z == [y EXCEPT !.pending = FALSE, !.stack = t]
  <2>7. /\ z.stack = t /\ z.inFlight = gui.inFlight
        /\ z.queue = gui.queue /\ z.exiting = gui.exiting /\ z.deferred = gui.deferred
    BY <2>2, <2>5 DEF GuiType, SameButStack
  <2> HIDE DEF z
  <2>8. GoesOn(gui.stack, z.stack)
    BY <1>1, <2>4, <2>5, <2>7 DEF GoesOn
  <2>9. Ended(z)
    BY <1>4, <2>4, <2>5, <2>7, <2>8 DEF Ended
  <2> QED BY <2>6, <2>9 DEF z
<1> QED BY <1>2, <1>3, <1>4

-----------------------------------------------------------------------------
(* The calls on the stack *)

(* The innermost call, and the places of the outer ones. *)
LEMMA InnermostPlace ==
    ASSUME TypeInv, OuterServe, Top.pc \in {"idle", "wait", "run", "join"}
    PROVE  \A i \in 1 .. Len(gui.stack) : gui.stack[i].pc \in {"wait", "run", "join"}
<1>1. gui.stack \in Seq(FrameType) /\ Len(gui.stack) \in Nat
  BY TopIsLast
<1>2. ASSUME Len(gui.stack) > 0
      PROVE  gui.stack[Len(gui.stack)].pc \in {"wait", "run", "join"}
  <2>1. Top = gui.stack[Len(gui.stack)] /\ gui.stack[Len(gui.stack)] \in FrameType
    BY <1>1, <1>2 DEF Top, Last
  <2> QED BY <2>1 DEF FrameType
<1> QED BY <1>1, <1>2 DEF OuterServe

(* A call is entered from one that serves events, a sync with the last version. *)
LEMMA FramesEntered ==
    ASSUME TypeInv, TypeInv', FrameInv, NEW f, Entered(gui.stack, gui'.stack, f),
           Top.pc \in {"idle", "wait", "run", "join"},
           f.snap <= project', f.pc # "abandon", f.op = "sync" => f.snap = project',
           project <= project', gui'.inFlight = TRUE => gui.inFlight = TRUE \/ f.op = "sync"
    PROVE  FrameInv'
<1>1. /\ gui.stack \in Seq(FrameType) /\ Len(gui.stack) \in Nat
      /\ \A i \in 1 .. Len(gui.stack) : gui.stack[i].snap \in Nat
  <2>1. gui.stack \in Seq(FrameType) /\ Len(gui.stack) \in Nat
    BY TopIsLast
  <2>2. \A i \in 1 .. Len(gui.stack) : gui.stack[i] \in FrameType
    BY <2>1
  <2> QED BY <2>1, <2>2 DEF FrameType
<1>2. \A i \in 1 .. Len(gui.stack) :
         gui'.stack[i] = gui.stack[i] /\ gui.stack[i].pc \in {"wait", "run", "join"}
  BY InnermostPlace DEF FrameInv, Entered
<1>3. Len(gui'.stack) = Len(gui.stack) + 1 /\ gui'.stack[Len(gui.stack) + 1] = f
  BY DEF Entered
<1>4. OuterServe'
  BY <1>1, <1>2, <1>3 DEF OuterServe
<1>5. SyncRuns'
  <2> SUFFICES ASSUME gui'.inFlight = TRUE
               PROVE  \E i \in 1 .. Len(gui'.stack) : gui'.stack[i].op = "sync"
    BY DEF SyncRuns
  <2>1. CASE f.op = "sync"
    BY <1>1, <1>3, <2>1
  <2>2. CASE gui.inFlight = TRUE
    BY <1>1, <1>2, <1>3, <2>2 DEF FrameInv, SyncRuns
  <2> QED BY <2>1, <2>2
<1>6. FramesCurrent'
  <2>1. project \in Nat /\ project' \in Nat
    BY DEF TypeInv
  <2>2. ASSUME NEW i \in 1 .. Len(gui'.stack)
        PROVE  FrameCurrent(gui.stack[i])'
    <3>1. CASE i \in 1 .. Len(gui.stack)
      <4>1. gui.stack[i].snap <= project
        BY <3>1 DEF FrameInv, FramesCurrent, FrameCurrent
      <4> QED BY <1>1, <1>2, <2>1, <3>1, <4>1 DEF FrameCurrent
    <3>2. CASE i = Len(gui.stack) + 1
      BY <1>3, <3>2 DEF FrameCurrent
    <3> QED BY <1>1, <1>3, <3>1, <3>2
  <2> QED BY <2>2 DEF FramesCurrent
<1> QED BY <1>4, <1>5, <1>6 DEF FrameInv

(* The innermost call is left; a sync takes its mark with it. *)
LEMMA FramesLeft ==
    ASSUME TypeInv, TypeInv', FrameInv, Leaves(gui.stack, gui'.stack), project' = project,
           \/ gui'.inFlight = FALSE
           \/ gui.stack[Len(gui.stack)].op # "sync" /\ gui'.inFlight = gui.inFlight
    PROVE  FrameInv'
<1>1. /\ Len(gui.stack) \in Nat /\ Len(gui.stack) > 0 /\ Len(gui'.stack) = Len(gui.stack) - 1
      /\ \A i \in 1 .. Len(gui'.stack) : gui'.stack[i] = gui.stack[i]
  BY TopIsLast DEF Leaves
<1>2. \A i \in 1 .. Len(gui'.stack) :
         /\ i \in 1 .. Len(gui.stack)
         /\ gui'.stack[i].pc \in {"wait", "run", "join"}
         /\ gui'.stack[i].snap <= project
  BY <1>1 DEF FrameInv, OuterServe, FramesCurrent, FrameCurrent
<1>3. OuterServe'
  BY <1>1, <1>2 DEF OuterServe
<1>4. SyncRuns'
  BY <1>1 DEF FrameInv, SyncRuns
<1>5. FramesCurrent'
  BY <1>2 DEF FramesCurrent, FrameCurrent
<1> QED BY <1>3, <1>4, <1>5 DEF FrameInv

(* The innermost call goes on, to a place its frame is right for. *)
LEMMA FramesGoOn ==
    ASSUME TypeInv, TypeInv', FrameInv, GoesOn(gui.stack, gui'.stack), project' = project,
           gui'.inFlight = gui.inFlight, NEW f, f = gui'.stack[Len(gui.stack)], f.snap <= project,
           f.op = "sync" /\ f.pc \in {"check", "marshal"} => f.snap = project,
           f.pc = "abandon" => f.call \in calls'.woken
    PROVE  FrameInv'
<1>1. /\ Len(gui.stack) \in Nat /\ Len(gui.stack) > 0 /\ Len(gui'.stack) = Len(gui.stack)
      /\ gui'.stack[Len(gui.stack)].op = gui.stack[Len(gui.stack)].op
      /\ \A i \in 1 .. Len(gui.stack) - 1 : gui'.stack[i] = gui.stack[i]
  BY TopIsLast DEF GoesOn
<1>2. \A i \in 1 .. Len(gui.stack) - 1 :
         /\ gui'.stack[i].pc \in {"wait", "run", "join"}
         /\ gui'.stack[i].snap <= project
  BY <1>1 DEF FrameInv, OuterServe, FramesCurrent, FrameCurrent
<1>3. OuterServe'
  BY <1>1, <1>2 DEF OuterServe
<1>4. SyncRuns'
  <2> SUFFICES ASSUME gui.inFlight = TRUE
               PROVE  \E i \in 1 .. Len(gui'.stack) : gui'.stack[i].op = "sync"
    BY DEF SyncRuns
  <2>1. PICK i \in 1 .. Len(gui.stack) : gui.stack[i].op = "sync"
    BY DEF FrameInv, SyncRuns
  <2> QED BY <1>1, <2>1
<1>5. FramesCurrent'
  <2>1. ASSUME NEW i \in 1 .. Len(gui'.stack)
        PROVE  FrameCurrent(gui.stack[i])'
    <3>1. CASE i \in 1 .. Len(gui.stack) - 1
      BY <1>2, <3>1 DEF FrameCurrent
    <3>2. CASE i = Len(gui.stack)
      BY <3>2 DEF FrameCurrent
    <3> QED BY <1>1, <3>1, <3>2
  <2> QED BY <2>1 DEF FramesCurrent
<1> QED BY <1>3, <1>4, <1>5 DEF FrameInv

(* The stack stays; a new version comes only while the innermost call serves events. *)
LEMMA FramesKept ==
    ASSUME TypeInv, TypeInv', FrameInv, gui'.stack = gui.stack,
           \/ project' = project
           \/ project <= project' /\ Top.pc \in {"idle", "wait", "run", "join"},
           calls.woken \subseteq calls'.woken, gui'.inFlight = gui.inFlight
    PROVE  FrameInv'
<1>1. OuterServe' /\ SyncRuns'
  BY DEF FrameInv, OuterServe, SyncRuns
<1>2. CASE project' = project
  BY <1>1, <1>2 DEF FrameInv, FramesCurrent, FrameCurrent
<1>3. CASE project <= project' /\ Top.pc \in {"idle", "wait", "run", "join"}
  <2>1. \A i \in 1 .. Len(gui.stack) : gui.stack[i].pc \in {"wait", "run", "join"}
    BY <1>3, InnermostPlace DEF FrameInv
  <2>2. project \in Nat /\ project' \in Nat
    BY DEF TypeInv
  <2>3. \A i \in 1 .. Len(gui.stack) : gui.stack[i].snap \in Nat /\ gui.stack[i].snap <= project
    <3>1. \A i \in 1 .. Len(gui.stack) : gui.stack[i] \in FrameType
      BY SequenceTypes
    <3> QED BY <3>1 DEF FrameInv, FramesCurrent, FrameCurrent, FrameType
  <2>4. FramesCurrent'
    BY <1>3, <2>1, <2>2, <2>3 DEF FramesCurrent, FrameCurrent
  <2> QED BY <1>1, <2>4 DEF FrameInv
<1> QED BY <1>2, <1>3

-----------------------------------------------------------------------------
(* The queue of the processing thread *)

(* Its queue has a length, before and after. *)
LEMMA QueueLengths ==
    ASSUME TypeInv, TypeInv'
    PROVE  Len(pipe.queue) \in Nat /\ Len(pipe'.queue) \in Nat
<1>1. pipe.queue \in Seq(EventType)
  BY SequenceTypes
<1>2. pipe'.queue \in Seq(EventType)
  BY DEF TypeInv, PipeType
<1> QED BY <1>1, <1>2

(* What posting leaves alone. *)
LEMMA PostLeaves ==
    ASSUME TypeInv, NEW e \in EventType
    PROVE  /\ Entered(pipe.queue, Post(e).queue, e)
           /\ Post(e).pc = pipe.pc /\ Post(e).held = pipe.held /\ Post(e).snap = pipe.snap
           /\ Post(e).applied = pipe.applied /\ Post(e).lost = pipe.lost
<1>1. /\ Post(e) = [pipe EXCEPT !.queue = Append(pipe.queue, e)]
      /\ Entered(pipe.queue, Post(e).queue, e)
  BY PostShape DEF Entered
<1> QED BY <1>1 DEF TypeInv, PipeType

(* Taking the first event shifts the others. *)
Taken == /\ Len(pipe.queue) > 0 /\ Len(pipe'.queue) = Len(pipe.queue) - 1
         /\ \A i \in 1 .. Len(pipe'.queue) : pipe'.queue[i] = pipe.queue[i + 1]

(* Every event of the queue was there before, or is e. *)
LEMMA QueueOrigin ==
    ASSUME TypeInv, TypeInv', NEW e,
           Entered(pipe.queue, pipe'.queue, e) \/ Taken \/ pipe'.queue = pipe.queue
    PROVE  \A i \in 1 .. Len(pipe'.queue) :
              \/ \E j \in 1 .. Len(pipe.queue) : pipe'.queue[i] = pipe.queue[j]
              \/ pipe'.queue[i] = e /\ Entered(pipe.queue, pipe'.queue, e)
<1>1. Len(pipe.queue) \in Nat /\ Len(pipe'.queue) \in Nat
  BY QueueLengths
<1>2. CASE Entered(pipe.queue, pipe'.queue, e)
  BY <1>1, <1>2 DEF Entered
<1>3. CASE Taken
  <2>1. ASSUME NEW i \in 1 .. Len(pipe'.queue)
        PROVE  i + 1 \in 1 .. Len(pipe.queue) /\ pipe'.queue[i] = pipe.queue[i + 1]
    BY <1>1, <1>3 DEF Taken
  <2> QED BY <2>1
<1>4. CASE pipe'.queue = pipe.queue
  BY <1>4
<1> QED BY <1>2, <1>3, <1>4

(* Versions, when none but the project's appears. *)
LEMMA VersionsKept ==
    ASSUME TypeInv, TypeInv', VersionsPast, project <= project', NEW e,
           Entered(pipe.queue, pipe'.queue, e) \/ Taken \/ pipe'.queue = pipe.queue,
           Entered(pipe.queue, pipe'.queue, e) => e.snap <= project',
           gui'.deferred <= project', pipe'.snap <= project', pipe'.applied <= project',
           pipe'.lost <= project'
    PROVE  VersionsPast'
<1>1. project \in Nat /\ project' \in Nat /\ project > 0 /\ project' > 0
  BY DEF TypeInv, VersionsPast
<1>2. \A j \in 1 .. Len(pipe.queue) : pipe.queue[j].snap \in Nat /\ pipe.queue[j].snap <= project
  <2>1. \A j \in 1 .. Len(pipe.queue) : pipe.queue[j] \in EventType
    BY SequenceTypes
  <2> QED BY <2>1 DEF EventType, VersionsPast
<1>3. ASSUME NEW i \in 1 .. Len(pipe'.queue)
      PROVE  pipe'.queue[i].snap <= project'
  <2>1. CASE pipe'.queue[i] = e /\ Entered(pipe.queue, pipe'.queue, e)
    BY <2>1
  <2>2. CASE \E j \in 1 .. Len(pipe.queue) : pipe'.queue[i] = pipe.queue[j]
    BY <1>1, <1>2, <2>2
  <2> QED BY <2>1, <2>2, QueueOrigin
<1> QED BY <1>1, <1>3 DEF VersionsPast

(* ... in particular when the project stays as it is. *)
LEMMA VersionsLeft ==
    ASSUME TypeInv, TypeInv', VersionsPast, project' = project, NEW e,
           Entered(pipe.queue, pipe'.queue, e) \/ Taken \/ pipe'.queue = pipe.queue,
           Entered(pipe.queue, pipe'.queue, e) => e.snap <= project,
           gui'.deferred = gui.deferred \/ gui'.deferred <= project,
           pipe'.snap = pipe.snap \/ pipe'.snap <= project,
           pipe'.applied = pipe.applied, pipe'.lost = pipe.lost \/ pipe'.lost <= project
    PROVE  VersionsPast'
<1>1. project <= project'
  BY DEF TypeInv
<1> QED BY <1>1, VersionsKept DEF VersionsPast

(* Dispatches, when none is made and no call is answered. *)
LEMMA CallsKept ==
    ASSUME TypeInv, TypeInv', CallInv, calls'.made = calls.made,
           calls'.waiting \subseteq calls.waiting, calls'.woken \subseteq calls.woken,
           pipe'.held = pipe.held, pipe'.pc = "idle" => pipe.pc = "idle", NEW e,
           Entered(pipe.queue, pipe'.queue, e) \/ Taken \/ pipe'.queue = pipe.queue,
           Entered(pipe.queue, pipe'.queue, e) => e.kind # "dispatch"
    PROVE  CallInv'
<1>1. CallNumbers'
  BY DEF CallInv, CallNumbers
<1>2. Len(pipe.queue) \in Nat /\ Len(pipe'.queue) \in Nat
  BY QueueLengths
<1>3. ASSUME NEW i \in 1 .. Len(pipe'.queue), pipe'.queue[i].kind = "dispatch"
      PROVE  /\ pipe'.queue[i].n # None /\ pipe'.queue[i].n <= calls'.made
             /\ pipe'.queue[i].n \notin calls'.woken /\ pipe'.queue[i].n # pipe'.held
  <2>1. \/ \E j \in 1 .. Len(pipe.queue) : pipe'.queue[i] = pipe.queue[j]
        \/ pipe'.queue[i] = e /\ Entered(pipe.queue, pipe'.queue, e)
    BY QueueOrigin
  <2> QED BY <1>3, <2>1 DEF CallInv, DispatchesLive
<1>4. ASSUME NEW i \in 1 .. Len(pipe'.queue), NEW j \in 1 .. Len(pipe'.queue),
             pipe'.queue[i].kind = "dispatch", pipe'.queue[j].kind = "dispatch",
             pipe'.queue[i].n = pipe'.queue[j].n
      PROVE  i = j
  <2>1. CASE pipe'.queue = pipe.queue
    BY <1>4, <2>1 DEF CallInv, DispatchesLive
  <2>2. CASE Entered(pipe.queue, pipe'.queue, e)
    <3> DEFINE n == Len(pipe.queue)
    <3>0. e.kind # "dispatch" /\ pipe'.queue[n + 1] = e /\ Len(pipe'.queue) = n + 1 /\ n \in Nat
      BY <1>2, <2>2 DEF Entered
    <3>1. i \in 1 .. Len(pipe.queue) /\ j \in 1 .. Len(pipe.queue)
      <4> HIDE DEF n
      <4>1. i # n + 1 /\ j # n + 1
        BY <1>4, <3>0
      <4>2. i \in 1 .. n + 1 /\ j \in 1 .. n + 1
        BY <3>0
      <4>3. i \in 1 .. n /\ j \in 1 .. n
        BY <3>0, <4>1, <4>2
      <4> QED BY <4>3 DEF n
    <3>2. pipe'.queue[i] = pipe.queue[i] /\ pipe'.queue[j] = pipe.queue[j]
      BY <2>2, <3>1 DEF Entered
    <3> QED BY <1>4, <3>1, <3>2 DEF CallInv, DispatchesLive
  <2>3. CASE Taken
    <3>1. /\ i + 1 \in 1 .. Len(pipe.queue) /\ j + 1 \in 1 .. Len(pipe.queue)
          /\ pipe'.queue[i] = pipe.queue[i + 1] /\ pipe'.queue[j] = pipe.queue[j + 1]
      BY <1>2, <2>3 DEF Taken
    <3>2. i + 1 = j + 1
      BY <1>4, <3>1 DEF CallInv, DispatchesLive
    <3> QED BY <3>2
  <2> QED BY <2>1, <2>2, <2>3
<1>5. DispatchesLive'
  BY <1>3, <1>4 DEF DispatchesLive
<1> QED BY <1>1, <1>5 DEF CallInv

-----------------------------------------------------------------------------
(* What carries the last version *)

(* Who knows it, and a sync of the processing thread, are its own affair. *)
LEMMA PipeCarries ==
    ASSUME project' = project, pipe'.pc = pipe.pc, pipe'.held = pipe.held,
           pipe'.snap = pipe.snap, pipe'.applied = pipe.applied, pipe'.lost = pipe.lost
    PROVE  (Known => Known') /\ (InSync => InSync')
BY DEF Known, InSync

(* An event that brings it goes on to do so while it is in the queue. *)
LEMMA QueueCarries ==
    ASSUME TypeInv, TypeInv', Queued, project' = project,
           gui.deferred = project => gui'.deferred = project, NEW e,
           Entered(pipe.queue, pipe'.queue, e) \/ pipe'.queue = pipe.queue,
           \A i \in 1 .. Len(pipe.queue) :
              pipe.queue[i].kind = "dispatch" /\ pipe.queue[i].n \in calls.waiting
                 => pipe.queue[i].n \in calls'.waiting
    PROVE  Queued'
<1>1. PICK i \in 1 .. Len(pipe.queue) : Brings(pipe.queue[i])
  BY DEF Queued
<1>2. i \in 1 .. Len(pipe'.queue) /\ pipe'.queue[i] = pipe.queue[i]
  BY SequenceTypes DEF Entered
<1>3. Brings(pipe.queue[i])'
  BY <1>1, <1>2 DEF Brings
<1> QED BY <1>2, <1>3 DEF Queued
(* A step that leaves the processing thread's queue as it is, and makes and
   answers no call. *)
LEMMA QuietKeeps ==
    ASSUME TypeInv, TypeInv', VersionsPast, CallInv, project' = project,
           pipe'.queue = pipe.queue, pipe'.held = pipe.held,
           pipe'.pc = "idle" => pipe.pc = "idle", calls'.made = calls.made,
           calls'.waiting \subseteq calls.waiting, calls'.woken \subseteq calls.woken,
           gui'.deferred = gui.deferred \/ gui'.deferred <= project,
           pipe'.snap = pipe.snap \/ pipe'.snap <= project,
           pipe'.applied = pipe.applied, pipe'.lost = pipe.lost \/ pipe'.lost <= project
    PROVE  VersionsPast' /\ CallInv'
<1>1. VersionsPast'
  BY DEF VersionsPast
<1>2. CallNumbers'
  BY DEF CallInv, CallNumbers
<1>3. DispatchesLive'
  BY DEF CallInv, DispatchesLive
<1> QED BY <1>1, <1>2, <1>3 DEF CallInv

(* A step of the GUI thread that does not touch the processing thread. *)
LEMMA UntouchedCarries ==
    ASSUME TypeInv, TypeInv', project' = project, pipe' = pipe,
           gui.deferred = project => gui'.deferred = project,
           \A i \in 1 .. Len(pipe.queue) :
              pipe.queue[i].kind = "dispatch" /\ pipe.queue[i].n \in calls.waiting
                 => pipe.queue[i].n \in calls'.waiting,
           Known \/ Queued \/ InSync
    PROVE  Carried'
<1>1. (Known => Known') /\ (InSync => InSync')
  BY PipeCarries
<1>2. Queued => Queued'
  BY QueueCarries
<1> QED BY <1>1, <1>2 DEF Carried

(* Only the innermost call can be about to send a snapshot, which is the last
   version. *)
LEMMA SendingIsInnermost ==
    ASSUME TypeInv, FrameInv, NEW i \in 1 .. Len(gui.stack),
           gui.stack[i].pc \in {"check", "marshal"}
    PROVE  i = Len(gui.stack) /\ Top = gui.stack[i]
<1>1. gui.stack \in Seq(FrameType) /\ Len(gui.stack) \in Nat
  BY TopIsLast
<1>2. i = Len(gui.stack)
  BY <1>1 DEF FrameInv, OuterServe
<1> QED BY <1>1, <1>2 DEF Top, Last

(* What a sync is about to send is the last version. *)
LEMMA SentIsLast ==
    ASSUME TypeInv, FrameInv, Top.op = "sync", Top.pc \in {"check", "marshal"}
    PROVE  Top.snap = project
<1>1. Top = gui.stack[Len(gui.stack)] /\ Len(gui.stack) \in 1 .. Len(gui.stack)
  BY TopIsLast
<1> QED BY <1>1 DEF FrameInv, FramesCurrent, FrameCurrent

(* What the GUI thread has yet to send stays with it when it does something
   else. *)
LEMMA GuiCarries ==
    ASSUME TypeInv, FrameInv, InGui, ~(Top.op = "sync" /\ Top.pc \in {"check", "marshal"}),
           project' = project, gui'.deferred = gui.deferred,
           flags.parked = TRUE => flags'.parked = TRUE,
           (\E i \in 1 .. Len(gui.queue) : gui.queue[i] = "sync") =>
              (\E i \in 1 .. Len(gui'.queue) : gui'.queue[i] = "sync"),
           gui.inFlight = TRUE /\ gui.pending = TRUE => gui'.inFlight = TRUE /\ gui'.pending = TRUE
    PROVE  InGui'
<1>1. ASSUME NEW i \in 1 .. Len(gui.stack), gui.stack[i].op = "sync",
             gui.stack[i].pc \in {"check", "marshal"}
      PROVE  FALSE
  BY <1>1, SendingIsInnermost
<1> QED BY <1>1 DEF InGui

(* A call that is left, or a sync's next turn. *)
LEMMA EndedKeepsFrames ==
    ASSUME TypeInv, TypeInv', FrameInv, Top.pc # "idle", Ended(gui'), project' = project
    PROVE  FrameInv'
<1>1. Top = gui.stack[Len(gui.stack)]
  BY TopIsLast
<1>2. CASE Leaves(gui.stack, gui'.stack)
  <2>1. \/ gui'.inFlight = FALSE
        \/ gui.stack[Len(gui.stack)].op # "sync" /\ gui'.inFlight = gui.inFlight
    BY <1>1, <1>2 DEF Ended, Leaves, GoesOn
  <2> QED BY <1>2, <2>1, FramesLeft
<1>3. CASE ~Leaves(gui.stack, gui'.stack)
  <2> DEFINE f == gui'.stack[Len(gui.stack)]
  <2>1. /\ GoesOn(gui.stack, gui'.stack) /\ gui'.inFlight = gui.inFlight
        /\ f.pc = "check" /\ f.snap = project
    BY <1>3 DEF Ended
  <2>2. f.snap <= project
    BY <2>1 DEF TypeInv
  <2> HIDE DEF f
  <2> QED BY <2>1, <2>2, FramesGoOn DEF f
<1> QED BY <1>2, <1>3

(* A sync that ends leaves no version unsent that the GUI thread had to send. *)
LEMMA EndedCarries ==
    ASSUME TypeInv, FrameInv, InGui, Top.pc \notin {"idle", "check", "marshal"},
           Ended(gui'), project' = project, flags' = flags
    PROVE  InGui'
<1>1. \A i \in 1 .. Len(gui.stack) : gui.stack[i].pc \notin {"check", "marshal"}
  BY SendingIsInnermost
<1>2. CASE gui.inFlight = TRUE /\ gui.pending = TRUE
  <2>1. CASE Top.op # "sync" /\ gui'.inFlight = gui.inFlight /\ gui'.pending = gui.pending
    BY <1>2, <2>1 DEF InGui
  <2>2. CASE GoesOn(gui.stack, gui'.stack) /\ gui'.stack[Len(gui.stack)].pc = "check"
             /\ Top.op = "sync"
    <3>1. /\ Len(gui'.stack) = Len(gui.stack) /\ Len(gui.stack) \in 1 .. Len(gui.stack)
          /\ gui'.stack[Len(gui.stack)].op = "sync"
      BY <2>2, TopIsLast DEF GoesOn
    <3> QED BY <2>2, <3>1 DEF InGui
  <2> QED BY <1>2, <2>1, <2>2 DEF Ended
<1>3. CASE ~(gui.inFlight = TRUE /\ gui.pending = TRUE)
  BY <1>1, <1>3 DEF InGui, Ended
<1> QED BY <1>2, <1>3

(* The innermost call goes on at a place where it sends nothing. *)
LEMMA MovedKeepsFrames ==
    ASSUME TypeInv, TypeInv', FrameInv, Top.pc # "idle", project' = project,
           NEW p, Moved(gui', p), p \notin {"check", "marshal"},
           p = "abandon" => Top.call \in calls'.woken
    PROVE  FrameInv'
<1> DEFINE f == gui'.stack[Len(gui.stack)]
<1>1. /\ Top = gui.stack[Len(gui.stack)] /\ Len(gui.stack) \in 1 .. Len(gui.stack)
  BY TopIsLast
<1>2. Top.snap <= project
  BY <1>1 DEF FrameInv, FramesCurrent, FrameCurrent
<1>3. /\ GoesOn(gui.stack, gui'.stack) /\ gui'.inFlight = gui.inFlight
      /\ f.pc = p /\ f.call = Top.call /\ f.snap = Top.snap
  BY DEF Moved, SameButStack
<1> HIDE DEF f
<1> QED BY <1>2, <1>3, FramesGoOn DEF f

-----------------------------------------------------------------------------
(* The steps of the GUI thread *)

(* A sync that finds the other thread parked defers its snapshot, the last. *)
LEMMA CheckArrives ==
    ASSUME TypeInv, TypeInv', ArrivalInv, SyncChecksParked
    PROVE  ArrivalInv'
<1>1. /\ Top.op = "sync" /\ Top.pc = "check" /\ Top.snap = project /\ Top.pc # "idle"
      /\ UNCHANGED <<project, pipe, calls, flags, readers, left>>
  BY SentIsLast DEF SyncChecksParked, Running, ArrivalInv
<1>2. CASE flags.parked
  <2> DEFINE y == Pop(gui)
  <2>1. y \in GuiType /\ SameButStack(y, gui) /\ Leaves(gui.stack, y.stack)
    BY <1>1, PoppedShape DEF Leaves
  <2>2. gui' = [y EXCEPT !.inFlight = FALSE, !.deferred = Top.snap]
    BY <1>2 DEF SyncChecksParked
  <2> HIDE DEF y
  <2>3. gui'.stack = y.stack /\ gui'.inFlight = FALSE /\ gui'.deferred = project
    BY <1>1, <2>1, <2>2 DEF GuiType
  <2>4. FrameInv'
    BY <1>1, <2>1, <2>3, FramesLeft DEF ArrivalInv
  <2>5. gui'.deferred <= project
    BY <2>3 DEF TypeInv
  <2>6. VersionsPast' /\ CallInv'
    BY <1>1, <2>5, QuietKeeps DEF ArrivalInv
  <2>7. flags'.parked = TRUE
    BY <1>1, <1>2 DEF TypeInv
  <2>8. Carried'
    BY <1>1, <2>3, <2>7 DEF Carried, InGui
  <2> QED BY <2>4, <2>6, <2>8 DEF ArrivalInv
<1>3. CASE ~flags.parked
  <2> DEFINE n == Len(gui.stack)
             f == gui'.stack[n]
  <2>1. Moved(gui', "marshal")
    BY <1>1, <1>3, MoveMoves DEF SyncChecksParked
  <2>2. /\ GoesOn(gui.stack, gui'.stack) /\ f.pc = "marshal" /\ f.snap = project
        /\ gui'.inFlight = gui.inFlight /\ gui'.deferred = gui.deferred
    BY <1>1, <2>1 DEF Moved, SameButStack
  <2>3. f.snap <= project /\ n \in 1 .. Len(gui'.stack) /\ f.op = "sync"
    BY <1>1, <2>2, TopIsLast DEF TypeInv, GoesOn
  <2> HIDE DEF f
  <2>4. FrameInv'
    BY <1>1, <2>2, <2>3, FramesGoOn DEF ArrivalInv, f
  <2>5. VersionsPast' /\ CallInv'
    BY <1>1, <2>2, QuietKeeps DEF ArrivalInv
  <2>6. Carried'
    BY <2>2, <2>3 DEF Carried, InGui, f
  <2> QED BY <2>4, <2>5, <2>6 DEF ArrivalInv
<1> QED BY <1>2, <1>3

(* A sync run inline is refused, and its version known to be lost. *)
LEMMA InlineArrives ==
    ASSUME TypeInv, TypeInv', ArrivalInv, MarshalInline
    PROVE  ArrivalInv'
<1>1. /\ Top.pc = "marshal" /\ Top.pc # "idle" /\ flags.parked
      /\ UNCHANGED <<project, calls, flags, readers, left>>
  BY DEF MarshalInline
<1>2. CASE /\ Top.op = "sync" /\ gui' = Returned(gui)
           /\ pipe' = applyProjectSnapshot(pipe, Top.snap, FALSE)
  <2>1. Top.snap = project /\ project \in Nat /\ pipe.lost \in Nat /\ pipe.lost <= project
    BY <1>1, <1>2, SentIsLast DEF ArrivalInv, VersionsPast, TypeInv, PipeType
  <2>2. Newest(pipe.lost, project) = project
    BY <2>1 DEF Newest
  <2>3. pipe' = [pipe EXCEPT !.lost = project]
    BY <1>2, <2>1, <2>2 DEF applyProjectSnapshot
  <2>4. /\ pipe'.queue = pipe.queue /\ pipe'.pc = pipe.pc /\ pipe'.held = pipe.held
        /\ pipe'.snap = pipe.snap /\ pipe'.applied = pipe.applied /\ pipe'.lost = project
    BY <2>3 DEF TypeInv, PipeType
  <2>5. Ended(gui')
    BY <1>1, <1>2, ReturnedEnds
  <2>6. FrameInv'
    BY <1>1, <2>5, EndedKeepsFrames DEF ArrivalInv
  <2>7. VersionsPast' /\ CallInv'
    BY <1>1, <2>1, <2>4, <2>5, QuietKeeps DEF ArrivalInv, Ended
  <2>8. Carried'
    BY <1>1, <2>4 DEF Carried, Known
  <2> QED BY <2>6, <2>7, <2>8 DEF ArrivalInv
<1>3. CASE Top.op = "ask" /\ gui' = MoveTo(gui, "recursing") /\ UNCHANGED pipe
  <2>1. Moved(gui', "recursing")
    BY <1>1, <1>3, MoveMoves
  <2>2. FrameInv'
    BY <1>1, <2>1, MovedKeepsFrames DEF ArrivalInv
  <2>3. /\ gui'.queue = gui.queue /\ gui'.inFlight = gui.inFlight
        /\ gui'.pending = gui.pending /\ gui'.deferred = gui.deferred
    BY <2>1 DEF Moved, SameButStack
  <2>4. VersionsPast' /\ CallInv'
    BY <1>1, <1>3, <2>3, QuietKeeps DEF ArrivalInv
  <2>5. CASE InGui
    <3>1. InGui'
      BY <1>1, <1>3, <2>3, <2>5, GuiCarries DEF ArrivalInv
    <3> QED BY <2>2, <2>4, <3>1 DEF ArrivalInv, Carried
  <2>6. CASE Known \/ Queued \/ InSync
    <3>1. Carried'
      BY <1>1, <1>3, <2>3, <2>6, UntouchedCarries
    <3> QED BY <2>2, <2>4, <3>1 DEF ArrivalInv
  <2> QED BY <2>5, <2>6 DEF ArrivalInv, Carried
<1> QED BY <1>2, <1>3 DEF MarshalInline

(* The nested loop returns once its call was answered. *)
LEMMA ReturnArrives ==
    ASSUME TypeInv, TypeInv', ArrivalInv, LoopReturns, ~gui.exiting
    PROVE  ArrivalInv'
<1>1. /\ Top.pc = "wait" /\ Top.pc # "idle" /\ Top.call \in calls.woken
      /\ gui' = MoveTo(gui, "abandon")
      /\ UNCHANGED <<project, pipe, calls, flags, readers, left>>
  BY DEF LoopReturns
<1>2. Moved(gui', "abandon")
  BY <1>1, MoveMoves
<1>3. FrameInv'
  BY <1>1, <1>2, MovedKeepsFrames DEF ArrivalInv
<1>4. /\ gui'.queue = gui.queue /\ gui'.inFlight = gui.inFlight
      /\ gui'.pending = gui.pending /\ gui'.deferred = gui.deferred
  BY <1>2 DEF Moved, SameButStack
<1>5. VersionsPast' /\ CallInv'
  BY <1>1, <1>4, QuietKeeps DEF ArrivalInv
<1>6. CASE InGui
  <2>1. InGui'
    BY <1>1, <1>4, <1>6, GuiCarries DEF ArrivalInv
  <2> QED BY <1>3, <1>5, <2>1 DEF ArrivalInv, Carried
<1>7. CASE Known \/ Queued \/ InSync
  <2>1. Carried'
    BY <1>1, <1>4, <1>7, UntouchedCarries
  <2> QED BY <1>3, <1>5, <2>1 DEF ArrivalInv
<1> QED BY <1>6, <1>7 DEF ArrivalInv, Carried

(* A call that returns had carried its version, or takes another turn. *)
LEMMA AbandonArrives ==
    ASSUME TypeInv, TypeInv', ArrivalInv, abandon
    PROVE  ArrivalInv'
<1>1. /\ Top.pc = "abandon" /\ Top.pc # "idle" /\ gui' = Returned(gui)
      /\ UNCHANGED <<project, pipe, flags, readers, left>>
  BY DEF abandon
<1>2. Ended(gui')
  BY <1>1, ReturnedEnds
<1>3. /\ calls'.made = calls.made /\ calls'.waiting = calls.waiting \ {Top.call}
      /\ calls'.woken = calls.woken \ {Top.call}
  BY DEF abandon, TypeInv
<1>4. Top.call \in calls.woken
  <2>1. Top = gui.stack[Len(gui.stack)] /\ Len(gui.stack) \in 1 .. Len(gui.stack)
    BY <1>1, TopIsLast
  <2> QED BY <1>1, <2>1 DEF ArrivalInv, FrameInv, FramesCurrent, FrameCurrent
<1>5. FrameInv'
  BY <1>1, <1>2, EndedKeepsFrames DEF ArrivalInv
<1>6. VersionsPast' /\ CallInv'
  BY <1>1, <1>2, <1>3, QuietKeeps DEF ArrivalInv, Ended
<1>7. CASE InGui
  <2>1. InGui'
    BY <1>1, <1>2, <1>7, EndedCarries DEF ArrivalInv
  <2> QED BY <1>5, <1>6, <2>1 DEF ArrivalInv, Carried
<1>8. CASE Known \/ Queued \/ InSync
  <2>1. \A i \in 1 .. Len(pipe.queue) :
           pipe.queue[i].kind = "dispatch" /\ pipe.queue[i].n \in calls.waiting
              => pipe.queue[i].n \in calls'.waiting
    BY <1>3, <1>4 DEF ArrivalInv, CallInv, DispatchesLive
  <2>2. Carried'
    BY <1>1, <1>2, <1>8, <2>1, UntouchedCarries DEF Ended
  <2> QED BY <1>5, <1>6, <2>2 DEF ArrivalInv
<1> QED BY <1>7, <1>8 DEF ArrivalInv, Carried

(* A new call: its number is new, and its dispatch brings a sync's version. *)
LEMMA PostedArrives ==
    ASSUME TypeInv, TypeInv', ArrivalInv, MarshalPosted
    PROVE  ArrivalInv'
<1> DEFINE m == calls.made + 1
           e == Event("dispatch", m, Top.op, Top.snap)
           n == Len(gui.stack)
           f == gui'.stack[n]
<1>1. /\ Top.pc = "marshal" /\ Top.pc # "idle" /\ calls.made \in Nat /\ m \in Nat
      /\ Top = gui.stack[n] /\ n \in 1 .. n /\ Top \in FrameType /\ gui.stack \in Seq(FrameType)
  <2>1. Top.pc = "marshal" /\ calls.made \in Nat
    BY DEF MarshalPosted, TypeInv
  <2> QED BY <2>1, TopIsLast
<1>2. /\ pipe' = Post(e) /\ UNCHANGED <<project, flags, readers, left>>
      /\ calls'.made = m /\ calls'.waiting = calls.waiting \cup {m} /\ calls'.woken = calls.woken
  BY DEF MarshalPosted, TypeInv
<1>3. /\ e \in EventType /\ e.kind = "dispatch" /\ e.n = m /\ e.op = Top.op /\ e.snap = Top.snap
  BY <1>1 DEF Event, EventType, FrameType
<1>4. /\ GoesOn(gui.stack, gui'.stack) /\ f.pc = "wait" /\ f.snap = Top.snap
      /\ SameButStack(gui', gui)
  <2> DEFINE y == MoveTo(gui, "wait")
  <2>1. Moved(y, "wait")
    BY <1>1, MoveMoves
  <2>2. y.stack[n] \in FrameType /\ y.stack \in Seq(FrameType) /\ y \in GuiType
    <3>1. y \in GuiType
      BY <1>1, MoveShape
    <3>2. Len(y.stack) = n
      BY <2>1 DEF Moved, GoesOn
    <3> QED BY <1>1, <3>1, <3>2 DEF GuiType
  <2>3. gui' = [y EXCEPT !.stack[n].call = m]
    BY DEF MarshalPosted
  <2> HIDE DEF y
  <2> DEFINE t == [y.stack EXCEPT ![n] = [y.stack[n] EXCEPT !.call = m]]
  <2>4. gui' = [y EXCEPT !.stack = t]
    BY <2>2, <2>3 DEF GuiType
  <2>5. /\ Len(y.stack) = n /\ Len(t) = n /\ t[n] = [y.stack[n] EXCEPT !.call = m]
        /\ \A i \in 1 .. n - 1 : t[i] = y.stack[i]
    BY <1>1, <2>1, <2>2 DEF Moved, GoesOn
  <2>6. t[n].op = y.stack[n].op /\ t[n].pc = y.stack[n].pc /\ t[n].snap = y.stack[n].snap
    BY <2>2, <2>5 DEF FrameType
  <2> HIDE DEF t
  <2>7. gui'.stack = t /\ SameButStack(gui', y)
    BY <2>2, <2>4 DEF GuiType, SameButStack
  <2> QED BY <2>1, <2>5, <2>6, <2>7 DEF Moved, GoesOn, SameButStack
<1> HIDE DEF e, f, m
<1>5. /\ Entered(pipe.queue, pipe'.queue, e)
      /\ pipe'.pc = pipe.pc /\ pipe'.held = pipe.held /\ pipe'.snap = pipe.snap
      /\ pipe'.applied = pipe.applied /\ pipe'.lost = pipe.lost
  BY <1>2, <1>3, PostLeaves
<1>6. Top.snap <= project
  BY <1>1 DEF ArrivalInv, FrameInv, FramesCurrent, FrameCurrent
<1>7. FrameInv'
  BY <1>2, <1>4, <1>6, FramesGoOn DEF ArrivalInv, SameButStack, f
<1>8. VersionsPast'
  <2>1. gui'.deferred = gui.deferred
    BY <1>4 DEF SameButStack
  <2> QED BY <1>2, <1>3, <1>5, <1>6, <2>1, VersionsLeft DEF ArrivalInv
<1>9. CallNumbers'
  <2>1. m > calls.made /\ m # None
    BY <1>1 DEF m, None
  <2>2. calls.waiting \subseteq Nat /\ calls.woken \subseteq Nat /\ pipe.held \in Nat
    BY DEF TypeInv, PipeType
  <2>3. \A k \in calls.waiting \cup calls.woken : k # None /\ k <= calls.made
    BY DEF ArrivalInv, CallInv, CallNumbers
  <2>4. \A k \in calls'.waiting \cup calls'.woken : k # None /\ k <= calls'.made
    BY <1>1, <1>2, <2>1, <2>2, <2>3
  <2>5. pipe'.held <= calls'.made
    BY <1>1, <1>2, <1>5, <2>1, <2>2 DEF ArrivalInv, CallInv, CallNumbers
  <2> QED BY <1>5, <2>4, <2>5 DEF ArrivalInv, CallInv, CallNumbers
<1>10. DispatchesLive'
  <2> DEFINE q == Len(pipe.queue)
  <2>1. /\ q \in Nat /\ Len(pipe'.queue) = q + 1 /\ pipe'.queue[q + 1] = e
        /\ \A i \in 1 .. q : pipe'.queue[i] = pipe.queue[i]
    BY <1>5, QueueLengths DEF Entered
  <2>2. m > calls.made /\ m # None /\ pipe.held \in Nat /\ calls.woken \subseteq Nat
    <3>1. m > calls.made /\ m # None
      BY <1>1 DEF m, None
    <3> QED BY <3>1 DEF TypeInv, PipeType
  <2>3. /\ m \notin calls.woken /\ m # pipe.held
        /\ \A i \in 1 .. q : pipe.queue[i].kind = "dispatch" => pipe.queue[i].n # m
    <3>1. \A i \in 1 .. q : pipe.queue[i].n \in Nat
      <4>1. \A i \in 1 .. q : pipe.queue[i] \in EventType
        BY SequenceTypes
      <4> QED BY <4>1 DEF EventType
    <3>2. \A i \in 1 .. q : pipe.queue[i].kind = "dispatch" => pipe.queue[i].n <= calls.made
      BY DEF ArrivalInv, CallInv, DispatchesLive
    <3>3. pipe.held <= calls.made /\ \A k \in calls.woken : k <= calls.made
      BY DEF ArrivalInv, CallInv, CallNumbers
    <3> QED BY <1>1, <2>2, <3>1, <3>2, <3>3
  <2>4. \A i \in 1 .. q + 1 : i \in 1 .. q \/ i = q + 1
    BY <2>1
  <2>5. ASSUME NEW i \in 1 .. q + 1, pipe'.queue[i].kind = "dispatch"
        PROVE  /\ pipe'.queue[i].n # None /\ pipe'.queue[i].n <= calls'.made
               /\ pipe'.queue[i].n \notin calls'.woken /\ pipe'.queue[i].n # pipe'.held
    <3>1. CASE i = q + 1
      BY <1>1, <1>2, <1>3, <1>5, <2>1, <2>2, <2>3, <3>1
    <3>2. CASE i \in 1 .. q
      <4>1. pipe.queue[i].n \in Nat
        <5>1. pipe.queue[i] \in EventType
          BY <3>2, SequenceTypes
        <5> QED BY <5>1 DEF EventType
      <4>2. /\ pipe'.queue[i] = pipe.queue[i] /\ pipe.queue[i].n <= calls.made
            /\ pipe.queue[i].n # None /\ pipe.queue[i].n \notin calls.woken
            /\ pipe.queue[i].n # pipe.held
        BY <2>1, <2>5, <3>2 DEF ArrivalInv, CallInv, DispatchesLive
      <4> QED BY <1>1, <1>2, <1>5, <2>2, <4>1, <4>2
    <3> QED BY <2>4, <3>1, <3>2
  <2>6. ASSUME NEW i \in 1 .. q + 1, NEW j \in 1 .. q + 1,
               pipe'.queue[i].kind = "dispatch", pipe'.queue[j].kind = "dispatch",
               pipe'.queue[i].n = pipe'.queue[j].n
        PROVE  i = j
    <3>1. CASE i \in 1 .. q /\ j \in 1 .. q
      BY <2>1, <2>6, <3>1 DEF ArrivalInv, CallInv, DispatchesLive
    <3>2. CASE i = q + 1 \/ j = q + 1
      BY <1>3, <2>1, <2>3, <2>4, <2>6, <3>2
    <3> QED BY <2>4, <3>1, <3>2
  <2> QED BY <2>1, <2>5, <2>6 DEF DispatchesLive
<1>11. Carried'
  <2>1. CASE Top.op = "sync"
    <3>1. Top.snap = project
      BY <1>1, <2>1, SentIsLast DEF ArrivalInv
    <3>2. Len(pipe.queue) + 1 \in 1 .. Len(pipe'.queue) /\ pipe'.queue[Len(pipe.queue) + 1] = e
      BY <1>5, QueueLengths DEF Entered
    <3>3. \E i \in 1 .. Len(pipe'.queue) :
             /\ pipe'.queue[i].kind = "dispatch" /\ pipe'.queue[i].op = "sync"
             /\ pipe'.queue[i].snap = project' /\ pipe'.queue[i].n \in calls'.waiting
      BY <1>2, <1>3, <2>1, <3>1, <3>2
    <3> QED BY <3>3 DEF Carried, Queued, Brings
  <2>2. CASE Top.op # "sync"
    <3>1. CASE InGui
      BY <1>2, <1>4, <2>2, <3>1, GuiCarries DEF ArrivalInv, SameButStack, Carried
    <3>2. CASE Queued
      <4>1. \A i \in 1 .. Len(pipe.queue) :
               pipe.queue[i].kind = "dispatch" /\ pipe.queue[i].n \in calls.waiting
                  => pipe.queue[i].n \in calls'.waiting
        BY <1>2
      <4> QED BY <1>2, <1>4, <1>5, <3>2, <4>1, QueueCarries DEF SameButStack, Carried
    <3>3. CASE Known \/ InSync
      BY <1>2, <1>5, <3>3, PipeCarries DEF Carried
    <3> QED BY <3>1, <3>2, <3>3 DEF ArrivalInv, Carried
  <2> QED BY <2>1, <2>2
<1> QED BY <1>7, <1>8, <1>9, <1>10, <1>11 DEF ArrivalInv, CallInv

(* The start of a sync sends the last version, now or in its next turn. *)
LEMMA BegunSends ==
    ASSUME NEW x, gui' \in GuiType, Begun(x, gui', project'), x.stack = gui.stack,
           Len(gui.stack) \in Nat
    PROVE  InGui'
<1>1. CASE Entered(x.stack, gui'.stack, Frame("sync", "check", project'))
  <2>1. /\ Len(gui.stack) + 1 \in 1 .. Len(gui'.stack)
        /\ gui'.stack[Len(gui.stack) + 1].op = "sync"
        /\ gui'.stack[Len(gui.stack) + 1].pc = "check"
    BY <1>1 DEF Entered, Frame
  <2> QED BY <2>1 DEF InGui
<1>2. CASE gui'.pending = TRUE
  BY <1>2 DEF Begun, InGui
<1> QED BY <1>1, <1>2 DEF Begun

(* ... and the frames stay right. *)
LEMMA BegunKeepsFrames ==
    ASSUME TypeInv, TypeInv', FrameInv, NEW x, Begun(x, gui', project'), x.stack = gui.stack,
           x.inFlight = gui.inFlight, project <= project', UNCHANGED calls,
           Top.pc \in {"idle", "wait", "run", "join"}
    PROVE  FrameInv'
<1> DEFINE f == Frame("sync", "check", project')
<1>1. f.op = "sync" /\ f.pc = "check" /\ f.snap = project' /\ f.snap <= project'
  BY DEF Frame, TypeInv
<1> HIDE DEF f
<1>2. CASE Entered(gui.stack, gui'.stack, f)
  BY <1>1, <1>2, FramesEntered
<1>3. CASE gui'.stack = gui.stack /\ gui'.inFlight = gui.inFlight
  BY <1>3, FramesKept
<1> QED BY <1>2, <1>3 DEF Begun, f

(* A queued sync that is served begins, and an answer has the last version. *)
LEMMA ServeArrives ==
    ASSUME TypeInv, TypeInv', BracketInv, ArrivalInv, ServeQueued
    PROVE  ArrivalInv'
<1> DEFINE x == [gui EXCEPT !.queue = Tail(@)]
<1>1. /\ gui \in GuiType /\ gui.queue \in Seq({"sync", "collect", "command"})
      /\ gui.queue # <<>> /\ Len(gui.stack) \in Nat
      /\ UNCHANGED <<project, calls, flags, readers, left>> /\ project \in Nat
  BY SequenceTypes DEF TypeInv, ServeQueued
<1>2. /\ x \in GuiType /\ x.stack = gui.stack /\ x.inFlight = gui.inFlight
      /\ x.pending = gui.pending /\ x.deferred = gui.deferred /\ x.queue = Tail(gui.queue)
  <2>1. Tail(gui.queue) \in Seq({"sync", "collect", "command"})
    BY <1>1
  <2> QED BY <1>1, <2>1 DEF GuiType
<1>3. Top.pc \in {"idle", "wait", "run", "join"} /\ project <= project'
  BY <1>1 DEF ServeQueued, Serving, Pumping
<1>4. /\ Len(gui.queue) > 0 /\ Len(Tail(gui.queue)) = Len(gui.queue) - 1
      /\ \A i \in 1 .. Len(gui.queue) - 1 : Tail(gui.queue)[i] = gui.queue[i + 1]
      /\ Head(gui.queue) = gui.queue[1] /\ Len(gui.queue) \in Nat
  BY <1>1
<1>5. ASSUME Head(gui.queue) # "sync", \E i \in 1 .. Len(gui.queue) : gui.queue[i] = "sync"
      PROVE  \E i \in 1 .. Len(Tail(gui.queue)) : Tail(gui.queue)[i] = "sync"
  <2>1. PICK i \in 1 .. Len(gui.queue) : gui.queue[i] = "sync"
    BY <1>5
  <2>2. i - 1 \in 1 .. Len(gui.queue) - 1 /\ (i - 1) + 1 = i
    BY <1>4, <1>5, <2>1
  <2> QED BY <1>4, <2>1, <2>2
<1>6. CASE Head(gui.queue) = "sync" /\ gui' = startSync(x, project) /\ UNCHANGED pipe
  <2> HIDE DEF x
  <2>1. Begun(x, gui', project')
    BY <1>1, <1>2, <1>6, StartBegins
  <2>2. FrameInv'
    BY <1>1, <1>2, <1>3, <2>1, BegunKeepsFrames DEF ArrivalInv
  <2>3. InGui'
    BY <1>1, <1>2, <2>1, BegunSends DEF TypeInv
  <2>4. VersionsPast' /\ CallInv'
    BY <1>1, <1>2, <1>6, <2>1, QuietKeeps DEF ArrivalInv, Begun
  <2> QED BY <2>2, <2>3, <2>4 DEF ArrivalInv, Carried
<1>7. CASE /\ Head(gui.queue) = "collect" /\ gui' = x
           /\ pipe' = [pipe EXCEPT !.pc = "answered", !.snap = project]
  <2> HIDE DEF x
  <2>1. /\ pipe'.pc = "answered" /\ pipe'.snap = project /\ pipe'.queue = pipe.queue
        /\ pipe'.held = pipe.held /\ pipe'.applied = pipe.applied /\ pipe'.lost = pipe.lost
    BY <1>7 DEF TypeInv, PipeType
  <2>2. pipe.pc = "blocked"
    BY <1>4, <1>7 DEF BracketInv, TokenPlace
  <2>3. FrameInv'
    BY <1>1, <1>2, <1>7, FramesKept DEF ArrivalInv
  <2>4. pipe'.snap <= project
    BY <1>1, <2>1
  <2>5. VersionsPast' /\ CallInv'
    BY <1>1, <1>2, <1>7, <2>1, <2>4, QuietKeeps DEF ArrivalInv
  <2>6. Known => Known'
    BY <1>1, <2>1 DEF Known
  <2>7. Queued => Queued'
    BY <1>1, <1>2, <1>7, <2>1, QueueCarries
  <2>8. InSync => InSync'
    BY <1>1, <2>1, <2>2 DEF InSync
  <2>9. InGui => InGui'
    <3>1. ASSUME InGui
          PROVE  InGui'
      BY <1>1, <1>2, <1>3, <1>5, <1>7, <3>1, GuiCarries DEF ArrivalInv
    <3> QED BY <3>1
  <2> QED BY <2>3, <2>5, <2>6, <2>7, <2>8, <2>9 DEF ArrivalInv, Carried
<1>8. CASE Head(gui.queue) = "command" /\ gui' = Push(x, Frame("command", "run", None))
           /\ UNCHANGED pipe
  <2> HIDE DEF x
  <2> DEFINE f == Frame("command", "run", None)
  <2>1. f \in FrameType /\ f.op = "command" /\ f.pc = "run" /\ f.snap = None /\ f.snap <= project'
    BY <1>1 DEF Frame, FrameType, Ops, None
  <2> HIDE DEF f
  <2>2. Entered(gui.stack, gui'.stack, f) /\ SameButStack(gui', x)
    BY <1>2, <1>8, <2>1, PushShape DEF Entered, f
  <2>3. FrameInv'
    BY <1>1, <1>2, <1>3, <2>1, <2>2, FramesEntered DEF ArrivalInv, SameButStack
  <2>4. VersionsPast' /\ CallInv'
    BY <1>1, <1>2, <1>8, <2>2, QuietKeeps DEF ArrivalInv, SameButStack
  <2>5. CASE InGui
    <3>1. InGui'
      BY <1>1, <1>2, <1>3, <1>5, <1>8, <2>2, <2>5, GuiCarries DEF ArrivalInv, SameButStack
    <3> QED BY <2>3, <2>4, <3>1 DEF ArrivalInv, Carried
  <2>6. CASE Known \/ Queued \/ InSync
    <3>1. Carried'
      BY <1>1, <1>2, <1>8, <2>2, <2>6, UntouchedCarries DEF SameButStack
    <3> QED BY <2>3, <2>4, <3>1 DEF ArrivalInv
  <2> QED BY <2>5, <2>6 DEF ArrivalInv, Carried
<1> QED BY <1>6, <1>7, <1>8 DEF ServeQueued

(* When a command is done, the snapshot that waits for it is sent. *)
LEMMA FinishedArrives ==
    ASSUME TypeInv, TypeInv', ArrivalInv, CommandFinished, ~flags.tearing
    PROVE  ArrivalInv'
<1> DEFINE e == Event("apply", None, "sync", None)
<1>1. /\ Top.pc = "run" /\ Top.pc # "idle" /\ Top.op = "command" /\ gui' = MoveTo(gui, "wake")
      /\ UNCHANGED <<project, calls, readers, left>>
      /\ pipe' = IF gui.deferred # None THEN Post(e) ELSE pipe
  BY DEF CommandFinished, Running
<1>2. e \in EventType /\ e.kind = "apply" /\ e.snap = None /\ e.snap <= project
  BY DEF Event, EventType, Ops, None, TypeInv
<1> HIDE DEF e
<1>3. Moved(gui', "wake")
  BY <1>1, MoveMoves
<1>4. /\ gui'.queue = gui.queue /\ gui'.inFlight = gui.inFlight
      /\ gui'.pending = gui.pending /\ gui'.deferred = gui.deferred
  BY <1>3 DEF Moved, SameButStack
<1>5. FrameInv'
  BY <1>1, <1>3, MovedKeepsFrames DEF ArrivalInv
<1>6. /\ pipe'.pc = pipe.pc /\ pipe'.held = pipe.held /\ pipe'.snap = pipe.snap
      /\ pipe'.applied = pipe.applied /\ pipe'.lost = pipe.lost
      /\ pipe'.queue = pipe.queue \/ Entered(pipe.queue, pipe'.queue, e)
      /\ gui.deferred # None => Entered(pipe.queue, pipe'.queue, e)
  BY <1>1, <1>2, PostLeaves
<1>7. VersionsPast'
  BY <1>1, <1>2, <1>4, <1>6, VersionsLeft DEF ArrivalInv
<1>8. CallInv'
  BY <1>1, <1>2, <1>4, <1>6, CallsKept DEF ArrivalInv
<1>9. (Known => Known') /\ (InSync => InSync')
  BY <1>1, <1>6, PipeCarries
<1>10. Queued => Queued'
  BY <1>1, <1>4, <1>6, QueueCarries
<1>11. ASSUME InGui
       PROVE  InGui' \/ Queued'
  <2>1. CASE gui.deferred = project
    <3>1. gui.deferred # None
      BY <2>1 DEF ArrivalInv, VersionsPast, None, TypeInv
    <3>2. Len(pipe.queue) + 1 \in 1 .. Len(pipe'.queue) /\ pipe'.queue[Len(pipe.queue) + 1] = e
      BY <1>6, <3>1, QueueLengths DEF Entered
    <3>3. \E i \in 1 .. Len(pipe'.queue) : pipe'.queue[i].kind = "apply" /\ gui'.deferred = project'
      BY <1>1, <1>2, <1>4, <2>1, <3>2
    <3> QED BY <3>3 DEF Queued, Brings
  <2>2. CASE gui.deferred # project
    <3>1. ASSUME NEW i \in 1 .. Len(gui.stack), gui.stack[i].op = "sync",
                 gui.stack[i].pc \in {"check", "marshal"}
          PROVE  FALSE
      BY <1>1, <3>1, SendingIsInnermost DEF ArrivalInv
    <3> QED BY <1>4, <1>11, <2>2, <3>1 DEF InGui
  <2> QED BY <2>1, <2>2
<1> QED BY <1>5, <1>7, <1>8, <1>9, <1>10, <1>11 DEF ArrivalInv, Carried

(* The script goes on after its command. *)
LEMMA WokenArrives ==
    ASSUME TypeInv, TypeInv', BracketInv, ArrivalInv, ScriptWoken
    PROVE  ArrivalInv'
<1>1. /\ Top.op = "command" /\ Top.pc = "wake" /\ Top.pc # "idle" /\ gui' = Pop(gui)
      /\ UNCHANGED <<project, calls, flags, readers, left>>
      /\ pipe' = [pipe EXCEPT !.pc = "script"]
  BY DEF ScriptWoken, Running
<1>2. /\ Leaves(gui.stack, gui'.stack) /\ SameButStack(gui', gui)
      /\ Top = gui.stack[Len(gui.stack)] /\ Len(gui.stack) \in 1 .. Len(gui.stack)
  BY <1>1, PoppedShape, TopIsLast DEF Leaves
<1>3. pipe.pc = "parked"
  BY <1>1, <1>2 DEF BracketInv, CommandPlace
<1>4. /\ pipe'.pc = "script" /\ pipe'.queue = pipe.queue /\ pipe'.held = pipe.held
      /\ pipe'.snap = pipe.snap /\ pipe'.applied = pipe.applied /\ pipe'.lost = pipe.lost
  BY <1>1 DEF TypeInv, PipeType
<1>5. FrameInv'
  BY <1>1, <1>2, FramesLeft DEF ArrivalInv, SameButStack
<1>6. VersionsPast' /\ CallInv'
  BY <1>1, <1>2, <1>4, QuietKeeps DEF ArrivalInv, SameButStack
<1>7. (Known => Known') /\ ~InSync
  BY <1>1, <1>3, <1>4 DEF Known, InSync
<1>8. Queued => Queued'
  BY <1>1, <1>2, <1>4, QueueCarries DEF SameButStack
<1>9. ASSUME InGui
      PROVE  InGui'
  BY <1>1, <1>2, <1>9, GuiCarries DEF ArrivalInv, SameButStack
<1> QED BY <1>5, <1>6, <1>7, <1>8, <1>9 DEF ArrivalInv, Carried

-----------------------------------------------------------------------------
(* The steps of the user *)

(* An edit makes a new last version and leaves a sync for it in one of three places. *)
LEMMA EditArrives ==
    ASSUME TypeInv, TypeInv', ArrivalInv, Edited, Top.pc \in {"idle", "wait", "run"}
    PROVE  ArrivalInv'
<1>1. /\ project' = project + 1 /\ project \in Nat /\ UNCHANGED <<calls, flags, readers>>
      /\ project <= project' /\ project' > 0 /\ gui \in GuiType /\ Len(gui.stack) \in Nat
      /\ gui.deferred \in Nat /\ pipe.snap \in Nat /\ pipe.applied \in Nat /\ pipe.lost \in Nat
  <2>1. project' = project + 1 /\ project \in Nat /\ UNCHANGED <<calls, flags, readers>>
    BY DEF Edited, TypeInv
  <2>2. gui \in GuiType /\ pipe \in PipeType
    BY DEF TypeInv
  <2> QED BY <2>1, <2>2, SequenceTypes DEF GuiType, PipeType
<1>2. /\ gui.deferred <= project' /\ pipe.snap <= project' /\ pipe.applied <= project'
      /\ pipe.lost <= project'
  BY <1>1 DEF ArrivalInv, VersionsPast
<1>3. CASE gui' = startSync(gui, project + 1) /\ UNCHANGED pipe
  <2>1. Begun(gui, gui', project')
    BY <1>1, <1>3, StartBegins
  <2>2. FrameInv'
    BY <1>1, <2>1, BegunKeepsFrames DEF ArrivalInv
  <2>3. InGui'
    BY <1>1, <2>1, BegunSends DEF TypeInv
  <2>4. VersionsPast'
    <3>1. ~Entered(pipe.queue, pipe'.queue, None)
      BY <1>3, QueueLengths DEF Entered
    <3> QED BY <1>1, <1>2, <1>3, <2>1, <3>1, VersionsKept DEF ArrivalInv, Begun
  <2>5. CallInv'
    BY <1>1, <1>3 DEF ArrivalInv, CallInv, CallNumbers, DispatchesLive
  <2> QED BY <2>2, <2>3, <2>4, <2>5 DEF ArrivalInv, Carried
<1>4. CASE /\ gui' = IF "sync" \in Range(gui.queue) THEN gui
                     ELSE [gui EXCEPT !.queue = Append(@, "sync")]
           /\ UNCHANGED pipe
  <2>1. gui.queue \in Seq({"sync", "collect", "command"}) /\ Len(gui.queue) \in Nat
    BY SequenceTypes
  <2>2. /\ gui'.stack = gui.stack /\ gui'.inFlight = gui.inFlight /\ gui'.deferred = gui.deferred
        /\ \E i \in 1 .. Len(gui'.queue) : gui'.queue[i] = "sync"
    <3>1. CASE "sync" \in Range(gui.queue)
      <4>1. \E i \in 1 .. Len(gui.queue) : gui.queue[i] = "sync"
        BY <2>1, <3>1 DEF Range
      <4> QED BY <1>4, <3>1, <4>1
    <3>2. CASE "sync" \notin Range(gui.queue)
      <4> DEFINE q == Append(gui.queue, "sync")
      <4>1. Len(gui.queue) + 1 \in 1 .. Len(q) /\ q[Len(gui.queue) + 1] = "sync"
        BY <2>1
      <4>2. gui' = [gui EXCEPT !.queue = q]
        BY <1>4, <3>2
      <4> HIDE DEF q
      <4>3. /\ gui'.queue = q /\ gui'.stack = gui.stack /\ gui'.inFlight = gui.inFlight
            /\ gui'.deferred = gui.deferred
        BY <1>1, <4>2 DEF GuiType
      <4> QED BY <4>1, <4>3
    <3> QED BY <3>1, <3>2
  <2>3. FrameInv'
    BY <1>1, <2>2, FramesKept DEF ArrivalInv
  <2>4. VersionsPast'
    <3>1. ~Entered(pipe.queue, pipe'.queue, None)
      BY <1>4, QueueLengths DEF Entered
    <3> QED BY <1>1, <1>2, <1>4, <2>2, <3>1, VersionsKept DEF ArrivalInv
  <2>5. CallInv'
    BY <1>1, <1>4 DEF ArrivalInv, CallInv, CallNumbers, DispatchesLive
  <2>6. InGui'
    BY <2>2 DEF InGui
  <2> QED BY <2>3, <2>4, <2>5, <2>6 DEF ArrivalInv, Carried
<1>5. CASE pipe' = Post(Event("sync", None, "sync", None)) /\ UNCHANGED gui
  <2> DEFINE e == Event("sync", None, "sync", None)
  <2>1. e \in EventType /\ e.kind = "sync" /\ e.snap = None /\ e.snap <= project'
    BY <1>1 DEF Event, EventType, Ops, None
  <2>2. pipe' = Post(e)
    BY <1>5
  <2> HIDE DEF e
  <2>3. /\ pipe'.pc = pipe.pc /\ pipe'.held = pipe.held /\ pipe'.snap = pipe.snap
        /\ pipe'.applied = pipe.applied /\ pipe'.lost = pipe.lost
        /\ Entered(pipe.queue, pipe'.queue, e)
    BY <2>1, <2>2, PostLeaves
  <2>4. FrameInv'
    BY <1>1, <1>5, FramesKept DEF ArrivalInv
  <2>5. VersionsPast'
    BY <1>1, <1>2, <1>5, <2>1, <2>3, VersionsKept DEF ArrivalInv
  <2>6. CallInv'
    BY <1>1, <2>1, <2>3, CallsKept DEF ArrivalInv
  <2>7. Queued'
    <3>1. Len(pipe.queue) + 1 \in 1 .. Len(pipe'.queue) /\ pipe'.queue[Len(pipe.queue) + 1] = e
      BY <2>3, QueueLengths DEF Entered
    <3>2. \E i \in 1 .. Len(pipe'.queue) : pipe'.queue[i].kind = "sync"
      BY <2>1, <3>1
    <3> QED BY <3>2 DEF Queued, Brings
  <2> QED BY <2>4, <2>5, <2>6, <2>7 DEF ArrivalInv, Carried
<1> QED BY <1>3, <1>4, <1>5 DEF Edited

(* A call other than a sync carries no version. *)
LEMMA AskArrives ==
    ASSUME TypeInv, TypeInv', ArrivalInv, Asked, Top.pc \in {"idle", "wait", "run"}
    PROVE  ArrivalInv'
<1> DEFINE f == Frame("ask", "marshal", None)
<1>1. /\ UNCHANGED <<project, pipe, calls, flags, readers>> /\ gui' = Push(gui, f)
      /\ gui \in GuiType /\ project \in Nat
  BY DEF Asked, TypeInv
<1>2. f \in FrameType /\ f.op = "ask" /\ f.pc = "marshal" /\ f.snap = None /\ f.snap <= project'
  BY <1>1 DEF Frame, FrameType, Ops, None
<1> HIDE DEF f
<1>3. Entered(gui.stack, gui'.stack, f) /\ SameButStack(gui', gui)
  BY <1>1, <1>2, PushShape DEF Entered
<1>4. FrameInv'
  <2>1. Top.pc \in {"idle", "wait", "run", "join"} /\ project <= project'
    BY <1>1
  <2>2. gui'.inFlight = TRUE => gui.inFlight = TRUE \/ f.op = "sync"
    BY <1>3 DEF SameButStack
  <2>3. FrameInv /\ f.pc # "abandon" /\ f.op # "sync"
    BY <1>2 DEF ArrivalInv
  <2> QED BY <1>2, <1>3, <2>1, <2>2, <2>3, FramesEntered
<1>5. VersionsPast' /\ CallInv'
  BY <1>1, <1>3, QuietKeeps DEF ArrivalInv, SameButStack
<1>6. CASE InGui
  <2>1. InGui'
    BY <1>1, <1>3, <1>6, GuiCarries DEF ArrivalInv, SameButStack
  <2> QED BY <1>4, <1>5, <2>1 DEF ArrivalInv, Carried
<1>7. CASE Known \/ Queued \/ InSync
  <2>1. Carried'
    BY <1>1, <1>3, <1>7, UntouchedCarries DEF SameButStack
  <2> QED BY <1>4, <1>5, <2>1 DEF ArrivalInv
<1> QED BY <1>6, <1>7 DEF ArrivalInv, Carried

(* Readers are no one's edits. *)
LEMMA DeviceArrives ==
    ASSUME TypeInv, TypeInv', ArrivalInv, attach \/ detach \/ dataReceived \/ destroy
    PROVE  ArrivalInv'
<1>1. /\ UNCHANGED <<project, gui, calls, flags>> /\ project \in Nat
  BY DEF attach, detach, dataReceived, destroy, TypeInv
<1>2. PICK e \in EventType :
         /\ e.kind \in {"delete", "chunk"} /\ e.snap <= project
         /\ pipe' = pipe \/ pipe' = Post(e)
  <2>1. ASSUME NEW kind \in {"delete", "chunk"}
        PROVE  /\ Event(kind, readers.current, "", None) \in EventType
               /\ Event(kind, readers.current, "", None).kind = kind
               /\ Event(kind, readers.current, "", None).snap <= project
    BY <1>1 DEF Event, EventType, Ops, None, TypeInv
  <2>2. CASE dataReceived
    BY <2>1, <2>2 DEF dataReceived
  <2>3. CASE attach \/ detach \/ destroy
    BY <2>1, <2>3 DEF attach, detach, destroy, PipeAfterRetire
  <2> QED BY <2>2, <2>3
<1>3. /\ pipe'.pc = pipe.pc /\ pipe'.held = pipe.held /\ pipe'.snap = pipe.snap
      /\ pipe'.applied = pipe.applied /\ pipe'.lost = pipe.lost
      /\ pipe'.queue = pipe.queue \/ Entered(pipe.queue, pipe'.queue, e)
  BY <1>2, PostLeaves
<1>4. FrameInv'
  BY <1>1, FramesKept DEF ArrivalInv
<1>5. VersionsPast'
  BY <1>1, <1>2, <1>3, VersionsLeft DEF ArrivalInv
<1>6. CallInv'
  BY <1>1, <1>2, <1>3, CallsKept DEF ArrivalInv
<1>7. (Known => Known') /\ (InSync => InSync')
  BY <1>1, <1>3, PipeCarries
<1>8. Queued => Queued'
  BY <1>1, <1>3, QueueCarries
<1>9. InGui => InGui'
  BY <1>1 DEF InGui
<1> QED BY <1>4, <1>5, <1>6, <1>7, <1>8, <1>9 DEF ArrivalInv, Carried

-----------------------------------------------------------------------------
(* The steps of the processing thread *)

(* The shape of a state of that thread in which an event was taken. *)
LEMMA TakenShape ==
    ASSUME TypeInv, TypeInv', pipe.queue # <<>>, pipe'.queue = Tail(pipe.queue)
    PROVE  /\ Taken /\ pipe.queue[1] = Head(pipe.queue) /\ pipe.queue[1] \in EventType
           /\ Len(pipe.queue) \in Nat /\ 1 \in 1 .. Len(pipe.queue)
<1>1. /\ pipe.queue \in Seq(EventType) /\ Len(pipe.queue) > 0
      /\ Len(Tail(pipe.queue)) = Len(pipe.queue) - 1
      /\ \A i \in 1 .. Len(pipe.queue) - 1 : Tail(pipe.queue)[i] = pipe.queue[i + 1]
      /\ Head(pipe.queue) = pipe.queue[1] /\ Head(pipe.queue) \in EventType
  BY TakeShape
<1>2. Len(pipe.queue) \in Nat
  BY SequenceTypes
<1> QED BY <1>1, <1>2 DEF Taken

(* What the other events bring, they bring later. *)
LEMMA TakenCarries ==
    ASSUME TypeInv, TypeInv', Taken, Queued, ~Brings(pipe.queue[1]), project' = project,
           gui'.deferred = gui.deferred, UNCHANGED calls
    PROVE  Queued'
<1>1. PICK i \in 1 .. Len(pipe.queue) : Brings(pipe.queue[i])
  BY DEF Queued
<1>2. i - 1 \in 1 .. Len(pipe'.queue) /\ pipe'.queue[i - 1] = pipe.queue[i]
  <2>1. i # 1 /\ Len(pipe.queue) \in Nat /\ Len(pipe'.queue) = Len(pipe.queue) - 1
    BY <1>1, QueueLengths DEF Taken
  <2>2. i - 1 \in 1 .. Len(pipe'.queue) /\ (i - 1) + 1 = i
    BY <2>1
  <2> QED BY <2>2 DEF Taken
<1>3. \E k \in 1 .. Len(pipe'.queue) : Brings(pipe.queue[k])'
  BY <1>1, <1>2 DEF Brings
<1> QED BY <1>3 DEF Queued

(* Applying a snapshot on its own thread makes the last version known, if it
   was before or is the one applied. *)
LEMMA ApplyKnows ==
    ASSUME NEW p \in PipeType, NEW v \in Nat, NEW w \in Nat, v <= w, p.applied <= w, p.lost <= w
    PROVE  LET q == applyProjectSnapshot(p, v, TRUE)
           IN  /\ q \in PipeType /\ q.pc = p.pc /\ q.queue = p.queue /\ q.held = p.held
               /\ q.reader = p.reader /\ q.snap = p.snap /\ q.applied = v /\ q.lost <= w
               /\ p.applied = w \/ p.lost = w => v = w \/ q.lost = w
<1>1. p.applied \in Nat /\ p.lost \in Nat
  BY DEF PipeType
<1> DEFINE l == Newest(p.lost, IF v < p.applied THEN p.applied ELSE None)
<1>2. l \in Nat /\ l <= w /\ (p.lost = w => l = w) /\ (p.applied = w => v = w \/ l = w)
  BY <1>1 DEF Newest, None
<1>3. applyProjectSnapshot(p, v, TRUE) = [p EXCEPT !.applied = v, !.lost = l]
  BY DEF applyProjectSnapshot
<1> HIDE DEF l
<1> QED BY <1>2, <1>3 DEF PipeType

(* The processing thread takes an event, and with it what the event brings. *)
LEMMA TakeArrives ==
    ASSUME TypeInv, TypeInv', ArrivalInv, PipeTakes
    PROVE  ArrivalInv'
<1> DEFINE event == Head(pipe.queue)
<1>1. /\ pipe.pc = "idle" /\ pipe.queue # <<>> /\ UNCHANGED <<project, calls, flags, left>>
      /\ pipe.held = None
  BY DEF PipeTakes, ArrivalInv, CallInv, CallNumbers
<1>2. pipe'.queue = Tail(pipe.queue)
  BY TakeStep
<1>3. /\ Taken /\ event = pipe.queue[1] /\ event \in EventType /\ 1 \in 1 .. Len(pipe.queue)
      /\ event.snap \in Nat /\ event.n \in Nat
  BY <1>1, <1>2, TakenShape DEF EventType
<1>4. event.snap <= project /\ project \in Nat
  BY <1>3 DEF ArrivalInv, VersionsPast, TypeInv
<1>5. ~InSync
  BY <1>1 DEF InSync
<1>6. pipe \in PipeType /\ Tail(pipe.queue) \in Seq(EventType)
  BY <1>1, TakeShape DEF TypeInv
<1>7. ASSUME UNCHANGED gui
      PROVE  FrameInv' /\ (InGui => InGui')
  <2>1. FrameInv'
    BY <1>1, <1>7, FramesKept DEF ArrivalInv
  <2>2. InGui => InGui'
    BY <1>1, <1>7 DEF InGui
  <2> QED BY <2>1, <2>2
<1>8. ASSUME gui'.deferred <= project, pipe'.snap <= project,
             pipe'.applied <= project, pipe'.lost <= project
      PROVE  VersionsPast'
  <2>1. ~Entered(pipe.queue, pipe'.queue, None) /\ project <= project'
    BY <1>1, <1>3, <1>4, QueueLengths DEF Entered, Taken
  <2> QED BY <1>1, <1>3, <1>8, <2>1, VersionsKept DEF ArrivalInv
<1>9. ASSUME pipe'.held = None
      PROVE  CallInv'
  <2>1. ~Entered(pipe.queue, pipe'.queue, None)
    BY <1>3, QueueLengths DEF Entered, Taken
  <2> QED BY <1>1, <1>3, <1>9, <2>1, CallsKept DEF ArrivalInv
<1>10. ASSUME Known => Known', UNCHANGED gui, ~Brings(event)
       PROVE  Carried'
  BY <1>1, <1>3, <1>5, <1>7, <1>10, TakenCarries DEF ArrivalInv, Carried
<1>11. CASE event.kind = "dispatch" /\ dispatch(event) /\ UNCHANGED <<gui, readers>>
  <2>1. CASE event.n \in calls.waiting
    <3>1. pipe' = [pipe EXCEPT !.queue = Tail(@), !.held = event.n, !.snap = event.snap,
                               !.pc = IF event.op = "sync" THEN "apply" ELSE "gate"]
      BY <1>11, <2>1 DEF dispatch
    <3>2. /\ pipe'.held = event.n /\ pipe'.snap = event.snap /\ pipe'.applied = pipe.applied
          /\ pipe'.lost = pipe.lost /\ pipe'.pc \in {"apply", "gate"}
          /\ event.op = "sync" => pipe'.pc = "apply"
      BY <1>6, <3>1 DEF PipeType
    <3>3. VersionsPast'
      BY <1>4, <1>8, <1>11, <3>2 DEF ArrivalInv, VersionsPast
    <3>4. CallNumbers'
      <4>1. event.n <= calls.made
        BY <1>3, <1>11 DEF ArrivalInv, CallInv, DispatchesLive
      <4> QED BY <1>1, <3>2, <4>1 DEF ArrivalInv, CallInv, CallNumbers
    <3>5. DispatchesLive'
      <4>1. ASSUME NEW i \in 1 .. Len(pipe'.queue)
            PROVE  i + 1 \in 1 .. Len(pipe.queue) /\ pipe'.queue[i] = pipe.queue[i + 1] /\ i + 1 # 1
        BY <1>3, QueueLengths DEF Taken
      <4>2. ASSUME NEW i \in 1 .. Len(pipe'.queue), pipe'.queue[i].kind = "dispatch"
            PROVE  /\ pipe'.queue[i].n # None /\ pipe'.queue[i].n <= calls'.made
                   /\ pipe'.queue[i].n \notin calls'.woken /\ pipe'.queue[i].n # event.n
        BY <1>1, <1>3, <1>11, <4>1, <4>2 DEF ArrivalInv, CallInv, DispatchesLive
      <4>3. ASSUME NEW i \in 1 .. Len(pipe'.queue), NEW j \in 1 .. Len(pipe'.queue),
                   pipe'.queue[i].kind = "dispatch", pipe'.queue[j].kind = "dispatch",
                   pipe'.queue[i].n = pipe'.queue[j].n
            PROVE  i = j
        <5>1. i + 1 = j + 1
          BY <4>1, <4>3 DEF ArrivalInv, CallInv, DispatchesLive
        <5> QED BY <5>1
      <4> QED BY <3>2, <4>2, <4>3 DEF DispatchesLive
    <3>6. Carried'
      <4>1. CASE Brings(event)
        BY <1>1, <1>11, <3>2, <4>1 DEF Brings, Carried, InSync
      <4>2. CASE ~Brings(event)
        BY <1>1, <1>10, <1>11, <3>2, <4>2 DEF Known
      <4> QED BY <4>1, <4>2
    <3> QED BY <1>7, <1>11, <3>3, <3>4, <3>5, <3>6 DEF ArrivalInv, CallInv
  <2>2. CASE event.n \notin calls.waiting
    <3>1. pipe' = [pipe EXCEPT !.queue = Tail(@)]
      BY <1>11, <2>2 DEF dispatch
    <3>2. /\ pipe'.held = pipe.held /\ pipe'.snap = pipe.snap /\ pipe'.applied = pipe.applied
          /\ pipe'.lost = pipe.lost
      BY <1>6, <3>1 DEF PipeType
    <3>3. VersionsPast' /\ CallInv'
      BY <1>1, <1>8, <1>9, <1>11, <3>2 DEF ArrivalInv, VersionsPast
    <3>4. ~Brings(event)
      BY <1>11, <2>2 DEF Brings
    <3>5. Carried'
      BY <1>1, <1>10, <1>11, <3>2, <3>4 DEF Known
    <3> QED BY <1>7, <1>11, <3>3, <3>5 DEF ArrivalInv
  <2> QED BY <2>1, <2>2
<1>12. CASE event.kind = "apply" /\ applyDeferredProjectSnapshot /\ UNCHANGED readers
  <2> DEFINE p == [pipe EXCEPT !.queue = Tail(@)]
  <2>1. /\ gui' = [gui EXCEPT !.deferred = None]
        /\ pipe' = IF gui.deferred = None THEN p ELSE applyProjectSnapshot(p, gui.deferred, TRUE)
    BY <1>12 DEF applyDeferredProjectSnapshot
  <2>2. /\ gui'.stack = gui.stack /\ gui'.queue = gui.queue /\ gui'.inFlight = gui.inFlight
        /\ gui'.pending = gui.pending /\ gui'.deferred = None /\ gui.deferred \in Nat
        /\ gui'.deferred <= project
    BY <1>4, <2>1 DEF TypeInv, GuiType, None
  <2>3. /\ p \in PipeType /\ p.held = pipe.held /\ p.snap = pipe.snap
        /\ p.applied = pipe.applied /\ p.lost = pipe.lost
    BY <1>6 DEF PipeType
  <2> HIDE DEF p
  <2>4. gui.deferred <= project /\ p.applied <= project /\ p.lost <= project /\ pipe.snap <= project
        /\ project > 0
    BY <2>3 DEF ArrivalInv, VersionsPast
  <2>5. /\ pipe'.held = pipe.held /\ pipe'.snap = pipe.snap
        /\ pipe'.applied <= project /\ pipe'.lost <= project
        /\ (Known => Known') /\ (gui.deferred = project => Known')
    <3>1. CASE gui.deferred = None
      <4>1. pipe' = p /\ gui.deferred # project
        BY <1>4, <2>1, <2>4, <3>1 DEF None
      <4> QED BY <1>1, <2>3, <2>4, <4>1 DEF Known
    <3>2. CASE gui.deferred # None
      <4> DEFINE q == applyProjectSnapshot(p, gui.deferred, TRUE)
      <4>1. /\ q.held = p.held /\ q.snap = p.snap /\ q.applied = gui.deferred /\ q.lost <= project
            /\ p.applied = project \/ p.lost = project => gui.deferred = project \/ q.lost = project
        BY <1>4, <2>2, <2>3, <2>4, ApplyKnows
      <4>2. pipe' = q
        BY <2>1, <3>2
      <4> HIDE DEF q
      <4> QED BY <1>1, <2>3, <2>4, <4>1, <4>2 DEF Known
    <3> QED BY <3>1, <3>2
  <2>6. FrameInv'
    BY <1>1, <2>2, FramesKept DEF ArrivalInv
  <2>7. VersionsPast' /\ CallInv'
    BY <1>1, <1>8, <1>9, <2>2, <2>4, <2>5
  <2>8. Carried'
    <3>1. CASE gui.deferred = project
      BY <2>5, <3>1, Zenon DEF Carried
    <3>2. CASE gui.deferred # project /\ InGui
      BY <1>1, <2>2, <3>2 DEF Carried, InGui
    <3>3. CASE gui.deferred # project /\ Queued
      <4>1. PICK i \in 1 .. Len(pipe.queue) : Brings(pipe.queue[i])
        BY <3>3 DEF Queued
      <4>2. i # 1 /\ Len(pipe.queue) \in Nat /\ Len(pipe'.queue) = Len(pipe.queue) - 1
        BY <1>3, <1>12, <3>3, <4>1, QueueLengths DEF Taken, Brings
      <4>3. i - 1 \in 1 .. Len(pipe'.queue) /\ (i - 1) + 1 = i
        BY <4>2
      <4>4. pipe'.queue[i - 1] = pipe.queue[i]
        BY <1>3, <4>3 DEF Taken
      <4>5. \E k \in 1 .. Len(pipe'.queue) : Brings(pipe.queue[k])'
        BY <1>1, <3>3, <4>1, <4>3, <4>4 DEF Brings
      <4> QED BY <4>5 DEF Carried, Queued
    <3> QED BY <1>5, <2>5, <3>1, <3>2, <3>3, Zenon DEF ArrivalInv, Carried
  <2> QED BY <2>6, <2>7, <2>8 DEF ArrivalInv
<1>13. CASE /\ event.kind = "sync"
            /\ pipe' = [pipe EXCEPT !.queue = Tail(@), !.snap = None, !.pc = "gate"]
            /\ UNCHANGED <<gui, readers>>
  <2>1. /\ pipe'.held = pipe.held /\ pipe'.snap = None /\ pipe'.applied = pipe.applied
        /\ pipe'.lost = pipe.lost /\ pipe'.pc = "gate" /\ None <= project
    BY <1>4, <1>6, <1>13 DEF PipeType, None
  <2>2. VersionsPast' /\ CallInv'
    BY <1>1, <1>8, <1>9, <1>13, <2>1 DEF ArrivalInv, VersionsPast
  <2>3. Carried'
    BY <1>1, <2>1 DEF Carried, InSync
  <2> QED BY <1>7, <1>13, <2>2, <2>3 DEF ArrivalInv
<1>14. CASE \/ /\ event.kind = "chunk"
               /\ pipe' = [pipe EXCEPT !.queue = Tail(@), !.reader = event.n, !.pc = "script"]
               /\ UNCHANGED <<gui, readers>>
            \/ /\ event.kind = "delete" /\ pipe' = [pipe EXCEPT !.queue = Tail(@)]
               /\ UNCHANGED gui
  <2>1. /\ pipe'.held = pipe.held /\ pipe'.snap = pipe.snap /\ pipe'.applied = pipe.applied
        /\ pipe'.lost = pipe.lost
    BY <1>6, <1>14 DEF PipeType
  <2>2. VersionsPast' /\ CallInv'
    BY <1>1, <1>8, <1>9, <1>14, <2>1 DEF ArrivalInv, VersionsPast
  <2>3. ~Brings(event)
    BY <1>14 DEF Brings
  <2>4. Carried'
    BY <1>1, <1>10, <1>14, <2>1, <2>3 DEF Known
  <2> QED BY <1>7, <1>14, <2>2, <2>4 DEF ArrivalInv
<1> QED BY <1>11, <1>12, <1>13, <1>14 DEF PipeTakes

(* The processing thread goes on within a function. *)
LEMMA PipeArrives ==
    ASSUME TypeInv, TypeInv', ArrivalInv, ~flags.tearing,
           GateChecked \/ CollectPosted \/ Answered \/ CommandPosted \/ ScriptHangs \/ CommandIssued
    PROVE  ArrivalInv'
<1>1. /\ UNCHANGED <<project, calls>> /\ gui'.stack = gui.stack /\ pipe'.queue = pipe.queue
      /\ pipe'.held = pipe.held /\ pipe'.applied = pipe.applied
  BY PipeShape DEF GateChecked, CollectPosted, Answered, CommandPosted, ScriptHangs, CommandIssued
<1>2. \E c \in {"ask", "blocked", "apply", "script", "parked", "hung", "parking"} :
         /\ pipe' = [pipe EXCEPT !.pc = c]
         /\ \/ pipe.pc = "gate" /\ c = "ask"
            \/ pipe.pc = "ask" /\ c = "blocked"
            \/ pipe.pc = "answered" /\ c = (IF pipe.held = None THEN "apply" ELSE "script")
            \/ pipe.pc \in {"parking", "script"}
  BY DEF GateChecked, CollectPosted, Answered, CommandPosted, ScriptHangs, CommandIssued
<1>3. /\ pipe'.snap = pipe.snap /\ pipe'.lost = pipe.lost /\ pipe'.pc # "idle"
      /\ \/ pipe.pc = "gate" /\ pipe'.pc = "ask"
         \/ pipe.pc = "ask" /\ pipe'.pc = "blocked"
         \/ pipe.pc = "answered" /\ pipe'.pc = (IF pipe.held = None THEN "apply" ELSE "script")
         \/ pipe.pc \in {"parking", "script"}
  BY <1>2 DEF TypeInv, PipeType
<1>4. /\ gui'.inFlight = gui.inFlight /\ gui'.pending = gui.pending
      /\ gui'.deferred = gui.deferred
      /\ (\E i \in 1 .. Len(gui.queue) : gui.queue[i] = "sync") =>
            (\E i \in 1 .. Len(gui'.queue) : gui'.queue[i] = "sync")
  <2>1. ASSUME NEW c \in {"collect", "command"}, gui' = [gui EXCEPT !.queue = Append(@, c)]
        PROVE  /\ gui'.inFlight = gui.inFlight /\ gui'.pending = gui.pending
               /\ gui'.deferred = gui.deferred
               /\ (\E i \in 1 .. Len(gui.queue) : gui.queue[i] = "sync") =>
                     (\E i \in 1 .. Len(gui'.queue) : gui'.queue[i] = "sync")
    <3> DEFINE q == Append(gui.queue, c)
    <3>1. /\ Len(q) = Len(gui.queue) + 1 /\ \A i \in 1 .. Len(gui.queue) : q[i] = gui.queue[i]
          /\ Len(gui.queue) \in Nat
      BY SequenceTypes
    <3>2. gui' = [gui EXCEPT !.queue = q] /\ gui \in GuiType
      BY <2>1 DEF TypeInv
    <3> HIDE DEF q
    <3>3. /\ gui'.queue = q /\ gui'.inFlight = gui.inFlight /\ gui'.pending = gui.pending
          /\ gui'.deferred = gui.deferred
      BY <3>2 DEF GuiType
    <3> QED BY <3>1, <3>3
  <2>2. \/ gui' = gui
        \/ \E c \in {"collect", "command"} : gui' = [gui EXCEPT !.queue = Append(@, c)]
    BY DEF GateChecked, CollectPosted, Answered, CommandPosted, ScriptHangs, CommandIssued
  <2> QED BY <2>1, <2>2
<1>5. FrameInv'
  BY <1>1, <1>4, FramesKept DEF ArrivalInv
<1>6. VersionsPast' /\ CallInv'
  BY <1>1, <1>3, <1>4, QuietKeeps DEF ArrivalInv
<1>7. flags.parked = TRUE => flags'.parked = TRUE
  BY DEF GateChecked, CollectPosted, Answered, CommandPosted, ScriptHangs, CommandIssued, TypeInv
<1>8. (Known => Known') /\ (InSync => InSync')
  BY <1>1, <1>3 DEF Known, InSync
<1>9. Queued => Queued'
  BY <1>1, <1>4, QueueCarries
<1>10. InGui => InGui'
  BY <1>1, <1>4, <1>7 DEF InGui
<1> QED BY <1>5, <1>6, <1>8, <1>9, <1>10 DEF ArrivalInv, Carried

(* A function ends; a sync's has applied its snapshot. *)
LEMMA FinishArrives ==
    ASSUME TypeInv, TypeInv', ArrivalInv, SnapshotApplied \/ ScriptEnds
    PROVE  ArrivalInv'
<1>1. /\ UNCHANGED <<project, gui, flags>> /\ pipe'.queue = pipe.queue /\ pipe'.held = None
      /\ calls'.waiting = calls.waiting /\ pipe'.pc = "idle"
  BY FinishShape DEF SnapshotApplied, ScriptEnds
<1>2. /\ calls'.made = calls.made /\ calls.woken \subseteq calls'.woken
      /\ \A k \in calls'.woken : k \in calls.woken \/ (k = pipe.held /\ k # None)
  <2>1. IF pipe.held = None THEN calls' = calls
        ELSE calls' = [calls EXCEPT !.woken = @ \cup {pipe.held}]
    BY DEF SnapshotApplied, ScriptEnds, Wakes
  <2> QED BY <2>1 DEF TypeInv
<1>3. /\ pipe \in PipeType /\ pipe.snap \in Nat /\ project \in Nat
      /\ pipe.snap <= project /\ pipe.applied <= project /\ pipe.lost <= project
  BY DEF TypeInv, PipeType, ArrivalInv, VersionsPast
<1>4. /\ pipe'.snap = None /\ pipe'.applied <= project /\ pipe'.lost <= project
      /\ (Known => Known') /\ (InSync => Known')
  <2>1. CASE SnapshotApplied
    <3> DEFINE q == applyProjectSnapshot(pipe, pipe.snap, TRUE)
    <3>1. /\ q \in PipeType /\ q.applied = pipe.snap /\ q.lost <= project
          /\ Known => pipe.snap = project \/ q.lost = project
      BY <1>3, ApplyKnows DEF Known
    <3>2. pipe.pc = "apply" /\ pipe' = Finished(q)
      BY <2>1 DEF SnapshotApplied
    <3> HIDE DEF q
    <3>3. pipe'.snap = None /\ pipe'.applied = q.applied /\ pipe'.lost = q.lost
      BY <3>1, <3>2 DEF Finished, PipeType
    <3> QED BY <1>1, <1>3, <3>1, <3>2, <3>3 DEF Known, InSync
  <2>2. CASE ScriptEnds
    <3>1. pipe.pc = "script" /\ pipe' = Finished(pipe)
      BY <2>2 DEF ScriptEnds
    <3>2. pipe'.snap = None /\ pipe'.applied = pipe.applied /\ pipe'.lost = pipe.lost
      BY <1>3, <3>1 DEF Finished, PipeType
    <3> QED BY <1>1, <1>3, <3>1, <3>2 DEF Known, InSync
  <2> QED BY <2>1, <2>2
<1>5. FrameInv'
  BY <1>1, <1>2, FramesKept DEF ArrivalInv
<1>6. VersionsPast'
  <2>1. None <= project
    BY <1>3 DEF None
  <2> QED BY <1>1, <1>4, <2>1 DEF ArrivalInv, VersionsPast
<1>7. CallNumbers'
  <2>1. pipe'.held <= calls'.made
    BY <1>1, <1>2 DEF None, TypeInv
  <2> QED BY <1>1, <1>2, <2>1 DEF ArrivalInv, CallInv, CallNumbers
<1>8. DispatchesLive'
  BY <1>1, <1>2 DEF ArrivalInv, CallInv, DispatchesLive
<1>9. (Queued => Queued') /\ (InGui => InGui')
  BY <1>1 DEF Queued, Brings, InGui
<1>10. Carried'
  BY <1>4, <1>9, Zenon DEF ArrivalInv, Carried
<1> QED BY <1>5, <1>6, <1>7, <1>8, <1>10, Zenon DEF ArrivalInv, CallInv
-----------------------------------------------------------------------------
(* The arrival invariant is inductive until teardown begins. *)

StaleInv == Ending \/ ArrivalInv

(* What has begun to end goes on ending. *)
LEMMA EndingLasts ==
    ASSUME TypeInv, Steps, Ending
    PROVE  Ending'
<1>1. CASE \/ UNCHANGED vars \/ attach \/ detach \/ dataReceived \/ destroy \/ PipeTakes
           \/ SnapshotApplied \/ ScriptEnds \/ ThreadEnds
           \/ GateChecked \/ CollectPosted \/ Answered \/ CommandPosted \/ ScriptHangs \/ CommandIssued
  <2>1. gui'.exiting = gui.exiting /\ flags'.tearing = flags.tearing
    BY <1>1, DeviceShape, EndShape, TakeStep, FinishShape, PipeShape DEF vars
  <2> QED BY <2>1 DEF Ending
<1>2. CASE UserEdits \/ CommandEdits \/ UserAsks \/ CommandAsks \/ ServeQueued
  <2>1. gui'.exiting = gui.exiting /\ flags'.tearing = flags.tearing
    BY <1>2, EditedShape, AskedShape, ServeShape DEF UserEdits, CommandEdits, UserAsks, CommandAsks
  <2> QED BY <2>1 DEF Ending
<1>3. CASE SyncChecksParked \/ MarshalSkipped \/ MarshalInline \/ LoopReturns \/ abandon
  <2>1. gui'.exiting = gui.exiting /\ flags'.tearing = flags.tearing
    BY <1>3, CallShape
  <2> QED BY <2>1 DEF Ending
<1>4. CASE MarshalPosted \/ CommandFinished \/ ScriptWoken \/ shutdown
  <2>1. gui'.exiting = gui.exiting /\ flags'.tearing = flags.tearing
    BY <1>4, PostedShape, CommandShape, ShutdownShape DEF shutdown, joinServingGuiMarshals, Running
  <2> QED BY <2>1 DEF Ending
<1>5. CASE AboutToQuit \/ QuitFromEngine \/ QuitDirectly \/ joinServingGuiMarshals
  <2>1. CASE onQuit
    BY <2>1 DEF onQuit, TypeInv, Ending
  <2>2. CASE QuitDirectly \/ joinServingGuiMarshals
    <3>1. gui'.exiting /\ gui' \in GuiType
      BY <2>2, ExitShape, ShutdownShape DEF TypeInv, shutdown, joinServingGuiMarshals, Running
    <3> QED BY <3>1 DEF GuiType, Ending
  <2> QED BY <1>5, <2>1, <2>2 DEF AboutToQuit, QuitFromEngine
<1> QED BY <1>1, <1>2, <1>3, <1>4, <1>5 DEF Steps

(* A step before teardown is none of teardown's. *)
LEMMA NotYetEnding ==
    ASSUME TypeInv, TeardownInv, Steps, ~Ending'
    PROVE  /\ ~Ending
           /\ ~(MarshalSkipped \/ shutdown \/ joinServingGuiMarshals \/ ThreadEnds)
           /\ ~(AboutToQuit \/ QuitFromEngine \/ QuitDirectly)
<1>1. ~Ending
  BY EndingLasts
<1>2. gui.exiting = FALSE /\ flags.tearing = FALSE
  BY <1>1 DEF Ending, TypeInv, GuiType
<1>3. ~(MarshalSkipped \/ ThreadEnds \/ AboutToQuit)
  BY <1>2 DEF MarshalSkipped, ThreadEnds, TeardownInv, AboutToQuit
<1>4. ~(shutdown \/ joinServingGuiMarshals)
  <2> SUFFICES ASSUME shutdown \/ joinServingGuiMarshals PROVE FALSE
    OBVIOUS
  <2>1. Top.op = "quit" /\ Top.pc # "idle"
    BY DEF shutdown, joinServingGuiMarshals, Running
  <2>2. Len(gui.stack) \in 1 .. Len(gui.stack) /\ Top = gui.stack[Len(gui.stack)]
    BY <2>1, TopIsLast
  <2> QED BY <1>2, <2>1, <2>2 DEF TeardownInv
<1>5. ~(QuitFromEngine \/ QuitDirectly)
  <2>1. gui'.exiting = FALSE /\ flags'.tearing = FALSE
    BY TypeStep DEF Ending, TypeInv, GuiType
  <2> QED BY <2>1 DEF QuitFromEngine, QuitDirectly, onQuit, TypeInv, GuiType
<1> QED BY <1>1, <1>3, <1>4, <1>5

(* At the start the first version is applied. *)
LEMMA InitStale ==
    ASSUME TypeInv, Init
    PROVE  StaleInv
<1>1. /\ gui.stack = <<>> /\ gui.inFlight = FALSE /\ gui.deferred = 0
      /\ pipe.queue = <<>> /\ pipe.held = 0 /\ pipe.snap = 0 /\ pipe.applied = 1 /\ pipe.lost = 0
      /\ calls.made = 0 /\ calls.waiting = {} /\ calls.woken = {} /\ project = 1
  BY DEF Init, None
<1>2. FrameInv
  BY <1>1 DEF FrameInv, OuterServe, SyncRuns, FramesCurrent
<1>3. VersionsPast
  BY <1>1 DEF VersionsPast
<1>4. CallInv
  BY <1>1 DEF CallInv, CallNumbers, DispatchesLive, None
<1> QED BY <1>1, <1>2, <1>3, <1>4 DEF StaleInv, ArrivalInv, Carried, Known

(* Every step keeps it. *)
LEMMA StaleStep ==
    ASSUME TypeInv, TypeInv', BracketInv, TeardownInv, StaleInv, Steps
    PROVE  StaleInv'
<1> SUFFICES ASSUME ~Ending'
             PROVE  ArrivalInv'
  BY DEF StaleInv
<1>1. /\ ~Ending /\ ArrivalInv
      /\ ~(MarshalSkipped \/ shutdown \/ joinServingGuiMarshals \/ ThreadEnds)
      /\ ~(AboutToQuit \/ QuitFromEngine \/ QuitDirectly)
  BY NotYetEnding DEF StaleInv
<1>2. ~gui.exiting /\ ~flags.tearing
  BY <1>1 DEF Ending, TypeInv, GuiType
<1>3. CASE UserEdits \/ CommandEdits
  <2>1. Edited /\ Top.pc \in {"idle", "wait", "run"}
    BY <1>3 DEF UserEdits, CommandEdits, Pumping, Running
  <2> QED BY <1>1, <2>1, EditArrives
<1>4. CASE UserAsks \/ CommandAsks
  <2>1. Asked /\ Top.pc \in {"idle", "wait", "run"}
    BY <1>4 DEF UserAsks, CommandAsks, Pumping, Running
  <2> QED BY <1>1, <2>1, AskArrives
<1>5. CASE SyncChecksParked \/ MarshalInline \/ LoopReturns \/ abandon \/ MarshalPosted
  BY <1>1, <1>2, <1>5, CheckArrives, InlineArrives, ReturnArrives, AbandonArrives, PostedArrives
<1>6. CASE ServeQueued \/ CommandFinished \/ ScriptWoken
  BY <1>1, <1>2, <1>6, ServeArrives, FinishedArrives, WokenArrives
<1>7. CASE attach \/ detach \/ dataReceived \/ destroy
  BY <1>1, <1>7, DeviceArrives
<1>8. CASE \/ PipeTakes \/ SnapshotApplied \/ ScriptEnds
           \/ GateChecked \/ CollectPosted \/ Answered \/ CommandPosted \/ ScriptHangs \/ CommandIssued
  BY <1>1, <1>2, <1>8, TakeArrives, FinishArrives, PipeArrives
<1>9. CASE UNCHANGED vars
  <2>1. FrameInv' /\ VersionsPast' /\ CallInv'
    BY <1>1, <1>9 DEF vars, ArrivalInv, FrameInv, OuterServe, SyncRuns, FramesCurrent, FrameCurrent,
                      VersionsPast, CallInv, CallNumbers, DispatchesLive
  <2>2. Carried'
    BY <1>1, <1>9 DEF vars, ArrivalInv, Carried, Known, Queued, Brings, InSync, InGui
  <2> QED BY <2>1, <2>2 DEF ArrivalInv
<1> QED BY <1>1, <1>3, <1>4, <1>5, <1>6, <1>7, <1>8, <1>9 DEF Steps

(* Both threads at rest, nobody carries the version any more: it has arrived,
   or is known to be lost. *)
LEMMA RestKnows ==
    ASSUME TypeInv, BracketInv, StaleInv, AtRest
    PROVE  pipe.applied = project \/ pipe.lost = project
<1>1. ArrivalInv
  BY DEF StaleInv, AtRest, Ending
<1>2. ~InSync /\ ~Queued
  BY DEF AtRest, InSync, Queued
<1>3. ~InGui
  <2>1. gui.stack = <<>> /\ gui.queue = <<>> /\ pipe.pc = "idle"
    BY DEF AtRest
  <2>2. Len(gui.stack) = 0 /\ Len(gui.queue) = 0
    BY <2>1
  <2>3. gui.inFlight # TRUE
    <3>1. SyncRuns
      BY <1>1 DEF ArrivalInv, FrameInv
    <3>2. 1 .. Len(gui.stack) = {}
      BY <2>2
    <3> QED BY <3>1, <3>2 DEF SyncRuns
  <2>4. flags.parked # TRUE
    <3> SUFFICES ASSUME flags.parked PROVE FALSE
      OBVIOUS
    <3> QED BY <2>1 DEF BracketInv, ParkedMeansQuiescent
  <2>5. 1 .. Len(gui.stack) = {} /\ 1 .. Len(gui.queue) = {}
    BY <2>2
  <2> QED BY <2>3, <2>4, <2>5, Zenon DEF InGui
<1> QED BY <1>1, <1>2, <1>3 DEF ArrivalInv, Carried, Known

-----------------------------------------------------------------------------
(* The last edit of the project reaches FrameBuilder, unless its snapshot was
   refused by the owner check or overtaken by a deferred one: in every way the
   two threads' calls can nest, no pending sync is forgotten. *)
THEOREM ArrivalCorrect == Spec => []StaleOnlyIfLost
<1>1. Init => IInv /\ StaleInv
  BY InitIInv, InitStale, PipelineHostAssumptions DEF IInv
<1>2. IInv /\ StaleInv /\ [Next]_vars => (IInv /\ StaleInv)'
  <2> SUFFICES ASSUME IInv, StaleInv, [Next]_vars
               PROVE  IInv' /\ StaleInv'
    OBVIOUS
  <2>1. IInv' /\ Steps
    BY NextIInv, StepsAreNext
  <2> QED BY <2>1, StaleStep DEF IInv
<1>3. IInv /\ StaleInv => StaleOnlyIfLost
  BY RestKnows DEF IInv, StaleOnlyIfLost
<1> QED BY <1>1, <1>2, <1>3, PTL DEF Spec
=============================================================================
