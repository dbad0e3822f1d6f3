----------------------------- MODULE PipelineHost -----------------------------
(* Calls between the GUI thread and the processing thread.

   Each thread owns half of the program, and calls the other half by posting to
   its event loop and waiting.  The processing thread waits plainly
   (runOnGuiThreadBlocking, and dispatchApiCall for a script that issues a
   command, which also raises the "parked" flag).  The GUI thread waits in a
   nested event loop (runOnObjectThread), so it keeps serving events, the other
   thread's calls among them, and calls nest.  While the other thread is parked
   it does not wait at all but runs its call inline.

   On top of the calls: the synchronisation of the project into FrameBuilder,
   the life of a device's FrameReader, which is made on one thread and used and
   deleted on the other, and the end of the program, which joins the processing
   thread with a time limit.

   An action is what one thread does between two accesses to what the other
   one writes.  A project is its version; a call is a number; the two
   operations that stand for all callers are "sync" (syncFromProjectModel) and
   "ask" (FrameParser::readCode, which marshals itself to its thread and calls
   back to the GUI thread from there, then runs a script). *)
EXTENDS Integers, Sequences, SequencesExt

CONSTANT Scopes   \* bounds of a run: how many edits, asks, script calls, ...

ASSUME PipelineHostAssumptions ==
    Scopes \subseteq [edits : Nat, asks : Nat, commands : Nat, chunks : Nat, readers : Nat,
                      hang : BOOLEAN, quit : {"none", "engine", "direct"}]

VARIABLES
    project,   \* version of the project the GUI thread owns
    gui,       \* GUI thread: see Init
    pipe,      \* processing thread: see Init
    calls,     \* calls of runOnObjectThread: how many, whose loop waits, whose loop must quit
    flags,     \* s_pipelineParkedOnGui, s_tearingDown, the thread's state, m_abandoned
    readers,   \* the device's reader (0: none), the readers made and the freed ones
    left       \* what the scope still allows

vars == <<project, gui, pipe, calls, flags, readers, left>>

None == 0

Init ==
    /\ project = 1
    /\ gui = [stack |-> <<>>, queue |-> <<>>, exiting |-> FALSE, inFlight |-> FALSE,
              pending |-> FALSE, deferred |-> None]
    /\ pipe = [pc |-> "idle", queue |-> <<>>, held |-> None, reader |-> None, snap |-> None,
               applied |-> 1, lost |-> None]
    /\ calls = [made |-> 0, waiting |-> {}, woken |-> {}]
    /\ flags = [parked |-> FALSE, tearing |-> FALSE, thread |-> "running", abandoned |-> FALSE]
    /\ readers = [current |-> None, made |-> 0, freed |-> {}]
    /\ left \in Scopes

-----------------------------------------------------------------------------
(* The GUI thread's stack of calls, innermost last *)

Frame(op, pc, snap) == [op |-> op, pc |-> pc, call |-> None, snap |-> snap]

Top == IF gui.stack = <<>> THEN Frame("main", "idle", None) ELSE Last(gui.stack)

Running(op, pc) == Top.op = op /\ Top.pc = pc

Push(x, f)   == [x EXCEPT !.stack = Append(@, f)]
Pop(x)       == [x EXCEPT !.stack = Front(@)]
MoveTo(x, pc) == [x EXCEPT !.stack[Len(gui.stack)].pc = pc]

(* Mutant: the GUI thread waits plainly. *)
PumpingInMain == ~gui.exiting /\ Top.pc = "idle"

(* The GUI thread is in an event loop: its own or the nested one of a wait. *)
Pumping == ~gui.exiting /\ Top.pc \in {"idle", "wait"}

Post(event) == [pipe EXCEPT !.queue = Append(@, event)]

Event(kind, n, op, snap) == [kind |-> kind, n |-> n, op |-> op, snap |-> snap]

-----------------------------------------------------------------------------
(* syncFromProjectModel on the GUI thread *)

(* Its start: one sync at a time, another one is remembered for the loop. *)
startSync(x, version) ==
    IF x.inFlight THEN [x EXCEPT !.pending = TRUE]
    ELSE Push([x EXCEPT !.inFlight = TRUE, !.pending = FALSE], Frame("sync", "check", version))

(* Mutant: a sync that comes while one runs is forgotten. *)
EndSyncOnce(x) == [Pop(x) EXCEPT !.inFlight = FALSE]

(* The end of a turn of its loop: a sync that came meanwhile takes another turn. *)
endSyncTurn(x) ==
    IF x.pending
    THEN [MoveTo(x, "check") EXCEPT !.pending = FALSE, !.stack[Len(x.stack)].snap = project]
    ELSE [Pop(x) EXCEPT !.inFlight = FALSE]

(* A parked pipeline gets the snapshot later, from onPipelineParkedChanged. *)
SyncChecksParked ==
    /\ Running("sync", "check")
    /\ gui' = IF flags.parked
              THEN [Pop(gui) EXCEPT !.inFlight = FALSE, !.deferred = Top.snap]
              ELSE MoveTo(gui, "marshal")
    /\ UNCHANGED <<project, pipe, calls, flags, readers, left>>

-----------------------------------------------------------------------------
(* runOnObjectThread on the GUI thread *)

(* What follows a call that returned. *)
Returned(x) == IF Top.op = "sync" THEN endSyncTurn(x) ELSE Pop(x)

Newest(v, w) == IF v < w THEN w ELSE v

(* Mutant: the snapshot is applied on whatever thread it arrives. *)
ApplyAnywhere(p, version, owner) == [p EXCEPT !.applied = version]

(* applyProjectSnapshot: on any other thread than its own it does nothing.
   lost records the newest version refused here, or replaced by an older one. *)
applyProjectSnapshot(p, version, owner) ==
    IF owner THEN [p EXCEPT !.applied = version, !.lost = Newest(@, IF version < p.applied
                                                                   THEN p.applied ELSE None)]
    ELSE [p EXCEPT !.lost = Newest(@, version)]

(* Nothing is called during teardown. *)
MarshalSkipped ==
    /\ Top.pc = "marshal" /\ flags.tearing
    /\ gui' = Returned(gui)
    /\ UNCHANGED <<project, pipe, calls, flags, readers, left>>

(* The other thread is parked: the function runs here.  One that marshals
   itself to its own thread finds the same condition and calls itself again. *)
MarshalInline ==
    /\ Top.pc = "marshal" /\ ~flags.tearing /\ flags.parked
    /\ \/ /\ Top.op = "sync"
          /\ gui' = Returned(gui)
          /\ pipe' = applyProjectSnapshot(pipe, Top.snap, FALSE)
       \/ /\ Top.op = "ask"
          /\ gui' = MoveTo(gui, "recursing")
          /\ UNCHANGED pipe
    /\ UNCHANGED <<project, calls, flags, readers, left>>

(* publish, the queued dispatch, and into the nested loop. *)
MarshalPosted ==
    /\ Top.pc = "marshal" /\ ~flags.tearing /\ ~flags.parked
    /\ calls' = [calls EXCEPT !.made = @ + 1, !.waiting = @ \cup {calls.made + 1}]
    /\ gui' = [MoveTo(gui, "wait") EXCEPT !.stack[Len(gui.stack)].call = calls.made + 1]
    /\ pipe' = Post(Event("dispatch", calls.made + 1, Top.op, Top.snap))
    /\ UNCHANGED <<project, flags, readers, left>>

(* The innermost loop returns: its call was answered, or the program exits. *)
LoopReturns ==
    /\ Top.pc = "wait"
    /\ Top.call \in calls.woken \/ gui.exiting
    /\ gui' = MoveTo(gui, "abandon")
    /\ UNCHANGED <<project, pipe, calls, flags, readers, left>>

(* Mutant: the loop is retired without the mutex. *)
AbandonAtOnce ==
    /\ Top.pc = "abandon"
    /\ calls' = [calls EXCEPT !.waiting = @ \ {Top.call}, !.woken = @ \ {Top.call}]
    /\ gui' = Returned(gui)
    /\ UNCHANGED <<project, pipe, flags, readers, left>>

(* abandon: behind a dispatch that holds the mutex. *)
abandon ==
    /\ Top.pc = "abandon" /\ pipe.held # Top.call
    /\ calls' = [calls EXCEPT !.waiting = @ \ {Top.call}, !.woken = @ \ {Top.call}]
    /\ gui' = Returned(gui)
    /\ UNCHANGED <<project, pipe, flags, readers, left>>

-----------------------------------------------------------------------------
(* The GUI thread's events *)

(* An edit of the project, and how the builder hears of it: at once, through
   one queued sync (scheduleProjectApply), or through the builder's own queue
   (transformLibraryChanged). *)
Edited ==
    /\ left.edits > 0
    /\ left' = [left EXCEPT !.edits = @ - 1]
    /\ project' = project + 1
    /\ \/ gui' = startSync(gui, project + 1) /\ UNCHANGED pipe
       \/ /\ gui' = IF "sync" \in Range(gui.queue) THEN gui
                    ELSE [gui EXCEPT !.queue = Append(@, "sync")]
          /\ UNCHANGED pipe
       \/ pipe' = Post(Event("sync", None, "sync", None)) /\ UNCHANGED gui
    /\ UNCHANGED <<calls, flags, readers>>

UserEdits == Pumping /\ Edited

(* FrameParser::readCode and its like. *)
Asked ==
    /\ left.asks > 0
    /\ left' = [left EXCEPT !.asks = @ - 1]
    /\ gui' = Push(gui, Frame("ask", "marshal", None))
    /\ UNCHANGED <<project, pipe, calls, flags, readers>>

UserAsks == Pumping /\ Asked

(* joinServingGuiMarshals serves the calls posted to qApp too. *)
Serving == Pumping \/ Top.pc = "join"

ServeQueued ==
    /\ Serving /\ gui.queue # <<>>
    /\ LET x == [gui EXCEPT !.queue = Tail(@)]
       IN  \/ /\ Head(gui.queue) = "sync"
              /\ gui' = startSync(x, project)
              /\ UNCHANGED pipe
           \/ /\ Head(gui.queue) = "collect"
              /\ gui' = x
              /\ pipe' = [pipe EXCEPT !.pc = "answered", !.snap = project]
           \/ /\ Head(gui.queue) = "command"
              /\ gui' = Push(x, Frame("command", "run", None))
              /\ UNCHANGED pipe
    /\ UNCHANGED <<project, calls, flags, readers, left>>

CommandEdits == Running("command", "run") /\ Edited

CommandAsks == Running("command", "run") /\ Asked

(* Mutant: the flag is left to the script's thread. *)
FinishedStillParked ==
    /\ Running("command", "run")
    /\ gui' = MoveTo(gui, "wake")
    /\ UNCHANGED <<project, pipe, calls, flags, readers, left>>

(* The command is done: setPipelineParkedOnGui(false), whose listener posts the
   deferred snapshot (onPipelineParkedChanged); not during teardown. *)
CommandFinished ==
    /\ Running("command", "run")
    /\ flags' = [flags EXCEPT !.parked = FALSE]
    /\ gui' = MoveTo(gui, "wake")
    /\ pipe' = IF ~flags.tearing /\ gui.deferred # None
               THEN Post(Event("apply", None, "sync", None)) ELSE pipe
    /\ UNCHANGED <<project, calls, readers, left>>

(* ... and the blocking call returns to the script. *)
ScriptWoken ==
    /\ Running("command", "wake")
    /\ gui' = Pop(gui)
    /\ pipe' = [pipe EXCEPT !.pc = "script"]
    /\ UNCHANGED <<project, calls, flags, readers, left>>

-----------------------------------------------------------------------------
(* Readers *)

(* Mutant: a released thread object counts as a stopped thread. *)
RetireAbandoned ==
    IF readers.current = None THEN "none"
    ELSE IF flags.thread # "finished" /\ ~flags.abandoned THEN "post" ELSE "free"

(* retireReader: the feed is cut, and the reader is deleted by its own thread
   while that runs, here once it has stopped, and never if it was abandoned. *)
retireReader ==
    IF readers.current = None \/ flags.abandoned THEN "none"
    ELSE IF flags.thread # "finished" THEN "post" ELSE "free"

PipeAfterRetire ==
    IF retireReader = "post" THEN Post(Event("delete", readers.current, "", None)) ELSE pipe

ReadersAfterRetire ==
    [readers EXCEPT !.current = None,
                    !.freed = IF retireReader = "free" THEN @ \cup {readers.current} ELSE @]

(* attach, reconfigure included: a new reader takes the place of the old one. *)
attach ==
    /\ Pumping /\ left.readers > 0
    /\ left' = [left EXCEPT !.readers = @ - 1]
    /\ pipe' = PipeAfterRetire
    /\ readers' = [ReadersAfterRetire EXCEPT !.current = readers.made + 1, !.made = @ + 1]
    /\ UNCHANGED <<project, gui, calls, flags>>

detach ==
    /\ Pumping /\ readers.current # None
    /\ pipe' = PipeAfterRetire /\ readers' = ReadersAfterRetire
    /\ UNCHANGED <<project, gui, calls, flags, left>>

(* The driver received a chunk: processData is queued to the reader's thread. *)
dataReceived ==
    /\ Pumping /\ readers.current # None /\ left.chunks > 0
    /\ left' = [left EXCEPT !.chunks = @ - 1]
    /\ pipe' = Post(Event("chunk", readers.current, "", None))
    /\ UNCHANGED <<project, gui, calls, flags, readers>>

-----------------------------------------------------------------------------
(* The end of the program *)

(* The event loops are told to return (last window, command line, updater). *)
QuitDirectly ==
    /\ Pumping /\ left.quit = "direct"
    /\ left' = [left EXCEPT !.quit = "none"]
    /\ gui' = [gui EXCEPT !.exiting = TRUE]
    /\ UNCHANGED <<project, pipe, calls, flags, readers>>

(* onQuit, connected to the QML engine's quit and, for when the main loop has
   returned, to aboutToQuit: teardown is latched before anything is stopped. *)
onQuit ==
    /\ ~flags.tearing
    /\ left' = [left EXCEPT !.quit = "none"]
    /\ flags' = [flags EXCEPT !.tearing = TRUE]
    /\ gui' = Push(gui, Frame("quit", "disconnect", None))
    /\ UNCHANGED <<project, pipe, calls, readers>>

QuitFromEngine == Pumping /\ left.quit = "engine" /\ onQuit

AboutToQuit == gui.exiting /\ gui.stack = <<>> /\ onQuit

(* disconnectAllDevices (a path that never had devices to close skips it),
   then shutdown up to the join. *)
shutdown ==
    /\ Running("quit", "disconnect")
    /\ \/ pipe' = PipeAfterRetire /\ readers' = ReadersAfterRetire
       \/ UNCHANGED <<pipe, readers>>
    /\ flags' = [flags EXCEPT !.thread = "quitting"]
    /\ gui' = MoveTo(gui, "join")
    /\ UNCHANGED <<project, calls, left>>

(* The join succeeds, or gives up after kJoinTimeoutMs. *)
joinServingGuiMarshals ==
    /\ Running("quit", "join")
    /\ flags' = [flags EXCEPT !.abandoned = (flags.thread # "finished")]
    /\ gui' = [Pop(gui) EXCEPT !.exiting = TRUE]
    /\ UNCHANGED <<project, pipe, calls, readers, left>>

(* What is left is retired by the devices' destructors or by ~PipelineHost. *)
destroy ==
    /\ gui.exiting /\ flags.tearing /\ gui.stack = <<>> /\ readers.current # None
    /\ pipe' = PipeAfterRetire /\ readers' = ReadersAfterRetire
    /\ UNCHANGED <<project, gui, calls, flags, left>>

-----------------------------------------------------------------------------
(* The processing thread *)

(* dispatch: the mutex is taken, and kept while the function runs; a waiter
   that left is not called for. *)
dispatch(event) ==
    IF event.n \in calls.waiting
    THEN pipe' = [pipe EXCEPT !.queue = Tail(@), !.held = event.n, !.snap = event.snap,
                              !.pc = IF event.op = "sync" THEN "apply" ELSE "gate"]
    ELSE pipe' = [pipe EXCEPT !.queue = Tail(@)]

applyDeferredProjectSnapshot ==
    LET p == [pipe EXCEPT !.queue = Tail(@)]
    IN  /\ pipe' = IF gui.deferred = None THEN p
                   ELSE applyProjectSnapshot(p, gui.deferred, TRUE)
        /\ gui' = [gui EXCEPT !.deferred = None]

(* The next event of its loop. *)
PipeTakes ==
    /\ pipe.pc = "idle" /\ pipe.queue # <<>> /\ flags.thread # "finished"
    /\ LET event == Head(pipe.queue)
       IN  \/ event.kind = "dispatch" /\ dispatch(event) /\ UNCHANGED <<gui, readers>>
           \/ event.kind = "apply" /\ applyDeferredProjectSnapshot /\ UNCHANGED readers
           \/ /\ event.kind = "sync"     \* syncFromProjectModel on its own thread
              /\ pipe' = [pipe EXCEPT !.queue = Tail(@), !.snap = None, !.pc = "gate"]
              /\ UNCHANGED <<gui, readers>>
           \/ /\ event.kind = "chunk"    \* processData, readyRead and routeFrames
              /\ pipe' = [pipe EXCEPT !.queue = Tail(@), !.reader = event.n, !.pc = "script"]
              /\ UNCHANGED <<gui, readers>>
           \/ /\ event.kind = "delete"
              /\ pipe' = [pipe EXCEPT !.queue = Tail(@)]
              /\ readers' = [readers EXCEPT !.freed = @ \cup {event.n}]
              /\ UNCHANGED gui
    /\ UNCHANGED <<project, calls, flags, left>>

(* runOnGuiThreadBlocking: the teardown check ... *)
GateChecked ==
    /\ pipe.pc = "gate"
    /\ pipe' = [pipe EXCEPT !.pc = IF flags.tearing THEN "answered" ELSE "ask"]
    /\ UNCHANGED <<project, gui, calls, flags, readers, left>>

(* ... and the blocking call. *)
CollectPosted ==
    /\ pipe.pc = "ask"
    /\ gui' = [gui EXCEPT !.queue = Append(@, "collect")]
    /\ pipe' = [pipe EXCEPT !.pc = "blocked"]
    /\ UNCHANGED <<project, calls, flags, readers, left>>

(* With the answer a sync is applied, and readCode loads and runs the script. *)
Answered ==
    /\ pipe.pc = "answered"
    /\ pipe' = [pipe EXCEPT !.pc = IF pipe.held = None THEN "apply" ELSE "script"]
    /\ UNCHANGED <<project, gui, calls, flags, readers, left>>

(* The end of a function: one that was dispatched wakes its waiter. *)
Finished(p) == [p EXCEPT !.pc = "idle", !.held = None, !.reader = None, !.snap = None]

Wakes == calls' = IF pipe.held = None THEN calls ELSE [calls EXCEPT !.woken = @ \cup {pipe.held}]

SnapshotApplied ==
    /\ pipe.pc = "apply"
    /\ pipe' = Finished(applyProjectSnapshot(pipe, pipe.snap, TRUE))
    /\ Wakes
    /\ UNCHANGED <<project, gui, flags, readers, left>>

(* A script, over a frame or loaded by readCode, runs to its end ... *)
ScriptEnds ==
    /\ pipe.pc = "script"
    /\ pipe' = Finished(pipe)
    /\ Wakes
    /\ UNCHANGED <<project, gui, flags, readers, left>>

(* ... or for ever ... *)
ScriptHangs ==
    /\ pipe.pc = "script" /\ left.hang
    /\ pipe' = [pipe EXCEPT !.pc = "hung"]
    /\ left' = [left EXCEPT !.hang = FALSE]
    /\ UNCHANGED <<project, gui, calls, flags, readers>>

(* ... or issues a command: dispatchApiCall raises the flag, then posts. *)
CommandIssued ==
    /\ pipe.pc = "script" /\ left.commands > 0
    /\ flags' = [flags EXCEPT !.parked = TRUE]
    /\ pipe' = [pipe EXCEPT !.pc = "parking"]
    /\ left' = [left EXCEPT !.commands = @ - 1]
    /\ UNCHANGED <<project, gui, calls, readers>>

CommandPosted ==
    /\ pipe.pc = "parking"
    /\ gui' = [gui EXCEPT !.queue = Append(@, "command")]
    /\ pipe' = [pipe EXCEPT !.pc = "parked"]
    /\ UNCHANGED <<project, calls, flags, readers, left>>

(* The event loop returns; deletions still queued are carried out. *)
ThreadEnds ==
    /\ flags.thread = "quitting" /\ pipe.pc = "idle"
    /\ flags' = [flags EXCEPT !.thread = "finished"]
    /\ readers' = [readers EXCEPT !.freed =
                      @ \cup {e.n : e \in {d \in Range(pipe.queue) : d.kind = "delete"}}]
    /\ pipe' = [pipe EXCEPT !.queue = <<>>]
    /\ UNCHANGED <<project, gui, calls, left>>

-----------------------------------------------------------------------------
GuiTurn ==
    \/ SyncChecksParked \/ MarshalSkipped \/ MarshalInline \/ MarshalPosted
    \/ LoopReturns \/ abandon
    \/ ServeQueued \/ CommandFinished \/ ScriptWoken
    \/ AboutToQuit \/ shutdown \/ joinServingGuiMarshals \/ destroy

User ==
    \/ UserEdits \/ CommandEdits \/ UserAsks \/ CommandAsks \/ attach \/ detach \/ dataReceived
    \/ QuitDirectly \/ QuitFromEngine

PipeTurn ==
    \/ PipeTakes \/ GateChecked \/ CollectPosted \/ Answered \/ SnapshotApplied
    \/ ScriptEnds \/ CommandPosted \/ ThreadEnds

Script == ScriptHangs \/ CommandIssued

Next == GuiTurn \/ User \/ PipeTurn \/ Script

Spec == Init /\ [][Next]_vars

(* Both threads run on; a script ends unless it hangs; the user owes nothing. *)
FairSpec == Spec /\ WF_vars(GuiTurn) /\ WF_vars(PipeTurn)

-----------------------------------------------------------------------------
(* Properties *)

(* While the flag says that the processing thread is parked, it is: it stands
   in the bracket of its script's command, so that a call run inline by the GUI
   thread has its objects to itself. *)
ParkedMeansQuiescent == flags.parked => pipe.pc \in {"parking", "parked"}

(* A function that was dispatched reads its caller's locals: as long as it
   runs, the caller is still in its wait, however the wait is left. *)
FunctorHasItsWaiter ==
    pipe.held # None =>
        \E i \in DOMAIN gui.stack :
            gui.stack[i].call = pipe.held /\ gui.stack[i].pc \in {"wait", "abandon"}

AtRest ==
    /\ gui.stack = <<>> /\ gui.queue = <<>> /\ ~gui.exiting /\ ~flags.tearing
    /\ pipe.pc = "idle" /\ pipe.queue = <<>>

(* FrameBuilder.cpp:728, "the pipeline never keeps a stale project": once both
   threads have nothing left to do, the builder has the project's last version. *)
NeverStale == AtRest => pipe.applied = project

(* It has it unless that version's snapshot was lost in one of two ways: it was
   applied on the wrong thread, which refuses it, or overtaken, an older one
   that had been deferred being applied after it. *)
StaleOnlyIfLost == AtRest => pipe.applied = project \/ pipe.lost = project

(* The project is never replaced under a frame that is being parsed. *)
NeverAppliedMidFrame ==
    [][pipe'.applied # pipe.applied => pipe.reader = None]_vars

(* A reader is not freed while the processing thread is in it, or has a chunk
   queued for it. *)
ReaderOutlivesItsUse ==
    LET queued == {e.n : e \in {c \in Range(pipe.queue) : c.kind = "chunk"}}
    IN  ({pipe.reader} \cup queued) \cap readers.freed = {}

(* What may keep the threads waiting: a script that hangs; a self-marshalling
   function that was run inline; an exit that reached the GUI thread's wait
   while the call it waits for is itself waiting for the GUI thread. *)
Stuck ==
    \/ pipe.pc = "hung"
    \/ \E i \in DOMAIN gui.stack : gui.stack[i].pc = "recursing"
    \/ Top.pc = "abandon" /\ pipe.held = Top.call
          /\ pipe.pc \in {"blocked", "parked"}

(* PipelineHost.h:245, "deadlock-free by protocol": every wait of either thread
   ends. *)
EveryWaitEnds ==
    /\ gui.stack # <<>> ~> gui.stack = <<>> \/ Stuck
    /\ pipe.pc \in {"blocked", "parked"} ~>
          pipe.pc \notin {"blocked", "parked"} \/ Stuck \/ flags.abandoned
=============================================================================
