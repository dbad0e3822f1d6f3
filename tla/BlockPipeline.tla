---------------------------- MODULE BlockPipeline ----------------------------
(* The hand-off of parsed values from the processing thread to the dashboard
   and to the recordings.

   The processing thread runs FrameBuilder: each frame is staged as one sample
   of its source's open block (BlockStager), a finished block goes to the
   recording sinks and, by reference, to a bounded ring (BlockPublisher,
   PipelineHost), and a layout goes to a second ring ahead of the blocks that
   carry its generation.  The GUI thread runs Dashboard: link and project
   events, and a display tick that drains the layouts first and the blocks
   second.  The two threads share the rings and the flags of the link, and
   post calls to each other's event queue.

   Each action is a piece of one thread between two accesses to what the other
   one writes.  Replay, stream sources and Quick Plot are not modelled: one
   project is loaded and a recording is running throughout. *)
EXTENDS Integers, FiniteSets, Sequences, SequencesExt

CONSTANTS
    Sources,            \* source ids a project may use
    Slots,              \* block slots a claim may use (at least kFloor)
    NoBlock,            \* the null block pointer
    BlockRingSize,      \* kBlockRingSize
    StructureRingSize,  \* kStructureRingSize
    SampleCap,          \* kFrameBlockSampleCap
    BudgetCheck,        \* kBudgetCheckMask + 1
    MaxPosted,          \* calls a busy builder lets pile up
    Scopes,             \* bounds of a run: a project's sources, samples, edges and syncs
    QuickReconnect      \* may the link return before the GUI handled its loss?

ASSUME BlockPipelineAssumptions ==
    /\ Sources # {} /\ IsFiniteSet(Sources)
    /\ IsFiniteSet(Slots)
    /\ {BlockRingSize, StructureRingSize, SampleCap, BudgetCheck} \subseteq Nat \ {0}
    /\ MaxPosted \in Nat
    /\ Scopes \subseteq [sources : SUBSET Sources, samples : Nat, edges : Nat, syncs : Nat]
    /\ QuickReconnect \in BOOLEAN

(* A stored sample: its number, and the layout and the session it was staged in. *)
SampleType == [id : Nat, gen : Nat, session : Nat]

(* DataBlock, with the pool slot that holds it; stale: opened before the last tick. *)
BlockType == [slot : Slots, gen : Nat, source : Sources, masked : BOOLEAN, stale : BOOLEAN,
              samples : Seq(SampleType)]

ASSUME NoBlockAssumption == NoBlock \notin BlockType

VARIABLES
    link,      \* connected and paused mirrors; connected is also dashboardAccepting
    b,         \* FrameBuilder: see Init
    w,         \* open blocks, block ring and recordings (what a flush moves)
    layouts,   \* the structure ring
    g,         \* Dashboard: see Init
    shown,     \* last sample each source's widgets took, NoSample at first
    captured,  \* the samples stored in blocks so far, of each source, masked ones left out
    spent      \* the scope of the behaviour; samples, edges and syncs used up

vars == <<link, b, w, layouts, g, shown, captured, spent>>

NoSample == [id |-> 0]
NoStaging == [source |-> NoBlock, masked |-> FALSE, flush |-> FALSE]

Init ==
    /\ link = [connected |-> FALSE, paused |-> FALSE]
    /\ b = [pc |-> "idle", gen |-> 1, published |-> {}, lastConnected |-> FALSE,
            lastPaused |-> FALSE, staging |-> NoStaging, inbox |-> <<>>, rest |-> {},
            after |-> "idle"]
    /\ w = [open |-> [s \in Sources |-> NoBlock], blocks |-> <<>>,
            recorded |-> [s \in Sources |-> <<>>], session |-> 0, starved |-> FALSE]
    /\ layouts = <<>>
    /\ g = [pc |-> "idle", inbox |-> <<>>, gen |-> [s \in Sources |-> 0], tables |-> {},
            layoutValid |-> FALSE, block |-> NoBlock, newest |-> NoBlock, over |-> FALSE,
            drained |-> 0]
    /\ shown = [s \in Sources |-> NoSample]
    /\ captured = [s \in Sources |-> <<>>]
    /\ \E scope \in Scopes : spent = [scope |-> scope, samples |-> 0, edges |-> 0, syncs |-> 0]

-----------------------------------------------------------------------------
(* Publishing a block *)

(* publishBlockToDashboard: dropped whole when nobody accepts or the ring is full. *)
publishBlockToDashboard(u, block) ==
    IF link.connected /\ Len(u.blocks) < BlockRingSize
    THEN [u EXCEPT !.blocks = Append(@, block)] ELSE u

(* The samples of a block, in the recording of the session that is on. *)
Recorded(u, block) ==
    [i \in DOMAIN block.samples |-> [sample |-> block.samples[i], session |-> u.session]]

(* BlockPublisher::publish; mask is m_maskSinks.  The recording takes a copy. *)
publish(u, block, mask) ==
    LET v == publishBlockToDashboard(u, block)
    IN  IF block.masked \/ mask THEN v
        ELSE [v EXCEPT !.recorded[block.source] = @ \o Recorded(u, block)]

(* BlockStager::flush of one source. *)
flush(u, s, mask) ==
    IF u.open[s] = NoBlock THEN u
    ELSE publish([u EXCEPT !.open[s] = NoBlock], u.open[s], mask)

(* BlockStager::flushAll begins: the open blocks go out one by one, and then the
   builder is at the given place. *)
flushAll(x, place) ==
    LET open == {s \in Sources : w.open[s] # NoBlock}
    IN  [x EXCEPT !.rest = open, !.after = place, !.pc = IF open = {} THEN place ELSE "flush"]

FlushNext ==
    /\ b.pc = "flush"
    /\ \E s \in b.rest :
         /\ w' = flush(w, s, FALSE)
         /\ b' = [b EXCEPT !.rest = @ \ {s}, !.pc = IF b.rest = {s} THEN b.after ELSE @]
    /\ UNCHANGED <<link, layouts, g, shown, captured, spent>>

(* Mutant: the boundary overtakes the samples still in open blocks. *)
BoundaryWithoutFlush(x, place) == [x EXCEPT !.pc = place]

(* FrameBuilder::emitSessionBoundary: everything goes out, then (at the place) the
   recorders close their files. *)
emitSessionBoundary(x, place) == flushAll(x, place)

Boundary(u) == [u EXCEPT !.session = @ + 1]

-----------------------------------------------------------------------------
(* Announcing a layout *)

(* ensureStructurePublished with publishStructureToDashboard, for the sources
   in order: a source is marked whether or not the ring took its layout. *)
ensureStructurePublished(queue, sources, gen) ==
    FoldSet(LAMBDA s, q : IF link.connected /\ Len(q) < StructureRingSize
                          THEN Append(q, [gen |-> gen, source |-> s]) ELSE q,
            queue, sources)

(* invalidateFramePool. *)
invalidateFramePool(u) == [u EXCEPT !.gen = @ + 1, !.published = {}]

-----------------------------------------------------------------------------
(* Staging a sample *)

SlotsOf(blocks) == {block.slot : block \in blocks \ {NoBlock}}

(* Mutant: a slot counts as free once the ring let go of it, although the
   dashboard may still be reading it. *)
FreeIgnoresReader(u) == Slots \ SlotsOf(Range(u.blocks) \cup Range(u.open))

(* Slots whose only reference is the pool's (use_count() = 1). *)
free(u) == Slots \ SlotsOf(Range(u.blocks) \cup Range(u.open) \cup {g.block, g.newest})

(* Mutant: the pool is cut down to the size of the ring. *)
ClaimWithoutHeadroom(u) ==
    IF Cardinality(Slots \ free(u)) >= BlockRingSize THEN {} ELSE {CHOOSE k \in free(u) : TRUE}

(* BlockStager::claimSlot, as the set of at most one slot.  A rotating hint and
   the slot's last layout decide which free slot it is; nobody can tell. *)
claimSlot(u) == IF free(u) = {} THEN {} ELSE {CHOOSE k \in free(u) : TRUE}

(* Mutant: only the mask is compared. *)
ReusableAcrossLayouts(u, s, mask) == u.open[s] # NoBlock /\ u.open[s].masked = mask

(* Whether the open block of s may take the next sample (openBlockFor). *)
reusable(u, s, mask) ==
    /\ u.open[s] # NoBlock
    /\ u.open[s].gen = b.gen
    /\ u.open[s].masked = mask

(* The rest of openBlockFor: slot k is bound (bindToFrame), emptied and opened. *)
openSlot(u, s, k, mask) ==
    [u EXCEPT !.open[s] = [slot |-> k, gen |-> b.gen, source |-> s, masked |-> mask,
                           stale |-> FALSE, samples |-> <<>>]]

(* The sample under the cursor, with what was true when it was staged. *)
Staged ==
    [id |-> spent.samples + 1, gen |-> b.gen, session |-> w.session]

(* The rest of stage(): the sample is stored, and a full block or one opened
   before the last display tick is flushed. *)
storeSample(u, s, mask) ==
    LET v == [u EXCEPT !.open[s].samples = Append(@, Staged)]
    IN  IF Len(v.open[s].samples) >= SampleCap \/ v.open[s].stale THEN flush(v, s, mask) ELSE v

(* Bound: the samples of a behaviour. *)
MoreSamples(s) == s \in spent.scope.sources /\ spent.samples < spent.scope.samples

(* A captured frame of source s is parsed (routeFrames drops it when paused). *)
OnFrame(s) ==
    /\ b.pc = "idle" /\ MoreSamples(s)
    /\ link.connected \/ b.lastConnected
    /\ ~link.paused
    /\ b' = [b EXCEPT !.pc = "announce",
                      !.staging = [source |-> s, masked |-> FALSE, flush |-> FALSE]]
    /\ UNCHANGED <<link, w, layouts, g, shown, captured, spent>>

(* Mutant: the open block is left to stage(), which flushes it masked. *)
RepublishKeepsOpen(s, mask) ==
    /\ b.pc = "idle" /\ MoreSamples(s)
    /\ b' = [b EXCEPT !.pc = "announce",
                      !.staging = [source |-> s, masked |-> mask, flush |-> TRUE]]
    /\ UNCHANGED <<link, w, layouts, g, shown, captured, spent>>

(* emitRepublishedFrame up to the call of stage(): what is open goes out
   first, under the mask it was captured with. *)
emitRepublishedFrame(s, mask) ==
    /\ b.pc = "idle" /\ MoreSamples(s)
    /\ w' = flush(w, s, FALSE)
    /\ b' = [b EXCEPT !.pc = "announce",
                      !.staging = [source |-> s, masked |-> mask, flush |-> TRUE]]
    /\ UNCHANGED <<link, layouts, g, shown, captured, spent>>

(* stage(): announceStructure. *)
AnnounceStructure ==
    LET s == b.staging.source
    IN  /\ b.pc = "announce"
        /\ layouts' = IF s \in b.published THEN layouts
                      ELSE ensureStructurePublished(layouts, {s}, b.gen)
        /\ b' = [b EXCEPT !.pc = "store", !.published = @ \cup {s}]
        /\ UNCHANGED <<link, w, g, shown, captured, spent>>

(* stage() after the announcement; a republished sample is flushed at once. *)
StoreSample ==
    LET s    == b.staging.source
        mask == b.staging.masked
        done(u) == IF b.staging.flush THEN flush(u, s, mask) ELSE u
        u0   == IF reusable(w, s, mask) THEN w ELSE flush(w, s, mask)
        Stored ==
            /\ captured' = IF mask THEN captured ELSE [captured EXCEPT ![s] = Append(@, Staged)]
            /\ spent' = [spent EXCEPT !.samples = @ + 1]
    IN  /\ b.pc = "store"
        /\ \/ /\ reusable(w, s, mask)
              /\ w' = done(storeSample(w, s, mask))
              /\ Stored
           \/ /\ ~reusable(w, s, mask)
              /\ \E k \in claimSlot(u0) :
                   w' = done(storeSample(openSlot(u0, s, k, mask), s, mask))
              /\ Stored
           \/ /\ ~reusable(w, s, mask) /\ claimSlot(u0) = {}
              /\ w' = [u0 EXCEPT !.starved = TRUE]
              /\ UNCHANGED <<captured, spent>>
        /\ b' = [b EXCEPT !.pc = "idle", !.staging = NoStaging]
        /\ UNCHANGED <<link, layouts, g, shown>>

-----------------------------------------------------------------------------
(* Calls posted to the processing thread *)

(* flushOpenBlocks, posted by every display tick. *)
flushOpenBlocks ==
    /\ b' = flushAll([b EXCEPT !.inbox = Tail(@)], "idle")
    /\ UNCHANGED <<link, w, layouts, g, shown, captured, spent>>

(* forgetPublishedStructures. *)
forgetPublishedStructures ==
    /\ b' = [b EXCEPT !.inbox = Tail(@), !.published = {}]
    /\ UNCHANGED <<link, w, layouts, g, shown, captured, spent>>

(* onConnectedChanged, then onPausedChanged: each compares a mirror with what it
   saw last. *)
onConnectedChanged ==
    LET x == [b EXCEPT !.inbox = Tail(@), !.lastConnected = link.connected]
    IN  /\ b' = IF link.connected = b.lastConnected THEN [x EXCEPT !.pc = "paused"]
                ELSE emitSessionBoundary(x, "edge")
        /\ UNCHANGED <<link, w, layouts, g, shown, captured, spent>>

(* After the flush; a project of several sources announces all of them. *)
LinkBoundary ==
    LET all == b.lastConnected /\ Cardinality(spent.scope.sources) > 1
        x   == [invalidateFramePool(b) EXCEPT !.pc = "paused"]
    IN  /\ b.pc = "edge"
        /\ w' = Boundary(w)
        /\ b' = [x EXCEPT !.published = IF all THEN spent.scope.sources ELSE @]
        /\ layouts' = IF all THEN ensureStructurePublished(layouts, spent.scope.sources, x.gen)
                      ELSE layouts
        /\ UNCHANGED <<link, g, shown, captured, spent>>

onPausedChanged ==
    /\ b.pc = "paused"
    /\ b' = IF link.paused = b.lastPaused THEN [b EXCEPT !.pc = "idle"]
            ELSE emitSessionBoundary([b EXCEPT !.lastPaused = link.paused], "pause")
    /\ UNCHANGED <<link, w, layouts, g, shown, captured, spent>>

PauseBoundary ==
    /\ b.pc = "pause"
    /\ w' = Boundary(w)
    /\ b' = [b EXCEPT !.pc = "idle"]
    /\ UNCHANGED <<link, layouts, g, shown, captured, spent>>

(* syncFromProjectModel on its own thread: parked until the GUI thread hands
   over the project. *)
syncFromProjectModel ==
    /\ b' = [b EXCEPT !.inbox = Tail(@), !.pc = "collect"]
    /\ UNCHANGED <<link, w, layouts, g, shown, captured, spent>>

HandlePosted ==
    /\ b.pc = "idle" /\ b.inbox # <<>>
    /\ \/ Head(b.inbox) = "flush" /\ flushOpenBlocks
       \/ Head(b.inbox) = "forget" /\ forgetPublishedStructures
       \/ Head(b.inbox) = "link" /\ onConnectedChanged
       \/ Head(b.inbox) = "sync" /\ syncFromProjectModel

(* applyProjectSnapshot: the new layouts wait for their first block; the
   dashboard is told through its event queue (jsonFileMapChanged). *)
applyProjectSnapshot ==
    /\ b.pc = "apply"
    /\ b' = [invalidateFramePool(b) EXCEPT !.pc = "idle"]
    /\ g' = [g EXCEPT !.inbox = Append(@, "mapChanged")]
    /\ UNCHANGED <<link, w, layouts, shown, captured, spent>>

-----------------------------------------------------------------------------
(* The GUI thread between ticks *)

(* collectProjectSnapshot, run on the GUI thread for the parked builder. *)
collectProjectSnapshot ==
    /\ g.pc = "idle" /\ b.pc = "collect"
    /\ b' = [b EXCEPT !.pc = "apply"]
    /\ UNCHANGED <<link, w, layouts, g, shown, captured, spent>>

(* notifyConnectedStateChanged: connectedChanged() refreshes the accepting
   flag at once and queues the reset; then the bus updates the mirrors and
   posts to the builder. *)
LinkChanges ==
    /\ g.pc = "idle" /\ spent.edges < spent.scope.edges
    /\ QuickReconnect \/ link.connected \/ g.inbox = <<>>
    /\ link' = [link EXCEPT !.connected = ~@]
    /\ g' = [g EXCEPT !.inbox = Append(@, "maybeReset")]
    /\ b' = [b EXCEPT !.inbox = Append(@, "link")]
    /\ spent' = [spent EXCEPT !.edges = @ + 1]
    /\ UNCHANGED <<w, layouts, shown, captured>>

(* ConnectionManager::setPaused. *)
setPaused ==
    /\ g.pc = "idle" /\ spent.edges < spent.scope.edges
    /\ link.paused \/ link.connected
    /\ link' = [link EXCEPT !.paused = ~@]
    /\ b' = [b EXCEPT !.inbox = Append(@, "link")]
    /\ spent' = [spent EXCEPT !.edges = @ + 1]
    /\ UNCHANGED <<w, layouts, g, shown, captured>>

(* A licence transition or a new transform library re-derives the project. *)
RequestSync ==
    /\ g.pc = "idle" /\ spent.syncs < spent.scope.syncs
    /\ b' = [b EXCEPT !.inbox = Append(@, "sync")]
    /\ spent' = [spent EXCEPT !.syncs = @ + 1]
    /\ UNCHANGED <<link, w, layouts, g, shown, captured>>

(* Dashboard::resetData(true): the widget model goes, the generations stay,
   and the builder is asked to announce again. *)
resetData ==
    /\ g' = [g EXCEPT !.inbox = Tail(@), !.layoutValid = FALSE, !.tables = {}]
    /\ b' = [b EXCEPT !.inbox = Append(@, "forget")]

(* The two queued slots of connectSessionResets. *)
HandleQueued ==
    /\ g.pc = "idle" /\ g.inbox # <<>>
    /\ \/ Head(g.inbox) = "maybeReset" /\ ~link.connected /\ resetData
       \/ /\ Head(g.inbox) = "maybeReset" /\ link.connected
          /\ g' = [g EXCEPT !.inbox = Tail(@)] /\ UNCHANGED b
       \/ /\ Head(g.inbox) = "mapChanged"
          /\ g' = [g EXCEPT !.inbox = Tail(@), !.tables = {}] /\ UNCHANGED b
    /\ UNCHANGED <<link, w, layouts, shown, captured, spent>>

-----------------------------------------------------------------------------
(* The display tick *)

(* bumpFlushEpoch: every open block was opened in an earlier epoch. *)
bumpFlushEpoch(u) ==
    [u EXCEPT !.open = [s \in Sources |-> IF @[s] = NoBlock THEN NoBlock
                                          ELSE [@[s] EXCEPT !.stale = TRUE]]]

(* Mutant: a quiet source is left to its next frame. *)
TickWithoutFlush ==
    /\ g.pc = "idle" /\ Len(b.inbox) < MaxPosted
    /\ w' = bumpFlushEpoch(w)
    /\ g' = [g EXCEPT !.pc = "layouts"]
    /\ UNCHANGED <<link, b, layouts, shown, captured, spent>>

(* uiTimeout (wireDisplayTickHooks): the flush epoch moves past every open
   block, flushOpenBlocks is posted, and onDisplayTick starts. *)
uiTimeout ==
    /\ g.pc = "idle" /\ Len(b.inbox) < MaxPosted
    /\ w' = bumpFlushEpoch(w)
    /\ b' = [b EXCEPT !.inbox = Append(@, "flush")]
    /\ g' = [g EXCEPT !.pc = "layouts"]
    /\ UNCHANGED <<link, layouts, shown, captured, spent>>

(* One turn of drainStructureSnapshots with applyStructureSnapshot: the widget
   model is rebuilt for every source whose layout is known. *)
DrainStructure ==
    LET l == Head(layouts)
    IN  /\ g.pc = "layouts" /\ layouts # <<>>
        /\ layouts' = Tail(layouts)
        /\ g' = IF ~link.connected THEN g
                ELSE [g EXCEPT !.gen[l.source] = l.gen, !.tables = @ \cup {l.source},
                               !.layoutValid = TRUE]
        /\ UNCHANGED <<link, b, w, shown, captured, spent>>

(* The structure ring was empty: on to the blocks. *)
StructuresDrained ==
    /\ g.pc = "layouts" /\ layouts = <<>>
    /\ g' = [g EXCEPT !.pc = "blocks"]
    /\ UNCHANGED <<link, b, w, layouts, shown, captured, spent>>

(* DashboardIngest::applyBlock: a block of another
   generation, or of a source without push table, is dropped. *)
applyBlock(block) ==
    IF /\ g.layoutValid /\ link.connected
       /\ g.gen[block.source] = block.gen
       /\ block.source \in g.tables
    THEN [shown EXCEPT ![block.source] = Last(block.samples)] ELSE shown

(* One turn of drainBlockRing: past the time budget a block is only kept as
   the newest one, while the reference to the previous one is still held. *)
DrainBlock ==
    LET block == Head(w.blocks)
    IN  /\ g.pc = "blocks" /\ w.blocks # <<>> /\ g.drained < BlockRingSize
        /\ w' = [w EXCEPT !.blocks = Tail(@)]
        /\ \/ /\ g.over
              /\ g' = [g EXCEPT !.pc = "keep", !.block = block, !.drained = @ + 1]
              /\ UNCHANGED shown
           \/ /\ ~g.over
              /\ \E late \in IF (g.drained + 1) % BudgetCheck = 0 THEN BOOLEAN ELSE {FALSE} :
                   g' = [g EXCEPT !.block = block, !.over = late, !.drained = @ + 1]
              /\ shown' = applyBlock(block)
        /\ UNCHANGED <<link, b, layouts, captured, spent>>

KeepNewest ==
    /\ g.pc = "keep"
    /\ g' = [g EXCEPT !.pc = "blocks", !.newest = g.block]
    /\ UNCHANGED <<link, b, w, layouts, shown, captured, spent>>

(* The end of drainBlockRing: the newest discarded block is shown after all,
   and the references go. *)
BlocksDrained ==
    /\ g.pc = "blocks" /\ (w.blocks = <<>> \/ g.drained = BlockRingSize)
    /\ shown' = IF g.newest = NoBlock THEN shown ELSE applyBlock(g.newest)
    /\ g' = [g EXCEPT !.pc = "idle", !.block = NoBlock, !.newest = NoBlock, !.over = FALSE,
                      !.drained = 0]
    /\ UNCHANGED <<link, b, w, layouts, captured, spent>>

-----------------------------------------------------------------------------
Builder ==
    \/ \E s \in Sources : OnFrame(s) \/ \E mask \in BOOLEAN : emitRepublishedFrame(s, mask)
    \/ AnnounceStructure \/ StoreSample \/ HandlePosted \/ FlushNext \/ LinkBoundary
    \/ onPausedChanged \/ PauseBoundary \/ applyProjectSnapshot

Gui ==
    \/ collectProjectSnapshot \/ LinkChanges \/ setPaused \/ RequestSync \/ HandleQueued
    \/ uiTimeout \/ DrainStructure \/ StructuresDrained \/ DrainBlock \/ KeepNewest
    \/ BlocksDrained

Next == Builder \/ Gui

Spec == Init /\ [][Next]_vars

-----------------------------------------------------------------------------
(* Properties *)

OpenSamples(s) == IF w.open[s] = NoBlock \/ w.open[s].masked THEN <<>>
                  ELSE w.open[s].samples

(* A slot the builder writes is referenced by nobody else: not by another
   source, not by the ring and not by the dashboard, and a slot is queued once. *)
SlotsAreExclusive ==
    LET queued == [i \in DOMAIN w.blocks |-> w.blocks[i].slot]
        held   == SlotsOf({g.block, g.newest})
    IN  /\ IsInjective(queued)
        /\ Range(queued) \cap held = {}
        /\ \A s \in Sources : w.open[s] # NoBlock =>
              /\ w.open[s].slot \notin Range(queued) \cup held
              /\ w.open[s].slot \notin SlotsOf({w.open[t] : t \in Sources \ {s}})

SamplesOf(entries) == [i \in DOMAIN entries |-> entries[i].sample]

(* Each source's recording, followed by what its open block still holds, is
   exactly what was captured for it, in order: no sample is lost, repeated or
   recorded although it was masked. *)
RecordingIsExact ==
    \A s \in Sources :
        SamplesOf(w.recorded[s]) \o OpenSamples(s) = captured[s]

(* A session boundary separates the samples staged before it from the ones
   staged after it: a file closed at the boundary got all of its samples. *)
SamplesStayInTheirSession ==
    \A s \in Sources : \A i \in DOMAIN w.recorded[s] :
        w.recorded[s][i].sample.session = w.recorded[s][i].session

(* A widget only moves forward in time, and only to samples that were staged
   under the layout the dashboard holds for their source. *)
DisplayFollowsLayout ==
    [][\A s \in Sources : shown'[s] # shown[s] =>
          shown'[s].id > shown[s].id /\ shown'[s].gen = g.gen[s]]_vars

(* With a slot per ring place, per source and two for the dashboard's hands,
   staging never finds the pool exhausted. *)
StagingNeverStarves ==
    Cardinality(Slots) >= BlockRingSize + Cardinality(spent.scope.sources) + 2 => ~w.starved

(* Nothing is under way between the two threads. *)
Quiet ==
    /\ b.pc = "idle" /\ b.inbox = <<>> /\ g.pc = "idle" /\ g.inbox = <<>> /\ layouts = <<>>

(* ensureStructurePublished announces a layout once per generation "so the
   dashboard reconfigures before values for the new layout arrive": once all
   is quiet, the dashboard can show every source marked as announced. *)
AnnouncedLayoutIsHeld ==
    Quiet /\ link.connected =>
        \A s \in b.published : g.layoutValid /\ g.gen[s] = b.gen /\ s \in g.tables

(* A sample never waits in an open block for its source's next frame: a block
   the display tick found open has a flush on its way that will publish it. *)
OpenBlocksArePublished ==
    \A s \in Sources :
        w.open[s] # NoBlock /\ w.open[s].stale => "flush" \in Range(b.inbox) \/ s \in b.rest
=============================================================================
