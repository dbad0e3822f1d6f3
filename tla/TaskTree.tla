------------------------------ MODULE TaskTree ------------------------------
(***************************************************************************)
(* The asynchronous task engine, core/Core/Async/TaskTree.cpp, with the    *)
(* attempt limit of RetryPolicy.cpp.                                       *)
(*                                                                         *)
(* A tree of tasks runs on one thread.  An event of that thread (a signal  *)
(* a leaf waits for, a timer, a call of the runner) causes a cascade:      *)
(* finished() is a direct connection, so a child's outcome climbs the      *)
(* tree, starts siblings and cancels others before the event returns.  The *)
(* cascade is a stack of calls: each step takes the innermost one and puts *)
(* in its place the calls it makes, with what the caller does after them.  *)
(***************************************************************************)
EXTENDS Integers, Sequences, FiniteSets

CONSTANTS
    Trees,          \* trees run, numbered as a walk from the root meets the tasks
    MaxAttempts,    \* RetryPolicy::maxAttempts
    MaxRuns         \* bound: calls of TaskRunner::run

Wrappers == {"timeout", "retry"}
Groups   == {"sequential", "parallel"}
Leaves   == {"signal", "invoke"}
Kinds    == Groups \union Wrappers \union Leaves

(* A task's subtree is the tasks from the task to last: a walk meets a task, then
   the subtrees of its children in order.  Every task is adopted once. *)
IsTree(t) ==
    LET size  == t.last[1]
        nodes == 1..size
    IN  /\ size \in Nat \ {0}
        /\ t.kind \in [nodes -> Kinds] /\ t.children \in [nodes -> Seq(nodes)]
        /\ t.parent \in [nodes -> nodes] /\ t.last \in [nodes -> nodes]
        /\ \A n \in nodes :
              /\ n <= t.last[n]
              /\ \A i \in 1..Len(t.children[n]) :
                    LET c == t.children[n][i]
                    IN  /\ t.parent[c] = n /\ n < c /\ t.last[c] <= t.last[n]
                        /\ \A j \in i + 1..Len(t.children[n]) : t.last[c] < t.children[n][j]
              /\ n # 1 => \E i \in 1..Len(t.children[t.parent[n]]) : t.children[t.parent[n]][i] = n
              /\ \A m \in n + 1..t.last[n] : t.parent[m] >= n /\ t.last[m] <= t.last[n]
              /\ t.kind[n] \in Wrappers => Len(t.children[n]) = 1
              /\ t.kind[n] \in Leaves => t.children[n] = <<>>

ASSUME MaxAttemptsAssumption == MaxAttempts \in Nat \ {0}
ASSUME TreesAssumption == \A t \in Trees : IsTree(t)

VARIABLES
    tree,       \* the tree that TaskRunner::m_root holds
    running,    \* per task: Task::m_running,
    done,       \*   Task::m_finished,
    said,       \*   history: the outcome reported in its latest run,
    cancelling, \*   Group::m_cancelling,
    index,      \*   SequentialGroup::m_index, from 1,
    pending,    \*   ParallelGroup::m_pending,
    expired,    \*   TimeoutTask::m_expired,
    attempt,    \*   RetryTask::m_attempt,
    timer,      \*   a deadline or a backoff is armed
    calls,      \* the calls in progress, the innermost last
    connected,  \* TaskRunner::m_rootConnection
    heard,      \* what the runner has emitted since the last call of run
    tripped,    \* an SS_ASSERT of the engine failed
    runs,       \* calls of run so far
    dropped     \* history: what run left alive, and told, of the last tree

wrappers == <<expired, attempt, timer>>
members  == <<running, done, said, cancelling, index, pending, wrappers>>
runner   == <<tree, connected, heard, runs, dropped>>
vars     == <<members, calls, tripped, runner>>

Outcomes  == {"Success", "Failure", "TimedOut", "Cancelled"}
Nodes     == 1..tree.last[1]
Root      == 1
kind(n)   == tree.kind[n]
childAt(n, i) == tree.children[n][i]
childCount(n) == Len(tree.children[n])
Child(n)  == childAt(n, 1)

All(v)    == [n \in Nodes |-> v]

shouldRetry(completed) == completed >= 1 /\ completed < MaxAttempts

-----------------------------------------------------------------------------
(* The stack of calls: op of task n; a loop over its children stands at child i,
   a report gives the outcome. *)

From(op, n, i)   == [op |-> op, at |-> n, i |-> i, outcome |-> "Nothing"]
Call(op, n)      == From(op, n, 1)
Says(n, outcome) == [op |-> "report", at |-> n, i |-> 1, outcome |-> outcome]

Top == calls[Len(calls)]

(* The innermost call is op of task n. *)
Called(op, n) == calls # <<>> /\ Top.op = op /\ Top.at = n

(* The innermost call goes on with these, the last of them first. *)
Makes(new) == calls' = SubSeq(calls, 1, Len(calls) - 1) \o new

Assert(ok) == tripped' = (tripped \/ ~ok)

-----------------------------------------------------------------------------
(* doStart of each kind of task. *)

invokeStart(n) ==
    /\ \E outcome \in {"Success", "Failure"} : Makes(<<Says(n, outcome)>>)
    /\ UNCHANGED <<tripped, index, pending, wrappers>>

(* A source that is gone fails the wait at once. *)
signalStart(n) ==
    /\ \E new \in {<<>>, <<Says(n, "Failure")>>} : Makes(new)
    /\ UNCHANGED <<tripped, index, pending, wrappers>>

sequentialStart(n) ==
    /\ index' = [index EXCEPT ![n] = 1]
    /\ Makes(IF childCount(n) = 0 THEN <<Says(n, "Success")>>
                                  ELSE <<Call("start", childAt(n, 1))>>)
    /\ UNCHANGED <<tripped, pending, wrappers>>

parallelStart(n) ==
    /\ pending' = [pending EXCEPT ![n] = childCount(n)]
    /\ Makes(IF childCount(n) = 0 THEN <<Says(n, "Success")>> ELSE <<Call("startAll", n)>>)
    /\ UNCHANGED <<tripped, index, wrappers>>

timeoutStart(n) ==
    /\ Assert(~timer[n])
    /\ expired' = [expired EXCEPT ![n] = FALSE]
    /\ timer' = [timer EXCEPT ![n] = TRUE]
    /\ Makes(<<Call("start", Child(n))>>)
    /\ UNCHANGED <<index, pending, attempt>>

(* beginAttempt after the attempts made, and what the caller asserts *)
beginAttempt(n, made, ok) ==
    LET free == ~running[Child(n)]
    IN  /\ Assert(ok /\ free)
        /\ attempt' = [attempt EXCEPT ![n] = IF free THEN made + 1 ELSE made]
        /\ Makes(IF free THEN <<Call("start", Child(n))>> ELSE <<>>)

retryStart(n) ==
    /\ beginAttempt(n, 0, ~timer[n])
    /\ timer' = [timer EXCEPT ![n] = FALSE]
    /\ UNCHANGED <<index, pending, expired>>

(* Task::start *)
start(n) ==
    /\ Called("start", n)
    /\ IF running[n]
       THEN /\ Assert(FALSE) /\ Makes(<<>>)
            /\ UNCHANGED <<running, done, said, index, pending, wrappers>>
       ELSE /\ running' = [running EXCEPT ![n] = TRUE]
            /\ done' = [done EXCEPT ![n] = FALSE]
            /\ said' = [said EXCEPT ![n] = "Nothing"]
            /\ \/ kind(n) = "invoke" /\ invokeStart(n)
               \/ kind(n) = "signal" /\ signalStart(n)
               \/ kind(n) = "sequential" /\ sequentialStart(n)
               \/ kind(n) = "parallel" /\ parallelStart(n)
               \/ kind(n) = "timeout" /\ timeoutStart(n)
               \/ kind(n) = "retry" /\ retryStart(n)
    /\ UNCHANGED <<cancelling, runner>>

(* The loop of ParallelGroup::doStart, from child i. *)
startAll(n) ==
    /\ Called("startAll", n)
    /\ LET i == Top.i
       IN  Makes(IF i > childCount(n) \/ ~running[n] THEN <<>>
                 ELSE <<From("startAll", n, i + 1), Call("start", childAt(n, i))>>)
    /\ UNCHANGED <<members, tripped, runner>>

-----------------------------------------------------------------------------
(* Cancelling. *)

(* Mutant: the sweep is not fenced. *)
CancelUnfenced(n, after, ok) ==
    /\ Assert(ok)
    /\ Makes(after \o <<Call("sweep", n)>>)
    /\ UNCHANGED cancelling

(* cancelChildren, what its caller does after it, and what the caller asserts *)
cancelChildren(n, after, ok) ==
    /\ Assert(ok /\ ~cancelling[n])
    /\ cancelling' = [cancelling EXCEPT ![n] = TRUE]
    /\ Makes(after \o (IF cancelling[n] THEN <<>> ELSE <<Call("sweep", n)>>))

(* The loop of cancelChildren, from child i; a child that does not run is left alone. *)
sweep(n) ==
    /\ Called("sweep", n)
    /\ LET i == Top.i
       IN  IF i > childCount(n)
           THEN cancelling' = [cancelling EXCEPT ![n] = FALSE] /\ Makes(<<>>)
           ELSE /\ Makes(<<From("sweep", n, i + 1), Call("cancel", childAt(n, i))>>)
                /\ UNCHANGED cancelling
    /\ UNCHANGED <<running, done, said, index, pending, wrappers, tripped, runner>>

(* doCancel of each kind of task, and what its caller does after it *)
groupCancel(n, after) ==
    /\ cancelChildren(n, after, TRUE)
    /\ UNCHANGED wrappers

wrapperCancel(n, after) ==
    /\ timer' = [timer EXCEPT ![n] = FALSE]
    /\ Makes(after \o <<Call("cancel", Child(n))>>)
    /\ UNCHANGED <<cancelling, expired, attempt, tripped>>

doCancel(n, after) ==
    /\ Makes(after)
    /\ UNCHANGED <<cancelling, wrappers, tripped>>

(* Task::cancel up to the return of doCancel *)
cancelTask(n) ==
    /\ Called("cancel", n)
    /\ IF ~running[n] THEN Makes(<<>>) /\ UNCHANGED <<cancelling, wrappers, tripped>>
       ELSE LET after == <<Call("cancelled", n)>>
            IN  \/ kind(n) \in Groups /\ groupCancel(n, after)
                \/ kind(n) \in Wrappers /\ wrapperCancel(n, after)
                \/ kind(n) \in Leaves /\ doCancel(n, after)
    /\ UNCHANGED <<running, done, said, index, pending, runner>>

(* Mutant: the task stops without an outcome. *)
CancelSilently(n) ==
    /\ Called("cancelled", n)
    /\ Makes(<<>>)
    /\ running' = [running EXCEPT ![n] = FALSE]
    /\ UNCHANGED <<done, said, cancelling, index, pending, wrappers, tripped, runner>>

(* Task::cancel, after doCancel *)
cancelled(n) ==
    /\ Called("cancelled", n)
    /\ Makes(IF running[n] THEN <<Says(n, "Cancelled")>> ELSE <<>>)
    /\ UNCHANGED <<members, tripped, runner>>

-----------------------------------------------------------------------------
(* An outcome climbs: reportFinished, then onChildFinished of the parent. *)

(* Mutant: the last child is never started. *)
SequentialStopsShort(n, outcome) ==
    LET next == index[n] + 1 IN
    /\ \/ outcome # "Success" /\ Makes(<<Says(n, outcome)>>) /\ UNCHANGED index
       \/ /\ outcome = "Success"
          /\ index' = [index EXCEPT ![n] = next]
          /\ Makes(IF next >= childCount(n) THEN <<Says(n, "Success")>>
                                            ELSE <<Call("start", childAt(n, next))>>)
    /\ UNCHANGED <<cancelling, pending, wrappers, tripped>>

sequentialChildFinished(n, outcome) ==
    LET next == index[n] + 1 IN
    /\ Assert(index[n] <= childCount(n))
    /\ \/ outcome # "Success" /\ Makes(<<Says(n, outcome)>>) /\ UNCHANGED index
       \/ /\ outcome = "Success"
          /\ index' = [index EXCEPT ![n] = next]
          /\ Makes(IF next > childCount(n) THEN <<Says(n, "Success")>>
                                           ELSE <<Call("start", childAt(n, next))>>)
    /\ UNCHANGED <<cancelling, pending, wrappers>>

(* Mutant: the group reports the failure and leaves its other children running. *)
ParallelLeavesSiblings(n, outcome) ==
    /\ pending' = [pending EXCEPT ![n] = @ - 1]
    /\ Makes(IF outcome # "Success" \/ pending[n] <= 1 THEN <<Says(n, outcome)>> ELSE <<>>)
    /\ UNCHANGED <<cancelling, index, wrappers, tripped>>

parallelChildFinished(n, outcome) ==
    /\ pending' = [pending EXCEPT ![n] = @ - 1]
    /\ \/ outcome # "Success" /\ cancelChildren(n, <<Says(n, outcome)>>, pending[n] > 0)
       \/ /\ outcome = "Success"
          /\ Assert(pending[n] > 0)
          /\ Makes(IF pending[n] <= 1 THEN <<Says(n, "Success")>> ELSE <<>>)
          /\ UNCHANGED cancelling
    /\ UNCHANGED <<index, wrappers>>

timeoutChildFinished(n, outcome) ==
    /\ \/ expired[n] /\ Makes(<<>>) /\ UNCHANGED timer
       \/ ~expired[n] /\ Makes(<<Says(n, outcome)>>) /\ timer' = [timer EXCEPT ![n] = FALSE]
    /\ UNCHANGED <<cancelling, index, pending, expired, attempt, tripped>>

(* Mutant: the backoff is not armed. *)
RetryNeverWaits(n, outcome) ==
    LET made == IF attempt[n] >= 1 THEN attempt[n] ELSE 1
        over == outcome \in {"Success", "Cancelled"} \/ ~shouldRetry(made)
    IN  /\ Assert(attempt[n] >= 1)
        /\ Makes(IF over THEN <<Says(n, outcome)>> ELSE <<>>)
        /\ attempt' = [attempt EXCEPT ![n] = IF outcome = "Success" THEN 0 ELSE made]
        /\ UNCHANGED <<cancelling, index, pending, expired, timer>>

retryChildFinished(n, outcome) ==
    LET made == IF attempt[n] >= 1 THEN attempt[n] ELSE 1
        over == outcome \in {"Success", "Cancelled"} \/ ~shouldRetry(made)
    IN  /\ Assert(attempt[n] >= 1)
        /\ \/ over /\ Makes(<<Says(n, outcome)>>) /\ UNCHANGED timer
           \/ ~over /\ Makes(<<>>) /\ timer' = [timer EXCEPT ![n] = TRUE]
        /\ attempt' = [attempt EXCEPT ![n] = IF outcome = "Success" THEN 0 ELSE made]
        /\ UNCHANGED <<cancelling, index, pending, expired>>

(* onChildFinished of the parent; a task that has stopped, or a group that unwinds,
   hears nothing. *)
childFinished(n, outcome) ==
    IF ~running[n] \/ cancelling[n]
    THEN Makes(<<>>) /\ UNCHANGED <<cancelling, index, pending, wrappers, tripped>>
    ELSE \/ kind(n) = "sequential" /\ sequentialChildFinished(n, outcome)
         \/ kind(n) = "parallel" /\ parallelChildFinished(n, outcome)
         \/ kind(n) = "timeout" /\ timeoutChildFinished(n, outcome)
         \/ kind(n) = "retry" /\ retryChildFinished(n, outcome)

(* onRootFinished, while the runner is connected *)
rootFinished(outcome) ==
    /\ heard' = IF connected THEN Append(heard, outcome) ELSE heard
    /\ Makes(<<>>)
    /\ UNCHANGED <<cancelling, index, pending, wrappers, tripped>>

(* Task::reportFinished *)
report(n) ==
    /\ Called("report", n)
    /\ LET outcome == Top.outcome
       IN  IF ~running[n] \/ done[n]
           THEN /\ Assert(FALSE) /\ Makes(<<>>)
                /\ UNCHANGED <<members, heard>>
           ELSE /\ running' = [running EXCEPT ![n] = FALSE]
                /\ done' = [done EXCEPT ![n] = TRUE]
                /\ said' = [said EXCEPT ![n] = outcome]
                /\ \/ n = Root /\ rootFinished(outcome)
                   \/ n # Root /\ childFinished(tree.parent[n], outcome) /\ UNCHANGED heard
    /\ UNCHANGED <<tree, connected, runs, dropped>>

-----------------------------------------------------------------------------
(* Events of the thread the tree runs on; an event ends before the next. *)

Idle      == calls = <<>>
Timed(k)  == {n \in Nodes : kind(n) = k /\ timer[n]}
Waiting   == {n \in Nodes : kind(n) = "signal" /\ running[n]}

Init ==
    /\ tree \in Trees
    /\ running = All(FALSE) /\ done = All(FALSE) /\ said = All("Nothing")
    /\ cancelling = All(FALSE) /\ index = All(0) /\ pending = All(0)
    /\ expired = All(FALSE) /\ attempt = All(0) /\ timer = All(FALSE)
    /\ calls = <<>>
    /\ connected = FALSE
    /\ heard = <<>>
    /\ tripped = FALSE
    /\ runs = 0
    /\ dropped = [alive |-> {}, told |-> 0]

(* Mutant: the old root is dropped without being cancelled. *)
DropOnly == calls' = <<Call("run", Root)>> /\ connected' = FALSE

(* stopRoot, and the rest of run: the outcome connection goes first, so nobody
   hears the cancel. *)
stopRoot == calls' = <<Call("run", Root), Call("cancel", Root)>> /\ connected' = FALSE

(* TaskRunner::run: the owner composes the tree afresh and starts it in the
   place of one that may still be in flight. *)
run ==
    /\ Idle /\ runs < MaxRuns
    /\ runs' = runs + 1
    /\ heard' = <<>>
    /\ stopRoot
    /\ UNCHANGED <<members, tripped, tree, dropped>>

(* The rest of TaskRunner::run, after stopRoot *)
runFresh ==
    /\ Called("run", Root)
    /\ dropped' = [alive |-> {n \in Nodes : running[n] \/ timer[n]}, told |-> Len(heard)]
    /\ running' = All(FALSE) /\ done' = All(FALSE) /\ said' = All("Nothing")
    /\ cancelling' = All(FALSE) /\ index' = All(0) /\ pending' = All(0)
    /\ expired' = All(FALSE) /\ attempt' = All(0) /\ timer' = All(FALSE)
    /\ connected' = TRUE
    /\ Makes(<<Call("start", Root)>>)
    /\ UNCHANGED <<tree, heard, tripped, runs>>

(* TaskRunner::cancel *)
cancel ==
    /\ Idle /\ running[Root]
    /\ calls' = <<Call("cancel", Root)>>
    /\ UNCHANGED <<members, tripped, runner>>

(* SignalTask::succeed and fail; the connections exist only while it runs. *)
fires(n) ==
    /\ Idle
    /\ \E outcome \in {"Success", "Failure"} : calls' = <<Says(n, outcome)>>
    /\ UNCHANGED <<members, tripped, runner>>

(* TimeoutTask::onExpired; a child that does not run is left alone. *)
onExpired(n) ==
    /\ Idle
    /\ timer' = [timer EXCEPT ![n] = FALSE]
    /\ IF running[n]
       THEN /\ expired' = [expired EXCEPT ![n] = TRUE]
            /\ calls' = <<Says(n, "TimedOut"), Call("cancel", Child(n))>>
       ELSE UNCHANGED <<expired, calls>>
    /\ UNCHANGED <<running, done, said, cancelling, index, pending, attempt, tripped, runner>>

(* Mutant: the wait ends and nothing is started. *)
BackoffForgets(n) ==
    /\ Idle
    /\ timer' = [timer EXCEPT ![n] = FALSE]
    /\ UNCHANGED <<running, done, said, cancelling, index, pending, expired, attempt, calls,
                   tripped, runner>>

(* RetryTask::onBackoffElapsed *)
onBackoffElapsed(n) ==
    /\ Idle
    /\ timer' = [timer EXCEPT ![n] = FALSE]
    /\ IF running[n] THEN beginAttempt(n, attempt[n], TRUE) ELSE UNCHANGED <<attempt, calls, tripped>>
    /\ UNCHANGED <<running, done, said, cancelling, index, pending, expired, runner>>

clockFires ==
    \/ \E n \in Timed("timeout") : onExpired(n)
    \/ \E n \in Timed("retry") : onBackoffElapsed(n)

(* One step of the cascade. *)
cascade ==
    \/ runFresh
    \/ \E n \in Nodes : \/ start(n) \/ startAll(n) \/ report(n)
                        \/ cancelTask(n) \/ sweep(n) \/ cancelled(n)

Next == run \/ cancel \/ (\E n \in Waiting : fires(n)) \/ clockFires \/ cascade

Spec     == Init /\ [][Next]_vars

(* An event goes on to its end and the clock delivers what is due; signals and
   the owner promise nothing. *)
FairSpec == Spec /\ WF_vars(cascade) /\ WF_vars(clockFires)

-----------------------------------------------------------------------------
(* Properties. *)

(* Whatever the order of signals, deadlines, backoffs and owner calls, no
   SS_ASSERT of the engine fails: no task is started while it runs or reports
   twice (the emit-once discipline of reportFinished), no sweep nests, no group
   counts below zero or past its last child, no timer is armed twice. *)
EmitOnce == ~tripped

(* A finished task leaves nothing behind, at any point of a cascade: no child
   runs and no deadline or backoff is armed below or at a task that is not
   running itself. *)
NothingOutlivesItsParent ==
    \A n \in Nodes :
        /\ timer[n] => running[n]
        /\ running[n] /\ n # Root => running[tree.parent[n]]

(* Between events every running task still waits for something that will make
   it report: a sequence for exactly its current child, a parallel group for
   exactly the children it counts as pending, a deadline for its child and its
   timer, a retry for its child or its backoff, never both. *)
EveryTaskAwaitsSomething ==
    Idle => \A n \in Nodes : running[n] =>
        LET live == {i \in 1..childCount(n) : running[childAt(n, i)]}
        IN  CASE kind(n) = "sequential" -> live = {index[n]}
              [] kind(n) = "parallel"   -> live # {} /\ Cardinality(live) = pending[n]
              [] kind(n) = "timeout"    -> timer[n] /\ live = {1}
              [] kind(n) = "retry"      -> timer[n] # (live = {1})
              [] kind(n) = "invoke"     -> FALSE
              [] kind(n) = "signal"     -> TRUE

(* The owner of the runner hears exactly one outcome for a run that was not
   superseded, and hears it when the root stops. *)
OwnerHearsOnce ==
    Idle /\ runs > 0 => Len(heard) = (IF running[Root] THEN 0 ELSE 1)

(* Success is never reported early: a group that succeeded has only children
   that succeeded in the same run, a wrapper's last attempt succeeded. *)
SuccessIsEarned ==
    \A n \in Nodes : said[n] = "Success" =>
        \A i \in 1..childCount(n) : said[childAt(n, i)] = "Success"

(* A superseded tree is silent and dead: run() leaves no task running and no
   timer armed in the tree it drops, and tells the owner nothing about it. *)
SupersededTreeIsDead == dropped.alive = {} /\ dropped.told = 0

(* A tree whose waits all sit under a deadline ends, whatever the signals do. *)
EveryRunEnds == running[Root] ~> ~running[Root]
=============================================================================
