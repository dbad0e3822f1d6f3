----------------------------- MODULE MCTaskTree -----------------------------
(* Trees to run the task engine on. *)
EXTENDS TaskTree

(* A tree from its kinds and child lists. *)
Tree(kinds, lists) ==
    LET last[n \in DOMAIN kinds] ==
            IF lists[n] = <<>> THEN n ELSE last[lists[n][Len(lists[n])]]
    IN  [kind     |-> kinds,
         children |-> lists,
         last     |-> last,
         parent   |-> [n \in DOMAIN kinds |->
                         IF n = 1 THEN 1
                         ELSE CHOOSE m \in DOMAIN kinds : \E i \in DOMAIN lists[m] : lists[m][i] = n]]

(* PublisherWorker::buildReconnectFlow of the MQTT publisher. *)
ReconnectTree ==
    Tree(<<"sequential", "timeout", "signal", "invoke", "retry", "sequential", "invoke",
           "timeout", "signal">>,
         <<<<2, 4, 5>>, <<3>>, <<>>, <<>>, <<6>>, <<7, 8>>, <<>>, <<9>>, <<>>>>)

(* ConnectionDiagnostics::buildProbeTree: two flows of two bounded waits each. *)
ProbeTree ==
    Tree(<<"timeout", "sequential", "sequential", "timeout", "signal", "timeout", "signal",
           "timeout", "signal">>,
         <<<<2>>, <<3, 8>>, <<4, 6>>, <<5>>, <<>>, <<7>>, <<>>, <<9>>, <<>>>>)

(* Every combinator at once: a retried deadline over parallel branches. *)
RaceTree ==
    Tree(<<"retry", "timeout", "parallel", "signal", "retry", "signal", "sequential", "invoke",
           "signal">>,
         <<<<2>>, <<3>>, <<4, 5, 7>>, <<>>, <<6>>, <<>>, <<8, 9>>, <<>>, <<>>>>)

MCTrees == {ReconnectTree, ProbeTree, RaceTree}
=============================================================================
