----------------------------- MODULE MCConnections -----------------------------
(* Bounds of the Connections run: two devices of either kind. *)
EXTENDS Connections

Scope(first, second, connects, edits, switches) ==
    [kind |-> (0 :> first @@ 1 :> second), connects |-> connects, edits |-> edits,
     switches |-> switches]

MCScopes == {Scope("tcp", "tcp", 2, 1, 0), Scope("tcp", "serial", 2, 1, 1),
             Scope("serial", "tcp", 2, 1, 2)}
===============================================================================
