---------------------------- MODULE MCPipelineHost ----------------------------
(* Scopes for the cross-thread runs. *)
EXTENDS PipelineHost

Scope(edits, asks, commands, chunks, rs, hang, quit) ==
    [edits |-> edits, asks |-> asks, commands |-> commands, chunks |-> chunks,
     readers |-> rs, hang |-> hang, quit |-> quit]

(* Edits and marshals against scripts; a quit that reaches a wait; a quit that
   joins a busy thread with devices attached. *)
MCScopes ==
    {Scope(3, 0, 2, 1, 1, FALSE, "none"),
     Scope(2, 1, 2, 1, 1, FALSE, "none"),
     Scope(1, 2, 1, 1, 1, FALSE, "direct"),
     Scope(2, 1, 1, 1, 1, FALSE, "direct"),
     Scope(1, 1, 1, 2, 2, TRUE, "engine")}

(* One edit against one script. *)
MCRace == {Scope(1, 0, 1, 1, 1, FALSE, "none")}
=============================================================================
