-------------------------- MODULE MCBlockPipeline --------------------------
(* Scopes for the hand-off runs. *)
EXTENDS BlockPipeline

CONSTANT s1, s2

Scope(sources, samples, edges, syncs) ==
    [sources |-> sources, samples |-> samples, edges |-> edges, syncs |-> syncs]

(* A link that comes and goes while the project is edited; a stream of frames
   that fills the pool; two sources of one project. *)
MCScopes ==
    {Scope({s1}, 2, 2, 1), Scope({s1}, 4, 1, 0), Scope({s1, s2}, 2, 2, 0)}

(* Two samples and one edit after the link came up. *)
MCEdit == {Scope({s1}, 2, 1, 1)}
=============================================================================
