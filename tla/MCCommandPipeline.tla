------------------------- MODULE MCCommandPipeline -------------------------
(***************************************************************************)
(* Two commands that between them carry an actor, come from an external    *)
(* caller, notify and publish; two replicas with one connection each.      *)
(***************************************************************************)
EXTENDS CommandPipeline

CONSTANTS c1, c2

MCCommands == {c1, c2}
OnlyFirst  == {c1}
OnlySecond == {c2}
=============================================================================
