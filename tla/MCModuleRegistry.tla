-------------------------- MODULE MCModuleRegistry --------------------------
(* Two registrations, an entry that cannot be used and a deletion.         *)
EXTENDS ModuleRegistry
=============================================================================
