----------------------- MODULE MCRequirementLifecycle -----------------------
(* Small instances of RequirementLifecycle for TLC.                        *)
EXTENDS RequirementLifecycle, TLC

CONSTANTS t1, t2, t3

MCStates == {"analisis", "planificacion", "resuelto", "cancelado"}
MCTypes == {"incidencia"}
MCTexts == {Null, "", "text"}
TextOrNull == {Null, "text"}

\* The transactions differ in nothing but their name.
Symmetry == Permutations(Writers)
=============================================================================
