------------------------- MODULE MCRequirementMails --------------------------
(* Two people, one of whom may be the actor of a command.                  *)
EXTENDS RequirementMails, TLC

CONSTANTS ana, eva

Say(k, a, l, people) == [kind |-> k, actor |-> a, level |-> l, people |-> people]
MCCommands ==
  {Say("new", ana, "public", {ana, eva}), Say("comment", ana, "public", {}),
   Say("comment", None, "internal", {}), Say("edit", eva, "internal", {}),
   Say("edit", None, "public", {}), Say("subscribe", None, None, {eva}),
   Say("subscribe", eva, None, {eva}), Say("unsubscribe", eva, None, {eva})}

\* Transactions differ in nothing but their name.
Symmetry == Permutations(Txs)
=============================================================================
