--------------------------- MODULE MCCommandAccess ---------------------------
(* A person who is internal, then external too under a new name; a         *)
(* requirement of one project, a task of another, and a file with a link   *)
(* to each.                                                                *)
EXTENDS CommandAccess

MCIdentity == <<[name |-> "ana", roles |-> {"user"}],
                [name |-> "eva", roles |-> {"user", "external-user"}]>>
MCProjects           == {1, 2}
MCRequirementProject == <<1>>
MCObjectiveProject   == <<2>>
MCRequirementOf      == <<1>>
MCObjectiveOf        == <<1>>
MCAttachments        == <<[type |-> "requirement", entity |-> 1, file |-> 1],
                          [type |-> "objective_comment", entity |-> 1, file |-> 1]>>
MCRequests ==
  {[channel |-> "envelope", command |-> "files.{fileId}.request-download", id |-> 1],
   [channel |-> "direct", command |-> "attachments.{id}.delete", id |-> 2],
   [channel |-> "envelope", command |-> "requirements.{id}.comment", id |-> 1],
   [channel |-> "exempt", command |-> "attachments.{id}.delete", id |-> 1]}
=============================================================================
