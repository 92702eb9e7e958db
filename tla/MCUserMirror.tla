---------------------------- MODULE MCUserMirror -----------------------------
(* A person who gets another name and other roles.                         *)
EXTENDS UserMirror

MCIdentity == <<[name |-> "ana", roles |-> {"user"}],
                [name |-> "eva", roles |-> {"external-user"}]>>
=============================================================================
