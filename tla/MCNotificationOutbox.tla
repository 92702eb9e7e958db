------------------------ MODULE MCNotificationOutbox ------------------------
(***************************************************************************)
(* Two replicas and two rows, of which the operator may have both or one   *)
(* claimed at a time.  Liveness is checked, so there is no symmetry.       *)
(***************************************************************************)
EXTENDS NotificationOutbox
=============================================================================
