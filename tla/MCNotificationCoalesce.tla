------------------------ MODULE MCNotificationCoalesce ------------------------
(* Instances of NotificationCoalesce for TLC. *)
EXTENDS NotificationCoalesce
=============================================================================
