--------------------------- MODULE MCNotifications ---------------------------
(* Instances of Notifications for TLC. *)
EXTENDS Notifications

CONSTANTS d1, d2, w1, w2
=============================================================================
