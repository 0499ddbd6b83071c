--------------------------- MODULE MCNotifications ---------------------------
(* Sessions as model values for Notifications. *)
EXTENDS Notifications

CONSTANTS page, window
=============================================================================
