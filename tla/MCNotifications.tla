--------------------------- MODULE MCNotifications ---------------------------
(***************************************************************************)
(* Instances of Notifications for TLC.  No symmetry: liveness is checked.  *)
(***************************************************************************)
EXTENDS Notifications, TLC
=============================================================================
