-------------------------- MODULE MCNotifications ---------------------------
(***************************************************************************)
(* A small instance of Notifications for TLC.                              *)
(***************************************************************************)
EXTENDS Notifications

CONSTANTS j1, j2, w1, w2
=============================================================================
