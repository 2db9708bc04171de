------------------------- MODULE MCNotificationInbox -------------------------
(***************************************************************************)
(* Model-checking instance of NotificationInbox: pages of one row, so that *)
(* a scan of two tasks turns the page.                                     *)
(***************************************************************************)
EXTENDS NotificationInbox
=============================================================================
