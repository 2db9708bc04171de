--------------------------- MODULE MCTaskLifecycle ---------------------------
(***************************************************************************)
(* Model-checking instance of TaskLifecycle: a pool that four actions fill. *)
(***************************************************************************)
EXTENDS TaskLifecycle
=============================================================================
