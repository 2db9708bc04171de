----------------------------- MODULE MCFocusTimers -----------------------------
(* Two tasks, of which one takes a second and the other three. *)
EXTENDS FocusTimers, TLC
CONSTANTS t1, t2
MCEst == (t1 :> 1) @@ (t2 :> 3)
================================================================================
