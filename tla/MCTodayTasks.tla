------------------------------ MODULE MCTodayTasks ------------------------------
(* Two seeded tasks, one of them a zombie that is overdue, and one to be created. *)
EXTENDS VoiceCapture

CONSTANTS t1, t2, t3
MCEst == [t \in Task |-> IF t = t2 THEN 1 ELSE 2]
================================================================================
