---------------------------- MODULE MCEnrollment ----------------------------
(***************************************************************************)
(* Model-checking instance of Enrollment: three edits of two repetitions,  *)
(* enough for one edit to be saved, one to be stale and one to be open.    *)
(***************************************************************************)
EXTENDS Enrollment
=============================================================================
