---------------------------- MODULE MCTaskBudget ----------------------------
(***************************************************************************)
(* Model-checking instance of TaskBudget.                                  *)
(***************************************************************************)
EXTENDS TaskBudget, TLC

\* The handlers, and the task ids, are interchangeable.
Symmetry == Permutations(Handler) \union Permutations(Task)

=============================================================================
