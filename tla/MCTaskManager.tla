---------------------------- MODULE MCTaskManager ----------------------------
(* The symmetry of TaskManager, for the runs that check safety.             *)
EXTENDS TaskManager, TLC

Alike == Permutations(Requests) \cup Permutations(Connections) \cup Permutations(Workers)
=============================================================================
