--------------------------- MODULE MCRequestTasks ---------------------------
(* Constants and symmetry for checking RequestTasks with TLC. *)
EXTENDS RequestTasks, TLC

BufferSymmetry == Permutations(Buffers)
=============================================================================
