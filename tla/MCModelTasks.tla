---------------------------- MODULE MCModelTasks ----------------------------
(* Small instances of ModelTaskSystem for TLC. *)
EXTENDS ModelTaskSystem

CONSTANTS m1, x1, x2
=============================================================================
