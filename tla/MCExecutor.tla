----------------------------- MODULE MCExecutor -----------------------------
(* Two batches of up to three calls of every kind on a pool of two: tasks    *)
(* queue up behind busy workers, and the pool is used again.                 *)
EXTENDS Executor
=============================================================================
