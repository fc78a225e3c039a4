---------------------------- MODULE MCThreadPool ----------------------------
(* Three workers: one can run while another sleeps and a third is woken.   *)
(* No symmetry: the run checks liveness too.                               *)
EXTENDS ThreadPool
=============================================================================
