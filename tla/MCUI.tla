-------------------------------- MODULE MCUI --------------------------------
(* Two slots and batches of one, two and three tools: a batch that fits, and *)
(* one that is cut to the slots there are.                                   *)
EXTENDS UI
=============================================================================
