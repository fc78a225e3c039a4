----------------------------- MODULE MCBashTool -----------------------------
(* A pipe of two bytes that four bytes do not fit into, and one process in   *)
(* the background.  Two calls: the second finds what the first left behind.  *)
EXTENDS BashTool
=============================================================================
