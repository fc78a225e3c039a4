----------------------------- MODULE Transcript -----------------------------
(***************************************************************************)
(* What the context promises about the conversation: it is an append-only  *)
(* log.  Whatever is done to fit the model's window, nothing that was said *)
(* is lost, altered or moved; only the end of the process forgets it.      *)
(***************************************************************************)
EXTENDS Sequences

CONSTANT Entries       (* what can be said                                 *)

VARIABLE log

Init == log = <<>>

Say == \E e \in Entries : log' = Append(log, e)

Forget == log' = <<>>

Spec == Init /\ [][Say \/ Forget]_log
=============================================================================
