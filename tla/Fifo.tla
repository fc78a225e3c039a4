------------------------------- MODULE Fifo -------------------------------
(***************************************************************************)
(* What the task queue of tools/task_queue.h promises, without pointers: a *)
(* first-in first-out sequence whose elements leave it only at the front,  *)
(* one at a time, either handed to the caller or discarded.                *)
(***************************************************************************)
EXTENDS Sequences

CONSTANTS Elem,     (* what can be queued                                  *)
          NoElem    (* the result of popping an empty queue                *)

VARIABLES items,    (* the queued elements, oldest first                   *)
          ret       (* what the latest pop returned                        *)

vars == <<items, ret>>

Init == items = <<>> /\ ret = NoElem

Push(e) == items' = Append(items, e) /\ UNCHANGED ret

Pop == /\ items # <<>>
       /\ ret' = Head(items)
       /\ items' = Tail(items)

PopEmpty == items = <<>> /\ ret' = NoElem /\ UNCHANGED items

Discard == items # <<>> /\ items' = Tail(items) /\ UNCHANGED ret

Next == (\E e \in Elem : Push(e)) \/ Pop \/ PopEmpty \/ Discard

Spec == Init /\ [][Next]_vars
=============================================================================
