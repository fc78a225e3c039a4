----------------------------- MODULE TaskPool -----------------------------
(***************************************************************************)
(* What tools/thread_pool.h promises to its users, without mutex,          *)
(* condition variables, counters or worker states: tasks are started in    *)
(* the order they were submitted, at most once and at most N at a time; a  *)
(* wait returns only when nothing is queued or running; destroying lets    *)
(* running tasks finish and discards the queued ones.                      *)
(***************************************************************************)
EXTENDS Naturals, Sequences, FiniteSets

CONSTANTS Tasks, Clients, N

VARIABLES queue,    (* accepted tasks not yet started, oldest first        *)
          state,    (* the life of each task                               *)
          closed,   (* thread_pool_destroy has been called                 *)
          blocked   (* clients inside thread_pool_wait                     *)

vars == <<queue, state, closed, blocked>>

Running == {t \in Tasks : state[t] = "running"}

Init ==
    /\ queue = <<>>
    /\ state = [t \in Tasks |-> "new"]
    /\ closed = FALSE
    /\ blocked = {}

Accept(t) ==
    /\ state[t] = "new" /\ ~closed
    /\ state' = [state EXCEPT ![t] = "queued"]
    /\ queue' = Append(queue, t)
    /\ UNCHANGED <<closed, blocked>>

Reject(t) ==
    /\ state[t] = "new" /\ closed
    /\ state' = [state EXCEPT ![t] = "rejected"]
    /\ UNCHANGED <<queue, closed, blocked>>

Start ==
    /\ queue # <<>> /\ ~closed
    /\ Cardinality(Running) < N
    /\ state' = [state EXCEPT ![Head(queue)] = "running"]
    /\ queue' = Tail(queue)
    /\ UNCHANGED <<closed, blocked>>

Finish(t) ==
    /\ state[t] = "running"
    /\ state' = [state EXCEPT ![t] = "done"]
    /\ UNCHANGED <<queue, closed, blocked>>

Wait(c) ==
    /\ blocked' = blocked \cup {c}
    /\ UNCHANGED <<queue, state, closed>>

WaitReturns(c) ==
    /\ queue = <<>> /\ Running = {}
    /\ blocked' = blocked \ {c}
    /\ UNCHANGED <<queue, state, closed>>

(* Closing is not concurrent with a wait, and it is for good.              *)
Close ==
    /\ blocked = {}
    /\ closed' = TRUE
    /\ UNCHANGED <<queue, state, blocked>>

(* Everything still queued is discarded once the running tasks have ended. *)
Discard ==
    /\ closed /\ Running = {}
    /\ state' = [t \in Tasks |-> IF state[t] = "queued" THEN "discarded" ELSE state[t]]
    /\ queue' = <<>>
    /\ UNCHANGED <<closed, blocked>>

Next ==
    \/ \E t \in Tasks : Accept(t) \/ Reject(t) \/ Finish(t)
    \/ Start \/ Close \/ Discard
    \/ \E c \in Clients : Wait(c) \/ WaitReturns(c)

Spec == Init /\ [][Next]_vars
=============================================================================
