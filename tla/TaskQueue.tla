----------------------------- MODULE TaskQueue -----------------------------
(***************************************************************************)
(* The linked list of tools/thread_pool.c: task_queue_init, _push, _pop    *)
(* and _clear over task nodes that thread_pool_submit allocates and the    *)
(* workers free.  The pool holds its mutex around every call, so each call *)
(* is one action; task_queue_clear is one action per iteration of its loop *)
(* because every iteration frees a node.  An address that was freed may be *)
(* handed out again by malloc with whatever its next field held before.    *)
(***************************************************************************)
EXTENDS Naturals, Sequences

CONSTANTS Node,     (* addresses of task structures                        *)
          NULL      (* the null pointer                                    *)

ASSUME NullAssumption == NULL \notin Node

VARIABLES head, tail, count,  (* struct task_queue                         *)
          next,               (* the next field of every address           *)
          place,              (* who owns an address                       *)
          ret,                (* what the latest task_queue_pop returned   *)
          clearing,           (* inside the loop of task_queue_clear       *)
          items               (* history: the nodes pushed, not yet popped *)

listVars == <<head, tail, count, next, place, ret, clearing, items>>

ListInit ==
    /\ head = NULL /\ tail = NULL /\ count = 0
    /\ next = [n \in Node |-> NULL]
    /\ place = [n \in Node |-> "free"]
    /\ ret = NULL
    /\ clearing = FALSE
    /\ items = <<>>
-----------------------------------------------------------------------------
(* Mutant of FreshNext: submit does not initialise the next field.         *)
StaleNext(n) == next[n]

(* The next field thread_pool_submit leaves in the node it has allocated.  *)
FreshNext(n) == NULL

(* Mutant of Link: the new node is linked in at the front.                 *)
LinkAtFront(nx, n) ==
    IF head = NULL /\ tail = NULL
    THEN head' = n /\ tail' = n /\ next' = nx
    ELSE head' = n /\ next' = [nx EXCEPT ![n] = head] /\ UNCHANGED tail

(* task_queue_push on a queue whose node fields are already nx: the empty  *)
(* queue returns before the assignment that ends the list.                 *)
Link(nx, n) ==
    IF head = NULL /\ tail = NULL
    THEN head' = n /\ tail' = n /\ next' = nx
    ELSE tail' = n /\ next' = [nx EXCEPT ![tail] = n, ![n] = NULL] /\ UNCHANGED head

(* thread_pool_submit: allocate, initialise, push.                         *)
Push(n) ==
    /\ ~clearing
    /\ place[n] = "free"
    /\ place' = [place EXCEPT ![n] = "queue"]
    /\ count' = count + 1
    /\ Link([next EXCEPT ![n] = FreshNext(n)], n)
    /\ items' = Append(items, n)
    /\ UNCHANGED <<ret, clearing>>

(* The front node leaves the list; tail is repaired when it was the last.  *)
Unlink ==
    /\ count' = count - 1
    /\ head' = next[head]
    /\ tail' = IF next[head] = NULL THEN NULL ELSE tail
    /\ items' = Tail(items)
    /\ UNCHANGED next

Pop ==
    /\ ~clearing
    /\ count # 0
    /\ Unlink
    /\ ret' = head
    /\ place' = [place EXCEPT ![head] = "worker"]
    /\ UNCHANGED clearing

PopEmpty ==
    /\ ~clearing
    /\ count = 0
    /\ ret' = NULL
    /\ UNCHANGED <<head, tail, count, next, place, clearing, items>>

(* The worker frees the task it has run.                                   *)
FreeTask(n) ==
    /\ place[n] = "worker"
    /\ place' = [place EXCEPT ![n] = "free"]
    /\ UNCHANGED <<head, tail, count, next, ret, clearing, items>>

BeginClear ==
    /\ ~clearing
    /\ clearing' = TRUE
    /\ UNCHANGED <<head, tail, count, next, place, ret, items>>

(* Mutant of ClearOne: the popped node is not freed.                       *)
ClearOneLeaks == clearing /\ count # 0 /\ Unlink /\ UNCHANGED <<place, ret, clearing>>

(* One iteration: pop a node and free it.                                  *)
ClearOne ==
    /\ clearing
    /\ count # 0
    /\ Unlink
    /\ place' = [place EXCEPT ![head] = "free"]
    /\ UNCHANGED <<ret, clearing>>

EndClear ==
    /\ clearing
    /\ count = 0
    /\ head' = NULL /\ tail' = NULL /\ count' = 0
    /\ clearing' = FALSE
    /\ UNCHANGED <<next, place, ret, items>>

ListNext ==
    \/ \E n \in Node : Push(n) \/ FreeTask(n)
    \/ Pop \/ PopEmpty
    \/ BeginClear \/ ClearOne \/ EndClear

ListSpec == ListInit /\ [][ListNext]_listVars
-----------------------------------------------------------------------------
(* Types: pointers point to nodes or are null, counters are naturals.      *)
ListTypeOK ==
    /\ head \in Node \cup {NULL} /\ tail \in Node \cup {NULL} /\ count \in Nat
    /\ next \in [Node -> Node \cup {NULL}]
    /\ place \in [Node -> {"free", "queue", "worker"}]
    /\ ret \in Node \cup {NULL}
    /\ clearing \in BOOLEAN
    /\ items \in Seq(Node)

(* The pointers spell out the queued nodes: head, the chain of next fields *)
(* and tail enumerate exactly the nodes pushed and not yet popped, the     *)
(* last one ends the list, count is their number, and an empty queue has   *)
(* both ends null.                                                         *)
ListShape ==
    /\ count = Len(items)
    /\ head = IF items = <<>> THEN NULL ELSE items[1]
    /\ tail = IF items = <<>> THEN NULL ELSE items[Len(items)]
    /\ \A i \in 1 .. Len(items) :
          next[items[i]] = IF i = Len(items) THEN NULL ELSE items[i + 1]

(* Ownership: an address is in the queue exactly once while the queue owns *)
(* it, and never once a worker has it or it was freed, so neither push nor *)
(* pop dereferences freed memory and no node is freed twice.               *)
Ownership ==
    /\ \A i, j \in 1 .. Len(items) : items[i] = items[j] => i = j
    /\ \A n \in Node : place[n] = "queue" <=> \E i \in 1 .. Len(items) : items[i] = n

(* The list behaves as a FIFO queue: what a pop returns, or the clearing   *)
(* loop discards, is the oldest node still queued.                         *)
Abstract == INSTANCE Fifo WITH Elem <- Node, NoElem <- NULL

FifoSpec == Abstract!Spec
=============================================================================
