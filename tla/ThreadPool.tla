----------------------------- MODULE ThreadPool -----------------------------
(***************************************************************************)
(* tools/thread_pool.c: a fixed set of worker threads, one FIFO of tasks,  *)
(* one mutex and two condition variables.  Every access to the shared      *)
(* fields is made with the mutex held, so a stretch of code from a lock    *)
(* (or a return from pthread_cond_wait) to the next unlock (or wait) is    *)
(* one action; running a task, being blocked in a wait and being joined    *)
(* are states of their own.  The queue is the FIFO that module TaskQueue   *)
(* implements.                                                             *)
(*                                                                         *)
(* The owner creates the pool and destroys it; clients submit and wait; a  *)
(* running task may submit more tasks.  As thread_pool.h demands, destroy  *)
(* does not overlap the calls of clients, but it does overlap tasks.       *)
(***************************************************************************)
EXTENDS Naturals, Sequences, FiniteSets

CONSTANTS WorkerCount,   (* the argument of thread_pool_create             *)
          Tasks,         (* calls of thread_pool_submit that can be made   *)
          Clients,       (* threads outside the pool                       *)
          NoTask         (* cur_task of a worker that has none             *)

ASSUME WorkerCountAssumption == WorkerCount \in Nat \ {0}
ASSUME NoTaskAssumption == NoTask \notin Tasks

VARIABLES phase,         (* where the owner is                             *)
          held,          (* allocations and objects the owner must release *)
          worker_count,  (* threads created                                *)
          joined,        (* threads joined                                 *)
          tasks,         (* pool->tasks                                    *)
          active_tasks,  (* pool->active_tasks                             *)
          shutdown,      (* pool->shutdown                                 *)
          worker,        (* where each worker is                           *)
          cur_task,      (* the task each worker has taken                 *)
          client,        (* where each client is                           *)
          status         (* the life of each task                          *)

owner == <<phase, held, worker_count, joined>>
pool  == <<tasks, active_tasks, shutdown>>
vars  == <<owner, pool, worker, cur_task, client, status>>

Worker == 1 .. WorkerCount

Init ==
    /\ phase = "none" /\ held = {} /\ worker_count = 0 /\ joined = 0
    /\ tasks = <<>> /\ active_tasks = 0 /\ shutdown = FALSE
    /\ worker = [w \in Worker |-> "unborn"]
    /\ cur_task = [w \in Worker |-> NoTask]
    /\ client = [c \in Clients |-> "out"]
    /\ status = [t \in Tasks |-> "new"]
-----------------------------------------------------------------------------
(* Condition variables.  A worker blocked on has_task is "asleep", a       *)
(* client blocked on idle is "blocked"; being woken means competing for    *)
(* the mutex again and testing the predicate again.                        *)
Asleep == {w \in Worker : worker[w] = "asleep"}

(* Mutant of SignalHasTask: it signals nobody.                             *)
NoSignal == UNCHANGED worker

SignalHasTask ==
    IF Asleep = {} THEN UNCHANGED worker
    ELSE \E w \in Asleep : worker' = [worker EXCEPT ![w] = "ready"]

BroadcastHasTask == worker' = [w \in Worker |-> IF w \in Asleep THEN "ready" ELSE worker[w]]

(* Mutant of Idle: an empty queue is taken for an idle pool.               *)
QueueEmpty(queue, active) == queue = <<>>

Idle(queue, active) == active = 0 /\ queue = <<>>

(* Mutant of BroadcastIdleIf: only one of the clients is woken.            *)
SignalIdleIf(isIdle) ==
    IF isIdle /\ \E c \in Clients : client[c] = "blocked"
    THEN \E c \in Clients : client[c] = "blocked" /\ client' = [client EXCEPT ![c] = "waiting"]
    ELSE UNCHANGED client

(* A worker wakes every client when it leaves the pool idle.               *)
BroadcastIdleIf(isIdle) ==
    client' = [c \in Clients |-> IF isIdle /\ client[c] = "blocked" THEN "waiting" ELSE client[c]]

(* POSIX lets a wait return without any signal.                            *)
SpuriousWakeup ==
    \/ \E w \in Asleep :
          /\ worker' = [worker EXCEPT ![w] = "ready"]
          /\ UNCHANGED client
    \/ \E c \in Clients :
          /\ client[c] = "blocked"
          /\ client' = [client EXCEPT ![c] = "waiting"]
          /\ UNCHANGED worker
-----------------------------------------------------------------------------
(* thread_pool_create.  The objects it acquires, in order, and what the    *)
(* error branch of each releases.                                          *)
Objects == <<"pool", "threads", "mutex", "has_task", "idle">>

(* Mutant of ReleasedOnFailure: the last branch forgets a condition.       *)
ReleaseForgetsHasTask ==
    <<{}, {"pool"}, {"threads", "pool"}, {"mutex", "threads", "pool"},
      {"mutex", "threads", "pool"}>>

ReleasedOnFailure ==
    <<{}, {"pool"}, {"threads", "pool"}, {"mutex", "threads", "pool"},
      {"has_task", "mutex", "threads", "pool"}>>

CreateCalled ==
    /\ phase = "none"
    /\ phase' = "acquiring"
    /\ UNCHANGED <<pool, held, worker_count, joined, worker, cur_task, client, status>>

Acquire ==
    /\ phase = "acquiring"
    /\ \E k \in 1 .. 5 :
          /\ held = {Objects[i] : i \in 1 .. k - 1}
          /\ held' = held \cup {Objects[k]}
          /\ IF k < 5
             THEN UNCHANGED <<pool, phase, worker_count, joined, worker>>
             ELSE /\ phase' = "spawning"
                  /\ worker_count' = 0 /\ shutdown' = FALSE /\ active_tasks' = 0
                  /\ tasks' = <<>> /\ joined' = 0
                  /\ worker' = [w \in Worker |-> "unborn"]
    /\ UNCHANGED <<cur_task, client, status>>

AcquireFails ==
    /\ phase = "acquiring"
    /\ \E k \in 1 .. 5 :
          /\ held = {Objects[i] : i \in 1 .. k - 1}
          /\ held' = held \ ReleasedOnFailure[k]
    /\ phase' = "none"
    /\ UNCHANGED <<pool, worker_count, joined, worker, cur_task, client, status>>

Spawn ==
    /\ phase = "spawning" /\ worker_count < WorkerCount
    /\ worker_count' = worker_count + 1
    /\ worker' = [worker EXCEPT ![worker_count + 1] = "ready"]
    /\ UNCHANGED <<pool, phase, held, joined, cur_task, client, status>>

(* pthread_create fails: stop the threads created so far.                  *)
SpawnFails ==
    /\ phase = "spawning" /\ worker_count < WorkerCount
    /\ phase' = "unwinding"
    /\ shutdown' = TRUE
    /\ BroadcastHasTask
    /\ UNCHANGED <<held, worker_count, joined, tasks, active_tasks, cur_task, client, status>>

CreateReturns ==
    /\ phase = "spawning" /\ worker_count = WorkerCount
    /\ phase' = "open"
    /\ UNCHANGED <<pool, held, worker_count, joined, worker, cur_task, client, status>>

(* pthread_join, of the rollback or of thread_pool_destroy.                *)
Join ==
    /\ phase \in {"unwinding", "closing"}
    /\ joined < worker_count
    /\ worker[joined + 1] = "exited"
    /\ joined' = joined + 1
    /\ UNCHANGED <<pool, phase, held, worker_count, worker, cur_task, client, status>>

RollbackReturns ==
    /\ phase = "unwinding" /\ joined = worker_count
    /\ held' = held \ {"idle", "has_task", "mutex", "threads", "pool"}
    /\ phase' = "none"
    /\ UNCHANGED <<pool, worker_count, joined, worker, cur_task, client, status>>
-----------------------------------------------------------------------------
(* thread_pool_destroy.                                                    *)
DestroyCalled ==
    /\ phase = "open"
    /\ \A c \in Clients : client[c] = "out"
    /\ phase' = "closing"
    /\ shutdown' = TRUE
    /\ BroadcastHasTask
    /\ UNCHANGED <<held, worker_count, joined, tasks, active_tasks, cur_task, client, status>>

(* All workers are joined: discard the queued tasks, release everything.   *)
DestroyReturns ==
    /\ phase = "closing" /\ joined = worker_count
    /\ status' = [t \in Tasks |->
                    IF \E i \in 1 .. Len(tasks) : tasks[i] = t THEN "discarded" ELSE status[t]]
    /\ tasks' = <<>>
    /\ held' = held \ {"idle", "has_task", "mutex", "threads", "pool"}
    /\ phase' = "destroyed"
    /\ UNCHANGED <<worker_count, joined, active_tasks, shutdown, worker, cur_task, client>>
-----------------------------------------------------------------------------
(* thread_pool_submit; its allocation failure changes nothing.             *)
Submit(t) ==
    /\ status[t] = "new"
    /\ IF shutdown
       THEN /\ status' = [status EXCEPT ![t] = "rejected"]
            /\ UNCHANGED <<tasks, worker>>
       ELSE /\ status' = [status EXCEPT ![t] = "queued"]
            /\ tasks' = Append(tasks, t)
            /\ SignalHasTask
    /\ UNCHANGED <<owner, active_tasks, shutdown, cur_task, client>>

ClientSubmit(c, t) ==
    /\ phase = "open" /\ client[c] = "out"
    /\ Submit(t)

(* thread_pool_wait: the call, then the test of the loop, made again after *)
(* every wake-up.                                                          *)
WaitCalled(c) ==
    /\ phase = "open" /\ client[c] = "out"
    /\ client' = [client EXCEPT ![c] = "waiting"]
    /\ UNCHANGED <<owner, pool, worker, cur_task, status>>

WaitBlocks(c) ==
    /\ client[c] = "waiting"
    /\ ~Idle(tasks, active_tasks)
    /\ client' = [client EXCEPT ![c] = "blocked"]
    /\ UNCHANGED <<owner, pool, worker, cur_task, status>>

WaitReturns(c) ==
    /\ client[c] = "waiting"
    /\ Idle(tasks, active_tasks)
    /\ client' = [client EXCEPT ![c] = "out"]
    /\ UNCHANGED <<owner, pool, worker, cur_task, status>>
-----------------------------------------------------------------------------
(* thread_pool_worker_main.  "ready": about to lock, or woken and locking  *)
(* again; "running": in task_fn; "finishing": task_fn has returned.        *)
Sleep(w) ==
    /\ worker[w] = "ready"
    /\ tasks = <<>> /\ ~shutdown
    /\ worker' = [worker EXCEPT ![w] = "asleep"]
    /\ UNCHANGED <<owner, pool, cur_task, client, status>>

(* Mutant of MayTake: shutdown is not tested.                              *)
MayTakeAnyway == tasks # <<>>

MayTake == tasks # <<>> /\ ~shutdown

Popped == Tail(tasks)

Take(w) ==
    /\ worker[w] = "ready"
    /\ MayTake
    /\ cur_task' = [cur_task EXCEPT ![w] = Head(tasks)]
    /\ tasks' = Popped
    /\ active_tasks' = active_tasks + 1
    /\ worker' = [worker EXCEPT ![w] = "running"]
    /\ status' = [status EXCEPT ![Head(tasks)] = "running"]
    /\ UNCHANGED <<owner, shutdown, client>>

(* A task that is running submits another one.                             *)
TaskSubmits(w, t) == worker[w] = "running" /\ Submit(t)

TaskReturns(w) ==
    /\ worker[w] = "running"
    /\ worker' = [worker EXCEPT ![w] = "finishing"]
    /\ UNCHANGED <<owner, pool, cur_task, client, status>>

ActiveAfter == active_tasks - 1

(* Mutant of IdleAfter: the idle test is made before the decrement.        *)
IdleBefore == Idle(tasks, active_tasks)

IdleAfter == Idle(tasks, ActiveAfter)

Finish(w) ==
    /\ worker[w] = "finishing"
    /\ active_tasks' = ActiveAfter
    /\ BroadcastIdleIf(IdleAfter)
    /\ status' = [status EXCEPT ![cur_task[w]] = "done"]
    /\ cur_task' = [cur_task EXCEPT ![w] = NoTask]
    /\ worker' = [worker EXCEPT ![w] = "ready"]
    /\ UNCHANGED <<owner, tasks, shutdown>>

Exit(w) ==
    /\ worker[w] = "ready" /\ shutdown
    /\ BroadcastIdleIf(Idle(tasks, active_tasks))
    /\ worker' = [worker EXCEPT ![w] = "exited"]
    /\ UNCHANGED <<owner, pool, cur_task, status>>
-----------------------------------------------------------------------------
OwnerStep ==
    \/ CreateCalled \/ Acquire \/ AcquireFails \/ Spawn \/ SpawnFails \/ CreateReturns
    \/ DestroyCalled \/ Join \/ RollbackReturns \/ DestroyReturns

ClientStep(c) ==
    \/ \E t \in Tasks : ClientSubmit(c, t)
    \/ WaitCalled(c) \/ WaitBlocks(c) \/ WaitReturns(c)

WorkerStep(w) == Sleep(w) \/ Take(w) \/ TaskReturns(w) \/ Finish(w) \/ Exit(w)

Terminated == phase = "destroyed" /\ UNCHANGED vars

Next ==
    \/ OwnerStep
    \/ \E c \in Clients : ClientStep(c)
    \/ \E w \in Worker : WorkerStep(w) \/ \E t \in Tasks : TaskSubmits(w, t)
    \/ SpuriousWakeup /\ UNCHANGED <<owner, pool, cur_task, status>>
    \/ Terminated

(* Threads that can go on do go on, tasks return, and a mutex is not       *)
(* denied for ever to a thread that asks for it.  Nobody has to create,    *)
(* submit, wait or destroy, and pthread_create may fail every time.        *)
Fairness ==
    /\ \A w \in Worker : WF_vars(WorkerStep(w))
    /\ \A c \in Clients : WF_vars(WaitBlocks(c) \/ WaitReturns(c))
    /\ WF_vars(Join) /\ WF_vars(RollbackReturns) /\ WF_vars(DestroyReturns)
    /\ WF_vars(Acquire \/ AcquireFails) /\ WF_vars(Spawn \/ SpawnFails \/ CreateReturns)

Spec == Init /\ [][Next]_vars
FairSpec == Spec /\ Fairness
-----------------------------------------------------------------------------
Busy == {w \in Worker : worker[w] \in {"running", "finishing"}}

TypeOK ==
    /\ phase \in {"none", "acquiring", "spawning", "unwinding", "open", "closing", "destroyed"}
    /\ held \subseteq {Objects[k] : k \in 1 .. 5}
    /\ worker_count \in 0 .. WorkerCount /\ joined \in 0 .. WorkerCount
    /\ tasks \in Seq(Tasks) /\ active_tasks \in 0 .. WorkerCount /\ shutdown \in BOOLEAN
    /\ worker \in [Worker -> {"unborn", "ready", "asleep", "running", "finishing", "exited"}]
    /\ cur_task \in [Worker -> Tasks \cup {NoTask}]
    /\ client \in [Clients -> {"out", "waiting", "blocked"}]
    /\ status \in [Tasks -> {"new", "queued", "running", "done", "discarded", "rejected"}]

(* active_tasks counts the workers between taking a task and accounting    *)
(* for its end, and the tasks the pool has taken are exactly theirs: the   *)
(* fact thread_pool_wait reads as "nothing is running".                    *)
ActiveIsBusy ==
    /\ active_tasks = Cardinality(Busy)
    /\ \A w \in Worker : w \in Busy <=> cur_task[w] # NoTask
    /\ \A w \in Busy : status[cur_task[w]] = "running"
    /\ \A t \in Tasks : status[t] = "running" => \E w \in Busy : cur_task[w] = t
    /\ \A v, w \in Busy : cur_task[v] = cur_task[w] => v = w

(* The queue holds every accepted task that has not been started, once.    *)
QueueIsQueued ==
    /\ \A i \in 1 .. Len(tasks) : status[tasks[i]] = "queued"
    /\ \A t \in Tasks : status[t] = "queued" => \E i \in 1 .. Len(tasks) : tasks[i] = t
    /\ \A i, j \in 1 .. Len(tasks) : tasks[i] = tasks[j] => i = j

(* No lost wake-up of a caller of thread_pool_wait: nobody is blocked on   *)
(* the idle condition while the pool is idle.                              *)
NoLostIdle == \A c \in Clients : client[c] = "blocked" => ~Idle(tasks, active_tasks)

(* The pool, its thread array, mutex and conditions outlive every thread   *)
(* that uses them, and whichever step of creation fails, or once the pool  *)
(* is destroyed, none of them is leaked.                                   *)
PoolOutlivesUsers ==
    /\ \/ held = {Objects[k] : k \in 1 .. 5}
       \/ /\ \A w \in Worker : worker[w] \in {"unborn", "exited"}
          /\ \A c \in Clients : client[c] = "out"
    /\ phase \in {"none", "destroyed"} => held = {}

(* thread_pool_wait returns only when no task, of whoever submitted it and *)
(* tasks submitted by tasks included, is queued or still running.          *)
WaitMeansIdle ==
    [][\A c \in Clients : client[c] = "waiting" /\ client'[c] = "out"
          => \A t \in Tasks : status[t] \notin {"queued", "running"}]_vars

(* The pool implements its interface: submission order is start order, a   *)
(* task runs at most once, at most WorkerCount at a time and never after   *)
(* shutdown began, what is discarded never ran, and nothing else happens.  *)
Interface ==
    INSTANCE TaskPool WITH
        N <- WorkerCount, queue <- tasks, state <- status,
        closed <- phase \in {"closing", "destroyed"},
        blocked <- {c \in Clients : client[c] # "out"}

PoolSpec == Interface!Spec

(* Every accepted task is eventually run to its end, or discarded by the   *)
(* destruction of the pool.                                                *)
TasksSettle == \A t \in Tasks : status[t] = "queued" ~> status[t] \in {"done", "discarded"}

(* Whoever calls the pool gets away from it: thread_pool_wait returns,     *)
(* however submissions and wake-ups interleave; thread_pool_create ends    *)
(* with a pool or with nothing; and thread_pool_destroy ends with every    *)
(* thread joined.                                                          *)
CallersReturn ==
    /\ \A c \in Clients : client[c] = "waiting" ~> client[c] = "out"
    /\ phase = "acquiring" ~> phase \in {"open", "none"}
    /\ phase = "closing" ~> phase = "destroyed"
=============================================================================
