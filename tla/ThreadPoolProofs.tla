-------------------------- MODULE ThreadPoolProofs --------------------------
(***************************************************************************)
(* For every number of workers, every set of tasks and of clients: the     *)
(* counters of the pool say what its threads do, a blocked wait is always  *)
(* going to be woken, thread_pool_wait returns only when no task is queued *)
(* or running, what the pool is made of outlives its users, and the pool   *)
(* implements TaskPool.  At the end the list that holds its tasks, for     *)
(* every set of addresses: it is the FIFO queue the pool takes it for.     *)
(***************************************************************************)
EXTENDS ThreadPool, TaskQueue, SequenceTheorems, FiniteSetTheorems, TLAPS

(* Before the pool has been handed to its owner and after the owner began  *)
(* to destroy it nobody waits; before, no task exists either.              *)
QuietUnlessOpen ==
    /\ phase # "open" => \A c \in Clients : client[c] = "out"
    /\ phase \in {"none", "acquiring", "spawning", "unwinding"} =>
          /\ tasks = <<>> /\ Busy = {}
          /\ \A t \in Tasks : status[t] \notin {"queued", "running"}

IInv == TypeOK /\ ActiveIsBusy /\ QueueIsQueued /\ QuietUnlessOpen /\ NoLostIdle
-----------------------------------------------------------------------------
(* Only workers are busy, so there are finitely many.                      *)
LEMMA BusyIsFinite ==
  /\ IsFiniteSet(Busy)
  /\ Cardinality(Busy) \in 0 .. WorkerCount
  /\ Cardinality(Busy) = 0 <=> Busy = {}
<1>1. IsFiniteSet(Worker) /\ Cardinality(Worker) = WorkerCount
  <2>1. WorkerCount \in Int /\ 1 \in Int /\ ~(1 > WorkerCount) /\ WorkerCount - 1 + 1 = WorkerCount
    BY WorkerCountAssumption
  <2> QED BY <2>1, FS_Interval DEF Worker
<1>2. Busy \in SUBSET Worker
  BY DEF Busy
<1>3. IsFiniteSet(Busy) /\ Cardinality(Busy) <= WorkerCount /\ Cardinality(Busy) \in Nat
  BY <1>1, <1>2, FS_Subset, FS_CardinalityType
<1>4. Cardinality(Busy) = 0 <=> Busy = {}
  BY <1>3, FS_EmptySet
<1> QED BY <1>3, <1>4, WorkerCountAssumption

(* The same in the next state.                                             *)
LEMMA BusyIsFiniteNext ==
  IsFiniteSet(Busy)' /\ (Cardinality(Busy) \in 0 .. WorkerCount)'
  BY BusyIsFinite, PTL

LEMMA InitEstablishes == Init => IInv
<1> SUFFICES ASSUME Init PROVE IInv
  OBVIOUS
<1>1. Busy = {} /\ tasks = <<>> /\ Len(tasks) = 0 /\ tasks \in Seq(Tasks) /\ active_tasks = 0
  BY DEF Init, Busy
<1>2. TypeOK
  <2>1. 0 \in 0 .. WorkerCount
    BY WorkerCountAssumption
  <2>2. /\ worker \in [Worker -> {"unborn", "ready", "asleep", "running", "finishing", "exited"}]
        /\ cur_task \in [Worker -> Tasks \cup {NoTask}]
        /\ client \in [Clients -> {"out", "waiting", "blocked"}]
        /\ status \in [Tasks -> {"new", "queued", "running", "done", "discarded", "rejected"}]
    BY DEF Init
  <2> QED BY <1>1, <2>1, <2>2 DEF Init, TypeOK
<1>3. ActiveIsBusy
  BY <1>1, BusyIsFinite DEF Init, ActiveIsBusy
<1>4. QueueIsQueued
  BY <1>1 DEF Init, QueueIsQueued
<1>5. QuietUnlessOpen
  BY <1>1 DEF Init, QuietUnlessOpen
<1>6. NoLostIdle
  BY DEF Init, NoLostIdle
<1> QED BY <1>2, <1>3, <1>4, <1>5, <1>6 DEF IInv

(* A step that takes no task, ends none and submits none keeps what the    *)
(* counters and the queue say.                                             *)
LEMMA NoTaskMoves ==
  ASSUME IInv, Busy' = Busy, UNCHANGED <<tasks, active_tasks, cur_task, status>>
  PROVE  ActiveIsBusy' /\ QueueIsQueued'
<1>1. ActiveIsBusy'
  BY DEF IInv, ActiveIsBusy
<1>2. QueueIsQueued'
  BY DEF IInv, QueueIsQueued
<1> QED BY <1>1, <1>2
-----------------------------------------------------------------------------
(* Waking workers or clients makes nobody busy.                            *)
LEMMA WakingWorkers ==
  ASSUME TypeOK, SignalHasTask \/ BroadcastHasTask
  PROVE  /\ Busy' = Busy
         /\ worker' \in [Worker -> {"unborn", "ready", "asleep", "running", "finishing", "exited"}]
  BY DEF TypeOK, SignalHasTask, BroadcastHasTask, Asleep, Busy

LEMMA WakingClients ==
  ASSUME TypeOK, NEW b \in BOOLEAN, BroadcastIdleIf(b)
  PROVE  /\ client' \in [Clients -> {"out", "waiting", "blocked"}]
         /\ \A c \in Clients : client[c] = "out" => client'[c] = "out"
         /\ \A c \in Clients : client'[c] = "blocked" => client[c] = "blocked" /\ ~b
  BY DEF TypeOK, BroadcastIdleIf

(* The owner's steps.                                                      *)
LEMMA OwnerPreserves == ASSUME IInv, OwnerStep PROVE IInv'
<1> USE DEF owner, pool
<1>1. CASE CreateCalled
  <2>1. Busy' = Busy
    BY <1>1 DEF CreateCalled, Busy
  <2>2. ActiveIsBusy' /\ QueueIsQueued'
    BY <1>1, <2>1, NoTaskMoves DEF CreateCalled
  <2>3. TypeOK' /\ QuietUnlessOpen' /\ NoLostIdle'
    BY <1>1, <2>1 DEF CreateCalled, IInv, TypeOK, QuietUnlessOpen, NoLostIdle
  <2> QED BY <2>2, <2>3 DEF IInv
<1>2. CASE Acquire
  <2>1. tasks = <<>> /\ Busy = {} /\ phase = "acquiring" /\ active_tasks = 0
    BY <1>2, BusyIsFinite DEF IInv, QuietUnlessOpen, ActiveIsBusy, Acquire
  <2>2. tasks' = <<>> /\ active_tasks' = 0 /\ UNCHANGED <<cur_task, client, status>>
    BY <1>2, <2>1 DEF Acquire
  <2>3. Busy' = {}
    BY <1>2, <2>1 DEF Acquire, Busy
  <2>4. ActiveIsBusy' /\ QueueIsQueued'
    BY <2>1, <2>2, <2>3, NoTaskMoves
  <2>5. phase' \in {"acquiring", "spawning"}
    BY <1>2 DEF Acquire
  <2>6. TypeOK'
    <3>1. held' \subseteq {Objects[k] : k \in 1 .. 5}
      BY <1>2 DEF Acquire, IInv, TypeOK
    <3>2. /\ worker_count' \in 0 .. WorkerCount /\ joined' \in 0 .. WorkerCount
          /\ shutdown' \in BOOLEAN
          /\ worker' \in [Worker -> {"unborn", "ready", "asleep", "running", "finishing", "exited"}]
      <4>1. \/ UNCHANGED <<worker_count, joined, shutdown, worker>>
            \/ /\ worker_count' = 0 /\ joined' = 0 /\ shutdown' = FALSE
               /\ worker' = [w \in Worker |-> "unborn"]
        BY <1>2 DEF Acquire
      <4>2. 0 \in 0 .. WorkerCount
        BY WorkerCountAssumption
      <4> QED BY <4>1, <4>2 DEF IInv, TypeOK
    <3> QED BY <2>1, <2>2, <2>5, <3>1, <3>2 DEF IInv, TypeOK
  <2>7. QuietUnlessOpen' /\ NoLostIdle'
    BY <2>1, <2>2, <2>3, <2>5 DEF IInv, QuietUnlessOpen, NoLostIdle
  <2> QED BY <2>4, <2>6, <2>7 DEF IInv
<1>3. CASE AcquireFails
  <2>1. Busy' = Busy /\ phase = "acquiring"
    BY <1>3 DEF AcquireFails, Busy
  <2>2. ActiveIsBusy' /\ QueueIsQueued'
    BY <1>3, <2>1, NoTaskMoves DEF AcquireFails
  <2>3. held' \subseteq {Objects[k] : k \in 1 .. 5}
    BY <1>3 DEF AcquireFails, IInv, TypeOK
  <2>4. TypeOK' /\ QuietUnlessOpen' /\ NoLostIdle'
    BY <1>3, <2>1, <2>3 DEF AcquireFails, IInv, TypeOK, QuietUnlessOpen, NoLostIdle
  <2> QED BY <2>2, <2>4 DEF IInv
<1>4. CASE Spawn
  <2>1. worker_count + 1 \in Worker /\ worker_count + 1 \in 0 .. WorkerCount
    BY <1>4, WorkerCountAssumption DEF Spawn, IInv, TypeOK, Worker
  <2>2. Busy = {} /\ phase = "spawning"
    BY <1>4 DEF Spawn, IInv, QuietUnlessOpen
  <2>3. Busy' = Busy
    BY <1>4, <2>1, <2>2 DEF Spawn, Busy, IInv, TypeOK
  <2>4. ActiveIsBusy' /\ QueueIsQueued'
    BY <1>4, <2>3, NoTaskMoves DEF Spawn
  <2>5. TypeOK' /\ QuietUnlessOpen' /\ NoLostIdle'
    BY <1>4, <2>1, <2>2, <2>3 DEF Spawn, IInv, TypeOK, QuietUnlessOpen, NoLostIdle
  <2> QED BY <2>4, <2>5 DEF IInv
<1>5. CASE SpawnFails
  <2>1. /\ Busy' = Busy
        /\ worker' \in [Worker -> {"unborn", "ready", "asleep", "running", "finishing", "exited"}]
    BY <1>5, WakingWorkers DEF SpawnFails, IInv
  <2>2. ActiveIsBusy' /\ QueueIsQueued'
    BY <1>5, <2>1, NoTaskMoves DEF SpawnFails
  <2>3. TypeOK' /\ QuietUnlessOpen' /\ NoLostIdle'
    BY <1>5, <2>1 DEF SpawnFails, IInv, TypeOK, QuietUnlessOpen, NoLostIdle
  <2> QED BY <2>2, <2>3 DEF IInv
<1>6. CASE CreateReturns
  <2>1. Busy' = Busy
    BY <1>6 DEF CreateReturns, Busy
  <2>2. ActiveIsBusy' /\ QueueIsQueued'
    BY <1>6, <2>1, NoTaskMoves DEF CreateReturns
  <2>3. TypeOK' /\ QuietUnlessOpen' /\ NoLostIdle'
    BY <1>6, <2>1 DEF CreateReturns, IInv, TypeOK, QuietUnlessOpen, NoLostIdle
  <2> QED BY <2>2, <2>3 DEF IInv
<1>7. CASE DestroyCalled
  <2>1. /\ Busy' = Busy
        /\ worker' \in [Worker -> {"unborn", "ready", "asleep", "running", "finishing", "exited"}]
    BY <1>7, WakingWorkers DEF DestroyCalled, IInv
  <2>2. ActiveIsBusy' /\ QueueIsQueued'
    BY <1>7, <2>1, NoTaskMoves DEF DestroyCalled
  <2>3. TypeOK' /\ QuietUnlessOpen' /\ NoLostIdle'
    BY <1>7, <2>1 DEF DestroyCalled, IInv, TypeOK, QuietUnlessOpen, NoLostIdle
  <2> QED BY <2>2, <2>3 DEF IInv
<1>8. CASE Join
  <2>1. Busy' = Busy
    BY <1>8 DEF Join, Busy
  <2>2. ActiveIsBusy' /\ QueueIsQueued'
    BY <1>8, <2>1, NoTaskMoves DEF Join
  <2>3. joined' \in 0 .. WorkerCount
    BY <1>8, WorkerCountAssumption DEF Join, IInv, TypeOK
  <2>4. TypeOK' /\ QuietUnlessOpen' /\ NoLostIdle'
    BY <1>8, <2>1, <2>3 DEF Join, IInv, TypeOK, QuietUnlessOpen, NoLostIdle
  <2> QED BY <2>2, <2>4 DEF IInv
<1>9. CASE RollbackReturns
  <2>1. Busy' = Busy
    BY <1>9 DEF RollbackReturns, Busy
  <2>2. ActiveIsBusy' /\ QueueIsQueued'
    BY <1>9, <2>1, NoTaskMoves DEF RollbackReturns
  <2>3. TypeOK' /\ QuietUnlessOpen' /\ NoLostIdle'
    BY <1>9, <2>1 DEF RollbackReturns, IInv, TypeOK, QuietUnlessOpen, NoLostIdle
  <2> QED BY <2>2, <2>3 DEF IInv
<1>10. CASE DestroyReturns
  <2>1. Busy' = Busy
    BY <1>10 DEF DestroyReturns, Busy
  <2>2. /\ tasks' = <<>> /\ phase = "closing" /\ phase' = "destroyed"
        /\ active_tasks' = active_tasks /\ cur_task' = cur_task /\ client' = client
        /\ status' = [t \in Tasks |->
                        IF \E i \in 1 .. Len(tasks) : tasks[i] = t THEN "discarded" ELSE status[t]]
    BY <1>10 DEF DestroyReturns
  <2>3. \A t \in Tasks : status[t] = "running" <=> status'[t] = "running"
    BY <2>2 DEF IInv, TypeOK, QueueIsQueued
  <2>4. \A t \in Tasks : status'[t] # "queued"
    BY <2>2 DEF IInv, TypeOK, QueueIsQueued
  <2>5. \A w \in Busy : cur_task[w] \in Tasks
    BY DEF IInv, TypeOK, ActiveIsBusy, Busy
  <2>6. ActiveIsBusy'
    BY <2>1, <2>2, <2>3, <2>5 DEF IInv, ActiveIsBusy
  <2>7. QueueIsQueued'
    BY <2>2, <2>4, EmptySeq DEF QueueIsQueued
  <2>8. TypeOK'
    <3>1. tasks' \in Seq(Tasks) /\ held' \subseteq {Objects[k] : k \in 1 .. 5}
      BY <1>10, <2>2, EmptySeq DEF DestroyReturns, IInv, TypeOK
    <3>2. status' \in [Tasks -> {"new", "queued", "running", "done", "discarded", "rejected"}]
      BY <2>2 DEF IInv, TypeOK
    <3> QED BY <1>10, <3>1, <3>2 DEF DestroyReturns, IInv, TypeOK
  <2>9. QuietUnlessOpen' /\ NoLostIdle'
    BY <2>2 DEF IInv, QuietUnlessOpen, NoLostIdle
  <2> QED BY <2>6, <2>7, <2>8, <2>9 DEF IInv
<1> QED BY <1>1, <1>2, <1>3, <1>4, <1>5, <1>6, <1>7, <1>8, <1>9, <1>10 DEF OwnerStep
-----------------------------------------------------------------------------
(* thread_pool_submit, by a client or by a running task.                   *)
LEMMA SubmitPreserves ==
  ASSUME IInv, NEW t \in Tasks, Submit(t), phase \notin {"none", "acquiring", "spawning", "unwinding"}
  PROVE  IInv'
<1> USE DEF owner, pool
<1> DEFINE k == Len(tasks)
<1>1. /\ status[t] = "new" /\ UNCHANGED <<owner, active_tasks, shutdown, cur_task, client>>
      /\ \A w \in Busy : cur_task[w] # t /\ cur_task[w] \in Tasks
  BY DEF Submit, IInv, ActiveIsBusy, TypeOK, Busy
<1>2. CASE shutdown
  <2>1. status' = [status EXCEPT ![t] = "rejected"] /\ UNCHANGED <<tasks, worker>>
    BY <1>2 DEF Submit
  <2>2. Busy' = Busy
    BY <2>1 DEF Busy
  <2>3. \A i \in 1 .. k : tasks[i] # t /\ tasks[i] \in Tasks
    BY <1>1 DEF IInv, QueueIsQueued, TypeOK
  <2>4. ActiveIsBusy'
    BY <1>1, <2>1, <2>2 DEF IInv, ActiveIsBusy, TypeOK
  <2>5. QueueIsQueued'
    BY <1>1, <2>1, <2>3 DEF IInv, QueueIsQueued, TypeOK
  <2>6. TypeOK' /\ QuietUnlessOpen' /\ NoLostIdle'
    BY <1>1, <2>1, <2>2 DEF IInv, TypeOK, QuietUnlessOpen, NoLostIdle
  <2> QED BY <2>4, <2>5, <2>6 DEF IInv
<1>3. CASE ~shutdown
  <2>1. /\ status' = [status EXCEPT ![t] = "queued"] /\ tasks' = Append(tasks, t)
        /\ SignalHasTask
    BY <1>3 DEF Submit
  <2>2. /\ Busy' = Busy
        /\ worker' \in [Worker -> {"unborn", "ready", "asleep", "running", "finishing", "exited"}]
    BY <2>1, WakingWorkers DEF IInv
  <2>3. \A i \in 1 .. k : tasks[i] # t /\ tasks[i] \in Tasks
    BY <1>1 DEF IInv, QueueIsQueued, TypeOK
  <2>4. /\ tasks' \in Seq(Tasks) /\ Len(tasks') = k + 1 /\ tasks'[k + 1] = t /\ k \in Nat
        /\ \A i \in 1 .. k : tasks'[i] = tasks[i]
    BY <2>1 DEF IInv, TypeOK
  <2>5. ActiveIsBusy'
    BY <1>1, <2>1, <2>2 DEF IInv, ActiveIsBusy, TypeOK
  <2>6. QueueIsQueued'
    <3>1. \A i \in 1 .. Len(tasks') : status'[tasks'[i]] = "queued"
      BY <2>1, <2>3, <2>4 DEF IInv, QueueIsQueued, TypeOK
    <3>2. \A u \in Tasks : status'[u] = "queued" => \E i \in 1 .. Len(tasks') : tasks'[i] = u
      <4> SUFFICES ASSUME NEW u \in Tasks, status'[u] = "queued"
                   PROVE  \E i \in 1 .. Len(tasks') : tasks'[i] = u
        OBVIOUS
      <4>1. CASE u = t
        BY <4>1, <2>4
      <4>2. CASE u # t
        <5>1. PICK i \in 1 .. k : tasks[i] = u
          BY <4>2, <2>1 DEF IInv, QueueIsQueued, TypeOK
        <5> QED BY <5>1, <2>4
      <4> QED BY <4>1, <4>2
    <3>3. \A i, j \in 1 .. Len(tasks') : tasks'[i] = tasks'[j] => i = j
      BY <2>3, <2>4 DEF IInv, QueueIsQueued
    <3> QED BY <3>1, <3>2, <3>3 DEF QueueIsQueued
  <2>7. TypeOK'
    BY <1>1, <2>1, <2>2, <2>4 DEF IInv, TypeOK
  <2>8. tasks' # <<>>
    BY <2>4, EmptySeq
  <2>9. QuietUnlessOpen' /\ NoLostIdle'
    BY <1>1, <2>8 DEF IInv, QuietUnlessOpen, NoLostIdle, Idle
  <2> QED BY <2>5, <2>6, <2>7, <2>9 DEF IInv
<1> QED BY <1>2, <1>3

(* A client's steps.                                                       *)
LEMMA ClientPreserves == ASSUME IInv, NEW c \in Clients, ClientStep(c) PROVE IInv'
<1> USE DEF owner, pool
<1>1. ASSUME NEW t \in Tasks, ClientSubmit(c, t) PROVE IInv'
  BY <1>1, SubmitPreserves DEF ClientSubmit
<1>2. CASE WaitCalled(c) \/ WaitBlocks(c) \/ WaitReturns(c)
  <2>1. Busy' = Busy /\ UNCHANGED <<owner, pool, worker, cur_task, status>>
    BY <1>2 DEF WaitCalled, WaitBlocks, WaitReturns, Busy
  <2>2. ActiveIsBusy' /\ QueueIsQueued'
    BY <2>1, NoTaskMoves
  <2>3. TypeOK' /\ QuietUnlessOpen' /\ NoLostIdle'
    BY <1>2, <2>1 DEF WaitCalled, WaitBlocks, WaitReturns, Idle, IInv, TypeOK, QuietUnlessOpen,
                      NoLostIdle
  <2> QED BY <2>2, <2>3 DEF IInv
<1> QED BY <1>1, <1>2 DEF ClientStep
-----------------------------------------------------------------------------
(* Taking a task: one more busy worker, one queued task fewer.             *)
LEMMA TakePreserves == ASSUME IInv, NEW w \in Worker, Take(w) PROVE IInv'
<1> USE DEF owner, pool
<1> DEFINE t == Head(tasks)
<1> DEFINE k == Len(tasks)
<1>1. /\ worker[w] = "ready" /\ tasks # <<>> /\ w \notin Busy
      /\ cur_task' = [cur_task EXCEPT ![w] = t] /\ tasks' = Tail(tasks)
      /\ active_tasks' = active_tasks + 1
      /\ worker' = [worker EXCEPT ![w] = "running"]
      /\ status' = [status EXCEPT ![t] = "running"]
      /\ UNCHANGED <<owner, shutdown, client>>
  BY DEF Take, MayTake, Popped, Busy
<1>2. /\ k \in Nat \ {0} /\ t = tasks[1] /\ t \in Tasks /\ status[t] = "queued"
      /\ \A i \in 1 .. k : tasks[i] \in Tasks
  <2>1. k \in Nat \ {0}
    BY <1>1, EmptySeq DEF IInv, TypeOK
  <2>2. t = tasks[1] /\ 1 \in 1 .. k /\ \A i \in 1 .. k : tasks[i] \in Tasks
    BY <1>1, <2>1 DEF IInv, TypeOK
  <2> QED BY <2>1, <2>2 DEF IInv, QueueIsQueued
<1>3. /\ tasks' \in Seq(Tasks) /\ Len(tasks') = k - 1
      /\ \A i \in 1 .. k - 1 : tasks'[i] = tasks[i + 1]
  BY <1>1, <1>2 DEF IInv, TypeOK
<1>4. Busy' = Busy \cup {w} /\ Cardinality(Busy') = Cardinality(Busy) + 1
  <2>1. Busy' = Busy \cup {w}
    BY <1>1 DEF Busy, IInv, TypeOK
  <2> QED BY <1>1, <2>1, BusyIsFinite, FS_AddElement
<1>5. active_tasks' \in 0 .. WorkerCount /\ active_tasks' > 0 /\ active_tasks' = Cardinality(Busy')
  <2>1. active_tasks' = Cardinality(Busy') /\ active_tasks' > 0
    BY <1>1, <1>4, BusyIsFinite DEF IInv, ActiveIsBusy
  <2>2. Cardinality(Busy') \in 0 .. WorkerCount
    BY BusyIsFiniteNext
  <2> QED BY <2>1, <2>2
<1>6. TypeOK'
  BY <1>1, <1>2, <1>3, <1>5 DEF IInv, TypeOK
<1>7. ActiveIsBusy'
  <2>1. \A v \in Worker : v \in Busy' <=> cur_task'[v] # NoTask
    BY <1>1, <1>2, <1>4, NoTaskAssumption DEF IInv, ActiveIsBusy, TypeOK
  <2>2. \A v \in Busy : /\ v \in Worker /\ v # w /\ cur_task'[v] = cur_task[v]
                        /\ cur_task[v] # t /\ status'[cur_task[v]] = "running"
    BY <1>1, <1>2 DEF IInv, ActiveIsBusy, TypeOK, Busy
  <2>3. cur_task'[w] = t /\ status'[t] = "running"
    BY <1>1, <1>2 DEF IInv, TypeOK
  <2>4. \A u \in Tasks : status'[u] = "running" => \E v \in Busy' : cur_task'[v] = u
    <3> SUFFICES ASSUME NEW u \in Tasks, status'[u] = "running"
                 PROVE  \E v \in Busy' : cur_task'[v] = u
      OBVIOUS
    <3>1. CASE u = t
      BY <3>1, <2>3, <1>4
    <3>2. CASE u # t
      <4>1. PICK v \in Busy : cur_task[v] = u
        BY <3>2, <1>1 DEF IInv, ActiveIsBusy, TypeOK
      <4> QED BY <4>1, <2>2, <1>4
    <3> QED BY <3>1, <3>2
  <2>5. \A v, x \in Busy : cur_task[v] = cur_task[x] => v = x
    BY DEF IInv, ActiveIsBusy
  <2>6. /\ \A v \in Busy' : status'[cur_task'[v]] = "running"
        /\ \A v, x \in Busy' : cur_task'[v] = cur_task'[x] => v = x
    BY <2>2, <2>3, <2>5, <1>4
  <2> QED BY <2>1, <2>4, <2>6, <1>5 DEF ActiveIsBusy
<1>8. QueueIsQueued'
  <2>1. /\ \A i \in 1 .. k : status[tasks[i]] = "queued"
        /\ \A u \in Tasks : status[u] = "queued" => \E i \in 1 .. k : tasks[i] = u
        /\ \A i, j \in 1 .. k : tasks[i] = tasks[j] => i = j
    BY DEF IInv, QueueIsQueued
  <2>2. \A i \in 1 .. k - 1 : /\ i + 1 \in 1 .. k /\ i + 1 # 1
                              /\ tasks'[i] = tasks[i + 1] /\ tasks'[i] # t
    BY <1>2, <1>3, <2>1
  <2>3. \A i \in 1 .. Len(tasks') : status'[tasks'[i]] = "queued"
    BY <1>1, <1>2, <1>3, <2>1, <2>2 DEF IInv, TypeOK
  <2>4. \A u \in Tasks : status'[u] = "queued" => \E i \in 1 .. Len(tasks') : tasks'[i] = u
    <3> SUFFICES ASSUME NEW u \in Tasks, status'[u] = "queued"
                 PROVE  \E i \in 1 .. Len(tasks') : tasks'[i] = u
      OBVIOUS
    <3>1. u # t /\ status[u] = "queued"
      BY <1>1 DEF IInv, TypeOK
    <3>2. PICK i \in 1 .. k : tasks[i] = u
      BY <3>1, <2>1
    <3>3. i # 1 /\ i - 1 \in 1 .. k - 1 /\ (i - 1) + 1 = i
      BY <3>1, <3>2, <1>2
    <3> QED BY <3>2, <3>3, <1>3
  <2>5. \A i, j \in 1 .. Len(tasks') : tasks'[i] = tasks'[j] => i = j
    BY <1>2, <1>3, <2>1, <2>2
  <2> QED BY <2>3, <2>4, <2>5 DEF QueueIsQueued
<1>9. phase \notin {"none", "acquiring", "spawning", "unwinding"}
  BY <1>1 DEF IInv, QuietUnlessOpen
<1>10. QuietUnlessOpen' /\ NoLostIdle'
  BY <1>1, <1>5, <1>9 DEF IInv, QuietUnlessOpen, NoLostIdle, Idle
<1> QED BY <1>6, <1>7, <1>8, <1>10 DEF IInv

(* Accounting for a task that has returned: one busy worker fewer.         *)
LEMMA FinishPreserves == ASSUME IInv, NEW w \in Worker, Finish(w) PROVE IInv'
<1> USE DEF owner, pool
<1> DEFINE t == cur_task[w]
<1>1. /\ worker[w] = "finishing" /\ w \in Busy
      /\ active_tasks' = active_tasks - 1
      /\ BroadcastIdleIf(Idle(tasks, active_tasks - 1))
      /\ status' = [status EXCEPT ![t] = "done"]
      /\ cur_task' = [cur_task EXCEPT ![w] = NoTask]
      /\ worker' = [worker EXCEPT ![w] = "ready"]
      /\ UNCHANGED <<owner, tasks, shutdown>>
  BY DEF Finish, ActiveAfter, IdleAfter, Busy
<1>2. t \in Tasks /\ status[t] = "running"
  BY <1>1 DEF IInv, ActiveIsBusy, TypeOK
<1>3. Busy' = Busy \ {w} /\ Cardinality(Busy') = Cardinality(Busy) - 1
  <2>1. Busy' = Busy \ {w}
    BY <1>1 DEF Busy, IInv, TypeOK
  <2> QED BY <1>1, <2>1, BusyIsFinite, FS_RemoveElement
<1>4. active_tasks' \in 0 .. WorkerCount /\ active_tasks' = Cardinality(Busy')
  <2>1. active_tasks' = Cardinality(Busy')
    BY <1>1, <1>3 DEF IInv, ActiveIsBusy
  <2> QED BY <2>1, BusyIsFiniteNext
<1>5. /\ client' \in [Clients -> {"out", "waiting", "blocked"}]
      /\ \A c \in Clients : client[c] = "out" => client'[c] = "out"
      /\ \A c \in Clients : client'[c] = "blocked" => ~Idle(tasks, active_tasks - 1)
  BY <1>1, WakingClients DEF IInv, Idle
<1>6. TypeOK'
  BY <1>1, <1>2, <1>4, <1>5 DEF IInv, TypeOK
<1>7. ActiveIsBusy'
  <2>1. \A v \in Worker : v \in Busy' <=> cur_task'[v] # NoTask
    BY <1>1, <1>3 DEF IInv, ActiveIsBusy, TypeOK
  <2>2. \A v \in Busy' : /\ v \in Busy /\ v # w /\ v \in Worker
                         /\ cur_task'[v] = cur_task[v] /\ cur_task[v] # t /\ cur_task[v] \in Tasks
    BY <1>1, <1>3 DEF IInv, ActiveIsBusy, TypeOK, Busy
  <2>3. \A v \in Busy' : status'[cur_task'[v]] = "running"
    BY <2>2, <1>1 DEF IInv, ActiveIsBusy, TypeOK
  <2>4. \A u \in Tasks : status'[u] = "running" => \E v \in Busy' : cur_task'[v] = u
    <3> SUFFICES ASSUME NEW u \in Tasks, status'[u] = "running"
                 PROVE  \E v \in Busy' : cur_task'[v] = u
      OBVIOUS
    <3>1. u # t /\ status[u] = "running"
      BY <1>1, <1>2 DEF IInv, TypeOK
    <3>2. PICK v \in Busy : cur_task[v] = u
      BY <3>1 DEF IInv, ActiveIsBusy
    <3> QED BY <3>1, <3>2, <1>3, <2>2
  <2>5. \A v, x \in Busy' : cur_task'[v] = cur_task'[x] => v = x
    BY <2>2 DEF IInv, ActiveIsBusy
  <2> QED BY <2>1, <2>3, <2>4, <2>5, <1>4 DEF ActiveIsBusy
<1>8. QueueIsQueued'
  <2>1. \A i \in 1 .. Len(tasks) : tasks[i] \in Tasks /\ tasks[i] # t
    BY <1>2 DEF IInv, TypeOK, QueueIsQueued
  <2> QED BY <1>1, <1>2, <2>1 DEF IInv, QueueIsQueued, TypeOK
<1>9. phase \notin {"none", "acquiring", "spawning", "unwinding"}
  BY <1>1 DEF IInv, QuietUnlessOpen
<1>10. QuietUnlessOpen' /\ NoLostIdle'
  BY <1>1, <1>5, <1>9 DEF IInv, QuietUnlessOpen, NoLostIdle
<1> QED BY <1>6, <1>7, <1>8, <1>10 DEF IInv

(* A worker's steps.                                                       *)
LEMMA WorkerPreserves == ASSUME IInv, NEW w \in Worker, WorkerStep(w) PROVE IInv'
<1> USE DEF owner, pool
<1>1. CASE Sleep(w) \/ TaskReturns(w)
  <2>1. Busy' = Busy
    BY <1>1 DEF Sleep, TaskReturns, Busy, IInv, TypeOK
  <2>2. ActiveIsBusy' /\ QueueIsQueued'
    BY <1>1, <2>1, NoTaskMoves DEF Sleep, TaskReturns
  <2>3. TypeOK' /\ QuietUnlessOpen' /\ NoLostIdle'
    BY <1>1, <2>1 DEF Sleep, TaskReturns, IInv, TypeOK, QuietUnlessOpen, NoLostIdle
  <2> QED BY <2>2, <2>3 DEF IInv
<1>2. CASE Exit(w)
  <2>1. Busy' = Busy
    BY <1>2 DEF Exit, Busy, IInv, TypeOK
  <2>2. ActiveIsBusy' /\ QueueIsQueued'
    BY <1>2, <2>1, NoTaskMoves DEF Exit
  <2>3. Idle(tasks, active_tasks) \in BOOLEAN /\ BroadcastIdleIf(Idle(tasks, active_tasks))
    BY <1>2 DEF Exit, Idle
  <2>4. /\ client' \in [Clients -> {"out", "waiting", "blocked"}]
        /\ \A c \in Clients : client[c] = "out" => client'[c] = "out"
        /\ \A c \in Clients : client'[c] = "blocked" => client[c] = "blocked"
    BY <2>3, WakingClients DEF IInv
  <2>5. TypeOK' /\ QuietUnlessOpen' /\ NoLostIdle'
    BY <1>2, <2>1, <2>4 DEF Exit, IInv, TypeOK, QuietUnlessOpen, NoLostIdle
  <2> QED BY <2>2, <2>5 DEF IInv
<1> QED BY <1>1, <1>2, TakePreserves, FinishPreserves DEF WorkerStep

(* Every step keeps the invariant.                                         *)
LEMMA NextPreserves == IInv /\ [Next]_vars => IInv'
<1> SUFFICES ASSUME IInv, [Next]_vars PROVE IInv'
  OBVIOUS
<1> USE DEF owner, pool
<1>1. ASSUME NEW w \in Worker, NEW t \in Tasks, TaskSubmits(w, t) PROVE IInv'
  <2>1. w \in Busy
    BY <1>1 DEF TaskSubmits, Busy
  <2>2. phase \notin {"none", "acquiring", "spawning", "unwinding"}
    BY <2>1 DEF IInv, QuietUnlessOpen
  <2> QED BY <1>1, <2>2, SubmitPreserves DEF TaskSubmits
<1>2. CASE SpuriousWakeup /\ UNCHANGED <<owner, pool, cur_task, status>>
  <2>1. Busy' = Busy
    BY <1>2 DEF SpuriousWakeup, Asleep, Busy, IInv, TypeOK
  <2>2. ActiveIsBusy' /\ QueueIsQueued'
    BY <1>2, <2>1, NoTaskMoves
  <2>3. /\ client' \in [Clients -> {"out", "waiting", "blocked"}]
        /\ worker' \in [Worker -> {"unborn", "ready", "asleep", "running", "finishing", "exited"}]
        /\ \A c \in Clients : client[c] = "out" => client'[c] = "out"
        /\ \A c \in Clients : client'[c] = "blocked" => client[c] = "blocked"
    BY <1>2 DEF SpuriousWakeup, Asleep, IInv, TypeOK
  <2>4. TypeOK' /\ QuietUnlessOpen' /\ NoLostIdle'
    BY <1>2, <2>1, <2>3 DEF IInv, TypeOK, QuietUnlessOpen, NoLostIdle
  <2> QED BY <2>2, <2>4 DEF IInv
<1>3. CASE UNCHANGED vars
  <2>1. Busy' = Busy /\ UNCHANGED <<owner, pool, worker, cur_task, client, status>>
    BY <1>3 DEF vars, Busy
  <2>2. ActiveIsBusy' /\ QueueIsQueued'
    BY <2>1, NoTaskMoves
  <2>3. TypeOK' /\ QuietUnlessOpen' /\ NoLostIdle'
    BY <2>1 DEF IInv, TypeOK, QuietUnlessOpen, NoLostIdle
  <2> QED BY <2>2, <2>3 DEF IInv
<1> QED BY <1>1, <1>2, <1>3, OwnerPreserves, ClientPreserves, WorkerPreserves DEF Next, Terminated

(* The inductive invariant holds of every behaviour.                       *)
LEMMA InvariantHolds == Spec => []IInv
  BY InitEstablishes, NextPreserves, PTL DEF Spec
-----------------------------------------------------------------------------
(* The variables of the pool have their types.                             *)
THEOREM TypesHold == Spec => []TypeOK
<1>1. IInv => TypeOK
  BY DEF IInv
<1> QED BY <1>1, InvariantHolds, PTL

(* active_tasks is the number of workers that have taken a task and not    *)
(* yet accounted for its end (thread_pool_worker_main).                    *)
THEOREM ActiveCountsBusy == Spec => []ActiveIsBusy
<1>1. IInv => ActiveIsBusy
  BY DEF IInv
<1> QED BY <1>1, InvariantHolds, PTL

(* Nobody is blocked in thread_pool_wait while the pool is idle.           *)
THEOREM NoIdleWakeupIsLost == Spec => []NoLostIdle
<1>1. IInv => NoLostIdle
  BY DEF IInv
<1> QED BY <1>1, InvariantHolds, PTL

(* thread_pool_wait returns only when nothing is queued and nothing runs.  *)
THEOREM WaitReturnsIdle == Spec => WaitMeansIdle
<1>1. ASSUME IInv, [Next]_vars, NEW c \in Clients, client[c] = "waiting", client'[c] = "out",
             NEW t \in Tasks
      PROVE  status[t] \notin {"queued", "running"}
  <2>1. Idle(tasks, active_tasks)
    <3>1. CASE UNCHANGED client
      BY <3>1, <1>1
    <3>2. ASSUME NEW d \in Clients, WaitCalled(d) \/ WaitBlocks(d) \/ WaitReturns(d)
          PROVE  Idle(tasks, active_tasks)
      BY <3>2, <1>1 DEF WaitCalled, WaitBlocks, WaitReturns, IInv, TypeOK
    <3>3. ASSUME NEW b, BroadcastIdleIf(b) PROVE FALSE
      BY <3>3, <1>1 DEF BroadcastIdleIf
    <3>4. CASE SpuriousWakeup
      BY <3>4, <1>1 DEF SpuriousWakeup, IInv, TypeOK
    <3>5. CASE OwnerStep
      <4>1. UNCHANGED client
        BY <3>5 DEF OwnerStep, CreateCalled, Acquire, AcquireFails, Spawn, SpawnFails, CreateReturns,
                    DestroyCalled, Join, RollbackReturns, DestroyReturns, pool
      <4> QED BY <4>1, <3>1
    <3>6. ASSUME NEW d \in Clients, ClientStep(d) PROVE Idle(tasks, active_tasks)
      BY <3>1, <3>2, <3>6 DEF ClientStep, ClientSubmit, Submit
    <3>7. ASSUME NEW w \in Worker, WorkerStep(w) \/ \E u \in Tasks : TaskSubmits(w, u)
          PROVE  Idle(tasks, active_tasks)
      BY <3>1, <3>3, <3>7 DEF WorkerStep, Sleep, Take, TaskReturns, Finish, Exit, TaskSubmits, Submit
    <3> QED BY <3>1, <3>4, <3>5, <3>6, <3>7, <1>1 DEF Next, Terminated, vars
  <2>2. Busy = {}
    BY <1>1, <2>1, BusyIsFinite DEF Idle, IInv, ActiveIsBusy
  <2>3. Len(tasks) = 0
    BY <2>1 DEF Idle
  <2> QED BY <1>1, <2>2, <2>3 DEF IInv, ActiveIsBusy, QueueIsQueued
<1>2. IInv /\ [Next]_vars =>
        [\A c \in Clients : client[c] = "waiting" /\ client'[c] = "out"
           => \A t \in Tasks : status[t] \notin {"queued", "running"}]_vars
  BY <1>1
<1> QED BY <1>2, InvariantHolds, PTL DEF Spec, WaitMeansIdle
-----------------------------------------------------------------------------
(* What the owner has, at each point of its life, and who can still use    *)
(* it: threads are created in order and joined in order, objects are held  *)
(* from the first allocation on, and shutdown is set before any join.      *)
ThreadsInOrder ==
    /\ joined <= worker_count
    /\ \A w \in Worker : /\ w <= joined => worker[w] = "exited"
                         /\ w > worker_count => worker[w] = "unborn"
    /\ phase \in {"open", "closing"} => worker_count = WorkerCount
    /\ phase \in {"none", "acquiring", "destroyed"} =>
          \A w \in Worker : worker[w] \in {"unborn", "exited"}

ObjectsByPhase ==
    /\ phase \in {"none", "destroyed"} => held = {}
    /\ phase = "acquiring" => \E k \in 1 .. 5 : held = {Objects[i] : i \in 1 .. k - 1}
    /\ phase \in {"spawning", "unwinding", "open", "closing"} =>
          held = {Objects[k] : k \in 1 .. 5}

ShutdownByPhase ==
    /\ phase \in {"spawning", "open"} => ~shutdown
    /\ phase \in {"unwinding", "closing", "destroyed"} => shutdown

Lifecycle == ThreadsInOrder /\ ObjectsByPhase /\ ShutdownByPhase
-----------------------------------------------------------------------------
(* Only the owner creates, joins, acquires or shuts down, and a thread not *)
(* created yet, or gone, takes no step.                                    *)
LEMMA OthersLeaveLifecycle ==
  ASSUME IInv, Lifecycle, UNCHANGED <<owner, shutdown>>,
         \A w \in Worker : worker[w] \in {"unborn", "exited"} => worker'[w] = worker[w]
  PROVE  Lifecycle'
<1> USE DEF owner
<1>1. ThreadsInOrder'
  BY DEF Lifecycle, ThreadsInOrder
<1>2. ObjectsByPhase' /\ ShutdownByPhase'
  BY DEF Lifecycle, ObjectsByPhase, ShutdownByPhase
<1> QED BY <1>1, <1>2 DEF Lifecycle

LEMMA OwnerKeepsLifecycle == ASSUME IInv, Lifecycle, OwnerStep PROVE Lifecycle'
<1>1. /\ worker \in [Worker -> {"unborn", "ready", "asleep", "running", "finishing", "exited"}]
      /\ worker_count \in 0 .. WorkerCount /\ joined \in 0 .. WorkerCount /\ WorkerCount \in Nat
      /\ \A w \in Worker : w \in 1 .. WorkerCount
  BY WorkerCountAssumption DEF IInv, TypeOK, Worker
<1>2. CASE CreateCalled
  <2>1. held = {} /\ {Objects[i] : i \in 1 .. 1 - 1} = {}
    BY <1>2 DEF CreateCalled, Lifecycle, ObjectsByPhase
  <2>2. ObjectsByPhase'
    BY <1>2, <2>1 DEF CreateCalled, ObjectsByPhase
  <2> QED BY <1>2, <2>2 DEF pool, CreateCalled, Lifecycle, ThreadsInOrder, ShutdownByPhase
<1>3. CASE Acquire
  <2>1. PICK k \in 1 .. 5 :
           /\ held = {Objects[i] : i \in 1 .. k - 1}
           /\ held' = held \cup {Objects[k]}
           /\ IF k < 5
              THEN UNCHANGED <<pool, phase, worker_count, joined, worker>>
              ELSE /\ phase' = "spawning"
                   /\ worker_count' = 0 /\ shutdown' = FALSE /\ active_tasks' = 0
                   /\ tasks' = <<>> /\ joined' = 0
                   /\ worker' = [w \in Worker |-> "unborn"]
    BY <1>3, Zenon DEF Acquire
  <2>2. held' = {Objects[i] : i \in 1 .. k} /\ phase = "acquiring"
    BY <1>3, <2>1 DEF Acquire
  <2>3. CASE k < 5
    <3>1. k + 1 \in 1 .. 5 /\ 1 .. (k + 1) - 1 = 1 .. k
      BY <2>3
    <3>2. held' = {Objects[i] : i \in 1 .. (k + 1) - 1}
      BY <3>1, <2>2
    <3>3. phase' = "acquiring"
      BY <2>1, <2>2, <2>3
    <3>4. ObjectsByPhase'
      BY <3>1, <3>2, <3>3 DEF ObjectsByPhase
    <3> QED BY <2>1, <2>3, <3>4 DEF pool, Lifecycle, ThreadsInOrder, ShutdownByPhase
  <2>4. CASE k = 5
    <3>1. ObjectsByPhase' /\ ShutdownByPhase'
      BY <2>1, <2>2, <2>4 DEF ObjectsByPhase, ShutdownByPhase
    <3>2. /\ worker_count' = 0 /\ joined' = 0 /\ phase' = "spawning"
          /\ \A w \in Worker : worker'[w] = "unborn" /\ ~(w <= 0)
      BY <2>1, <2>4, <1>1
    <3> QED BY <3>1, <3>2 DEF Lifecycle, ThreadsInOrder
  <2> QED BY <2>3, <2>4
<1>4. CASE AcquireFails
  <2>1. PICK k \in 1 .. 5 :
           held = {Objects[i] : i \in 1 .. k - 1} /\ held' = held \ ReleasedOnFailure[k]
    BY <1>4 DEF AcquireFails
  <2>2. held' = {}
    <3>1. k \in {1, 2, 3, 4, 5}
      BY <2>1
    <3>2. \A i \in 1 .. k - 1 : Objects[i] \in ReleasedOnFailure[k]
      <4>1. CASE k = 1
        BY <4>1
      <4>2. CASE k = 2
        BY <4>2 DEF Objects, ReleasedOnFailure
      <4>3. CASE k = 3
        BY <4>3 DEF Objects, ReleasedOnFailure
      <4>4. CASE k = 4
        BY <4>4 DEF Objects, ReleasedOnFailure
      <4>5. CASE k = 5
        BY <4>5 DEF Objects, ReleasedOnFailure
      <4> QED BY <3>1, <4>1, <4>2, <4>3, <4>4, <4>5
    <3> QED BY <2>1, <3>2
  <2> QED
    BY <1>4, <2>2 DEF pool, AcquireFails, Lifecycle, ThreadsInOrder, ObjectsByPhase, ShutdownByPhase
<1>5. CASE Spawn
  <2>1. /\ phase = "spawning" /\ phase' = "spawning" /\ worker_count < WorkerCount
        /\ worker_count' = worker_count + 1 /\ joined' = joined
        /\ worker' = [worker EXCEPT ![worker_count + 1] = "ready"]
    BY <1>5 DEF Spawn
  <2>2. \A w \in Worker : /\ w > worker_count' => w > worker_count /\ w # worker_count + 1
                          /\ w <= joined => w # worker_count + 1
    BY <1>1, <2>1 DEF Lifecycle, ThreadsInOrder
  <2>3. joined' <= worker_count'
    BY <1>1, <2>1 DEF Lifecycle, ThreadsInOrder
  <2>4. ThreadsInOrder'
    BY <1>1, <2>1, <2>2, <2>3 DEF Lifecycle, ThreadsInOrder
  <2> QED BY <1>5, <2>4 DEF pool, Spawn, Lifecycle, ObjectsByPhase, ShutdownByPhase
<1>6. CASE SpawnFails \/ DestroyCalled
  <2>1. \A w \in Worker : worker[w] \in {"unborn", "exited"} => worker'[w] = worker[w]
    BY <1>6 DEF SpawnFails, DestroyCalled, BroadcastHasTask, Asleep
  <2> QED
    BY <1>6, <2>1 DEF SpawnFails, DestroyCalled, Lifecycle, ThreadsInOrder, ObjectsByPhase,
                      ShutdownByPhase
<1>7. CASE CreateReturns
  BY <1>7 DEF pool, CreateReturns, Lifecycle, ThreadsInOrder, ObjectsByPhase, ShutdownByPhase
<1>8. CASE Join
  <2>1. /\ joined < worker_count /\ joined' = joined + 1 /\ worker[joined + 1] = "exited"
        /\ UNCHANGED <<phase, worker_count, worker>>
    BY <1>8 DEF Join
  <2>2. /\ joined' <= worker_count'
        /\ \A w \in Worker : w <= joined' => w <= joined \/ w = joined + 1
    BY <1>1, <2>1
  <2>3. ThreadsInOrder'
    BY <2>1, <2>2 DEF Lifecycle, ThreadsInOrder
  <2> QED BY <1>8, <2>3 DEF pool, Join, Lifecycle, ObjectsByPhase, ShutdownByPhase
<1>9. CASE RollbackReturns \/ DestroyReturns
  <2>1. /\ held = {Objects[k] : k \in 1 .. 5}
        /\ held' = held \ {"idle", "has_task", "mutex", "threads", "pool"}
        /\ UNCHANGED <<worker_count, joined, worker, shutdown>> /\ shutdown
        /\ phase' \in {"none", "destroyed"}
    BY <1>9 DEF pool, RollbackReturns, DestroyReturns, Lifecycle, ObjectsByPhase, ShutdownByPhase
  <2>2. held' = {}
    <3>1. \A k \in 1 .. 5 : Objects[k] \in {"idle", "has_task", "mutex", "threads", "pool"}
      <4>1. \A k \in 1 .. 5 : k \in {1, 2, 3, 4, 5}
        OBVIOUS
      <4> QED BY <4>1 DEF Objects
    <3> QED BY <2>1, <3>1
  <2>3. \A w \in Worker : w <= joined \/ w > worker_count
    BY <1>1, <1>9 DEF RollbackReturns, DestroyReturns
  <2>4. ThreadsInOrder'
    BY <2>1, <2>3 DEF Lifecycle, ThreadsInOrder
  <2> QED BY <2>1, <2>2, <2>4 DEF Lifecycle, ObjectsByPhase, ShutdownByPhase
<1> QED BY <1>2, <1>3, <1>4, <1>5, <1>6, <1>7, <1>8, <1>9 DEF OwnerStep

LEMMA LifecyclePreserved == IInv /\ Lifecycle /\ [Next]_vars => Lifecycle'
<1> SUFFICES ASSUME IInv, Lifecycle, [Next]_vars PROVE Lifecycle'
  OBVIOUS
<1> USE DEF owner, pool
<1>1. ASSUME NEW t \in Tasks, Submit(t) PROVE Lifecycle'
  <2>1. UNCHANGED <<owner, shutdown>>
    BY <1>1 DEF Submit
  <2>2. \A w \in Worker : worker[w] \in {"unborn", "exited"} => worker'[w] = worker[w]
    BY <1>1 DEF Submit, SignalHasTask, Asleep, IInv, TypeOK
  <2> QED BY <2>1, <2>2, OthersLeaveLifecycle
<1>2. ASSUME NEW c \in Clients, ClientStep(c) PROVE Lifecycle'
  <2>1. CASE WaitCalled(c) \/ WaitBlocks(c) \/ WaitReturns(c)
    BY <2>1, OthersLeaveLifecycle DEF WaitCalled, WaitBlocks, WaitReturns
  <2> QED BY <1>1, <1>2, <2>1 DEF ClientStep, ClientSubmit
<1>3. ASSUME NEW w \in Worker, WorkerStep(w) PROVE Lifecycle'
  <2>1. UNCHANGED <<owner, shutdown>>
    BY <1>3 DEF WorkerStep, Sleep, Take, TaskReturns, Finish, Exit
  <2>2. \A v \in Worker : worker[v] \in {"unborn", "exited"} => worker'[v] = worker[v]
    BY <1>3 DEF WorkerStep, Sleep, Take, TaskReturns, Finish, Exit, IInv, TypeOK
  <2> QED BY <2>1, <2>2, OthersLeaveLifecycle
<1>4. CASE SpuriousWakeup /\ UNCHANGED <<owner, pool, cur_task, status>>
  <2>1. \A v \in Worker : worker[v] \in {"unborn", "exited"} => worker'[v] = worker[v]
    BY <1>4 DEF SpuriousWakeup, Asleep, IInv, TypeOK
  <2> QED BY <1>4, <2>1, OthersLeaveLifecycle
<1>5. CASE UNCHANGED vars
  BY <1>5, OthersLeaveLifecycle DEF vars
<1> QED
  BY <1>1, <1>2, <1>3, <1>4, <1>5, OwnerKeepsLifecycle DEF Next, Terminated, TaskSubmits

LEMMA InitStartsLifecycle == Init => Lifecycle
<1> SUFFICES ASSUME Init PROVE Lifecycle
  OBVIOUS
<1>1. \A w \in Worker : worker[w] = "unborn" /\ ~(w <= 0)
  BY WorkerCountAssumption DEF Init, Worker
<1> QED BY <1>1 DEF Init, Lifecycle, ThreadsInOrder, ObjectsByPhase, ShutdownByPhase

LEMMA LifecycleHolds == Spec => [](IInv /\ Lifecycle)
  BY InitEstablishes, NextPreserves, InitStartsLifecycle, LifecyclePreserved, PTL DEF Spec

(* thread_pool_create and thread_pool_destroy: the pool and everything it  *)
(* is made of outlive every thread and every caller that can use them,     *)
(* whichever step of the creation fails, and nothing is leaked.            *)
THEOREM PoolIsKept == Spec => []PoolOutlivesUsers
<1>1. IInv /\ Lifecycle => PoolOutlivesUsers
  <2> SUFFICES ASSUME IInv, Lifecycle PROVE PoolOutlivesUsers
    OBVIOUS
  <2>1. CASE phase \in {"spawning", "unwinding", "open", "closing"}
    BY <2>1 DEF Lifecycle, ObjectsByPhase, PoolOutlivesUsers
  <2>2. CASE phase \in {"none", "acquiring", "destroyed"}
    BY <2>2 DEF IInv, QuietUnlessOpen, Lifecycle, ObjectsByPhase, ThreadsInOrder, PoolOutlivesUsers
  <2> QED BY <2>1, <2>2 DEF IInv, TypeOK
<1> QED BY <1>1, LifecycleHolds, PTL
-----------------------------------------------------------------------------
(* The refinement of TaskPool.  What its variables are made of does not    *)
(* change in a step that only moves threads: a stutter of the interface.   *)
LEMMA Stutters ==
  ASSUME UNCHANGED <<tasks, status>>,
         phase \in {"closing", "destroyed"} <=> phase' \in {"closing", "destroyed"},
         \A c \in Clients : client[c] = "out" <=> client'[c] = "out"
  PROVE  UNCHANGED Interface!vars
<1>1. (phase \in {"closing", "destroyed"})' = (phase \in {"closing", "destroyed"})
  OBVIOUS
<1>2. {c \in Clients : client[c] # "out"}' = {c \in Clients : client[c] # "out"}
  OBVIOUS
<1> QED BY <1>1, <1>2 DEF Interface!vars

(* Cardinality means the same in the interface.                            *)
LEMMA SameCardinality == \A S : Interface!Cardinality(S) = Cardinality(S)
  BY DEF Interface!Cardinality, Cardinality

(* As many tasks run as workers are busy with one.                         *)
LEMMA RunningIsBusy ==
  ASSUME IInv
  PROVE  /\ Interface!Running = {cur_task[w] : w \in Busy}
         /\ IsFiniteSet(Interface!Running)
         /\ Cardinality(Interface!Running) <= Cardinality(Busy)
<1> DEFINE f == [w \in Busy |-> cur_task[w]]
<1>1. Interface!Running = {cur_task[w] : w \in Busy}
  <2>1. \A w \in Busy : cur_task[w] \in Tasks /\ status[cur_task[w]] = "running"
    BY DEF IInv, TypeOK, ActiveIsBusy, Busy
  <2>2. \A t \in Tasks : status[t] = "running" => \E w \in Busy : cur_task[w] = t
    BY DEF IInv, ActiveIsBusy
  <2> QED BY <2>1, <2>2 DEF Interface!Running
<1>2. f \in Surjection(Busy, Interface!Running)
  BY <1>1 DEF Surjection
<1> QED BY <1>1, <1>2, BusyIsFinite, FS_Surjection

LEMMA SubmitRefines ==
  ASSUME IInv, Lifecycle, NEW t \in Tasks, Submit(t), phase \in {"open", "closing"}
  PROVE  Interface!Accept(t) \/ Interface!Reject(t)
<1> USE DEF owner
<1>1. status[t] = "new" /\ UNCHANGED <<phase, client>>
  BY DEF Submit
<1>2. /\ (phase \in {"closing", "destroyed"})' = (phase \in {"closing", "destroyed"})
      /\ {c \in Clients : client[c] # "out"}' = {c \in Clients : client[c] # "out"}
  BY <1>1
<1>3. CASE shutdown
  <2>1. phase \in {"closing", "destroyed"}
    BY <1>3 DEF Lifecycle, ShutdownByPhase
  <2>2. status' = [status EXCEPT ![t] = "rejected"] /\ tasks' = tasks
    BY <1>3 DEF Submit
  <2> QED BY <1>1, <1>2, <2>1, <2>2 DEF Interface!Reject
<1>4. CASE ~shutdown
  <2>1. ~(phase \in {"closing", "destroyed"})
    BY <1>4 DEF Lifecycle, ShutdownByPhase
  <2>2. status' = [status EXCEPT ![t] = "queued"] /\ tasks' = Append(tasks, t)
    BY <1>4 DEF Submit
  <2> QED BY <1>1, <1>2, <2>1, <2>2 DEF Interface!Accept
<1> QED BY <1>3, <1>4

LEMMA OwnerRefines ==
  ASSUME IInv, Lifecycle, OwnerStep
  PROVE  Interface!Close \/ Interface!Discard \/ UNCHANGED Interface!vars
<1>1. CASE DestroyCalled
  <2>1. /\ \A c \in Clients : client[c] = "out" /\ phase' = "closing"
        /\ UNCHANGED <<tasks, status, client>>
    BY <1>1 DEF DestroyCalled
  <2>2. {c \in Clients : client[c] # "out"} = {} /\ {c \in Clients : client[c] # "out"}' = {}
    BY <2>1
  <2>3. (phase \in {"closing", "destroyed"})' = TRUE
    BY <1>1 DEF DestroyCalled
  <2> QED BY <2>1, <2>2, <2>3 DEF Interface!Close
<1>2. CASE DestroyReturns
  <2>1. /\ phase = "closing" /\ phase' = "destroyed" /\ joined = worker_count /\ client' = client
        /\ tasks' = <<>>
        /\ status' = [t \in Tasks |->
                        IF \E i \in 1 .. Len(tasks) : tasks[i] = t THEN "discarded" ELSE status[t]]
    BY <1>2 DEF DestroyReturns
  <2>2. /\ (phase \in {"closing", "destroyed"})' = (phase \in {"closing", "destroyed"})
        /\ {c \in Clients : client[c] # "out"}' = {c \in Clients : client[c] # "out"}
        /\ phase \in {"closing", "destroyed"}
    BY <2>1
  <2>3. Busy = {}
    BY <2>1 DEF Busy, Worker, Lifecycle, ThreadsInOrder
  <2>4. Interface!Running = {}
    BY <2>3, RunningIsBusy
  <2>5. \A t \in Tasks : status[t] = "queued" <=> \E i \in 1 .. Len(tasks) : tasks[i] = t
    BY DEF IInv, QueueIsQueued
  <2>6. status' = [t \in Tasks |-> IF status[t] = "queued" THEN "discarded" ELSE status[t]]
    BY <2>1, <2>5
  <2> QED BY <2>1, <2>2, <2>4, <2>6 DEF Interface!Discard
<1>3. CASE ~DestroyCalled /\ ~DestroyReturns
  <2>1. /\ UNCHANGED <<tasks, status, client>>
        /\ phase \in {"closing", "destroyed"} <=> phase' \in {"closing", "destroyed"}
    <3>1. CASE Acquire
      BY <3>1 DEF Acquire, pool, IInv, QuietUnlessOpen
    <3> QED BY <1>3, <3>1 DEF OwnerStep, CreateCalled, AcquireFails, Spawn, SpawnFails,
                              CreateReturns, Join, RollbackReturns, pool
  <2> QED BY <2>1, Stutters
<1> QED BY <1>1, <1>2, <1>3

LEMMA ClientRefines ==
  ASSUME IInv, Lifecycle, NEW c \in Clients, ClientStep(c)
  PROVE  \/ \E t \in Tasks : Interface!Accept(t) \/ Interface!Reject(t)
         \/ Interface!Wait(c) \/ Interface!WaitReturns(c) \/ UNCHANGED Interface!vars
<1> USE DEF owner, pool
<1>1. ASSUME NEW t \in Tasks, ClientSubmit(c, t)
      PROVE  Interface!Accept(t) \/ Interface!Reject(t)
  BY <1>1, SubmitRefines DEF ClientSubmit
<1>2. ASSUME UNCHANGED phase
      PROVE  (phase \in {"closing", "destroyed"})' = (phase \in {"closing", "destroyed"})
  BY <1>2
<1>3. CASE WaitCalled(c)
  <2>1. {d \in Clients : client[d] # "out"}' = {d \in Clients : client[d] # "out"} \cup {c}
    BY <1>3 DEF WaitCalled, IInv, TypeOK
  <2> QED BY <1>2, <1>3, <2>1 DEF WaitCalled, Interface!Wait
<1>4. CASE WaitBlocks(c)
  BY <1>4, Stutters DEF WaitBlocks, IInv, TypeOK
<1>5. CASE WaitReturns(c)
  <2>1. {d \in Clients : client[d] # "out"}' = {d \in Clients : client[d] # "out"} \ {c}
    BY <1>5 DEF WaitReturns, IInv, TypeOK
  <2>2. tasks = <<>> /\ Busy = {}
    BY <1>5, BusyIsFinite DEF WaitReturns, Idle, IInv, ActiveIsBusy
  <2>3. Interface!Running = {}
    BY <2>2, RunningIsBusy
  <2> QED BY <1>2, <1>5, <2>1, <2>2, <2>3 DEF WaitReturns, Interface!WaitReturns
<1> QED BY <1>1, <1>3, <1>4, <1>5 DEF ClientStep

LEMMA WorkerRefines ==
  ASSUME IInv, Lifecycle, NEW w \in Worker, WorkerStep(w)
  PROVE  \/ Interface!Start \/ UNCHANGED Interface!vars
         \/ \E t \in Tasks : Interface!Finish(t)
<1> USE DEF owner, pool
<1>1. UNCHANGED phase
  BY DEF WorkerStep, Sleep, Take, TaskReturns, Finish, Exit
<1>2. (phase \in {"closing", "destroyed"})' = (phase \in {"closing", "destroyed"})
  BY <1>1
<1>3. ASSUME NEW b, BroadcastIdleIf(b)
      PROVE  \A c \in Clients : client[c] = "out" <=> client'[c] = "out"
  BY <1>3 DEF BroadcastIdleIf, IInv, TypeOK
<1>4. CASE Take(w)
  <2>1. /\ worker[w] = "ready" /\ tasks # <<>> /\ ~shutdown /\ client' = client
        /\ status' = [status EXCEPT ![Head(tasks)] = "running"] /\ tasks' = Tail(tasks)
    BY <1>4 DEF Take, MayTake, Popped
  <2>2. ~(phase \in {"closing", "destroyed"})
    BY <2>1 DEF Lifecycle, ShutdownByPhase
  <2>3. Cardinality(Interface!Running) < WorkerCount
    <3>1. Cardinality(Busy) < WorkerCount
      <4>1. Busy' = Busy \cup {w} /\ w \notin Busy
        BY <1>4 DEF Take, Busy, IInv, TypeOK
      <4>2. Cardinality(Busy') = Cardinality(Busy) + 1
        BY <4>1, BusyIsFinite, FS_AddElement
      <4> QED BY <4>2, BusyIsFinite, BusyIsFiniteNext, WorkerCountAssumption
    <3>2. Cardinality(Interface!Running) \in Nat /\ Cardinality(Interface!Running) <= Cardinality(Busy)
      BY RunningIsBusy, FS_CardinalityType
    <3> QED BY <3>1, <3>2, BusyIsFinite, WorkerCountAssumption
  <2>4. {c \in Clients : client[c] # "out"}' = {c \in Clients : client[c] # "out"}
    BY <2>1
  <2> QED BY <1>2, <2>1, <2>2, <2>3, <2>4, SameCardinality DEF Interface!Start
<1>5. CASE Finish(w)
  <2>1. cur_task[w] \in Tasks /\ status[cur_task[w]] = "running"
    BY <1>5 DEF Finish, Busy, IInv, ActiveIsBusy, TypeOK
  <2>2. /\ status' = [status EXCEPT ![cur_task[w]] = "done"] /\ tasks' = tasks
        /\ BroadcastIdleIf(IdleAfter)
    BY <1>5 DEF Finish
  <2>3. {c \in Clients : client[c] # "out"}' = {c \in Clients : client[c] # "out"}
    BY <2>2, <1>3
  <2> QED BY <1>2, <2>1, <2>2, <2>3 DEF Interface!Finish
<1>6. CASE Sleep(w) \/ TaskReturns(w) \/ Exit(w)
  <2>1. UNCHANGED <<tasks, status>>
    BY <1>6 DEF Sleep, TaskReturns, Exit
  <2>2. \A c \in Clients : client[c] = "out" <=> client'[c] = "out"
    BY <1>3, <1>6 DEF Sleep, TaskReturns, Exit
  <2> QED BY <1>1, <2>1, <2>2, Stutters
<1> QED BY <1>4, <1>5, <1>6 DEF WorkerStep

(* thread_pool.h's promises: submission order is start order, a task runs  *)
(* at most once, at most WorkerCount run at a time and none starts after   *)
(* the destruction began, what is discarded never ran, and a wait returns  *)
(* only from an idle pool.  The pool implements TaskPool.                  *)
THEOREM ImplementsTaskPool == Spec => PoolSpec
<1>1. Init => Interface!Init
  <2> SUFFICES ASSUME Init PROVE Interface!Init
    OBVIOUS
  <2>1. (phase \in {"closing", "destroyed"}) = FALSE
    BY DEF Init
  <2>2. {c \in Clients : client[c] # "out"} = {}
    BY DEF Init
  <2> QED BY <2>1, <2>2 DEF Init, Interface!Init
<1>2. IInv /\ Lifecycle /\ [Next]_vars => [Interface!Next]_(Interface!vars)
  <2> SUFFICES ASSUME IInv, Lifecycle, [Next]_vars
               PROVE  Interface!Next \/ UNCHANGED Interface!vars
    OBVIOUS
  <2>1. CASE OwnerStep
    BY <2>1, OwnerRefines DEF Interface!Next
  <2>2. ASSUME NEW c \in Clients, ClientStep(c)
        PROVE  Interface!Next \/ UNCHANGED Interface!vars
    BY <2>2, ClientRefines DEF Interface!Next
  <2>3. ASSUME NEW w \in Worker, WorkerStep(w)
        PROVE  Interface!Next \/ UNCHANGED Interface!vars
    BY <2>3, WorkerRefines DEF Interface!Next
  <2>4. ASSUME NEW w \in Worker, NEW t \in Tasks, TaskSubmits(w, t)
        PROVE  Interface!Next \/ UNCHANGED Interface!vars
    <3>1. phase \in {"open", "closing"}
      BY <2>4 DEF TaskSubmits, IInv, TypeOK, QuietUnlessOpen, Busy, Lifecycle, ThreadsInOrder
    <3> QED BY <2>4, <3>1, SubmitRefines DEF TaskSubmits, Interface!Next
  <2>5. CASE SpuriousWakeup /\ UNCHANGED <<owner, pool, cur_task, status>>
    <3>1. \A c \in Clients : client[c] = "out" <=> client'[c] = "out"
      BY <2>5 DEF SpuriousWakeup, IInv, TypeOK
    <3> QED BY <2>5, <3>1, Stutters DEF owner, pool
  <2>6. CASE UNCHANGED vars
    BY <2>6, Stutters DEF vars, owner, pool
  <2> QED BY <2>1, <2>2, <2>3, <2>4, <2>5, <2>6 DEF Next, Terminated
<1> QED BY <1>1, <1>2, LifecycleHolds, PTL DEF Spec, PoolSpec, Interface!Spec
-----------------------------------------------------------------------------
(* The list that the sequence of tasks stands for.                         *)
ListInv == ListTypeOK /\ ListShape /\ Ownership

(* The empty list of task_queue_init is well formed.                       *)
LEMMA ListInitEstablishes == ListInit => ListInv
<1> SUFFICES ASSUME ListInit PROVE ListInv
  OBVIOUS
<1>1. items = <<>> /\ Len(items) = 0 /\ items \in Seq(Node)
  BY DEF ListInit
<1>2. ListTypeOK
  BY <1>1 DEF ListInit, ListTypeOK
<1>3. ListShape
  BY <1>1 DEF ListInit, ListShape
<1>4. Ownership
  BY <1>1 DEF ListInit, Ownership
<1> QED BY <1>2, <1>3, <1>4 DEF ListInv

(* Linking a node that nobody owns keeps the list well formed, on the      *)
(* empty queue because submit cleared the node's next field.               *)
LEMMA PushPreserves ==
  ASSUME ListInv, NEW n \in Node, Push(n)
  PROVE  ListInv'
<1> USE NullAssumption DEF ListInv, ListTypeOK, ListShape, Ownership
<1> DEFINE k == Len(items)
<1>1. place[n] = "free" /\ items' = Append(items, n) /\ count' = count + 1
  BY DEF Push
<1>2. /\ items' \in Seq(Node) /\ Len(items') = k + 1 /\ items'[k + 1] = n
      /\ \A i \in 1 .. k : items'[i] = items[i] /\ items[i] \in Node
  BY <1>1
<1>3. \A i \in 1 .. k : items[i] # n
  BY <1>1
<1>4. head = NULL /\ tail = NULL <=> k = 0
  OBVIOUS
<1>5. ListTypeOK'
  BY <1>2 DEF Push, Link, FreshNext
<1>6. ListShape'
  <2>1. CASE k = 0
    BY <2>1, <1>1, <1>2, <1>4 DEF Push, Link, FreshNext
  <2>2. CASE k # 0
    <3>1. /\ head' = head /\ tail' = n
          /\ next' = [next EXCEPT ![n] = NULL, ![tail] = n, ![n] = NULL]
      BY <2>2, <1>4 DEF Push, Link, FreshNext
    <3>2. tail = items[k] /\ tail # n /\ tail \in Node /\ head = items[1]
      BY <2>2, <1>2, <1>3
    <3>3. next'[n] = NULL /\ next'[tail] = n
      BY <3>1, <3>2
    <3>4. \A i \in 1 .. k - 1 : next'[items[i]] = items[i + 1]
      BY <3>1, <3>2, <1>2, <1>3
    <3>5. \A i \in 1 .. Len(items') :
             next'[items'[i]] = IF i = Len(items') THEN NULL ELSE items'[i + 1]
      <4> TAKE i \in 1 .. Len(items')
      <4>1. CASE i = k + 1
        BY <4>1, <3>3, <1>2
      <4>2. CASE i = k
        BY <4>2, <3>2, <3>3, <1>2, <2>2
      <4>3. CASE i \in 1 .. k - 1
        BY <4>3, <3>4, <1>2
      <4> QED BY <4>1, <4>2, <4>3, <1>2
    <3> QED BY <3>1, <3>2, <3>5, <1>1, <1>2, <2>2
  <2> QED BY <2>1, <2>2
<1>7. Ownership'
  <2>1. place' = [place EXCEPT ![n] = "queue"]
    BY DEF Push
  <2>2. \A i, j \in 1 .. Len(items') : items'[i] = items'[j] => i = j
    BY <1>2, <1>3
  <2>3. \A m \in Node : place'[m] = "queue" <=> \E i \in 1 .. Len(items') : items'[i] = m
    <3> TAKE m \in Node
    <3>1. CASE m = n
      BY <3>1, <2>1, <1>2
    <3>2. CASE m # n
      <4>1. place'[m] = place[m]
        BY <2>1, <3>2
      <4>2. \A i \in 1 .. Len(items') : items'[i] = m => i \in 1 .. k
        BY <3>2, <1>2
      <4> QED BY <4>1, <4>2, <1>2
    <3> QED BY <3>1, <3>2
  <2> QED BY <2>2, <2>3
<1> QED BY <1>5, <1>6, <1>7

(* Unlinking the front node and giving it to a new owner keeps the list    *)
(* well formed; the node handed over is the oldest one.                    *)
LEMMA UnlinkPreserves ==
  ASSUME ListInv, count # 0, Unlink, NEW p \in {"free", "worker"},
         place' = [place EXCEPT ![head] = p]
  PROVE  /\ ListShape' /\ Ownership'
         /\ items # <<>> /\ head = Head(items) /\ head \in Node
         /\ count' \in Nat /\ head' \in Node \cup {NULL} /\ tail' \in Node \cup {NULL}
         /\ place' \in [Node -> {"free", "queue", "worker"}]
         /\ items' \in Seq(Node) /\ next' = next
<1> USE NullAssumption DEF ListInv, ListTypeOK, ListShape, Ownership
<1> DEFINE k == Len(items)
<1>1. k \in Nat \ {0} /\ items # <<>> /\ head = items[1] /\ tail = items[k]
  OBVIOUS
<1>2. head = Head(items) /\ head \in Node /\ next' = next /\ count' = k - 1
  BY <1>1 DEF Unlink
<1>3. /\ items' = Tail(items) /\ items' \in Seq(Node) /\ Len(items') = k - 1
      /\ \A i \in 1 .. k - 1 : items'[i] = items[i + 1]
  BY <1>1 DEF Unlink
<1>4. next[head] = IF k = 1 THEN NULL ELSE items[2]
  BY <1>1
<1>5. head' = next[head] /\ tail' = IF next[head] = NULL THEN NULL ELSE tail
  BY DEF Unlink
<1>6. ListShape'
  <2>1. CASE k = 1
    BY <2>1, <1>2, <1>3, <1>4, <1>5
  <2>2. CASE k > 1
    <3>1. items[2] \in Node /\ items[2] # NULL /\ head' = items[2] /\ tail' = items[k]
      BY <2>2, <1>1, <1>4, <1>5
    <3>2. items' # <<>> /\ items'[1] = items[2] /\ items'[Len(items')] = items[k]
      <4>1. k - 1 \in 1 .. k - 1 /\ 1 \in 1 .. k - 1 /\ 1 + 1 = 2 /\ k - 1 + 1 = k
        BY <2>2, <1>1
      <4>2. Len(items') # 0
        BY <4>1, <1>3
      <4> HIDE DEF k
      <4> QED BY <4>1, <4>2, <1>3
    <3>3. \A i \in 1 .. Len(items') :
             next'[items'[i]] = IF i = Len(items') THEN NULL ELSE items'[i + 1]
      BY <2>2, <1>2, <1>3
    <3> QED BY <3>1, <3>2, <3>3, <1>2, <1>3
  <2> QED BY <2>1, <2>2, <1>1
<1>7. Ownership'
  <2>1. \A i, j \in 1 .. Len(items') : items'[i] = items'[j] => i = j
    BY <1>3
  <2>2. \A n \in Node : place'[n] = "queue" <=> \E i \in 1 .. Len(items') : items'[i] = n
    <3> TAKE n \in Node
    <3>1. CASE n = head
      <4>1. \A i \in 1 .. Len(items') : items'[i] # head
        BY <1>1, <1>3
      <4> QED BY <3>1, <4>1, <1>2
    <3>2. CASE n # head
      <4>1. place'[n] = place[n]
        BY <3>2
      <4>2. ASSUME NEW i \in 1 .. k, items[i] = n
            PROVE  i - 1 \in 1 .. Len(items') /\ items'[i - 1] = n
        BY <4>2, <3>2, <1>1, <1>3
      <4>3. ASSUME NEW i \in 1 .. Len(items'), items'[i] = n
            PROVE  i + 1 \in 1 .. k /\ items[i + 1] = n
        BY <4>3, <1>1, <1>3
      <4> QED BY <4>1, <4>2, <4>3
    <3> QED BY <3>1, <3>2
  <2> QED BY <2>1, <2>2
<1>8. /\ count' \in Nat /\ head' \in Node \cup {NULL} /\ tail' \in Node \cup {NULL}
      /\ place' \in [Node -> {"free", "queue", "worker"}]
  BY <1>1, <1>2, <1>5
<1> QED BY <1>1, <1>2, <1>3, <1>6, <1>7, <1>8

(* Every step keeps the list well formed.                                  *)
LEMMA ListNextPreserves == ListInv /\ [ListNext]_listVars => ListInv'
<1> SUFFICES ASSUME ListInv, [ListNext]_listVars PROVE ListInv'
  OBVIOUS
<1>1. ASSUME NEW n \in Node, Push(n) PROVE ListInv'
  BY <1>1, PushPreserves
<1>2. ASSUME NEW n \in Node, FreeTask(n) PROVE ListInv'
  BY <1>2 DEF FreeTask, ListInv, ListTypeOK, ListShape, Ownership
<1>3. CASE Pop
  <2>1. Unlink /\ count # 0 /\ place' = [place EXCEPT ![head] = "worker"]
    BY <1>3 DEF Pop
  <2>2. /\ ListShape' /\ Ownership' /\ head \in Node
        /\ count' \in Nat /\ head' \in Node \cup {NULL} /\ tail' \in Node \cup {NULL}
        /\ place' \in [Node -> {"free", "queue", "worker"}]
        /\ items' \in Seq(Node) /\ next' = next
    BY <2>1, UnlinkPreserves
  <2>3. ret' = head /\ clearing' = clearing
    BY <1>3 DEF Pop
  <2> QED BY <2>2, <2>3 DEF ListInv, ListTypeOK
<1>4. CASE PopEmpty
  BY <1>4 DEF PopEmpty, ListInv, ListTypeOK, ListShape, Ownership
<1>5. CASE BeginClear
  BY <1>5 DEF BeginClear, ListInv, ListTypeOK, ListShape, Ownership
<1>6. CASE ClearOne
  <2>1. Unlink /\ count # 0 /\ place' = [place EXCEPT ![head] = "free"]
    BY <1>6 DEF ClearOne
  <2>2. /\ ListShape' /\ Ownership'
        /\ count' \in Nat /\ head' \in Node \cup {NULL} /\ tail' \in Node \cup {NULL}
        /\ place' \in [Node -> {"free", "queue", "worker"}]
        /\ items' \in Seq(Node) /\ next' = next
    BY <2>1, UnlinkPreserves
  <2>3. ret' = ret /\ clearing' = clearing
    BY <1>6 DEF ClearOne
  <2> QED BY <2>2, <2>3 DEF ListInv, ListTypeOK
<1>7. CASE EndClear
  <2>1. items = <<>>
    BY <1>7, EmptySeq DEF EndClear, ListInv, ListTypeOK, ListShape
  <2>2. /\ head' = head /\ tail' = tail /\ count' = count /\ clearing' = FALSE
        /\ UNCHANGED <<next, place, ret, items>>
    BY <2>1, <1>7 DEF EndClear, ListInv, ListTypeOK, ListShape
  <2>3. ListShape' /\ Ownership'
    BY <2>2 DEF ListInv, ListShape, Ownership
  <2> QED BY <2>2, <2>3 DEF ListInv, ListTypeOK
<1>8. CASE UNCHANGED listVars
  BY <1>8 DEF listVars, ListInv, ListTypeOK, ListShape, Ownership
<1> QED BY <1>1, <1>2, <1>3, <1>4, <1>5, <1>6, <1>7, <1>8 DEF ListNext

(* The inductive invariant holds of every behaviour.                       *)
LEMMA ListInvariantHolds == ListSpec => []ListInv
  BY ListInitEstablishes, ListNextPreserves, PTL DEF ListSpec

(* head, next, tail and count of the list always enumerate the queued      *)
(* nodes (task_queue_push, task_queue_pop, task_queue_clear).              *)
THEOREM ListIsShaped == ListSpec => []ListShape
<1>1. ListInv => ListShape
  BY DEF ListInv
<1> QED BY <1>1, ListInvariantHolds, PTL

(* No node is queued twice, and none is in the list that a worker owns or  *)
(* that has been freed.                                                    *)
THEOREM NodesOwnedOnce == ListSpec => []Ownership
<1>1. ListInv => Ownership
  BY DEF ListInv
<1> QED BY <1>1, ListInvariantHolds, PTL

(* The linked list implements the FIFO queue: nodes leave it in the order  *)
(* they were pushed.                                                       *)
THEOREM ImplementsFifo == ListSpec => FifoSpec
<1>1. ListInit => Abstract!Init
  BY DEF ListInit, Abstract!Init
<1>2. ListInv /\ [ListNext]_listVars => [Abstract!Next]_<<items, ret>>
  <2> SUFFICES ASSUME ListInv, [ListNext]_listVars PROVE [Abstract!Next]_<<items, ret>>
    OBVIOUS
  <2>1. ASSUME NEW n \in Node, Push(n) PROVE Abstract!Push(n)
    BY <2>1 DEF Push, Abstract!Push
  <2>2. ASSUME NEW n \in Node, FreeTask(n) PROVE UNCHANGED <<items, ret>>
    BY <2>2 DEF FreeTask
  <2>3. CASE Pop
    <3>1. Unlink /\ count # 0 /\ place' = [place EXCEPT ![head] = "worker"] /\ ret' = head
      BY <2>3 DEF Pop
    <3>2. items # <<>> /\ head = Head(items)
      BY <3>1, UnlinkPreserves
    <3> QED BY <3>1, <3>2 DEF Unlink, Abstract!Pop, Abstract!Next
  <2>4. CASE PopEmpty
    <3>1. items = <<>>
      BY <2>4, EmptySeq DEF PopEmpty, ListInv, ListTypeOK, ListShape
    <3> QED BY <3>1, <2>4 DEF PopEmpty, Abstract!PopEmpty, Abstract!Next
  <2>5. CASE BeginClear
    BY <2>5 DEF BeginClear
  <2>6. CASE ClearOne
    <3>1. Unlink /\ count # 0 /\ place' = [place EXCEPT ![head] = "free"] /\ ret' = ret
      BY <2>6 DEF ClearOne
    <3>2. items # <<>>
      BY <3>1, UnlinkPreserves
    <3> QED BY <3>1, <3>2 DEF Unlink, Abstract!Discard, Abstract!Next
  <2>7. CASE EndClear
    BY <2>7 DEF EndClear
  <2>8. CASE UNCHANGED listVars
    BY <2>8 DEF listVars
  <2> QED BY <2>1, <2>2, <2>3, <2>4, <2>5, <2>6, <2>7, <2>8 DEF ListNext, Abstract!Next
<1> QED BY <1>1, <1>2, ListInvariantHolds, PTL DEF ListSpec, FifoSpec, Abstract!Spec, Abstract!vars
=============================================================================
