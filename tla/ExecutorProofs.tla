--------------------------- MODULE ExecutorProofs ---------------------------
(***************************************************************************)
(* For every number of batches, of calls in a batch and of workers: the    *)
(* messages executor_run_tools returns carry the results of its calls in   *)
(* request order, writers run alone, no task outlives the arrays it refers *)
(* to, and every tool has been reported when the frame is made final.      *)
(*                                                                         *)
(* The four are not inductive.  They rest on what the pool holds at every  *)
(* point of the calling thread (PoolHoldsBatch), on which tools execute    *)
(* (RunningIs), and on how far results and reports have come (SlotsFilled, *)
(* ReportedIs).                                                            *)
(***************************************************************************)
EXTENDS Executor, SequenceTheorems, TLAPS

(* The calling thread is between its first submission and the end of the   *)
(* wait.                                                                   *)
Parallel == pc \in {"submitting", "draining", "waiting"}

(* Where the loops are; batches are not exceeded inside a call; after the  *)
(* wait of the normal path every task had been submitted.                  *)
Bounds ==
    /\ Count <= MaxCount /\ Len(result) = Count
    /\ alive <=> pc # "out"
    /\ pc # "out" => batch <= Batches
    /\ Parallel \/ pc \in {"serial", "executing"} => next <= Count + 1
    /\ pc = "waiting" => next = Count + 1
    /\ pc = "executing" => next <= Count
    /\ pc = "args" => next = 1 /\ reported = {}

(* The pool's queue and the states of the tasks tell the same.             *)
QueueIsQueued ==
    /\ \A i \in 1 .. Len(queue) : state[queue[i]] = "queued"
    /\ \A t \in Call : state[t] = "queued" => \E i \in 1 .. Len(queue) : queue[i] = t
    /\ \A i, j \in 1 .. Len(queue) : queue[i] = queue[j] => i = j

(* The tasks in the pool are the ones this batch has submitted; a call     *)
(* that has not been submitted is new.                                     *)
PoolHoldsBatch ==
    /\ Parallel => CanParallel
    /\ \A t \in Call : state[t] \in {"queued", "running"} =>
          Parallel /\ t[1] = batch /\ t[2] < next
    /\ \A t \in Call : state[t] # "new" =>
          t[1] < batch \/ (t[1] = batch /\ t[2] <= Count /\ pc \notin {"out", "args"})
    /\ Parallel => \A i \in 1 .. Count : state[<<batch, i>>] # "new" <=> i < next

(* The tools that execute are the running tasks, or the one the calling    *)
(* thread runs itself.                                                     *)
RunningIs ==
    /\ Parallel => running = {t \in Call : state[t] = "running"}
    /\ pc = "executing" => running = {<<batch, next>>}
    /\ ~Parallel /\ pc # "executing" => running = {}

(* What has been reported to the UI so far.                                *)
ReportedIs ==
    /\ Parallel => reported = {t \in Call : t[1] = batch /\ state[t] = "done"}
    /\ pc \in {"serial", "executing"} => reported = {<<batch, i>> : i \in 1 .. next - 1}
    /\ ReportedBeforeIdle

(* A call that has been reported has its result in its own slot.           *)
SlotsFilled ==
    pc # "out" => \A i \in 1 .. Count : <<batch, i>> \in reported => result[i] = <<batch, i>>

IInv ==
    /\ TypeOK /\ Bounds /\ QueueIsQueued /\ PoolHoldsBatch
    /\ RunningIs /\ ReportedIs /\ SlotsFilled /\ ResultsInRequestOrder
-----------------------------------------------------------------------------
(* A call is the pair of its batch and its index.                          *)
LEMMA CallIsPair ==
  /\ \A t \in Call : /\ t = <<t[1], t[2]>> /\ t[1] \in 1 .. Batches /\ t[2] \in 1 .. MaxCount
                     /\ t[1] \in Nat /\ t[2] \in Nat
  /\ \A b \in 1 .. Batches, i \in 1 .. MaxCount : <<b, i>> \in Call
  BY SizesAssumption DEF Call

(* The results of a batch, once all are reported, are the messages in      *)
(* request order.                                                          *)
LEMMA AllSlots ==
  ASSUME IInv, pc = "collect"
  PROVE  result = [i \in 1 .. Count |-> <<batch, i>>]
<1>1. \A i \in 1 .. Count : result[i] = <<batch, i>>
  BY DEF IInv, SlotsFilled, ReportedIs, ReportedBeforeIdle
<1>2. result \in Seq(Call \cup {NoResult}) /\ Len(result) = Count
  BY DEF IInv, TypeOK, Bounds
<1>3. result \in [1 .. Count -> Call \cup {NoResult}]
  BY <1>2, LenProperties
<1> QED BY <1>1, <1>3

LEMMA InitEstablishes == Init => IInv
<1> SUFFICES ASSUME Init PROVE IInv
  OBVIOUS
<1>1. /\ queue = <<>> /\ Len(queue) = 0 /\ state = [t \in Call |-> "new"] /\ kinds = <<>> /\ Count = 0
      /\ result = <<>> /\ Len(result) = 0 /\ closed = FALSE /\ blocked = {} /\ batch = 1 /\ next = 1
      /\ pc = "out" /\ ~alive /\ running = {}
  BY DEF Init, Pool!Init, Count
<1>2. TypeOK
  <2>1. /\ queue \in Seq(Call) /\ kinds \in Seq(Kinds)
        /\ result \in Seq(Call \cup {NoResult}) /\ out \in Seq(Call \cup {NoResult})
    BY <1>1, EmptySeq DEF Init
  <2>2. batch \in 1 .. Batches + 1 /\ next \in 1 .. MaxCount + 1
    BY <1>1, SizesAssumption
  <2> QED BY <1>1, <2>1, <2>2 DEF Init, TypeOK
<1>3. Bounds /\ QueueIsQueued /\ PoolHoldsBatch
  BY <1>1, SizesAssumption DEF Bounds, QueueIsQueued, PoolHoldsBatch, Parallel
<1> QED BY <1>1, <1>2, <1>3 DEF IInv, RunningIs, ReportedIs, ReportedBeforeIdle, SlotsFilled, ResultsInRequestOrder, Parallel
-----------------------------------------------------------------------------
(* A step that leaves the pool alone.                                      *)
LEMMA PoolStays ==
  ASSUME QueueIsQueued, UNCHANGED <<queue, state>> PROVE QueueIsQueued'
  BY DEF QueueIsQueued

(* executor_run_tools returns, its batch having left the pool.             *)
LEMMA ReturnPreserves ==
  ASSUME IInv, NEW code \in {"ok", "error"}, NEW messages \in Seq(Call \cup {NoResult}),
         pc # "out", Return(code, messages),
         messages = IF code = "ok" THEN [i \in 1 .. Count |-> <<batch, i>>] ELSE <<>>,
         \A t \in Call : state[t] \notin {"queued", "running"},
         UNCHANGED <<queue, state, closed, made, kinds, next, running, result, reported>>,
         blocked' \subseteq {Main}, running = {}
  PROVE  IInv'
<1>1. /\ rc' = code /\ out' = messages /\ ~alive' /\ alive' \in BOOLEAN /\ batch' = batch + 1 /\ pc' = "out"
      /\ Count' = Count
  BY DEF Return, Count
<1>2. batch \in 1 .. Batches /\ batch \in Nat /\ batch' - 1 = batch /\ batch' \in 1 .. Batches + 1
  BY <1>1, SizesAssumption DEF IInv, TypeOK, Bounds
<1>3. TypeOK'
  BY <1>1, <1>2 DEF IInv, TypeOK
<1>4. QueueIsQueued'
  BY PoolStays DEF IInv
<1>5. Bounds'
  BY <1>1 DEF IInv, Bounds, Parallel
<1>6. PoolHoldsBatch'
  <2>1. \A t \in Call : t[1] \in Nat
    BY CallIsPair
  <2> QED BY <1>1, <1>2, <2>1 DEF IInv, PoolHoldsBatch, Parallel
<1>7. RunningIs' /\ ReportedIs' /\ SlotsFilled'
  BY <1>1 DEF RunningIs, ReportedIs, ReportedBeforeIdle, SlotsFilled, Parallel
<1>8. ResultsInRequestOrder'
  BY <1>1, <1>2 DEF ResultsInRequestOrder
<1> QED BY <1>3, <1>4, <1>5, <1>6, <1>7, <1>8 DEF IInv

(* The steps outside the pool's life in a batch.                           *)
LEMMA OutsidePreserves ==
  ASSUME IInv, CreateFails \/ Called \/ ArgsFail \/ BeginTools PROVE IInv'
<1> USE DEF poolVars, batchVars
<1>1. CASE CreateFails
  BY <1>1 DEF CreateFails, IInv, TypeOK, Bounds, QueueIsQueued, PoolHoldsBatch, RunningIs, ReportedIs,
              ReportedBeforeIdle, SlotsFilled, ResultsInRequestOrder, Parallel, CanParallel, Count
<1>2. CASE Called
  <2>1. PICK n \in 1 .. MaxCount :
           kinds' \in [1 .. n -> Kinds] /\ result' = [i \in 1 .. n |-> NoResult]
    BY <1>2 DEF Called
  <2>2. /\ n \in Nat /\ n <= MaxCount /\ kinds' \in Seq(Kinds) /\ Len(kinds') = n /\ Count' = n
        /\ result' \in Seq(Call \cup {NoResult}) /\ Len(result') = n
    BY <2>1, SizesAssumption DEF Count
  <2>3. TypeOK'
    BY <1>2, <2>2, SizesAssumption DEF Called, IInv, TypeOK
  <2>4. QueueIsQueued'
    BY <1>2, PoolStays DEF Called, IInv
  <2>5. Bounds' /\ PoolHoldsBatch'
    BY <1>2, <2>2 DEF Called, IInv, Bounds, PoolHoldsBatch, Parallel, TypeOK
  <2>6. RunningIs' /\ ReportedIs' /\ SlotsFilled' /\ ResultsInRequestOrder'
    BY <1>2 DEF Called, IInv, RunningIs, ReportedIs, ReportedBeforeIdle, SlotsFilled,
                ResultsInRequestOrder, Parallel
  <2> QED BY <2>3, <2>4, <2>5, <2>6 DEF IInv
<1>3. CASE ArgsFail
  <2>1. /\ pc = "args" /\ Return("error", <<>>)
        /\ UNCHANGED <<queue, state, closed, blocked, made, kinds, next, running, result, reported>>
    BY <1>3 DEF ArgsFail
  <2>2. running = {} /\ \A t \in Call : state[t] \notin {"queued", "running"}
    BY <2>1 DEF IInv, RunningIs, PoolHoldsBatch, Parallel
  <2>3. blocked' \subseteq {Main} /\ <<>> \in Seq(Call \cup {NoResult})
    BY <2>1, EmptySeq DEF IInv, TypeOK
  <2> QED BY <2>1, <2>2, <2>3, ReturnPreserves
<1>4. CASE BeginTools
  <2>1. /\ pc = "args" /\ pc' = IF CanParallel THEN "submitting" ELSE "serial"
        /\ UNCHANGED <<queue, state, closed, blocked, made, batch, kinds, alive, next, running, result,
                       reported, out, rc>>
        /\ Count' = Count /\ CanParallel' = CanParallel
    BY <1>4 DEF BeginTools, Count, CanParallel
  <2>2. TypeOK' /\ QueueIsQueued'
    BY <2>1, PoolStays DEF IInv, TypeOK
  <2>3. next = 1 /\ reported = {} /\ Count \in Nat /\ running = {}
    BY <2>1 DEF IInv, Bounds, TypeOK, Count, RunningIs, Parallel
  <2>4. Bounds'
    BY <2>1, <2>3 DEF IInv, Bounds, Parallel
  <2>5. \A t \in Call : t[1] = batch => state[t] = "new"
    BY <2>1 DEF IInv, PoolHoldsBatch, TypeOK
  <2>6. \A i \in 1 .. Count : <<batch, i>> \in Call /\ state[<<batch, i>>] = "new"
    BY <2>1, <2>3, <2>5, CallIsPair, SizesAssumption DEF IInv, Bounds, TypeOK
  <2>7. PoolHoldsBatch'
    BY <2>1, <2>3, <2>5, <2>6 DEF IInv, PoolHoldsBatch, Parallel
  <2>8. {<<batch, i>> : i \in 1 .. 1 - 1} = {} /\ \A t \in Call : t[1] = batch => state[t] # "done"
    BY <2>5
  <2>9. RunningIs' /\ ReportedIs'
    BY <2>1, <2>3, <2>5, <2>8 DEF IInv, RunningIs, ReportedIs, ReportedBeforeIdle, Parallel, PoolHoldsBatch
  <2>10. SlotsFilled' /\ ResultsInRequestOrder'
    BY <2>1 DEF IInv, SlotsFilled, ResultsInRequestOrder
  <2> QED BY <2>2, <2>4, <2>7, <2>9, <2>10 DEF IInv
<1> QED BY <1>1, <1>2, <1>3, <1>4
-----------------------------------------------------------------------------
(* A call of the batch at hand is known by its index.                      *)
LEMMA CallsOfBatch ==
  ASSUME IInv, pc # "out"
  PROVE  /\ Count \in Nat /\ batch \in 1 .. Batches
         /\ \A i \in 1 .. Count : <<batch, i>> \in Call /\ <<batch, i>>[1] = batch /\ <<batch, i>>[2] = i
         /\ \A t \in Call : t[1] = batch => t = <<batch, t[2]>>
<1>1. Count \in Nat /\ Count <= MaxCount /\ batch \in 1 .. Batches
  BY SizesAssumption DEF IInv, TypeOK, Bounds, Count
<1> QED BY <1>1, CallIsPair, SizesAssumption

(* Once the pool is idle and every task was submitted, every tool has been *)
(* reported.                                                               *)
LEMMA IdleMeansReported ==
  ASSUME IInv, pc = "waiting", queue = <<>>, Pool!Running = {}
  PROVE  /\ \A t \in Call : state[t] \notin {"queued", "running"}
         /\ running = {}
         /\ reported = {<<batch, i>> : i \in 1 .. Count}
<1>1. \A t \in Call : state[t] # "running"
  BY DEF Pool!Running
<1>2. \A t \in Call : state[t] # "queued"
  BY EmptySeq DEF IInv, QueueIsQueued
<1>3. running = {}
  BY <1>1 DEF IInv, RunningIs, Parallel
<1>4. /\ next = Count + 1 /\ reported = {t \in Call : t[1] = batch /\ state[t] = "done"}
      /\ \A i \in 1 .. Count : state[<<batch, i>>] # "new" <=> i < next
  BY DEF IInv, Bounds, ReportedIs, PoolHoldsBatch, Parallel
<1>5. \A i \in 1 .. Count : <<batch, i>> \in Call /\ state[<<batch, i>>] = "done"
  <2> SUFFICES ASSUME NEW i \in 1 .. Count
               PROVE  <<batch, i>> \in Call /\ state[<<batch, i>>] = "done"
    OBVIOUS
  <2>1. <<batch, i>> \in Call /\ i < Count + 1
    BY CallsOfBatch
  <2>2. state[<<batch, i>>] # "new"
    BY <1>4, <2>1
  <2> QED BY <1>1, <1>2, <2>1, <2>2 DEF IInv, TypeOK
<1>6. \A t \in Call : t[1] = batch /\ state[t] = "done" => \E i \in 1 .. Count : t = <<batch, i>>
  <2> SUFFICES ASSUME NEW t \in Call, t[1] = batch, state[t] = "done"
               PROVE  \E i \in 1 .. Count : t = <<batch, i>>
    OBVIOUS
  <2>1. t = <<batch, t[2]>> /\ t[2] \in Nat /\ t[2] > 0
    BY CallsOfBatch, CallIsPair, SizesAssumption
  <2>2. t[2] <= Count
    BY CallsOfBatch DEF IInv, PoolHoldsBatch
  <2> QED BY <2>1, <2>2, CallsOfBatch
<1> QED BY <1>1, <1>2, <1>3, <1>4, <1>5, <1>6, CallsOfBatch

(* A task enters the queue.                                                *)
LEMMA SubmitPreserves == ASSUME IInv, SubmitOne PROVE IInv'
<1> USE DEF poolVars, batchVars
<1> DEFINE t == <<batch, next>>
<1> DEFINE k == Len(queue)
<1>1. /\ pc = "submitting" /\ next <= Count /\ Parallel /\ Parallel' /\ t \in Call /\ t[1] = batch /\ t[2] = next
      /\ state[t] = "new" /\ next' = next + 1 /\ next \in 1 .. Count /\ Count' = Count /\ Count \in Nat
      /\ state' = [state EXCEPT ![t] = "queued"] /\ queue' = Append(queue, t)
      /\ UNCHANGED <<closed, blocked, made, batch, kinds, alive, pc, running, result, reported, out, rc>>
      /\ CanParallel' = CanParallel
  <2>1. /\ pc = "submitting" /\ next <= Count /\ Pool!Accept(t)
        /\ UNCHANGED <<made, batch, kinds, alive, pc, running, result, reported, out, rc>> /\ next' = next + 1
    BY DEF SubmitOne
  <2>2. next \in 1 .. Count /\ t \in Call /\ t[1] = batch /\ t[2] = next /\ Count \in Nat
    <3>1. next \in 1 .. MaxCount + 1 /\ MaxCount \in Nat
      BY SizesAssumption DEF IInv, TypeOK
    <3>2. Count \in Nat /\ \A i \in 1 .. Count : <<batch, i>> \in Call
      BY <2>1, CallsOfBatch
    <3>3. next \in 1 .. Count
      BY <2>1, <3>1, <3>2
    <3> QED BY <3>2, <3>3
  <2> QED BY <2>1, <2>2 DEF Pool!Accept, Parallel, Count, CanParallel
<1>2. /\ queue' \in Seq(Call) /\ Len(queue') = k + 1 /\ queue'[k + 1] = t /\ k \in Nat
      /\ \A i \in 1 .. k : queue'[i] = queue[i] /\ queue[i] \in Call /\ queue[i] # t
  <2>1. queue \in Seq(Call) /\ \A i \in 1 .. k : queue[i] # t
    BY <1>1 DEF IInv, TypeOK, QueueIsQueued
  <2> QED BY <1>1, <2>1
<1>3. TypeOK'
  <2>1. next' \in 1 .. MaxCount + 1
    BY <1>1, SizesAssumption DEF IInv, Bounds
  <2> QED BY <1>1, <1>2, <2>1 DEF IInv, TypeOK
<1>4. Bounds'
  BY <1>1 DEF IInv, Bounds, Parallel
<1>5. QueueIsQueued'
  <2>1. \A i \in 1 .. Len(queue') : state'[queue'[i]] = "queued"
    BY <1>1, <1>2 DEF IInv, QueueIsQueued, TypeOK
  <2>2. \A u \in Call : state'[u] = "queued" => \E i \in 1 .. Len(queue') : queue'[i] = u
    <3> SUFFICES ASSUME NEW u \in Call, state'[u] = "queued"
                 PROVE  \E i \in 1 .. Len(queue') : queue'[i] = u
      OBVIOUS
    <3>1. CASE u = t
      BY <3>1, <1>2
    <3>2. CASE u # t
      <4>1. PICK i \in 1 .. k : queue[i] = u
        BY <3>2, <1>1 DEF IInv, QueueIsQueued, TypeOK
      <4> QED BY <4>1, <1>2
    <3> QED BY <3>1, <3>2
  <2>3. \A i, j \in 1 .. Len(queue') : queue'[i] = queue'[j] => i = j
    BY <1>2 DEF IInv, QueueIsQueued
  <2> QED BY <2>1, <2>2, <2>3 DEF QueueIsQueued
<1>6. PoolHoldsBatch'
  <2>1. \A u \in Call : u # t => state'[u] = state[u]
    BY <1>1 DEF IInv, TypeOK
  <2>2. state'[t] = "queued"
    BY <1>1 DEF IInv, TypeOK
  <2>3. \A u \in Call : u[1] \in Nat /\ u[2] \in Nat
    BY CallIsPair
  <2>4. \A u \in Call : state'[u] \in {"queued", "running"} => u[1] = batch /\ u[2] < next + 1
    BY <1>1, <2>1, <2>2, <2>3 DEF IInv, PoolHoldsBatch
  <2>5. \A u \in Call : state'[u] # "new" => u[1] < batch \/ (u[1] = batch /\ u[2] <= Count)
    BY <1>1, <2>1, <2>2 DEF IInv, PoolHoldsBatch
  <2>6. \A i \in 1 .. Count : state'[<<batch, i>>] # "new" <=> i < next + 1
    <3> SUFFICES ASSUME NEW i \in 1 .. Count
                 PROVE  state'[<<batch, i>>] # "new" <=> i < next + 1
      OBVIOUS
    <3>1. CASE i = next
      BY <3>1, <1>1, <2>2
    <3>2. CASE i # next
      <4>1. <<batch, i>> \in Call /\ <<batch, i>> # t
        BY <3>2, <1>1, CallsOfBatch
      <4>2. state'[<<batch, i>>] # "new" <=> i < next
        BY <4>1, <2>1, <1>1 DEF IInv, PoolHoldsBatch
      <4> QED BY <4>2, <3>2, <1>1
    <3> QED BY <3>1, <3>2
  <2> QED BY <1>1, <2>4, <2>5, <2>6 DEF IInv, PoolHoldsBatch, Parallel
<1>7. RunningIs' /\ ReportedIs'
  <2>1. \A u \in Call : state'[u] \in {"running", "done"} \/ state[u] \in {"running", "done"} => state'[u] = state[u]
    BY <1>1 DEF IInv, TypeOK
  <2> QED BY <1>1, <2>1 DEF IInv, RunningIs, ReportedIs, ReportedBeforeIdle, Parallel
<1>8. SlotsFilled' /\ ResultsInRequestOrder'
  BY <1>1 DEF IInv, SlotsFilled, ResultsInRequestOrder
<1> QED BY <1>3, <1>4, <1>5, <1>6, <1>7, <1>8 DEF IInv

(* The calling thread begins to wait, on either path, or has waited.       *)
LEMMA WaitPreserves ==
  ASSUME IInv, SubmitFails \/ Drained \/ AllSubmitted \/ WaitOver PROVE IInv'
<1> USE DEF poolVars, batchVars
<1>1. CASE SubmitFails \/ AllSubmitted
  <2>1. /\ pc = "submitting"
        /\ \/ pc' = "draining"
           \/ pc' = "waiting" /\ next > Count
        /\ UNCHANGED <<queue, state, closed, made, batch, kinds, alive, next, running, result, reported, out, rc>>
        /\ blocked' = blocked \cup {Main} /\ Count' = Count /\ CanParallel' = CanParallel
    BY <1>1 DEF SubmitFails, AllSubmitted, Pool!Wait, Count, CanParallel
  <2>2. Parallel /\ Parallel' /\ next <= Count + 1 /\ Count \in Nat /\ next \in Nat
    <3>1. next \in 1 .. MaxCount + 1 /\ MaxCount \in Nat
      BY SizesAssumption DEF IInv, TypeOK
    <3> QED BY <2>1, <3>1, CallsOfBatch DEF IInv, Bounds, Parallel
  <2>3. TypeOK' /\ QueueIsQueued'
    BY <2>1, PoolStays DEF IInv, TypeOK
  <2>4. Bounds'
    BY <2>1, <2>2 DEF IInv, Bounds
  <2>5. PoolHoldsBatch' /\ RunningIs' /\ ReportedIs'
    BY <2>1, <2>2 DEF IInv, PoolHoldsBatch, RunningIs, ReportedIs, ReportedBeforeIdle
  <2>6. SlotsFilled' /\ ResultsInRequestOrder'
    BY <2>1 DEF IInv, SlotsFilled, ResultsInRequestOrder
  <2> QED BY <2>3, <2>4, <2>5, <2>6 DEF IInv
<1>2. CASE Drained
  <2>1. /\ pc = "draining" /\ queue = <<>> /\ Pool!Running = {} /\ Return("error", <<>>)
        /\ UNCHANGED <<queue, state, closed, made, kinds, next, running, result, reported>>
        /\ blocked' = blocked \ {Main}
    BY <1>2 DEF Drained, Pool!WaitReturns
  <2>2. \A t \in Call : state[t] \notin {"queued", "running"}
    BY <2>1, EmptySeq DEF IInv, QueueIsQueued, Pool!Running
  <2>3. running = {} /\ blocked' \subseteq {Main} /\ <<>> \in Seq(Call \cup {NoResult})
    BY <2>1, <2>2, EmptySeq DEF IInv, RunningIs, Parallel, TypeOK
  <2> QED BY <2>1, <2>2, <2>3, ReturnPreserves
<1>3. CASE WaitOver
  <2>1. /\ pc = "waiting" /\ queue = <<>> /\ Pool!Running = {} /\ pc' = "collect"
        /\ UNCHANGED <<queue, state, closed, made, batch, kinds, alive, next, running, result, reported, out, rc>>
        /\ blocked' = blocked \ {Main} /\ Count' = Count /\ CanParallel' = CanParallel
    BY <1>3 DEF WaitOver, Pool!WaitReturns, Count, CanParallel
  <2>2. /\ \A t \in Call : state[t] \notin {"queued", "running"}
        /\ running = {} /\ reported = {<<batch, i>> : i \in 1 .. Count}
    BY <2>1, IdleMeansReported
  <2>3. TypeOK' /\ QueueIsQueued' /\ Bounds'
    BY <2>1, PoolStays DEF IInv, TypeOK, Bounds, Parallel
  <2>4. PoolHoldsBatch' /\ RunningIs' /\ ReportedIs'
    BY <2>1, <2>2 DEF IInv, PoolHoldsBatch, RunningIs, ReportedIs, ReportedBeforeIdle, Parallel
  <2>5. SlotsFilled' /\ ResultsInRequestOrder'
    BY <2>1 DEF IInv, SlotsFilled, ResultsInRequestOrder
  <2> QED BY <2>3, <2>4, <2>5 DEF IInv
<1> QED BY <1>1, <1>2, <1>3

(* A worker takes the task at the front of the queue.                      *)
LEMMA StartPreserves == ASSUME IInv, WorkerStarts PROVE IInv'
<1> USE DEF poolVars, batchVars
<1> DEFINE t == Head(queue)
<1> DEFINE k == Len(queue)
<1>1. /\ queue # <<>> /\ queue' = Tail(queue) /\ state' = [state EXCEPT ![t] = "running"]
      /\ running' = running \cup {t}
      /\ UNCHANGED <<closed, blocked, made, batch, kinds, alive, pc, next, result, reported, out, rc>>
      /\ Count' = Count /\ CanParallel' = CanParallel /\ Parallel' = Parallel
  BY DEF WorkerStarts, Pool!Start, Count, CanParallel, Parallel
<1>2. /\ k \in Nat \ {0} /\ t = queue[1] /\ t \in Call /\ state[t] = "queued"
      /\ \A i \in 1 .. k : queue[i] \in Call
  <2>1. k \in Nat \ {0} /\ queue \in Seq(Call)
    BY <1>1, EmptySeq DEF IInv, TypeOK
  <2>2. t = queue[1] /\ 1 \in 1 .. k /\ \A i \in 1 .. k : queue[i] \in Call
    BY <1>1, <2>1
  <2> QED BY <2>1, <2>2 DEF IInv, QueueIsQueued
<1>3. /\ queue' \in Seq(Call) /\ Len(queue') = k - 1
      /\ \A i \in 1 .. k - 1 : queue'[i] = queue[i + 1]
  <2>1. queue \in Seq(Call)
    BY DEF IInv, TypeOK
  <2> QED BY <1>1, <1>2, <2>1
<1>4. Parallel /\ t[1] = batch /\ t[2] < next
  BY <1>2 DEF IInv, PoolHoldsBatch
<1>5. /\ \A u \in Call : u # t => state'[u] = state[u]
      /\ state'[t] = "running" /\ state' \in [Call -> {"new", "queued", "running", "done"}]
  BY <1>1, <1>2 DEF IInv, TypeOK
<1>6. TypeOK'
  BY <1>1, <1>2, <1>3, <1>5 DEF IInv, TypeOK
<1>7. Bounds' /\ SlotsFilled' /\ ResultsInRequestOrder'
  BY <1>1 DEF IInv, Bounds, SlotsFilled, ResultsInRequestOrder
<1>8. QueueIsQueued'
  <2>1. /\ \A i \in 1 .. k : state[queue[i]] = "queued"
        /\ \A u \in Call : state[u] = "queued" => \E i \in 1 .. k : queue[i] = u
        /\ \A i, j \in 1 .. k : queue[i] = queue[j] => i = j
    BY DEF IInv, QueueIsQueued
  <2>2. \A i \in 1 .. k - 1 : /\ i + 1 \in 1 .. k /\ i + 1 # 1
                              /\ queue'[i] = queue[i + 1] /\ queue'[i] # t
    BY <1>2, <1>3, <2>1
  <2>3. \A i \in 1 .. Len(queue') : state'[queue'[i]] = "queued"
    BY <1>2, <1>3, <1>5, <2>1, <2>2
  <2>4. \A u \in Call : state'[u] = "queued" => \E i \in 1 .. Len(queue') : queue'[i] = u
    <3> SUFFICES ASSUME NEW u \in Call, state'[u] = "queued"
                 PROVE  \E i \in 1 .. Len(queue') : queue'[i] = u
      OBVIOUS
    <3>1. u # t /\ state[u] = "queued"
      BY <1>5
    <3>2. PICK i \in 1 .. k : queue[i] = u
      BY <3>1, <2>1
    <3>3. i # 1 /\ i - 1 \in 1 .. k - 1 /\ (i - 1) + 1 = i
      BY <3>1, <3>2, <1>2
    <3> QED BY <3>2, <3>3, <1>3
  <2>5. \A i, j \in 1 .. Len(queue') : queue'[i] = queue'[j] => i = j
    BY <1>2, <1>3, <2>1, <2>2
  <2> QED BY <2>3, <2>4, <2>5 DEF QueueIsQueued
<1>9. PoolHoldsBatch'
  <2>1. \A u \in Call : state'[u] # "new" <=> state[u] # "new"
    BY <1>2, <1>5
  <2>2. \A i \in 1 .. Count : <<batch, i>> \in Call
    BY <1>4, CallsOfBatch DEF Parallel
  <2> QED BY <1>1, <1>4, <1>5, <2>1, <2>2 DEF IInv, PoolHoldsBatch
<1>10. RunningIs' /\ ReportedIs'
  BY <1>1, <1>2, <1>4, <1>5 DEF IInv, RunningIs, ReportedIs, ReportedBeforeIdle, Parallel
<1> QED BY <1>6, <1>7, <1>8, <1>9, <1>10 DEF IInv
-----------------------------------------------------------------------------
(* run_one stores a result in the slot of its call and nowhere else.       *)
LEMMA ToolEndsFillsSlot ==
  ASSUME IInv, pc # "out", NEW i \in 1 .. Count, ToolEnds(<<batch, i>>),
         UNCHANGED <<batch, kinds>>
  PROVE  /\ result' \in Seq(Call \cup {NoResult}) /\ Len(result') = Count
         /\ running' = running \ {<<batch, i>>} /\ reported' = reported \cup {<<batch, i>>}
         /\ SlotsFilled'
<1>1. /\ result \in Seq(Call \cup {NoResult}) /\ Len(result) = Count
      /\ <<batch, i>> \in Call /\ <<batch, i>>[2] = i
  BY CallsOfBatch DEF IInv, TypeOK, Bounds
<1>2. result' = [result EXCEPT ![i] = <<batch, i>>] /\ reported' = reported \cup {<<batch, i>>}
  BY <1>1 DEF ToolEnds
<1>3. /\ result' \in Seq(Call \cup {NoResult}) /\ Len(result') = Count
      /\ \A j \in 1 .. Count : result'[j] = IF j = i THEN <<batch, i>> ELSE result[j]
  BY <1>1, <1>2, ExceptSeq
<1>4. ASSUME NEW j \in 1 .. Count, <<batch, j>> \in reported' PROVE result'[j] = <<batch, j>>
  <2>1. CASE j = i
    BY <2>1, <1>3
  <2>2. CASE j # i
    <3>1. <<batch, j>> \in reported
      BY <2>2, <1>2, <1>4
    <3> QED BY <3>1, <2>2, <1>3 DEF IInv, SlotsFilled
  <2> QED BY <2>1, <2>2
<1>5. SlotsFilled'
  <2>1. Count' = Count
    BY DEF Count
  <2> QED BY <1>4, <2>1 DEF SlotsFilled
<1> QED BY <1>3, <1>5 DEF ToolEnds

(* A worker ends a task.                                                   *)
LEMMA EndPreserves == ASSUME IInv, NEW t \in Call, WorkerEnds(t) PROVE IInv'
<1> USE DEF poolVars, batchVars
<1>1. /\ state[t] = "running" /\ ToolEnds(t) /\ state' = [state EXCEPT ![t] = "done"]
      /\ UNCHANGED <<queue, closed, blocked, made, batch, kinds, alive, pc, next, out, rc>>
      /\ Count' = Count /\ CanParallel' = CanParallel /\ Parallel' = Parallel
  BY DEF WorkerEnds, Pool!Finish, Count, CanParallel, Parallel
<1>2. Parallel /\ t[1] = batch /\ t[2] < next /\ pc # "out"
  BY <1>1 DEF IInv, PoolHoldsBatch, Parallel
<1>3. t = <<batch, t[2]>> /\ t[2] \in 1 .. Count
  <2>1. t[2] <= Count
    BY <1>1, <1>2, CallsOfBatch DEF IInv, PoolHoldsBatch
  <2> QED BY <1>2, <2>1, CallsOfBatch, CallIsPair, SizesAssumption
<1>4. /\ result' \in Seq(Call \cup {NoResult}) /\ Len(result') = Count
      /\ running' = running \ {t} /\ reported' = reported \cup {t}
      /\ SlotsFilled'
  BY <1>1, <1>2, <1>3, ToolEndsFillsSlot
<1>5. /\ \A u \in Call : u # t => state'[u] = state[u]
      /\ state'[t] = "done" /\ state' \in [Call -> {"new", "queued", "running", "done"}]
  BY <1>1 DEF IInv, TypeOK
<1>6. TypeOK'
  BY <1>1, <1>4, <1>5 DEF IInv, TypeOK
<1>7. Bounds' /\ ResultsInRequestOrder'
  BY <1>1, <1>2, <1>4 DEF IInv, Bounds, ResultsInRequestOrder, Parallel
<1>8. QueueIsQueued'
  <2>1. \A i \in 1 .. Len(queue) : queue[i] \in Call /\ queue[i] # t
    BY <1>1 DEF IInv, QueueIsQueued, TypeOK
  <2> QED BY <1>1, <1>5, <2>1 DEF IInv, QueueIsQueued
<1>9. PoolHoldsBatch'
  <2>1. \A u \in Call : state'[u] # "new" <=> state[u] # "new"
    BY <1>1, <1>5
  <2>2. \A i \in 1 .. Count : <<batch, i>> \in Call
    BY <1>2, CallsOfBatch
  <2> QED BY <1>1, <1>2, <1>5, <2>1, <2>2 DEF IInv, PoolHoldsBatch
<1>10. RunningIs' /\ ReportedIs'
  BY <1>1, <1>2, <1>4, <1>5 DEF IInv, RunningIs, ReportedIs, ReportedBeforeIdle, Parallel
<1> QED BY <1>4, <1>6, <1>7, <1>8, <1>9, <1>10 DEF IInv
-----------------------------------------------------------------------------
(* The serial path never touches the pool.                                 *)
LEMMA SerialPreserves ==
  ASSUME IInv, SerialStarts \/ SerialEnds \/ SerialOver PROVE IInv'
<1> USE DEF poolVars, batchVars
<1>1. /\ pc \in {"serial", "executing"} /\ ~Parallel /\ pc' \in {"serial", "executing", "collect"}
      /\ UNCHANGED <<queue, state, closed, blocked, made, batch, kinds, alive, out, rc>>
      /\ Count' = Count
  BY DEF SerialStarts, SerialEnds, SerialOver, Parallel, Count
<1>2. QueueIsQueued' /\ PoolHoldsBatch' /\ ResultsInRequestOrder'
  BY <1>1, PoolStays DEF IInv, PoolHoldsBatch, ResultsInRequestOrder, Parallel
<1>3. /\ next \in Nat \ {0} /\ next <= Count + 1 /\ Count \in Nat /\ Count <= MaxCount /\ MaxCount \in Nat
      /\ reported = {<<batch, i>> : i \in 1 .. next - 1}
  BY <1>1, CallsOfBatch, SizesAssumption DEF IInv, TypeOK, Bounds, ReportedIs
<1>4. CASE SerialStarts
  <2>1. /\ pc = "serial" /\ next <= Count /\ running' = running \cup {<<batch, next>>} /\ pc' = "executing"
        /\ UNCHANGED <<next, result, reported>>
    BY <1>4 DEF SerialStarts
  <2>2. running' = {<<batch, next>>} /\ <<batch, next>> \in Call
    BY <2>1, <1>1, <1>3, CallsOfBatch DEF IInv, RunningIs
  <2>3. TypeOK' /\ Bounds'
    BY <1>1, <2>1, <2>2 DEF IInv, TypeOK, Bounds, Parallel
  <2>4. RunningIs' /\ ReportedIs' /\ SlotsFilled'
    BY <1>1, <1>3, <2>1, <2>2 DEF IInv, RunningIs, ReportedIs, ReportedBeforeIdle, SlotsFilled, Parallel
  <2> QED BY <1>2, <2>3, <2>4 DEF IInv
<1>5. CASE SerialEnds
  <2>1. /\ pc = "executing" /\ ToolEnds(<<batch, next>>) /\ next' = next + 1 /\ pc' = "serial"
    BY <1>5 DEF SerialEnds
  <2>2. next \in 1 .. Count /\ running = {<<batch, next>>} /\ <<batch, next>> \in Call /\ <<batch, next>>[2] = next
    BY <2>1, <1>1, <1>3, CallsOfBatch DEF IInv, Bounds, RunningIs
  <2>3. /\ result' \in Seq(Call \cup {NoResult}) /\ Len(result') = Count /\ SlotsFilled'
        /\ running' = {} /\ reported' = reported \cup {<<batch, next>>}
    BY <1>1, <2>1, <2>2, ToolEndsFillsSlot
  <2>4. reported' = {<<batch, i>> : i \in 1 .. next' - 1}
    <3>1. \A i : i \in 1 .. (next + 1) - 1 <=> i \in 1 .. next - 1 \/ i = next
      BY <1>3
    <3> QED BY <1>3, <2>1, <2>2, <2>3, <3>1
  <2>5. next' \in 1 .. MaxCount + 1 /\ next' <= Count + 1 /\ reported' \subseteq Call
    <3>1. next' = next + 1 /\ next <= Count
      BY <2>1, <2>2, <1>3
    <3>2. reported' \subseteq Call
      BY <2>2, <2>3 DEF IInv, TypeOK
    <3> QED BY <3>1, <3>2, <1>3
  <2>6. TypeOK'
    BY <1>1, <2>3, <2>5, <2>1 DEF IInv, TypeOK
  <2>7. Bounds'
    BY <1>1, <2>1, <2>3, <2>5 DEF IInv, Bounds, Parallel
  <2>8. RunningIs' /\ ReportedIs'
    BY <1>1, <2>1, <2>3, <2>4 DEF RunningIs, ReportedIs, ReportedBeforeIdle, Parallel
  <2> QED BY <1>2, <2>3, <2>6, <2>7, <2>8 DEF IInv
<1>6. CASE SerialOver
  <2>1. pc = "serial" /\ next > Count /\ pc' = "collect" /\ UNCHANGED <<next, running, result, reported>>
    BY <1>6 DEF SerialOver
  <2>2. next - 1 = Count
    BY <2>1, <1>3
  <2>3. TypeOK' /\ Bounds'
    BY <1>1, <2>1 DEF IInv, TypeOK, Bounds, Parallel
  <2>4. RunningIs' /\ ReportedIs' /\ SlotsFilled'
    BY <1>1, <1>3, <2>1, <2>2 DEF IInv, RunningIs, ReportedIs, ReportedBeforeIdle, SlotsFilled, Parallel
  <2> QED BY <1>2, <2>3, <2>4 DEF IInv
<1> QED BY <1>4, <1>5, <1>6

(* The messages are built, or cannot be.                                   *)
LEMMA CollectPreserves == ASSUME IInv, Collect \/ CollectFails PROVE IInv'
<1> USE DEF poolVars, batchVars
<1>1. /\ pc = "collect"
      /\ UNCHANGED <<queue, state, closed, blocked, made, kinds, next, running, result, reported>>
      /\ Return("ok", result) \/ Return("error", <<>>)
  BY DEF Collect, CollectFails
<1>2. /\ running = {} /\ \A t \in Call : state[t] \notin {"queued", "running"}
      /\ result = [i \in 1 .. Count |-> <<batch, i>>]
      /\ blocked' \subseteq {Main} /\ result \in Seq(Call \cup {NoResult})
      /\ <<>> \in Seq(Call \cup {NoResult})
  <2>1. running = {} /\ \A t \in Call : state[t] \notin {"queued", "running"}
    BY <1>1 DEF IInv, RunningIs, PoolHoldsBatch, Parallel
  <2> QED BY <1>1, <2>1, AllSlots, EmptySeq DEF IInv, TypeOK
<1>3. CASE Return("ok", result)
  BY <1>1, <1>2, <1>3, ReturnPreserves
<1>4. CASE Return("error", <<>>)
  BY <1>1, <1>2, <1>4, ReturnPreserves
<1> QED BY <1>1, <1>3, <1>4
-----------------------------------------------------------------------------
(* Every step keeps the invariant.                                         *)
LEMMA NextPreserves == IInv /\ [Next]_vars => IInv'
<1> SUFFICES ASSUME IInv, [Next]_vars PROVE IInv'
  OBVIOUS
<1>1. CASE UNCHANGED vars
  BY <1>1 DEF vars, poolVars, batchVars, IInv, TypeOK, Bounds, QueueIsQueued, PoolHoldsBatch, RunningIs,
              ReportedIs, ReportedBeforeIdle, SlotsFilled, ResultsInRequestOrder, Parallel, CanParallel, Count
<1>2. CASE MainStep
  BY <1>2, OutsidePreserves, SubmitPreserves, WaitPreserves, SerialPreserves, CollectPreserves DEF MainStep
<1>3. CASE WorkerStep
  BY <1>3, StartPreserves, EndPreserves DEF WorkerStep
<1> QED BY <1>1, <1>2, <1>3, OutsidePreserves DEF Next, Terminated

(* The inductive invariant holds of every behaviour.                       *)
LEMMA InvariantHolds == Spec => []IInv
  BY InitEstablishes, NextPreserves, PTL DEF Spec
-----------------------------------------------------------------------------
(* After a successful return every message carries the result of the call  *)
(* at its index, after a failure there is none (executor.h).               *)
THEOREM ResultsAnswerCalls == Spec => []ResultsInRequestOrder
<1>1. IInv => ResultsInRequestOrder
  BY DEF IInv
<1> QED BY <1>1, InvariantHolds, PTL

(* A tool that is not known to be read-only never overlaps another one and *)
(* comes after all calls before it.                                        *)
THEOREM WritersAreAlone == Spec => []WritersRunAlone
<1>1. IInv => WritersRunAlone
  <2> SUFFICES ASSUME IInv, NEW t \in running, kinds[t[2]] # "reader"
               PROVE  running = {t} /\ reported = {<<batch, i>> : i \in 1 .. t[2] - 1}
    BY DEF WritersRunAlone
  <2>1. ~Parallel
    <3> SUFFICES ASSUME Parallel PROVE FALSE
      OBVIOUS
    <3>1. t \in Call /\ state[t] = "running"
      BY DEF IInv, RunningIs
    <3>2. t[1] = batch /\ t[2] <= Count
      BY <3>1, CallsOfBatch DEF IInv, PoolHoldsBatch, Parallel
    <3>3. t[2] \in 1 .. Count
      BY <3>1, <3>2, CallIsPair, CallsOfBatch, SizesAssumption DEF Parallel
    <3> QED BY <3>3 DEF IInv, PoolHoldsBatch, CanParallel
  <2>2. pc = "executing" /\ t = <<batch, next>>
    BY <2>1 DEF IInv, RunningIs
  <2> QED BY <2>1, <2>2 DEF IInv, RunningIs, ReportedIs
<1> QED BY <1>1, InvariantHolds, PTL

(* The arrays of a batch are freed only when none of its tasks is left in  *)
(* the pool, also when a submission failed in the middle.                  *)
THEOREM ArraysAreKept == Spec => []ArraysOutliveTasks
<1>1. IInv => ArraysOutliveTasks
  <2> SUFFICES ASSUME IInv, NEW t \in Call, t \in running \/ state[t] \in {"queued", "running"}
               PROVE  alive /\ t[1] = batch
    BY DEF ArraysOutliveTasks
  <2>1. CASE state[t] \in {"queued", "running"}
    BY <2>1 DEF IInv, PoolHoldsBatch, Parallel, Bounds
  <2>2. CASE t \in running /\ ~Parallel
    BY <2>2 DEF IInv, RunningIs, Bounds
  <2>3. CASE t \in running /\ Parallel
    BY <2>1, <2>3 DEF IInv, RunningIs
  <2> QED BY <2>1, <2>2, <2>3
<1> QED BY <1>1, InvariantHolds, PTL

(* ui_idle is called when every tool of the batch has been reported.       *)
THEOREM ReportsPrecedeIdle == Spec => []ReportedBeforeIdle
<1>1. IInv => ReportedBeforeIdle
  BY DEF IInv, ReportedIs
<1> QED BY <1>1, InvariantHolds, PTL
=============================================================================
