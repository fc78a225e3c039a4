------------------------------ MODULE Executor ------------------------------
(***************************************************************************)
(* tools/executor.c: executor_run_tools turns the tool calls of one        *)
(* assistant message into as many tool messages.  Batches of read-only     *)
(* tools are handed to the process-wide thread pool, all others run in the *)
(* calling thread.  The pool is the one TaskPool specifies and ThreadPool  *)
(* implements: every step here that submits, runs or waits is a step of it.*)
(*                                                                         *)
(* A call is known by its batch and its index; the result of a call is the *)
(* call itself, so a message tells whose result it carries.                *)
(***************************************************************************)
EXTENDS Naturals, Sequences, FiniteSets

CONSTANTS Batches,    (* bound: calls of executor_run_tools                *)
          MaxCount,   (* bound: tool calls in one message                  *)
          PoolSize    (* the argument of thread_pool_create                *)

ASSUME SizesAssumption == {Batches, MaxCount, PoolSize} \subseteq Nat \ {0}

Kinds == {"reader", "writer", "unknown"}
Call  == (1 .. Batches) \X (1 .. MaxCount)
Main  == "main"

VARIABLES queue, state, closed, blocked,  (* the pool                      *)
          made,       (* g_executor_pool is not NULL                       *)
          pc,         (* where the calling thread is                       *)
          batch,      (* number of the current or next call                *)
          kinds,      (* what the tools of the batch are                   *)
          next,       (* loop index                                        *)
          alive,      (* the tasks, views and args_json arrays exist       *)
          running,    (* calls whose tool is executing                     *)
          result,     (* tasks[i].result                                   *)
          reported,   (* calls for which ui_tool_done has been called      *)
          out,        (* out_msgs, empty for all NULL                      *)
          rc          (* what the latest call returned: 0 or -1            *)

poolVars  == <<queue, state, closed, blocked>>
batchVars == <<made, batch, kinds, alive>>
vars      == <<poolVars, batchVars, pc, next, running, result, reported, out, rc>>

Pool == INSTANCE TaskPool WITH Tasks <- Call, Clients <- {Main}, N <- PoolSize

Count == Len(kinds)
NoResult == <<>>

Init ==
    /\ Pool!Init
    /\ made = FALSE /\ pc = "out" /\ batch = 1 /\ kinds = <<>> /\ next = 1
    /\ alive = FALSE /\ running = {} /\ result = <<>> /\ reported = {}
    /\ out = <<>> /\ rc = "none"
-----------------------------------------------------------------------------
(* The pool is created by the first call that finds none.                  *)
CreateFails ==
    /\ pc = "out" /\ batch <= Batches /\ ~made
    /\ rc' = "error" /\ out' = <<>>
    /\ UNCHANGED <<poolVars, batchVars, pc, next, running, result, reported>>

Called ==
    /\ pc = "out" /\ batch <= Batches
    /\ made' = TRUE
    /\ \E n \in 1 .. MaxCount : \E ks \in [1 .. n -> Kinds] :
          /\ kinds' = ks
          /\ result' = [i \in 1 .. n |-> NoResult]
    /\ alive' = TRUE /\ out' = <<>> /\ reported' = {} /\ next' = 1
    /\ pc' = "args"
    /\ UNCHANGED <<poolVars, batch, running, rc>>

(* Every error path frees the arrays and returns -1 without messages.      *)
Return(code, messages) ==
    /\ rc' = code /\ out' = messages
    /\ alive' = FALSE
    /\ batch' = batch + 1
    /\ pc' = "out"

ArgsFail ==
    /\ pc = "args"
    /\ Return("error", <<>>)
    /\ UNCHANGED <<poolVars, made, kinds, next, running, result, reported>>

(* Mutant of CanParallel: the first tool decides for all.                  *)
CanParallelByFirst == Count >= 2 /\ kinds[1] = "reader"

CanParallel == Count >= 2 /\ \A i \in 1 .. Count : kinds[i] = "reader"

BeginTools ==
    /\ pc = "args"
    /\ pc' = IF CanParallel THEN "submitting" ELSE "serial"
    /\ UNCHANGED <<poolVars, batchVars, next, running, result, reported, out, rc>>
-----------------------------------------------------------------------------
(* The parallel path: submit every task, then wait for the pool.           *)
SubmitOne ==
    /\ pc = "submitting" /\ next <= Count
    /\ Pool!Accept(<<batch, next>>)
    /\ next' = next + 1
    /\ UNCHANGED <<batchVars, pc, running, result, reported, out, rc>>

(* Mutants of SubmitFails: the error path does not wait for the tasks that *)
(* were submitted; it destroys the pool the next call will use.            *)
SubmitFailsNoWait ==
    /\ pc = "submitting" /\ next <= Count
    /\ Return("error", <<>>)
    /\ UNCHANGED <<poolVars, made, kinds, next, running, result, reported>>

SubmitFails ==
    /\ pc = "submitting" /\ next <= Count
    /\ Pool!Wait(Main)
    /\ pc' = "draining"
    /\ UNCHANGED <<batchVars, next, running, result, reported, out, rc>>

Drained ==
    /\ pc = "draining"
    /\ Pool!WaitReturns(Main)
    /\ Return("error", <<>>)
    /\ UNCHANGED <<made, kinds, next, running, result, reported>>

AllSubmitted ==
    /\ pc = "submitting" /\ next > Count
    /\ Pool!Wait(Main)
    /\ pc' = "waiting"
    /\ UNCHANGED <<batchVars, next, running, result, reported, out, rc>>

(* Mutant of WaitOver: the results are read without waiting.               *)
WaitSkipped ==
    /\ pc = "waiting"
    /\ pc' = "collect"
    /\ UNCHANGED <<poolVars, batchVars, next, running, result, reported, out, rc>>

WaitOver ==
    /\ pc = "waiting"
    /\ Pool!WaitReturns(Main)
    /\ pc' = "collect"
    /\ UNCHANGED <<batchVars, next, running, result, reported, out, rc>>

(* A worker takes a task: run_one begins to execute the tool.              *)
WorkerStarts ==
    /\ Pool!Start
    /\ running' = running \cup {Head(queue)}
    /\ UNCHANGED <<batchVars, pc, next, result, reported, out, rc>>

(* Mutant of ToolEnds: results are stored in the order of completion.      *)
ToolEndsAppending(t) ==
    /\ running' = running \ {t}
    /\ result' = [result EXCEPT ![Cardinality(reported) + 1] = t]
    /\ reported' = reported \cup {t}

(* run_one stores the result in the slot of its index, then reports it.    *)
ToolEnds(t) ==
    /\ running' = running \ {t}
    /\ result' = [result EXCEPT ![t[2]] = t]
    /\ reported' = reported \cup {t}

WorkerEnds(t) ==
    /\ t \in running /\ state[t] = "running"
    /\ ToolEnds(t)
    /\ Pool!Finish(t)
    /\ UNCHANGED <<batchVars, pc, next, out, rc>>
-----------------------------------------------------------------------------
(* The serial path: run_one in the calling thread, in request order.       *)
SerialStarts ==
    /\ pc = "serial" /\ next <= Count
    /\ running' = running \cup {<<batch, next>>}
    /\ pc' = "executing"
    /\ UNCHANGED <<poolVars, batchVars, next, result, reported, out, rc>>

(* Mutant of SerialEnds: the index is not advanced.                        *)
SerialEndsNoStep ==
    /\ pc = "executing"
    /\ ToolEnds(<<batch, next>>)
    /\ pc' = "serial"
    /\ UNCHANGED <<poolVars, batchVars, next, out, rc>>

SerialEnds ==
    /\ pc = "executing"
    /\ ToolEnds(<<batch, next>>)
    /\ next' = next + 1
    /\ pc' = "serial"
    /\ UNCHANGED <<poolVars, batchVars, out, rc>>

SerialOver ==
    /\ pc = "serial" /\ next > Count
    /\ pc' = "collect"
    /\ UNCHANGED <<poolVars, batchVars, next, running, result, reported, out, rc>>
-----------------------------------------------------------------------------
(* ui_idle has returned; the messages are built from the slots.            *)
Collect ==
    /\ pc = "collect"
    /\ Return("ok", result)
    /\ UNCHANGED <<poolVars, made, kinds, next, running, result, reported>>

(* A message cannot be serialised: those built before it are freed.        *)
CollectFails ==
    /\ pc = "collect"
    /\ Return("error", <<>>)
    /\ UNCHANGED <<poolVars, made, kinds, next, running, result, reported>>

Terminated == pc = "out" /\ batch > Batches /\ UNCHANGED vars

MainStep ==
    \/ ArgsFail \/ BeginTools
    \/ SubmitOne \/ SubmitFails \/ Drained \/ AllSubmitted \/ WaitOver
    \/ SerialStarts \/ SerialEnds \/ SerialOver
    \/ Collect \/ CollectFails

WorkerStep == WorkerStarts \/ \E t \in Call : WorkerEnds(t)

Next == CreateFails \/ Called \/ MainStep \/ WorkerStep \/ Terminated

(* The calling thread and the workers go on, and tools come to an end.     *)
Spec == Init /\ [][Next]_vars /\ WF_vars(MainStep) /\ WF_vars(WorkerStep)
-----------------------------------------------------------------------------
TypeOK ==
    /\ queue \in Seq(Call) /\ closed = FALSE /\ blocked \subseteq {Main}
    /\ state \in [Call -> {"new", "queued", "running", "done"}]
    /\ made \in BOOLEAN /\ alive \in BOOLEAN
    /\ pc \in {"out", "args", "submitting", "draining", "waiting", "serial", "executing", "collect"}
    /\ batch \in 1 .. Batches + 1 /\ next \in 1 .. MaxCount + 1
    /\ kinds \in Seq(Kinds) /\ running \subseteq Call /\ reported \subseteq Call
    /\ result \in Seq(Call \cup {NoResult}) /\ out \in Seq(Call \cup {NoResult})
    /\ rc \in {"none", "ok", "error"}

(* The ordering invariant of executor.h: after a successful return every   *)
(* message carries the result of the call at its index of this very batch, *)
(* however the tools overlapped; after a failure there is no message.      *)
ResultsInRequestOrder ==
    pc = "out" /\ batch > 1 =>
        out = IF rc = "ok" THEN [i \in 1 .. Count |-> <<batch - 1, i>>] ELSE <<>>

(* A tool that may change something, or is not known to be harmless, never *)
(* overlaps another tool and runs after all calls before it.               *)
WritersRunAlone ==
    \A t \in running :
        kinds[t[2]] # "reader" =>
            running = {t} /\ reported = {<<batch, i>> : i \in 1 .. t[2] - 1}

(* A task refers to the arrays of its batch, which live on the heap of the *)
(* caller: they are freed only when no task of the batch is left in the    *)
(* pool, on the error path as on the normal one.                           *)
ArraysOutliveTasks ==
    \A t \in Call :
        t \in running \/ state[t] \in {"queued", "running"} => alive /\ t[1] = batch

(* When the executor calls ui_idle every tool of the batch has been        *)
(* reported to the UI, so the frame that stays on the screen is complete.  *)
ReportedBeforeIdle ==
    pc = "collect" => reported = {<<batch, i>> : i \in 1 .. Count}

(* executor_run_tools returns.                                             *)
CallsReturn == pc = "args" ~> pc = "out"
=============================================================================
