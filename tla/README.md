# A verification project for the shell agent

The program is a small coding agent in C: a REPL reads a line, the agent sends
the history to a language model over HTTP, runs the tools the model asks for,
some of them in parallel on a thread pool, answers with their results and asks
again until the model replies. While it waits, a render thread draws a spinner
and the progress of the tools. When the history grows, old tool results are
moved to files.

These TLA+ modules model the parts of it that are concurrent, that fail
half-way, whose correctness depends on a long sequence of calls, or that take
apart texts the program does not control. TLC checks
them on small instances, TLAPS proves some of the results for every value of the
constants. Paths below are relative to the repository.

## Inventory

| Component | Source | State | Operations |
|---|---|---|---|
| Task queue | `tools/thread_pool.c`, `tools/task_queue.h` | linked list: head, tail, count | init, push, pop, clear |
| Thread pool | `tools/thread_pool.c` | queue, `active_tasks`, `shutdown`, a mutex, conditions `has_task` and `idle`, an array of threads | create, submit, wait, destroy, the worker loop |
| Tool executor | `tools/executor.c` | the process-wide pool; per call: tasks, views, results | `executor_run_tools` |
| Terminal UI | `ui/ui.c`, `ui/render.c` | ring of 64 events, `idle_ack`, slots, one condition variable, the render thread's phase and drawn lines | start, stop, begin_thinking, begin_tools, tool_done, idle; the render loop |
| Context | `context/context.c`, `token.c` | list of messages, two policies | push, replace_msg, budget_usage, reclaim |
| Offload policy | `context/policy_offload.c` | `next_offload_id`, files `.agent/offload/<id>.txt` | should_apply, apply |
| Summary policy | `context/policy_summary.c` | none | a stub that never applies |
| Agent, REPL | `agent/agent.c`, `main.c` | the context of the session | `agent_chat`, the loop of `main` |
| LLM client | `agent/llm_client.c` | one request and its response | `llm_chat` |
| HTTP | `http.c` | a socket | connect, send_all, recv_all, parse |
| bash tool | `tools/bash.c` | a pipe and a child process | `tool_bash` |
| File tools | `tools/read.c`, `write.c`, `edit.c` | files of the workspace | read, write, edit |
| Path containment | `tools/sandbox.c` | none | `resolve_workspace_path` |
| Registry | `tools/registry.c` | array of tool definitions | init, find, run, list |
| Configuration | `config.c` | `g_config` | init from the environment |
| Messages, utilities | `message.c`, `util.c` | growable array of JSON strings | append, free, xmalloc and friends |
| cJSON | `libs/cJSON.c` | a parse buffer, a print buffer that grows, trees of items | parse, print, look up, build and take apart trees |

cJSON is vendored, but everything the model says and is told passes through it twice per
request, in memory whose size it computes beforehand.

How they interact. `main` starts the UI, then calls `agent_chat` for each line.
`agent_chat` pushes the user message, and per turn calls `ctx_reclaim`,
`ui_begin_thinking`, `llm_chat`, and then either `ui_idle` and return, or
`ui_begin_tools`, `executor_run_tools` (which calls `ui_begin_tools` again, runs
each tool, calls `ui_tool_done` from whichever thread ran it, and `ui_idle`) and
`ctx_push` for each result. The executor shares memory with the pool's workers:
the arrays of a batch, each task owning one slot. The main thread, the workers
and the render thread share the UI's mutex and its single condition variable.
The file tools share the workspace with each other, in a batch one at a time unless all of
it only reads, and with whatever processes a bash call left in the background.
Between processes only the workspace, with the offload directory, survives.

What is hard in it, by component, with what makes it correct:

* **Task queue**: `push` relies on its caller for `node->next == NULL`; nodes are
  freed and their addresses used again. *Correct*: the list enumerates exactly
  the queued nodes, each node has one owner, and it is a FIFO queue.
* **Thread pool**: one signal per task, a broadcast when the pool becomes idle,
  spurious wake-ups, tasks that submit tasks, a worker that cannot be created
  while others already run, destruction under load. *Correct*: no wake-up is
  lost, wait returns only when idle, a task runs at most once, in order, and never
  after shutdown; nothing is freed in use, nothing leaks; everything returns.
* **Executor**: completion in any order, a submit that fails in the middle,
  mixed batches. *Correct*: results answer their calls; writers run alone; the
  arrays outlive the tasks; every tool is reported before the frame is final.
* **UI**: events and acknowledgement share a condition variable, the render
  thread may become idle by itself, the ring drops its oldest event when full.
  *Correct*: `ui_idle` and `ui_stop` return; when the reply is printed the region
  is erased; results reach the scrollback.
* **Context**: files and history change in separate steps, and either can fail.
  *Correct*: the history reads back as what was said, in order; recent messages
  stay verbatim; success means it fits.
* **bash tool**: the shell, and processes that outlive it, write into a pipe that is
  smaller than their output. *Correct*: neither side waits for the other for ever; the report
  is everything that was written, in order, with the shell's own status; nothing stays open.
* **LLM client and HTTP**: any part of a buffer is taken or given at a time, the peer falls
  silent or closes anywhere; each of some twenty error paths has its own list of what to free and
  close. *Correct*: the request arrives once and whole, half a reply is never accepted, every error path
  releases what has been acquired where it stands, and nothing twice; the call ends.
* **Agent**: three ways to end a turn, partial failure of a batch, the window.
  *Correct*: the answers of a message's calls are all there, in order, or none
  is; a request never exceeds the window; every chat ends.

* **File tools, path containment, registry**: a file is truncated before it is written, its
  flush is not looked at, another process may write, remove or replace it, or a link on the way to it,
  between two steps, also between the check of a path and its use; paths go through
  links, to files that do not exist yet; the executor trusts the read-only flag. *Correct*: what
  is read is the file up to the limit; a reported change is exactly the one asked for; whatever
  happens, a file holds the old content or a beginning of the new; only the named file
  changes, and that is inside the workspace, and tools that call themselves readers change nothing.
* **Texts** (cJSON, configuration): arbitrary bytes, memory allocated from a first pass, a
  reply cut off anywhere, two parsers for one variable. *Correct*: contents survive being put into
  a message and read back, within what was allocated; no beginning of a document is
  accepted; a window means the same number everywhere.

`PROJECT.json` lists each hazard at its line, with the properties for it.

## Modules and the code

**`TaskQueue`** is the list of `thread_pool.c` with explicit addresses: `next[n]`
for `n->next`, `head`, `tail`, `count`, and where every node is (free, with its
allocator, in the list, with the worker that popped it). Freed addresses may be
allocated again in any order. `Fifo` is the abstract queue it implements
(`FifoSpec`, with the queued nodes as the refinement mapping).

**`ThreadPool`** has one action per critical section. The pool's mutex is not a
variable: every step between a lock and the next unlock or wait is atomic, which
is what the mutex gives. The sequence of tasks stands for the list, which
`TaskQueue` justifies. A worker is unborn, ready (about to test its loop
condition under the lock), asleep in `pthread_cond_wait`, running a task, between
the task and the lock (`finishing`), or exited; a caller of `thread_pool_wait` is
waiting or blocked. `pthread_cond_signal` wakes any one of the
sleepers, if there is one, a broadcast wakes all, `SpuriousWakeup` any. Creation acquires its five objects
one by one, each can fail, and `held` records what has to be released.
**`TaskPool`** is what the pool promises to a caller: a queue of accepted tasks,
at most `N` of them running, each started once, waits that return when nothing is left.
`ThreadPool` implements it (`PoolSpec`).

**`Executor`** is the whole of `executor_run_tools` *over* `TaskPool`: every
submission, start, end and wait is an action of the pool's interface, so the
executor is checked against what the pool promises and the pool separately
against the promise. A tool is a reader, a writer or not registered (`Kinds`); a call is
`<<batch, index>>` and the result of a call is the call itself, so that a
message tells whose result it carries.

**`UI`** is the ring of events, the acknowledgement, the slots and the render
thread's phase, with the main thread calling the `ui_*` functions in the order
`agent_chat`, `executor_run_tools` and `main` do. Ring overflow, timed and untimed waits, the one
signal that may reach the wrong waiter, and spurious wake-ups are modelled. The render
thread drains the ring without giving the mutex up: that round is one action per event
(`Handles`) while `render` is `"draining"`, and the main thread's critical sections wait for
its end (`Unlocked`); the frame is drawn before the mutex is left, so it belongs to the round.
What is on the screen is reduced to what the dynamic region shows.

**`Context`** is the history with `ctx_push` and `ctx_reclaim`, step by step through
`offload_apply`: save a file, replace the message, go on; fail half-way; return.
The percentages go through the conversion to `int` of `config.c`. `Restart` ends
the process anywhere: files stay, ids begin at 0 again. The abstract
**`Transcript`** is an append-only log; the refinement mapping reads every
placeholder back from its file (`Recovered`).

**`Agent`** is `agent_chat` and the REPL over `INSTANCE Context`: its pushes and
reclaim steps are steps of `Context` (checked as `ContextSpec`). The executor is
taken at its word (all results in request order, or none and -1, which is
`ResultsInRequestOrder`), `llm_chat` at its outcomes.

**`BashTool`** is `tool_bash` up to each of its returns, and beside it the processes of the
command as the operating system would run them: they write into the pipe, block when it is
full, redirect their output, leave another process behind, exit or are killed at any
moment. `fds` is what the tool has open, `writers` who else holds the write end; `read`
returns any part of what is in the pipe, and 0 only when nobody can write any more. `CString` is the
conversion to a C string, which ends at the first zero byte; `Report` decodes the status.

**`LlmClient`** is `llm_chat` over `send_all`, `recv_all` and `http_parse_response`. Bytes of the
request are known by their place, so that repeated or missing ones show; bytes of the reply are
counted, and `Grown` and `Room` are the arithmetic of the receive buffer. `held` is what is
allocated or open. `LlmFrees` lists, for each place where `llm_chat` returns -1, what the code frees and
closes there, `HttpFrees` what `tcp_connect` and `recv_all` free before they return to it (`Exit`
says where); `Fails` takes away just that, so that a forgotten or a repeated release shows.
`Unowned` is what `cJSON_AddItemToObject` could not add, which the code does not look at. The fields of a tool call can be
*unset*: `xmalloc` does not clear the array. `SendKills` is the SIGPIPE that ends the process.

**`Sandbox`** is `resolve_workspace_path` over a file system of directories, files and links.
`Walk` is the kernel's path resolution (a function, name by name and link by link, with
its limit on links), `Opens` what `open(2)` would reach and `Realpath` what
`realpath(3)` returns; the comparison in `WithinWorkspace` is made on letters, as in the code, so
that a neighbour whose name begins like the workspace's counts. `ResolvesAsAsked` is the
reference: containment by directories, without reference to text. `Dangling` names the one kind of
path that is accepted and may lead outside: its last name is a link that `realpath` could not follow
to the end, and `open(2)` does.

**`Registry`** is the array of tools with its flags, filled by the four calls of
`ToolRegister` in `tools_init`. **`FileTools`** runs `read_file`, `write_file` and `edit_file` over both, one action
per call of the C library that reaches a file: the `realpath` of `resolve_workspace_path`
(`ReadResolves`, `WriteResolves`, `EditResolves`, which keep `safe`); each `fopen`, which follows that
name again as the links are by then, and may truncate; the blocks `fwrite` hands on, the rest that
`fclose` flushes, `fgets` piece by piece. A disk may take less at each of them (`BlocksFallShort`,
`Closes`), and `OtherChanges` is a background process that creates, writes, removes or replaces a
file or a link between any two steps. A killed program leaves the file system as it is, so an
invariant of every state holds after every crash.

**`JsonNumber`**, **`JsonString`** and **`JsonTree`** are the parser and the printer of `cJSON.c` as
operators on bytes: the pass that finds the closing quote and allocates, the one that
decodes, surrogate pairs, escapes, nesting, the growth of the print buffer (`Ensure`) with
every write measured against it (`fits`). A number is a double of `Significand` bits, as `strtod` rounds it and
`print_number` prints it: `%d`, or `%g` with few digits, or with more if those do not bring it back.
Over them are the messages of `message.c` and the placeholder that `policy_offload.c` puts into a
duplicate. **`Config`** is `parse_env_int` and the second reading of `CONTEXT_WINDOW` by `agent_create`, with the widths of `int` and `long` as constants.
**`Numbers`** is where texts come from: one is typed piece by piece, and in every state it is given to
the functions that read it, here those of `Config`. **`Text`** gives the same texts to cJSON.

`ThreadPoolProofs`, `ExecutorProofs`, `UIProofs`, `ContextProofs`, `AgentProofs`, `BashToolProofs`,
`LlmClientProofs` and `FileToolsProofs` hold the theorems, each over the module it is
named after; those about `TaskQueue` are in `ThreadPoolProofs`, those about `Sandbox` and
`Registry` in `FileToolsProofs`, the one about `Config` and `Numbers` in `AgentProofs` (its subject is
the window `agent_create` begins with). The `MC` modules only fix what a `.cfg` cannot express; **`MCSequential`** puts
`TaskQueue`, `Text` and `FileTools` side by side: a behaviour picks one of them as its `subject`, and the others rest.

## Runs

| Run | States | What it shows |
|---|---|---|
| `thread_pool` | 13419 | safety, liveness and `PoolSpec` for three workers, three tasks and two clients; no symmetry, since it checks liveness |
| `ui` | 6152 | the barrier, the final frame, no lost signal, `ui_idle` and `ui_stop` return (`WakeUpIsPending`, `SettledWhenFresh`, `WaitsEnd`), with batches larger than the slots and a ring small enough to overflow |
| `executor` | 4013 | ordering, exclusion of writers, lifetime of the arrays, over two batches of up to three calls of each kind on a pool of two |
| `context` | 102226 | `TranscriptSpec`, `SettledWhenOk`, `RecentStayVerbatim` |
| `agent` | 83448 | `ResultsAllOrNone`, `RequestFits`, `ChatEnds`, and that the agent uses the context as `Context` has it |
| `bash_tool` | 11583 | two commands whose output is twice the pipe, with a background process: `ReportIsFaithful`, `NothingLeft`, `ToolEnds` |
| `llm_client` | 67574 | two calls, replies of every shape cut off anywhere, failures at every point: `RequestArrives`, `RoomLeft`, `AcceptedIsWhole`, `NothingHeld`, `CallEnds` |
| `sequential` | 415217 | the list of tasks: `ListShape`, `Ownership`, `FifoSpec` while addresses are freed and used again in every order; every text of up to four or five pieces: `JsonSurvives`, `CutIsRefused`, `WindowsAgree`; two calls of any file tool over eight contents and nineteen paths: `ReadIsFaithful`, `ChangeIsExact`, `OldOrBeginning`, `ResolvesRight`, `OnlyNamedFileChanges` |
| `ui_barrier`, `context_disk`, `file_tools_link`, `llm_leak` | | each shows one statement of the documentation or comments that the code does not keep (see below) |

Bounds. Four addresses are enough for an empty, a one-node, a two-node and a longer list. Three workers let one run while another sleeps and a third has been woken
but not scheduled; two clients let one wait while the other submits, and tasks submit tasks;
three tasks let one run, one be queued and one be submitted by the first. In the
executor two batches show the reuse of the pool and of stale state, three calls on
two workers that tasks queue behind busy workers. In the UI two slots with
batches of one to three tools cover both sides of the truncation at
`MAX_RENDER_SLOTS`, and a ring of four events (`QueueSize` 5) overflows within one batch.
In the context three messages with `Keep` 1 have an old message, a boundary
message and a recent one, and a window of 7 lies between the cost of histories with and without long messages;
three files and one restart let an id be given twice. In the agent two turns and
two chats reach the turn limit, a second chat on an old history, and a window that is
exceeded. The pipe holds two of the four bytes a command may write, so that writers block,
and is read in parts of one or two. The replies have five and six bytes and the receive
buffer begins with one, so that it grows three times and the peer may close just when it is full; two calls show what the first leaves behind.
With the file tools the buffer of `fgets` holds two characters, the cap is three and a block of stdio two, so that files of
up to five meet every boundary, a NUL and several newlines; two calls let the second run over what the
first left (a created file, one emptied by a full disk), and one change by another process
(a file written, removed, or made a link that leads outside) can fall between any two steps; two links may be followed, so that a path through three
meets `ELOOP`, and its last name, resolved by the parent, does not. The pieces of texts are single bytes and whole escapes, so that
four of them make surrogate pairs, broken ones and escapes cut by the closing quote; documents nest
deeper than `NestingLimit`; the print buffer begins with four bytes and grows; an `int` of five bits
overflows within five digits, a double of eight bits is inexact within four, and two of its digits are sure. Bounds are constants named so in each module; guards use them, and
a model that has used one up stutters instead of deadlocking (`Exhausted`, `Terminated`).

Fairness. Weak fairness of the steps of each thread the kernel schedules:
workers, the owner during create and destroy, a client inside `wait`, the
render thread, `ui_idle`, `ui_stop`. No strong fairness is needed, since the mutex is
not contended for ever by anybody. No fairness is assumed of user input, of
submissions, or of failures. Tools are assumed to end
(`TaskReturns`, `WorkerStep`), and `llm_chat` to return. `BashTool` and `LlmClient` show
what that rests on: the processes of a command end unless the pipe keeps them from it, and the
peer takes the request, for `send` has no time limit; it need neither reply nor close.
Two hazards (`tools/bash.c:95`, `http.c:83`) say where the code itself
does not enforce it. In `BashTool` a kill is possible and never assumed. `WaitsEnd` assumes that a timed wait times out.

The modules with variables of several kinds state their ranges as `TypeOK`. The inductive
invariants of the proofs begin with it (`TypesHold`); no run spends time on it. That a reclaim
returns is part of `ChatEnds`. `sequential` checks no liveness, and its behaviours
stop when the bound on calls or pieces is used up (`CHECK_DEADLOCK FALSE`).

Every property has a mutant in `PROJECT.json`: a change of one definition, such as a
dropped broadcast, an id not advanced, or results stored by completion, that TLC
rejects under the same configuration.

## Where code and documentation disagree

Four runs check one statement each, and TLC finds a behaviour of the code that
breaks it. `PROJECT.json` (`findings`) quotes the lines.

1. `ui_barrier`: `ui_idle` promises that the region is drained. If the render
   thread acknowledges on its own, the `IDLE` event stays in the ring; drained together
   with the next `THINKING`, it acknowledges the next turn too early, and the
   reply is printed under a live spinner. `SettledWhenFresh` is what does hold.
2. `context_disk`: short writes of an offload file go unnoticed and the content is
   replaced all the same. With complete writes the log is lossless, which is
   both checked (`TranscriptSpec`) and proved.
3. `file_tools_link`: `sandbox.h` has `resolve_workspace_path` reject "anything that ends up outside". A path
   whose last name is a link to a missing file is taken for a file to be created: its parent is inside, the name is put
   back, and `fopen("w")` follows the link and creates the file wherever it leads. `ResolvesRight` and
   `OnlyNamedFileChanges` say, and the proofs show, that nothing else leaves the workspace, as long as no other process
   changes a link between the check and the use.
4. `llm_leak`: "everything you malloc / cJSON_Parse here has to be freed somewhere". When `cJSON_AddItemToObject`
   has no memory, or the schema of a tool does not parse for want of it, the part belongs to no
   tree and `llm_chat` goes on without it. `NothingHeld` is what does hold.

Others are in the models and have no run of their own. The thresholds are fractions stored in an
`int` (`config.c:55`), so every percentage below 100 is 0 and offloading starts with the first
message (`OffloadThreshold`). The final reply is returned without being pushed into the history
(`LlmReplies`, `agent.c:135`), where `llm_client.c:430` has the agent push it, so a later question is asked
without it. The summary policy is a stub that never
applies (`SummaryShouldApply`), so a history over its threshold is sent as it is, and over the
window it fails. A reply with an empty content is returned as `NULL` (`outcome = "null"`), which
`main` takes for an error. A peer that closes before the request is sent kills the process by SIGPIPE
(`SendKills`), where `llm_client.h` has -1 returned on any error. `CONTEXT_WINDOW=12x` is the default for the
configuration and 12 for the agent (`ConfigWindow`, `AgentWindow`), both silently apart from a warning of the first.
With `/` as working directory `within_workspace` wants a second `/` after the prefix: every file that
exists is refused as outside, while a new one in `/` can be written (`PathsResolveRight` leaves that directory out).
`edit_file` on a directory trusts `ftell` (`EditReadsDirectory`): `malloc` of that size may fail and is not tested.

## Proofs

Checked by TLAPS (`tlapm <module>.tla`), for every value of the constants that
satisfies the modules' assumptions:

* **`ThreadPoolProofs`**, on the list: `ListIsShaped`, `NodesOwnedOnce`, `ImplementsFifo`. The
  inductive invariant is `TypeOK /\ ListShape /\ Ownership`: a pop is right only
  because the shape says `head` is the first of the queued nodes and `nxt` of the
  last is NULL, and the shape survives a push only because ownership says the new node is not in the list.
* **`ThreadPoolProofs`**, on the pool: `TypesHold`, `ActiveCountsBusy`, `NoIdleWakeupIsLost`,
  `WaitReturnsIdle`, for any number of workers, tasks and clients. The inductive
  invariant adds `QuietUnlessOpen` (before the pool is handed to its owner nothing
  is queued and nobody waits) to `TypeOK`, `ActiveIsBusy`, `QueueIsQueued` and
  `NoLostIdle`: without it a failing creation could discard tasks, and without
  `ActiveIsBusy` a decrement could not be known to leave 0 only when nobody runs.
  `PoolIsKept` (nothing is freed in use, nothing is left behind) needs a second invariant,
  `Lifecycle`: threads are created and joined in order, objects are held by phase, `shutdown` is set
  before any join. `ImplementsTaskPool` is the refinement: every step is one of the
  promised pool or a stutter. That at most `N` tasks run follows because
  the running tasks are matched one to one with busy workers.
* **`ExecutorProofs`**: `ResultsAnswerCalls`, `WritersAreAlone`, `ArraysAreKept`,
  `ReportsPrecedeIdle`, for any number of batches, calls and workers, over the promised pool. All four
  rest on `PoolHoldsBatch`: what is queued or running is exactly the part of this batch that
  has been submitted, and a task that is done belongs to an earlier batch or is one of its calls.
  `RunningIs` adds which tools execute, `ReportedIs` and `SlotsFilled` how far reports
  and results have come. Since an idle pool holds nothing of the batch, all its calls are then reported and
  their slots filled.
* **`UIProofs`**: `NoWakeUpIsLost`, from `WakeUpInv`: only `ui_idle` blocks the main thread, so a
  signal for the render thread finds no other waiter. `SettledByBarrier` assumes `RoomForBatch`
  (`QueueSize > MaxSlots + 2`): a ring that holds `TOOLS_START`, one event for every slot and
  `IDLE` never drops one the frame depends on. `Following` says how far the render thread can be
  behind at each point of the main thread. The bound is exact: with `QueueSize = MaxSlots + 2`
  TLC finds a frame that is wrong after the barrier. `ui/internal.h` has 64 and 32, far enough apart.
  The run `ui` has the smallest ring with that room, which still drops events of before the batch.
* **`ContextProofs`**: `TypesHold`, `OkMeansSettled`, `RecentAreKept`, and
  `ImplementsTranscript`: *assuming complete writes* (`~ShortWrites`), `Context`
  implements the append-only log, for every history, window, threshold and number
  of crashes. The inductive invariant adds `Placeholders` (a placeholder's
  file exists and its number is below `nextId`), `FilesAreWhole`, and `Progress` (what the loop has
  passed is settled). That a new file never overwrites one in use follows from the
  numbers below `nextId`, although old files exist with higher ones.
* **`AgentProofs`**: `AllOrNone`, `RequestsFit` and `FollowsContext`, for any number of chats, turns
  and calls. `OpenBatch` and `NothingOpen` say what the history ends with at
  each point of the loop, `CallsSettled` and `ResultsAsked` relate every older message to its answers,
  in both directions; a reclaim replaces messages without moving them or changing their tags. `OkFits` ties the
  `ok` of a reclaim to the window at the request. `LengthBound` counts what has been pushed, so that
  the bound on messages in `Context` never stops an agent that has not used up its own.
* **`AgentProofs`**, on the window: `ReadersAgree`, for every text and every width of `int` and `long`. `Past` and
  `Accumulated` are functions of a place in the text; by induction on it `CountsAgree` shows that what
  `strtol` has counted is the number of the reference, or out of range with it, and `NumeralIsUsed` that
  what it uses to the end is exactly a numeral. The rest is arithmetic: what is at most `MaxWindow` survives
  the conversion to `int` (`AtoiWraps`).
* **`BashToolProofs`**: `ReportsFaithfully`, `LeavesNothing`. The core is `NothingGetsLost`: what
  was read followed by what is in the pipe is what was written. With `ReadToTheEnd` (after
  `read` gave 0 nobody can write) the report is the whole of it, and
  `CStringProperties` says where the C string ends. The rest of the invariant says
  which ends are open, and how the shell lives, by the place in `tool_bash`.
* **`LlmClientProofs`**: `RequestIsWhole`, `RecvHasRoom`, `WholeOrRefused`, `HoldsNothing`, for
  requests and replies of every length and every way they are cut. `SentSoFar` places every byte that
  arrived; `Received` bounds the buffer from both sides; `ParsedUpTo(n)` says the fields of
  the first `n - 1` calls are set from the reply; `HeldByPlace` says for each place what has been acquired there
  and not yet released; that the list of that place is the same set is what `HoldsNothing` needs of it.

* **`FileToolsProofs`**: all five properties of the file tools in `sequential`, for every tree of files and links,
  every request, every limit on links and every size of lines, blocks and the cap.
  + *Walks.* A walk either follows a link, of which it has one less left, or has one name less
    before it, so ways are well-founded (`WayInduction`); that the recursive function `Walk` is
    total and solves its own equation is proved from that (`SolutionExists`, `WalkSolves`).
    A walk only ever stands in directories reached without links (`Plain`), a walk along
    two paths is one along their parts (`WalkJoins`), and more links never change where it leads (`MoreLinks`).
  + *Texts.* The comparison of `within_workspace` is made on letters, so `FlatInjective` and
    `UnderIsInside` show that a text which goes on with a separator belongs to a path which goes
    on with names: names hold no separator. `ResolutionLeads` and `ResolutionComes` are the two
    halves of `ResolvesAsAsked`; they give `PathsResolveRight`.
  + *Steps.* The inductive invariant `IInv` says, by place, which tool runs (`ToolByPlace`), and, unless
    another process has changed the file system since the call (`disturbed`): that nothing has changed before the file is opened for
    writing (`Untouched`), that `safe` is what the sandbox gave at the call (`SafeAsGiven`) and the file the one it
    named then (`OpenAsNamed`), what is to be written (`ContentAsked`), and that the file holds the part of it
    that is written so far (`WrittenByPlace`). It gives `FileOldOrBeginning`, `FileChangeIsExact` (with `FirstOccurrence`:
    looking in the C string finds what replacing the first occurrence in the whole file replaces) and
    `OnlyTheNamedFile` (with `RegistryIsFilled`), whose first half, that no file but the open one changes, holds
    whatever other processes do.
  + *Reading.* `ReadSoFar` says that the text so far is the file up to `pos`, if there was no NUL, and otherwise
    begins with the C string of the file, and how many lines it has; `LineIsTaken` what one `fgets` adds to it.

The assumptions are the named ASSUMEs of the modules, mostly that sizes are natural numbers, in part
positive, and that special values are distinct from others; TLC evaluates them in the runs. Beyond them
three theorems assume something of the program, in their statement: `ImplementsTranscript` (complete
writes), `SettledByBarrier` (room in the ring) and `PathsResolveRight` (a working directory other than
`/`).

Only model-checked: liveness (`TasksSettle`, `CallersReturn`, `WaitsEnd`, `CallsReturn`, `ChatEnds`, `ToolEnds`, `CallEnds`),
because fairness and ENABLED are outside the prover's reach; and the two properties of `Text`, `JsonSurvives` and
`CutIsRefused`, which rest on operators that recur through each other (parsing, decoding, printing) and that the
prover cannot reason about. The token sum is a fold: the proofs use it
as an unknown function of the history and need none of its properties. The theorems of `ContextProofs`
are not restated for the agent: this version of the prover does not instantiate another module's theorems. `FollowsContext`
shows that every behaviour of the agent is one of `Context`, so they hold of its history too.

## Not modelled, and why

* The layout of a frame, escape sequences, the case without a terminal (all
  `ui_*` calls then return at once).
* Memory: `xmalloc` and its relatives end the process when it runs out.
  `ctx_free` and the end of the process are not states of interest.
* `ctx_replace_range` has no caller.
* Of cJSON: values that are not integers (a fraction or an exponent is read, as far as it gives one), infinities, formatted printing, the byte order mark, limits of
  `INT_MAX`, detaching and inserting items, comparison, minifying. Of these the program itself
  uses nothing; numbers that are not integers may come in the
  arguments of a tool.
* Of the configuration: copying strings, and variables other than the window and the
  offload threshold, which are read by the same `parse_env_int`.
* Of the file system: its permissions (an `fopen` may fail, for any reason), hard links, and
  changes of directories by other processes; a file that is open keeps its name. The two `realpath` of
  `resolve_workspace_path` are one step, as if nobody changed the way between them.
* The wording of results and errors; `PATH_MAX`; the JSON schemas of the tools.
* The tests, the mock server, the build.
* `tests/cunit/fake_summarizer.c` stands in for a summarizer the code does not call.
* The mutex itself, and the memory model below it: all shared fields are accessed
  under the mutex or after a join or wait, which the models make explicit.

Hazards no property covers: more than `MAX_TOOL_CALLS` calls in a response, and SIGPIPE. Two more
lie outside the list: the failure paths of `agent_chat` print without `ui_idle` (`ChatFails`), which `ui.h`
demands only before a reply; and a task that waits on its own pool, which no task does. For some
a property covers only what the code does establish: `AcceptedIsWhole` asks for set fields of
tool calls that have the form of the API, `CallEnds` takes replies to be bounded, `ToolEnds` the
processes of a command to end; `ChangeIsExact` leaves out full disks and other writers, which
go unnoticed; `NothingLeft` leaves out a `read` or `waitpid` that failed; `NothingHeld` what cJSON could not
add (`llm_leak` shows it); `ResolvesRight` and `OnlyNamedFileChanges` except the dangling link (`file_tools_link`
shows it), and where a name leads once another process has changed a link after it was checked, which the code
cannot know, `OnlyNamedFileChanges` promises only that nothing but the opened file changes. A history above
the window stays there, since only the summary policy would shorten it: `RequestFits` says that it is not sent.
That calls of a failed batch stay unanswered in the history no property forbids.

## Plan

The order is the order of work; the first part is what exists.

1. Done: `TaskQueue` and `Fifo`; `ThreadPool` and `TaskPool`; `UI`; `Executor`
   over `TaskPool`; `Context` and `Transcript`; `Agent` over `Context`.
2. Done: `BashTool`, `LlmClient` over HTTP.
3. Done: `Sandbox`, `Registry` and `FileTools` over them; `JsonNumber`, `JsonString`, `JsonTree`, `Config`, and
   `Text` over them.
4. `MAX_TOOL_CALLS` as a constant of `LlmClient` and `Executor`, with the precondition of
   `executor_run_tools`.
5. The linked lists of cJSON with their pointers (`add_item_to_array`,
   `cJSON_ReplaceItemViaPointer`), as `TaskQueue` has them; `JsonTree` takes them for sequences.
6. `ToolBatch`, the abstract batch (all results in order or none), implemented by
   `Executor` and used by `Agent` in place of its own steps.
7. Done: the theorems listed above, among them every safety invariant of the runs but the two of `Text`.
8. The parser of `JsonString` as recursive functions, with the walks of `Sandbox` as the example: that
   `CutIsRefused` holds of strings of any length needs an induction on what is left of the text.
