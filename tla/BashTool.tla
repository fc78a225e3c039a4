------------------------------ MODULE BashTool ------------------------------
(***************************************************************************)
(* tools/bash.c: tool_bash forks a shell whose standard output and error   *)
(* are the write end of a pipe, reads the pipe until it ends, and reaps    *)
(* the shell.  The shell and whatever it leaves in the background run      *)
(* beside the tool: they write, block on a full pipe, redirect their       *)
(* output elsewhere, exit or are killed.  The pipe and the processes are   *)
(* the operating system's; what a command does is any of these, and so is  *)
(* a child whose dup2 or execl fails (it exits with 127).                  *)
(***************************************************************************)
EXTENDS Naturals, Sequences, FiniteSets

CONSTANTS Byte, NUL,
          Capacity,     (* bytes the pipe holds                            *)
          BufSize,      (* sizeof(buffer)                                  *)
          Helpers,      (* bound: background processes of one command      *)
          MaxBytes,     (* bound: bytes written by one command             *)
          MaxCalls      (* bound: calls of tool_bash                       *)

ASSUME ByteAssumption == NUL \in Byte
ASSUME SizeAssumption == {Capacity, BufSize} \subseteq Nat \ {0}
ASSUME BoundAssumption == {MaxBytes, MaxCalls} \subseteq Nat /\ "sh" \notin Helpers

VARIABLES at,           (* where tool_bash is                              *)
          calls,
          fds,          (* ends of the pipe the tool has open              *)
          pipe,
          writers,      (* other processes with the write end open         *)
          writing,      (* per process, the byte its write call has left   *)
          child,        (* the shell                                       *)
          status,       (* how it ended                                    *)
          output,       (* the bytes read so far                           *)
          result,       (* the latest ToolResult                           *)
          written,      (* history: everything put into the pipe           *)
          interrupted   (* history: read or waitpid failed                 *)

tool  == <<at, calls, fds, output, result>>
procs == <<writers, writing, child, status>>
vars  == <<tool, procs, pipe, written, interrupted>>

Process == {"sh"} \cup Helpers

NoResult == [ok |-> FALSE, text |-> <<>>, trailer |-> "none"]
Failed(why) == [ok |-> FALSE, text |-> <<>>, trailer |-> why]

Init ==
    /\ at = "out" /\ calls = 0 /\ fds = {} /\ pipe = <<>>
    /\ writers = {} /\ writing = [p \in Process |-> <<>>]
    /\ child = "none" /\ status = "none" /\ output = <<>> /\ result = NoResult
    /\ written = <<>> /\ interrupted = FALSE
-----------------------------------------------------------------------------
(* A new call: what an interrupted one before it left running has another  *)
(* pipe, and is none of its business.                                      *)
Called ==
    /\ at = "out" /\ calls < MaxCalls
    /\ calls' = calls + 1
    /\ writers' = {} /\ writing' = [p \in Process |-> <<>>]
    /\ child' = "none" /\ status' = "none" /\ pipe' = <<>> /\ output' = <<>>
    /\ written' = <<>> /\ interrupted' = FALSE

(* The command is missing, or pipe fails.                                  *)
PipeFails ==
    /\ Called
    /\ result' = Failed("error")
    /\ UNCHANGED <<at, fds>>

PipeOpens ==
    /\ Called
    /\ fds' = {"read", "write"}
    /\ at' = "piped" /\ result' = NoResult

(* Mutant of ForkFails: the pipe stays open.                               *)
ForkFailsKeepsPipe ==
    /\ at = "piped"
    /\ at' = "out" /\ result' = Failed("error")
    /\ UNCHANGED <<calls, fds, output, procs, pipe, written, interrupted>>

ForkFails ==
    /\ at = "piped"
    /\ fds' = {}
    /\ at' = "out" /\ result' = Failed("error")
    /\ UNCHANGED <<calls, output, procs, pipe, written, interrupted>>

Forks ==
    /\ at = "piped"
    /\ writers' = {"sh"} /\ child' = "running"
    /\ at' = "forked"
    /\ UNCHANGED <<calls, fds, output, result, writing, status, pipe, written, interrupted>>

(* Mutant of ClosesWriteEnd: the shell is awaited before anything is read. *)
WaitsFirst ==
    /\ at = "forked" /\ child = "zombie"
    /\ fds' = fds \ {"write"}
    /\ at' = "reading"
    /\ UNCHANGED <<calls, output, result, procs, pipe, written, interrupted>>

ClosesWriteEnd ==
    /\ at = "forked"
    /\ fds' = fds \ {"write"}
    /\ at' = "reading"
    /\ UNCHANGED <<calls, output, result, procs, pipe, written, interrupted>>

(* Mutant of Gathered: a chunk takes the place of those before it.         *)
LatestOnly(chunk) == chunk

Gathered(chunk) == output \o chunk

(* read returns what there is, at most a buffer.                           *)
Reads ==
    /\ at = "reading" /\ pipe # <<>>
    /\ \E n \in 1 .. BufSize :
          /\ n <= Len(pipe)
          /\ output' = Gathered(SubSeq(pipe, 1, n))
          /\ pipe' = SubSeq(pipe, n + 1, Len(pipe))
    /\ UNCHANGED <<at, calls, fds, result, procs, written, interrupted>>

(* read returns 0: the pipe is empty and nobody can write to it.           *)
ReadsEnd ==
    /\ at = "reading" /\ pipe = <<>>
    /\ writers = {} /\ "write" \notin fds
    /\ fds' = fds \ {"read"}
    /\ at' = "waiting"
    /\ UNCHANGED <<calls, output, result, procs, pipe, written, interrupted>>

(* read returns -1, which ends the loop like an end of file.  The program  *)
(* installs no signal handler that could interrupt it.                     *)
ReadFails ==
    /\ at = "reading"
    /\ fds' = fds \ {"read"}
    /\ at' = "waiting"
    /\ interrupted' = TRUE
    /\ UNCHANGED <<calls, output, result, procs, pipe, written>>

(* A C string ends at its first zero byte.                                 *)
CString(bytes) ==
    CHOOSE s \in {SubSeq(bytes, 1, n) : n \in 0 .. Len(bytes)} :
        /\ \A i \in 1 .. Len(s) : s[i] # NUL
        /\ s # bytes => bytes[Len(s) + 1] = NUL

Report ==
    IF status = "zero"
    THEN [ok |-> TRUE, text |-> CString(output),
          trailer |-> IF output = <<>> THEN "no output" ELSE "none"]
    ELSE [ok |-> FALSE, text |-> CString(output), trailer |-> status]

Reaps ==
    /\ at = "waiting" /\ child = "zombie"
    /\ child' = "reaped"
    /\ result' = Report
    /\ at' = "out"
    /\ UNCHANGED <<calls, fds, output, writers, writing, status, pipe, written, interrupted>>

WaitFails ==
    /\ at = "waiting"
    /\ result' = Failed("error")
    /\ at' = "out"
    /\ interrupted' = TRUE
    /\ UNCHANGED <<calls, fds, output, procs, pipe, written>>
-----------------------------------------------------------------------------
(* The shell and the processes it leaves behind.  Bytes go in one by one;  *)
(* a process in the middle of a write cannot do anything else.             *)
Free(p) == p \in writers /\ writing[p] = <<>>

BeginsWrite(p) ==
    /\ Free(p) /\ Len(written) + Cardinality({q \in Process : writing[q] # <<>>}) < MaxBytes
    /\ \E b \in Byte : writing' = [writing EXCEPT ![p] = <<b>>]
    /\ UNCHANGED <<tool, writers, child, status, pipe, written, interrupted>>

Writes(p) ==
    /\ p \in writers /\ writing[p] # <<>>
    /\ "read" \in fds /\ Len(pipe) < Capacity
    /\ pipe' = pipe \o writing[p]
    /\ written' = written \o writing[p]
    /\ writing' = [writing EXCEPT ![p] = <<>>]
    /\ UNCHANGED <<tool, writers, child, status, interrupted>>

(* The end of p; the shell becomes a zombie until it is reaped.            *)
Ends(p, how) ==
    /\ writers' = writers \ {p}
    /\ writing' = [writing EXCEPT ![p] = <<>>]
    /\ IF p = "sh" THEN child' = "zombie" /\ status' = how ELSE UNCHANGED <<child, status>>
    /\ UNCHANGED <<tool, pipe, written, interrupted>>

Exits(p) == Free(p) /\ \E how \in {"zero", "nonzero"} : Ends(p, how)

(* SIGPIPE, when nobody is left to read.                                   *)
Breaks(p) == p \in writers /\ writing[p] # <<>> /\ "read" \notin fds /\ Ends(p, "signal")

Killed(p) == p \in writers /\ Ends(p, "signal")

(* The output of the process is redirected to somewhere else.              *)
Redirects(p) ==
    /\ Free(p)
    /\ writers' = writers \ {p}
    /\ UNCHANGED <<tool, writing, child, status, pipe, written, interrupted>>

SilentShellEnds ==
    /\ child = "running" /\ "sh" \notin writers
    /\ \E how \in {"zero", "nonzero", "signal"} : Ends("sh", how)

Leaves(p, h) ==
    /\ Free(p) /\ h \notin writers
    /\ writers' = writers \cup {h}
    /\ UNCHANGED <<tool, writing, child, status, pipe, written, interrupted>>
-----------------------------------------------------------------------------
ToolStep ==
    \/ ForkFails \/ Forks \/ ClosesWriteEnd
    \/ Reads \/ ReadsEnd \/ ReadFails \/ Reaps \/ WaitFails

ProcessStep(p) ==
    \/ BeginsWrite(p) \/ Writes(p) \/ Exits(p) \/ Breaks(p) \/ Killed(p) \/ Redirects(p)
    \/ \E h \in Helpers : Leaves(p, h)

Terminated == at = "out" /\ calls = MaxCalls /\ UNCHANGED vars

Next ==
    \/ PipeFails \/ PipeOpens \/ ToolStep
    \/ \E p \in Process : ProcessStep(p)
    \/ SilentShellEnds \/ Terminated

(* The tool runs, a write for which there is room is made, and the         *)
(* processes of a command end when they are not kept from it by the pipe.  *)
Fairness ==
    /\ WF_vars(ClosesWriteEnd) /\ WF_vars(ForkFails \/ Forks)
    /\ WF_vars(Reads \/ ReadsEnd) /\ WF_vars(Reaps)
    /\ WF_vars(SilentShellEnds)
    /\ \A p \in Process : WF_vars(Writes(p) \/ Breaks(p)) /\ WF_vars(Exits(p))

Spec == Init /\ [][Next]_vars
FairSpec == Spec /\ Fairness
-----------------------------------------------------------------------------
TypeOK ==
    /\ at \in {"out", "piped", "forked", "reading", "waiting"} /\ calls \in 0 .. MaxCalls
    /\ fds \subseteq {"read", "write"} /\ pipe \in Seq(Byte) /\ Len(pipe) <= Capacity
    /\ writers \subseteq Process /\ writing \in [Process -> Seq(Byte)]
    /\ child \in {"none", "running", "zombie", "reaped"}
    /\ status \in {"none", "zero", "nonzero", "signal"}
    /\ output \in Seq(Byte) /\ written \in Seq(Byte) /\ interrupted \in BOOLEAN
    /\ result.ok \in BOOLEAN /\ result.text \in Seq(Byte)
    /\ result.trailer \in {"none", "no output", "error", "nonzero", "signal"}

(* What the model is told when a command has run: all that the shell and   *)
(* its background processes wrote, in the order in which it was written,   *)
(* with nobody left who could add to it, cut only at a zero byte; and      *)
(* success exactly if the shell, whatever the others did, exited with 0.   *)
ReportIsFaithful ==
    at = "out" /\ child = "reaped" /\ ~interrupted =>
        /\ output = written /\ writers = {}
        /\ (\A i \in DOMAIN written : written[i] # NUL) => result.text = written
        /\ result.ok <=> status = "zero"

(* After every call, also one that failed half-way, neither end of the     *)
(* pipe is open, and the shell has been reaped.                            *)
NothingLeft ==
    at = "out" =>
        /\ fds = {}
        /\ ~interrupted => child \in {"none", "reaped"}

(* tool_bash returns, however much the command writes into its small pipe, *)
(* if the command's processes end.                                         *)
ToolEnds == at = "piped" ~> at = "out"
=============================================================================
