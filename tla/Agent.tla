------------------------------- MODULE Agent -------------------------------
(***************************************************************************)
(* agent/agent.c and the REPL of main.c: agent_chat pushes what the user   *)
(* typed, and asks the model again and again, reclaiming context before    *)
(* every request and answering its tool calls, until it replies.  The      *)
(* history is the one of Context: every push and every step of ctx_reclaim *)
(* here is a step of it.  executor_run_tools is taken at its word          *)
(* (ResultsInRequestOrder of Executor): all results in request order, or   *)
(* -1 and none.                                                            *)
(*                                                                         *)
(* The tag of a message is <<chat, turn, k>>: for an assistant message k   *)
(* is the number of its tool calls, for a tool message the position of     *)
(* the call it answers, for a user message 0.                              *)
(***************************************************************************)
EXTENDS Naturals, Sequences, FiniteSets

CONSTANTS MaxTurns,                       (* MAX_TURNS                     *)
          Cost, Window, OffloadPercent, Keep,
          ToolsMayFail,                   (* executor_run_tools can fail   *)
          MaxCalls,                       (* bound: tool calls per turn    *)
          MaxChats,                       (* bound: lines the user types   *)
          MaxFiles, MaxRestarts,          (* bounds of Context             *)
          Text                            (* the one content modelled      *)

ASSUME BoundsAssumption ==
    {MaxTurns, MaxCalls, MaxChats} \subseteq Nat \ {0} /\ ToolsMayFail \in BOOLEAN

VARIABLES history, files, nextId, at, next, result, restarts,   (* Context *)
          pc,           (* where the main thread is                        *)
          chat,         (* number of the latest line typed                 *)
          turn,         (* turns                                           *)
          asked,        (* n_tool_calls of the response at hand            *)
          pushed,       (* results of it already in the history            *)
          outcome       (* history: how the latest agent_chat ended        *)

ctxVars   == <<history, files, nextId, at, next, result, restarts>>
agentVars == <<pc, chat, turn, asked, pushed, outcome>>
vars      == <<ctxVars, agentVars>>

Tag == (1 .. MaxChats) \X (0 .. MaxTurns) \X (0 .. MaxCalls)
Message(role, tag, size) == [role |-> role, tag |-> tag, size |-> size, content |-> Text]
Sayable ==
    {Message(role, tag, size) :
        role \in {"user", "assistant", "tool"}, tag \in Tag, size \in {"short", "long"}}

Ctx == INSTANCE Context WITH
          Tags <- Tag, Contents <- {Text}, Said <- Sayable,
          ShortWrites <- FALSE, Truncated <- "truncated",
          MaxMessages <- MaxChats * (1 + MaxTurns * (1 + MaxCalls))

Init ==
    /\ Ctx!Init
    /\ pc = "prompt" /\ chat = 0 /\ turn = 0 /\ asked = 0 /\ pushed = 0
    /\ outcome = "none"
-----------------------------------------------------------------------------
UserTypes ==
    /\ pc = "prompt" /\ chat < MaxChats
    /\ Ctx!Push(Message("user", <<chat + 1, 0, 0>>, "short"))
    /\ chat' = chat + 1 /\ turn' = 0
    /\ pc' = "turn"
    /\ UNCHANGED <<asked, pushed, outcome>>

(* agent_chat returns, with what the REPL prints.                          *)
Return(how) ==
    /\ pc' = "prompt" /\ outcome' = how
    /\ asked' = 0 /\ pushed' = 0
    /\ UNCHANGED <<chat, turn>>

ReclaimFirst ==
    /\ pc = "turn" /\ turn < MaxTurns
    /\ Ctx!ReclaimCalled
    /\ pc' = "reclaim"
    /\ UNCHANGED <<chat, turn, asked, pushed, outcome>>

Reclaims ==
    /\ pc = "reclaim"
    /\ Ctx!ReclaimStep
    /\ UNCHANGED agentVars

(* Mutants of Reclaimed: an error of ctx_reclaim does not end the chat; it *)
(* is tried again.                                                         *)
ReclaimedAnyhow ==
    /\ pc = "reclaim" /\ at = "out"
    /\ pc' = "llm"
    /\ UNCHANGED <<ctxVars, chat, turn, asked, pushed, outcome>>

ReclaimedRetries ==
    /\ pc = "reclaim" /\ at = "out"
    /\ pc' = IF result = "ok" THEN "llm" ELSE "turn"
    /\ UNCHANGED <<ctxVars, chat, turn, asked, pushed, outcome>>

(* ctx_reclaim has returned.                                               *)
Reclaimed ==
    /\ pc = "reclaim" /\ at = "out"
    /\ IF result = "ok"
       THEN pc' = "llm" /\ UNCHANGED <<chat, turn, asked, pushed, outcome>>
       ELSE Return("error")
    /\ UNCHANGED ctxVars

LlmFails ==
    /\ pc = "llm"
    /\ Return("error")
    /\ UNCHANGED ctxVars

(* No tool calls: the content is the reply.  llm_chat turns an empty one   *)
(* into NULL, which is returned as it is.                                  *)
LlmReplies ==
    /\ pc = "llm"
    /\ \E content \in {"reply", "null"} : Return(content)
    /\ UNCHANGED ctxVars

LlmAsks ==
    /\ pc = "llm"
    /\ \E n \in 1 .. MaxCalls, size \in {"short", "long"} :
          /\ Ctx!Push(Message("assistant", <<chat, turn, n>>, size))
          /\ asked' = n
    /\ pc' = "tools"
    /\ UNCHANGED <<chat, turn, pushed, outcome>>

(* Mutants of ToolsFail: the results there are go to the history; the      *)
(* message that asked for them is taken back.                              *)
ToolsFailPartly ==
    /\ pc = "tools" /\ ToolsMayFail
    /\ Ctx!Push(Message("tool", <<chat, turn, 1>>, "short"))
    /\ Return("error")

ToolsFailPops ==
    /\ pc = "tools" /\ ToolsMayFail
    /\ history' = SubSeq(history, 1, Len(history) - 1) /\ result' = "none"
    /\ Return("error")
    /\ UNCHANGED <<files, nextId, at, next, restarts>>

(* executor_run_tools returns -1: what the model asked for stays in the    *)
(* history without an answer.                                              *)
ToolsFail ==
    /\ pc = "tools" /\ ToolsMayFail
    /\ Return("error")
    /\ UNCHANGED ctxVars

ToolsRun ==
    /\ pc = "tools"
    /\ pc' = "push"
    /\ UNCHANGED <<ctxVars, chat, turn, asked, pushed, outcome>>

PushResult ==
    /\ pc = "push" /\ pushed < asked
    /\ \E size \in {"short", "long"} :
          Ctx!Push(Message("tool", <<chat, turn, pushed + 1>>, size))
    /\ pushed' = pushed + 1
    /\ UNCHANGED <<pc, chat, turn, asked, outcome>>

NextTurn ==
    /\ pc = "push" /\ pushed = asked
    /\ turn' = turn + 1
    /\ asked' = 0 /\ pushed' = 0
    /\ pc' = "turn"
    /\ UNCHANGED <<ctxVars, chat, outcome>>

TurnsExceeded ==
    /\ pc = "turn" /\ turn = MaxTurns
    /\ Return("error")
    /\ UNCHANGED ctxVars

Exit ==
    /\ pc = "prompt"
    /\ pc' = "exited"
    /\ UNCHANGED <<ctxVars, chat, turn, asked, pushed, outcome>>

(* The process ends anywhere, and the user starts it again.                *)
Restart ==
    /\ Ctx!Restart
    /\ pc' = "prompt" /\ turn' = 0 /\ asked' = 0 /\ pushed' = 0
    /\ outcome' = "none"
    /\ UNCHANGED chat
-----------------------------------------------------------------------------
ChatStep ==
    \/ ReclaimFirst \/ Reclaims \/ Reclaimed
    \/ LlmFails \/ LlmReplies \/ LlmAsks
    \/ ToolsFail \/ ToolsRun \/ PushResult \/ NextTurn \/ TurnsExceeded

(* The process has ended for good, or the bound on files is used up.       *)
Finished == (pc = "exited" \/ nextId >= MaxFiles) /\ UNCHANGED vars

Next == UserTypes \/ ChatStep \/ Exit \/ Restart \/ Finished

(* llm_chat has a time limit and tools are taken to end.                   *)
Spec == Init /\ [][Next]_vars /\ WF_vars(ChatStep)
-----------------------------------------------------------------------------
TypeOK ==
    /\ Ctx!TypeOK
    /\ pc \in {"prompt", "turn", "reclaim", "llm", "tools", "push", "exited"}
    /\ chat \in 0 .. MaxChats /\ turn \in 0 .. MaxTurns
    /\ asked \in 0 .. MaxCalls /\ pushed \in 0 .. asked
    /\ outcome \in {"none", "reply", "null", "error"}

(* The history changes as Context lets it.                                 *)
ContextSpec == Ctx!Spec

(* The tool messages that answer the calls of the assistant message at i   *)
(* are the next ones, in request order.                                    *)
Answered(i) ==
    LET tag == history[i].tag
    IN  \A k \in 1 .. tag[3] :
            /\ i + k <= Len(history)
            /\ history[i + k].role = "tool"
            /\ history[i + k].tag = <<tag[1], tag[2], k>>

Asks(i) == history[i].role = "assistant"

(* The results of a batch of calls are in the history all or not at all,   *)
(* right after the message that asks for them and in request order; calls  *)
(* without an answer end their chat; and nothing is answered that was not  *)
(* asked, whatever fails.                                                  *)
ResultsAllOrNone ==
    pc # "push" =>
        /\ \A i \in DOMAIN history : Asks(i) =>
              \/ Answered(i)
              \/ i = Len(history)
              \/ history[i + 1].role = "user"
        /\ \A j \in DOMAIN history : history[j].role = "tool" =>
              \E i \in 1 .. j - 1 : Asks(i) /\ j <= i + history[i].tag[3] /\ Answered(i)

(* The history of a request does not exceed the window (0 stands for no    *)
(* window): nothing is said between the last test of ctx_reclaim and the   *)
(* request.                                                                *)
RequestFits == pc = "llm" /\ Window > 0 => ~(Ctx!Total > Window)

(* agent_chat returns, also when the model never stops asking for tools    *)
(* (or the process ends, or the bound on files stops the model).           *)
ChatEnds == pc # "prompt" ~> pc \in {"prompt", "exited"} \/ nextId >= MaxFiles
=============================================================================
