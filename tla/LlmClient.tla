----------------------------- MODULE LlmClient -----------------------------
(***************************************************************************)
(* agent/llm_client.c over http.c: llm_chat sends one request, receives    *)
(* the reply in pieces until the peer closes the connection, and parses    *)
(* the assistant message into an LLMResponse.  The peer may take and give  *)
(* any number of bytes at a time, fall silent, or close at any moment.     *)
(* Each point where llm_chat may fail has its own list of what it frees    *)
(* and closes, and so have the points of the functions of http.c.          *)
(*                                                                         *)
(* Bytes of the request are known by their place, those of the reply are   *)
(* counted, to the brace that closes the object; JSON is what the parser   *)
(* can tell of it.  A proper prefix of a JSON object does not parse.  A    *)
(* call interrupted by a signal is repeated at once and changes nothing.   *)
(***************************************************************************)
EXTENDS Naturals, Sequences

CONSTANTS HeaderLen, BodyLen,   (* bytes of the request                    *)
          Replies,              (* replies of the service                  *)
          InitialCap,           (* first size of the receive buffer        *)
          MaxCalls              (* bound: calls of llm_chat                *)

(* A tool call as it is in the reply; a name and arguments only count when *)
(* they are in an object named function.                                   *)
CallShape == [object : BOOLEAN, id : BOOLEAN, name : BOOLEAN,
              arguments : {"none", "empty", "broken", "object"}]

ASSUME LengthAssumption == {HeaderLen, BodyLen, InitialCap} \subseteq Nat \ {0} /\ MaxCalls \in Nat
ASSUME RepliesAssumption ==
    \A r \in Replies :
        /\ r.head \in Nat /\ r.len \in Nat /\ r.head < r.len
        /\ r.status \in {"200", "other"}
        /\ r.shape \in {"garbage", "no choices", "no message", "message"}
        /\ r.content \in {"none", "text"} /\ r.calls \in Seq(CallShape)

VARIABLES at,           (* where llm_chat is                               *)
          calls,
          held,         (* what must be freed or closed, of all calls      *)
          sent,         (* bytes of the present segment sent               *)
          arrived,      (* the request as the peer gets it                 *)
          reply,        (* what the peer answers                           *)
          peer,         (* the peer's side of the connection               *)
          received, cap,(* length and size of the receive buffer           *)
          next,         (* index of the tool call being parsed             *)
          out,          (* the caller's LLMResponse                        *)
          rc

net  == <<sent, arrived, reply, peer, received, cap>>
vars == <<at, calls, held, net, next, out, rc>>

Unset == [id |-> "unset", name |-> "unset", args |-> "unset"]
Empty == [content |-> "none", raw |-> "none", tool_calls |-> <<>>]

Init ==
    /\ at = "out" /\ calls = 0 /\ held = {}
    /\ sent = 0 /\ arrived = <<>> /\ reply \in Replies /\ peer = "closed"
    /\ received = 0 /\ cap = InitialCap /\ next = 1 /\ out = Empty /\ rc = "none"

(* The exits that return -1 and the clean-up of each, in the order of      *)
(* llm_chat; that of a test on the json tree comes after the response was  *)
(* freed.                                                                  *)
LlmFrees ==
    [root |-> {}, model |-> {"root"}, max_tokens |-> {"root"}, messages |-> {"root"},
     system |-> {"root"}, history |-> {"root"}, print |-> {"root"},
     head |-> {"body", "root"}, tcp_connect |-> {"body", "root"},
     header |-> {"fd", "body", "root"}, body |-> {"fd", "body", "root"},
     recv_all |-> {"fd", "body", "root"},
     http |-> {"response", "body", "root"}, status |-> {"response", "body", "root"},
     json |-> {"body", "root"}, choices |-> {"json", "body", "root"},
     message |-> {"json", "body", "root"}, raw |-> {"json", "body", "root"}]

(* Mutant of HttpFrees: a socket that did not connect stays open.          *)
HttpFreesLess == [resolve |-> {}, socket |-> {"addresses"}, connect |-> {"addresses"},
                  limit |-> {}, receiving |-> {"response"}]

(* The clean-up of tcp_connect and of recv_all, before their callers'.     *)
HttpFrees == [resolve |-> {}, socket |-> {"addresses"}, connect |-> {"fd", "addresses"},
              limit |-> {}, receiving |-> {"response"}]

Exit == CASE at \in {"resolve", "socket", "connect"} -> "tcp_connect"
          [] at \in {"limit", "receiving"} -> "recv_all"
          [] OTHER -> at

FreedByCallee == IF at \in DOMAIN HttpFrees THEN HttpFrees[at] ELSE {}
MayFail == Exit \in DOMAIN LlmFrees

Fails == at' = "out" /\ rc' = "error" /\ held' = (held \ FreedByCallee) \ LlmFrees[Exit]
-----------------------------------------------------------------------------
Begins ==
    /\ at = "out" /\ calls < MaxCalls
    /\ calls' = calls + 1 /\ out' = Empty /\ rc' = "none"
    /\ at' = "root"
    /\ UNCHANGED <<held, net, next>>

(* The points from the first object of the request to the connection, what *)
(* each leads to, and what it acquires.                                    *)
Then == [root |-> "model", model |-> "max_tokens", max_tokens |-> "messages",
         messages |-> "system", system |-> "history", history |-> "tools", tools |-> "print",
         print |-> "head", head |-> "resolve", resolve |-> "socket", socket |-> "connect"]

Gets(point) == CASE point = "root" -> {"root"}
                 [] point = "print" -> {"body"}
                 [] point = "resolve" -> {"addresses"}
                 [] point = "socket" -> {"fd"}
                 [] OTHER -> {}

(* Parts of the request that no tree owns when cJSON has no memory to add  *)
(* them: the two arrays, and the description of a tool or a part of it.    *)
Unowned == {"messages_array", "tools_array", "function_obj"}
MayLose(point) == CASE point = "messages" -> {"messages_array"}
                    [] point = "tools" -> {"tools_array", "function_obj"}
                    [] OTHER -> {}

Builds ==
    /\ at \in DOMAIN Then
    /\ \E lost \in SUBSET MayLose(at) : held' = held \cup Gets(at) \cup lost
    /\ at' = Then[at]
    /\ UNCHANGED <<calls, net, next, out, rc>>

(* A message of the history does not parse, the header does not fit its    *)
(* buffer, there is no memory or no connection.                            *)
BuildFails ==
    /\ at \in (DOMAIN Then \ {"tools"}) \cup {"connect"}
    /\ Fails
    /\ UNCHANGED <<calls, net, next, out>>

Connects ==
    /\ at = "connect"
    /\ held' = held \ {"addresses"}
    /\ peer' = "open" /\ reply' \in Replies
    /\ sent' = 0 /\ arrived' = <<>>
    /\ at' = "header"
    /\ UNCHANGED <<calls, received, cap, next, out, rc>>

Sending == at \in {"header", "body"}
SegmentLen == IF at = "header" THEN HeaderLen ELSE BodyLen

(* Mutant of Chunk: a short send is followed by the same bytes again.      *)
ChunkFromStart(n) == [i \in 1 .. n |-> <<at, i>>]

Chunk(n) == [i \in 1 .. n |-> <<at, sent + i>>]

(* send takes some of what is left. *)
Sends ==
    /\ Sending
    /\ \E n \in 1 .. SegmentLen - sent :
          /\ arrived' = arrived \o Chunk(n)
          /\ sent' = sent + n
    /\ UNCHANGED <<at, calls, held, reply, peer, received, cap, next, out, rc>>

SendFails ==
    /\ Sending /\ sent < SegmentLen
    /\ Fails
    /\ UNCHANGED <<calls, net, next, out>>

(* send to a peer that has closed raises SIGPIPE, which nobody handles.    *)
SendKills ==
    /\ Sending /\ sent < SegmentLen /\ peer = "closed"
    /\ at' = "killed"
    /\ UNCHANGED <<calls, held, net, next, out, rc>>

HeaderSent ==
    /\ at = "header" /\ sent = HeaderLen
    /\ at' = "body" /\ sent' = 0
    /\ UNCHANGED <<calls, held, arrived, reply, peer, received, cap, next, out, rc>>

BodySent ==
    /\ at = "body" /\ sent = BodyLen
    /\ at' = "limit"
    /\ UNCHANGED <<calls, held, net, next, out, rc>>

(* recv_all begins; setsockopt may fail.                                   *)
TimeLimitFails == at = "limit" /\ Fails /\ UNCHANGED <<calls, net, next, out>>

TimeLimitSet ==
    /\ at = "limit"
    /\ held' = held \cup {"response"}
    /\ received' = 0 /\ cap' = InitialCap
    /\ at' = "receiving"
    /\ UNCHANGED <<calls, sent, arrived, reply, peer, next, out, rc>>
-----------------------------------------------------------------------------
(* Mutant of Grown: the byte for the terminator is forgotten.              *)
GrownLate == IF received >= cap THEN 2 * cap ELSE cap

Grown == IF received + 1 >= cap THEN 2 * cap ELSE cap

Room == Grown - received - 1

(* Bytes arrive; they may have been sent before the peer closed.           *)
Receives ==
    /\ at = "receiving"
    /\ \E n \in 1 .. Room :
          /\ received + n <= reply.len
          /\ received' = received + n
    /\ cap' = Grown
    /\ UNCHANGED <<at, calls, held, sent, arrived, reply, peer, next, out, rc>>

(* Mutant of RecvFails: a timeout is taken for an interruption.            *)
RecvRetries == at = "receiving" /\ UNCHANGED vars

(* The time limit of one recv, or a broken connection.                     *)
RecvFails == at = "receiving" /\ Fails /\ UNCHANGED <<calls, net, next, out>>

(* recv returns 0, and llm_chat closes the socket.                         *)
RecvEnds ==
    /\ at = "receiving"
    /\ peer = "closed" \/ Room = 0
    /\ cap' = Grown
    /\ held' = held \ {"fd"}
    /\ at' = "http"
    /\ UNCHANGED <<calls, sent, arrived, reply, peer, received, next, out, rc>>

(* Mutant of Refused: the status is not tested.                            *)
RefusedNotStatus ==
    \/ at = "http" /\ received < reply.head
    \/ at = "json" /\ (received < reply.len \/ reply.shape = "garbage")
    \/ at = "choices" /\ reply.shape = "no choices"
    \/ at = "message" /\ reply.shape = "no message"

(* What the tests on the reply refuse: one without a blank line, a status  *)
(* other than 200, a body that does not parse, no choices, no message.     *)
Refused ==
    \/ at = "http" /\ received < reply.head
    \/ at = "status" /\ reply.status # "200"
    \/ at = "json" /\ (received < reply.len \/ reply.shape = "garbage")
    \/ at = "choices" /\ reply.shape = "no choices"
    \/ at = "message" /\ reply.shape = "no message"

(* cJSON_Parse may also run out of memory.                                 *)
ParseFails ==
    /\ Refused \/ at = "json"
    /\ Fails
    /\ UNCHANGED <<calls, net, next, out>>

ThenTest == [http |-> "status", status |-> "json", json |-> "choices",
             choices |-> "message", message |-> "raw"]

(* The response is freed once it was parsed, whatever came of that; of the *)
(* message the content is taken first.                                     *)
Passes ==
    /\ at \in DOMAIN ThenTest /\ ~Refused
    /\ at' = ThenTest[at]
    /\ held' = CASE at = "status" -> held \ {"response"}
                 [] at = "json" -> held \cup {"json"}
                 [] OTHER -> held
    /\ out' = IF at = "message" THEN [out EXCEPT !.content = reply.content] ELSE out
    /\ UNCHANGED <<calls, net, next, rc>>

(* The message cannot be printed: its content stays with the caller.  (No  *)
(* other step fails from here on: util.c ends the process.)                *)
PrintFails == at = "raw" /\ Fails /\ UNCHANGED <<calls, net, next, out>>

Parses ==
    /\ at = "raw"
    /\ out' = [out EXCEPT !.raw = "message",
                          !.tool_calls = [i \in DOMAIN reply.calls |-> Unset]]
    /\ next' = 1
    /\ at' = "calls"
    /\ UNCHANGED <<calls, held, net, rc>>

(* An empty or unparsable string stands for an object without members.     *)
Arguments(shape) ==
    CASE shape.arguments = "none"               -> "unset"
      [] shape.arguments = "object"             -> "object"
      [] shape.arguments \in {"empty", "broken"} -> "{}"

Field(present) == IF present THEN "set" ELSE "unset"

FieldsOf(shape) ==
    IF ~shape.object THEN Unset
    ELSE [id |-> Field(shape.id), name |-> Field(shape.name), args |-> Arguments(shape)]

(* xmalloc does not clear the array: a field without a counterpart in the  *)
(* reply, or all of them, stays unset.                                     *)
ParsesCall ==
    /\ at = "calls" /\ next <= Len(reply.calls)
    /\ out' = [out EXCEPT !.tool_calls[next] = FieldsOf(reply.calls[next])]
    /\ next' = next + 1
    /\ UNCHANGED <<at, calls, held, net, rc>>

Returns ==
    /\ at = "calls" /\ next > Len(reply.calls)
    /\ held' = held \ {"json", "body", "root"}
    /\ at' = "out" /\ rc' = "ok"
    /\ UNCHANGED <<calls, net, next, out>>
-----------------------------------------------------------------------------
(* The peer closes, with or without having sent its whole reply.           *)
PeerCloses ==
    /\ at \in {"header", "body", "receiving"} /\ peer = "open"
    /\ peer' = "closed"
    /\ UNCHANGED <<at, calls, held, sent, arrived, reply, received, cap, next, out, rc>>

BuildStep == Builds \/ BuildFails \/ Connects
SendStep  == Sends \/ SendFails \/ SendKills \/ HeaderSent \/ BodySent
LimitStep == TimeLimitFails \/ TimeLimitSet
ParseStep == ParseFails \/ Passes \/ PrintFails \/ Parses \/ ParsesCall \/ Returns

Terminated == at = "killed" \/ (at = "out" /\ calls = MaxCalls)

Next ==
    \/ Begins \/ BuildStep \/ SendStep \/ LimitStep
    \/ Receives \/ RecvFails \/ RecvEnds \/ ParseStep
    \/ PeerCloses
    \/ Terminated /\ UNCHANGED vars

(* The peer takes the request, for send has no time limit, but it need     *)
(* neither reply nor close: then recv runs into its limit.                 *)
Fairness ==
    /\ WF_vars(BuildStep) /\ WF_vars(SendStep) /\ WF_vars(LimitStep)
    /\ WF_vars(RecvFails) /\ WF_vars(RecvEnds) /\ WF_vars(ParseStep)

Spec == Init /\ [][Next]_vars
FairSpec == Spec /\ Fairness
-----------------------------------------------------------------------------
TypeOK ==
    /\ at \in {"out", "killed", "tools", "connect", "header", "body", "limit", "receiving",
              "raw", "calls"} \cup DOMAIN Then \cup DOMAIN ThenTest
    /\ calls \in 0 .. MaxCalls
    /\ held \subseteq {"root", "body", "addresses", "fd", "response", "json"} \cup Unowned
    /\ sent \in Nat /\ received \in Nat /\ cap \in Nat /\ next \in Nat \ {0}
    /\ arrived \in Seq({"header", "body"} \X (Nat \ {0}))
    /\ reply \in Replies /\ peer \in {"open", "closed"} /\ rc \in {"none", "ok", "error"}
    /\ out.content \in {"none", "text"} /\ out.raw \in {"none", "message"}
    /\ out.tool_calls \in Seq([id : {"unset", "set"}, name : {"unset", "set"},
                               args : {"unset", "{}", "object"}])

(* The peer gets the header and the body once, in order and whole, however *)
(* little each send took.                                                  *)
RequestArrives ==
    at = "receiving" =>
        arrived = [i \in 1 .. HeaderLen + BodyLen |->
                      IF i <= HeaderLen THEN <<"header", i>> ELSE <<"body", i - HeaderLen>>]

(* recv is never called with a full buffer, where it would return 0 and    *)
(* the reply would seem to end, and there is a byte for the terminator.    *)
RoomLeft == at \in {"receiving", "http"} => received < cap /\ (at = "receiving" => Room > 0)

(* A tool call that has the form of the API; its arguments may be empty or *)
(* unparsable.                                                             *)
WellFormed(shape) == shape.object /\ shape.id /\ shape.name /\ shape.arguments # "none"

(* What llm_chat accepts is a whole reply, never one that was cut off, of  *)
(* status 200 and with a message; the response has all its tool calls, and *)
(* nothing of the reply to an earlier request; and every field of a tool   *)
(* call that has the form of the API is set.                               *)
AcceptedIsWhole ==
    at = "out" /\ rc = "ok" =>
        /\ received = reply.len /\ reply.status = "200" /\ reply.shape = "message"
        /\ out.content = reply.content /\ Len(out.tool_calls) = Len(reply.calls)
        /\ \A i \in DOMAIN reply.calls : WellFormed(reply.calls[i]) =>
              "unset" \notin {out.tool_calls[i].id, out.tool_calls[i].name, out.tool_calls[i].args}

(* Wherever llm_chat fails, and in what http.c fails for it, it returns    *)
(* without leaving behind a socket, a buffer, an address list or a JSON    *)
(* tree, and frees nothing twice and nothing that it does not have; what   *)
(* cJSON could not add to the request is not in a tree (see AllFreed).     *)
NothingHeld ==
    /\ at = "out" => held \subseteq Unowned
    /\ MayFail => /\ FreedByCallee \cup LlmFrees[Exit] \subseteq held
                  /\ FreedByCallee \cap LlmFrees[Exit] = {}

(* "Everything you malloc / cJSON_Parse here has to be freed somewhere"    *)
(* (the end of llm_chat), when cJSON is refused memory, too.               *)
AllFreed == at = "out" => held = {}

(* llm_chat comes to an end, with a silent peer too.                       *)
CallEnds == at = "root" ~> at \in {"out", "killed"}
=============================================================================
