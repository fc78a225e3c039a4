-------------------------- MODULE LlmClientProofs --------------------------
(***************************************************************************)
(* For requests and replies of every length, and every way they are cut    *)
(* into pieces: the peer gets the request whole, recv always has room,     *)
(* only a whole reply is accepted, and nothing is left behind.             *)
(***************************************************************************)
EXTENDS LlmClient, SequenceTheorems, TLAPS

(* The fields of an LLMToolCall, and the caller's LLMResponse.             *)
ToolCall == [id : {"unset", "set"}, name : {"unset", "set"}, args : {"unset", "{}", "object"}]

OutType == out \in [content : {"none", "text"}, raw : {"none", "message"},
                    tool_calls : Seq(ToolCall)]

(* What llm_chat has to free or close, by where it is; beside that there   *)
(* are only the parts of requests that cJSON could not add.                *)
Held(some) == held \ Unowned = some

HeldByPlace ==
    /\ at \in {"out", "root"} => Held({})
    /\ at \in {"model", "max_tokens", "messages", "system", "history", "tools", "print"} =>
          Held({"root"})
    /\ at \in {"head", "resolve"} => Held({"root", "body"})
    /\ at = "socket" => Held({"root", "body", "addresses"})
    /\ at = "connect" => Held({"root", "body", "addresses", "fd"})
    /\ at \in {"header", "body", "limit"} => Held({"root", "body", "fd"})
    /\ at = "receiving" => Held({"root", "body", "fd", "response"})
    /\ at \in {"http", "status"} => Held({"root", "body", "response"})
    /\ at = "json" => Held({"root", "body"})
    /\ at \in {"choices", "message", "raw", "calls"} => Held({"root", "body", "json"})

(* The i-th byte of the request, and how many of them the peer must have.  *)
RequestByte(i) == IF i <= HeaderLen THEN <<"header", i>> ELSE <<"body", i - HeaderLen>>

SentSoFar ==
    /\ at = "header" => sent <= HeaderLen /\ Len(arrived) = sent
    /\ at = "body" => sent <= BodyLen /\ Len(arrived) = HeaderLen + sent
    /\ at \in {"limit", "receiving"} => Len(arrived) = HeaderLen + BodyLen
    /\ at \in {"header", "body", "limit", "receiving"} =>
          \A i \in 1 .. Len(arrived) : arrived[i] = RequestByte(i)

(* The receive buffer holds no more than the peer has to say.              *)
Received ==
    /\ at \in {"receiving", "http"} => received < cap
    /\ at \in {"receiving", "http", "status", "json"} => received <= reply.len

(* What the tests have told, by where llm_chat is.                         *)
Tested ==
    /\ at \in {"json", "choices", "message", "raw", "calls"} => reply.status = "200"
    /\ at \in {"choices", "message", "raw", "calls"} =>
          received = reply.len /\ reply.shape # "garbage"
    /\ at \in {"message", "raw", "calls"} => reply.shape # "no choices"
    /\ at \in {"raw", "calls"} => reply.shape = "message" /\ out.content = reply.content

(* The tool calls before the one being parsed are those of the reply.      *)
ParsedUpTo(n) ==
    /\ received = reply.len /\ reply.status = "200" /\ reply.shape = "message"
    /\ out.content = reply.content /\ Len(out.tool_calls) = Len(reply.calls)
    /\ \A i \in 1 .. Len(reply.calls) :
          i < n => out.tool_calls[i] = FieldsOf(reply.calls[i])

Parsed ==
    /\ at = "calls" => next <= Len(reply.calls) + 1 /\ ParsedUpTo(next)
    /\ at = "out" /\ rc = "ok" => ParsedUpTo(Len(reply.calls) + 1)

IInv == TypeOK /\ OutType /\ HeldByPlace /\ SentSoFar /\ Received /\ Tested /\ Parsed
-----------------------------------------------------------------------------
LEMMA Lengths ==
  HeaderLen \in Nat \ {0} /\ BodyLen \in Nat \ {0} /\ InitialCap \in Nat \ {0} /\ MaxCalls \in Nat
  BY LengthAssumption

(* What the assumption says of the reply, and of one of its tool calls.    *)
LEMMA ReplyFields ==
  ASSUME IInv
  PROVE  /\ reply \in Replies /\ reply.head \in Nat /\ reply.len \in Nat /\ reply.head < reply.len
         /\ reply.content \in {"none", "text"}
         /\ reply.shape \in {"garbage", "no choices", "no message", "message"}
         /\ reply.calls \in Seq(CallShape) /\ Len(reply.calls) \in Nat
         /\ DOMAIN reply.calls = 1 .. Len(reply.calls)
         /\ \A i \in 1 .. Len(reply.calls) : reply.calls[i] \in CallShape
<1>1. reply \in Replies
  BY DEF IInv, TypeOK
<1>2. /\ reply.head \in Nat /\ reply.len \in Nat /\ reply.head < reply.len
      /\ reply.content \in {"none", "text"}
      /\ reply.shape \in {"garbage", "no choices", "no message", "message"}
      /\ reply.calls \in Seq(CallShape)
  BY <1>1, RepliesAssumption
<1>3. /\ Len(reply.calls) \in Nat /\ DOMAIN reply.calls = 1 .. Len(reply.calls)
      /\ \A i \in 1 .. Len(reply.calls) : reply.calls[i] \in CallShape
  BY <1>2, LenProperties, ElementOfSeq
<1> QED BY <1>1, <1>2, <1>3

(* A tool call is stored with fields of their types, all of them set if it *)
(* has the form of the API.                                                *)
LEMMA FieldsAreToolCall ==
  ASSUME NEW shape \in CallShape
  PROVE  /\ FieldsOf(shape) \in ToolCall
         /\ WellFormed(shape) =>
              "unset" \notin {FieldsOf(shape).id, FieldsOf(shape).name, FieldsOf(shape).args}
<1>1. /\ shape.object \in BOOLEAN /\ shape.id \in BOOLEAN /\ shape.name \in BOOLEAN
      /\ shape.arguments \in {"none", "empty", "broken", "object"}
  BY DEF CallShape
<1>2. /\ Arguments(shape) \in {"unset", "{}", "object"}
      /\ shape.arguments # "none" => Arguments(shape) # "unset"
  BY <1>1 DEF Arguments
<1>3. \A b \in BOOLEAN : Field(b) \in {"unset", "set"} /\ (b => Field(b) = "set")
  BY DEF Field
<1>4. FieldsOf(shape) \in ToolCall
  BY <1>1, <1>2, <1>3 DEF FieldsOf, ToolCall, Unset
<1>5. ASSUME WellFormed(shape)
      PROVE  "unset" \notin {FieldsOf(shape).id, FieldsOf(shape).name, FieldsOf(shape).args}
  BY <1>1, <1>2, <1>3, <1>5 DEF FieldsOf, WellFormed
<1> QED BY <1>4, <1>5

(* Empty is a response, and nothing has been sent at first.                *)
LEMMA EmptyIsResponse ==
  /\ Empty \in [content : {"none", "text"}, raw : {"none", "message"}, tool_calls : Seq(ToolCall)]
  /\ Empty.tool_calls = <<>> /\ Empty.raw = "none"
  BY EmptySeq DEF Empty

LEMMA InitEstablishes == Init => IInv
<1> SUFFICES ASSUME Init PROVE IInv
  OBVIOUS
<1>1. OutType
  BY EmptyIsResponse DEF Init, OutType
<1>2. TypeOK
  <2>1. <<>> \in Seq({"header", "body"} \X (Nat \ {0}))
    BY EmptySeq
  <2>2. out.content \in {"none", "text"} /\ out.raw \in {"none", "message"}
        /\ out.tool_calls \in Seq(ToolCall)
    BY <1>1 DEF OutType
  <2>3. 0 \in 0 .. MaxCalls /\ InitialCap \in Nat
    BY Lengths
  <2>4. reply \in Replies /\ cap = InitialCap /\ held = {} /\ arrived = <<>> /\ at = "out"
        /\ calls = 0 /\ sent = 0 /\ peer = "closed" /\ received = 0 /\ next = 1 /\ rc = "none"
    BY DEF Init
  <2>5. arrived \in Seq({"header", "body"} \X (Nat \ {0}))
    BY <2>1, <2>4
  <2>6. calls \in 0 .. MaxCalls /\ cap \in Nat /\ next \in Nat \ {0}
    BY <2>3, <2>4
  <2> QED BY <2>2, <2>4, <2>5, <2>6 DEF TypeOK, ToolCall
<1>3. HeldByPlace /\ SentSoFar /\ Received /\ Tested /\ Parsed
  BY DEF Init, HeldByPlace, Held, SentSoFar, Received, Tested, Parsed
<1> QED BY <1>1, <1>2, <1>3 DEF IInv

-----------------------------------------------------------------------------
(* The points of the records, as sets.                                     *)
LEMMA Points ==
  /\ DOMAIN Then = {"root", "model", "max_tokens", "messages", "system", "history", "tools",
                    "print", "head", "resolve", "socket"}
  /\ DOMAIN ThenTest = {"http", "status", "json", "choices", "message"}
  /\ DOMAIN HttpFrees = {"resolve", "socket", "connect", "limit", "receiving"}
  /\ DOMAIN LlmFrees = {"root", "model", "max_tokens", "messages", "system", "history", "print",
                        "head", "tcp_connect", "header", "body", "recv_all", "http", "status",
                        "json", "choices", "message", "raw"}
  BY DEF Then, ThenTest, HttpFrees, LlmFrees

(* The lists of the exits.                                                 *)
LEMMA Lists ==
  /\ at = "root" => FreedByCallee = {} /\ LlmFrees[Exit] = {}
  /\ at \in {"model", "max_tokens", "messages", "system", "history", "print"} =>
        FreedByCallee = {} /\ LlmFrees[Exit] = {"root"}
  /\ at = "head" => FreedByCallee = {} /\ LlmFrees[Exit] = {"body", "root"}
  /\ at = "resolve" => FreedByCallee = {} /\ LlmFrees[Exit] = {"body", "root"}
  /\ at = "socket" => FreedByCallee = {"addresses"} /\ LlmFrees[Exit] = {"body", "root"}
  /\ at = "connect" => FreedByCallee = {"fd", "addresses"} /\ LlmFrees[Exit] = {"body", "root"}
  /\ at \in {"header", "body"} => FreedByCallee = {} /\ LlmFrees[Exit] = {"fd", "body", "root"}
  /\ at = "limit" => FreedByCallee = {} /\ LlmFrees[Exit] = {"fd", "body", "root"}
  /\ at = "receiving" => FreedByCallee = {"response"} /\ LlmFrees[Exit] = {"fd", "body", "root"}
  /\ at \in {"http", "status"} =>
        FreedByCallee = {} /\ LlmFrees[Exit] = {"response", "body", "root"}
  /\ at = "json" => FreedByCallee = {} /\ LlmFrees[Exit] = {"body", "root"}
  /\ at \in {"choices", "message", "raw"} =>
        FreedByCallee = {} /\ LlmFrees[Exit] = {"json", "body", "root"}
<1>1. ASSUME at \in {"resolve", "socket", "connect", "limit", "receiving"}
      PROVE  FreedByCallee = HttpFrees[at]
  BY <1>1, Points DEF FreedByCallee
<1>2. ASSUME at \notin {"resolve", "socket", "connect", "limit", "receiving"}
      PROVE  FreedByCallee = {} /\ Exit = at
  BY <1>2, Points DEF FreedByCallee, Exit
<1>3. /\ at \in {"resolve", "socket", "connect"} => Exit = "tcp_connect"
      /\ at \in {"limit", "receiving"} => Exit = "recv_all"
  BY DEF Exit
<1> QED BY <1>1, <1>2, <1>3 DEF HttpFrees, LlmFrees

(* The points at which llm_chat may fail.                                  *)
Failing == {"root", "model", "max_tokens", "messages", "system", "history", "print", "head",
            "resolve", "socket", "connect", "header", "body", "limit", "receiving", "http",
            "status", "json", "choices", "message", "raw"}

(* The lists of an exit are what llm_chat has there, each thing once.      *)
LEMMA ListsAreHeld ==
  ASSUME HeldByPlace, at \in Failing
  PROVE  /\ FreedByCallee \cup LlmFrees[Exit] \subseteq held
         /\ FreedByCallee \cap LlmFrees[Exit] = {}
         /\ (held \ FreedByCallee) \ LlmFrees[Exit] \subseteq Unowned
<1>1. CASE at \in {"root", "model", "max_tokens", "messages", "system", "history", "print", "head",
                  "resolve"}
  BY <1>1, Lists DEF HeldByPlace, Held, Unowned
<1>2. CASE at \in {"socket", "connect", "header", "body", "limit", "receiving"}
  BY <1>2, Lists DEF HeldByPlace, Held, Unowned
<1>3. CASE at \in {"http", "status", "json", "choices", "message", "raw"}
  BY <1>3, Lists DEF HeldByPlace, Held, Unowned
<1> QED BY <1>1, <1>2, <1>3 DEF Failing

(* An error path: everything of this call has been freed, and nothing was  *)
(* accepted.                                                               *)
LEMMA FailurePreserves ==
  ASSUME IInv, BuildFails \/ SendFails \/ TimeLimitFails \/ RecvFails \/ ParseFails \/ PrintFails
  PROVE  IInv'
<1> USE DEF net
<1>1. Fails /\ UNCHANGED <<calls, sent, arrived, reply, peer, received, cap, next, out>>
  BY DEF BuildFails, SendFails, TimeLimitFails, RecvFails, ParseFails, PrintFails
<1>2. at \in Failing
  BY Points DEF BuildFails, SendFails, Sending, TimeLimitFails, RecvFails, ParseFails, Refused,
                PrintFails, Failing
<1>3. at' = "out" /\ rc' = "error" /\ held' \subseteq Unowned
  BY <1>1, <1>2, ListsAreHeld DEF Fails, IInv
<1>4. OutType' /\ HeldByPlace' /\ SentSoFar' /\ Received' /\ Tested' /\ Parsed'
  BY <1>1, <1>3 DEF IInv, OutType, HeldByPlace, Held, SentSoFar, Received, Tested, Parsed
<1>5. TypeOK'
  BY <1>1, <1>3 DEF IInv, TypeOK
<1> QED BY <1>4, <1>5 DEF IInv

-----------------------------------------------------------------------------
(* llm_chat begins.                                                        *)
LEMMA BeginsPreserves == ASSUME IInv, Begins PROVE IInv'
<1>1. /\ at = "out" /\ at' = "root" /\ calls' = calls + 1 /\ calls < MaxCalls /\ out' = Empty
      /\ rc' = "none" /\ UNCHANGED <<held, sent, arrived, reply, peer, received, cap, next>>
  BY DEF Begins, net
<1>2. calls' \in 0 .. MaxCalls
  <2>1. calls \in 0 .. MaxCalls
    BY DEF IInv, TypeOK
  <2> QED BY <1>1, <2>1, Lengths
<1>3. OutType'
  BY <1>1, EmptyIsResponse DEF OutType
<1>4. TypeOK'
  <2>1. /\ out'.content \in {"none", "text"} /\ out'.raw \in {"none", "message"}
        /\ out'.tool_calls \in Seq(ToolCall)
    BY <1>3 DEF OutType
  <2> QED BY <1>1, <1>2, <2>1, Points DEF IInv, TypeOK, ToolCall
<1>5. HeldByPlace' /\ SentSoFar' /\ Received' /\ Tested' /\ Parsed'
  BY <1>1 DEF IInv, HeldByPlace, Held, SentSoFar, Received, Tested, Parsed
<1> QED BY <1>3, <1>4, <1>5 DEF IInv

(* The request is put together, tree by tree.                              *)
LEMMA BuildsPreserves == ASSUME IInv, Builds PROVE IInv'
<1>1. /\ at \in DOMAIN Then /\ at' = Then[at]
      /\ UNCHANGED <<calls, sent, arrived, reply, peer, received, cap, next, out, rc>>
  BY DEF Builds, net
<1>2. PICK lost \in SUBSET MayLose(at) : held' = held \cup Gets(at) \cup lost
  BY DEF Builds
<1>3. lost \subseteq Unowned
  BY <1>2 DEF MayLose, Unowned
<1>4. /\ at = "root" => at' = "model" /\ Gets(at) = {"root"}
      /\ at = "model" => at' = "max_tokens" /\ Gets(at) = {}
      /\ at = "max_tokens" => at' = "messages" /\ Gets(at) = {}
      /\ at = "messages" => at' = "system" /\ Gets(at) = {}
      /\ at = "system" => at' = "history" /\ Gets(at) = {}
      /\ at = "history" => at' = "tools" /\ Gets(at) = {}
      /\ at = "tools" => at' = "print" /\ Gets(at) = {}
      /\ at = "print" => at' = "head" /\ Gets(at) = {"body"}
      /\ at = "head" => at' = "resolve" /\ Gets(at) = {}
      /\ at = "resolve" => at' = "socket" /\ Gets(at) = {"addresses"}
      /\ at = "socket" => at' = "connect" /\ Gets(at) = {"fd"}
  BY <1>1 DEF Then, Gets
<1>5. at' \in (DOMAIN Then \cup {"connect"}) \ {"root"}
  BY <1>1, <1>4, Points
<1>6. TypeOK'
  <2>1. held' \subseteq {"root", "body", "addresses", "fd", "response", "json"} \cup Unowned
    BY <1>1, <1>2, <1>3, <1>4, Points DEF IInv, TypeOK
  <2> QED BY <1>1, <1>5, <2>1 DEF IInv, TypeOK
<1>7. HeldByPlace'
  <2>1. held' \ Unowned = (held \ Unowned) \cup (Gets(at) \ Unowned)
    BY <1>2, <1>3
  <2>2. Gets(at) \ Unowned = Gets(at)
    BY <1>1, <1>4, Points DEF Unowned
  <2>3. held' \ Unowned = (held \ Unowned) \cup Gets(at)
    BY <2>1, <2>2
  <2>4. CASE at \in {"root", "model", "max_tokens", "messages", "system", "history", "tools"}
    <3>1. held' \ Unowned = {"root"}
      BY <1>4, <2>3, <2>4 DEF IInv, HeldByPlace, Held
    <3>2. at' \in {"model", "max_tokens", "messages", "system", "history", "tools", "print"}
      BY <1>4, <2>4
    <3> QED BY <3>1, <3>2 DEF HeldByPlace, Held
  <2>5. CASE at \in {"print", "head"}
    <3>1. held' \ Unowned = {"root", "body"}
      BY <1>4, <2>3, <2>5 DEF IInv, HeldByPlace, Held
    <3>2. at' \in {"head", "resolve"}
      BY <1>4, <2>5
    <3> QED BY <3>1, <3>2 DEF HeldByPlace, Held
  <2>6. CASE at = "resolve"
    <3>1. held' \ Unowned = {"root", "body", "addresses"} /\ at' = "socket"
      BY <1>4, <2>3, <2>6 DEF IInv, HeldByPlace, Held
    <3> QED BY <3>1 DEF HeldByPlace, Held
  <2>7. CASE at = "socket"
    <3>1. held' \ Unowned = {"root", "body", "addresses", "fd"} /\ at' = "connect"
      BY <1>4, <2>3, <2>7 DEF IInv, HeldByPlace, Held
    <3> QED BY <3>1 DEF HeldByPlace, Held
  <2> QED BY <1>1, <2>4, <2>5, <2>6, <2>7, Points
<1>8. SentSoFar' /\ Received' /\ Tested' /\ Parsed'
  <2>1. at' \notin {"out", "header", "body", "limit", "receiving", "http", "status", "json",
                    "choices", "message", "raw", "calls"}
    BY <1>5, Points
  <2> QED BY <2>1 DEF SentSoFar, Received, Tested, Parsed
<1>9. OutType'
  BY <1>1 DEF IInv, OutType
<1> QED BY <1>6, <1>7, <1>8, <1>9 DEF IInv

(* tcp_connect and send_all: the request goes out piece by piece.          *)
LEMMA ConnectsPreserves == ASSUME IInv, Connects PROVE IInv'
<1>1. /\ at = "connect" /\ at' = "header" /\ held' = held \ {"addresses"} /\ peer' = "open"
      /\ reply' \in Replies /\ sent' = 0 /\ arrived' = <<>>
      /\ UNCHANGED <<calls, received, cap, next, out, rc>>
  BY DEF Connects
<1>2. <<>> \in Seq({"header", "body"} \X (Nat \ {0})) /\ Len(<<>>) = 0
  BY EmptySeq
<1>3. TypeOK'
  BY <1>1, <1>2 DEF IInv, TypeOK
<1>4. SentSoFar'
  BY <1>1, <1>2, Lengths DEF SentSoFar
<1>5. HeldByPlace'
  BY <1>1 DEF IInv, HeldByPlace, Held
<1>6. OutType' /\ Received' /\ Tested' /\ Parsed'
  BY <1>1 DEF IInv, OutType, Received, Tested, Parsed
<1> QED BY <1>3, <1>4, <1>5, <1>6 DEF IInv

LEMMA SendsPreserves == ASSUME IInv, Sends PROVE IInv'
<1> DEFINE RequestBytes == {"header", "body"} \X (Nat \ {0})
<1>1. PICK n \in 1 .. SegmentLen - sent : arrived' = arrived \o Chunk(n) /\ sent' = sent + n
  BY DEF Sends
<1>2. /\ at \in {"header", "body"}
      /\ UNCHANGED <<at, calls, held, reply, peer, received, cap, next, out, rc>>
  BY DEF Sends, Sending
<1>3. /\ sent \in Nat /\ arrived \in Seq(RequestBytes) /\ n \in Nat /\ n > 0
      /\ at = "header" => sent + n <= HeaderLen
      /\ at = "body" => sent + n <= BodyLen
  <2>1. sent \in Nat /\ arrived \in Seq(RequestBytes)
    BY DEF IInv, TypeOK
  <2>2. /\ at = "header" => SegmentLen = HeaderLen
        /\ at = "body" => SegmentLen = BodyLen
    BY DEF SegmentLen
  <2>3. SegmentLen \in Nat
    BY <1>2, <2>2, Lengths
  <2>4. n \in Nat /\ n > 0 /\ sent + n <= SegmentLen
    BY <1>1, <2>1, <2>3
  <2> QED BY <2>1, <2>2, <2>4
<1>4. /\ Chunk(n) \in Seq(RequestBytes) /\ Len(Chunk(n)) = n
      /\ \A i \in 1 .. n : Chunk(n)[i] = <<at, sent + i>>
  <2>1. \A i \in 1 .. n : sent + i \in Nat \ {0}
    BY <1>3
  <2>2. \A i \in 1 .. n : <<at, sent + i>> \in RequestBytes
    BY <1>2, <2>1
  <2>3. /\ Chunk(n) = [i \in 1 .. n |-> <<at, sent + i>>]
        /\ \A i \in 1 .. n : Chunk(n)[i] = <<at, sent + i>>
    BY DEF Chunk
  <2>4. Chunk(n) \in Seq(RequestBytes)
    <3>1. Chunk(n) \in [1 .. n -> RequestBytes]
      BY <2>2, <2>3
    <3> HIDE DEF RequestBytes
    <3> QED BY <3>1, <1>3, SeqDef
  <2>5. Len(Chunk(n)) \in Nat /\ DOMAIN Chunk(n) = 1 .. Len(Chunk(n)) /\ DOMAIN Chunk(n) = 1 .. n
    BY <2>3, <2>4, LenProperties
  <2>6. Len(Chunk(n)) = n
    <3> DEFINE m == Len(Chunk(n))
    <3>1. m \in Nat /\ 1 .. m = 1 .. n
      BY <2>5
    <3> HIDE DEF m
    <3>2. n \in 1 .. n
      BY <1>3
    <3>3. n \in 1 .. m
      BY <3>1, <3>2
    <3>4. m \in 1 .. m
      BY <3>1, <3>3
    <3>5. m \in 1 .. n
      BY <3>1, <3>4
    <3>6. m = n
      BY <1>3, <3>1, <3>3, <3>5
    <3> QED BY <3>6 DEF m
  <2> QED BY <2>3, <2>4, <2>6
<1>5. /\ arrived' \in Seq(RequestBytes) /\ Len(arrived') = Len(arrived) + n
      /\ Len(arrived) \in Nat
      /\ \A i \in 1 .. Len(arrived) + n :
            arrived'[i] = IF i <= Len(arrived) THEN arrived[i] ELSE Chunk(n)[i - Len(arrived)]
  <2> DEFINE chunk == Chunk(n)
  <2>1. chunk \in Seq(RequestBytes) /\ Len(chunk) = n /\ arrived' = arrived \o chunk
    BY <1>1, <1>4
  <2>2. Len(arrived) \in Nat
    BY <1>3, LenProperties
  <2>3. /\ arrived \o chunk \in Seq(RequestBytes) /\ Len(arrived \o chunk) = Len(arrived) + Len(chunk)
        /\ \A i \in 1 .. Len(arrived) + Len(chunk) :
              (arrived \o chunk)[i] = IF i <= Len(arrived) THEN arrived[i]
                                      ELSE chunk[i - Len(arrived)]
    <3> HIDE DEF chunk, RequestBytes
    <3> QED BY <1>3, <2>1, ConcatProperties
  <2> QED BY <2>1, <2>2, <2>3
<1>6. TypeOK'
  <2>1. sent' \in Nat
    BY <1>1, <1>3
  <2> QED BY <1>2, <1>5, <2>1 DEF IInv, TypeOK
<1>7. SentSoFar'
  <2>1. /\ at = "header" => Len(arrived) = sent
        /\ at = "body" => Len(arrived) = HeaderLen + sent
        /\ \A i \in 1 .. Len(arrived) : arrived[i] = RequestByte(i)
    BY <1>2 DEF IInv, SentSoFar
  <2>2. /\ at = "header" => sent' <= HeaderLen /\ Len(arrived') = sent'
        /\ at = "body" => sent' <= BodyLen /\ Len(arrived') = HeaderLen + sent'
    <3>1. Len(arrived') = Len(arrived) + n /\ sent' = sent + n /\ Len(arrived) \in Nat
      BY <1>1, <1>5
    <3>2. sent \in Nat /\ n \in Nat /\ HeaderLen \in Nat
      BY <1>3, Lengths
    <3>3. CASE at = "header"
      BY <1>3, <2>1, <3>1, <3>2, <3>3
    <3>4. CASE at = "body"
      <4>1. Len(arrived') = (HeaderLen + sent) + n
        BY <2>1, <3>1, <3>4
      <4>2. (HeaderLen + sent) + n = HeaderLen + (sent + n)
        BY <3>2
      <4>3. Len(arrived') = HeaderLen + sent'
        BY <3>1, <4>1, <4>2
      <4>4. sent' <= BodyLen
        BY <1>3, <3>1, <3>4
      <4> QED BY <3>4, <4>3, <4>4
    <3> QED BY <1>2, <3>3, <3>4
  <2>3. \A i \in 1 .. Len(arrived') : arrived'[i] = RequestByte(i)
    <3> SUFFICES ASSUME NEW i \in 1 .. Len(arrived) + n PROVE arrived'[i] = RequestByte(i)
      BY <1>5
    <3>1. CASE i <= Len(arrived)
      BY <3>1, <1>5, <2>1
    <3>2. CASE i > Len(arrived)
      <4>1. i - Len(arrived) \in 1 .. n
        BY <3>2, <1>3, <1>5
      <4>2. arrived'[i] = <<at, sent + (i - Len(arrived))>>
        BY <3>2, <4>1, <1>4, <1>5
      <4>3. CASE at = "header"
        <5>1. sent + (i - Len(arrived)) = i /\ i <= HeaderLen
          <6>1. sent \in Nat /\ n \in Nat /\ Len(arrived) = sent /\ sent + n <= HeaderLen
            BY <4>3, <1>3, <2>1
          <6> QED BY <6>1, Lengths
        <5> QED BY <4>2, <4>3, <5>1 DEF RequestByte
      <4>4. CASE at = "body"
        <5>1. sent + (i - Len(arrived)) = i - HeaderLen /\ ~(i <= HeaderLen)
          <6>1. sent \in Nat /\ n \in Nat /\ Len(arrived) = HeaderLen + sent
            BY <4>4, <1>3, <2>1
          <6> QED BY <3>2, <6>1, Lengths
        <5> QED BY <4>2, <4>4, <5>1 DEF RequestByte
      <4> QED BY <1>2, <4>3, <4>4
    <3> QED BY <1>5, <3>1, <3>2
  <2> QED BY <1>2, <2>2, <2>3 DEF SentSoFar
<1>8. OutType' /\ HeldByPlace' /\ Received' /\ Tested' /\ Parsed'
  BY <1>2 DEF IInv, OutType, HeldByPlace, Held, Received, Tested, Parsed, ParsedUpTo, FieldsOf
<1> QED BY <1>6, <1>7, <1>8 DEF IInv

LEMMA SegmentEndsPreserves ==
  ASSUME IInv, SendKills \/ HeaderSent \/ BodySent \/ PeerCloses
  PROVE  IInv'
<1> USE DEF net
<1>1. CASE SendKills
  <2>1. TypeOK'
    BY <1>1 DEF SendKills, IInv, TypeOK
  <2>2. OutType' /\ HeldByPlace' /\ SentSoFar' /\ Received' /\ Tested' /\ Parsed'
    BY <1>1 DEF SendKills, IInv, OutType, HeldByPlace, Held, SentSoFar, Received, Tested, Parsed
  <2> QED BY <2>1, <2>2 DEF IInv
<1>2. CASE HeaderSent
  <2>1. TypeOK'
    BY <1>2 DEF HeaderSent, IInv, TypeOK
  <2>2. SentSoFar'
    BY <1>2, Lengths DEF HeaderSent, IInv, SentSoFar
  <2>3. OutType' /\ HeldByPlace' /\ Received' /\ Tested' /\ Parsed'
    BY <1>2 DEF HeaderSent, IInv, OutType, HeldByPlace, Held, Received, Tested, Parsed
  <2> QED BY <2>1, <2>2, <2>3 DEF IInv
<1>3. CASE BodySent
  <2>1. TypeOK'
    BY <1>3 DEF BodySent, IInv, TypeOK
  <2>2. SentSoFar'
    BY <1>3, Lengths DEF BodySent, IInv, SentSoFar
  <2>3. OutType' /\ HeldByPlace' /\ Received' /\ Tested' /\ Parsed'
    BY <1>3 DEF BodySent, IInv, OutType, HeldByPlace, Held, Received, Tested, Parsed
  <2> QED BY <2>1, <2>2, <2>3 DEF IInv
<1>4. CASE PeerCloses
  <2>1. TypeOK'
    BY <1>4 DEF PeerCloses, IInv, TypeOK
  <2>2. OutType' /\ HeldByPlace' /\ SentSoFar' /\ Received' /\ Tested' /\ Parsed'
    BY <1>4 DEF PeerCloses, IInv, OutType, HeldByPlace, Held, SentSoFar, Received, Tested, Parsed
  <2> QED BY <2>1, <2>2 DEF IInv
<1> QED BY <1>1, <1>2, <1>3, <1>4

LEMMA TimeLimitPreserves == ASSUME IInv, TimeLimitSet PROVE IInv'
<1>1. /\ at = "limit" /\ at' = "receiving" /\ held' = held \cup {"response"}
      /\ received' = 0 /\ cap' = InitialCap
      /\ UNCHANGED <<calls, sent, arrived, reply, peer, next, out, rc>>
  BY DEF TimeLimitSet
<1>2. TypeOK'
  BY <1>1, Lengths DEF IInv, TypeOK
<1>3. Received'
  <2>1. 0 < InitialCap /\ 0 <= reply.len
    <3>1. reply.len \in Nat
      BY ReplyFields
    <3> QED BY <3>1, Lengths
  <2> QED BY <1>1, <2>1 DEF Received
<1>4. HeldByPlace'
  BY <1>1 DEF IInv, HeldByPlace, Held, Unowned
<1>5. OutType' /\ SentSoFar' /\ Tested' /\ Parsed'
  BY <1>1 DEF IInv, OutType, SentSoFar, Tested, Parsed
<1> QED BY <1>2, <1>3, <1>4, <1>5 DEF IInv

-----------------------------------------------------------------------------
(* recv_all: the buffer grows before it is full.                           *)
LEMMA GrownLeavesRoom ==
  ASSUME IInv, at = "receiving"
  PROVE  /\ received \in Nat /\ cap \in Nat /\ Grown \in Nat /\ Room \in Nat \ {0}
         /\ Room = Grown - received - 1 /\ received < Grown
<1>1. received \in Nat /\ cap \in Nat /\ received < cap
  BY DEF IInv, TypeOK, Received
<1> QED BY <1>1 DEF Grown, Room

LEMMA ReceivingPreserves == ASSUME IInv, Receives \/ RecvEnds PROVE IInv'
<1>1. /\ received \in Nat /\ Grown \in Nat /\ Room \in Nat \ {0}
      /\ Room = Grown - received - 1 /\ received < Grown
  BY GrownLeavesRoom DEF Receives, RecvEnds
<1>2. reply.len \in Nat /\ received <= reply.len
  <2>1. reply.len \in Nat
    BY ReplyFields
  <2> QED BY <2>1 DEF IInv, Received, Receives, RecvEnds
<1>3. CASE Receives
  <2>1. PICK n \in 1 .. Room : received + n <= reply.len /\ received' = received + n
    BY <1>3 DEF Receives
  <2>2. /\ at = "receiving" /\ cap' = Grown
        /\ UNCHANGED <<at, calls, held, sent, arrived, reply, peer, next, out, rc>>
    BY <1>3 DEF Receives
  <2>3. received' \in Nat /\ received' < Grown /\ received' <= reply.len
    BY <1>1, <1>2, <2>1
  <2>4. TypeOK'
    BY <1>1, <2>2, <2>3 DEF IInv, TypeOK
  <2>5. Received'
    BY <2>2, <2>3 DEF Received
  <2>6. OutType' /\ HeldByPlace' /\ SentSoFar' /\ Tested' /\ Parsed'
    BY <2>2 DEF IInv, OutType, HeldByPlace, Held, SentSoFar, Tested, Parsed
  <2> QED BY <2>4, <2>5, <2>6 DEF IInv
<1>4. CASE RecvEnds
  <2>1. /\ at' = "http" /\ at = "receiving" /\ cap' = Grown /\ held' = held \ {"fd"}
        /\ UNCHANGED <<calls, sent, arrived, reply, peer, received, next, out, rc>>
    BY <1>4 DEF RecvEnds
  <2>2. TypeOK'
    BY <1>1, <2>1, Points DEF IInv, TypeOK
  <2>3. Received'
    BY <1>1, <1>2, <2>1 DEF Received
  <2>4. OutType' /\ HeldByPlace' /\ SentSoFar' /\ Tested' /\ Parsed'
    BY <2>1 DEF IInv, OutType, HeldByPlace, Held, Unowned, SentSoFar, Tested, Parsed
  <2> QED BY <2>2, <2>3, <2>4 DEF IInv
<1> QED BY <1>3, <1>4

(* A test that the reply passes.                                           *)
LEMMA PassesPreserves == ASSUME IInv, Passes PROVE IInv'
<1>1. /\ at \in DOMAIN ThenTest /\ ~Refused /\ at' = ThenTest[at]
      /\ held' = CASE at = "status" -> held \ {"response"}
                   [] at = "json" -> held \cup {"json"}
                   [] OTHER -> held
      /\ out' = IF at = "message" THEN [out EXCEPT !.content = reply.content] ELSE out
      /\ UNCHANGED <<calls, sent, arrived, reply, peer, received, cap, next, rc>>
  BY DEF Passes, net
<1>2. /\ at = "http" => at' = "status"
      /\ at = "status" => at' = "json" /\ reply.status = "200"
      /\ at = "json" => at' = "choices" /\ ~(received < reply.len) /\ reply.shape # "garbage"
      /\ at = "choices" => at' = "message" /\ reply.shape # "no choices"
      /\ at = "message" => at' = "raw" /\ reply.shape # "no message"
  <2>1. /\ at = "http" => at' = "status"
        /\ at = "status" => at' = "json"
        /\ at = "json" => at' = "choices"
        /\ at = "choices" => at' = "message"
        /\ at = "message" => at' = "raw"
    BY <1>1 DEF ThenTest
  <2>2. /\ at = "status" => reply.status = "200"
        /\ at = "json" => ~(received < reply.len) /\ reply.shape # "garbage"
        /\ at = "choices" => reply.shape # "no choices"
        /\ at = "message" => reply.shape # "no message"
    BY <1>1 DEF Refused
  <2> QED BY <2>1, <2>2
<1>3. at \in {"http", "status", "json", "choices", "message"}
  BY <1>1, Points
<1>4. at' \in {"status", "json", "choices", "message", "raw"}
  BY <1>2, <1>3
<1>5. /\ received \in Nat /\ reply.len \in Nat /\ reply.content \in {"none", "text"}
      /\ reply.shape \in {"garbage", "no choices", "no message", "message"}
  BY ReplyFields DEF IInv, TypeOK
<1>6. /\ OutType'
      /\ at = "message" => out'.content = reply.content
  BY <1>1, <1>5 DEF IInv, OutType
<1>7. TypeOK'
  <2>1. /\ out'.content \in {"none", "text"} /\ out'.raw \in {"none", "message"}
        /\ out'.tool_calls \in Seq(ToolCall)
    BY <1>6 DEF OutType
  <2>2. held' \subseteq {"root", "body", "addresses", "fd", "response", "json"} \cup Unowned
    BY <1>1 DEF IInv, TypeOK
  <2>3. at' \in {"raw"} \cup DOMAIN ThenTest
    BY <1>4, Points
  <2> QED BY <1>1, <2>1, <2>2, <2>3 DEF IInv, TypeOK, ToolCall
<1>8. HeldByPlace'
  <2>1. CASE at = "http"
    BY <1>1, <1>2, <2>1 DEF IInv, HeldByPlace, Held
  <2>2. CASE at = "status"
    BY <1>1, <1>2, <2>2 DEF IInv, HeldByPlace, Held
  <2>3. CASE at = "json"
    BY <1>1, <1>2, <2>3 DEF IInv, HeldByPlace, Held, Unowned
  <2>4. CASE at \in {"choices", "message"}
    BY <1>1, <1>2, <2>4 DEF IInv, HeldByPlace, Held
  <2> QED BY <1>3, <2>1, <2>2, <2>3, <2>4
<1>9. Received' /\ Tested'
  <2>1. at = "json" => received = reply.len
    <3> SUFFICES ASSUME at = "json" PROVE received = reply.len
      OBVIOUS
    <3> DEFINE n == received
               m == reply.len
    <3>1. n <= m /\ ~(n < m) /\ n \in Nat /\ m \in Nat
      BY <1>2, <1>5 DEF IInv, Received
    <3> HIDE DEF n, m
    <3>2. n = m
      BY <3>1
    <3> QED BY <3>2 DEF n, m
  <2>2. Received'
    BY <1>1, <1>2, <1>3, <1>4 DEF IInv, Received
  <2>3. Tested'
    BY <1>1, <1>2, <1>3, <1>5, <1>6, <2>1 DEF IInv, Tested
  <2> QED BY <2>2, <2>3
<1>10. SentSoFar' /\ Parsed'
  BY <1>4 DEF SentSoFar, Parsed
<1> QED BY <1>6, <1>7, <1>8, <1>9, <1>10 DEF IInv

(* The reply is accepted, and its tool calls are parsed one by one.        *)
LEMMA ParsesPreserves == ASSUME IInv, Parses PROVE IInv'
<1>1. /\ at = "raw" /\ at' = "calls" /\ next' = 1
      /\ out' = [out EXCEPT !.raw = "message",
                            !.tool_calls = [i \in DOMAIN reply.calls |-> Unset]]
      /\ UNCHANGED <<calls, held, sent, arrived, reply, peer, received, cap, rc>>
  BY DEF Parses, net
<1>2. /\ reply.len \in Nat /\ reply.content \in {"none", "text"}
      /\ Len(reply.calls) \in Nat /\ DOMAIN reply.calls = 1 .. Len(reply.calls)
  BY ReplyFields
<1>3. /\ received = reply.len /\ reply.status = "200" /\ reply.shape = "message"
      /\ out.content = reply.content
  BY <1>1 DEF IInv, Tested
<1> DEFINE blank == [i \in 1 .. Len(reply.calls) |-> Unset]
<1>4. blank \in Seq(ToolCall) /\ Len(blank) = Len(reply.calls)
  <2>1. Unset \in ToolCall
    BY DEF Unset, ToolCall
  <2>2. blank \in [1 .. Len(reply.calls) -> ToolCall]
    BY <2>1
  <2> QED BY <1>2, <2>2, SeqDef
<1>5. out' = [content |-> reply.content, raw |-> "message", tool_calls |-> blank]
  BY <1>1, <1>2, <1>3 DEF IInv, OutType
<1>6. OutType' /\ out'.content = reply.content /\ out'.tool_calls = blank /\ out'.raw = "message"
  <2> HIDE DEF blank
  <2> QED BY <1>2, <1>4, <1>5 DEF OutType
<1>7. TypeOK'
  <2>1. /\ out'.content \in {"none", "text"} /\ out'.raw \in {"none", "message"}
        /\ out'.tool_calls \in Seq(ToolCall)
    BY <1>6 DEF OutType
  <2>2. /\ at' = "calls" /\ next' \in Nat \ {0}
        /\ UNCHANGED <<calls, held, sent, arrived, reply, peer, received, cap, rc>>
    BY <1>1
  <2> HIDE DEF blank
  <2> QED BY <2>1, <2>2 DEF IInv, TypeOK, ToolCall
<1>8. Parsed'
  <2>1. 1 <= Len(reply.calls) + 1 /\ \A i \in 1 .. Len(reply.calls) : ~(i < 1)
    BY <1>2
  <2>2. Len(out'.tool_calls) = Len(reply.calls)
    BY <1>4, <1>6
  <2> HIDE DEF blank
  <2> QED BY <1>1, <1>3, <1>6, <2>1, <2>2 DEF Parsed, ParsedUpTo
<1>9. HeldByPlace' /\ SentSoFar' /\ Received' /\ Tested'
  <2> HIDE DEF blank
  <2> QED BY <1>1, <1>3, <1>6 DEF IInv, HeldByPlace, Held, SentSoFar, Received, Tested
<1> QED BY <1>6, <1>7, <1>8, <1>9 DEF IInv

LEMMA ParsesCallPreserves == ASSUME IInv, ParsesCall PROVE IInv'
<1> DEFINE fields == FieldsOf(reply.calls[next])
<1> DEFINE list == out.tool_calls
<1>1. /\ at = "calls" /\ next <= Len(reply.calls) /\ next' = next + 1
      /\ out' = [out EXCEPT !.tool_calls[next] = fields]
      /\ UNCHANGED <<at, calls, held, sent, arrived, reply, peer, received, cap, rc>>
  BY DEF ParsesCall, net
<1>2. /\ next \in Nat \ {0} /\ Len(reply.calls) \in Nat /\ next \in 1 .. Len(reply.calls)
      /\ fields \in ToolCall
  <2>1. next \in Nat \ {0}
    BY DEF IInv, TypeOK
  <2>2. Len(reply.calls) \in Nat
    BY ReplyFields
  <2>3. next \in 1 .. Len(reply.calls)
    BY <1>1, <2>1, <2>2
  <2>4. reply.calls[next] \in CallShape
    BY <2>3, ReplyFields
  <2> QED BY <2>1, <2>2, <2>3, <2>4, FieldsAreToolCall
<1>3. list \in Seq(ToolCall) /\ ParsedUpTo(next) /\ Len(list) = Len(reply.calls)
  BY <1>1 DEF IInv, OutType, Parsed, ParsedUpTo
<1>4. /\ out'.content = out.content /\ out'.raw = out.raw
      /\ out'.tool_calls = [list EXCEPT ![next] = fields]
      /\ out' \in [content : {"none", "text"}, raw : {"none", "message"},
                   tool_calls : {out'.tool_calls}]
  <2> HIDE DEF fields
  <2> QED BY <1>1 DEF IInv, OutType
<1>5. /\ out'.tool_calls \in Seq(ToolCall) /\ Len(out'.tool_calls) = Len(reply.calls)
      /\ \A i \in 1 .. Len(reply.calls) :
            out'.tool_calls[i] = IF i = next THEN fields ELSE list[i]
  <2> HIDE DEF fields, list
  <2> QED BY <1>2, <1>3, <1>4, ExceptSeq
<1>6. OutType'
  BY <1>4, <1>5 DEF OutType
<1>7. TypeOK'
  <2>1. next' \in Nat \ {0}
    BY <1>1, <1>2
  <2>2. out'.content \in {"none", "text"} /\ out'.raw \in {"none", "message"}
    BY <1>4 DEF IInv, OutType
  <2> HIDE DEF fields, list
  <2> QED BY <1>1, <1>5, <2>1, <2>2 DEF IInv, TypeOK, ToolCall
<1>8. Parsed'
  <2>1. next + 1 <= Len(reply.calls) + 1
    BY <1>2
  <2>2. \A i \in 1 .. Len(reply.calls) : i < next + 1 => i < next \/ i = next
    BY <1>2
  <2>3. \A i \in 1 .. Len(reply.calls) :
           i < next + 1 => out'.tool_calls[i] = FieldsOf(reply.calls[i])
    <3> SUFFICES ASSUME NEW i \in 1 .. Len(reply.calls), i < next + 1
                 PROVE  out'.tool_calls[i] = FieldsOf(reply.calls[i])
      OBVIOUS
    <3>1. CASE i = next
      BY <1>5, <3>1
    <3>2. CASE i # next
      <4>1. list[i] = FieldsOf(reply.calls[i])
        BY <1>3, <2>2, <3>2 DEF ParsedUpTo
      <4>2. out'.tool_calls[i] = list[i]
        BY <1>5, <3>2
      <4> QED BY <4>1, <4>2
    <3> QED BY <3>1, <3>2
  <2>4. \A s : FieldsOf(s)' = FieldsOf(s)
    BY DEF FieldsOf, Field, Arguments
  <2> QED BY <1>1, <1>3, <1>4, <1>5, <2>1, <2>3, <2>4 DEF Parsed, ParsedUpTo
<1>9. HeldByPlace' /\ SentSoFar' /\ Received' /\ Tested'
  BY <1>1, <1>4 DEF IInv, HeldByPlace, Held, SentSoFar, Received, Tested
<1> QED BY <1>6, <1>7, <1>8, <1>9 DEF IInv

LEMMA ReturnsPreserves == ASSUME IInv, Returns PROVE IInv'
<1>1. /\ at = "calls" /\ at' = "out" /\ rc' = "ok" /\ next > Len(reply.calls)
      /\ held' = held \ {"json", "body", "root"}
      /\ UNCHANGED <<calls, sent, arrived, reply, peer, received, cap, next, out>>
  BY DEF Returns, net
<1>2. next = Len(reply.calls) + 1 /\ ParsedUpTo(next)
  <2>1. next \in Nat \ {0} /\ next <= Len(reply.calls) + 1 /\ ParsedUpTo(next)
    BY <1>1 DEF IInv, TypeOK, Parsed
  <2>2. Len(reply.calls) \in Nat
    BY ReplyFields
  <2> QED BY <1>1, <2>1, <2>2
<1>3. TypeOK'
  BY <1>1 DEF IInv, TypeOK
<1>4. Parsed'
  BY <1>1, <1>2 DEF Parsed, ParsedUpTo
<1>5. OutType' /\ HeldByPlace' /\ SentSoFar' /\ Received' /\ Tested'
  BY <1>1 DEF IInv, OutType, HeldByPlace, Held, SentSoFar, Received, Tested
<1> QED BY <1>3, <1>4, <1>5 DEF IInv

LEMMA NextPreserves == IInv /\ [Next]_vars => IInv'
<1> SUFFICES ASSUME IInv, [Next]_vars PROVE IInv'
  OBVIOUS
<1>1. CASE UNCHANGED vars
  <2>1. TypeOK'
    BY <1>1 DEF vars, net, IInv, TypeOK
  <2>2. OutType' /\ HeldByPlace' /\ SentSoFar' /\ Received' /\ Tested'
    <3>1. UNCHANGED <<at, held, sent, arrived, reply, received, cap, out>>
      BY <1>1 DEF vars, net
    <3>2. OutType' /\ HeldByPlace'
      BY <3>1 DEF IInv, OutType, HeldByPlace, Held
    <3>3. SentSoFar'
      BY <3>1 DEF IInv, SentSoFar, RequestByte
    <3>4. Received' /\ Tested'
      BY <3>1 DEF IInv, Received, Tested
    <3> QED BY <3>2, <3>3, <3>4
  <2>3. Parsed'
    BY <1>1 DEF vars, net, IInv, Parsed, ParsedUpTo
  <2> QED BY <2>1, <2>2, <2>3 DEF IInv
<1> QED
  BY <1>1, FailurePreserves, BeginsPreserves, BuildsPreserves, ConnectsPreserves, SendsPreserves,
     SegmentEndsPreserves, TimeLimitPreserves, ReceivingPreserves, PassesPreserves,
     ParsesPreserves, ParsesCallPreserves, ReturnsPreserves
     DEF Next, BuildStep, SendStep, LimitStep, ParseStep

LEMMA InvariantHolds == Spec => []IInv
  BY InitEstablishes, NextPreserves, PTL DEF Spec
-----------------------------------------------------------------------------
(* send_all: the peer has the header and the body, once, whole and in      *)
(* order, when llm_chat begins to wait for the reply.                      *)
THEOREM RequestIsWhole == Spec => []RequestArrives
<1>1. IInv => RequestArrives
  <2> SUFFICES ASSUME IInv, at = "receiving"
               PROVE  arrived = [i \in 1 .. HeaderLen + BodyLen |->
                                   IF i <= HeaderLen THEN <<"header", i>>
                                   ELSE <<"body", i - HeaderLen>>]
    BY DEF RequestArrives
  <2>1. /\ Len(arrived) = HeaderLen + BodyLen
        /\ \A i \in 1 .. Len(arrived) : arrived[i] = RequestByte(i)
    BY DEF IInv, SentSoFar
  <2>2. arrived = [i \in 1 .. Len(arrived) |-> arrived[i]]
    <3>1. arrived \in [1 .. Len(arrived) -> {"header", "body"} \X (Nat \ {0})]
      BY LenProperties DEF IInv, TypeOK
    <3> QED BY <3>1
  <2>3. arrived = [i \in 1 .. HeaderLen + BodyLen |-> RequestByte(i)]
    BY <2>1, <2>2
  <2> QED BY <2>3 DEF RequestByte
<1> QED BY <1>1, InvariantHolds, PTL

(* recv_all never asks for no byte, which would look like the end of the   *)
(* reply, and there is a byte for the terminator.                          *)
THEOREM RecvHasRoom == Spec => []RoomLeft
<1>1. IInv => RoomLeft
  <2> SUFFICES ASSUME IInv PROVE RoomLeft
    OBVIOUS
  <2>1. at = "receiving" => Room > 0
    <3> SUFFICES ASSUME at = "receiving" PROVE Room > 0
      OBVIOUS
    <3>1. Room \in Nat \ {0}
      BY GrownLeavesRoom
    <3> QED BY <3>1
  <2>2. at \in {"receiving", "http"} => received < cap
    BY DEF IInv, Received
  <2> QED BY <2>1, <2>2 DEF RoomLeft
<1> QED BY <1>1, InvariantHolds, PTL

(* What llm_chat accepts is a whole reply of status 200 with a message,    *)
(* and of every well-formed tool call in it every field is set.            *)
THEOREM WholeOrRefused == Spec => []AcceptedIsWhole
<1>1. IInv => AcceptedIsWhole
  <2> SUFFICES ASSUME IInv, at = "out", rc = "ok"
               PROVE  /\ received = reply.len /\ reply.status = "200" /\ reply.shape = "message"
                      /\ out.content = reply.content /\ Len(out.tool_calls) = Len(reply.calls)
                      /\ \A i \in DOMAIN reply.calls : WellFormed(reply.calls[i]) =>
                            "unset" \notin {out.tool_calls[i].id, out.tool_calls[i].name,
                                            out.tool_calls[i].args}
    BY DEF AcceptedIsWhole
  <2>1. ParsedUpTo(Len(reply.calls) + 1)
    BY DEF IInv, Parsed
  <2>2. /\ Len(reply.calls) \in Nat /\ DOMAIN reply.calls = 1 .. Len(reply.calls)
        /\ \A i \in 1 .. Len(reply.calls) : reply.calls[i] \in CallShape
    BY ReplyFields
  <2>3. \A i \in 1 .. Len(reply.calls) : i < Len(reply.calls) + 1
    BY <2>2
  <2>4. \A i \in 1 .. Len(reply.calls) : out.tool_calls[i] = FieldsOf(reply.calls[i])
    BY <2>1, <2>3 DEF ParsedUpTo
  <2>5. \A i \in 1 .. Len(reply.calls) : WellFormed(reply.calls[i]) =>
           "unset" \notin {out.tool_calls[i].id, out.tool_calls[i].name, out.tool_calls[i].args}
    BY <2>2, <2>4, FieldsAreToolCall, Zenon
  <2> QED BY <2>1, <2>2, <2>5 DEF ParsedUpTo
<1> QED BY <1>1, InvariantHolds, PTL

(* Wherever llm_chat fails, the lists of its exit and of the callee it is  *)
(* in are what it has, each thing once, and nothing but what cJSON could   *)
(* not add to a request is left when it returns.                           *)
THEOREM HoldsNothing == Spec => []NothingHeld
<1>1. IInv => NothingHeld
  <2> SUFFICES ASSUME IInv PROVE NothingHeld
    OBVIOUS
  <2>1. at = "out" => held \subseteq Unowned
    BY DEF IInv, HeldByPlace, Held
  <2>2. MayFail => at \in Failing
    <3>1. Exit \in {"tcp_connect", "recv_all"} \/ Exit = at
      BY DEF Exit
    <3>2. /\ Exit = "tcp_connect" => at \in {"resolve", "socket", "connect", "tcp_connect"}
          /\ Exit = "recv_all" => at \in {"limit", "receiving", "recv_all"}
      BY DEF Exit
    <3>3. at \notin {"tcp_connect", "recv_all"}
      BY Points DEF IInv, TypeOK
    <3> QED BY <3>1, <3>2, <3>3, Points DEF MayFail, Failing
  <2> QED BY <2>1, <2>2, ListsAreHeld DEF IInv, NothingHeld
<1> QED BY <1>1, InvariantHolds, PTL
=============================================================================
