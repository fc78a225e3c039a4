---------------------------- MODULE AgentProofs ----------------------------
(***************************************************************************)
(* For every number of chats, turns and tool calls, and every way a chat   *)
(* can fail: the results of a batch are in the history all or not at all,  *)
(* a request never exceeds the window, and the history changes only as     *)
(* Context lets it.  At the end, for every text and every width of int and *)
(* long: what agent_create, and config_init before it, read the window as. *)
(***************************************************************************)
EXTENDS Agent, Numbers, SequenceTheorems, WellFoundedInduction, TLAPS

InChat == {"turn", "reclaim", "llm", "tools", "push"}

HistoryType == history \in Seq(Ctx!Message) /\ nextId \in Nat

CountersType ==
    /\ pc \in InChat \cup {"prompt", "exited"}
    /\ chat \in 0 .. MaxChats /\ turn \in 0 .. MaxTurns
    /\ asked \in 0 .. MaxCalls /\ pushed \in 0 .. asked

(* A chat has begun wherever agent_chat is running, calls are counted from *)
(* the response that has them to the last result, and the turn is one of   *)
(* the MaxTurns from the first reclaim on.                                 *)
CountersByPlace ==
    /\ pc \in InChat => chat >= 1
    /\ pc \in {"tools", "push"} => asked >= 1
    /\ pc # "push" => pushed = 0
    /\ pc \in {"reclaim", "llm", "tools", "push"} => turn < MaxTurns

(* While tools run and their results are pushed, the history ends with the *)
(* message that asked for them and the results so far, in order.           *)
OpenBatch ==
    pc \in {"tools", "push"} =>
        /\ pushed < Len(history)
        /\ Asks(Len(history) - pushed)
        /\ history[Len(history) - pushed].tag = <<chat, turn, asked>>
        /\ \A k \in 1 .. pushed :
              /\ history[Len(history) - pushed + k].role = "tool"
              /\ history[Len(history) - pushed + k].tag = <<chat, turn, k>>

(* Before a request the history does not end with an unanswered message.   *)
NothingOpen ==
    pc \in {"turn", "reclaim", "llm"} /\ Len(history) > 0 => ~Asks(Len(history))

(* Every message with tool calls is answered in full, or is the last of    *)
(* its chat, or is being answered.                                         *)
CallsSettled ==
    \A i \in 1 .. Len(history) : Asks(i) =>
        \/ Answered(i)
        \/ i = Len(history)
        \/ history[i + 1].role = "user"
        \/ pc = "push" /\ i = Len(history) - pushed

(* Every result answers a message answered in full, or being answered.     *)
ResultsAsked ==
    \A j \in 1 .. Len(history) : history[j].role = "tool" =>
        \/ \E i \in 1 .. j - 1 : Asks(i) /\ j <= i + history[i].tag[3] /\ Answered(i)
        \/ pc = "push" /\ j > Len(history) - pushed

Exceeded == Window > 0 /\ Ctx!Total > Window

(* "ok" is said of the history as it is.                                   *)
OkFits ==
    /\ at # "out" => result = "none"
    /\ result = "ok" => ~Exceeded
    /\ pc = "llm" => ~Exceeded

(* The most messages of a turn, of a chat, and so far.                     *)
PerTurn == 1 + MaxCalls
PerChat == 1 + MaxTurns * PerTurn

Said(n) ==
    IF pc \in InChat
    THEN n <= (chat - 1) * PerChat + 1 + turn * PerTurn
                 + (IF pc \in {"tools", "push"} THEN 1 + pushed ELSE 0)
    ELSE n <= chat * PerChat

LengthBound == Said(Len(history))

IInv == /\ HistoryType /\ CountersType /\ CountersByPlace /\ OpenBatch /\ NothingOpen
        /\ CallsSettled /\ ResultsAsked /\ OkFits /\ LengthBound
-----------------------------------------------------------------------------
LEMMA Bounds ==
  /\ MaxTurns \in Nat \ {0} /\ MaxCalls \in Nat \ {0} /\ MaxChats \in Nat \ {0}
  /\ PerTurn \in Nat \ {0} /\ PerTurn = 1 + MaxCalls
  BY BoundsAssumption DEF PerTurn

(* What the two products of the length bound do, one step at a time.       *)
LEMMA Products ==
  ASSUME NEW a \in Nat, NEW b \in Nat, NEW c \in Nat
  PROVE  /\ a * c \in Nat /\ (a + 1) * c = a * c + c
         /\ a <= b => a * c <= b * c
<1>1. a * c \in Nat /\ b * c \in Nat /\ (a + 1) * c = a * c + c
  OBVIOUS
<1>2. ASSUME a <= b PROVE a * c <= b * c
  <2>1. PICK d \in Nat : b = a + d
    <3>1. b - a \in Nat /\ b = a + (b - a)
      BY <1>2
    <3> QED BY <3>1
  <2>2. b * c = a * c + d * c /\ d * c \in Nat
    BY <2>1
  <2> QED BY <1>1, <2>2
<1> QED BY <1>1, <1>2

(* The room left in a chat of which t turns are over.                      *)
LEMMA RoomInChat ==
  ASSUME NEW t \in Nat, NEW n \in Nat, n >= 1
  PROVE  /\ t * PerTurn \in Nat /\ (n - 1) * PerChat \in Nat /\ n * PerChat \in Nat
         /\ PerChat \in Nat /\ PerChat >= 1
         /\ n * PerChat = (n - 1) * PerChat + PerChat
         /\ t <= MaxTurns => (n - 1) * PerChat + 1 + t * PerTurn <= n * PerChat
         /\ t < MaxTurns => (n - 1) * PerChat + 1 + t * PerTurn + PerTurn <= n * PerChat
         /\ n <= MaxChats => n * PerChat <= MaxChats * PerChat
<1>1. MaxTurns * PerTurn \in Nat /\ t * PerTurn \in Nat
  BY Bounds, Products
<1>2. PerChat \in Nat /\ PerChat = 1 + MaxTurns * PerTurn
  BY <1>1 DEF PerChat
<1>3. n - 1 \in Nat /\ (n - 1) + 1 = n
  OBVIOUS
<1>4. /\ (n - 1) * PerChat \in Nat /\ n * PerChat \in Nat
      /\ n * PerChat = (n - 1) * PerChat + PerChat
  BY <1>2, <1>3, Products
<1>5. t <= MaxTurns => t * PerTurn <= MaxTurns * PerTurn
  BY Bounds, Products
<1>6. ASSUME t < MaxTurns PROVE t * PerTurn + PerTurn <= MaxTurns * PerTurn
  <2>1. t + 1 \in Nat /\ t + 1 <= MaxTurns
    BY <1>6, Bounds
  <2>2. (t + 1) * PerTurn <= MaxTurns * PerTurn /\ (t + 1) * PerTurn = t * PerTurn + PerTurn
    BY <2>1, Bounds, Products
  <2> QED BY <2>2
<1>7. n <= MaxChats => n * PerChat <= MaxChats * PerChat
  BY <1>2, Bounds, Products
<1> DEFINE x == t * PerTurn
<1> DEFINE y == MaxTurns * PerTurn
<1> DEFINE z == (n - 1) * PerChat
<1>8. /\ t <= MaxTurns => z + 1 + x <= z + (1 + y)
      /\ t < MaxTurns => z + 1 + x + PerTurn <= z + (1 + y)
  <2>1. x \in Nat /\ y \in Nat /\ z \in Nat /\ PerTurn \in Nat
    BY <1>1, <1>4, Bounds
  <2>2. /\ t <= MaxTurns => x <= y
        /\ t < MaxTurns => x + PerTurn <= y
    BY <1>5, <1>6
  <2> HIDE DEF x, y, z
  <2> QED BY <2>1, <2>2
<1> QED BY <1>1, <1>2, <1>4, <1>7, <1>8

(* What a message of the history is.                                       *)
LEMMA Messages ==
  ASSUME HistoryType
  PROVE  /\ Len(history) \in Nat /\ DOMAIN history = 1 .. Len(history)
         /\ \A i \in 1 .. Len(history) :
               /\ history[i] \in Ctx!Message
               /\ history[i].role \in {"user", "assistant", "tool"}
               /\ history[i].tag \in Tag /\ history[i].tag[3] \in 0 .. MaxCalls
<1>1. /\ Len(history) \in Nat /\ DOMAIN history = 1 .. Len(history)
      /\ \A i \in 1 .. Len(history) : history[i] \in Ctx!Message
  BY LenProperties, ElementOfSeq DEF HistoryType
<1>2. \A m \in Ctx!Message : m.role \in {"user", "assistant", "tool"} /\ m.tag \in Tag
  BY DEF Ctx!Message, Ctx!Roles
<1>3. \A tag \in Tag : tag[3] \in 0 .. MaxCalls
  BY DEF Tag
<1> QED BY <1>1, <1>2, <1>3

(* Nothing said before is changed, but for what is moved to a file.        *)
Keeps ==
    /\ Len(history) <= Len(history')
    /\ \A i \in 1 .. Len(history) :
          history'[i].role = history[i].role /\ history'[i].tag = history[i].tag

LEMMA AnsweredKept ==
  ASSUME HistoryType, HistoryType', Keeps, NEW i \in 1 .. Len(history)
  PROVE  /\ Asks(i)' <=> Asks(i)
         /\ Answered(i) => Answered(i)'
         /\ Len(history') = Len(history) => (Answered(i)' => Answered(i))
<1>1. history'[i].role = history[i].role /\ history'[i].tag = history[i].tag
  BY DEF Keeps
<1>2. Asks(i)' <=> Asks(i)
  BY <1>1 DEF Asks
<1>3. /\ Len(history) \in Nat /\ Len(history') \in Nat /\ Len(history) <= Len(history')
      /\ history[i].tag[3] \in 0 .. MaxCalls
  BY Messages, LenProperties DEF Keeps, HistoryType
<1>4. \A k \in 1 .. history[i].tag[3] :
         i + k <= Len(history) => /\ i + k \in 1 .. Len(history) /\ i + k <= Len(history')
                                  /\ history'[i + k].role = history[i + k].role
                                  /\ history'[i + k].tag = history[i + k].tag
  BY <1>3 DEF Keeps
<1>5. ASSUME Answered(i) PROVE Answered(i)'
  BY <1>1, <1>4, <1>5 DEF Answered
<1>6. ASSUME Len(history') = Len(history), Answered(i)' PROVE Answered(i)
  BY <1>1, <1>4, <1>6 DEF Answered
<1> QED BY <1>2, <1>5, <1>6

-----------------------------------------------------------------------------
LEMMA InitEstablishes == Init => IInv
<1> SUFFICES ASSUME Init PROVE IInv
  OBVIOUS
<1>1. /\ history = <<>> /\ nextId = 0 /\ at = "out" /\ result = "none"
      /\ pc = "prompt" /\ chat = 0 /\ turn = 0 /\ asked = 0 /\ pushed = 0
  BY DEF Init, Ctx!Init
<1>2. history \in Seq(Ctx!Message) /\ Len(history) = 0
  BY <1>1, EmptySeq
<1>3. HistoryType /\ CountersType /\ CountersByPlace
  BY <1>1, <1>2, Bounds DEF HistoryType, CountersType, CountersByPlace, InChat
<1>4. OpenBatch /\ NothingOpen /\ CallsSettled /\ ResultsAsked /\ OkFits
  BY <1>1, <1>2 DEF OpenBatch, NothingOpen, CallsSettled, ResultsAsked, OkFits
<1>5. LengthBound
  <2>1. PerChat \in Nat
    BY RoomInChat, 0 \in Nat, 1 \in Nat, 1 >= 1
  <2>2. 0 * PerChat = 0
    BY <2>1
  <2> QED BY <1>1, <1>2, <2>2 DEF LengthBound, Said, InChat
<1> QED BY <1>3, <1>4, <1>5 DEF IInv

(* A step that leaves the history alone leaves what was answered.          *)
LEMMA QuietKeeps ==
  ASSUME IInv, UNCHANGED ctxVars
  PROVE  /\ HistoryType' /\ UNCHANGED <<history, at, result>> /\ Exceeded' = Exceeded
         /\ \A i \in 1 .. Len(history) : (Asks(i)' <=> Asks(i)) /\ (Answered(i)' <=> Answered(i))
  BY DEF ctxVars, IInv, HistoryType, Exceeded, Ctx!Total, Asks, Answered

(* agent_chat returns, from wherever it does.                              *)
LEMMA ReturnPreserves ==
  ASSUME IInv, pc \in {"turn", "reclaim", "llm", "tools"}, NEW how, Return(how), UNCHANGED ctxVars
  PROVE  IInv'
<1>1. /\ pc' = "prompt" /\ asked' = 0 /\ pushed' = 0 /\ UNCHANGED <<chat, turn>>
      /\ pushed = 0 /\ chat >= 1 /\ (pc # "turn" => turn < MaxTurns)
  BY DEF Return, IInv, CountersByPlace, InChat
<1>2. /\ HistoryType' /\ UNCHANGED <<history, at, result>> /\ Exceeded' = Exceeded
      /\ \A i \in 1 .. Len(history) : (Asks(i)' <=> Asks(i)) /\ (Answered(i)' <=> Answered(i))
  BY QuietKeeps
<1>3. CountersType' /\ CountersByPlace'
  BY <1>1, Bounds DEF IInv, CountersType, CountersByPlace, InChat
<1>4. OpenBatch' /\ NothingOpen' /\ OkFits'
  BY <1>1, <1>2 DEF IInv, OpenBatch, NothingOpen, OkFits
<1>5. CallsSettled' /\ ResultsAsked'
  BY <1>1, <1>2 DEF IInv, CallsSettled, ResultsAsked
<1>6. LengthBound'
  <2>1. /\ Len(history) \in Nat /\ turn \in Nat /\ turn <= MaxTurns /\ chat \in Nat /\ chat >= 1
    BY <1>1, Messages, Bounds DEF IInv, CountersType
  <2>2. Len(history) <= (chat - 1) * PerChat + 1 + turn * PerTurn + (IF pc = "tools" THEN 1 ELSE 0)
    BY <1>1 DEF IInv, LengthBound, Said, InChat
  <2>3. /\ (chat - 1) * PerChat + 1 + turn * PerTurn <= chat * PerChat
        /\ turn < MaxTurns => (chat - 1) * PerChat + 1 + turn * PerTurn + PerTurn <= chat * PerChat
        /\ (chat - 1) * PerChat \in Nat /\ turn * PerTurn \in Nat /\ chat * PerChat \in Nat
    BY <2>1, RoomInChat
  <2> DEFINE x == (chat - 1) * PerChat
  <2> DEFINE y == turn * PerTurn
  <2> DEFINE z == chat * PerChat
  <2>4. Len(history) <= z
    <3>1. /\ Len(history) <= x + 1 + y + (IF pc = "tools" THEN 1 ELSE 0) /\ x + 1 + y <= z
          /\ turn < MaxTurns => x + 1 + y + PerTurn <= z
          /\ x \in Nat /\ y \in Nat /\ z \in Nat
      BY <2>2, <2>3
    <3> HIDE DEF x, y, z
    <3> QED BY <1>1, <2>1, <3>1, Bounds
  <2> QED BY <1>1, <1>2, <2>4 DEF LengthBound, Said, InChat
<1> QED BY <1>2, <1>3, <1>4, <1>5, <1>6 DEF IInv

(* The chat goes on and says nothing: to reclaim, to the model, to the     *)
(* tools.                                                                  *)
LEMMA OnwardPreserves ==
  ASSUME IInv, UNCHANGED <<chat, turn, asked, pushed>>,
         \/ UNCHANGED ctxVars /\ pc = "reclaim" /\ pc' = "llm" /\ result = "ok"
         \/ UNCHANGED ctxVars /\ pc = "tools" /\ pc' = "push"
         \/ UNCHANGED ctxVars /\ pc = "prompt" /\ pc' = "exited"
         \/ UNCHANGED ctxVars /\ pc' = pc
         \/ UNCHANGED <<history, nextId>> /\ result' = "none" /\ pc = "turn" /\ pc' = "reclaim"
            /\ turn < MaxTurns
  PROVE  IInv'
<1>1. /\ HistoryType' /\ UNCHANGED history /\ Exceeded' = Exceeded
      /\ \A i \in 1 .. Len(history) : (Asks(i)' <=> Asks(i)) /\ (Answered(i)' <=> Answered(i))
  BY DEF ctxVars, IInv, HistoryType, Exceeded, Ctx!Total, Asks, Answered
<1>2. pushed \in Nat /\ Len(history) \in Nat /\ (pc # "push" => pushed = 0)
  BY Messages, Bounds DEF IInv, CountersType, CountersByPlace
<1>3. CountersType' /\ CountersByPlace'
  BY DEF IInv, CountersType, CountersByPlace, InChat
<1>4. OpenBatch'
  BY <1>1 DEF IInv, OpenBatch, Asks
<1>5. NothingOpen'
  BY <1>1 DEF IInv, NothingOpen, Asks
<1>6. OkFits'
  BY <1>1 DEF IInv, OkFits, ctxVars
<1>7. CallsSettled' /\ ResultsAsked'
  BY <1>1, <1>2 DEF IInv, CallsSettled, ResultsAsked
<1>8. LengthBound'
  <2>1. CASE pc' = pc
    BY <1>1, <2>1 DEF IInv, LengthBound, Said
  <2>2. CASE \/ pc = "turn" /\ pc' = "reclaim"
             \/ pc = "reclaim" /\ pc' = "llm"
             \/ pc = "tools" /\ pc' = "push"
             \/ pc = "prompt" /\ pc' = "exited"
    BY <1>1, <2>2 DEF IInv, LengthBound, Said, InChat
  <2> QED BY <2>1, <2>2
<1> QED BY <1>1, <1>3, <1>4, <1>5, <1>6, <1>7, <1>8 DEF IInv

(* All results are in the history: the batch is answered.                  *)
LEMMA NextTurnPreserves == ASSUME IInv, NextTurn PROVE IInv'
<1>1. /\ pc = "push" /\ pc' = "turn" /\ pushed = asked /\ turn' = turn + 1
      /\ asked' = 0 /\ pushed' = 0 /\ chat' = chat /\ UNCHANGED ctxVars
  BY DEF NextTurn
<1>2. /\ HistoryType' /\ UNCHANGED <<history, at, result>> /\ Exceeded' = Exceeded
      /\ \A i \in 1 .. Len(history) : (Asks(i)' <=> Asks(i)) /\ (Answered(i)' <=> Answered(i))
  BY <1>1, QuietKeeps
<1>3. /\ Len(history) \in Nat /\ pushed \in Nat /\ asked \in Nat /\ asked >= 1 /\ asked <= MaxCalls
      /\ turn \in Nat /\ turn < MaxTurns /\ chat \in Nat /\ chat >= 1 /\ chat <= MaxChats
  BY <1>1, Messages, Bounds DEF IInv, CountersType, CountersByPlace, InChat
<1> DEFINE b == Len(history) - pushed
<1>4. /\ b \in 1 .. Len(history) /\ b + asked = Len(history) /\ Asks(b)
      /\ history[b].tag = <<chat, turn, asked>>
      /\ \A k \in 1 .. asked : /\ history[b + k].role = "tool"
                               /\ history[b + k].tag = <<chat, turn, k>>
  <2>1. /\ pushed < Len(history) /\ Asks(b) /\ history[b].tag = <<chat, turn, asked>>
        /\ \A k \in 1 .. pushed : /\ history[b + k].role = "tool"
                                  /\ history[b + k].tag = <<chat, turn, k>>
    BY <1>1 DEF IInv, OpenBatch
  <2>2. b \in 1 .. Len(history) /\ b + pushed = Len(history)
    BY <1>3, <2>1
  <2> HIDE DEF b
  <2> QED BY <1>1, <2>1, <2>2
<1>5. Answered(b)
  <2>1. \A k \in 1 .. asked : b + k <= Len(history)
    BY <1>3, <1>4
  <2> HIDE DEF b
  <2> QED BY <1>4, <2>1 DEF Answered
<1>6. CountersType' /\ CountersByPlace'
  <2>1. turn' \in 0 .. MaxTurns
    BY <1>1, <1>3, Bounds
  <2> QED BY <1>1, <2>1, Bounds DEF IInv, CountersType, CountersByPlace, InChat
<1>7. OpenBatch' /\ OkFits'
  BY <1>1, <1>2 DEF IInv, OpenBatch, OkFits
<1>8. NothingOpen'
  <2>1. history[Len(history)].role = "tool"
    <3>1. asked \in 1 .. asked
      BY <1>3
    <3> QED BY <1>4, <3>1
  <2> QED BY <1>1, <1>2, <2>1 DEF NothingOpen, Asks
<1>9. CallsSettled'
  BY <1>1, <1>2, <1>5 DEF IInv, CallsSettled
<1>10. ResultsAsked'
  <2>1. \A j \in 1 .. Len(history) :
           j > b => b \in 1 .. j - 1 /\ j <= b + history[b].tag[3]
    BY <1>3, <1>4
  <2>2. \A j \in 1 .. Len(history) : history[j].role = "tool" =>
           \E i \in 1 .. j - 1 : Asks(i) /\ j <= i + history[i].tag[3] /\ Answered(i)
    <3> SUFFICES ASSUME NEW j \in 1 .. Len(history), history[j].role = "tool"
                 PROVE  \E i \in 1 .. j - 1 : Asks(i) /\ j <= i + history[i].tag[3] /\ Answered(i)
      OBVIOUS
    <3>1. CASE j > b
      BY <1>4, <1>5, <2>1, <3>1
    <3>2. CASE ~(j > b)
      BY <3>2 DEF IInv, ResultsAsked
    <3> QED BY <3>1, <3>2
  <2>3. \A j \in 1 .. Len(history) : \A i \in 1 .. j - 1 : i \in 1 .. Len(history)
    BY <1>3
  <2> QED BY <1>1, <1>2, <2>2, <2>3 DEF ResultsAsked
<1>11. LengthBound'
  <2>1. Len(history) <= (chat - 1) * PerChat + 1 + turn * PerTurn + (1 + pushed)
    BY <1>1 DEF IInv, LengthBound, Said, InChat
  <2>2. (turn + 1) * PerTurn = turn * PerTurn + PerTurn /\ turn * PerTurn \in Nat
    BY <1>3, Bounds, Products
  <2>3. (chat - 1) * PerChat \in Nat
    BY <1>3, RoomInChat
  <2> DEFINE x == (chat - 1) * PerChat
  <2> DEFINE y == turn * PerTurn
  <2>4. Len(history) <= x + 1 + (y + PerTurn)
    <3>1. x \in Nat /\ y \in Nat /\ Len(history) <= x + 1 + y + (1 + pushed)
      BY <2>1, <2>2, <2>3
    <3> HIDE DEF x, y
    <3> QED BY <1>1, <1>3, <3>1, Bounds
  <2>5. Len(history) <= (chat - 1) * PerChat + 1 + (turn + 1) * PerTurn
    BY <2>2, <2>4
  <2>6. (chat - 1) * PerChat + 1 + (turn + 1) * PerTurn + 0
          = (chat - 1) * PerChat + 1 + (turn + 1) * PerTurn
    BY <2>2, <2>3, Bounds
  <2> QED BY <1>1, <1>2, <2>5, <2>6 DEF LengthBound, Said, InChat
<1> QED BY <1>2, <1>6, <1>7, <1>8, <1>9, <1>10, <1>11 DEF IInv

-----------------------------------------------------------------------------
(* ctx_push: what was said and answered before stays so.                   *)
LEMMA PushOne ==
  ASSUME IInv, NEW m \in Ctx!Message, Ctx!Push(m)
  PROVE  /\ HistoryType' /\ Keeps /\ at = "out" /\ at' = "out" /\ result' = "none"
         /\ Len(history') = Len(history) + 1 /\ Len(history) \in Nat
         /\ history'[Len(history) + 1] = m
         /\ \A i \in 1 .. Len(history) : history'[i] = history[i]
         /\ \A i \in 1 .. Len(history') : i \in 1 .. Len(history) \/ i = Len(history) + 1
<1>1. /\ history' = Append(history, m) /\ at = "out" /\ at' = "out" /\ result' = "none"
      /\ nextId' = nextId /\ history \in Seq(Ctx!Message) /\ nextId \in Nat
  BY DEF Ctx!Push, IInv, HistoryType
<1>2. /\ history' \in Seq(Ctx!Message) /\ Len(history') = Len(history) + 1
      /\ history'[Len(history) + 1] = m /\ Len(history) \in Nat
      /\ \A i \in 1 .. Len(history) : history'[i] = history[i]
  BY <1>1, AppendProperties, LenProperties
<1>3. Keeps
  BY <1>2 DEF Keeps
<1> QED BY <1>1, <1>2, <1>3 DEF HistoryType

(* Whatever follows: what an earlier message still waits for is either the *)
(* message just said, or it goes on waiting.                               *)
LEMMA PushKeepsAnswers ==
  ASSUME IInv, NEW m \in Ctx!Message, Ctx!Push(m), NEW i \in 1 .. Len(history)
  PROVE  /\ Asks(i)' <=> Asks(i)
         /\ Answered(i) => Answered(i)'
         /\ i # Len(history) /\ history[i + 1].role = "user" => history'[i + 1].role = "user"
         /\ history'[i] = history[i]
<1>1. /\ HistoryType' /\ Keeps /\ Len(history) \in Nat
      /\ \A k \in 1 .. Len(history) : history'[k] = history[k]
  BY PushOne
<1>2. (Asks(i)' <=> Asks(i)) /\ (Answered(i) => Answered(i)')
  BY <1>1, AnsweredKept DEF IInv
<1>3. i # Len(history) => i + 1 \in 1 .. Len(history)
  BY <1>1
<1> QED BY <1>1, <1>2, <1>3

(* A result answered before a message was pushed is answered after.        *)
LEMMA PushKeepsResults ==
  ASSUME IInv, NEW m \in Ctx!Message, Ctx!Push(m), NEW j \in 1 .. Len(history),
         \E i \in 1 .. j - 1 : Asks(i) /\ j <= i + history[i].tag[3] /\ Answered(i)
  PROVE  \E i \in 1 .. j - 1 : Asks(i)' /\ j <= i + history'[i].tag[3] /\ Answered(i)'
<1>1. PICK i \in 1 .. j - 1 : Asks(i) /\ j <= i + history[i].tag[3] /\ Answered(i)
  OBVIOUS
<1>2. i \in 1 .. Len(history)
  <2>1. Len(history) \in Nat
    BY PushOne
  <2> QED BY <1>1, <2>1
<1>3. Asks(i)' /\ Answered(i)' /\ history'[i] = history[i]
  BY <1>1, <1>2, PushKeepsAnswers
<1> QED BY <1>1, <1>3

LEMMA UserTypesPreserves == ASSUME IInv, UserTypes PROVE IInv'
<1> DEFINE m == Message("user", <<chat + 1, 0, 0>>, "short")
<1>1. /\ pc = "prompt" /\ pc' = "turn" /\ chat < MaxChats /\ chat' = chat + 1 /\ turn' = 0
      /\ Ctx!Push(m) /\ UNCHANGED <<asked, pushed>>
  BY DEF UserTypes
<1>2. /\ chat \in Nat /\ chat' \in 1 .. MaxChats /\ pushed = 0
      /\ asked \in 0 .. MaxCalls /\ MaxTurns \in Nat /\ MaxCalls \in Nat
  BY <1>1, Bounds DEF IInv, CountersType, CountersByPlace
<1>3. m \in Ctx!Message /\ m.role = "user"
  <2>1. <<chat + 1, 0, 0>> \in Tag
    BY <1>1, <1>2 DEF Tag
  <2> QED BY <2>1 DEF Message, Ctx!Message, Ctx!Roles, Ctx!Sizes
<1> HIDE DEF m
<1>4. /\ HistoryType' /\ result' = "none" /\ at' = "out"
      /\ Len(history') = Len(history) + 1 /\ Len(history) \in Nat
      /\ history'[Len(history) + 1] = m
      /\ \A i \in 1 .. Len(history') : i \in 1 .. Len(history) \/ i = Len(history) + 1
  BY <1>1, <1>3, PushOne
<1>5. /\ \A i \in 1 .. Len(history) :
            /\ Asks(i)' <=> Asks(i)
            /\ Answered(i) => Answered(i)'
            /\ i # Len(history) /\ history[i + 1].role = "user" => history'[i + 1].role = "user"
            /\ history'[i] = history[i]
  BY <1>1, <1>3, PushKeepsAnswers
<1>6. CountersType' /\ CountersByPlace'
  BY <1>1, <1>2 DEF IInv, CountersType, CountersByPlace, InChat
<1>7. OpenBatch' /\ OkFits'
  BY <1>1, <1>4 DEF OpenBatch, OkFits
<1>8. NothingOpen'
  BY <1>1, <1>3, <1>4 DEF NothingOpen, Asks
<1>9. CallsSettled'
  <2> SUFFICES ASSUME NEW i \in 1 .. Len(history'), Asks(i)'
               PROVE  Answered(i)' \/ i = Len(history') \/ history'[i + 1].role = "user"
    BY DEF CallsSettled
  <2>1. CASE i \in 1 .. Len(history)
    <3>1. Asks(i) /\ (i = Len(history) => history'[i + 1].role = "user")
      BY <1>3, <1>4, <1>5, <2>1
    <3> QED BY <1>1, <1>5, <2>1, <3>1 DEF IInv, CallsSettled
  <2>2. CASE i = Len(history) + 1
    BY <1>4, <2>2
  <2> QED BY <1>4, <2>1, <2>2
<1>10. ResultsAsked'
  <2> SUFFICES ASSUME NEW j \in 1 .. Len(history'), history'[j].role = "tool"
               PROVE  \E i \in 1 .. j - 1 :
                         Asks(i)' /\ j <= i + history'[i].tag[3] /\ Answered(i)'
    BY DEF ResultsAsked
  <2>1. j \in 1 .. Len(history)
    BY <1>3, <1>4
  <2>2. history[j].role = "tool"
    BY <1>5, <2>1
  <2>3. \E i \in 1 .. j - 1 : Asks(i) /\ j <= i + history[i].tag[3] /\ Answered(i)
    BY <1>1, <2>1, <2>2 DEF IInv, ResultsAsked
  <2> QED BY <1>1, <1>3, <2>1, <2>3, PushKeepsResults
<1>11. LengthBound'
  <2>1. Len(history) <= chat * PerChat
    BY <1>1 DEF IInv, LengthBound, Said, InChat
  <2>2. (chat + 1) - 1 = chat /\ 0 * PerTurn = 0
    BY <1>2, Bounds
  <2>3. chat * PerChat \in Nat
    <3>1. PerChat \in Nat
      BY RoomInChat, 0 \in Nat, 1 \in Nat, 1 >= 1
    <3> QED BY <3>1, <1>2, Products
  <2>4. Len(history') <= chat * PerChat + 1 + 0 + 0
    BY <1>4, <2>1, <2>3
  <2> QED BY <1>1, <2>2, <2>4 DEF LengthBound, Said, InChat
<1> QED BY <1>4, <1>6, <1>7, <1>8, <1>9, <1>10, <1>11 DEF IInv

(* The model asks for tools: nothing else is waiting for an answer.        *)
LEMMA LlmAsksPreserves == ASSUME IInv, LlmAsks PROVE IInv'
<1>1. PICK n \in 1 .. MaxCalls, size \in {"short", "long"} :
         Ctx!Push(Message("assistant", <<chat, turn, n>>, size)) /\ asked' = n
  BY DEF LlmAsks
<1> DEFINE m == Message("assistant", <<chat, turn, n>>, size)
<1>2. /\ pc = "llm" /\ pc' = "tools" /\ UNCHANGED <<chat, turn, pushed>>
      /\ Ctx!Push(m) /\ asked' = n
  BY <1>1 DEF LlmAsks
<1>3. /\ chat \in 1 .. MaxChats /\ turn \in 0 .. MaxTurns /\ turn < MaxTurns /\ pushed = 0
      /\ n \in Nat /\ n >= 1 /\ n <= MaxCalls /\ MaxCalls \in Nat
  BY <1>2, Bounds DEF IInv, CountersType, CountersByPlace, InChat
<1>4. m \in Ctx!Message /\ m.role = "assistant" /\ m.tag = <<chat, turn, n>>
  <2>1. <<chat, turn, n>> \in Tag
    BY <1>3 DEF Tag
  <2> QED BY <2>1 DEF Message, Ctx!Message, Ctx!Roles, Ctx!Sizes
<1> HIDE DEF m
<1>5. /\ HistoryType' /\ result' = "none" /\ at' = "out"
      /\ Len(history') = Len(history) + 1 /\ Len(history) \in Nat
      /\ history'[Len(history) + 1] = m
      /\ \A i \in 1 .. Len(history') : i \in 1 .. Len(history) \/ i = Len(history) + 1
  BY <1>2, <1>4, PushOne
<1>6. \A i \in 1 .. Len(history) :
            /\ Asks(i)' <=> Asks(i)
            /\ Answered(i) => Answered(i)'
            /\ i # Len(history) /\ history[i + 1].role = "user" => history'[i + 1].role = "user"
            /\ history'[i] = history[i]
  BY <1>2, <1>4, PushKeepsAnswers
<1>7. CountersType' /\ CountersByPlace'
  BY <1>2, <1>3 DEF IInv, CountersType, CountersByPlace, InChat
<1>8. OpenBatch'
  <2>1. Len(history') - pushed' = Len(history) + 1 /\ pushed' < Len(history')
    BY <1>2, <1>3, <1>5
  <2>2. 1 .. pushed' = {}
    BY <1>2, <1>3
  <2> QED BY <1>2, <1>4, <1>5, <2>1, <2>2 DEF OpenBatch, Asks
<1>9. NothingOpen' /\ OkFits'
  BY <1>2, <1>5 DEF NothingOpen, OkFits
<1>10. CallsSettled'
  <2> SUFFICES ASSUME NEW i \in 1 .. Len(history'), Asks(i)'
               PROVE  Answered(i)' \/ i = Len(history') \/ history'[i + 1].role = "user"
    BY DEF CallsSettled
  <2>1. CASE i \in 1 .. Len(history)
    <3>1. Asks(i) /\ i # Len(history)
      BY <1>2, <1>5, <1>6, <2>1 DEF IInv, NothingOpen
    <3> QED BY <1>2, <1>6, <2>1, <3>1 DEF IInv, CallsSettled
  <2>2. CASE i = Len(history) + 1
    BY <1>5, <2>2
  <2> QED BY <1>5, <2>1, <2>2
<1>11. ResultsAsked'
  <2> SUFFICES ASSUME NEW j \in 1 .. Len(history'), history'[j].role = "tool"
               PROVE  \E i \in 1 .. j - 1 :
                         Asks(i)' /\ j <= i + history'[i].tag[3] /\ Answered(i)'
    BY DEF ResultsAsked
  <2>1. j \in 1 .. Len(history)
    BY <1>4, <1>5
  <2>2. history[j].role = "tool"
    BY <1>6, <2>1
  <2>3. \E i \in 1 .. j - 1 : Asks(i) /\ j <= i + history[i].tag[3] /\ Answered(i)
    BY <1>2, <2>1, <2>2 DEF IInv, ResultsAsked
  <2> QED BY <1>2, <1>4, <2>1, <2>3, PushKeepsResults
<1>12. LengthBound'
  <2> DEFINE x == (chat - 1) * PerChat + 1 + turn * PerTurn
  <2>1. x \in Nat
    <3>1. chat \in Nat /\ chat >= 1 /\ turn \in Nat
      BY <1>3, Bounds
    <3>2. (chat - 1) * PerChat \in Nat /\ turn * PerTurn \in Nat
      BY <3>1, RoomInChat
    <3> QED BY <3>2
  <2>2. Len(history) <= x + 0
    BY <1>2 DEF IInv, LengthBound, Said, InChat
  <2>3. Len(history') <= x + (1 + pushed')
    <3> HIDE DEF x
    <3> QED BY <1>2, <1>3, <1>5, <2>1, <2>2
  <2> QED BY <1>2, <2>3 DEF LengthBound, Said, InChat
<1> QED BY <1>5, <1>7, <1>8, <1>9, <1>10, <1>11, <1>12 DEF IInv

(* One more result follows the ones that are there.                        *)
LEMMA PushResultPreserves == ASSUME IInv, PushResult PROVE IInv'
<1>1. PICK size \in {"short", "long"} :
         Ctx!Push(Message("tool", <<chat, turn, pushed + 1>>, size))
  BY DEF PushResult
<1> DEFINE m == Message("tool", <<chat, turn, pushed + 1>>, size)
<1> DEFINE b == Len(history) - pushed
<1>2. /\ pc = "push" /\ pc' = "push" /\ pushed < asked /\ pushed' = pushed + 1
      /\ UNCHANGED <<chat, turn, asked>> /\ Ctx!Push(m)
  BY <1>1 DEF PushResult
<1>3. /\ chat \in 1 .. MaxChats /\ turn \in 0 .. MaxTurns /\ turn < MaxTurns
      /\ pushed \in Nat /\ asked \in 0 .. MaxCalls /\ MaxCalls \in Nat
      /\ pushed + 1 \in 0 .. MaxCalls /\ pushed' \in 0 .. asked
  BY <1>2, Bounds DEF IInv, CountersType, CountersByPlace, InChat
<1>4. m \in Ctx!Message /\ m.role = "tool" /\ m.tag = <<chat, turn, pushed + 1>>
  <2>1. <<chat, turn, pushed + 1>> \in Tag
    BY <1>3 DEF Tag
  <2> QED BY <2>1 DEF Message, Ctx!Message, Ctx!Roles, Ctx!Sizes
<1> HIDE DEF m
<1>5. /\ HistoryType' /\ result' = "none" /\ at' = "out"
      /\ Len(history') = Len(history) + 1 /\ Len(history) \in Nat
      /\ history'[Len(history) + 1] = m
      /\ \A i \in 1 .. Len(history') : i \in 1 .. Len(history) \/ i = Len(history) + 1
  BY <1>2, <1>4, PushOne
<1>6. \A i \in 1 .. Len(history) :
            /\ Asks(i)' <=> Asks(i)
            /\ Answered(i) => Answered(i)'
            /\ i # Len(history) /\ history[i + 1].role = "user" => history'[i + 1].role = "user"
            /\ history'[i] = history[i]
  BY <1>2, <1>4, PushKeepsAnswers
<1>7. CountersType' /\ CountersByPlace'
  BY <1>2, <1>3 DEF IInv, CountersType, CountersByPlace, InChat
<1>8. /\ pushed < Len(history) /\ Asks(b) /\ history[b].tag = <<chat, turn, asked>>
      /\ \A k \in 1 .. pushed : history[b + k].role = "tool" /\ history[b + k].tag = <<chat, turn, k>>
  BY <1>2 DEF IInv, OpenBatch
<1>9. /\ b \in 1 .. Len(history) /\ b + pushed = Len(history)
      /\ b = Len(history') - pushed' /\ b + (pushed + 1) = Len(history) + 1
      /\ pushed' < Len(history')
      /\ \A k \in 1 .. pushed' : k \in 1 .. pushed \/ k = pushed + 1
      /\ \A k \in 1 .. pushed : b + k \in 1 .. Len(history)
  BY <1>2, <1>3, <1>5, <1>8
<1>10. OpenBatch'
  <2> HIDE DEF b
  <2>1. history'[b].role = "assistant" /\ history'[b].tag = <<chat, turn, asked>>
    BY <1>6, <1>8, <1>9 DEF Asks
  <2>2. \A k \in 1 .. pushed' :
           history'[b + k].role = "tool" /\ history'[b + k].tag = <<chat, turn, k>>
    <3> TAKE k \in 1 .. pushed'
    <3>1. CASE k \in 1 .. pushed
      BY <1>6, <1>8, <1>9, <3>1
    <3>2. CASE k = pushed + 1
      BY <1>4, <1>5, <1>9, <3>2
    <3> QED BY <1>9, <3>1, <3>2
  <2> QED BY <1>2, <1>9, <2>1, <2>2 DEF OpenBatch, Asks
<1>11. NothingOpen' /\ OkFits'
  BY <1>2, <1>5 DEF NothingOpen, OkFits
<1>12. CallsSettled'
  <2> SUFFICES ASSUME NEW i \in 1 .. Len(history'), Asks(i)'
               PROVE  \/ Answered(i)' \/ i = Len(history') \/ history'[i + 1].role = "user"
                      \/ i = Len(history') - pushed'
    BY <1>2 DEF CallsSettled
  <2>1. i # Len(history) + 1
    BY <1>4, <1>5 DEF Asks
  <2>2. i \in 1 .. Len(history) /\ Asks(i)
    BY <1>5, <1>6, <2>1
  <2>3. i = Len(history) => i = b
    <3>1. CASE pushed = 0
      BY <1>9, <1>5, <3>1
    <3>2. CASE pushed # 0
      <4>1. pushed \in 1 .. pushed
        BY <1>3, <3>2
      <4>2. history[Len(history)].role = "tool"
        BY <4>1, <1>8, <1>9
      <4> QED BY <4>2, <2>2 DEF Asks
    <3> QED BY <3>1, <3>2
  <2>4. Answered(i) \/ i = Len(history) \/ history[i + 1].role = "user" \/ i = b
    BY <2>2, <1>2 DEF IInv, CallsSettled
  <2> QED BY <1>6, <1>9, <2>2, <2>3, <2>4
<1>13. ResultsAsked'
  <2> SUFFICES ASSUME NEW j \in 1 .. Len(history'), history'[j].role = "tool",
                      ~(j > Len(history') - pushed')
               PROVE  \E i \in 1 .. j - 1 :
                         Asks(i)' /\ j <= i + history'[i].tag[3] /\ Answered(i)'
    BY <1>2 DEF ResultsAsked
  <2>1. j \in 1 .. Len(history) /\ ~(j > Len(history) - pushed)
    BY <1>3, <1>5, <1>9
  <2>2. history[j].role = "tool"
    BY <1>6, <2>1
  <2>3. \E i \in 1 .. j - 1 : Asks(i) /\ j <= i + history[i].tag[3] /\ Answered(i)
    BY <2>1, <2>2 DEF IInv, ResultsAsked
  <2> QED BY <1>2, <1>4, <2>1, <2>3, PushKeepsResults
<1>14. LengthBound'
  <2> DEFINE x == (chat - 1) * PerChat + 1 + turn * PerTurn
  <2>1. x \in Nat
    <3>1. chat \in Nat /\ chat >= 1 /\ turn \in Nat
      BY <1>3, Bounds
    <3>2. (chat - 1) * PerChat \in Nat /\ turn * PerTurn \in Nat
      BY <3>1, RoomInChat
    <3> QED BY <3>2
  <2>2. Len(history) <= x + (1 + pushed)
    BY <1>2 DEF IInv, LengthBound, Said, InChat
  <2>3. Len(history') <= x + (1 + pushed')
    <3> HIDE DEF x
    <3> QED BY <1>2, <1>3, <1>5, <2>1, <2>2
  <2> QED BY <1>2, <2>3 DEF LengthBound, Said, InChat
<1> QED BY <1>5, <1>7, <1>10, <1>11, <1>12, <1>13, <1>14 DEF IInv

(* A step of ctx_reclaim keeps every message, but for a content that moves *)
(* to a file, and says "ok" only of a history that fits.                   *)
LEMMA ReclaimKeeps ==
  ASSUME IInv, Ctx!ReclaimStep
  PROVE  /\ HistoryType' /\ Keeps /\ Len(history') = Len(history)
         /\ at' # "out" => result' = "none"
         /\ result' = "ok" => ~Exceeded'
<1>1. /\ history \in Seq(Ctx!Message) /\ nextId \in Nat /\ (at # "out" => result = "none")
  BY DEF IInv, HistoryType, OkFits
<1>2. ASSUME UNCHANGED history
      PROVE  Keeps /\ Len(history') = Len(history)
  BY <1>2, Messages DEF Keeps, IInv
<1>3. CASE Ctx!OffloadSkip
  BY <1>1, <1>2, <1>3 DEF Ctx!OffloadSkip, HistoryType
<1>4. CASE Ctx!OffloadOne
  <2>1. /\ at = "offload" /\ at' = at /\ result' = result /\ nextId' = nextId + 1
        /\ Ctx!Replaced(next)
    BY <1>4 DEF Ctx!OffloadOne, Ctx!Saved
  <2>2. /\ history' = [history EXCEPT ![next] =
                          [@ EXCEPT !.size = "offloaded", !.content = nextId]]
        /\ DOMAIN history = 1 .. Len(history) /\ Len(history) \in Nat
        /\ \A i \in 1 .. Len(history) : history[i] \in Ctx!Message
    BY <2>1, <1>1, LenProperties, ElementOfSeq DEF Ctx!Replaced
  <2>3. \A e \in Ctx!Message :
           LET f == [e EXCEPT !.size = "offloaded", !.content = nextId]
           IN  f \in Ctx!Message /\ f.role = e.role /\ f.tag = e.tag
    BY <1>1 DEF Ctx!Message, Ctx!Sizes
  <2>4. /\ DOMAIN history' = 1 .. Len(history)
        /\ history' = [i \in 1 .. Len(history) |-> history'[i]]
        /\ \A i \in 1 .. Len(history) :
              /\ history'[i] \in Ctx!Message
              /\ history'[i].role = history[i].role /\ history'[i].tag = history[i].tag
    BY <2>2, <2>3
  <2>5. history' \in Seq(Ctx!Message) /\ Len(history') = Len(history)
    <3>1. history' \in [1 .. Len(history) -> Ctx!Message]
      BY <2>4
    <3>2. history' \in Seq(Ctx!Message)
      BY <3>1, <2>2, SeqDef
    <3> QED BY <3>2, <2>2, <2>4, LenProperties
  <2> QED BY <1>1, <2>1, <2>2, <2>4, <2>5 DEF HistoryType, Keeps
<1>5. CASE Ctx!OffloadFails
  BY <1>1, <1>2, <1>5 DEF Ctx!OffloadFails, Ctx!Saved, HistoryType
<1>6. CASE Ctx!OffloadReturns
  BY <1>1, <1>2, <1>6 DEF Ctx!OffloadReturns, HistoryType
<1>7. CASE Ctx!ReclaimReturns
  <2>1. /\ at' = "out" /\ UNCHANGED <<history, nextId>>
        /\ result' = IF Exceeded THEN "exceeded" ELSE "ok"
    BY <1>7 DEF Ctx!ReclaimReturns, Ctx!Verdict, Exceeded
  <2>2. Exceeded' = Exceeded
    BY <2>1 DEF Exceeded, Ctx!Total
  <2> QED BY <1>1, <1>2, <2>1, <2>2 DEF HistoryType
<1> QED BY <1>3, <1>4, <1>5, <1>6, <1>7 DEF Ctx!ReclaimStep

LEMMA ReclaimsPreserves == ASSUME IInv, Reclaims PROVE IInv'
<1>1. pc = "reclaim" /\ Ctx!ReclaimStep /\ UNCHANGED <<pc, chat, turn, asked, pushed>>
  BY DEF Reclaims, agentVars
<1>2. /\ HistoryType' /\ Keeps /\ Len(history') = Len(history)
      /\ at' # "out" => result' = "none"
      /\ result' = "ok" => ~Exceeded'
  BY <1>1, ReclaimKeeps
<1>3. /\ Len(history) \in Nat
      /\ \A i \in 1 .. Len(history) :
            /\ Asks(i)' <=> Asks(i)
            /\ Answered(i)' <=> Answered(i)
            /\ history'[i].role = history[i].role /\ history'[i].tag = history[i].tag
  BY <1>2, AnsweredKept, Messages DEF IInv, Keeps
<1>4. CountersType' /\ CountersByPlace' /\ OpenBatch' /\ OkFits'
  BY <1>1, <1>2 DEF IInv, CountersType, CountersByPlace, OpenBatch, OkFits
<1>5. NothingOpen'
  <2>1. Len(history) > 0 => Len(history) \in 1 .. Len(history)
    BY <1>3
  <2> QED BY <1>1, <1>2, <1>3, <2>1 DEF IInv, NothingOpen, Asks
<1>6. CallsSettled'
  <2> SUFFICES ASSUME NEW i \in 1 .. Len(history), Asks(i)'
               PROVE  Answered(i)' \/ i = Len(history) \/ history'[i + 1].role = "user"
    BY <1>2 DEF CallsSettled
  <2>1. i # Len(history) => i + 1 \in 1 .. Len(history)
    BY <1>3
  <2> QED BY <1>1, <1>3, <2>1 DEF IInv, CallsSettled
<1>7. ResultsAsked'
  <2> SUFFICES ASSUME NEW j \in 1 .. Len(history), history'[j].role = "tool"
               PROVE  \E i \in 1 .. j - 1 :
                         Asks(i)' /\ j <= i + history'[i].tag[3] /\ Answered(i)'
    BY <1>2 DEF ResultsAsked
  <2>1. PICK i \in 1 .. j - 1 : Asks(i) /\ j <= i + history[i].tag[3] /\ Answered(i)
    BY <1>1, <1>3 DEF IInv, ResultsAsked
  <2>2. i \in 1 .. Len(history)
    BY <1>3, <2>1
  <2> QED BY <1>3, <2>1, <2>2
<1>8. LengthBound'
  BY <1>1, <1>2 DEF IInv, LengthBound, Said, InChat
<1> QED BY <1>2, <1>4, <1>5, <1>6, <1>7, <1>8 DEF IInv

(* A new process has said nothing.                                         *)
LEMMA RestartPreserves == ASSUME IInv, Restart PROVE IInv'
<1>1. /\ history' = <<>> /\ nextId' = 0 /\ at' = "out" /\ result' = "none"
      /\ pc' = "prompt" /\ turn' = 0 /\ asked' = 0 /\ pushed' = 0 /\ chat' = chat
  BY DEF Restart, Ctx!Restart
<1>2. history' \in Seq(Ctx!Message) /\ Len(history') = 0
  BY <1>1, EmptySeq
<1>3. chat \in 0 .. MaxChats /\ chat \in Nat
  BY Bounds DEF IInv, CountersType
<1>4. HistoryType' /\ CountersType' /\ CountersByPlace'
  BY <1>1, <1>2, <1>3, Bounds DEF HistoryType, CountersType, CountersByPlace, InChat
<1>5. OpenBatch' /\ NothingOpen' /\ CallsSettled' /\ ResultsAsked' /\ OkFits'
  BY <1>1, <1>2 DEF OpenBatch, NothingOpen, CallsSettled, ResultsAsked, OkFits
<1>6. LengthBound'
  <2>1. PerChat \in Nat
    BY RoomInChat, 0 \in Nat, 1 \in Nat, 1 >= 1
  <2>2. chat * PerChat \in Nat
    BY <1>3, <2>1, Products
  <2>3. Len(history') <= chat' * PerChat
    BY <1>1, <1>2, <2>2
  <2> QED BY <1>1, <2>3 DEF LengthBound, Said, InChat
<1> QED BY <1>4, <1>5, <1>6 DEF IInv

LEMMA NextPreserves == IInv /\ [Next]_vars => IInv'
<1> SUFFICES ASSUME IInv, [Next]_vars PROVE IInv'
  OBVIOUS
<1>1. CASE UserTypes
  BY <1>1, UserTypesPreserves
<1>2. CASE ReclaimFirst
  BY <1>2, OnwardPreserves DEF ReclaimFirst, Ctx!ReclaimCalled
<1>3. CASE Reclaims
  BY <1>3, ReclaimsPreserves
<1>4. CASE Reclaimed
  <2>1. CASE result = "ok"
    BY <1>4, <2>1, OnwardPreserves DEF Reclaimed
  <2>2. CASE result # "ok"
    BY <1>4, <2>2, ReturnPreserves DEF Reclaimed
  <2> QED BY <2>1, <2>2
<1>5. CASE LlmFails
  BY <1>5, ReturnPreserves DEF LlmFails
<1>6. CASE LlmReplies
  BY <1>6, ReturnPreserves DEF LlmReplies
<1>7. CASE LlmAsks
  BY <1>7, LlmAsksPreserves
<1>8. CASE ToolsFail
  BY <1>8, ReturnPreserves DEF ToolsFail
<1>9. CASE ToolsRun
  BY <1>9, OnwardPreserves DEF ToolsRun
<1>10. CASE PushResult
  BY <1>10, PushResultPreserves
<1>11. CASE NextTurn
  BY <1>11, NextTurnPreserves
<1>12. CASE TurnsExceeded
  BY <1>12, ReturnPreserves DEF TurnsExceeded
<1>13. CASE Exit
  BY <1>13, OnwardPreserves DEF Exit
<1>14. CASE Restart
  BY <1>14, RestartPreserves
<1>15. CASE UNCHANGED vars
  BY <1>15, OnwardPreserves DEF vars, agentVars
<1> QED
  BY <1>1, <1>2, <1>3, <1>4, <1>5, <1>6, <1>7, <1>8, <1>9, <1>10, <1>11, <1>12, <1>13, <1>14,
     <1>15 DEF Next, ChatStep, Finished

LEMMA InvariantHolds == Spec => []IInv
<1> QED BY InitEstablishes, NextPreserves, PTL DEF Spec
-----------------------------------------------------------------------------
(* A batch of tool results is in the history all or not at all, right      *)
(* after the message that asks for it and in request order, whatever fails *)
(* in agent_chat and however many chats and restarts there are.            *)
THEOREM AllOrNone == Spec => []ResultsAllOrNone
<1>1. IInv => ResultsAllOrNone
  BY Messages DEF IInv, CallsSettled, ResultsAsked, ResultsAllOrNone
<1> QED BY <1>1, InvariantHolds, PTL

(* No request exceeds the context window: nothing is said between the last *)
(* test of ctx_reclaim and the request.                                    *)
THEOREM RequestsFit == Spec => []RequestFits
<1>1. IInv => RequestFits
  BY DEF IInv, OkFits, Exceeded, RequestFits
<1> QED BY <1>1, InvariantHolds, PTL

(* There is room in Context's history for whatever is said next: the bound *)
(* it was given is the most a process can say.                             *)
LEMMA RoomLeftToSpeak ==
  ASSUME IInv, \/ pc = "prompt" /\ chat < MaxChats
               \/ pc = "llm"
               \/ pc = "push" /\ pushed < asked
  PROVE  Len(history) < MaxChats * (1 + MaxTurns * (1 + MaxCalls))
<1>1. /\ Len(history) \in Nat /\ chat \in Nat /\ chat <= MaxChats /\ turn \in Nat
      /\ pushed \in Nat /\ asked \in Nat /\ asked <= MaxCalls
      /\ pc # "prompt" => chat >= 1 /\ turn < MaxTurns
      /\ pc = "llm" => pushed = 0
  BY Messages, Bounds DEF IInv, CountersType, CountersByPlace, InChat
<1>2. MaxChats * (1 + MaxTurns * (1 + MaxCalls)) = MaxChats * PerChat
  BY DEF PerChat, PerTurn
<1>3. CASE pc = "prompt"
  <2>1. Len(history) <= chat * PerChat /\ chat < MaxChats
    BY <1>3 DEF IInv, LengthBound, Said, InChat
  <2>2. chat + 1 \in Nat /\ chat + 1 >= 1 /\ (chat + 1) - 1 = chat /\ chat + 1 <= MaxChats
    BY <1>1, <2>1, Bounds
  <2> DEFINE x == chat * PerChat
  <2> DEFINE y == (chat + 1) * PerChat
  <2> DEFINE z == MaxChats * PerChat
  <2>3. /\ x \in Nat /\ y \in Nat /\ y = x + PerChat /\ PerChat \in Nat /\ PerChat >= 1
        /\ y <= z /\ Len(history) <= x
    BY <2>1, <2>2, RoomInChat
  <2>4. z \in Nat
    BY <2>3, Bounds, Products
  <2>5. Len(history) < z
    <3> HIDE DEF x, y, z
    <3> QED BY <1>1, <2>3, <2>4
  <2> QED BY <1>2, <2>5
<1>4. CASE pc \in {"llm", "push"}
  <2> DEFINE x == (chat - 1) * PerChat
  <2> DEFINE w == turn * PerTurn
  <2> DEFINE y == chat * PerChat
  <2> DEFINE z == MaxChats * PerChat
  <2>1. /\ pc = "llm" => Len(history) <= x + 1 + w + 0
        /\ pc = "push" => Len(history) <= x + 1 + w + (1 + pushed)
    BY <1>4 DEF IInv, LengthBound, Said, InChat
  <2>2. x \in Nat /\ w \in Nat /\ y \in Nat /\ PerChat \in Nat
    BY <1>1, <1>4, RoomInChat
  <2>3. x + 1 + w + PerTurn <= y /\ y <= z
    BY <1>1, <1>4, RoomInChat
  <2>4. z \in Nat
    BY <2>2, Bounds, Products
  <2>5. PerTurn = 1 + MaxCalls /\ MaxCalls \in Nat /\ MaxCalls >= 1
    BY Bounds
  <2>6. pc = "push" => pushed < asked
    BY <1>4
  <2>7. Len(history) < z
    <3> HIDE DEF x, y, z, w
    <3> QED BY <1>1, <1>4, <2>1, <2>2, <2>3, <2>4, <2>5, <2>6
  <2> QED BY <1>2, <2>7
<1> QED BY <1>3, <1>4

LEMMA PushesAreSaid ==
  ASSUME IInv, NEW m \in Sayable, Ctx!Push(m),
         \/ pc = "prompt" /\ chat < MaxChats
         \/ pc = "llm"
         \/ pc = "push" /\ pushed < asked
  PROVE  Ctx!Pushes
  BY RoomLeftToSpeak DEF Ctx!Pushes

(* Every step of the agent is a step of Context, or leaves it alone.       *)
LEMMA StepsOfContext == IInv /\ [Next]_vars => [Ctx!Next]_(Ctx!vars)
<1> SUFFICES ASSUME IInv, [Next]_vars PROVE Ctx!Next \/ UNCHANGED ctxVars
  BY DEF Ctx!vars, ctxVars
<1>1. /\ chat \in 0 .. MaxChats /\ turn \in 0 .. MaxTurns /\ asked \in 0 .. MaxCalls
      /\ pushed \in 0 .. asked
  BY DEF IInv, CountersType
<1>2. CASE UserTypes
  <2> DEFINE m == Message("user", <<chat + 1, 0, 0>>, "short")
  <2>1. Ctx!Push(m) /\ pc = "prompt" /\ chat < MaxChats
    BY <1>2 DEF UserTypes
  <2>2. m \in Sayable
    <3>1. <<chat + 1, 0, 0>> \in Tag
      BY <1>1, <2>1, Bounds DEF Tag
    <3> QED BY <3>1 DEF Sayable
  <2> HIDE DEF m
  <2>3. Ctx!Pushes
    BY <2>1, <2>2, PushesAreSaid
  <2> QED BY <2>3 DEF Ctx!Next
<1>3. CASE ReclaimFirst
  BY <1>3 DEF ReclaimFirst, Ctx!Next
<1>4. CASE Reclaims
  BY <1>4 DEF Reclaims, Ctx!Next
<1>5. CASE LlmAsks
  <2>1. PICK n \in 1 .. MaxCalls, size \in {"short", "long"} :
           Ctx!Push(Message("assistant", <<chat, turn, n>>, size))
    BY <1>5 DEF LlmAsks
  <2> DEFINE m == Message("assistant", <<chat, turn, n>>, size)
  <2>2. pc = "llm" /\ chat >= 1
    BY <1>5 DEF LlmAsks, IInv, CountersByPlace, InChat
  <2>3. m \in Sayable
    <3>1. <<chat, turn, n>> \in Tag
      BY <1>1, <2>1, <2>2, Bounds DEF Tag
    <3> QED BY <2>1, <3>1 DEF Sayable
  <2>4. Ctx!Push(m)
    BY <2>1
  <2> HIDE DEF m
  <2>5. Ctx!Pushes
    BY <2>2, <2>3, <2>4, PushesAreSaid
  <2> QED BY <2>5 DEF Ctx!Next
<1>6. CASE PushResult
  <2>1. PICK size \in {"short", "long"} :
           Ctx!Push(Message("tool", <<chat, turn, pushed + 1>>, size))
    BY <1>6 DEF PushResult
  <2> DEFINE m == Message("tool", <<chat, turn, pushed + 1>>, size)
  <2>2. pc = "push" /\ pushed < asked /\ chat >= 1
    BY <1>6 DEF PushResult, IInv, CountersByPlace, InChat
  <2>3. m \in Sayable
    <3>1. <<chat, turn, pushed + 1>> \in Tag
      BY <1>1, <2>2, Bounds DEF Tag
    <3> QED BY <2>1, <3>1 DEF Sayable
  <2>4. Ctx!Push(m)
    BY <2>1
  <2> HIDE DEF m
  <2>5. Ctx!Pushes
    BY <2>2, <2>3, <2>4, PushesAreSaid
  <2> QED BY <2>5 DEF Ctx!Next
<1>7. CASE Restart
  BY <1>7 DEF Restart, Ctx!Next
<1>8. CASE \/ Reclaimed \/ LlmFails \/ LlmReplies \/ ToolsFail \/ ToolsRun \/ NextTurn
           \/ TurnsExceeded \/ Exit \/ Finished \/ UNCHANGED vars
  BY <1>8 DEF Reclaimed, LlmFails, LlmReplies, ToolsFail, ToolsRun, NextTurn, TurnsExceeded,
              Exit, Finished, vars
<1> QED
  BY <1>2, <1>3, <1>4, <1>5, <1>6, <1>7, <1>8 DEF Next, ChatStep

(* What Context says of its history, its files and its placeholders it     *)
(* says of the agent's: whatever agent_chat and the REPL do to the history *)
(* is what Context lets them do, and the bound on its messages, which is   *)
(* computed from the agent's, never stands in the way.                     *)
THEOREM FollowsContext == Spec => ContextSpec
<1>1. Init => Ctx!Init
  BY DEF Init
<1>2. IInv /\ [Next]_vars => [Ctx!Next]_(Ctx!vars)
  BY StepsOfContext
<1> QED BY <1>1, <1>2, InvariantHolds, PTL DEF Spec, ContextSpec, Ctx!Spec
-----------------------------------------------------------------------------
(* A set of natural numbers has a least member.                            *)
LEMMA LeastNumber ==
  ASSUME NEW T \in SUBSET Nat, T # {}
  PROVE  \E n \in T : \A m \in T : n <= m
<1> DEFINE R == {ss \in Nat \X Nat : ss[1] < ss[2]}
<1>1. IsWellFoundedOn(R, Nat)
  BY NatLessThanWellFounded, Zenon DEF OpToRel
<1>2. PICK x \in T : \A y \in T : ~ (<<y, x>> \in R)
  BY <1>1, WFMin, Zenon
<1>3. x \in Nat /\ \A y \in T : y \in Nat
  OBVIOUS
<1>4. \A y \in T : x <= y
  <2> SUFFICES ASSUME NEW y \in T PROVE x <= y
    OBVIOUS
  <2>1. ~(<<y, x>> \in R)
    BY <1>2
  <2>2. ~(y < x)
    BY <1>3, <2>1
  <2> QED BY <1>3, <2>2
<1> QED BY <1>4

(* What begins at 0 and goes on from each number below n to the next, has  *)
(* all of them.                                                            *)
LEMMA CountingUp ==
  ASSUME NEW n \in Nat, NEW S, 0 \in S, \A k \in 1 .. n : k - 1 \in S => k \in S
  PROVE  0 .. n \subseteq S
<1> DEFINE T == (0 .. n) \ S
<1> SUFFICES ASSUME T # {} PROVE FALSE
  OBVIOUS
<1>1. PICK k \in T : \A m \in T : k <= m
  <2>1. T \in SUBSET Nat
    OBVIOUS
  <2> HIDE DEF T
  <2> QED BY <2>1, LeastNumber
<1>2. k \in 1 .. n /\ k \notin S
  OBVIOUS
<1>3. k - 1 \notin T
  BY <1>1, <1>2
<1> QED BY <1>2, <1>3

(* A function on the numbers up to n can be defined by what it is at 0 and *)
(* how each value comes from the one before.                               *)
LEMMA CountsExist ==
  ASSUME NEW n \in Nat, NEW step \in [(1 .. n) \X Int -> Int]
  PROVE  \E g \in [0 .. n -> Int] : g[0] = 0 /\ \A k \in 1 .. n : g[k] = step[<<k, g[k - 1]>>]
<1> DEFINE Upto(m, g) == g \in [0 .. m -> Int] /\ g[0] = 0
                           /\ \A k \in 1 .. m : g[k] = step[<<k, g[k - 1]>>]
           S == {m \in 0 .. n : \E g : Upto(m, g)}
<1>1. 0 \in S
  <2>1. Upto(0, [k \in 0 .. 0 |-> 0])
    OBVIOUS
  <2> HIDE DEF Upto
  <2> QED BY <2>1
<1>2. ASSUME NEW m \in 1 .. n, m - 1 \in S PROVE m \in S
  <2>1. PICK g : Upto(m - 1, g)
    BY <1>2
  <2> DEFINE h == [k \in 0 .. m |-> IF k = m THEN step[<<m, g[m - 1]>>] ELSE g[k]]
  <2>2. g \in [0 .. m - 1 -> Int] /\ g[m - 1] \in Int
    BY <2>1
  <2>3. step[<<m, g[m - 1]>>] \in Int
    BY <2>2
  <2>4. h \in [0 .. m -> Int] /\ h[0] = 0
    BY <2>1, <2>2, <2>3
  <2>5. ASSUME NEW k \in 1 .. m PROVE h[k] = step[<<k, h[k - 1]>>]
    <3>1. h[k - 1] = g[k - 1]
      BY <2>2
    <3>2. h[k] = IF k = m THEN step[<<m, g[m - 1]>>] ELSE g[k]
      OBVIOUS
    <3>3. k # m => g[k] = step[<<k, g[k - 1]>>]
      BY <2>1
    <3> HIDE DEF h
    <3> QED BY <3>1, <3>2, <3>3
  <2>6. Upto(m, h)
    BY <2>4, <2>5
  <2> HIDE DEF Upto, h
  <2> QED BY <2>6
<1> HIDE DEF Upto
<1>3. 0 .. n \subseteq S
  <2> HIDE DEF S
  <2> QED BY <1>1, <1>2, CountingUp
<1>4. PICK g : Upto(n, g)
  BY <1>3
<1> QED BY <1>4 DEF Upto

(* Where a run of bytes ends.                                              *)
LEMMA PastStops ==
  ASSUME NEW s \in Seq(Byte), NEW from \in 1 .. Len(s) + 1, NEW bytes
  PROVE  LET i == Past(s, from, bytes)
         IN /\ i \in from .. Len(s) + 1
            /\ \A k \in from .. i - 1 : s[k] \in bytes
            /\ i <= Len(s) => s[i] \notin bytes
<1> DEFINE T == {i \in from .. Len(s) + 1 : i <= Len(s) => s[i] \notin bytes}
           Ends(i) == /\ \A k \in from .. i - 1 : s[k] \in bytes
                      /\ i <= Len(s) => s[i] \notin bytes
<1>1. Len(s) + 1 \in T /\ T \in SUBSET Nat
  OBVIOUS
<1>2. PICK m \in T : \A k \in T : m <= k
  <2> HIDE DEF T
  <2> QED BY <1>1, LeastNumber
<1>3. ASSUME NEW k \in from .. m - 1 PROVE s[k] \in bytes
  BY <1>2
<1>4. m \in from .. Len(s) + 1 /\ Ends(m)
  BY <1>3
<1>5. Past(s, from, bytes) = CHOOSE i \in from .. Len(s) + 1 : Ends(i)
  BY DEF Past
<1> HIDE DEF Ends
<1>6. Past(s, from, bytes) \in from .. Len(s) + 1 /\ Ends(Past(s, from, bytes))
  BY <1>4, <1>5
<1> QED BY <1>6 DEF Ends

LEMMA PastIs ==
  ASSUME NEW s \in Seq(Byte), NEW from \in 1 .. Len(s) + 1, NEW bytes,
         NEW i \in from .. Len(s) + 1,
         \A k \in from .. i - 1 : s[k] \in bytes, i <= Len(s) => s[i] \notin bytes
  PROVE  Past(s, from, bytes) = i
<1> DEFINE p == Past(s, from, bytes)
<1>1. /\ p \in from .. Len(s) + 1
      /\ \A k \in from .. p - 1 : s[k] \in bytes
      /\ p <= Len(s) => s[p] \notin bytes
  BY PastStops
<1> HIDE DEF p
<1>2. ~(p < i) /\ ~(i < p)
  BY <1>1
<1> QED BY <1>1, <1>2 DEF p

(* The number of a numeral, digit by digit.                                *)
LEMMA CountedCounts ==
  ASSUME NEW s \in Seq(Byte)
  PROVE  LET n == Counted(s)
         IN /\ n[0] = 0 /\ \A k \in 0 .. Len(s) : n[k] \in Nat
            /\ \A k \in 1 .. Len(s) :
                  n[k] = IF s[k] \in Digit THEN 10 * n[k - 1] + s[k] - 48 ELSE n[k - 1]
<1> DEFINE step == [p \in (1 .. Len(s)) \X Int |->
                      IF s[p[1]] \in Digit THEN 10 * p[2] + s[p[1]] - 48 ELSE p[2]]
           At(g, k) == IF k = 0 THEN 0
                       ELSE IF s[k] \in Digit THEN 10 * g[k - 1] + s[k] - 48 ELSE g[k - 1]
           Eq(g) == g = [k \in 0 .. Len(s) |-> At(g, k)]
<1>1. \A k \in 1 .. Len(s) : s[k] \in Int
  <2>1. \A k \in 1 .. Len(s) : s[k] \in Byte
    OBVIOUS
  <2>2. \A b \in Byte : b \in Int
    BY DEF Byte
  <2> QED BY <2>1, <2>2
<1>2. Len(s) \in Nat /\ step \in [(1 .. Len(s)) \X Int -> Int]
  BY <1>1
<1>3. PICK g \in [0 .. Len(s) -> Int] :
          g[0] = 0 /\ \A k \in 1 .. Len(s) : g[k] = step[<<k, g[k - 1]>>]
  <2> HIDE DEF step
  <2> QED BY <1>2, CountsExist
<1>4. ASSUME NEW k \in 0 .. Len(s) PROVE g[k] = At(g, k)
  BY <1>2, <1>3
<1>5. Eq(g)
  <2>1. g = [k \in 0 .. Len(s) |-> g[k]]
    OBVIOUS
  <2> HIDE DEF At
  <2> QED BY <1>4, <2>1
<1> DEFINE d == Counted(s)
<1>6. d = CHOOSE f : Eq(f)
  BY DEF Counted
<1>7. Eq(d)
  <2> HIDE DEF Eq, d
  <2> QED BY <1>5, <1>6
<1> HIDE DEF d
<1>8. \A k \in 0 .. Len(s) : d[k] = At(d, k)
  <2>1. \A k \in 0 .. Len(s) : [j \in 0 .. Len(s) |-> At(d, j)][k] = At(d, k)
    OBVIOUS
  <2> HIDE DEF At
  <2> QED BY <1>7, <2>1
<1>9. d[0] = 0 /\ \A k \in 1 .. Len(s) :
          d[k] = IF s[k] \in Digit THEN 10 * d[k - 1] + s[k] - 48 ELSE d[k - 1]
  BY <1>2, <1>8
<1> HIDE DEF At, Eq
<1>10. 0 .. Len(s) \subseteq {k \in 0 .. Len(s) : d[k] \in Nat}
  <2> DEFINE S == {k \in 0 .. Len(s) : d[k] \in Nat}
  <2>1. 0 \in S
    BY <1>2, <1>9
  <2>2. ASSUME NEW k \in 1 .. Len(s), k - 1 \in S PROVE k \in S
    <3>1. d[k - 1] \in Nat /\ (s[k] \in Digit => s[k] - 48 \in Nat)
      BY <2>2 DEF Digit
    <3>2. d[k] = IF s[k] \in Digit THEN 10 * d[k - 1] + s[k] - 48 ELSE d[k - 1]
      BY <1>9
    <3>3. \A m \in Nat, b \in Int : b - 48 \in Nat => 10 * m + b - 48 \in Nat
      OBVIOUS
    <3>4. s[k] \in Int
      BY <1>1
    <3> QED BY <3>1, <3>2, <3>3, <3>4
  <2> HIDE DEF S
  <2>3. 0 .. Len(s) \subseteq S
    BY <1>2, <2>1, <2>2, CountingUp
  <2> QED BY <2>3 DEF S
<1> QED BY <1>9, <1>10 DEF d

(* What strtol has counted, byte by byte.                                  *)
LEMMA AccumulatedCounts ==
  ASSUME NEW s \in Seq(Byte), NEW from \in 1 .. Len(s) + 1
  PROVE  LET n == Accumulated(s, from)
         IN /\ n[0] = 0 /\ \A k \in 0 .. Len(s) : n[k] \in Nat
            /\ \A k \in 1 .. Len(s) :
                  n[k] = IF k < from THEN 0
                         ELSE IF n[k - 1] > LongMax + 1 \/ s[k] \notin Digit THEN n[k - 1]
                         ELSE 10 * n[k - 1] + s[k] - 48
<1> DEFINE step == [p \in (1 .. Len(s)) \X Int |->
                      IF p[1] < from THEN 0
                      ELSE IF p[2] > LongMax + 1 \/ s[p[1]] \notin Digit THEN p[2]
                      ELSE 10 * p[2] + s[p[1]] - 48]
           At(g, k) == IF k < from \/ k = 0 THEN 0
                       ELSE IF g[k - 1] > LongMax + 1 \/ s[k] \notin Digit THEN g[k - 1]
                       ELSE 10 * g[k - 1] + s[k] - 48
           Eq(g) == g = [k \in 0 .. Len(s) |-> At(g, k)]
<1>1. \A k \in 1 .. Len(s) : s[k] \in Int
  <2>1. \A k \in 1 .. Len(s) : s[k] \in Byte
    OBVIOUS
  <2>2. \A b \in Byte : b \in Int
    BY DEF Byte
  <2> QED BY <2>1, <2>2
<1>2. Len(s) \in Nat /\ step \in [(1 .. Len(s)) \X Int -> Int]
  BY <1>1
<1>3. PICK g \in [0 .. Len(s) -> Int] :
          g[0] = 0 /\ \A k \in 1 .. Len(s) : g[k] = step[<<k, g[k - 1]>>]
  <2> HIDE DEF step
  <2> QED BY <1>2, CountsExist
<1>4. ASSUME NEW k \in 0 .. Len(s) PROVE g[k] = At(g, k)
  <2>1. CASE k = 0
    BY <1>3, <2>1
  <2>2. CASE k \in 1 .. Len(s)
    <3>1. <<k, g[k - 1]>> \in (1 .. Len(s)) \X Int
      <4> HIDE DEF step, At, Eq
      <4>1. k - 1 \in 0 .. Len(s)
        BY <2>2
      <4>2. g[k - 1] \in Int
        BY <4>1
      <4> QED BY <2>2, <4>2
    <3>2. step[<<k, g[k - 1]>>] = At(g, k)
      BY <2>2, <3>1
    <3> QED BY <1>3, <2>2, <3>2
  <2> QED BY <1>2, <2>1, <2>2
<1>5. Eq(g)
  <2>1. g = [k \in 0 .. Len(s) |-> g[k]]
    OBVIOUS
  <2> HIDE DEF At
  <2> QED BY <1>4, <2>1
<1> DEFINE d == Accumulated(s, from)
<1>6. d = CHOOSE f : Eq(f)
  BY DEF Accumulated
<1>7. Eq(d)
  <2> HIDE DEF Eq, d
  <2> QED BY <1>5, <1>6
<1> HIDE DEF d
<1>8. \A k \in 0 .. Len(s) : d[k] = At(d, k)
  <2>1. \A k \in 0 .. Len(s) : [j \in 0 .. Len(s) |-> At(d, j)][k] = At(d, k)
    OBVIOUS
  <2> HIDE DEF At
  <2> QED BY <1>7, <2>1
<1>9. d[0] = 0 /\ \A k \in 1 .. Len(s) :
          d[k] = IF k < from THEN 0
                 ELSE IF d[k - 1] > LongMax + 1 \/ s[k] \notin Digit THEN d[k - 1]
                 ELSE 10 * d[k - 1] + s[k] - 48
  BY <1>2, <1>8
<1> HIDE DEF At, Eq
<1>10. 0 .. Len(s) \subseteq {k \in 0 .. Len(s) : d[k] \in Nat}
  <2> DEFINE S == {k \in 0 .. Len(s) : d[k] \in Nat}
  <2>1. 0 \in S
    BY <1>2, <1>9
  <2>2. ASSUME NEW k \in 1 .. Len(s), k - 1 \in S PROVE k \in S
    <3>1. d[k - 1] \in Nat /\ (s[k] \in Digit => s[k] - 48 \in Nat)
      BY <2>2 DEF Digit
    <3>2. d[k] = IF k < from THEN 0
                 ELSE IF d[k - 1] > LongMax + 1 \/ s[k] \notin Digit THEN d[k - 1]
                 ELSE 10 * d[k - 1] + s[k] - 48
      BY <1>9
    <3>3. \A m \in Nat, b \in Int : b - 48 \in Nat => 10 * m + b - 48 \in Nat
      OBVIOUS
    <3>4. s[k] \in Int
      BY <1>1
    <3> QED BY <3>1, <3>2, <3>3, <3>4
  <2> HIDE DEF S
  <2>3. 0 .. Len(s) \subseteq S
    BY <1>2, <2>1, <2>2, CountingUp
  <2> QED BY <2>3 DEF S
<1> QED BY <1>9, <1>10 DEF d

(* On the digits of a numeral strtol counts the same number as the         *)
(* reference, as long as it is in range, and tells when it is not.         *)
LEMMA CountsAgree ==
  ASSUME NEW s \in Seq(Byte), NEW from \in 1 .. Len(s) + 1,
         \A k \in 1 .. from - 1 : s[k] \notin Digit,
         \A k \in from .. Len(s) : s[k] \in Digit
  PROVE  LET a == Accumulated(s, from)[Len(s)]
             n == Counted(s)[Len(s)]
         IN /\ a \in Nat /\ n \in Nat
            /\ n <= LongMax + 1 => a = n
            /\ n > LongMax + 1 => a > LongMax + 1
<1> DEFINE a == Accumulated(s, from)
           n == Counted(s)
           S == {k \in 0 .. Len(s) : /\ k < from => n[k] = 0 /\ a[k] = 0
                                     /\ n[k] <= LongMax + 1 => a[k] = n[k]
                                     /\ n[k] > LongMax + 1 => a[k] > LongMax + 1}
<1>1. /\ a[0] = 0 /\ \A k \in 0 .. Len(s) : a[k] \in Nat
      /\ \A k \in 1 .. Len(s) :
            a[k] = IF k < from THEN 0
                   ELSE IF a[k - 1] > LongMax + 1 \/ s[k] \notin Digit THEN a[k - 1]
                   ELSE 10 * a[k - 1] + s[k] - 48
  BY AccumulatedCounts
<1>2. /\ n[0] = 0 /\ \A k \in 0 .. Len(s) : n[k] \in Nat
      /\ \A k \in 1 .. Len(s) :
            n[k] = IF s[k] \in Digit THEN 10 * n[k - 1] + s[k] - 48 ELSE n[k - 1]
  BY CountedCounts
<1> HIDE DEF a, n
<1>3. LongMax \in Nat /\ Len(s) \in Nat
  BY WidthAssumption
<1>4. 0 \in S
  BY <1>1, <1>2, <1>3
<1>5. ASSUME NEW k \in 1 .. Len(s), k - 1 \in S PROVE k \in S
  <2>1. CASE k < from
    <3>1. a[k] = 0 /\ n[k] = n[k - 1] /\ k - 1 < from
      BY <1>1, <1>2, <2>1
    <3> QED BY <1>3, <1>5, <2>1, <3>1
  <2>2. CASE ~(k < from)
    <3>1. s[k] \in Digit /\ n[k] = 10 * n[k - 1] + s[k] - 48 /\ s[k] \in 48 .. 57
      BY <1>2, <2>2 DEF Digit
    <3>2. a[k] = IF a[k - 1] > LongMax + 1 THEN a[k - 1] ELSE 10 * a[k - 1] + s[k] - 48
      BY <1>1, <2>2, <3>1
    <3>3. a[k - 1] \in Nat /\ n[k - 1] \in Nat
      BY <1>1, <1>2
    <3>4. CASE n[k - 1] <= LongMax + 1
      <4>1. a[k - 1] = n[k - 1] /\ a[k] = n[k]
        BY <1>3, <1>5, <3>1, <3>2, <3>3, <3>4
      <4>2. a[k] \in Nat
        BY <1>1
      <4> QED BY <1>3, <2>2, <4>1, <4>2
    <3>5. CASE n[k - 1] > LongMax + 1
      <4>1. a[k - 1] > LongMax + 1 /\ a[k] = a[k - 1]
        BY <1>3, <1>5, <3>2, <3>3, <3>5
      <4>2. n[k] > LongMax + 1
        <5>1. \A m, l \in Nat : \A c \in 48 .. 57 : m > l => 10 * m + c - 48 > l
          OBVIOUS
        <5>2. LongMax + 1 \in Nat
          BY <1>3
        <5> QED BY <3>1, <3>3, <3>5, <5>1, <5>2
      <4>3. a[k] \in Nat /\ n[k] \in Nat
        BY <1>1, <1>2
      <4>4. k \in 0 .. Len(s) /\ ~(k < from) /\ ~(n[k] <= LongMax + 1) /\ a[k] > LongMax + 1
        BY <1>3, <2>2, <4>1, <4>2, <4>3
      <4> HIDE <1>5
      <4> QED BY <4>4
    <3> QED BY <1>3, <3>3, <3>4, <3>5
  <2> QED BY <2>1, <2>2
<1>6. 0 .. Len(s) \subseteq S
  <2> HIDE DEF S
  <2> QED BY <1>3, <1>4, <1>5, CountingUp
<1>7. Len(s) \in S /\ a[Len(s)] \in Nat /\ n[Len(s)] \in Nat
  BY <1>1, <1>2, <1>3, <1>6
<1> QED BY <1>7 DEF a, n

(* How strtol reads a text, spelled out.                                   *)
First(s)  == Past(s, 1, Space)
Signed(s) == First(s) <= Len(s) /\ s[First(s)] \in Sign
From(s)   == IF Signed(s) THEN First(s) + 1 ELSE First(s)
End(s)    == Past(s, From(s), Digit)

LEMMA Scanned ==
  ASSUME NEW s \in Seq(Byte)
  PROVE  /\ First(s) \in 1 .. Len(s) + 1 /\ From(s) \in First(s) .. Len(s) + 1
         /\ From(s) <= First(s) + 1 /\ (Signed(s) <=> From(s) # First(s))
         /\ End(s) \in From(s) .. Len(s) + 1
         /\ \A k \in 1 .. First(s) - 1 : s[k] \in Space
         /\ \A k \in First(s) .. From(s) - 1 : s[k] \in Sign
         /\ \A k \in From(s) .. End(s) - 1 : s[k] \in Digit
<1>1. Len(s) \in Nat /\ 1 \in 1 .. Len(s) + 1
  OBVIOUS
<1>2. First(s) \in 1 .. Len(s) + 1 /\ \A k \in 1 .. First(s) - 1 : s[k] \in Space
  BY <1>1, PastStops DEF First
<1>3. /\ From(s) \in First(s) .. Len(s) + 1 /\ From(s) <= First(s) + 1
      /\ Signed(s) <=> From(s) # First(s)
      /\ \A k \in First(s) .. From(s) - 1 : s[k] \in Sign
  BY <1>1, <1>2 DEF From, Signed
<1>4. From(s) \in 1 .. Len(s) + 1
  BY <1>1, <1>2, <1>3
<1>5. End(s) \in From(s) .. Len(s) + 1 /\ \A k \in From(s) .. End(s) - 1 : s[k] \in Digit
  BY <1>4, PastStops DEF End
<1> QED BY <1>2, <1>3, <1>5

(* A numeral is what strtol uses to the end.                               *)
LEMMA NumeralIsUsed ==
  ASSUME NEW s \in Seq(Byte)
  PROVE  Numeral(s) <=> End(s) # From(s) /\ End(s) = Len(s) + 1
<1>1. ASSUME NEW i \in 0 .. Len(s), NEW j \in 0 .. Len(s), i <= j, j <= i + 1, j < Len(s),
             \A k \in 1 .. i : s[k] \in Space,
             \A k \in i + 1 .. j : s[k] \in Sign,
             \A k \in j + 1 .. Len(s) : s[k] \in Digit
      PROVE  End(s) # From(s) /\ End(s) = Len(s) + 1
  <2>1. Len(s) \in Nat /\ i + 1 \in 1 .. Len(s) /\ j + 1 \in 1 .. Len(s)
    BY <1>1
  <2>2. s[i + 1] \notin Space
    <3>1. s[i + 1] \in Sign \/ s[i + 1] \in Digit
      BY <1>1, <2>1
    <3>2. \A b \in Sign \cup Digit : b \notin Space
      BY DEF Sign, Digit, Space
    <3> QED BY <3>1, <3>2
  <2>3. First(s) = i + 1
    <3>1. 1 \in 1 .. Len(s) + 1 /\ i + 1 \in 1 .. Len(s) + 1
      BY <2>1
    <3>2. \A k \in 1 .. (i + 1) - 1 : s[k] \in Space
      BY <1>1
    <3> QED BY <2>2, <3>1, <3>2, PastIs DEF First
  <2>4. Signed(s) <=> j = i + 1
    <3>1. CASE j = i + 1
      BY <1>1, <2>1, <2>3, <3>1 DEF Signed
    <3>2. CASE j = i
      <4>1. s[i + 1] \in Digit
        BY <1>1, <2>1, <3>2
      <4> QED BY <2>3, <3>2, <4>1 DEF Signed, Sign, Digit
    <3> QED BY <1>1, <3>1, <3>2
  <2>5. From(s) = j + 1
    BY <1>1, <2>3, <2>4 DEF From
  <2>6. End(s) = Len(s) + 1
    <3>1. Len(s) + 1 \in From(s) .. Len(s) + 1 /\ From(s) \in 1 .. Len(s) + 1
      BY <2>1, <2>5
    <3>2. \A k \in From(s) .. (Len(s) + 1) - 1 : s[k] \in Digit
      BY <1>1, <2>1, <2>5
    <3>3. ~(Len(s) + 1 <= Len(s))
      BY <2>1
    <3> QED BY <3>1, <3>2, <3>3, PastIs DEF End
  <2> QED BY <2>1, <2>5, <2>6
<1>2. ASSUME End(s) # From(s), End(s) = Len(s) + 1 PROVE Numeral(s)
  <2> DEFINE i == First(s) - 1
             j == From(s) - 1
  <2>1. /\ i \in 0 .. Len(s) /\ j \in 0 .. Len(s) /\ i <= j /\ j <= i + 1 /\ j < Len(s)
        /\ \A k \in 1 .. i : s[k] \in Space
        /\ \A k \in i + 1 .. j : s[k] \in Sign
        /\ \A k \in j + 1 .. Len(s) : s[k] \in Digit
    BY <1>2, Scanned
  <2> HIDE DEF i, j
  <2> QED BY <2>1 DEF Numeral
<1> QED BY <1>1, <1>2 DEF Numeral

(* strtol gives a numeral the number it stands for, if that is in range.   *)
Negative(s) == \E k \in 1 .. Len(s) : s[k] = 45

LEMMA StrtolParts ==
  ASSUME NEW s \in Seq(Byte)
  PROVE  LET minus  == Signed(s) /\ s[First(s)] = 45
             number == Accumulated(s, From(s))[End(s) - 1]
             most   == IF minus THEN LongMax + 1 ELSE LongMax
             inside == IF number > most THEN most ELSE number
         IN Strtol(s) = IF End(s) = From(s) THEN [value |-> 0, erange |-> FALSE, used |-> 0]
                        ELSE [value |-> IF minus THEN -inside ELSE inside,
                              erange |-> number > most, used |-> End(s) - 1]
  BY DEF Strtol, First, Signed, From, End

LEMMA StrtolOfNumeral ==
  ASSUME NEW s \in Seq(Byte), Numeral(s)
  PROVE  LET p == Strtol(s)
             n == Counted(s)[Len(s)]
         IN /\ p.used = Len(s) /\ p.used # 0 /\ n \in Nat
            /\ Negative(s) => p.value \in Int /\ p.value <= 0
            /\ ~Negative(s) => /\ p.erange <=> n > LongMax
                               /\ n <= LongMax => p.value = n
<1> DEFINE minus  == Signed(s) /\ s[First(s)] = 45
           number == Accumulated(s, From(s))[End(s) - 1]
           most   == IF minus THEN LongMax + 1 ELSE LongMax
           inside == IF number > most THEN most ELSE number
           n      == Counted(s)[Len(s)]
<1>1. /\ First(s) \in 1 .. Len(s) + 1 /\ From(s) \in First(s) .. Len(s) + 1
      /\ From(s) <= First(s) + 1 /\ (Signed(s) <=> From(s) # First(s))
      /\ \A k \in 1 .. First(s) - 1 : s[k] \in Space
      /\ \A k \in First(s) .. From(s) - 1 : s[k] \in Sign
      /\ \A k \in From(s) .. End(s) - 1 : s[k] \in Digit
      /\ End(s) # From(s) /\ End(s) = Len(s) + 1 /\ Len(s) \in Nat
  BY Scanned, NumeralIsUsed
<1>2. \A k \in 1 .. From(s) - 1 : s[k] \notin Digit
  <2>1. \A b \in Space \cup Sign : b \notin Digit
    BY DEF Space, Sign, Digit
  <2>2. \A k \in 1 .. From(s) - 1 : s[k] \in Space \/ s[k] \in Sign
    BY <1>1
  <2> QED BY <2>1, <2>2
<1>3. /\ number \in Nat /\ n \in Nat
      /\ n <= LongMax + 1 => number = n
      /\ n > LongMax + 1 => number > LongMax + 1
  <2>1. End(s) - 1 = Len(s) /\ From(s) \in 1 .. Len(s) + 1
        /\ \A k \in From(s) .. Len(s) : s[k] \in Digit
    BY <1>1
  <2> QED BY <1>2, <2>1, CountsAgree
<1>4. minus <=> Negative(s)
  <2>1. ASSUME NEW k \in 1 .. Len(s), s[k] = 45 PROVE Signed(s) /\ First(s) = k
    <3>1. s[k] \notin Space /\ s[k] \notin Digit
      BY <2>1 DEF Space, Digit
    <3>2. ~(k <= First(s) - 1) /\ ~(From(s) <= k)
      BY <1>1, <2>1, <3>1
    <3> QED BY <1>1, <3>2
  <2>2. ASSUME minus PROVE Negative(s)
    BY <1>1, <2>2 DEF Negative, Signed
  <2>3. ASSUME Negative(s) PROVE minus
    BY <2>1, <2>3 DEF Negative
  <2> QED BY <2>2, <2>3
<1>5. Strtol(s) = [value |-> IF minus THEN -inside ELSE inside,
                   erange |-> number > most, used |-> End(s) - 1]
  BY <1>1, StrtolParts
<1> HIDE DEF minus, number, n
<1>6. LongMax \in Nat
  BY WidthAssumption
<1>7. Strtol(s).used = Len(s) /\ Strtol(s).used # 0
  BY <1>1, <1>5
<1>8. ASSUME minus PROVE Strtol(s).value \in Int /\ Strtol(s).value <= 0
  BY <1>3, <1>5, <1>6, <1>8
<1>9. ASSUME ~minus PROVE (Strtol(s).erange <=> n > LongMax) /\ (n <= LongMax => Strtol(s).value = n)
  <2>1. most = LongMax
    BY <1>9
  <2>2. (number > LongMax <=> n > LongMax) /\ (n <= LongMax => inside = n)
    BY <1>3, <1>6, <2>1
  <2> HIDE DEF inside, most
  <2>3. Strtol(s).erange = (number > most)
    BY <1>5
  <2>4. Strtol(s).value = inside
    BY <1>5, <1>9
  <2> QED BY <2>1, <2>2, <2>3, <2>4
<1> QED BY <1>3, <1>4, <1>7, <1>8, <1>9 DEF n

LEMMA StrtolTypes ==
  ASSUME NEW s \in Seq(Byte)
  PROVE  Strtol(s).value \in Int /\ (Strtol(s).used # 0 /\ Strtol(s).used = Len(s) => Numeral(s))
<1> DEFINE number == Accumulated(s, From(s))[End(s) - 1]
<1>1. /\ First(s) \in 1 .. Len(s) + 1 /\ From(s) \in First(s) .. Len(s) + 1
      /\ End(s) \in From(s) .. Len(s) + 1 /\ Len(s) \in Nat
  BY Scanned
<1>2. number \in Nat
  <2>1. From(s) \in 1 .. Len(s) + 1 /\ End(s) - 1 \in 0 .. Len(s)
    BY <1>1
  <2> QED BY <2>1, AccumulatedCounts
<1> HIDE DEF number
<1>3. LongMax \in Nat
  BY WidthAssumption
<1>4. CASE End(s) = From(s)
  BY <1>4, StrtolParts
<1>5. CASE End(s) # From(s)
  <2> DEFINE minus  == Signed(s) /\ s[First(s)] = 45
             most   == IF minus THEN LongMax + 1 ELSE LongMax
             inside == IF number > most THEN most ELSE number
  <2>1. Strtol(s) = [value |-> IF minus THEN -inside ELSE inside,
                     erange |-> number > most, used |-> End(s) - 1]
    BY <1>5, StrtolParts DEF number
  <2>2. inside \in Int
    BY <1>2, <1>3
  <2> HIDE DEF inside, minus
  <2>3. Strtol(s).value \in Int /\ Strtol(s).used = End(s) - 1
    BY <2>1, <2>2
  <2>4. End(s) - 1 = Len(s) => Numeral(s)
    BY <1>1, <1>5, NumeralIsUsed
  <2> QED BY <2>3, <2>4
<1> QED BY <1>4, <1>5

(* A long becomes an int: itself if it is one in range.                    *)
LEMMA AtoiWraps ==
  ASSUME NEW s, Strtol(s).value \in Int
  PROVE  /\ Atoi(s) \in Int /\ Atoi(s) <= IntMax
         /\ Strtol(s).value \in 0 .. IntMax => Atoi(s) = Strtol(s).value
<1> DEFINE v == Strtol(s).value
           m == 2 * IntMax + 2
           w == v % m
<1>1. v \in Int /\ IntMax \in Nat /\ m \in Nat \ {0}
  BY WidthAssumption
<1>2. Atoi(s) = IF w > IntMax THEN w - m ELSE w
  BY DEF Atoi
<1>3. w \in 0 .. m - 1
  <2> HIDE DEF v, m
  <2> QED BY <1>1
<1>4. ASSUME v \in 0 .. IntMax PROVE w = v
  <2>1. v < m
    BY <1>1, <1>4
  <2> HIDE DEF v, m
  <2> QED BY <1>1, <1>4, <2>1
<1> HIDE DEF v, w
<1>5. Atoi(s) \in Int /\ Atoi(s) <= IntMax
  BY <1>1, <1>2, <1>3
<1>6. ASSUME v \in 0 .. IntMax PROVE Atoi(s) = v
  BY <1>1, <1>2, <1>4, <1>6
<1> QED BY <1>5, <1>6 DEF v

(* A text is a sequence of bytes.                                          *)
LEMMA TextIsBytes == TextSpec => [](kind \in Kinds /\ text \in Seq(Byte))
<1> DEFINE I == kind \in Kinds /\ text \in Seq(Byte)
<1>1. TextInit => I
  BY DEF TextInit
<1>2. I /\ [Type]_textVars => I'
  <2> SUFFICES ASSUME I, [Type]_textVars PROVE I'
    OBVIOUS
  <2>1. CASE Type
    <3>1. PICK piece \in Pieces[kind] : text' = text \o piece
      BY <2>1 DEF Type
    <3>2. piece \in Seq(Byte)
      BY PiecesAssumption
    <3> QED BY <2>1, <3>1, <3>2 DEF Type
  <2>2. CASE UNCHANGED textVars
    BY <2>2 DEF textVars
  <2> QED BY <2>1, <2>2
<1> QED BY <1>1, <1>2, PTL DEF TextSpec

(* For every text and every width of int and long: the two readers of      *)
(* CONTEXT_WINDOW take a numeral in range for the number it stands for,    *)
(* config_init takes nothing else, and agent_create gets a positive window *)
(* from everything else.                                                   *)
THEOREM ReadersAgree == TextSpec => []WindowsAgree
<1>1. ASSUME text \in Seq(Byte) PROVE WindowsAgree
  <2> DEFINE n     == NumeralValue(text)
             count == Counted(text)[Len(text)]
             valid == Numeral(text) /\ n \in 1 .. MaxWindow
             p     == Strtol(text)
  <2>1. /\ MaxWindow \in Nat /\ IntMax \in Nat /\ LongMax \in Nat /\ DefaultWindow \in Nat
        /\ 0 < DefaultWindow /\ DefaultWindow <= MaxWindow
        /\ MaxWindow <= IntMax /\ IntMax < LongMax /\ Unset \notin Seq(Byte)
    BY WidthAssumption
  <2>2. text # Unset
    BY <1>1, <2>1
  <2>3. count \in Nat /\ n = IF Negative(text) THEN -count ELSE count
    BY <1>1, CountedCounts DEF NumeralValue, Negative
  <2>4. Numeral(text) =>
            /\ p.used = Len(text) /\ p.used # 0
            /\ Negative(text) => p.value \in Int /\ p.value <= 0
            /\ ~Negative(text) => /\ p.erange <=> count > LongMax
                                  /\ count <= LongMax => p.value = count
    BY <1>1, StrtolOfNumeral
  <2>5. p.value \in Int /\ (p.used # 0 /\ p.used = Len(text) => Numeral(text))
    BY <1>1, StrtolTypes
  <2>6. Atoi(text) \in Int /\ Atoi(text) <= IntMax
        /\ (p.value \in 0 .. IntMax => Atoi(text) = p.value)
    BY <2>5, AtoiWraps
  <2> DEFINE taken == ~p.erange /\ p.used # 0 /\ p.used = Len(text) /\ p.value \in 1 .. MaxWindow
  <2>7. ConfigWindow(text) = IF text # <<>> /\ taken THEN p.value ELSE DefaultWindow
    BY <2>2 DEF ConfigWindow, ParseEnvInt
  <2>8. taken => text # <<>>
    OBVIOUS
  <2>9. AgentWindow(text) = IF Atoi(text) > 0 THEN Atoi(text) ELSE DefaultWindow
    BY <2>2 DEF AgentWindow
  <2>10. ConfigWindow(Unset) = DefaultWindow /\ AgentWindow(Unset) = DefaultWindow
    BY DEF ConfigWindow, ParseEnvInt, AgentWindow
  <2>11. ASSUME valid PROVE taken /\ p.value = n
    <3> HIDE DEF n, count, p
    <3>1. ~Negative(text) /\ n = count
      BY <2>1, <2>3, <2>11
    <3>2. ~(count > LongMax) /\ count <= LongMax
      BY <2>1, <2>3, <2>11, <3>1
    <3> QED BY <2>4, <2>11, <3>1, <3>2
  <2>12. ASSUME taken PROVE valid
    <3> HIDE DEF n, count, p
    <3>1. Numeral(text) /\ ~Negative(text)
      BY <2>1, <2>4, <2>5, <2>12
    <3>2. count <= LongMax /\ p.value = count /\ n = count
      BY <2>1, <2>3, <2>4, <2>12, <3>1
    <3> QED BY <2>12, <3>1, <3>2
  <2> HIDE DEF n, count, p
  <2>13. ConfigWindow(text) = IF valid THEN n ELSE DefaultWindow
    BY <2>7, <2>8, <2>11, <2>12
  <2>14. AgentWindow(text) \in 1 .. IntMax
    BY <2>1, <2>6, <2>9
  <2>15. ASSUME valid PROVE AgentWindow(text) = n
    BY <2>1, <2>6, <2>9, <2>11, <2>15
  <2> QED BY <2>10, <2>13, <2>14, <2>15 DEF WindowsAgree, n
<1> QED BY <1>1, TextIsBytes, PTL
=============================================================================
