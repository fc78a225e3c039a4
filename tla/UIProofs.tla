------------------------------ MODULE UIProofs ------------------------------
(***************************************************************************)
(* For rings of every size, batches of every size and every way a chat can *)
(* fail: no wake-up is lost over the condition variable that the render    *)
(* thread and ui_idle share; and what ui_idle settles when no IDLE event   *)
(* of an earlier one was left, if the ring has room for the events of a    *)
(* batch.                                                                  *)
(***************************************************************************)
EXTENDS UI, FiniteSets, FiniteSetTheorems, SequenceTheorems, TLAPS

Event == {"thinking", "tools_start", "tool_done", "idle", "shutdown"}

RingType == events \in Seq(Event) /\ Len(events) < QueueSize

(* Only ui_idle sleeps, so whatever is posted to a sleeping render thread  *)
(* wakes it.                                                               *)
OnlyIdleBlocks == blocked => Awaiting

WakeUpInv == RingType /\ OnlyIdleBlocks /\ WakeUpIsPending
-----------------------------------------------------------------------------
SlotsType ==
    /\ slots \in Seq({"running", "done"}) /\ Len(slots) <= MaxSlots
    /\ todo \subseteq Nat \ {0}
    /\ main \in {"tools", "idleTools"} =>
          \A i \in 1 .. Len(slots) : slots[i] = "running" <=> i \in todo
    /\ main = "idleTools" => todo = {}

NoIdle(n) == \A j \in 1 .. n : events[j] # "idle"

Ended == {i \in 1 .. Len(slots) : slots[i] = "done"}

(* The first n events leave the render thread drawing the tools of the     *)
(* running batch: it does so already, or TOOLS_START is still among them,  *)
(* with no more than one event for every tool that has ended after it.     *)
ToolsWithin(n) ==
    \/ phase = "tools" /\ \A j \in 1 .. n : events[j] = "tool_done"
    \/ \E k \in 1 .. n : /\ events[k] = "tools_start"
                         /\ \A j \in k + 1 .. n : events[j] = "tool_done"
                         /\ n - k <= Cardinality(Ended)

(* IDLE is the last event of the ring, and no other.                       *)
IdleLast == Len(events) > 0 /\ events[Len(events)] = "idle" /\ NoIdle(Len(events) - 1)

(* How far the render thread can be behind, if the turn began with no IDLE *)
(* in the ring.                                                            *)
Following ==
    ~stale =>
        /\ main = "llm" =>
              /\ ~ack /\ NoIdle(Len(events))
              /\ IF events = <<>> THEN phase = "thinking" ELSE events[Len(events)] = "thinking"
        /\ main = "idleText" => (~ack /\ IdleLast) \/ Released
        /\ main = "print" => Released
        /\ main = "tools" => shown \/ (~ack /\ NoIdle(Len(events)) /\ ToolsWithin(Len(events)))
        /\ main = "idleTools" => shown \/ (~ack /\ IdleLast /\ ToolsWithin(Len(events) - 1))
        /\ main = "turn" => shown

IInv == RingType /\ SlotsType /\ Following
-----------------------------------------------------------------------------
(* What posting does to the ring: the newest event is last, and what is    *)
(* before it was there, but for the oldest if the ring was full.           *)
LEMMA PushedIs ==
  ASSUME RingType, NEW ev \in Event, events' = Pushed(ev)
  PROVE  /\ RingType' /\ Len(events) \in Nat /\ Len(events') \in Nat /\ Len(events') > 0
         /\ events'[Len(events')] = ev
         /\ \/ /\ Len(events') = Len(events) + 1
               /\ \A j \in 1 .. Len(events) : events'[j] = events[j]
            \/ /\ Len(events') = Len(events) /\ Len(events) = QueueSize - 1
               /\ \A j \in 2 .. Len(events) : events'[j - 1] = events[j]
<1> DEFINE n == Len(events)
<1>1. events \in Seq(Event) /\ n \in Nat /\ n < QueueSize /\ QueueSize \in Nat /\ QueueSize > 1
  BY LenProperties, SizeAssumption DEF RingType
<1>2. CASE n # QueueSize - 1
  <2>1. events' = Append(events, ev)
    BY <1>2 DEF Pushed
  <2>2. /\ events' \in Seq(Event) /\ Len(events') = n + 1 /\ events'[n + 1] = ev
        /\ \A j \in 1 .. n : events'[j] = events[j]
    BY <2>1, <1>1, AppendProperties
  <2> QED BY <1>1, <1>2, <2>2 DEF RingType
<1>3. CASE n = QueueSize - 1
  <2>1. events' = Append(Tail(events), ev)
    BY <1>3 DEF Pushed
  <2>2. /\ Tail(events) \in Seq(Event) /\ Len(Tail(events)) = n - 1
        /\ \A j \in 1 .. n - 1 : Tail(events)[j] = events[j + 1]
    BY <1>1, <1>3, HeadTailProperties, EmptySeq
  <2> DEFINE t == Tail(events)
  <2> HIDE DEF t
  <2>3. /\ t \in Seq(Event) /\ Len(t) = n - 1 /\ events' = Append(t, ev)
        /\ \A j \in 1 .. n - 1 : t[j] = events[j + 1]
    BY <2>1, <2>2 DEF t
  <2>4. /\ events' \in Seq(Event) /\ Len(events') = Len(t) + 1 /\ events'[Len(t) + 1] = ev
        /\ \A j \in 1 .. Len(t) : events'[j] = t[j]
    BY <2>3, AppendProperties
  <2>5. Len(events') = n /\ events'[n] = ev
    BY <1>1, <2>3, <2>4
  <2>6. \A j \in 2 .. n : events'[j - 1] = events[j]
    <3> TAKE j \in 2 .. n
    <3>1. j - 1 \in 1 .. n - 1 /\ (j - 1) + 1 = j
      BY <1>1
    <3> QED BY <2>3, <2>4, <3>1
  <2> QED BY <1>1, <1>3, <2>4, <2>5, <2>6 DEF RingType
<1> QED BY <1>2, <1>3

(* What taking an event does.                                              *)
LEMMA TakenIs ==
  ASSUME RingType, events # <<>>, events' = Tail(events)
  PROVE  /\ RingType' /\ Len(events) \in Nat /\ Len(events) > 0
         /\ Len(events') = Len(events) - 1 /\ Len(events') \in Nat
         /\ Head(events) = events[1]
         /\ \A j \in 1 .. Len(events') : events'[j] = events[j + 1]
         /\ Len(events) = 1 => events' = <<>>
<1>1. events \in Seq(Event) /\ Len(events) < QueueSize /\ QueueSize \in Nat
  BY SizeAssumption DEF RingType
<1>2. /\ events' \in Seq(Event) /\ Len(events') = Len(events) - 1
      /\ \A j \in 1 .. Len(events') : events'[j] = events[j + 1]
      /\ Head(events) = events[1]
  BY <1>1, HeadTailProperties
<1>3. Len(events) \in Nat /\ Len(events') \in Nat /\ Len(events) > 0
  BY <1>1, <1>2, LenProperties, EmptySeq
<1>4. Len(events) = 1 => events' = <<>>
  BY <1>2, EmptySeq
<1> QED BY <1>1, <1>2, <1>3, <1>4 DEF RingType
-----------------------------------------------------------------------------
LEMMA WakeUpInit == Init => WakeUpInv
<1>1. <<>> \in Seq(Event) /\ Len(<<>>) = 0 /\ 0 < QueueSize
  BY EmptySeq, SizeAssumption
<1> QED
  BY <1>1 DEF Init, WakeUpInv, RingType, OnlyIdleBlocks, WakeUpIsPending, Awaiting

(* Whoever posts is not blocked itself, so its one signal reaches the      *)
(* render thread if that sleeps.                                           *)
LEMMA PostWakes ==
  ASSUME WakeUpInv, NEW ev \in Event, Post(ev), ~Awaiting, main # "stopping",
         main' \in {"idleText", "idleTools"} => ev = "idle",
         main' = "stopping" => ev = "shutdown"
  PROVE  WakeUpInv'
<1>1. RingType /\ events' = Pushed(ev) /\ Signal /\ Unlocked /\ ~blocked
  BY DEF WakeUpInv, OnlyIdleBlocks, Post
<1>2. RingType' /\ Len(events') \in Nat /\ Len(events') > 0 /\ events'[Len(events')] = ev
  BY <1>1, PushedIs
<1>3. Contains(events', ev)
  BY <1>2 DEF Contains
<1>4. ~blocked' /\ render' # "waiting"
  BY <1>1 DEF Signal
<1> QED BY <1>2, <1>3, <1>4 DEF WakeUpInv, OnlyIdleBlocks, WakeUpIsPending, Awaiting

(* A round takes an event, and acknowledges if that is IDLE.               *)
LEMMA HandlingWakes ==
  ASSUME WakeUpInv, NEW ev \in Event, Handles(ev),
         \/ ev = "idle" /\ EnterIdle /\ UNCHANGED stop
         \/ ev = "shutdown" /\ stop' = TRUE /\ UNCHANGED <<ack, blocked>>
         \/ ev \notin {"idle", "shutdown"} /\ UNCHANGED <<stop, ack, blocked>>
  PROVE  WakeUpInv'
<1>1. /\ RingType /\ events # <<>> /\ Head(events) = ev /\ events' = Tail(events)
      /\ render = "draining" /\ render' = render /\ main' = main
  BY DEF WakeUpInv, Handles
<1>2. /\ RingType' /\ Len(events') = Len(events) - 1 /\ Len(events) \in Nat /\ Len(events) > 0
      /\ events[1] = ev /\ \A j \in 1 .. Len(events') : events'[j] = events[j + 1]
  BY <1>1, TakenIs
<1>3. ASSUME NEW e, Contains(events, e), e # ev PROVE Contains(events', e)
  <2>1. PICK k \in 1 .. Len(events) : events[k] = e
    BY <1>3 DEF Contains
  <2>2. k # 1
    BY <1>2, <1>3, <2>1
  <2>3. k - 1 \in 1 .. Len(events') /\ (k - 1) + 1 = k
    BY <1>2, <2>1, <2>2
  <2> QED BY <1>2, <2>1, <2>3 DEF Contains
<1>4. Awaiting => (ack' \/ Contains(events', "idle"))
  BY <1>3 DEF WakeUpInv, WakeUpIsPending, EnterIdle
<1>5. main = "stopping" => stop' \/ Contains(events', "shutdown")
  BY <1>1, <1>3 DEF WakeUpInv, WakeUpIsPending
<1>6. (blocked' => Awaiting) /\ (blocked' => ~ack')
  BY DEF WakeUpInv, OnlyIdleBlocks, WakeUpIsPending, EnterIdle
<1>7. Awaiting' <=> Awaiting
  BY <1>1 DEF Awaiting
<1> QED BY <1>1, <1>2, <1>4, <1>5, <1>6, <1>7 DEF WakeUpInv, OnlyIdleBlocks, WakeUpIsPending

LEMMA WakeUpNext == WakeUpInv /\ [Next]_vars => WakeUpInv'
<1> SUFFICES ASSUME WakeUpInv, [Next]_vars PROVE WakeUpInv'
  OBVIOUS
<1> USE DEF Event
<1>1. CASE BeginThinking
  BY <1>1, PostWakes DEF BeginThinking, Awaiting
<1>2. ASSUME NEW n \in BatchSizes, Announce(n) PROVE WakeUpInv'
  BY <1>2, PostWakes DEF Announce, UiBeginTools, Awaiting
<1>3. CASE BeginTools
  BY <1>3, PostWakes DEF BeginTools, UiBeginTools, Awaiting
<1>4. ASSUME NEW i \in todo, ToolDone(i) PROVE WakeUpInv'
  <2>1. CASE i <= Len(slots)
    BY <1>4, <2>1, PostWakes DEF ToolDone, Awaiting
  <2>2. CASE ~(i <= Len(slots))
    BY <1>4, <2>2 DEF ToolDone, WakeUpInv, RingType, OnlyIdleBlocks, WakeUpIsPending, Awaiting,
                      screen, Contains
  <2> QED BY <2>1, <2>2
<1>5. CASE IdlePosted
  BY <1>5, PostWakes DEF IdlePosted, Awaiting
<1>6. CASE IdleBlocks \/ IdleReturns \/ PrintReply \/ ChatFails \/ StopReturns
  BY <1>6 DEF IdleBlocks, IdleReturns, PrintReply, ChatFails, StopReturns, WakeUpInv, RingType,
              OnlyIdleBlocks, WakeUpIsPending, Awaiting, Contains
<1>7. CASE StopPosted
  BY <1>7, PostWakes DEF StopPosted, Awaiting
<1>8. CASE RenderSleeps \/ RenderWaitsFrame \/ RoundBegins \/ RenderExits \/ DrawsNoTools
           \/ SpuriousWakeup \/ UNCHANGED vars
  BY <1>8 DEF RenderSleeps, RenderWaitsFrame, RoundBegins, RenderExits, DrawsNoTools, Drained,
              SpuriousWakeup, WakeUpInv, RingType, OnlyIdleBlocks, WakeUpIsPending, Awaiting,
              Contains, vars
<1>9. CASE DrawsTools
  BY <1>9 DEF DrawsTools, Drained, EnterIdle, WakeUpInv, RingType, OnlyIdleBlocks,
              WakeUpIsPending, Awaiting, Contains
<1>10. CASE HandlesThinking
  BY <1>10, HandlingWakes DEF HandlesThinking
<1>11. CASE HandlesToolsStart
  BY <1>11, HandlingWakes DEF HandlesToolsStart
<1>12. CASE HandlesToolDone
  BY <1>12, HandlingWakes DEF HandlesToolDone
<1>13. CASE HandlesIdle
  BY <1>13, HandlingWakes DEF HandlesIdle
<1>14. CASE HandlesShutdown
  BY <1>14, HandlingWakes DEF HandlesShutdown
<1> QED
  BY <1>1, <1>2, <1>3, <1>4, <1>5, <1>6, <1>7, <1>8, <1>9, <1>10, <1>11, <1>12, <1>13, <1>14
  DEF Next, MainStep, RenderStep, Terminated

(* No wake-up is lost, for rings and batches of every size: although a     *)
(* full ring loses its oldest event and one condition variable with one    *)
(* signal serves both waiters, the event a thread waits for stays in the   *)
(* ring until it is handled.                                               *)
THEOREM NoWakeUpIsLost == Spec => []WakeUpIsPending
<1>1. WakeUpInv => WakeUpIsPending
  BY DEF WakeUpInv
<1> QED BY <1>1, WakeUpInit, WakeUpNext, PTL DEF Spec
-----------------------------------------------------------------------------
(* The ring has room for what a batch posts after its TOOLS_START: one     *)
(* event for every slot, and IDLE.                                         *)
RoomForBatch == QueueSize > MaxSlots + 2

LEMMA EndedBounds ==
  ASSUME SlotsType
  PROVE  /\ IsFiniteSet(Ended) /\ Cardinality(Ended) \in Nat
         /\ Cardinality(Ended) <= Len(slots) /\ Len(slots) \in Nat
<1>1. Len(slots) \in Nat
  BY LenProperties DEF SlotsType
<1>2. IsFiniteSet(1 .. Len(slots)) /\ Cardinality(1 .. Len(slots)) = Len(slots)
  <2>1. 1 \in Int /\ Len(slots) \in Int
    BY <1>1
  <2>2. IsFiniteSet(1 .. Len(slots))
    BY <2>1, FS_Interval
  <2>3. Cardinality(1 .. Len(slots)) = (IF 1 > Len(slots) THEN 0 ELSE Len(slots) - 1 + 1)
    BY <2>1, FS_Interval
  <2>4. (IF 1 > Len(slots) THEN 0 ELSE Len(slots) - 1 + 1) = Len(slots)
    BY <1>1
  <2> QED BY <2>2, <2>3, <2>4
<1>3. Ended \subseteq 1 .. Len(slots)
  BY DEF Ended
<1> QED BY <1>1, <1>2, <1>3, FS_Subset, FS_CardinalityType

(* An event that is no IDLE leaves none before or at it.                   *)
LEMMA PushKeepsNoIdle ==
  ASSUME RingType, NEW ev \in Event, events' = Pushed(ev), NoIdle(Len(events))
  PROVE  /\ \A j \in 1 .. Len(events') - 1 : events'[j] # "idle"
         /\ ev # "idle" => \A j \in 1 .. Len(events') : events'[j] # "idle"
<1>1. /\ Len(events) \in Nat /\ Len(events') \in Nat /\ events'[Len(events')] = ev
      /\ \/ /\ Len(events') = Len(events) + 1
            /\ \A j \in 1 .. Len(events) : events'[j] = events[j]
         \/ /\ Len(events') = Len(events)
            /\ \A j \in 2 .. Len(events) : events'[j - 1] = events[j]
  BY PushedIs
<1>2. \A j \in 1 .. Len(events') - 1 : events'[j] # "idle"
  <2> TAKE j \in 1 .. Len(events') - 1
  <2>1. CASE /\ Len(events') = Len(events) + 1
             /\ \A i \in 1 .. Len(events) : events'[i] = events[i]
    BY <1>1, <2>1 DEF NoIdle
  <2>2. CASE /\ Len(events') = Len(events)
             /\ \A i \in 2 .. Len(events) : events'[i - 1] = events[i]
    <3>1. j + 1 \in 2 .. Len(events) /\ (j + 1) - 1 = j /\ j + 1 \in 1 .. Len(events)
      BY <1>1, <2>2
    <3> QED BY <2>2, <3>1 DEF NoIdle
  <2> QED BY <1>1, <2>1, <2>2
<1>3. \A j \in 1 .. Len(events') : j \in 1 .. Len(events') - 1 \/ j = Len(events')
  BY <1>1
<1> QED BY <1>1, <1>2, <1>3

(* A TOOLS_START that matters is not the event a full ring loses.          *)
LEMMA PushKeepsTools ==
  ASSUME RingType, SlotsType, RoomForBatch, NEW ev \in Event, events' = Pushed(ev),
         ToolsWithin(Len(events))
  PROVE  \/ phase = "tools" /\ \A j \in 1 .. Len(events') - 1 : events'[j] = "tool_done"
         \/ \E k \in 1 .. Len(events') - 1 :
               /\ events'[k] = "tools_start"
               /\ \A j \in k + 1 .. Len(events') - 1 : events'[j] = "tool_done"
               /\ (Len(events') - 1) - k <= Cardinality(Ended)
<1> DEFINE n == Len(events)
<1>1. /\ n \in Nat /\ Len(events') \in Nat
      /\ \/ Len(events') = n + 1 /\ \A j \in 1 .. n : events'[j] = events[j]
         \/ /\ Len(events') = n /\ n = QueueSize - 1
            /\ \A j \in 2 .. n : events'[j - 1] = events[j]
  BY PushedIs
<1>2. CASE phase = "tools" /\ \A j \in 1 .. n : events[j] = "tool_done"
  <2>1. ASSUME NEW j \in 1 .. Len(events') - 1 PROVE events'[j] = "tool_done"
    <3>1. CASE Len(events') = n + 1 /\ \A i \in 1 .. n : events'[i] = events[i]
      BY <1>1, <1>2, <3>1
    <3>2. CASE Len(events') = n /\ \A i \in 2 .. n : events'[i - 1] = events[i]
      <4>1. j + 1 \in 2 .. n /\ (j + 1) - 1 = j /\ j + 1 \in 1 .. n
        BY <1>1, <3>2
      <4> QED BY <1>2, <3>2, <4>1
    <3> QED BY <1>1, <3>1, <3>2
  <2> QED BY <1>2, <2>1
<1>3. CASE \E k \in 1 .. n : /\ events[k] = "tools_start"
                             /\ \A j \in k + 1 .. n : events[j] = "tool_done"
                             /\ n - k <= Cardinality(Ended)
  <2>1. PICK k \in 1 .. n : /\ events[k] = "tools_start"
                            /\ \A j \in k + 1 .. n : events[j] = "tool_done"
                            /\ n - k <= Cardinality(Ended)
    BY <1>3
  <2>2. CASE Len(events') = n + 1 /\ \A i \in 1 .. n : events'[i] = events[i]
    <3>1. (n + 1) - 1 = n /\ k + 1 \in Nat /\ \A j \in k + 1 .. n : j \in 1 .. n
      BY <1>1, <2>1
    <3> QED BY <2>1, <2>2, <3>1
  <2>3. CASE Len(events') = n /\ n = QueueSize - 1 /\ \A i \in 2 .. n : events'[i - 1] = events[i]
    <3>1. Cardinality(Ended) \in Nat /\ Cardinality(Ended) <= MaxSlots
      BY EndedBounds, SizeAssumption DEF SlotsType
    <3>2. k # 1
      BY <1>1, <2>1, <2>3, <3>1, SizeAssumption DEF RoomForBatch
    <3>3. /\ k - 1 \in 1 .. n - 1 /\ k \in 2 .. n /\ (n - 1) - (k - 1) = n - k
          /\ \A j \in (k - 1) + 1 .. n - 1 :
                j + 1 \in k + 1 .. n /\ j + 1 \in 2 .. n /\ (j + 1) - 1 = j
      BY <1>1, <2>1, <3>2
    <3>4. events'[k - 1] = "tools_start"
      BY <2>1, <2>3, <3>3
    <3>5. \A j \in (k - 1) + 1 .. n - 1 : events'[j] = "tool_done"
      BY <2>1, <2>3, <3>3
    <3> QED BY <2>1, <2>3, <3>3, <3>4, <3>5
  <2> QED BY <1>1, <2>2, <2>3
<1> QED BY <1>2, <1>3 DEF ToolsWithin

(* Taking an event takes it from the first n.                              *)
LEMMA TakeKeepsTools ==
  ASSUME RingType, SlotsType, events # <<>>, events' = Tail(events), UNCHANGED slots,
         NEW n \in 1 .. Len(events), ToolsWithin(n),
         Head(events) = "tools_start" => phase' = "tools",
         Head(events) = "tool_done" => phase' = phase
  PROVE  \/ phase' = "tools" /\ \A j \in 1 .. n - 1 : events'[j] = "tool_done"
         \/ \E k \in 1 .. n - 1 :
               /\ events'[k] = "tools_start"
               /\ \A j \in k + 1 .. n - 1 : events'[j] = "tool_done"
               /\ (n - 1) - k <= Cardinality(Ended')
<1>1. /\ Len(events) \in Nat /\ n \in Nat /\ n >= 1 /\ Head(events) = events[1]
      /\ \A j \in 1 .. n - 1 : events'[j] = events[j + 1] /\ j + 1 \in 1 .. n
  <2>1. /\ Len(events) \in Nat /\ Len(events') = Len(events) - 1 /\ Head(events) = events[1]
        /\ \A j \in 1 .. Len(events') : events'[j] = events[j + 1]
    BY TakenIs
  <2> QED BY <2>1
<1>2. CASE phase = "tools" /\ \A j \in 1 .. n : events[j] = "tool_done"
  BY <1>1, <1>2
<1>3. CASE \E k \in 1 .. n : /\ events[k] = "tools_start"
                             /\ \A j \in k + 1 .. n : events[j] = "tool_done"
                             /\ n - k <= Cardinality(Ended)
  <2>1. PICK k \in 1 .. n : /\ events[k] = "tools_start"
                            /\ \A j \in k + 1 .. n : events[j] = "tool_done"
                            /\ n - k <= Cardinality(Ended)
    BY <1>3
  <2>2. CASE k = 1
    <3>1. \A j \in 1 .. n - 1 : j + 1 \in k + 1 .. n
      BY <1>1, <2>2
    <3> QED BY <1>1, <2>1, <2>2, <3>1
  <2>3. CASE k # 1
    <3>1. /\ k - 1 \in 1 .. n - 1 /\ (k - 1) + 1 = k /\ (n - 1) - (k - 1) = n - k
          /\ \A j \in (k - 1) + 1 .. n - 1 : j \in 1 .. n - 1 /\ j + 1 \in k + 1 .. n
      BY <1>1, <2>1, <2>3
    <3>2. Ended' = Ended
      BY DEF Ended
    <3>3. events'[k - 1] = "tools_start"
      BY <1>1, <2>1, <3>1
    <3>4. \A j \in (k - 1) + 1 .. n - 1 : events'[j] = "tool_done"
      BY <1>1, <2>1, <3>1
    <3> QED BY <2>1, <3>1, <3>2, <3>3, <3>4
  <2> QED BY <2>2, <2>3
<1> QED BY <1>2, <1>3 DEF ToolsWithin
-----------------------------------------------------------------------------
LEMMA InitEstablishes == Init => IInv
<1> SUFFICES ASSUME Init PROVE IInv
  OBVIOUS
<1>1. /\ events = <<>> /\ slots = <<>> /\ main = "prompt" /\ todo = {}
  BY DEF Init
<1>2. RingType
  BY <1>1, EmptySeq, SizeAssumption DEF RingType
<1>3. SlotsType
  BY <1>1, EmptySeq, SizeAssumption DEF SlotsType
<1>4. Following
  BY <1>1 DEF Following
<1> QED BY <1>2, <1>3, <1>4 DEF IInv

(* A turn begins with an acknowledgement that is cleared, and with THINKING*)
(* as the newest event.                                                    *)
LEMMA BeginThinkingFollows == ASSUME IInv, BeginThinking PROVE IInv'
<1>1. /\ RingType /\ SlotsType /\ events' = Pushed("thinking") /\ "thinking" \in Event
      /\ main' = "llm" /\ ack' = FALSE /\ stale' = Contains(events, "idle")
      /\ UNCHANGED <<slots, todo>>
  BY DEF IInv, BeginThinking, Post, ClearAck, Event
<1>2. RingType' /\ Len(events') \in Nat /\ Len(events') > 0 /\ events'[Len(events')] = "thinking"
  BY <1>1, PushedIs
<1>3. events' # <<>>
  BY <1>2, EmptySeq
<1>4. SlotsType'
  BY <1>1 DEF SlotsType
<1>5. ~stale' => \A j \in 1 .. Len(events') : events'[j] # "idle"
  <2>1. ~stale' => NoIdle(Len(events))
    BY <1>1 DEF NoIdle, Contains
  <2> QED BY <1>1, <2>1, PushKeepsNoIdle
<1>6. Following'
  BY <1>1, <1>2, <1>3, <1>5 DEF Following, NoIdle
<1> QED BY <1>2, <1>4, <1>6 DEF IInv

(* A batch is announced with slots that are all running.                   *)
LEMMA SlotsAre ==
  ASSUME NEW n \in BatchSizes, UiBeginTools(n)
  PROVE  /\ slots' \in Seq({"running", "done"})
         /\ Len(slots') \in Nat /\ Len(slots') <= MaxSlots /\ Len(slots') <= n /\ n \in Nat
         /\ \A i \in 1 .. Len(slots') : slots'[i] = "running"
<1> DEFINE m == IF n > MaxSlots THEN MaxSlots ELSE n
<1>1. n \in Nat /\ m \in Nat /\ m <= MaxSlots /\ m <= n
  BY BatchAssumption, SizeAssumption
<1>2. slots' = [i \in 1 .. m |-> "running"]
  BY DEF UiBeginTools
<1> HIDE DEF m
<1>3. slots' \in [1 .. m -> {"running", "done"}]
  BY <1>2
<1>4. slots' \in Seq({"running", "done"})
  BY <1>1, <1>3, SeqDef
<1>5. Len(slots') = m
  <2>1. Len(slots') \in Nat /\ 1 .. Len(slots') = 1 .. m
    BY <1>2, <1>4, LenProperties
  <2>2. ASSUME Len(slots') < m PROVE FALSE
    BY <1>1, <2>1, <2>2, m \in 1 .. m
  <2>3. ASSUME m < Len(slots') PROVE FALSE
    BY <1>1, <2>1, <2>3, Len(slots') \in 1 .. Len(slots')
  <2> QED BY <1>1, <2>1, <2>2, <2>3
<1> QED BY <1>1, <1>2, <1>4, <1>5

LEMMA AnnounceFollows == ASSUME IInv, NEW n \in BatchSizes, Announce(n) PROVE IInv'
<1>1. /\ RingType /\ events' = Pushed("tools_start") /\ "tools_start" \in Event
      /\ main' = "announced" /\ todo' = 1 .. n /\ UiBeginTools(n)
  BY DEF IInv, Announce, UiBeginTools, Post, Event
<1>2. RingType'
  BY <1>1, PushedIs
<1>3. SlotsType'
  BY <1>1, SlotsAre DEF SlotsType
<1>4. Following'
  BY <1>1 DEF Following
<1> QED BY <1>2, <1>3, <1>4 DEF IInv

LEMMA BeginToolsFollows == ASSUME IInv, BeginTools PROVE IInv'
<1>1. PICK n \in BatchSizes : todo = 1 .. n /\ UiBeginTools(n)
  BY DEF BeginTools
<1>2. /\ RingType /\ SlotsType /\ events' = Pushed("tools_start") /\ "tools_start" \in Event
      /\ main' = "tools" /\ todo' = todo /\ ack' = FALSE /\ stale' = Contains(events, "idle")
  BY <1>1 DEF IInv, BeginTools, UiBeginTools, ClearAck, Post, Event
<1>3. /\ RingType' /\ Len(events') \in Nat /\ Len(events') > 0
      /\ events'[Len(events')] = "tools_start"
  BY <1>2, PushedIs
<1>4. /\ slots' \in Seq({"running", "done"})
      /\ Len(slots') \in Nat /\ Len(slots') <= MaxSlots /\ Len(slots') <= n /\ n \in Nat
      /\ \A i \in 1 .. Len(slots') : slots'[i] = "running"
  BY <1>1, SlotsAre
<1>5. SlotsType'
  <2>1. \A i \in 1 .. Len(slots') : i \in 1 .. n
    BY <1>4
  <2> QED BY <1>1, <1>2, <1>4, <2>1 DEF SlotsType
<1>6. Cardinality(Ended') = 0
  <2>1. Ended' = {}
    BY <1>4 DEF Ended
  <2> QED BY <2>1, FS_EmptySet
<1>7. ToolsWithin(Len(events))'
  <2>1. Len(events') \in 1 .. Len(events') /\ Len(events') - Len(events') <= Cardinality(Ended')
    BY <1>3, <1>6
  <2>2. \A j \in Len(events') + 1 .. Len(events') : events'[j] = "tool_done"
    BY <1>3
  <2> QED BY <1>3, <2>1, <2>2 DEF ToolsWithin
<1>8. ~stale' => \A j \in 1 .. Len(events') : events'[j] # "idle"
  <2>1. ~stale' => NoIdle(Len(events))
    BY <1>2 DEF NoIdle, Contains
  <2> QED BY <1>2, <2>1, PushKeepsNoIdle
<1>9. Following'
  BY <1>2, <1>7, <1>8 DEF Following, NoIdle
<1> QED BY <1>3, <1>5, <1>9 DEF IInv

(* A tool ends: one event more after TOOLS_START, and one slot more that   *)
(* has ended.                                                              *)
LEMMA ToolDoneFollows ==
  ASSUME IInv, RoomForBatch, NEW i \in todo, ToolDone(i)
  PROVE  IInv'
<1>1. /\ RingType /\ SlotsType /\ main = "tools" /\ main' = "tools"
      /\ todo' = todo \ {i} /\ UNCHANGED <<ack, phase, shown, stale>>
      /\ todo \subseteq Nat \ {0} /\ Len(slots) \in Nat
      /\ slots \in Seq({"running", "done"})
      /\ \A j \in 1 .. Len(slots) : slots[j] = "running" <=> j \in todo
  BY EndedBounds DEF IInv, ToolDone, screen, SlotsType
<1>2. ~stale => shown \/ (~ack /\ NoIdle(Len(events)) /\ ToolsWithin(Len(events)))
  BY <1>1 DEF IInv, Following
<1>3. CASE i <= Len(slots)
  <2>1. /\ slots' = [slots EXCEPT ![i] = "done"] /\ events' = Pushed("tool_done")
        /\ "tool_done" \in Event
    BY <1>3 DEF ToolDone, Post, Event
  <2>2. i \in 1 .. Len(slots) /\ slots[i] = "running"
    BY <1>1, <1>3
  <2>3. /\ slots' \in Seq({"running", "done"}) /\ Len(slots') = Len(slots)
        /\ \A j \in 1 .. Len(slots) : slots'[j] = IF j = i THEN "done" ELSE slots[j]
    BY <1>1, <2>1, <2>2, ExceptSeq
  <2>4. SlotsType'
    BY <1>1, <2>2, <2>3 DEF SlotsType
  <2>5. /\ RingType' /\ Len(events') \in Nat /\ Len(events') > 0
        /\ events'[Len(events')] = "tool_done"
    BY <1>1, <2>1, PushedIs
  <2>6. Cardinality(Ended') = Cardinality(Ended) + 1 /\ Cardinality(Ended) \in Nat
    <3>1. Ended' = Ended \cup {i} /\ i \notin Ended
      BY <2>2, <2>3 DEF Ended
    <3> QED BY <1>1, <3>1, EndedBounds, FS_AddElement
  <2>7. ToolsWithin(Len(events)) => ToolsWithin(Len(events))'
    <3> SUFFICES ASSUME ToolsWithin(Len(events)) PROVE ToolsWithin(Len(events))'
      OBVIOUS
    <3>1. \/ phase = "tools" /\ \A j \in 1 .. Len(events') - 1 : events'[j] = "tool_done"
          \/ \E k \in 1 .. Len(events') - 1 :
                /\ events'[k] = "tools_start"
                /\ \A j \in k + 1 .. Len(events') - 1 : events'[j] = "tool_done"
                /\ (Len(events') - 1) - k <= Cardinality(Ended)
      BY <1>1, <2>1, PushKeepsTools
    <3>2. CASE phase = "tools" /\ \A j \in 1 .. Len(events') - 1 : events'[j] = "tool_done"
      <4>1. \A j \in 1 .. Len(events') : j \in 1 .. Len(events') - 1 \/ j = Len(events')
        BY <2>5
      <4> QED BY <1>1, <2>5, <3>2, <4>1 DEF ToolsWithin
    <3>3. CASE \E k \in 1 .. Len(events') - 1 :
                  /\ events'[k] = "tools_start"
                  /\ \A j \in k + 1 .. Len(events') - 1 : events'[j] = "tool_done"
                  /\ (Len(events') - 1) - k <= Cardinality(Ended)
      <4>1. PICK k \in 1 .. Len(events') - 1 :
                  /\ events'[k] = "tools_start"
                  /\ \A j \in k + 1 .. Len(events') - 1 : events'[j] = "tool_done"
                  /\ (Len(events') - 1) - k <= Cardinality(Ended)
        BY <3>3
      <4>2. /\ k \in 1 .. Len(events') /\ Len(events') - k <= Cardinality(Ended')
            /\ \A j \in k + 1 .. Len(events') :
                  j \in k + 1 .. Len(events') - 1 \/ j = Len(events')
        BY <2>5, <2>6, <4>1
      <4>3. \A j \in k + 1 .. Len(events') : events'[j] = "tool_done"
        BY <2>5, <4>1, <4>2
      <4> QED BY <4>1, <4>2, <4>3 DEF ToolsWithin
    <3> QED BY <3>1, <3>2, <3>3
  <2>8. NoIdle(Len(events)) => \A j \in 1 .. Len(events') : events'[j] # "idle"
    BY <1>1, <2>1, PushKeepsNoIdle
  <2>9. Following'
    BY <1>1, <1>2, <2>7, <2>8 DEF Following, NoIdle
  <2> QED BY <2>4, <2>5, <2>9 DEF IInv
<1>4. CASE ~(i <= Len(slots))
  <2>1. UNCHANGED <<slots, events>>
    BY <1>4 DEF ToolDone
  <2>2. SlotsType'
    BY <1>1, <1>4, <2>1 DEF SlotsType
  <2>3. Following'
    <3>1. Ended' = Ended
      BY <2>1 DEF Ended
    <3>2. ToolsWithin(Len(events)) => ToolsWithin(Len(events))'
      BY <1>1, <2>1, <3>1 DEF ToolsWithin
    <3> QED BY <1>1, <1>2, <2>1, <3>2 DEF Following, NoIdle
  <2> QED BY <1>1, <2>1, <2>2, <2>3 DEF IInv, RingType
<1> QED BY <1>3, <1>4

(* IDLE is the last event, and the only one if there was none.             *)
LEMMA IdlePostedFollows == ASSUME IInv, RoomForBatch, IdlePosted PROVE IInv'
<1>1. /\ RingType /\ SlotsType /\ events' = Pushed("idle") /\ "idle" \in Event
      /\ UNCHANGED <<ack, slots, phase, drawn, shown, todo, stale>>
  BY DEF IInv, IdlePosted, Post, screen, Event
<1>2. RingType' /\ Len(events') \in Nat /\ Len(events') > 0 /\ events'[Len(events')] = "idle"
  BY <1>1, PushedIs
<1>3. NoIdle(Len(events)) => IdleLast'
  <2>1. NoIdle(Len(events)) => \A j \in 1 .. Len(events') - 1 : events'[j] # "idle"
    BY <1>1, PushKeepsNoIdle
  <2> QED BY <1>2, <2>1 DEF IdleLast, NoIdle
<1>4. CASE main = "llm" /\ main' = "idleText"
  <2>1. SlotsType'
    BY <1>1, <1>4 DEF SlotsType
  <2>2. Following'
    BY <1>1, <1>3, <1>4 DEF IInv, Following
  <2> QED BY <1>2, <2>1, <2>2 DEF IInv
<1>5. CASE main = "tools" /\ todo = {} /\ main' = "idleTools"
  <2>1. SlotsType'
    BY <1>1, <1>5 DEF SlotsType
  <2>2. ToolsWithin(Len(events)) => ToolsWithin(Len(events) - 1)'
    <3>1. Ended' = Ended
      BY <1>1 DEF Ended
    <3> QED BY <1>1, <3>1, PushKeepsTools DEF ToolsWithin
  <2>3. Following'
    BY <1>1, <1>3, <1>5, <2>2 DEF IInv, Following
  <2> QED BY <1>2, <2>1, <2>3 DEF IInv
<1> QED BY <1>4, <1>5 DEF IdlePosted

(* ui_idle returns once it is acknowledged, and that settles it.           *)
LEMMA MainFollows ==
  ASSUME IInv, IdleBlocks \/ IdleReturns \/ PrintReply \/ ChatFails \/ StopPosted \/ StopReturns
  PROVE  IInv'
<1> USE DEF screen
<1>1. RingType /\ SlotsType /\ Following
  BY DEF IInv
<1>2. CASE IdleBlocks
  <2>1. UNCHANGED <<events, slots, todo, main, ack, phase, drawn, shown, stale>>
    BY <1>2 DEF IdleBlocks
  <2> QED BY <1>1, <2>1 DEF IInv, RingType, SlotsType, Following, Released, IdleLast, NoIdle,
                            ToolsWithin, Ended
<1>3. CASE IdleReturns
  <2>1. /\ ack /\ UNCHANGED <<events, slots, todo, phase, drawn, shown, stale>>
        /\ \/ main = "idleText" /\ main' = "print"
           \/ main = "idleTools" /\ main' = "turn"
    BY <1>3 DEF IdleReturns, Awaiting
  <2>2. Following'
    BY <1>1, <2>1 DEF Following, Released
  <2> QED BY <1>1, <2>1, <2>2 DEF IInv, RingType, SlotsType
<1>4. CASE PrintReply \/ ChatFails
  <2>1. main' = "prompt" /\ UNCHANGED <<events, slots>> /\ (todo' = {} \/ todo' = todo)
    BY <1>4 DEF PrintReply, ChatFails
  <2> QED BY <1>1, <2>1 DEF IInv, RingType, SlotsType, Following
<1>5. CASE StopPosted
  <2>1. /\ main' = "stopping" /\ UNCHANGED <<slots, todo>>
        /\ events' = Pushed("shutdown") /\ "shutdown" \in Event
    BY <1>5 DEF StopPosted, Post, Event
  <2>2. RingType'
    BY <1>1, <2>1, PushedIs
  <2> QED BY <1>1, <2>1, <2>2 DEF IInv, SlotsType, Following
<1>6. CASE StopReturns
  <2>1. main' = "stopped" /\ slots' = <<>> /\ UNCHANGED <<events, todo>>
    BY <1>6 DEF StopReturns
  <2>2. slots' \in Seq({"running", "done"}) /\ Len(slots') <= MaxSlots
    BY <2>1, EmptySeq, SizeAssumption
  <2> QED BY <1>1, <2>1, <2>2 DEF IInv, RingType, SlotsType, Following
<1> QED BY <1>2, <1>3, <1>4, <1>5, <1>6

(* The render thread between two rounds.                                   *)
LEMMA BetweenRoundsFollows ==
  ASSUME IInv, \/ RenderSleeps \/ RenderWaitsFrame \/ RoundBegins \/ SpuriousWakeup
               \/ UNCHANGED vars
  PROVE  IInv'
<1>1. UNCHANGED <<events, slots, todo, main, ack, phase, drawn, shown, stale>>
  BY DEF RenderSleeps, RenderWaitsFrame, RoundBegins, SpuriousWakeup, vars, screen
<1> QED BY <1>1 DEF IInv, RingType, SlotsType, Following, Released, IdleLast, NoIdle,
                    ToolsWithin, Ended

(* What ends a round.  When it draws tools, no barrier is waiting for an   *)
(* IDLE that is still to come.                                             *)
LEMMA DrawingFollows ==
  ASSUME IInv, RenderExits \/ DrawsNoTools \/ DrawsTools
  PROVE  IInv'
<1>1. /\ RingType /\ SlotsType /\ Following /\ events = <<>> /\ Len(events) = 0
      /\ UNCHANGED <<events, slots, todo, main, stale>>
  BY EmptySeq DEF IInv, RenderExits, DrawsNoTools, DrawsTools, Drained
<1>2. RingType' /\ SlotsType'
  BY <1>1 DEF RingType, SlotsType
<1>3. CASE RenderExits \/ DrawsNoTools
  <2>1. /\ UNCHANGED <<ack, phase, shown>> /\ (Released => Released')
    BY <1>1, <1>3 DEF RenderExits, DrawsNoTools, Released
  <2>2. Following'
    BY <1>1, <2>1 DEF Following, IdleLast, NoIdle, ToolsWithin, Ended
  <2> QED BY <1>2, <2>2 DEF IInv
<1>4. CASE DrawsTools
  <2>1. /\ phase = "tools"
        /\ \/ shown' = TRUE
           \/ UNCHANGED <<phase, shown, ack>>
    BY <1>4 DEF DrawsTools
  <2>2. ~stale => main \notin {"llm", "idleText", "print"} /\ (main = "idleTools" => shown)
    BY <1>1, <2>1 DEF Following, Released, IdleLast
  <2>3. Following'
    <3>1. CASE shown' = TRUE
      BY <1>1, <2>2, <3>1 DEF Following
    <3>2. CASE UNCHANGED <<phase, shown, ack>>
      BY <1>1, <2>2, <3>2 DEF Following, IdleLast, NoIdle, ToolsWithin, Ended
    <3> QED BY <2>1, <3>1, <3>2
  <2> QED BY <1>2, <2>3 DEF IInv
<1> QED BY <1>3, <1>4

(* What handling an event does, as far as following goes.                  *)
Handled(ev) ==
    /\ Handles(ev)
    /\ IF ev = "idle"
       THEN /\ phase' = "idle" /\ drawn' = "nothing"
            /\ shown' = (shown \/ (phase = "tools" /\ AllDone))
       ELSE UNCHANGED <<ack, shown>>
    /\ ev = "thinking" => phase' = "thinking"
    /\ ev = "tools_start" => phase' = "tools"
    /\ ev = "tool_done" => UNCHANGED phase

LEMMA HandledFollows == ASSUME IInv, NEW ev \in Event, Handled(ev) PROVE IInv'
<1>1. /\ RingType /\ SlotsType /\ Following
      /\ events # <<>> /\ Head(events) = ev /\ events' = Tail(events)
      /\ UNCHANGED <<slots, todo, main, stale>>
      /\ ev # "idle" => UNCHANGED <<ack, shown>>
      /\ Head(events) = "tools_start" => phase' = "tools"
      /\ Head(events) = "tool_done" => phase' = phase
  BY DEF IInv, Handled, Handles
<1> DEFINE n == Len(events)
<1>2. /\ RingType' /\ n \in Nat /\ n > 0 /\ Len(events') = n - 1
      /\ events[1] = ev /\ (n = 1 => events' = <<>>)
      /\ \A j \in 1 .. n - 1 : events'[j] = events[j + 1]
  BY <1>1, TakenIs
<1>3. SlotsType'
  BY <1>1 DEF SlotsType
<1>4. n # 1 => events' # <<>> /\ n - 1 \in 1 .. n - 1 /\ events'[n - 1] = events[n]
  <2>1. n # 1 => n - 1 \in 1 .. n - 1 /\ (n - 1) + 1 = n
    BY <1>2
  <2>2. n # 1 => events' # <<>>
    BY <1>2, EmptySeq
  <2> QED BY <1>2, <2>1, <2>2
<1>5. ASSUME NEW m \in 1 .. n, NoIdle(m)
      PROVE  ev # "idle" /\ \A j \in 1 .. m - 1 : events'[j] # "idle"
  <2>1. 1 \in 1 .. m /\ \A j \in 1 .. m - 1 : j \in 1 .. n - 1 /\ j + 1 \in 1 .. m
    BY <1>2
  <2> QED BY <1>2, <1>5, <2>1 DEF NoIdle
<1>6. ASSUME NEW m \in 1 .. n, ToolsWithin(m)
      PROVE  \/ phase' = "tools" /\ \A j \in 1 .. m - 1 : events'[j] = "tool_done"
             \/ \E k \in 1 .. m - 1 :
                   /\ events'[k] = "tools_start"
                   /\ \A j \in k + 1 .. m - 1 : events'[j] = "tool_done"
                   /\ (m - 1) - k <= Cardinality(Ended')
  BY <1>1, <1>6, TakeKeepsTools
<1>7. ASSUME IdleLast, n # 1 PROVE IdleLast' /\ ev # "idle"
  <2>1. n - 1 \in 1 .. n /\ (n - 1) - 1 = Len(events') - 1 /\ Len(events') > 0
    BY <1>2, <1>7
  <2>2. ev # "idle" /\ \A j \in 1 .. (n - 1) - 1 : events'[j] # "idle"
    BY <1>5, <1>7, <2>1 DEF IdleLast
  <2>3. events'[Len(events')] = "idle"
    BY <1>2, <1>4, <1>7 DEF IdleLast
  <2> QED BY <2>1, <2>2, <2>3 DEF IdleLast, NoIdle
<1>8. IdleLast /\ n = 1 => ev = "idle"
  BY <1>2 DEF IdleLast
<1> SUFFICES ASSUME ~stale PROVE Following'
  BY <1>1, <1>2, <1>3 DEF IInv, Following
<1>9. CASE main = "llm"
  <2>1. ~ack /\ NoIdle(n) /\ events[n] = "thinking"
    BY <1>1, <1>9 DEF Following
  <2>2. ev # "idle" /\ \A j \in 1 .. n - 1 : events'[j] # "idle"
    BY <1>2, <1>5, <2>1, n \in 1 .. n
  <2>3. n = 1 => phase' = "thinking"
    BY <1>2, <2>1 DEF Handled
  <2> QED BY <1>1, <1>2, <1>4, <1>9, <2>1, <2>2, <2>3 DEF Following, NoIdle
<1>10. CASE main = "idleText"
  <2>1. ~ack /\ IdleLast
    BY <1>1, <1>10 DEF Following, Released
  <2>2. CASE n = 1
    <3>1. Released'
      BY <1>2, <1>8, <2>1, <2>2 DEF Released, Handled
    <3> QED BY <1>1, <1>10, <3>1 DEF Following
  <2>3. CASE n # 1
    BY <1>1, <1>7, <1>10, <2>1, <2>3 DEF Following
  <2> QED BY <2>2, <2>3
<1>11. CASE main \in {"print", "turn"}
  BY <1>1, <1>11 DEF Following, Released, Handled
<1>12. CASE main = "tools"
  <2>1. CASE shown
    BY <1>1, <1>12, <2>1 DEF Following, Handled
  <2>2. CASE ~shown
    <3>1. ~ack /\ NoIdle(n) /\ ToolsWithin(n) /\ n \in 1 .. n
      BY <1>1, <1>2, <1>12, <2>2 DEF Following
    <3>2. ev # "idle" /\ \A j \in 1 .. n - 1 : events'[j] # "idle"
      BY <1>5, <3>1
    <3>3. ToolsWithin(Len(events))'
      BY <1>6, <1>2, <3>1 DEF ToolsWithin
    <3> QED BY <1>1, <1>2, <1>12, <3>1, <3>2, <3>3 DEF Following, NoIdle
  <2> QED BY <2>1, <2>2
<1>13. CASE main = "idleTools"
  <2>1. CASE shown
    BY <1>1, <1>13, <2>1 DEF Following, Handled
  <2>2. CASE ~shown
    <3>1. ~ack /\ IdleLast /\ ToolsWithin(n - 1)
      BY <1>1, <1>13, <2>2 DEF Following
    <3>2. CASE n = 1
      <4>1. phase = "tools"
        BY <3>1, <3>2 DEF ToolsWithin
      <4>2. AllDone
        <5>1. \A i \in 1 .. Len(slots) : slots[i] \in {"running", "done"} /\ slots[i] # "running"
          BY <1>1, <1>13, ElementOfSeq DEF SlotsType
        <5> QED BY <5>1 DEF AllDone
      <4>3. shown'
        BY <1>8, <3>1, <3>2, <4>1, <4>2 DEF Handled
      <4> QED BY <1>1, <1>13, <4>3 DEF Following
    <3>3. CASE n # 1
      <4>1. n - 1 \in 1 .. n /\ (n - 1) - 1 = Len(events') - 1
        BY <1>2, <3>3
      <4>2. ToolsWithin(Len(events) - 1)'
        BY <1>6, <3>1, <4>1 DEF ToolsWithin
      <4>3. ~ack' /\ IdleLast'
        BY <1>1, <1>7, <3>1, <3>3
      <4> QED BY <1>1, <1>13, <4>2, <4>3 DEF Following
    <3> QED BY <3>2, <3>3
  <2> QED BY <2>1, <2>2
<1> QED BY <1>1, <1>9, <1>10, <1>11, <1>12, <1>13 DEF Following

LEMMA NextPreserves == ASSUME RoomForBatch PROVE IInv /\ [Next]_vars => IInv'
<1> SUFFICES ASSUME IInv, [Next]_vars PROVE IInv'
  OBVIOUS
<1> USE DEF Event, Handled, screen
<1>1. CASE BeginThinking
  BY <1>1, BeginThinkingFollows
<1>2. ASSUME NEW n \in BatchSizes, Announce(n) PROVE IInv'
  BY <1>2, AnnounceFollows
<1>3. CASE BeginTools
  BY <1>3, BeginToolsFollows
<1>4. ASSUME NEW i \in todo, ToolDone(i) PROVE IInv'
  BY <1>4, ToolDoneFollows
<1>5. CASE IdlePosted
  BY <1>5, IdlePostedFollows
<1>6. CASE IdleBlocks \/ IdleReturns \/ PrintReply \/ ChatFails \/ StopPosted \/ StopReturns
  BY <1>6, MainFollows
<1>7. CASE \/ RenderSleeps \/ RenderWaitsFrame \/ RoundBegins \/ SpuriousWakeup
           \/ UNCHANGED vars
  BY <1>7, BetweenRoundsFollows
<1>8. CASE RenderExits \/ DrawsNoTools \/ DrawsTools
  BY <1>8, DrawingFollows
<1>9. CASE HandlesThinking
  BY <1>9, HandledFollows DEF HandlesThinking
<1>10. CASE HandlesToolsStart
  BY <1>10, HandledFollows DEF HandlesToolsStart
<1>11. CASE HandlesToolDone
  BY <1>11, HandledFollows DEF HandlesToolDone
<1>12. CASE HandlesIdle
  BY <1>12, HandledFollows DEF HandlesIdle
<1>13. CASE HandlesShutdown
  BY <1>13, HandledFollows DEF HandlesShutdown
<1> QED
  BY <1>1, <1>2, <1>3, <1>4, <1>5, <1>6, <1>7, <1>8, <1>9, <1>10, <1>11, <1>12, <1>13
  DEF Next, MainStep, RenderStep, Terminated

(* A barrier that no IDLE was left over for settles what it is for, in     *)
(* every ring that has room for the events of a batch: a reply is printed  *)
(* on a screen that is released, and the results of a batch have been      *)
(* drawn before the next turn.  With one event less of room there is a     *)
(* batch whose TOOLS_START is lost and whose results are never drawn.      *)
THEOREM SettledByBarrier == ASSUME RoomForBatch PROVE Spec => []SettledWhenFresh
<1>1. IInv => SettledWhenFresh
  BY DEF IInv, Following, SettledWhenFresh
<1>2. IInv /\ [Next]_vars => IInv'
  BY NextPreserves
<1> QED BY <1>1, <1>2, InitEstablishes, PTL DEF Spec
=============================================================================
