--------------------------- MODULE ContextProofs ---------------------------
(***************************************************************************)
(* For every history, every window and threshold, any number of failures   *)
(* and restarts: the history of Context is an append-only log of what was  *)
(* said (provided the disk takes what is written), and a successful        *)
(* reclaim has left nothing behind.                                        *)
(*                                                                         *)
(* TypeOK is not inductive for the refinement: a placeholder must name a   *)
(* file that exists and that no later save writes again, hence the order   *)
(* on ids in Placeholders; and SettledWhenOk needs the progress of the     *)
(* loop in between.                                                        *)
(***************************************************************************)
EXTENDS Context, TLAPS

(* Every placeholder names a file written in this process, every other     *)
(* message holds its content.                                              *)
Placeholders ==
    \A i \in DOMAIN history :
        IF history[i].size = "offloaded"
        THEN history[i].content \in DOMAIN files /\ history[i].content < nextId
        ELSE history[i].content \in Contents

(* Without short writes every file holds a content.                        *)
FilesAreWhole == ~ShortWrites => \A id \in DOMAIN files : files[id] \in Contents

(* The messages before next are done with; so are all once the loop ends.  *)
Progress ==
    /\ at = "offload" => \A i \in DOMAIN history : i < next => ~ShouldOffload(i)
    /\ at # "out" => result = "none"
    /\ at = "summary" /\ OffloadShouldApply => \A i \in DOMAIN history : ~ShouldOffload(i)

IInv == TypeOK /\ Placeholders /\ FilesAreWhole /\ Progress /\ SettledWhenOk

LEMMA InitInv == Init => IInv
  BY DEF Init, IInv, TypeOK, Placeholders, FilesAreWhole, Progress, SettledWhenOk

(* Replacing one message leaves the others, their number and their order.  *)
LEMMA ReplaceOne ==
  ASSUME TypeOK, NEW i \in DOMAIN history, Replaced(i)
  PROVE  /\ history' \in Seq(Message)
         /\ DOMAIN history' = DOMAIN history /\ Len(history') = Len(history)
         /\ \A j \in DOMAIN history : j # i => history'[j] = history[j]
         /\ history'[i].role = history[i].role /\ history'[i].tag = history[i].tag
         /\ history'[i].size = "offloaded" /\ history'[i].content = nextId
  <1> DEFINE new == [history[i] EXCEPT !.size = "offloaded", !.content = nextId]
  <1>1. history \in Seq(Message) /\ nextId \in Nat /\ history[i] \in Message
    BY DEF TypeOK
  <1>2. /\ new \in Message
        /\ new.role = history[i].role /\ new.tag = history[i].tag
        /\ new.size = "offloaded" /\ new.content = nextId
    BY <1>1 DEF Message, Sizes
  <1>3. history' = [history EXCEPT ![i] = new]
    BY DEF Replaced
  <1> HIDE DEF new
  <1>4. history' \in Seq(Message) /\ DOMAIN history' = DOMAIN history /\ Len(history') = Len(history)
    BY <1>1, <1>2, <1>3
  <1> QED
    BY <1>1, <1>2, <1>3, <1>4

(* Pushing leaves what is there.                                           *)
LEMMA PushOne ==
  ASSUME TypeOK, NEW m \in Said, history' = Append(history, m)
  PROVE  /\ history' \in Seq(Message)
         /\ Len(history') = Len(history) + 1
         /\ \A j \in DOMAIN history : j \in DOMAIN history' /\ history'[j] = history[j]
         /\ history'[Len(history) + 1] = m
         /\ m \in Message /\ m.size # "offloaded" /\ m.content \in Contents
  <1>1. m \in Message /\ m.size # "offloaded" /\ m.content \in Contents
    BY SaidAssumption DEF Message, Sizes
  <1>2. history \in Seq(Message)
    BY DEF TypeOK
  <1> QED
    BY <1>1, <1>2

LEMMA StepInv == IInv /\ [Next]_vars => IInv'
  <1> SUFFICES ASSUME IInv, [Next]_vars PROVE IInv'
    OBVIOUS
  <1> USE DEF IInv
  <1>1. ASSUME NEW m \in Said, Push(m) PROVE IInv'
    <2>1. /\ history' = Append(history, m) /\ at' = "out" /\ at = "out" /\ result' = "none"
          /\ UNCHANGED <<files, nextId, next, restarts>>
      BY <1>1 DEF Push
    <2>2. /\ history' \in Seq(Message) /\ Len(history') = Len(history) + 1
          /\ \A j \in DOMAIN history : j \in DOMAIN history' /\ history'[j] = history[j]
          /\ history'[Len(history) + 1] = m
          /\ m.size # "offloaded" /\ m.content \in Contents
      BY <2>1, PushOne
    <2>3. \A j \in DOMAIN history' : j \in DOMAIN history \/ j = Len(history) + 1
      BY <2>2 DEF TypeOK
    <2>4. TypeOK'
      BY <2>1, <2>2 DEF TypeOK
    <2>5. Placeholders'
      BY <2>1, <2>2, <2>3 DEF Placeholders
    <2> QED
      BY <2>1, <2>4, <2>5 DEF FilesAreWhole, Progress, SettledWhenOk
  <1>2. CASE ReclaimCalled
    <2>1. /\ UNCHANGED <<history, files, nextId, restarts>> /\ at = "out" /\ result' = "none"
          /\ at' = IF OffloadShouldApply THEN "offload" ELSE "summary"
          /\ next' = 1
      BY <1>2 DEF ReclaimCalled
    <2>2. OffloadShouldApply' = OffloadShouldApply
      BY <2>1 DEF OffloadShouldApply, Total
    <2>3. Progress'
      <3>1. \A i \in DOMAIN history' : ~(i < 1)
        BY <2>1 DEF TypeOK
      <3> QED
        BY <2>1, <2>2, <3>1 DEF Progress
    <2> QED
      BY <2>1, <2>3 DEF TypeOK, Placeholders, FilesAreWhole, SettledWhenOk
  <1>3. CASE OffloadSkip
    <2>1. /\ UNCHANGED <<history, files, nextId, at, result, restarts>> /\ at = "offload"
          /\ next' = next + 1 /\ ~ShouldOffload(next)
      BY <1>3 DEF OffloadSkip
    <2>2. \A i \in DOMAIN history' : i < next' => ~ShouldOffload(i)'
      <3> SUFFICES ASSUME NEW i \in DOMAIN history, i < next + 1 PROVE ~ShouldOffload(i)
        BY <2>1 DEF ShouldOffload
      <3>1. i < next \/ i = next
        BY DEF TypeOK
      <3> QED
        BY <2>1, <3>1 DEF Progress
    <2> QED
      BY <2>1, <2>2 DEF TypeOK, Placeholders, FilesAreWhole, Progress, SettledWhenOk
  <1>4. CASE OffloadOne
    <2>1. /\ UNCHANGED <<at, result, restarts>> /\ at = "offload" /\ next' = next + 1
          /\ next \in DOMAIN history /\ Replaced(next)
      BY <1>4 DEF OffloadOne, TypeOK
    <2>2. PICK written \in {history[next].content} \cup IF ShortWrites THEN {Truncated} ELSE {} :
             Saved(written)
      BY <1>4 DEF OffloadOne
    <2>3. history[next].content \in Contents
      BY <1>4, <2>1 DEF OffloadOne, ShouldOffload, Placeholders
    <2>4. /\ DOMAIN files' = DOMAIN files \cup {nextId} /\ nextId' = nextId + 1
          /\ files'[nextId] = written /\ \A id \in DOMAIN files : id # nextId => files'[id] = files[id]
          /\ written \in Contents \cup {Truncated} /\ (~ShortWrites => written \in Contents)
      BY <2>2, <2>3 DEF Saved
    <2>5. /\ history' \in Seq(Message)
          /\ DOMAIN history' = DOMAIN history /\ Len(history') = Len(history)
          /\ \A j \in DOMAIN history : j # next => history'[j] = history[j]
          /\ history'[next].size = "offloaded" /\ history'[next].content = nextId
      BY <2>1, ReplaceOne
    <2>6. TypeOK'
      BY <2>1, <2>4, <2>5 DEF TypeOK
    <2>7. Placeholders'
      <3> SUFFICES ASSUME NEW i \in DOMAIN history
                   PROVE IF history'[i].size = "offloaded"
                         THEN history'[i].content \in DOMAIN files' /\ history'[i].content < nextId'
                         ELSE history'[i].content \in Contents
        BY <2>5 DEF Placeholders
      <3>1. CASE i = next
        BY <3>1, <2>4, <2>5 DEF TypeOK
      <3>2. CASE i # next
        BY <3>2, <2>4, <2>5 DEF TypeOK, Placeholders
      <3> QED
        BY <3>1, <3>2
    <2>8. FilesAreWhole'
      BY <2>4 DEF FilesAreWhole
    <2>9. \A i \in DOMAIN history' : i < next' => ~ShouldOffload(i)'
      <3> SUFFICES ASSUME NEW i \in DOMAIN history, i < next + 1 PROVE ~ShouldOffload(i)'
        BY <2>1, <2>5
      <3>1. i < next \/ i = next
        BY DEF TypeOK
      <3>2. CASE i = next
        BY <3>2, <2>5 DEF ShouldOffload
      <3>3. CASE i < next
        <4>1. ~ShouldOffload(i) /\ history'[i] = history[i]
          BY <3>3, <2>1, <2>5 DEF Progress, TypeOK
        <4> QED
          BY <4>1, <2>5 DEF ShouldOffload
      <3> QED
        BY <3>1, <3>2, <3>3
    <2> QED
      BY <2>1, <2>6, <2>7, <2>8, <2>9 DEF Progress, SettledWhenOk
  <1>5. CASE OffloadFails
    <2>1. /\ UNCHANGED <<history, restarts>> /\ at' = "out" /\ next' = 1 /\ result' = "error"
          /\ nextId' = nextId + 1 /\ ShouldOffload(next) /\ next \in DOMAIN history
      BY <1>5 DEF OffloadFails, Saved, TypeOK
    <2>2. history[next].content \in Contents
      BY <2>1 DEF ShouldOffload, Placeholders
    <2>3. /\ DOMAIN files' \subseteq DOMAIN files \cup {nextId} /\ DOMAIN files \subseteq DOMAIN files'
          /\ \A id \in DOMAIN files' : (id \in DOMAIN files /\ files'[id] = files[id]) \/ files'[id] \in Contents
      BY <1>5, <2>2 DEF OffloadFails, Saved
    <2>4. TypeOK'
      BY <2>1, <2>3 DEF TypeOK
    <2>5. Placeholders'
      BY <2>1, <2>3 DEF Placeholders, TypeOK, Message
    <2>6. FilesAreWhole'
      BY <2>3 DEF FilesAreWhole
    <2> QED
      BY <2>1, <2>4, <2>5, <2>6 DEF Progress, SettledWhenOk
  <1>6. CASE OffloadReturns
    <2>1. /\ UNCHANGED <<history, files, nextId, result, restarts>>
          /\ at = "offload" /\ at' = "summary" /\ next' = 1 /\ next > Len(history)
      BY <1>6 DEF OffloadReturns
    <2>2. \A i \in DOMAIN history : i < next
      BY <2>1 DEF TypeOK
    <2>3. \A i \in DOMAIN history' : ~ShouldOffload(i)'
      BY <2>1, <2>2 DEF Progress, ShouldOffload
    <2> QED
      BY <2>1, <2>3 DEF TypeOK, Placeholders, FilesAreWhole, Progress, SettledWhenOk
  <1>7. CASE ReclaimReturns
    <2>1. /\ UNCHANGED <<history, files, nextId, next, restarts>>
          /\ at = "summary" /\ at' = "out" /\ result' = Verdict
      BY <1>7 DEF ReclaimReturns
    <2>2. /\ OffloadShouldApply' = OffloadShouldApply /\ Total' = Total
          /\ \A i \in DOMAIN history : ShouldOffload(i)' = ShouldOffload(i)
      BY <2>1 DEF OffloadShouldApply, Total, ShouldOffload
    <2>3. SettledWhenOk'
      BY <2>1, <2>2 DEF SettledWhenOk, Progress, Verdict
    <2> QED
      BY <2>1, <2>3 DEF TypeOK, Placeholders, FilesAreWhole, Progress, Verdict
  <1>8. CASE Restart
    BY <1>8 DEF Restart, TypeOK, Placeholders, FilesAreWhole, Progress, SettledWhenOk
  <1>9. CASE UNCHANGED vars
    <2>1. UNCHANGED <<history, files, nextId, at, next, result, restarts>>
      BY <1>9 DEF vars
    <2>2. /\ OffloadShouldApply' = OffloadShouldApply /\ Total' = Total
          /\ \A i \in DOMAIN history : ShouldOffload(i)' = ShouldOffload(i)
      BY <2>1 DEF OffloadShouldApply, Total, ShouldOffload
    <2> QED
      BY <2>1, <2>2 DEF TypeOK, Placeholders, FilesAreWhole, Progress, SettledWhenOk
  <1> QED
    BY <1>1, <1>2, <1>3, <1>4, <1>5, <1>6, <1>7, <1>8, <1>9
       DEF Next, Pushes, ReclaimStep, Exhausted

(* The inductive invariant holds.                                          *)
THEOREM InvariantHolds == Spec => []IInv
  BY InitInv, StepInv, PTL DEF Spec

(* Type correctness.                                                       *)
THEOREM TypesHold == Spec => []TypeOK
  BY InvariantHolds, PTL DEF IInv

(* A successful ctx_reclaim has left no long tool message it should have   *)
(* moved, and the history fits the window.                                 *)
THEOREM OkMeansSettled == Spec => []SettledWhenOk
  BY InvariantHolds, PTL DEF IInv

(* Only old tool messages are ever replaced.                               *)
THEOREM RecentAreKept == Spec => RecentStayVerbatim
  <1>1. IInv /\ [Next]_vars =>
           [at = "offload" =>
              \A i \in DOMAIN history \cap DOMAIN history' :
                 \/ history'[i] = history[i]
                 \/ i + Keep <= Len(history) /\ history[i].role = "tool"]_vars
    <2> SUFFICES ASSUME IInv, Next, at = "offload",
                        NEW i \in DOMAIN history \cap DOMAIN history', history'[i] # history[i]
                 PROVE i + Keep <= Len(history) /\ history[i].role = "tool"
      OBVIOUS
    <2>1. CASE OffloadOne
      <3>1. next \in DOMAIN history /\ Replaced(next) /\ ShouldOffload(next) /\ TypeOK
        BY <2>1 DEF OffloadOne, TypeOK, IInv
      <3>2. i = next
        BY <3>1, ReplaceOne
      <3> QED
        BY <3>1, <3>2, LimitsAssumption DEF ShouldOffload, TypeOK
    <2>2. CASE Restart
      BY <2>2 DEF Restart
    <2>3. CASE ~OffloadOne /\ ~Restart
      <3>1. UNCHANGED history
        BY <2>3 DEF Next, Pushes, Push, ReclaimCalled, ReclaimStep, OffloadSkip, OffloadFails,
                    OffloadReturns, ReclaimReturns, Exhausted, vars
      <3> QED
        BY <3>1
    <2> QED
      BY <2>1, <2>2, <2>3
  <1> QED
    BY <1>1, InvariantHolds, PTL DEF Spec, RecentStayVerbatim
-----------------------------------------------------------------------------
(* The refinement.  What every step does to the log:                       *)
LEMMA LogStep ==
  ASSUME ~ShortWrites, IInv, Next
  PROVE  T!Say \/ T!Forget \/ UNCHANGED Log
  <1> USE DEF IInv
  <1>1. ASSUME NEW m \in Said, Push(m) PROVE T!Say
    <2>1. history' = Append(history, m) /\ UNCHANGED files
      BY <1>1 DEF Push
    <2>2. /\ Len(history') = Len(history) + 1
          /\ \A j \in DOMAIN history : j \in DOMAIN history' /\ history'[j] = history[j]
          /\ history'[Len(history) + 1] = m
          /\ m \in Message /\ m.size # "offloaded" /\ m.content \in Contents
      BY <2>1, PushOne
    <2> DEFINE e == [role |-> m.role, tag |-> m.tag, content |-> m.content]
    <2>3. e \in [role : Roles, tag : Tags, content : Contents]
      BY <2>2 DEF Message
    <2>4. Log' = Append(Log, e)
      <3>1. /\ DOMAIN Log' = DOMAIN history' /\ DOMAIN Log = DOMAIN history
            /\ Log' = [i \in DOMAIN Log' |-> Log'[i]] /\ Log = [i \in DOMAIN Log |-> Log[i]]
        BY DEF Log
      <3>2. \A i \in DOMAIN history : Log'[i] = Log[i]
        BY <2>1, <2>2 DEF Log, Recovered
      <3>3. Log'[Len(history) + 1] = e
        <4>1. Len(history) + 1 \in DOMAIN history'
          BY <2>2 DEF TypeOK
        <4> QED
          BY <4>1, <2>2 DEF Log, Recovered
      <3>4. DOMAIN history = 1 .. Len(history) /\ DOMAIN history' = 1 .. Len(history) + 1
        BY <2>1, <2>2 DEF TypeOK
      <3>5. Len(history) \in Nat
        BY DEF TypeOK
      <3> HIDE DEF e
      <3>6. Log \in Seq({Recovered(history[i]) : i \in DOMAIN history}) /\ Len(Log) = Len(history)
        BY <3>4, <3>5 DEF Log
      <3> QED
        BY <3>1, <3>2, <3>3, <3>4, <3>5, <3>6
    <2> QED
      BY <2>3, <2>4 DEF T!Say
  <1>2. CASE OffloadOne
    <2>1. next \in DOMAIN history /\ Replaced(next) /\ ShouldOffload(next)
      BY <1>2 DEF OffloadOne, TypeOK
    <2>2. Saved(history[next].content)
      BY <1>2 DEF OffloadOne
    <2>3. /\ DOMAIN history' = DOMAIN history
          /\ \A j \in DOMAIN history : j # next => history'[j] = history[j]
          /\ history'[next].role = history[next].role /\ history'[next].tag = history[next].tag
          /\ history'[next].size = "offloaded" /\ history'[next].content = nextId
      BY <2>1, ReplaceOne
    <2>4. /\ files'[nextId] = history[next].content
          /\ \A id \in DOMAIN files : id # nextId => files'[id] = files[id]
      BY <2>2 DEF Saved
    <2>5. \A i \in DOMAIN history : Recovered(history[i])' = Recovered(history[i])
      <3> SUFFICES ASSUME NEW i \in DOMAIN history
                   PROVE Recovered(history[i])' = Recovered(history[i])
        OBVIOUS
      <3>1. CASE i = next
        BY <3>1, <2>1, <2>3, <2>4 DEF Recovered, ShouldOffload
      <3>2. CASE i # next
        <4>1. history'[i] = history[i]
          BY <3>2, <2>3
        <4>2. history[i].size = "offloaded" =>
                 history[i].content \in DOMAIN files /\ history[i].content # nextId
          BY DEF Placeholders, TypeOK
        <4> QED
          BY <4>1, <4>2, <2>4 DEF Recovered
      <3> QED
        BY <3>1, <3>2
    <2> QED
      BY <2>3, <2>5 DEF Log
  <1>3. CASE OffloadFails
    <2>1. UNCHANGED history
      BY <1>3 DEF OffloadFails
    <2>2. \A id \in DOMAIN files : id # nextId => files'[id] = files[id]
      BY <1>3 DEF OffloadFails, Saved
    <2>3. \A i \in DOMAIN history : Recovered(history[i])' = Recovered(history[i])
      <3> SUFFICES ASSUME NEW i \in DOMAIN history
                   PROVE Recovered(history[i])' = Recovered(history[i])
        OBVIOUS
      <3>1. history[i].size = "offloaded" =>
               history[i].content \in DOMAIN files /\ history[i].content # nextId
        BY DEF Placeholders, TypeOK
      <3> QED
        BY <2>1, <2>2, <3>1 DEF Recovered
    <2> QED
      BY <2>1, <2>3 DEF Log
  <1>4. CASE Restart
    BY <1>4 DEF Restart, T!Forget, Log
  <1>5. CASE UNCHANGED <<history, files>>
    <2>1. \A i \in DOMAIN history : Recovered(history[i])' = Recovered(history[i])
      BY <1>5 DEF Recovered
    <2> QED
      BY <1>5, <2>1 DEF Log
  <1> QED
    BY <1>1, <1>2, <1>3, <1>4, <1>5
       DEF Next, Pushes, ReclaimStep, Exhausted, ReclaimCalled, OffloadSkip, OffloadReturns,
           ReclaimReturns, vars

(* Context implements the transcript: unless the disk takes less than what *)
(* is written, nothing that was said is lost, altered or moved.            *)
THEOREM ImplementsTranscript == ASSUME ~ShortWrites PROVE Spec => TranscriptSpec
  <1>1. Init => T!Init
    BY DEF Init, T!Init, Log
  <1>2. IInv /\ [Next]_vars => [T!Say \/ T!Forget]_Log
    <2>1. UNCHANGED vars => UNCHANGED Log
      <3> SUFFICES ASSUME UNCHANGED vars PROVE UNCHANGED Log
        OBVIOUS
      <3>1. UNCHANGED <<history, files>>
        BY DEF vars
      <3>2. \A i \in DOMAIN history : Recovered(history[i])' = Recovered(history[i])
        BY <3>1 DEF Recovered
      <3> QED
        BY <3>1, <3>2 DEF Log
    <2> QED
      BY <2>1, LogStep
  <1> QED
    BY <1>1, <1>2, InvariantHolds, PTL DEF Spec, TranscriptSpec, T!Spec
=============================================================================
