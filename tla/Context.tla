------------------------------ MODULE Context ------------------------------
(***************************************************************************)
(* context/context.c with the offload and summary policies: the history of *)
(* messages, and ctx_reclaim, which moves the contents of old tool         *)
(* messages to files before a request to the model.                        *)
(*                                                                         *)
(* A message is what its JSON says: a role, a tag for the fields that stay *)
(* when the content is replaced (tool_call_id, tool_calls), and a content. *)
(* Sizes are classes: a content of more than 200 characters is "long", a   *)
(* placeholder has at most 188.  The content of a placeholder is the       *)
(* number of its file; its preview is left out.                            *)
(***************************************************************************)
EXTENDS Naturals, Sequences, SequencesExt

CONSTANTS Tags, Contents,
          Said,             (* the messages that can be pushed             *)
          Cost,             (* ctx_estimate_tokens, by size class          *)
          Window,           (* context_window, in tokens                   *)
          OffloadPercent,   (* OFFLOAD_THRESHOLD                           *)
          Keep,             (* KEEP_RECENT_MSGS                            *)
          ShortWrites,      (* whether fwrite or fclose can fail           *)
          Truncated,        (* what a file holds after a short write       *)
          MaxMessages,      (* bound: messages in the history              *)
          MaxFiles,         (* bound: no reclaim once this many ids went   *)
          MaxRestarts       (* bound: ends of the process                  *)

Roles == {"user", "assistant", "tool"}
Sizes == {"short", "long", "offloaded"}

ASSUME LimitsAssumption ==
    /\ {Window, OffloadPercent, Keep} \subseteq Nat
    /\ {MaxMessages, MaxFiles, MaxRestarts} \subseteq Nat
ASSUME CostAssumption == Cost \in [Sizes -> Nat] /\ Cost["offloaded"] < Cost["long"]
ASSUME ContentsAssumption == ShortWrites \in BOOLEAN /\ Truncated \notin Contents
ASSUME SaidAssumption ==
    Said \subseteq [role : Roles, tag : Tags, size : {"short", "long"}, content : Contents]

VARIABLES history,
          files,            (* .agent/offload/<id>.txt, by id              *)
          nextId,           (* next_offload_id                             *)
          at,               (* where ctx_reclaim is                        *)
          next,             (* loop index of offload_apply                 *)
          result,           (* what the latest ctx_reclaim returned;       *)
                            (* "none" when a message was pushed since      *)
          restarts

vars == <<history, files, nextId, at, next, result, restarts>>

Init ==
    /\ history = <<>> /\ files = <<>> /\ nextId = 0
    /\ at = "out" /\ next = 1 /\ result = "none" /\ restarts = 0
-----------------------------------------------------------------------------
TokensOf(messages) == FoldLeft(LAMBDA tokens, m : tokens + Cost[m.size], 0, messages)
Total == TokensOf(history)

(* ctx_push *)
Push(m) ==
    /\ at = "out"
    /\ history' = Append(history, m)
    /\ result' = "none"
    /\ UNCHANGED <<files, nextId, at, next, restarts>>

(* config_init stores the percentages as fractions in fields of type int.  *)
OffloadThreshold == OffloadPercent \div 100

OffloadShouldApply == Window > 0 /\ Total > OffloadThreshold * Window

(* Not implemented. *)
SummaryShouldApply == FALSE

ReclaimCalled ==
    /\ at = "out" /\ nextId < MaxFiles
    /\ at' = IF OffloadShouldApply THEN "offload" ELSE "summary"
    /\ next' = 1 /\ result' = "none"
    /\ UNCHANGED <<history, files, nextId, restarts>>

(* Mutant of ShouldOffload: a long message of any role is moved.           *)
ShouldOffloadAny(i) ==
    i <= Len(history) - Keep /\ history[i].size = "long"

(* should_offload_message *)
ShouldOffload(i) ==
    i <= Len(history) - Keep /\ history[i].role = "tool" /\ history[i].size = "long"

(* Mutant of Saved: the id is not advanced.                                *)
SavedSameId(written) ==
    /\ files' = [id \in DOMAIN files \cup {nextId} |->
                    IF id = nextId THEN written ELSE files[id]]
    /\ UNCHANGED nextId

(* save_to_offload: the file is truncated and written; whether all of the  *)
(* content got there is not tested.                                        *)
Saved(written) ==
    /\ files' = [id \in DOMAIN files \cup {nextId} |->
                    IF id = nextId THEN written ELSE files[id]]
    /\ nextId' = nextId + 1

(* ctx_replace_msg with the duplicate of the message that holds the        *)
(* placeholder.                                                            *)
Replaced(i) ==
    history' = [history EXCEPT ![i] = [@ EXCEPT !.size = "offloaded", !.content = nextId]]

(* Mutants of OffloadSkip: it ends the loop; it does not advance.          *)
OffloadSkipBreaks ==
    /\ at = "offload" /\ next <= Len(history) /\ ~ShouldOffload(next)
    /\ next' = Len(history) + 1
    /\ UNCHANGED <<history, files, nextId, at, result, restarts>>

OffloadSkip ==
    /\ at = "offload" /\ next <= Len(history) /\ ~ShouldOffload(next)
    /\ next' = next + 1
    /\ UNCHANGED <<history, files, nextId, at, result, restarts>>

OffloadOne ==
    /\ at = "offload" /\ next <= Len(history) /\ ShouldOffload(next)
    /\ \E written \in {history[next].content} \cup IF ShortWrites THEN {Truncated} ELSE {} :
          Saved(written)
    /\ Replaced(next)
    /\ next' = next + 1
    /\ UNCHANGED <<at, result, restarts>>

(* The file cannot be opened, or the placeholder cannot be printed: the    *)
(* messages replaced before stay replaced and the id is spent.             *)
OffloadFails ==
    /\ at = "offload" /\ next <= Len(history) /\ ShouldOffload(next)
    /\ \/ nextId' = nextId + 1 /\ UNCHANGED files
       \/ Saved(history[next].content)
    /\ at' = "out" /\ next' = 1 /\ result' = "error"
    /\ UNCHANGED <<history, restarts>>

OffloadReturns ==
    /\ at = "offload" /\ next > Len(history)
    /\ at' = "summary" /\ next' = 1
    /\ UNCHANGED <<history, files, nextId, result, restarts>>

Verdict == IF Window > 0 /\ Total > Window THEN "exceeded" ELSE "ok"

(* The summary policy never applies; the final test.                       *)
ReclaimReturns ==
    /\ at = "summary" /\ ~SummaryShouldApply
    /\ at' = "out" /\ result' = Verdict
    /\ UNCHANGED <<history, files, nextId, next, restarts>>

(* The process ends, anywhere, and is started again in the same directory: *)
(* the files stay and their numbers are given again.                       *)
Restart ==
    /\ restarts < MaxRestarts
    /\ restarts' = restarts + 1
    /\ history' = <<>> /\ nextId' = 0 /\ at' = "out" /\ next' = 1 /\ result' = "none"
    /\ UNCHANGED files
-----------------------------------------------------------------------------
ReclaimStep ==
    OffloadSkip \/ OffloadOne \/ OffloadFails \/ OffloadReturns \/ ReclaimReturns

Pushes == Len(history) < MaxMessages /\ \E m \in Said : Push(m)

(* The bound on files is used up. *)
Exhausted == at = "out" /\ nextId >= MaxFiles /\ UNCHANGED vars

Next == Pushes \/ ReclaimCalled \/ ReclaimStep \/ Restart \/ Exhausted

Spec == Init /\ [][Next]_vars
FairSpec == Spec /\ WF_vars(ReclaimStep)
-----------------------------------------------------------------------------
Message == [role : Roles, tag : Tags, size : Sizes, content : Contents \cup Nat]

TypeOK ==
    /\ history \in Seq(Message)
    /\ nextId \in Nat
    /\ DOMAIN files \subseteq Nat
    /\ \A id \in DOMAIN files : files[id] \in Contents \cup {Truncated}
    /\ at \in {"out", "offload", "summary"} /\ next \in Nat \ {0}
    /\ result \in {"none", "ok", "exceeded", "error"} /\ restarts \in Nat

(* What read_file finds for a placeholder; a message as it was said.       *)
Recovered(m) ==
    [role |-> m.role, tag |-> m.tag,
     content |-> IF m.size = "offloaded" THEN files[m.content] ELSE m.content]

Log == [i \in DOMAIN history |-> Recovered(history[i])]

T == INSTANCE Transcript WITH
        log <- Log, Entries <- [role : Roles, tag : Tags, content : Contents]

(* The history is an append-only log of what was said, whatever has been   *)
(* moved to files, however reclaiming failed half-way and although the     *)
(* numbers of the files start again with every process: every placeholder  *)
(* leads to the content it stands for.                                     *)
TranscriptSpec == T!Spec

(* After a successful ctx_reclaim usage was within the threshold, or every *)
(* long tool message outside the recent ones is in a file, also those an   *)
(* earlier failure left behind; and the history fits the window.           *)
SettledWhenOk ==
    result = "ok" =>
        /\ OffloadShouldApply => \A i \in DOMAIN history : ~ShouldOffload(i)
        /\ ~(Window > 0 /\ Total > Window)

(* Only tool messages, and none of the most recent Keep, are ever replaced:*)
(* what the model is working on stays verbatim.                            *)
RecentStayVerbatim ==
    [][at = "offload" =>
          \A i \in DOMAIN history \cap DOMAIN history' :
              \/ history'[i] = history[i]
              \/ i + Keep <= Len(history) /\ history[i].role = "tool"]_vars

-----------------------------------------------------------------------------
(* handout-3: offloading is lossless.                                      *)
Lossless ==
    \A i \in DOMAIN history : Recovered(history[i]).content \in Contents
=============================================================================
