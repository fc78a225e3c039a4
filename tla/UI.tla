--------------------------------- MODULE UI ---------------------------------
(***************************************************************************)
(* ui/ui.c and ui/render.c: the render thread, its ring of events, the one *)
(* condition variable it shares with ui_idle, and the main thread calling  *)
(* the ui_* functions in the order agent_chat, executor_run_tools and main *)
(* call them.  All of it runs with the UI mutex held except the waits, so  *)
(* every stretch of the main thread between a lock and the next unlock or  *)
(* wait is one action; a render round takes the events of the ring one by  *)
(* one and then draws, and holds the mutex until it is over.               *)
(*                                                                         *)
(* The terminal is abstracted to what is drawn in the dynamic region       *)
(* (lines_drawn > 0); stdout is taken to be a terminal, the case in which  *)
(* the render thread exists.                                               *)
(***************************************************************************)
EXTENDS Naturals, Sequences, SequencesExt

CONSTANTS MaxSlots,    (* MAX_RENDER_SLOTS                                 *)
          QueueSize,   (* EVENT_QUEUE_SIZE: the ring holds one event less  *)
          BatchSizes,  (* numbers of tools the model may ask for           *)
          Failures     (* whether a chat can fail                          *)

ASSUME SizeAssumption == MaxSlots \in Nat \ {0} /\ QueueSize \in Nat \ {0, 1}
ASSUME BatchAssumption == BatchSizes \subseteq Nat \ {0} /\ Failures \in BOOLEAN

VARIABLES events,      (* the ring, oldest first                           *)
          ack,         (* idle_ack                                         *)
          slots,       (* the state of each slot, count = Len(slots)       *)
          phase,       (* the render thread's RenderPhase                  *)
          drawn,       (* what lines_drawn lines show                      *)
          render,      (* where the render thread is; it has the mutex     *)
                       (* when "draining"                                  *)
          stop,        (* shutdown: SHUTDOWN was in this round             *)
          main,        (* where the main thread is                         *)
          blocked,     (* main is inside the pthread_cond_wait of ui_idle  *)
          todo,        (* tools of the running batch that have not ended   *)
          stale,       (* history: an IDLE event was still in the ring     *)
                       (* when idle_ack was last cleared                   *)
          shown        (* history: the results of the latest batch have    *)
                       (* been drawn for good                              *)

vars == <<events, ack, slots, phase, drawn, render, stop, main, blocked, todo, stale, shown>>
screen == <<phase, drawn, shown>>

Init ==
    /\ events = <<>> /\ ack = FALSE /\ slots = <<>>
    /\ phase = "idle" /\ drawn = "nothing" /\ render = "locking" /\ stop = FALSE
    /\ main = "prompt" /\ blocked = FALSE /\ todo = {}
    /\ stale = FALSE /\ shown = FALSE
-----------------------------------------------------------------------------
(* push_event_locked: a full ring loses its oldest event.                  *)
Pushed(ev) ==
    IF Len(events) = QueueSize - 1 THEN Append(Tail(events), ev) ELSE Append(events, ev)

(* pthread_cond_signal on the shared condition: one of the waiters, if     *)
(* any, goes on.  A timed wait ends by itself, so nothing more than        *)
(* absorbing the signal happens to it.                                     *)
Signal ==
    \/ render = "waiting" /\ render' = "locking" /\ UNCHANGED blocked
    \/ render = "timed" /\ UNCHANGED <<render, blocked>>
    \/ blocked /\ blocked' = FALSE /\ UNCHANGED render
    \/ render \notin {"waiting", "timed"} /\ ~blocked /\ UNCHANGED <<render, blocked>>

Unlocked == render # "draining"

Post(ev) == Unlocked /\ events' = Pushed(ev) /\ Signal /\ UNCHANGED stop

(* THINKING and TOOLS_START clear the acknowledgement when they are posted.*)
ClearAck == ack' = FALSE /\ stale' = Contains(events, "idle")
-----------------------------------------------------------------------------
(* The main thread: agent_chat begins a turn.                              *)
BeginThinking ==
    /\ main \in {"prompt", "turn"}
    /\ ClearAck
    /\ Post("thinking")
    /\ main' = "llm"
    /\ UNCHANGED <<slots, screen, todo>>

(* ui_begin_tools replaces all slots.                                      *)
UiBeginTools(n) ==
    /\ slots' = [i \in 1 .. (IF n > MaxSlots THEN MaxSlots ELSE n) |-> "running"]
    /\ ClearAck
    /\ Post("tools_start")
    /\ shown' = FALSE
    /\ UNCHANGED <<phase, drawn>>

(* The model asked for n tools: agent_chat announces them, and             *)
(* executor_run_tools announces them again before it runs them.            *)
Announce(n) ==
    /\ main = "llm"
    /\ UiBeginTools(n)
    /\ todo' = 1 .. n
    /\ main' = "announced"

BeginTools ==
    /\ main = "announced"
    /\ \E n \in BatchSizes : todo = 1 .. n /\ UiBeginTools(n)
    /\ main' = "tools"
    /\ UNCHANGED todo

(* A tool ends, in the main thread or in a worker: ui_tool_done ignores    *)
(* the indices that have no slot.                                          *)
ToolDone(i) ==
    /\ main = "tools" /\ i \in todo
    /\ todo' = todo \ {i}
    /\ IF i <= Len(slots)
       THEN slots' = [slots EXCEPT ![i] = "done"] /\ Post("tool_done")
       ELSE Unlocked /\ UNCHANGED <<slots, events, render, blocked, stop>>
    /\ UNCHANGED <<ack, screen, main, stale>>

(* ui_idle posts IDLE, then locks again to wait.                           *)
IdlePosted ==
    /\ \/ main = "llm" /\ main' = "idleText"
       \/ main = "tools" /\ todo = {} /\ main' = "idleTools"
    /\ Post("idle")
    /\ UNCHANGED <<ack, slots, screen, todo, stale>>

Awaiting == main \in {"idleText", "idleTools"}

IdleBlocks ==
    /\ Awaiting /\ Unlocked /\ ~blocked /\ ~ack
    /\ blocked' = TRUE
    /\ UNCHANGED <<events, ack, slots, screen, render, stop, main, todo, stale>>

IdleReturns ==
    /\ Awaiting /\ Unlocked /\ ~blocked /\ ack
    /\ main' = IF main = "idleText" THEN "print" ELSE "turn"
    /\ UNCHANGED <<events, ack, slots, screen, render, stop, blocked, todo, stale>>

(* main prints the reply.                                                  *)
PrintReply ==
    /\ main = "print"
    /\ main' = "prompt"
    /\ UNCHANGED <<events, ack, slots, screen, render, stop, blocked, todo, stale>>

(* llm_chat fails, the arguments of a call cannot be serialised, the turn  *)
(* limit is reached or history does not fit; or a task cannot be submitted *)
(* and the ones before it have been waited for.  The error is printed      *)
(* without ui_idle.                                                        *)
ChatFails ==
    /\ Failures
    /\ \/ main \in {"llm", "turn", "announced"}
       \/ main = "tools" /\ \E n \in BatchSizes : \E k \in 1 .. n : todo = k .. n
    /\ main' = "prompt"
    /\ todo' = {}
    /\ UNCHANGED <<events, ack, slots, screen, render, stop, blocked, stale>>

(* ui_stop: SHUTDOWN, then join.                                           *)
StopPosted ==
    /\ main = "prompt"
    /\ Post("shutdown")
    /\ main' = "stopping"
    /\ UNCHANGED <<ack, slots, screen, todo, stale>>

StopReturns ==
    /\ main = "stopping" /\ render = "exited"
    /\ main' = "stopped" /\ slots' = <<>>
    /\ UNCHANGED <<events, ack, screen, render, stop, blocked, todo, stale>>
-----------------------------------------------------------------------------
(* The render thread.  An idle one tests the ring before it waits.         *)
(* Mutant of RenderSleeps: it does not.                                    *)
RenderSleepsAtOnce ==
    /\ render = "locking" /\ phase = "idle"
    /\ render' = "waiting"
    /\ UNCHANGED <<events, ack, slots, screen, stop, main, blocked, todo, stale>>

RenderSleeps ==
    /\ render = "locking" /\ phase = "idle" /\ events = <<>>
    /\ render' = "waiting"
    /\ UNCHANGED <<events, ack, slots, screen, stop, main, blocked, todo, stale>>

(* Otherwise it waits for the next frame, whatever the ring holds.         *)
RenderWaitsFrame ==
    /\ render = "locking" /\ phase # "idle"
    /\ render' = "timed"
    /\ UNCHANGED <<events, ack, slots, screen, stop, main, blocked, todo, stale>>

RoundBegins ==
    /\ \/ render = "timed"
       \/ render = "locking" /\ phase = "idle" /\ events # <<>>
    /\ render' = "draining" /\ stop' = FALSE
    /\ UNCHANGED <<events, ack, slots, screen, main, blocked, todo, stale>>

(* Mutant of EnterIdle: ui_idle is not woken.                              *)
EnterIdleSilently == ack' = TRUE /\ UNCHANGED blocked

(* enter_idle acknowledges and wakes ui_idle.                              *)
EnterIdle == ack' = TRUE /\ blocked' = FALSE

(* render_tools reports whether every slot has ended; then its frame stays *)
(* in the scrollback and nothing dynamic is left.                          *)
AllDone == \A i \in 1 .. Len(slots) : slots[i] = "done"

(* The next event of the round.                                            *)
Handles(ev) ==
    /\ render = "draining" /\ events # <<>> /\ Head(events) = ev
    /\ events' = Tail(events)
    /\ UNCHANGED <<slots, render, main, todo, stale>>

HandlesThinking ==
    /\ Handles("thinking")
    /\ phase' = "thinking"
    /\ UNCHANGED <<drawn, shown, stop, ack, blocked>>

HandlesToolsStart ==
    /\ Handles("tools_start")
    /\ drawn' = "nothing" /\ phase' = "tools"
    /\ UNCHANGED <<shown, stop, ack, blocked>>

HandlesToolDone ==
    /\ Handles("tool_done")
    /\ UNCHANGED <<screen, stop, ack, blocked>>

(* Mutants of HandlesIdle: the dynamic region is not erased; the tools are *)
(* not drawn first.                                                        *)
HandlesIdleNoErase ==
    /\ Handles("idle")
    /\ shown' = (shown \/ (phase = "tools" /\ AllDone))
    /\ phase' = "idle"
    /\ EnterIdle
    /\ UNCHANGED <<drawn, stop>>

HandlesIdleNoFrame ==
    /\ Handles("idle")
    /\ drawn' = "nothing" /\ phase' = "idle"
    /\ EnterIdle
    /\ UNCHANGED <<shown, stop>>

(* IDLE draws the tools once more before it erases what is not final.      *)
HandlesIdle ==
    /\ Handles("idle")
    /\ shown' = (shown \/ (phase = "tools" /\ AllDone))
    /\ drawn' = "nothing" /\ phase' = "idle"
    /\ EnterIdle
    /\ UNCHANGED stop

HandlesShutdown ==
    /\ Handles("shutdown")
    /\ stop' = TRUE
    /\ UNCHANGED <<screen, ack, blocked>>

(* The ring is empty: the thread ends, or draws, and unlocks.              *)
Drained == render = "draining" /\ events = <<>> /\ UNCHANGED <<events, slots, main, todo, stale>>

RenderExits ==
    /\ Drained /\ stop
    /\ render' = "exited" /\ drawn' = "nothing"
    /\ UNCHANGED <<phase, shown, stop, ack, blocked>>

DrawsNoTools ==
    /\ Drained /\ ~stop /\ phase # "tools"
    /\ render' = "locking"
    /\ drawn' = IF phase = "thinking" THEN "spinner" ELSE drawn
    /\ UNCHANGED <<phase, shown, stop, ack, blocked>>

DrawsTools ==
    /\ Drained /\ ~stop /\ phase = "tools"
    /\ render' = "locking"
    /\ IF AllDone
       THEN drawn' = "nothing" /\ shown' = TRUE /\ phase' = "idle" /\ EnterIdle
       ELSE drawn' = "tools" /\ UNCHANGED <<phase, shown, ack, blocked>>
    /\ UNCHANGED stop

(* POSIX lets a wait return without a signal.                              *)
SpuriousWakeup ==
    /\ \/ render = "waiting" /\ render' = "locking" /\ UNCHANGED blocked
       \/ blocked /\ blocked' = FALSE /\ UNCHANGED render
    /\ UNCHANGED <<events, ack, slots, screen, stop, main, todo, stale>>
-----------------------------------------------------------------------------
MainStep ==
    \/ BeginThinking \/ (\E n \in BatchSizes : Announce(n)) \/ BeginTools
    \/ IdlePosted \/ IdleBlocks \/ IdleReturns \/ PrintReply \/ ChatFails
    \/ StopPosted \/ StopReturns

RenderStep ==
    \/ RenderSleeps \/ RenderWaitsFrame \/ RoundBegins
    \/ HandlesThinking \/ HandlesToolsStart \/ HandlesToolDone \/ HandlesIdle \/ HandlesShutdown
    \/ RenderExits \/ DrawsNoTools \/ DrawsTools

Terminated == main = "stopped" /\ UNCHANGED vars

Next ==
    \/ MainStep
    \/ \E i \in todo : ToolDone(i)
    \/ RenderStep \/ SpuriousWakeup \/ Terminated

(* Both threads go on when they can; in particular a timed wait times out. *)
Fairness ==
    /\ WF_vars(RenderStep)
    /\ WF_vars(IdleBlocks \/ IdleReturns)
    /\ WF_vars(StopReturns)

Spec == Init /\ [][Next]_vars
FairSpec == Spec /\ Fairness
-----------------------------------------------------------------------------
TypeOK ==
    /\ events \in Seq({"thinking", "tools_start", "tool_done", "idle", "shutdown"})
    /\ Len(events) < QueueSize
    /\ stop \in BOOLEAN
    /\ ack \in BOOLEAN /\ blocked \in BOOLEAN /\ stale \in BOOLEAN /\ shown \in BOOLEAN
    /\ slots \in Seq({"running", "done"}) /\ Len(slots) <= MaxSlots
    /\ phase \in {"idle", "thinking", "tools"}
    /\ drawn \in {"nothing", "spinner", "tools"}
    /\ render \in {"locking", "waiting", "timed", "draining", "exited"}
    /\ main \in {"prompt", "turn", "llm", "announced", "tools", "idleText", "idleTools",
                 "print", "stopping", "stopped"}
    /\ todo \subseteq Nat

(* No wake-up is lost over the ring and the shared condition variable: the *)
(* event a thread waits for is never among those a full ring loses, the    *)
(* render thread never sleeps on an event, and ui_idle never sleeps on an  *)
(* acknowledgement.                                                        *)
WakeUpIsPending ==
    /\ Awaiting => ack \/ Contains(events, "idle")
    /\ main = "stopping" =>
          \/ Contains(events, "shutdown")
          \/ render = "draining" /\ stop
          \/ render = "exited"
    /\ render = "waiting" => events = <<>>
    /\ blocked => ~ack

Released == drawn = "nothing" /\ phase = "idle" /\ events = <<>>

(* What ui_idle settles, provided no IDLE event of an earlier ui_idle was  *)
(* in the ring when the turn began: when the reply is printed the render   *)
(* thread has handled every event, erased its region and draws no more;    *)
(* and after a batch of tools their results have reached the scrollback,   *)
(* whether the render thread saw the last tool end by itself or IDLE came  *)
(* first.                                                                  *)
SettledWhenFresh ==
    ~stale =>
        /\ main = "print" => Released
        /\ main = "turn" => shown

(* The barrier as ui.h states it.                                          *)
Barrier == main = "print" => Released

(* ui_idle returns, and ui_stop joins the render thread.                   *)
WaitsEnd ==
    /\ Awaiting ~> ~Awaiting
    /\ main = "stopping" ~> main = "stopped"
=============================================================================
