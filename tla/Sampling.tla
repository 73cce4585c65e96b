------------------------------ MODULE Sampling ------------------------------
(***************************************************************************)
(* The text before the caret that a prediction is given: the thread of the *)
(* AT-SPI backend samples the focused widget in its GLib main loop, the    *)
(* engine thread switches the collection on and off with its input         *)
(* contexts and adopts the latest sample for a prediction.  A text is      *)
(* abstracted to the widget it was read from and the composition whose     *)
(* preedit it ends with; a context and its widget have the same name.      *)
(***************************************************************************)
EXTENDS Naturals

CONSTANTS
  Contexts,
  Passwords,       \* contexts with a password widget
  None,
  MaxGeneration,   \* bound on activations and deactivations
  MaxSequence,     \* bound on samples
  MaxCompositions  \* bound on compositions: they are numbered from 1

ASSUME SamplingAssumption == MaxGeneration \in Nat /\ MaxSequence \in Nat /\ MaxCompositions \in Nat

VARIABLES
  thread,      \* the backend thread; quit: g_main_loop_quit() was called
  running,     \* running_
  sampler,     \* where a callback of the main loop is, the widget and text it holds
  pending,     \* pending_source_
  idle,        \* idle_source_, the callbacks attached to the loop, and idle_generation_
  queuing,     \* where each thread is in queue_idle(), and the generation it has read
  gate,        \* active_ and activation_generation_
  sample,      \* sample_: its sequence is that of the latest publish
  main,        \* where the engine thread is
  current,     \* the context that the host has activated
  base,        \* accessibility_base_sequence_
  composition, \* of each context, 0 without one
  started,     \* compositions so far
  compositionBase, \* accessibility_composition_base_
  preedit,     \* the composition whose preedit each widget shows
  focused,     \* the widget with the focus on the accessibility bus
  adopted      \* what the latest prediction of the composition was given, and how

threadVars == <<thread, running>>
samplerVars == <<sampler, pending>>
idleVars == <<idle, queuing>>
engineVars == <<main, current, base>>
textVars == <<composition, started, compositionBase, adopted>>
desktopVars == <<preedit, focused>>
vars == <<threadVars, samplerVars, idleVars, gate, sample, engineVars, textVars, desktopVars>>

NoText == [widget |-> None, preedit |-> 0]
NothingAdopted == [text |-> NoText, whole |-> FALSE, composition |-> 0]
Threads == {"engine", "backend"}
NotQueuing == [step |-> "none", generation |-> 0]
Quiet == [pc |-> "loop", widget |-> None, text |-> NoText, usable |-> FALSE]

\* Every variable keeps its type, and counters stay within their bounds.
TypeOK ==
  /\ thread \in [state : {"off", "starting", "ready", "looping", "failed", "ended"}, quit : BOOLEAN]
  /\ running \in BOOLEAN
  /\ sampler.pc \in {"loop", "lost", "event", "queue", "idle", "compare", "choose", "read", "publish"}
  /\ sampler.widget \in Contexts \cup {None} /\ sampler.usable \in BOOLEAN
  /\ pending \in Contexts \cup {None}
  /\ idle \in [source : BOOLEAN, attached : Nat, generation : 0..MaxGeneration]
  /\ queuing \in [Threads -> [step : {"none", "look", "generation", "stamp", "attach", "store"},
                              generation : 0..MaxGeneration]]
  /\ gate \in [active : BOOLEAN, generation : 0..MaxGeneration]
  /\ sample.sequence \in 0..MaxSequence /\ sample.usable \in BOOLEAN
  /\ main \in {"new", "waiting", "ready", "switching", "withdrawing", "basing", "refreshing", "queuing",
               "joining", "stopped"}
  /\ current \in Contexts \cup {None}
  /\ base \in 0..sample.sequence /\ compositionBase \in 0..sample.sequence
  /\ started \in 0..MaxCompositions /\ composition \in [Contexts -> 0..started]
  /\ preedit \in [Contexts -> 0..started] /\ focused \in Contexts \cup {None}

Init ==
  /\ thread = [state |-> "off", quit |-> FALSE] /\ running = FALSE
  /\ sampler = Quiet /\ pending = None
  /\ idle = [source |-> FALSE, attached |-> 0, generation |-> 0]
  /\ queuing = [t \in Threads |-> NotQueuing]
  /\ gate = [active |-> FALSE, generation |-> 0]
  /\ sample = [text |-> NoText, usable |-> FALSE, sequence |-> 0]
  /\ main = "new" /\ current = None /\ base = 0
  /\ composition = [c \in Contexts |-> 0] /\ started = 0 /\ compositionBase = 0
  /\ preedit = [c \in Contexts |-> 0] /\ focused = None
  /\ adopted = NothingAdopted

\* publish(): every sample has a sequence of its own, usable or not.
Publish(text, usable) ==
  /\ sample.sequence < MaxSequence
  /\ sample' = [text |-> text, usable |-> usable, sequence |-> sample.sequence + 1]

-----------------------------------------------------------------------------
(* queue_idle(): either thread may be in it, and neither keeps the other out *)

\* The call.
QueueIdle(t) == queuing' = [queuing EXCEPT ![t].step = "look"]
HasQueued(t) == queuing[t].step = "none"

InQueueIdle(t, step, next) ==
  /\ queuing[t].step = step
  /\ queuing' = [queuing EXCEPT ![t] = [step |-> next, generation |-> 0]]
  /\ UNCHANGED <<threadVars, samplerVars, gate, sample, engineVars, textVars, desktopVars>>

\* A callback that is known to wait is enough.
LookForSource(t) ==
  /\ InQueueIdle(t, "look", IF idle.source THEN "none" ELSE "generation")
  /\ UNCHANGED idle

ReadGeneration(t) ==
  /\ queuing[t].step = "generation"
  /\ queuing' = [queuing EXCEPT ![t] = [step |-> "stamp", generation |-> gate.generation]]
  /\ UNCHANGED <<threadVars, samplerVars, idle, gate, sample, engineVars, textVars, desktopVars>>

StampIdle(t) ==
  /\ InQueueIdle(t, "stamp", "attach")
  /\ idle' = [idle EXCEPT !.generation = queuing[t].generation]

AttachIdle(t) ==
  /\ InQueueIdle(t, "attach", "store")
  /\ idle' = [idle EXCEPT !.attached = @ + 1]

\* The callback may have run by now.
StoreSource(t) ==
  /\ InQueueIdle(t, "store", "none")
  /\ idle' = [idle EXCEPT !.source = TRUE]

-----------------------------------------------------------------------------
(* The life of the backend                                                  *)

\* AtspiLibrary::open(): the library is optional.
LibraryLoads == BOOLEAN
\* The accessibility bus may be unreachable, and libatspi may refuse.
BackendComesUp == BOOLEAN

\* start_backend(): the engine waits for the thread, five seconds at most.
Start ==
  /\ main = "new"
  /\ \E loads \in LibraryLoads :
       IF loads
       THEN main' = "waiting" /\ running' = TRUE /\ thread' = [thread EXCEPT !.state = "starting"]
       ELSE main' = "ready" /\ UNCHANGED threadVars
  /\ UNCHANGED <<samplerVars, idleVars, gate, sample, current, base, textVars, desktopVars>>

StartReturns ==
  /\ main = "waiting"
  /\ main' = "ready"
  /\ \/ thread.state = "starting" /\ running' = FALSE
     \/ thread.state # "starting" /\ UNCHANGED running
  /\ UNCHANGED <<thread, samplerVars, idleVars, gate, sample, current, base, textVars, desktopVars>>

ThreadStarts ==
  /\ thread.state = "starting"
  /\ \E up \in BackendComesUp :
       /\ thread' = [thread EXCEPT !.state = IF up THEN "ready" ELSE "failed"]
       /\ running' = (running /\ up)
       /\ IF up THEN QueueIdle("backend") ELSE UNCHANGED queuing
  /\ UNCHANGED <<samplerVars, idle, gate, sample, engineVars, textVars, desktopVars>>

RunLoop ==
  /\ thread.state = "ready" /\ HasQueued("backend")
  /\ thread' = [thread EXCEPT !.state = "looping"]
  /\ UNCHANGED <<running, samplerVars, idleVars, gate, sample, engineVars, textVars, desktopVars>>

\* stop() of the destructor: there is no loop to quit before the thread has made
\* one, and quitting one that does not run yet has no effect.
Stop ==
  /\ main = "ready"
  /\ running' = FALSE
  /\ thread' = [thread EXCEPT !.quit = thread.state = "looping"]
  /\ main' = IF thread.state = "off" THEN "stopped" ELSE "joining"
  /\ UNCHANGED <<samplerVars, idleVars, gate, sample, current, base, textVars, desktopVars>>

QuitLoop ==
  /\ thread.state = "looping" /\ thread.quit /\ sampler.pc = "loop"
  /\ thread' = [thread EXCEPT !.state = "ended"]
  /\ running' = FALSE
  /\ pending' = None
  /\ UNCHANGED <<sampler, idleVars, gate, sample, engineVars, textVars, desktopVars>>

Join ==
  /\ main = "joining" /\ thread.state \in {"failed", "ended"}
  /\ main' = "stopped"
  /\ UNCHANGED <<threadVars, samplerVars, idleVars, gate, sample, current, base, textVars, desktopVars>>

-----------------------------------------------------------------------------
(* Callbacks of the main loop                                               *)

Looping == thread.state = "looping" /\ sampler.pc = "loop"
Continue(pc) == sampler' = [sampler EXCEPT !.pc = pc]

\* on_event(): dropped unless the collection is on; a source without a text interface
\* is no widget, and has none to lose.
OnEvent(w, lost) ==
  /\ Looping /\ gate.active /\ (lost => w # None)
  /\ sampler' = [Quiet EXCEPT !.pc = IF lost THEN "lost" ELSE "event", !.widget = w]
  /\ UNCHANGED <<threadVars, pending, idleVars, gate, sample, engineVars, textVars, desktopVars>>

\* The widget being left behind, or a password: nothing may be used.
HandleLoss ==
  /\ \/ sampler.pc = "lost" /\ pending' = None
     \/ sampler.pc = "event" /\ sampler.widget \in Passwords /\ UNCHANGED pending
  /\ Publish(NoText, FALSE)
  /\ sampler' = Quiet
  /\ UNCHANGED <<threadVars, idleVars, gate, engineVars, textVars, desktopVars>>

HandleEvent ==
  /\ sampler.pc = "event" /\ sampler.widget \notin Passwords
  /\ pending' = IF sampler.widget = None THEN pending ELSE sampler.widget
  /\ sampler' = [Quiet EXCEPT !.pc = "queue"] /\ QueueIdle("backend")
  /\ UNCHANGED <<threadVars, idle, gate, sample, engineVars, textVars, desktopVars>>

QueueReturns ==
  /\ sampler.pc = "queue" /\ HasQueued("backend")
  /\ sampler' = Quiet
  /\ UNCHANGED <<threadVars, pending, idleVars, gate, sample, engineVars, textVars, desktopVars>>

OnIdle ==
  /\ Looping /\ idle.attached > 0
  /\ idle' = [idle EXCEPT !.source = FALSE, !.attached = @ - 1]
  /\ Continue("idle")
  /\ UNCHANGED <<threadVars, pending, queuing, gate, sample, engineVars, textVars, desktopVars>>

CheckActive ==
  /\ sampler.pc = "idle"
  /\ IF gate.active THEN Continue("compare") /\ UNCHANGED pending ELSE sampler' = Quiet /\ pending' = None
  /\ UNCHANGED <<threadVars, idleVars, gate, sample, engineVars, textVars, desktopVars>>

\* What was queued in an earlier activation is forgotten.
CheckGeneration ==
  /\ sampler.pc = "compare"
  /\ IF idle.generation = gate.generation
     THEN Continue("choose") /\ UNCHANGED <<pending, queuing>>
     ELSE Continue("queue") /\ pending' = None /\ QueueIdle("backend")
  /\ UNCHANGED <<threadVars, idle, gate, sample, engineVars, textVars, desktopVars>>

\* focused_text_object(): the search of the tree is bounded and may find nothing.
FocusedText == {None} \cup ({focused} \ Passwords)

\* The source of the event while it is focused, or else the focused text, or
\* else the source all the same.
ChooseWidget ==
  /\ sampler.pc = "choose"
  /\ \E found \in FocusedText :
       sampler' = [sampler EXCEPT !.pc = "read",
                     !.widget = IF pending # None /\ (focused = pending \/ found = None) THEN pending ELSE found]
  /\ pending' = None
  /\ UNCHANGED <<threadVars, idleVars, gate, sample, engineVars, textVars, desktopVars>>

\* publish_from_object() asks the application, which may fail to answer,
ReadText ==
  /\ sampler.pc = "read"
  /\ \E readable \in BOOLEAN :
       LET usable == readable /\ sampler.widget \notin Passwords \cup {None}
       IN  sampler' = [Quiet EXCEPT !.pc = "publish", !.usable = usable,
                         !.text = IF usable THEN [widget |-> sampler.widget, preedit |-> preedit[sampler.widget]]
                                  ELSE NoText]
  /\ UNCHANGED <<threadVars, pending, idleVars, gate, sample, engineVars, textVars, desktopVars>>

\* and publishes what it answered.
PublishText ==
  /\ sampler.pc = "publish"
  /\ Publish(sampler.text, sampler.usable)
  /\ sampler' = Quiet
  /\ UNCHANGED <<threadVars, pending, idleVars, gate, engineVars, textVars, desktopVars>>

-----------------------------------------------------------------------------
(* The engine thread                                                        *)

\* set_active(): the exchange,
Switch(on) ==
  /\ gate.active # on /\ gate.generation < MaxGeneration
  /\ gate' = [gate EXCEPT !.active = on]
  /\ main' = "switching"

\* and then the count.
CountActivation ==
  /\ main = "switching"
  /\ gate' = [gate EXCEPT !.generation = @ + 1]
  /\ main' = IF gate.active THEN "basing" ELSE "withdrawing"
  /\ UNCHANGED <<threadVars, samplerVars, idleVars, sample, current, base, textVars, desktopVars>>

\* The host activates a context after it has deactivated the one before.
Activate(c) ==
  /\ main = "ready" /\ current = None
  /\ Switch(TRUE)
  /\ current' = c
  /\ UNCHANGED <<threadVars, samplerVars, idleVars, sample, base, textVars, desktopVars>>

\* deactivate(), or reset() when the focus is lost.
Deactivate ==
  /\ main = "ready" /\ current # None
  /\ Switch(FALSE)
  /\ UNCHANGED <<threadVars, samplerVars, idleVars, sample, current, base, textVars, desktopVars>>

Withdraw ==
  /\ main = "withdrawing"
  /\ Publish(NoText, FALSE)
  /\ main' = "basing"
  /\ UNCHANGED <<threadVars, samplerVars, idleVars, gate, current, base, textVars, desktopVars>>

\* Samples up to here are of another activation.  Deactivation ends with reset().
TakeBase ==
  /\ main = "basing"
  /\ base' = sample.sequence
  /\ IF gate.active
     THEN main' = "refreshing" /\ UNCHANGED <<current, composition, compositionBase, adopted>>
     ELSE /\ main' = "ready" /\ current' = None
          /\ composition' = [composition EXCEPT ![current] = 0] /\ compositionBase' = 0
          /\ adopted' = NothingAdopted
  /\ UNCHANGED <<threadVars, samplerVars, idleVars, gate, sample, started, desktopVars>>

Refresh ==
  /\ main = "refreshing"
  /\ IF running THEN QueueIdle("engine") /\ main' = "queuing" ELSE main' = "ready" /\ UNCHANGED queuing
  /\ UNCHANGED <<threadVars, samplerVars, idle, gate, sample, current, base, textVars, desktopVars>>

RefreshReturns ==
  /\ main = "queuing" /\ HasQueued("engine")
  /\ main' = "ready"
  /\ UNCHANGED <<threadVars, samplerVars, idleVars, gate, sample, current, base, textVars, desktopVars>>

\* A key of the current context: its first symbol, or the end of the composition.
Typing == main = "ready" /\ current # None

Compose ==
  /\ Typing /\ composition[current] = 0 /\ started < MaxCompositions
  /\ started' = started + 1
  /\ composition' = [composition EXCEPT ![current] = started']
  /\ compositionBase' = sample.sequence
  /\ UNCHANGED <<threadVars, samplerVars, idleVars, gate, sample, engineVars, adopted, desktopVars>>

EndComposition ==
  /\ Typing /\ composition[current] # 0
  /\ composition' = [composition EXCEPT ![current] = 0]
  /\ compositionBase' = 0 /\ adopted' = NothingAdopted
  /\ UNCHANGED <<threadVars, samplerVars, idleVars, gate, sample, engineVars, started, desktopVars>>

\* Mutant for WholeTextPredatesComposition: the sample published next is taken for an earlier one.
PredatesByOne == compositionBase # 0 /\ sample.sequence <= compositionBase + 1

PredatesComposition == compositionBase # 0 /\ sample.sequence <= compositionBase

\* resync_context() of a client without surrounding text: a sample newer than the
\* activation is used as it is, or when the composition's own text could be
\* removed from its end.
Adopt ==
  /\ Typing /\ current \notin Passwords /\ composition[current] # 0
  /\ sample.usable /\ sample.sequence > base
  /\ \E matches \in BOOLEAN :
       /\ PredatesComposition \/ matches
       /\ adopted' = [text |-> sample.text, whole |-> PredatesComposition, composition |-> composition[current]]
  /\ UNCHANGED <<threadVars, samplerVars, idleVars, gate, sample, engineVars,
                 composition, started, compositionBase, desktopVars>>

-----------------------------------------------------------------------------
(* The applications                                                         *)

\* The widget shows what the engine sent it, at some time; that of a password is never read.
ShowPreedit(w) ==
  /\ w \notin Passwords /\ preedit[w] # composition[w]
  /\ preedit' = [preedit EXCEPT ![w] = composition[w]]
  /\ UNCHANGED <<threadVars, samplerVars, idleVars, gate, sample, engineVars, textVars, focused>>

MoveFocus(w) ==
  /\ focused # w
  /\ focused' = w
  /\ UNCHANGED <<threadVars, samplerVars, idleVars, gate, sample, engineVars, textVars, preedit>>

-----------------------------------------------------------------------------
Next ==
  \/ Start \/ StartReturns \/ ThreadStarts \/ RunLoop \/ Stop \/ QuitLoop \/ Join
  \/ \E w \in Contexts \cup {None}, lost \in BOOLEAN : OnEvent(w, lost)
  \/ HandleLoss \/ HandleEvent \/ QueueReturns \/ OnIdle \/ CheckActive \/ CheckGeneration
  \/ \E t \in Threads :
       LookForSource(t) \/ ReadGeneration(t) \/ StampIdle(t) \/ AttachIdle(t) \/ StoreSource(t)
  \/ ChooseWidget \/ ReadText \/ PublishText
  \/ \E c \in Contexts : Activate(c)
  \/ Deactivate \/ CountActivation \/ Withdraw \/ TakeBase \/ Refresh \/ RefreshReturns
  \/ Compose \/ EndComposition \/ Adopt
  \/ \E w \in Contexts : ShowPreedit(w) \/ MoveFocus(w)

Spec == Init /\ [][Next]_vars

-----------------------------------------------------------------------------
(* Properties                                                               *)

\* Text that a prediction is given as it was read does not end with the preedit
\* of the very composition it is given for, whenever the widget showed it and
\* the sampler read and published it.
WholeTextPredatesComposition == adopted.whole => adopted.text.preedit # adopted.composition
=============================================================================
