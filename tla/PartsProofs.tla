---------------------------- MODULE PartsProofs -----------------------------
(***************************************************************************)
(* The machines of MCParts that share no state with one another, one after *)
(* the other: Sampling, ServiceEndpoint, Downloads, PhraseOverrides,       *)
(* MixedDecoder, Editing; then all of them side by side, with what         *)
(* WireProofs says of the frames.                                          *)
(***************************************************************************)
EXTENDS MCParts, WireProofs, PositionsProofs

-----------------------------------------------------------------------------
(***************************************************************************)
(* WholeTextPredatesComposition for any contexts and any number of         *)
(* activations, samples and compositions.  Nothing about the state of the  *)
(* backend is needed: compositions are numbered as they start, so no text  *)
(* that was read before a composition can hold its preedit, and a sample   *)
(* that is not newer than the composition's base was published before it.  *)
(***************************************************************************)
Widgets == Contexts \cup {None}
Text == [widget : Widgets, preedit : Nat]
SamplerSteps == {"loop", "lost", "event", "queue", "idle", "compare", "choose", "read", "publish"}
Samplers == [pc : SamplerSteps, widget : Widgets, text : Text, usable : BOOLEAN]

SamplingTypes ==
  /\ started \in Nat /\ compositionBase \in Nat
  /\ current \in Widgets /\ pending \in Widgets /\ focused \in Widgets
  /\ composition \in [Contexts -> Nat] /\ preedit \in [Contexts -> Nat]
  /\ sampler \in Samplers
  /\ sample \in [text : Text, usable : BOOLEAN, sequence : Nat]

\* Nothing shows a composition that has not started.
TextsAreOld ==
  /\ \A c \in Contexts : composition[c] <= started /\ preedit[c] <= started
  /\ sampler.text.preedit <= started /\ sample.text.preedit <= started
  /\ compositionBase <= sample.sequence

\* Only the current context composes; while nothing has been published since its
\* composition started, the latest sample shows an earlier one.
SampleIsOld ==
  /\ \A c \in Contexts : c # current \/ current = None => composition[c] = 0
  /\ current # None /\ composition[current] # 0 /\ PredatesComposition
       => sample.text.preedit < composition[current]

SamplingInv == SamplingTypes /\ TextsAreOld /\ SampleIsOld /\ WholeTextPredatesComposition

-----------------------------------------------------------------------------
LEMMA NothingRead == NoText \in Text /\ NoText.preedit = 0 /\ Quiet \in Samplers /\ Quiet.text = NoText
<1>1. NoText \in Text /\ NoText.preedit = 0
  BY DEF NoText, Text, Widgets
<1> QED BY <1>1 DEF Quiet, Samplers, SamplerSteps, Widgets

LEMMA SamplingStarts == Init => SamplingInv
<1> SUFFICES ASSUME Init PROVE SamplingInv
  OBVIOUS
<1>1. sample = [text |-> NoText, usable |-> FALSE, sequence |-> 0] /\ sampler = Quiet
      /\ adopted.whole = FALSE
  BY DEF Init, NothingAdopted
<1>2. SamplingTypes
  <2>1. sample \in [text : Text, usable : BOOLEAN, sequence : Nat] /\ sampler \in Samplers
    BY <1>1, NothingRead
  <2> QED BY <2>1 DEF Init, SamplingTypes, Widgets
<1>3. TextsAreOld
  BY <1>1, NothingRead DEF Init, TextsAreOld
<1>4. SampleIsOld /\ WholeTextPredatesComposition
  BY <1>1 DEF Init, SampleIsOld, WholeTextPredatesComposition
<1> QED BY <1>2, <1>3, <1>4 DEF SamplingInv

\* What the engine thread and the applications do to the invariant's variables is
\* nothing during a callback of the main loop.
texts == <<started, compositionBase, current, composition, preedit, adopted, focused>>

LEMMA Callbacks ==
  ASSUME SamplingInv, UNCHANGED <<texts, sample>>, pending' \in Widgets,
         sampler' \in Samplers, sampler'.text.preedit <= started
  PROVE  SamplingInv'
BY DEF texts, SamplingInv, SamplingTypes, TextsAreOld, SampleIsOld, WholeTextPredatesComposition, PredatesComposition

\* A sample that is published is newer than the base of the composition.
LEMMA Publishing ==
  ASSUME SamplingInv, NEW text \in Text, NEW usable \in BOOLEAN, Publish(text, usable), text.preedit <= started,
         UNCHANGED texts, pending' \in Widgets, sampler' \in {sampler, Quiet}
  PROVE  SamplingInv'
<1>1. sampler' \in Samplers /\ sampler'.text.preedit <= started
  BY NothingRead DEF SamplingInv, SamplingTypes, TextsAreOld
<1>2. /\ sample' \in [text : Text, usable : BOOLEAN, sequence : Nat]
      /\ sample'.sequence = sample.sequence + 1 /\ sample'.text = text
  BY DEF SamplingInv, SamplingTypes, Publish
<1>3. ~PredatesComposition'
  BY <1>2 DEF PredatesComposition, SamplingInv, SamplingTypes, TextsAreOld, texts
<1>4. SamplingTypes' /\ TextsAreOld'
  BY <1>1, <1>2 DEF SamplingInv, SamplingTypes, TextsAreOld, texts
<1> QED BY <1>3, <1>4 DEF SamplingInv, SampleIsOld, WholeTextPredatesComposition, texts

-----------------------------------------------------------------------------
LEMMA Backend ==
  ASSUME SamplingInv, Start \/ StartReturns \/ ThreadStarts \/ RunLoop \/ Stop \/ QuitLoop \/ Join
  PROVE  SamplingInv'
<1>1. UNCHANGED <<texts, sample, sampler>> /\ pending' \in {pending, None}
  BY DEF texts, Start, StartReturns, ThreadStarts, RunLoop, Stop, QuitLoop, Join, samplerVars,
         textVars, desktopVars, engineVars
<1> QED BY <1>1, Callbacks DEF SamplingInv, SamplingTypes, TextsAreOld, Widgets

LEMMA Events ==
  ASSUME SamplingInv, (\E w \in Widgets, lost \in BOOLEAN : OnEvent(w, lost))
              \/ HandleEvent \/ QueueReturns \/ OnIdle \/ CheckActive \/ CheckGeneration
  PROVE  SamplingInv'
<1>1. UNCHANGED <<texts, sample>>
  BY DEF OnEvent, HandleEvent, QueueReturns, OnIdle, CheckActive, CheckGeneration, texts, textVars, desktopVars,
         engineVars
<1>2. pending' \in Widgets
  BY DEF SamplingInv, SamplingTypes, Samplers, Widgets, OnEvent, HandleEvent, QueueReturns, OnIdle, CheckActive,
         CheckGeneration
<1>3. sampler' \in Samplers /\ sampler'.text.preedit <= started
  <2>1. ASSUME NEW w \in Widgets, NEW lost \in BOOLEAN, OnEvent(w, lost)
        PROVE  sampler' \in Samplers /\ sampler'.text = NoText
    BY <2>1, NothingRead DEF OnEvent, Samplers, SamplerSteps
  <2>2. CASE HandleEvent \/ OnIdle
    <3>1. sampler' = [Quiet EXCEPT !.pc = "queue"] \/ sampler' = [sampler EXCEPT !.pc = "idle"]
      BY <2>2 DEF HandleEvent, OnIdle, Continue
    <3> QED BY <3>1, NothingRead DEF SamplingInv, SamplingTypes, TextsAreOld, Samplers, SamplerSteps
  <2>3. CASE QueueReturns
    BY <2>3, NothingRead DEF QueueReturns, SamplingInv, SamplingTypes
  <2>4. CASE CheckActive \/ CheckGeneration
    <3>1. sampler' = Quiet \/ \E pc \in {"compare", "queue", "choose"} : sampler' = [sampler EXCEPT !.pc = pc]
      BY <2>4 DEF CheckActive, CheckGeneration, Continue
    <3> QED BY <3>1, NothingRead DEF SamplingInv, SamplingTypes, TextsAreOld, Samplers, SamplerSteps
  <2> QED BY <2>1, <2>2, <2>3, <2>4, NothingRead DEF SamplingInv, SamplingTypes
<1> QED BY <1>1, <1>2, <1>3, Callbacks

\* queue_idle() touches nothing of this.
LEMMA Queues ==
  ASSUME SamplingInv, NEW t \in Threads,
         LookForSource(t) \/ ReadGeneration(t) \/ StampIdle(t) \/ AttachIdle(t) \/ StoreSource(t)
  PROVE  SamplingInv'
<1>1. UNCHANGED <<texts, sample, sampler, pending>>
  BY DEF LookForSource, ReadGeneration, StampIdle, AttachIdle, StoreSource, InQueueIdle, texts, samplerVars,
         textVars, desktopVars, engineVars
<1> QED BY <1>1, Callbacks DEF SamplingInv, SamplingTypes, TextsAreOld

LEMMA Losses ==
  ASSUME SamplingInv, HandleLoss
  PROVE  SamplingInv'
<1>1. UNCHANGED texts /\ pending' \in {pending, None} /\ Publish(NoText, FALSE) /\ sampler' = Quiet
  BY DEF HandleLoss, texts, textVars, desktopVars, engineVars
<1>2. pending' \in Widgets /\ NoText.preedit <= started
  BY <1>1, NothingRead DEF SamplingInv, SamplingTypes, Widgets
<1> QED BY <1>1, <1>2, NothingRead, Publishing

LEMMA WidgetChosen ==
  ASSUME SamplingInv, ChooseWidget
  PROVE  SamplingInv'
<1>1. UNCHANGED <<texts, sample>> /\ pending' = None
  BY DEF ChooseWidget, texts, textVars, desktopVars, engineVars
<1>2. PICK found \in FocusedText :
        sampler' = [sampler EXCEPT !.pc = "read",
                      !.widget = IF pending # None /\ (focused = pending \/ found = None) THEN pending ELSE found]
  BY DEF ChooseWidget
<1>3. found \in Widgets
  BY DEF FocusedText, SamplingInv, SamplingTypes, Widgets
<1>4. sampler' \in Samplers /\ sampler'.text = sampler.text
  BY <1>2, <1>3 DEF SamplingInv, SamplingTypes, Samplers, SamplerSteps
<1>5. sampler'.text.preedit <= started
  BY <1>4 DEF SamplingInv, TextsAreOld
<1>6. pending' \in Widgets
  BY <1>1 DEF Widgets
<1> QED BY <1>1, <1>4, <1>5, <1>6, Callbacks

\* What is read is the preedit of a composition that has started.
LEMMA TextsRead ==
  ASSUME SamplingInv, ReadText
  PROVE  SamplingInv'
<1>1. UNCHANGED <<texts, sample, pending>>
  BY DEF ReadText, texts, textVars, desktopVars, engineVars
<1>2. PICK readable \in BOOLEAN :
        LET usable == readable /\ sampler.widget \notin Passwords \cup {None}
        IN  sampler' = [Quiet EXCEPT !.pc = "publish", !.usable = usable,
                          !.text = IF usable THEN [widget |-> sampler.widget, preedit |-> preedit[sampler.widget]]
                                   ELSE NoText]
  BY DEF ReadText
<1> DEFINE usable == readable /\ sampler.widget \notin Passwords \cup {None}
           text == IF usable THEN [widget |-> sampler.widget, preedit |-> preedit[sampler.widget]] ELSE NoText
<1>3. text \in Text /\ text.preedit <= started
  <2>1. CASE usable
    <3>1. sampler.widget \in Contexts
      BY <2>1 DEF SamplingInv, SamplingTypes, Samplers, Widgets
    <3>2. preedit[sampler.widget] \in Nat /\ preedit[sampler.widget] <= started
      BY <3>1 DEF SamplingInv, SamplingTypes, TextsAreOld
    <3> QED BY <2>1, <3>1, <3>2 DEF Text, Widgets
  <2>2. CASE ~usable
    BY <2>2, NothingRead DEF SamplingInv, SamplingTypes
  <2> QED BY <2>1, <2>2
<1>4. sampler' = [Quiet EXCEPT !.pc = "publish", !.usable = usable, !.text = text]
  BY <1>2
<1> HIDE DEF text
<1>5. sampler' \in Samplers /\ sampler'.text = text
  BY <1>3, <1>4, NothingRead DEF Samplers, SamplerSteps
<1> QED BY <1>1, <1>3, <1>5, Callbacks DEF SamplingInv, SamplingTypes

LEMMA Publications ==
  ASSUME SamplingInv, PublishText
  PROVE  SamplingInv'
<1>1. UNCHANGED <<texts, pending>> /\ Publish(sampler.text, sampler.usable) /\ sampler' = Quiet
  BY DEF PublishText, texts, textVars, desktopVars, engineVars
<1>2. sampler.text \in Text /\ sampler.usable \in BOOLEAN /\ sampler.text.preedit <= started
  BY DEF SamplingInv, SamplingTypes, TextsAreOld, Samplers
<1> QED BY <1>1, <1>2, Publishing DEF SamplingInv, SamplingTypes

-----------------------------------------------------------------------------
LEMMA EngineIdles ==
  ASSUME SamplingInv, Deactivate \/ CountActivation \/ Refresh \/ RefreshReturns
  PROVE  SamplingInv'
<1>1. UNCHANGED <<texts, sample, sampler, pending>>
  BY DEF Deactivate, CountActivation, Refresh, RefreshReturns, texts, samplerVars, textVars, desktopVars, engineVars
<1> QED BY <1>1, Callbacks DEF SamplingInv, SamplingTypes, TextsAreOld

LEMMA Withdrawals ==
  ASSUME SamplingInv, Withdraw
  PROVE  SamplingInv'
<1>1. UNCHANGED <<texts, sampler, pending>> /\ Publish(NoText, FALSE)
  BY DEF Withdraw, texts, samplerVars, textVars, desktopVars
<1>2. NoText.preedit <= started
  BY NothingRead DEF SamplingInv, SamplingTypes
<1> QED BY <1>1, <1>2, NothingRead, Publishing DEF SamplingInv, SamplingTypes

LEMMA Activations ==
  ASSUME SamplingInv, NEW c \in Contexts, Activate(c)
  PROVE  SamplingInv'
<1>1. UNCHANGED <<started, compositionBase, composition, preedit, adopted, focused, sample, sampler, pending>>
      /\ current = None /\ current' = c
  BY DEF Activate, samplerVars, textVars, desktopVars
<1>2. \A d \in Contexts : composition'[d] = 0
  BY <1>1 DEF SamplingInv, SampleIsOld
<1>3. SamplingTypes' /\ TextsAreOld'
  BY <1>1 DEF SamplingInv, SamplingTypes, TextsAreOld, Widgets
<1> QED BY <1>1, <1>2, <1>3 DEF SamplingInv, SampleIsOld, WholeTextPredatesComposition

LEMMA Bases ==
  ASSUME SamplingInv, TakeBase
  PROVE  SamplingInv'
<1>1. CASE gate.active
  <2>1. UNCHANGED <<texts, sample, sampler, pending>>
    BY <1>1 DEF TakeBase, texts, samplerVars, desktopVars
  <2> QED BY <2>1, Callbacks DEF SamplingInv, SamplingTypes, TextsAreOld
<1>2. CASE ~gate.active
  <2>1. /\ UNCHANGED <<started, preedit, focused, sample, sampler, pending>> /\ adopted'.whole = FALSE
        /\ current' = None /\ compositionBase' = 0 /\ composition' = [composition EXCEPT ![current] = 0]
    BY <1>2 DEF TakeBase, NothingAdopted, samplerVars, desktopVars
  <2>2. composition' \in [Contexts -> Nat] /\ \A d \in Contexts : composition'[d] = 0
    BY <2>1 DEF SamplingInv, SamplingTypes, SampleIsOld
  <2>3. SamplingTypes'
    BY <2>1, <2>2 DEF SamplingInv, SamplingTypes, Widgets
  <2>4. TextsAreOld'
    BY <2>1, <2>2 DEF SamplingInv, SamplingTypes, TextsAreOld
  <2> QED BY <2>1, <2>2, <2>3, <2>4 DEF SamplingInv, SampleIsOld, WholeTextPredatesComposition
<1> QED BY <1>1, <1>2

\* A composition is newer than the latest sample, which is where its base is.
LEMMA Beginnings ==
  ASSUME SamplingInv, Compose
  PROVE  SamplingInv'
<1>1. /\ UNCHANGED <<current, adopted, preedit, focused, sample, sampler, pending>>
      /\ current # None /\ started' = started + 1 /\ compositionBase' = sample.sequence
      /\ composition' = [composition EXCEPT ![current] = started + 1]
  BY DEF Compose, Typing, samplerVars, engineVars, desktopVars
<1>2. current \in Contexts
  BY <1>1 DEF SamplingInv, SamplingTypes, Widgets
<1>3. SamplingTypes'
  BY <1>1, <1>2 DEF SamplingInv, SamplingTypes
<1>4. TextsAreOld'
  <2>1. ASSUME NEW d \in Contexts PROVE composition'[d] <= started' /\ preedit'[d] <= started'
    BY <1>1, <1>2 DEF SamplingInv, SamplingTypes, TextsAreOld
  <2>2. sampler'.text.preedit <= started' /\ sample'.text.preedit <= started'
    BY <1>1 DEF SamplingInv, SamplingTypes, TextsAreOld, Samplers, Text
  <2>3. compositionBase' <= sample'.sequence
    BY <1>1 DEF SamplingInv, SamplingTypes
  <2> QED BY <2>1, <2>2, <2>3 DEF TextsAreOld
<1>5. SampleIsOld'
  <2>1. sample.text.preedit \in Nat /\ sample.text.preedit < started + 1
    BY DEF SamplingInv, SamplingTypes, TextsAreOld, Text
  <2> QED BY <1>1, <1>2, <2>1 DEF SamplingInv, SamplingTypes, SampleIsOld
<1> QED BY <1>1, <1>3, <1>4, <1>5 DEF SamplingInv, WholeTextPredatesComposition

LEMMA Endings ==
  ASSUME SamplingInv, EndComposition
  PROVE  SamplingInv'
<1>1. /\ UNCHANGED <<current, started, preedit, focused, sample, sampler, pending>> /\ adopted'.whole = FALSE
      /\ current # None /\ compositionBase' = 0 /\ composition' = [composition EXCEPT ![current] = 0]
  BY DEF EndComposition, NothingAdopted, Typing, samplerVars, engineVars, desktopVars
<1>2. SamplingTypes'
  BY <1>1 DEF SamplingInv, SamplingTypes
<1>3. TextsAreOld'
  <2>1. \A d \in Contexts : composition'[d] <= started
    BY <1>1 DEF SamplingInv, SamplingTypes, TextsAreOld
  <2> QED BY <1>1, <2>1 DEF SamplingInv, SamplingTypes, TextsAreOld
<1>4. SampleIsOld'
  BY <1>1 DEF SamplingInv, SamplingTypes, SampleIsOld, Widgets
<1> QED BY <1>1, <1>2, <1>3, <1>4 DEF SamplingInv, WholeTextPredatesComposition

LEMMA Adoptions ==
  ASSUME SamplingInv, Adopt
  PROVE  SamplingInv'
<1>1. UNCHANGED <<started, compositionBase, current, composition, preedit, focused, sample, sampler, pending>>
  BY DEF Adopt, samplerVars, engineVars, desktopVars
<1>2. SamplingTypes' /\ TextsAreOld' /\ SampleIsOld'
  BY <1>1 DEF SamplingInv, SamplingTypes, TextsAreOld, SampleIsOld, PredatesComposition
<1>3. PICK matches \in BOOLEAN :
        adopted' = [text |-> sample.text, whole |-> PredatesComposition, composition |-> composition[current]]
  BY DEF Adopt
<1>4. current # None /\ composition[current] # 0 /\ current \in Contexts
  BY DEF Adopt, Typing, SamplingInv, SamplingTypes, Widgets
<1>5. PredatesComposition => sample.text.preedit < composition[current]
  BY <1>4 DEF SamplingInv, SampleIsOld
<1>6. sample.text.preedit \in Nat /\ composition[current] \in Nat
  BY <1>4 DEF SamplingInv, SamplingTypes, Text
<1>7. WholeTextPredatesComposition'
  <2>1. /\ adopted'.whole = PredatesComposition /\ adopted'.text.preedit = sample.text.preedit
        /\ adopted'.composition = composition[current]
    BY <1>3
  <2> QED BY <2>1, <1>5, <1>6 DEF WholeTextPredatesComposition
<1> QED BY <1>2, <1>7 DEF SamplingInv

LEMMA Desktop ==
  ASSUME SamplingInv, NEW w \in Contexts, ShowPreedit(w) \/ MoveFocus(w)
  PROVE  SamplingInv'
<1>1. /\ UNCHANGED <<started, compositionBase, current, composition, adopted, sample, sampler, pending>>
      /\ preedit' \in {preedit, [preedit EXCEPT ![w] = composition[w]]} /\ focused' \in {focused, w}
  BY DEF ShowPreedit, MoveFocus, samplerVars, engineVars, textVars
<1>2. preedit' \in [Contexts -> Nat] /\ \A c \in Contexts : preedit'[c] <= started
  BY <1>1 DEF SamplingInv, SamplingTypes, TextsAreOld
<1>3. SamplingTypes'
  BY <1>1, <1>2 DEF SamplingInv, SamplingTypes, Widgets
<1>4. TextsAreOld'
  BY <1>1, <1>2 DEF SamplingInv, TextsAreOld
<1>5. SampleIsOld' /\ WholeTextPredatesComposition'
  BY <1>1 DEF SamplingInv, SampleIsOld, PredatesComposition, WholeTextPredatesComposition
<1> QED BY <1>3, <1>4, <1>5 DEF SamplingInv

-----------------------------------------------------------------------------
LEMMA SamplingRests == SamplingInv /\ UNCHANGED vars => SamplingInv'
BY Callbacks DEF vars, texts, samplerVars, engineVars, textVars, desktopVars, SamplingInv, SamplingTypes, TextsAreOld

LEMMA SamplingSteps == SamplingInv /\ [Next]_vars => SamplingInv'
<1> SUFFICES ASSUME SamplingInv, [Next]_vars PROVE SamplingInv'
  OBVIOUS
<1>1. CASE Start \/ StartReturns \/ ThreadStarts \/ RunLoop \/ Stop \/ QuitLoop \/ Join
  BY <1>1, Backend
<1>2. CASE (\E w \in Contexts \cup {None}, lost \in BOOLEAN : OnEvent(w, lost))
           \/ HandleEvent \/ QueueReturns \/ OnIdle \/ CheckActive \/ CheckGeneration
  BY <1>2, Events DEF Widgets
<1>8. CASE \E t \in Threads :
             LookForSource(t) \/ ReadGeneration(t) \/ StampIdle(t) \/ AttachIdle(t) \/ StoreSource(t)
  BY <1>8, Queues
<1>3. CASE HandleLoss \/ ChooseWidget \/ ReadText \/ PublishText
  BY <1>3, Losses, WidgetChosen, TextsRead, Publications
<1>4. CASE (\E c \in Contexts : Activate(c)) \/ Deactivate \/ CountActivation \/ Withdraw \/ TakeBase
           \/ Refresh \/ RefreshReturns
  BY <1>4, Activations, EngineIdles, Withdrawals, Bases
<1>5. CASE Compose \/ EndComposition \/ Adopt
  BY <1>5, Beginnings, Endings, Adoptions
<1>6. CASE \E w \in Contexts : ShowPreedit(w) \/ MoveFocus(w)
  BY <1>6, Desktop
<1>7. CASE UNCHANGED vars
  BY <1>7, SamplingRests
<1> QED BY <1>1, <1>2, <1>3, <1>4, <1>5, <1>6, <1>7, <1>8 DEF Next

\* Text that is given to a prediction as it was read never ends with the preedit
\* of the composition it is given for (Engine::resync_context), however the reads
\* of the sampler thread and the keys interleave.
THEOREM OwnPreeditIsNeverContext == Spec => []WholeTextPredatesComposition
<1>1. SamplingInv => WholeTextPredatesComposition
  BY DEF SamplingInv
<1> QED BY SamplingStarts, SamplingSteps, <1>1, PTL DEF Spec

-----------------------------------------------------------------------------
\* What else has a type: the threads, the gate, and the counters up to their bounds.
Idles == [source : BOOLEAN, attached : Nat, generation : 0..MaxGeneration]
Queueings == [Threads -> [step : {"none", "look", "generation", "stamp", "attach", "store"},
                          generation : 0..MaxGeneration]]
Mains == {"new", "waiting", "ready", "switching", "withdrawing", "basing", "refreshing", "queuing",
          "joining", "stopped"}

SamplingRanges ==
  /\ thread \in [state : {"off", "starting", "ready", "looping", "failed", "ended"}, quit : BOOLEAN]
  /\ running \in BOOLEAN
  /\ idle \in Idles /\ queuing \in Queueings
  /\ gate \in [active : BOOLEAN, generation : 0..MaxGeneration]
  /\ main = "switching" => gate.generation < MaxGeneration
  /\ main \in Mains
  /\ base \in 0..sample.sequence /\ sample.sequence <= MaxSequence /\ started <= MaxCompositions

LEMMA RangesStart == Init => SamplingRanges
<1> SUFFICES ASSUME Init PROVE SamplingRanges
  OBVIOUS
<1>1. sample.sequence = 0 /\ base = 0 /\ started = 0
  BY DEF Init
<1>2. 0 \in 0..MaxGeneration /\ 0 <= MaxSequence /\ 0 <= MaxCompositions
  BY SamplingAssumption
<1>3. /\ thread = [state |-> "off", quit |-> FALSE] /\ running = FALSE /\ main = "new"
      /\ idle = [source |-> FALSE, attached |-> 0, generation |-> 0]
      /\ queuing = [t \in Threads |-> NotQueuing] /\ gate = [active |-> FALSE, generation |-> 0]
  BY DEF Init
<1>4. /\ idle \in Idles /\ queuing \in Queueings
      /\ gate \in [active : BOOLEAN, generation : 0..MaxGeneration]
  BY <1>2, <1>3 DEF NotQueuing, Idles, Queueings
<1>5. base \in 0..sample.sequence /\ sample.sequence <= MaxSequence /\ started <= MaxCompositions
  BY <1>1, <1>2
<1>6. /\ thread \in [state : {"off", "starting", "ready", "looping", "failed", "ended"}, quit : BOOLEAN]
      /\ running \in BOOLEAN
  BY <1>3
<1>7. main \in Mains /\ main # "switching"
  BY <1>3 DEF Mains
<1> QED BY <1>4, <1>5, <1>6, <1>7 DEF SamplingRanges

LEMMA Queueing ==
  ASSUME SamplingRanges, NEW t \in Threads, QueueIdle(t)
  PROVE  queuing' \in Queueings
BY DEF SamplingRanges, QueueIdle, Queueings

LEMMA RangesOfQueues ==
  ASSUME SamplingRanges, NEW t \in Threads,
         LookForSource(t) \/ ReadGeneration(t) \/ StampIdle(t) \/ AttachIdle(t) \/ StoreSource(t)
  PROVE  SamplingRanges'
<1>1. UNCHANGED <<threadVars, gate, sample, main, base, started>>
  BY DEF LookForSource, ReadGeneration, StampIdle, AttachIdle, StoreSource, InQueueIdle, engineVars, textVars
<1>2. queuing' \in Queueings
  <2>1. 0 \in 0..MaxGeneration
    BY SamplingAssumption
  <2> QED BY <2>1 DEF SamplingRanges, Queueings, LookForSource, ReadGeneration, StampIdle, AttachIdle, StoreSource,
                      InQueueIdle
<1>3. idle' \in Idles
  <2>1. CASE AttachIdle(t)
    BY <2>1 DEF SamplingRanges, Idles, AttachIdle
  <2>2. CASE StampIdle(t) \/ StoreSource(t)
    BY <2>2 DEF SamplingRanges, Idles, Queueings, StampIdle, StoreSource
  <2>3. CASE LookForSource(t) \/ ReadGeneration(t)
    BY <2>3 DEF SamplingRanges, LookForSource, ReadGeneration
  <2> QED BY <2>1, <2>2, <2>3
<1> QED BY <1>1, <1>2, <1>3 DEF SamplingRanges, threadVars

LEMMA Switching ==
  ASSUME SamplingRanges, NEW on \in BOOLEAN, Switch(on)
  PROVE  /\ gate' \in [active : BOOLEAN, generation : 0..MaxGeneration]
         /\ main' \in Mains /\ gate'.generation < MaxGeneration
BY DEF SamplingRanges, Switch, Mains

LEMMA CountedActivation ==
  ASSUME SamplingRanges, CountActivation
  PROVE  /\ gate' \in [active : BOOLEAN, generation : 0..MaxGeneration]
         /\ main' \in Mains \ {"switching"}
<1>1. gate.generation + 1 \in 0..MaxGeneration
  <2>1. gate.generation \in 0..MaxGeneration /\ gate.generation < MaxGeneration
    BY DEF SamplingRanges, CountActivation
  <2>2. MaxGeneration \in Nat
    BY SamplingAssumption
  <2> QED BY <2>1, <2>2
<1>2. main' \in Mains \ {"switching"}
  BY DEF CountActivation, Mains
<1> QED BY <1>1, <1>2 DEF SamplingRanges, CountActivation

LEMMA Numbering ==
  ASSUME SamplingTypes, SamplingRanges, NEW text, NEW usable, Publish(text, usable)
  PROVE  base \in 0..sample'.sequence /\ sample'.sequence <= MaxSequence
<1>1. sample'.sequence = sample.sequence + 1 /\ sample.sequence < MaxSequence /\ sample.sequence \in Nat
  BY DEF Publish, SamplingTypes
<1> QED BY <1>1, SamplingAssumption DEF SamplingRanges

LEMMA RangesOfBackend ==
  ASSUME SamplingRanges, Start \/ StartReturns \/ ThreadStarts \/ RunLoop \/ Stop \/ QuitLoop \/ Join
  PROVE  SamplingRanges'
<1>1. UNCHANGED <<gate, sample, base, started>>
  BY DEF Start, StartReturns, ThreadStarts, RunLoop, Stop, QuitLoop, Join, engineVars, textVars
<1>2. idle' \in Idles /\ queuing' \in Queueings
  <2>1. idle' = idle /\ (queuing' = queuing \/ QueueIdle("backend"))
    BY DEF Start, StartReturns, ThreadStarts, RunLoop, Stop, QuitLoop, Join, idleVars
  <2> QED BY <2>1, Queueing DEF SamplingRanges, Threads
<1>3. thread' \in [state : {"off", "starting", "ready", "looping", "failed", "ended"}, quit : BOOLEAN]
  BY DEF SamplingRanges, Start, StartReturns, ThreadStarts, RunLoop, Stop, QuitLoop, Join, threadVars
<1>4. running' \in BOOLEAN
  BY DEF SamplingRanges, Start, StartReturns, ThreadStarts, RunLoop, Stop, QuitLoop, Join, threadVars,
         BackendComesUp
<1>5. main' \in Mains /\ (main' = "switching" => main = "switching")
  BY DEF SamplingRanges, Start, StartReturns, ThreadStarts, RunLoop, Stop, QuitLoop, Join, engineVars, Mains
<1> QED BY <1>1, <1>2, <1>3, <1>4, <1>5 DEF SamplingRanges

LEMMA RangesOfCallbacks ==
  ASSUME SamplingTypes, SamplingRanges,
         (\E w \in Widgets, lost \in BOOLEAN : OnEvent(w, lost)) \/ HandleLoss \/ HandleEvent \/ QueueReturns
           \/ OnIdle \/ CheckActive \/ CheckGeneration \/ ChooseWidget \/ ReadText \/ PublishText
  PROVE  SamplingRanges'
<1>1. UNCHANGED <<threadVars, gate, main, base, started>>
  BY DEF OnEvent, HandleLoss, HandleEvent, QueueReturns, OnIdle, CheckActive, CheckGeneration, ChooseWidget, ReadText,
         PublishText, engineVars, textVars
<1>2. queuing' \in Queueings
  <2>1. QueueIdle("backend") \/ queuing' = queuing
    BY DEF idleVars, OnEvent, HandleLoss, HandleEvent, QueueReturns, OnIdle, CheckActive, CheckGeneration, ChooseWidget,
           ReadText, PublishText
  <2> QED BY <2>1, Queueing DEF SamplingRanges, Threads
<1>3. idle' \in Idles
  <2>1. idle' = idle \/ (OnIdle /\ idle' = [idle EXCEPT !.source = FALSE, !.attached = @ - 1])
    BY DEF idleVars, OnEvent, HandleLoss, HandleEvent, QueueReturns, OnIdle, CheckActive, CheckGeneration, ChooseWidget, ReadText, PublishText
  <2>2. CASE OnIdle /\ idle' = [idle EXCEPT !.source = FALSE, !.attached = @ - 1]
    <3>1. idle.attached > 0 /\ idle.attached \in Nat /\ idle \in Idles
      BY <2>2 DEF SamplingRanges, Idles, OnIdle
    <3>2. idle.attached - 1 \in Nat
      BY <3>1
    <3> QED BY <2>2, <3>1, <3>2 DEF Idles
  <2> QED BY <2>1, <2>2 DEF SamplingRanges
<1>4. base \in 0..sample'.sequence /\ sample'.sequence <= MaxSequence
  <2>1. sample' = sample \/ Publish(NoText, FALSE) \/ Publish(sampler.text, sampler.usable)
    BY DEF OnEvent, HandleLoss, HandleEvent, QueueReturns, OnIdle, CheckActive, CheckGeneration, ChooseWidget, ReadText, PublishText
  <2> QED BY <2>1, Numbering DEF SamplingRanges
<1> QED BY <1>1, <1>2, <1>3, <1>4 DEF SamplingRanges, threadVars

LEMMA RangesOfEngine ==
  ASSUME SamplingTypes, SamplingRanges,
         (\E c \in Contexts : Activate(c)) \/ Deactivate \/ CountActivation \/ Withdraw \/ TakeBase \/ Refresh
           \/ RefreshReturns \/ Compose \/ EndComposition \/ Adopt
  PROVE  SamplingRanges'
<1>1. UNCHANGED threadVars
  BY DEF Activate, Deactivate, CountActivation, Withdraw, TakeBase, Refresh,
         RefreshReturns, Compose, EndComposition, Adopt
<1>2. idle' = idle /\ (queuing' = queuing \/ QueueIdle("engine"))
  BY DEF idleVars, Activate, Deactivate, CountActivation, Withdraw, TakeBase, Refresh,
         RefreshReturns, Compose, EndComposition, Adopt
<1>3. queuing' \in Queueings
  BY <1>2, Queueing DEF SamplingRanges, Threads
<1>4. CASE (\E c \in Contexts : Activate(c)) \/ Deactivate
  <2>1. Switch(TRUE) \/ Switch(FALSE)
    BY <1>4 DEF Activate, Deactivate
  <2>2. UNCHANGED <<base, sample, started>>
    BY <1>4 DEF Activate, Deactivate, textVars
  <2> QED BY <1>1, <1>2, <1>3, <2>1, <2>2, Switching DEF SamplingRanges, threadVars
<1>5. CASE CountActivation
  <2>1. UNCHANGED <<base, sample, started>>
    BY <1>5 DEF CountActivation, textVars
  <2>2. gate' \in [active : BOOLEAN, generation : 0..MaxGeneration] /\ main' \in Mains \ {"switching"}
    BY <1>5, CountedActivation
  <2> QED BY <1>1, <1>2, <1>3, <2>1, <2>2 DEF SamplingRanges, threadVars
<1>6. ASSUME Withdraw \/ TakeBase \/ Refresh \/ RefreshReturns \/ Compose \/ EndComposition \/ Adopt
      PROVE  SamplingRanges'
  <2>1. gate' = gate /\ main' \in Mains /\ (main' = "switching" => main = "switching")
    BY <1>6 DEF SamplingRanges, Withdraw, TakeBase, Refresh, RefreshReturns, Compose, EndComposition, Adopt,
                engineVars, Mains
  <2>2. base' \in 0..sample'.sequence /\ sample'.sequence <= MaxSequence
    <3>1. CASE Withdraw
      BY <3>1, Numbering DEF Withdraw, SamplingRanges
    <3>2. CASE TakeBase
      BY <3>2 DEF TakeBase, SamplingRanges, SamplingTypes
    <3>3. CASE Refresh \/ RefreshReturns \/ Compose \/ EndComposition \/ Adopt
      <4>1. UNCHANGED <<base, sample>>
        BY <3>3 DEF Refresh, RefreshReturns, Compose, EndComposition, Adopt, engineVars
      <4> QED BY <4>1 DEF SamplingRanges
    <3> QED BY <1>6, <3>1, <3>2, <3>3
  <2>3. started' <= MaxCompositions
    <3>1. started' = started \/ (started' = started + 1 /\ started < MaxCompositions)
      BY <1>6 DEF Withdraw, TakeBase, Refresh, RefreshReturns, Compose, EndComposition, Adopt, textVars
    <3> QED BY <3>1, SamplingAssumption DEF SamplingRanges, SamplingTypes
  <2> QED BY <1>1, <1>2, <1>3, <2>1, <2>2, <2>3 DEF SamplingRanges, threadVars
<1> QED BY <1>4, <1>5, <1>6

LEMMA RangesStep == SamplingTypes /\ SamplingRanges /\ [Next]_vars => SamplingRanges'
<1> SUFFICES ASSUME SamplingTypes, SamplingRanges, [Next]_vars PROVE SamplingRanges'
  OBVIOUS
<1>1. CASE (\E w \in Contexts : ShowPreedit(w) \/ MoveFocus(w)) \/ UNCHANGED vars
  <2>1. UNCHANGED <<threadVars, idleVars, gate, sample, engineVars, started>>
    BY <1>1 DEF ShowPreedit, MoveFocus, vars, textVars
  <2> QED BY <2>1 DEF threadVars, idleVars, engineVars, SamplingRanges
<1> QED BY <1>1, RangesOfBackend, RangesOfQueues, RangesOfCallbacks, RangesOfEngine DEF Next, Widgets

\* Whatever the sampler thread, the engine thread and the applications do, every
\* variable of the sampling keeps its type and every counter its bound.
THEOREM SamplingTypesKept == Spec => []TypeOK
<1>1. SamplingInv /\ SamplingRanges => TypeOK
  <2> SUFFICES ASSUME SamplingInv, SamplingRanges PROVE TypeOK
    OBVIOUS
  <2>1. /\ sampler.pc \in SamplerSteps /\ sampler.widget \in Contexts \cup {None} /\ sampler.usable \in BOOLEAN
        /\ pending \in Contexts \cup {None} /\ current \in Contexts \cup {None} /\ focused \in Contexts \cup {None}
    BY DEF SamplingInv, SamplingTypes, Samplers, Widgets
  <2>2. sample.sequence \in 0..MaxSequence /\ sample.usable \in BOOLEAN /\ base \in 0..sample.sequence
        /\ compositionBase \in 0..sample.sequence
    BY SamplingAssumption DEF SamplingInv, SamplingTypes, TextsAreOld, SamplingRanges
  <2>3. started \in 0..MaxCompositions /\ composition \in [Contexts -> 0..started]
        /\ preedit \in [Contexts -> 0..started]
    BY SamplingAssumption DEF SamplingInv, SamplingTypes, TextsAreOld, SamplingRanges
  <2> QED BY <2>1, <2>2, <2>3 DEF TypeOK, SamplingRanges, SamplerSteps, Idles, Queueings, Mains
<1>2. SamplingInv => SamplingTypes
  BY DEF SamplingInv
<1> QED BY SamplingStarts, SamplingSteps, RangesStart, RangesStep, <1>1, <1>2, PTL DEF Spec

-----------------------------------------------------------------------------
(***************************************************************************)
(* However many services start and stop at one path, EndpointIsKept.  The  *)
(* invariant says who may still unlink a file, and that nobody may unlink  *)
(* those of a service that is not contested.                               *)
(***************************************************************************)
\* Steps at which a service has bound the path and not cleaned up yet.
Bound == {"bound", "prepared"} \cup Listening
HoldsSocket == Bound \cup {"draining", "leaving"}
HoldsPid == {"writing", "serving", "draining", "leaving", "removing"}

\* The flags say what is left to clean up; the files belong to services that own them or
\* were killed, the pid file to one that is about to own it as well.
FilesHaveOwners ==
  /\ \A s \in endpoint : s \in endpointOwned \/ at[s] = "killed"
  /\ \A s \in pidFile : s \in pidOwned \/ at[s] \in {"owning", "killed"}
  /\ \A s \in Services :
       /\ s \in endpointOwned => at[s] \in HoldsSocket
       /\ s \in pidOwned => at[s] \in HoldsPid
       /\ at[s] \in Bound \cup {"draining"} => s \in endpointOwned
       /\ at[s] = "writing" => s \in pidOwned

\* A service that nobody met is found at the path, and nobody else can take it away.
LoneServiceIsFound ==
  \A s \in Services \ contested :
    /\ at[s] \in Bound => endpoint = {s} /\ Leftovers(s) = {}
    /\ at[s] = "creating" => pidFile = {}
    /\ at[s] \in {"owning", "writing"} => pidFile = {s} /\ number = {}
    /\ at[s] = "serving" => pidFile = {s} /\ number \subseteq {s}

EndpointInv == EndpointTypeOK /\ FilesHaveOwners /\ LoneServiceIsFound

-----------------------------------------------------------------------------
LEMMA EndpointStarts == EndpointInit => EndpointInv
BY DEF EndpointInit, EndpointInv, EndpointTypeOK, FilesHaveOwners, LoneServiceIsFound, Leftovers, Steps,
       Bound, Listening, HoldsSocket, HoldsPid

LEMMA EndpointTypes == EndpointTypeOK /\ [EndpointNext]_endpointVars => EndpointTypeOK'
<1> SUFFICES ASSUME EndpointTypeOK, [EndpointNext]_endpointVars PROVE EndpointTypeOK'
  OBVIOUS
<1>1. CASE UNCHANGED endpointVars
  BY <1>1 DEF endpointVars, files, pidVars, EndpointTypeOK
<1>2. ASSUME NEW s \in Services,
             \/ StartService(s) \/ Look(s) \/ Probe(s) \/ RemoveStale(s) \/ Bind(s) \/ Prepare(s) \/ Listen(s)
             \/ StartFails(s) \/ StopListening(s) \/ Drain(s) \/ RemoveSocket(s)
      PROVE EndpointTypeOK'
  <2>1. at' \in [Services -> Steps]
    BY <1>2 DEF EndpointTypeOK, Steps, Listening, Go, StartService, Look, Probe, RemoveStale, Bind, Prepare, Listen,
           StartFails, StopListening, Drain, RemoveSocket
  <2>2. UNCHANGED pidVars
    BY <1>2 DEF files, StartService, Look, Probe, RemoveStale, Bind, Prepare, Listen,
           StartFails, StopListening, Drain, RemoveSocket
  <2>3. /\ endpoint' \in {{}} \cup {{r} : r \in Services}
        /\ endpointOwned' \subseteq Services /\ contested' \subseteq Services
    BY <1>2 DEF files, EndpointTypeOK, StartService, Look, Probe, RemoveStale, Bind, Prepare, Listen,
           StartFails, StopListening, Drain, RemoveSocket
  <2> QED BY <2>1, <2>2, <2>3 DEF EndpointTypeOK, pidVars
<1>3. ASSUME NEW s \in Services,
             LookForPid(s) \/ ReplacePid(s) \/ CreatePid(s) \/ OwnPid(s) \/ WriteNumber(s) \/ RemovePid(s)
      PROVE EndpointTypeOK'
  <2>1. at' \in [Services -> Steps]
    BY <1>3 DEF EndpointTypeOK, Steps, Listening, Go, LookForPid, ReplacePid, CreatePid, OwnPid, WriteNumber, RemovePid
  <2>2. UNCHANGED <<endpoint, endpointOwned>> /\ contested' \subseteq Services
    BY <1>3 DEF files, EndpointTypeOK, LookForPid, ReplacePid, CreatePid, OwnPid, WriteNumber, RemovePid
  <2>3. /\ pidFile' \in {{}} \cup {{r} : r \in Services} /\ number' \in {{}} \cup {{r} : r \in Services}
        /\ pidOwned' \subseteq Services
    BY <1>3 DEF files, pidVars, EndpointTypeOK, LookForPid, ReplacePid, CreatePid, OwnPid, WriteNumber, RemovePid
  <2>4. stream' \in [Services -> {{}} \cup {{r} : r \in Services}]
    BY <1>3, <2>3 DEF files, pidVars, EndpointTypeOK, LookForPid, ReplacePid, CreatePid, OwnPid, WriteNumber, RemovePid
  <2> QED BY <2>1, <2>2, <2>3, <2>4 DEF EndpointTypeOK
<1>4. ASSUME NEW s \in Services, Kill(s) PROVE EndpointTypeOK'
  BY <1>4 DEF EndpointTypeOK, Steps, Listening, Go, Kill
<1> QED BY <1>1, <1>2, <1>3, <1>4 DEF EndpointNext

LEMMA OwnersKept == EndpointTypeOK /\ FilesHaveOwners /\ [EndpointNext]_endpointVars => FilesHaveOwners'
<1> SUFFICES ASSUME EndpointTypeOK, FilesHaveOwners, [EndpointNext]_endpointVars PROVE FilesHaveOwners'
  OBVIOUS
<1>1. CASE UNCHANGED endpointVars
  BY <1>1 DEF endpointVars, files, pidVars, FilesHaveOwners
<1>2. ASSUME NEW s \in Services,
             \/ StartService(s) \/ Look(s) \/ Probe(s) \/ Prepare(s) \/ Listen(s) \/ LookForPid(s)
             \/ StartFails(s) \/ StopListening(s) \/ Drain(s)
      PROVE FilesHaveOwners'
  \* Nothing is written or owned anew; only the step of s changes.
  <2>1. UNCHANGED <<endpoint, pidFile, endpointOwned, pidOwned>>
    BY <1>2 DEF files, pidVars, StartService, Look, Probe, Prepare, Listen, LookForPid, StartFails, StopListening,
                Drain
  <2>2. \A r \in Services \ {s} : at'[r] = at[r]
    BY <1>2 DEF EndpointTypeOK, Go, StartService, Look, Probe, Prepare, Listen, LookForPid, StartFails,
                StopListening, Drain
  <2>3. /\ s \in endpointOwned => at'[s] \in HoldsSocket
        /\ s \in pidOwned => at'[s] \in HoldsPid
        /\ at'[s] \in Bound \cup {"draining"} => s \in endpointOwned
        /\ at'[s] # "writing"
        /\ at[s] \notin {"owning", "killed"}
    BY <1>2 DEF EndpointTypeOK, FilesHaveOwners, Go, StartService, Look, Probe, Prepare, Listen, LookForPid,
                StartFails, StopListening, Drain, Bound, Listening, HoldsSocket, HoldsPid
  <2>4. pidFile \subseteq Services /\ endpoint \subseteq Services
    BY DEF EndpointTypeOK
  <2> QED BY <2>1, <2>2, <2>3, <2>4 DEF FilesHaveOwners
<1>3. ASSUME NEW s \in Services, RemoveStale(s) \/ Bind(s) \/ RemoveSocket(s) PROVE FilesHaveOwners'
  <2>1. UNCHANGED <<pidFile, pidOwned>> /\ pidFile \subseteq Services
    BY <1>3 DEF pidVars, RemoveStale, Bind, RemoveSocket, EndpointTypeOK
  <2>2. \A r \in Services \ {s} : at'[r] = at[r]
    BY <1>3 DEF EndpointTypeOK, Go, RemoveStale, Bind, RemoveSocket
  <2>3. at[s] \in {"unlinking", "binding", "leaving"} /\ at'[s] \in {"binding", "bound", "leaving", "removing"}
    BY <1>3 DEF EndpointTypeOK, Go, RemoveStale, Bind, RemoveSocket
  <2>4. s \in pidOwned => at'[s] \in HoldsPid
    BY <1>3, <2>3 DEF EndpointTypeOK, FilesHaveOwners, Go, RemoveStale, Bind, RemoveSocket, HoldsPid
  <2>5. \A r \in pidFile : r \in pidOwned \/ at'[r] \in {"owning", "killed"}
    BY <2>1, <2>2, <2>3 DEF FilesHaveOwners
  <2>6. /\ \A r \in endpoint' : r \in endpointOwned' \/ at'[r] = "killed"
        /\ s \in endpointOwned' => at'[s] \in HoldsSocket
        /\ at'[s] \in Bound \cup {"draining"} => s \in endpointOwned'
        /\ \A r \in Services \ {s} : r \in endpointOwned' <=> r \in endpointOwned
    BY <1>3 DEF EndpointTypeOK, FilesHaveOwners, Go, RemoveStale, Bind, RemoveSocket, Bound, Listening, HoldsSocket
  <2>7. at'[s] # "writing"
    BY <2>3
  <2> QED BY <2>1, <2>2, <2>4, <2>5, <2>6, <2>7 DEF FilesHaveOwners
<1>4. ASSUME NEW s \in Services, ReplacePid(s) \/ CreatePid(s) \/ OwnPid(s) \/ WriteNumber(s) \/ RemovePid(s)
      PROVE FilesHaveOwners'
  <2>1. UNCHANGED <<endpoint, endpointOwned>> /\ endpoint \subseteq Services /\ pidFile \subseteq Services
    BY <1>4 DEF ReplacePid, CreatePid, OwnPid, WriteNumber, RemovePid, EndpointTypeOK
  <2>2. \A r \in Services \ {s} : at'[r] = at[r]
    BY <1>4 DEF EndpointTypeOK, Go, ReplacePid, CreatePid, OwnPid, WriteNumber, RemovePid
  <2>3. /\ s \in endpointOwned => at'[s] \in HoldsSocket
        /\ at'[s] \in Bound \cup {"draining"} => s \in endpointOwned
    BY <1>4 DEF EndpointTypeOK, FilesHaveOwners, Go, ReplacePid, CreatePid, OwnPid, WriteNumber, RemovePid,
                Bound, Listening, HoldsSocket
  <2>4. /\ s \in pidOwned' => at'[s] \in HoldsPid
        /\ at'[s] = "writing" => s \in pidOwned'
        /\ \A r \in Services \ {s} : r \in pidOwned' <=> r \in pidOwned
    BY <1>4 DEF EndpointTypeOK, FilesHaveOwners, Go, ReplacePid, CreatePid, OwnPid, WriteNumber, RemovePid, HoldsPid
  <2>5. at[s] # "killed"
    BY <1>4 DEF Go, ReplacePid, CreatePid, OwnPid, WriteNumber, RemovePid
  <2>6. \A r \in pidFile' : r \in pidOwned' \/ at'[r] \in {"owning", "killed"}
    BY <1>4, <2>1, <2>2 DEF EndpointTypeOK, FilesHaveOwners, Go, ReplacePid, CreatePid, OwnPid, WriteNumber, RemovePid
  <2> QED BY <2>1, <2>2, <2>3, <2>4, <2>5, <2>6 DEF FilesHaveOwners
<1>5. ASSUME NEW s \in Services, Kill(s) PROVE FilesHaveOwners'
  <2>1. /\ at' = [at EXCEPT ![s] = "killed"] /\ UNCHANGED <<endpoint, pidFile>>
        /\ endpointOwned' = endpointOwned \ {s} /\ pidOwned' = pidOwned \ {s}
    BY <1>5 DEF Kill, Go
  <2>2. at'[s] = "killed" /\ \A r \in Services \ {s} : at'[r] = at[r]
    BY <2>1 DEF EndpointTypeOK
  <2>3. "killed" \notin Bound \cup {"draining", "writing"}
    BY DEF Bound, Listening
  <2> QED BY <2>1, <2>2, <2>3 DEF EndpointTypeOK, FilesHaveOwners
<1> QED BY <1>1, <1>2, <1>3, <1>4, <1>5 DEF EndpointNext

\* What one step of m does to the others.
LEMMA OneMoves ==
  ASSUME EndpointTypeOK, NEW m \in Services,
         \/ StartService(m) \/ Look(m) \/ Probe(m) \/ RemoveStale(m) \/ Bind(m) \/ Prepare(m) \/ Listen(m)
         \/ LookForPid(m) \/ ReplacePid(m) \/ CreatePid(m) \/ OwnPid(m) \/ WriteNumber(m)
         \/ StartFails(m) \/ StopListening(m) \/ Drain(m) \/ RemoveSocket(m) \/ RemovePid(m) \/ Kill(m)
  PROVE  /\ \A r \in Services \ {m} : at'[r] = at[r]
         /\ contested \ {m} \subseteq contested'
         /\ m \in contested => m \in contested' \/ at'[m] \in {"ended", "killed"}
         /\ at[m] # "killed"
<1>1. \A r \in Services \ {m} : at'[r] = at[r]
  BY DEF EndpointTypeOK, Go, StartService, Look, Probe, RemoveStale, Bind, Prepare, Listen, LookForPid, ReplacePid,
         CreatePid, OwnPid, WriteNumber, StartFails, StopListening, Drain, RemoveSocket, RemovePid, Kill
<1>2. /\ contested \ {m} \subseteq contested'
      /\ m \in contested => m \in contested' \/ at'[m] \in {"ended", "killed"}
  BY DEF EndpointTypeOK, Go, files, StartService, Look, Probe, RemoveStale, Bind, Prepare, Listen, LookForPid, ReplacePid,
         CreatePid, OwnPid, WriteNumber, StartFails, StopListening, Drain, RemoveSocket, RemovePid, Kill
<1>3. at[m] # "killed"
  BY DEF Go, StartService, Look, Probe, RemoveStale, Bind, Prepare, Listen, LookForPid, ReplacePid,
         CreatePid, OwnPid, WriteNumber, StartFails, StopListening, Drain, RemoveSocket, RemovePid, Kill
<1> QED BY <1>1, <1>2, <1>3

\* The steps of s itself, and then those of every other service.
LEMMA LoneKept == EndpointInv /\ [EndpointNext]_endpointVars => LoneServiceIsFound'
<1> SUFFICES ASSUME EndpointInv, [EndpointNext]_endpointVars PROVE LoneServiceIsFound'
  OBVIOUS
<1> USE DEF EndpointInv
<1>1. CASE UNCHANGED endpointVars
  BY <1>1 DEF endpointVars, files, pidVars, LoneServiceIsFound, Leftovers
<1>2. ASSUME NEW m \in Services,
             \/ StartService(m) \/ Look(m) \/ Probe(m) \/ RemoveStale(m) \/ Bind(m) \/ Prepare(m) \/ Listen(m)
             \/ LookForPid(m) \/ ReplacePid(m) \/ CreatePid(m) \/ OwnPid(m) \/ WriteNumber(m)
             \/ StartFails(m) \/ StopListening(m) \/ Drain(m) \/ RemoveSocket(m) \/ RemovePid(m) \/ Kill(m)
      PROVE LoneServiceIsFound'
  <2> SUFFICES ASSUME NEW s \in Services, s \notin contested', at'[s] \in Bound
               PROVE /\ endpoint' = {s} /\ Leftovers(s)' = {}
                     /\ at'[s] = "creating" => pidFile' = {}
                     /\ at'[s] \in {"owning", "writing"} => pidFile' = {s} /\ number' = {}
                     /\ at'[s] = "serving" => pidFile' = {s} /\ number' \subseteq {s}
    BY DEF LoneServiceIsFound, Bound, Listening
  <2>1. \A r \in Services \ {m} : at'[r] = at[r]
    BY <1>2, OneMoves
  <2>2. s \notin contested
    BY <1>2, OneMoves DEF Bound, Listening
  <2>3. CASE s = m
    <3>1. CASE Bind(s)
      <4>1. endpoint' = {s} /\ contested' = contested /\ Leftovers(s) = {} /\ at'[s] = "bound"
        BY <3>1, <1>2 DEF Bind, Go, EndpointTypeOK, Bound, Listening
      <4>2. Leftovers(s)' = Leftovers(s)
        BY <3>1, <4>1, <2>1, <2>3 DEF Bind, Leftovers, pidVars
      <4> QED BY <4>1, <4>2
    <3>2. CASE Prepare(s) \/ Listen(s) \/ LookForPid(s)
      <4>1. endpoint = {s} /\ Leftovers(s) = {} /\ UNCHANGED files
        BY <3>2, <2>2 DEF Prepare, Listen, LookForPid, Go, LoneServiceIsFound, Bound, Listening
      <4>2. Leftovers(s)' = {}
        BY <4>1, <2>1, <2>3 DEF files, pidVars, Leftovers
      <4>3. at'[s] \in {"prepared", "listening", "replacing", "creating", "leaving"} /\ (at'[s] = "creating" => pidFile = {})
        BY <3>2 DEF Prepare, Listen, LookForPid, Go, EndpointTypeOK
      <4> QED BY <4>1, <4>2, <4>3 DEF files, pidVars
    <3>3. CASE ReplacePid(s) \/ CreatePid(s) \/ OwnPid(s) \/ WriteNumber(s)
      <4>1. endpoint = {s} /\ Leftovers(s) = {} /\ endpoint' = endpoint
        BY <3>3, <2>2 DEF ReplacePid, CreatePid, OwnPid, WriteNumber, Go, LoneServiceIsFound, Bound, Listening
      <4>2. Leftovers(s)' = {}
        BY <3>3, <4>1, <2>1, <2>3 DEF ReplacePid, CreatePid, OwnPid, WriteNumber, Leftovers
      <4>3. CASE ReplacePid(s)
        BY <4>1, <4>2, <4>3 DEF ReplacePid, Go, EndpointTypeOK
      <4>4. CASE CreatePid(s)
        BY <4>1, <4>2, <4>4, <2>2 DEF CreatePid, Go, EndpointTypeOK, LoneServiceIsFound
      <4>5. CASE OwnPid(s)
        BY <4>1, <4>2, <4>5, <2>2 DEF OwnPid, Go, EndpointTypeOK, LoneServiceIsFound
      <4>6. CASE WriteNumber(s)
        <5>1. pidFile = {s} /\ number = {} /\ number' \in {number, {s}} /\ pidFile' = pidFile /\ at'[s] = "serving"
          BY <4>6, <2>2 DEF WriteNumber, Go, EndpointTypeOK, LoneServiceIsFound
        <5> QED BY <4>1, <4>2, <5>1
      <4> QED BY <3>3, <4>3, <4>4, <4>5, <4>6
    <3>4. CASE StartService(s) \/ Look(s) \/ Probe(s) \/ RemoveStale(s) \/ StartFails(s) \/ StopListening(s)
               \/ Drain(s) \/ RemoveSocket(s) \/ RemovePid(s) \/ Kill(s)
      BY <3>4 DEF EndpointTypeOK, Go, StartService, Look, Probe, RemoveStale,
         StartFails, StopListening, Drain, RemoveSocket, RemovePid, Kill, Bound, Listening
    <3> QED BY <1>2, <2>3, <3>1, <3>2, <3>3, <3>4
  <2>4. CASE s # m
    <3>1. endpoint = {s} /\ Leftovers(s) = {} /\ at'[s] = at[s]
      BY <2>1, <2>2, <2>4 DEF LoneServiceIsFound
    <3>2. m \notin endpointOwned /\ m \notin pidOwned /\ at[m] # "unlinking"
      BY <1>2, <3>1, <2>4, OneMoves DEF Leftovers
    <3>3. at[m] \notin Bound
      BY <3>2 DEF FilesHaveOwners
    <3>4. ~RemoveStale(m) /\ ~ReplacePid(m) /\ ~CreatePid(m) /\ ~OwnPid(m) /\ ~WriteNumber(m)
      BY <3>2, <3>3 DEF RemoveStale, ReplacePid, CreatePid, OwnPid, WriteNumber, Go, Bound, Listening
    <3>5. UNCHANGED <<endpoint, pidFile, number, endpointOwned, pidOwned>>
      <4>1. CASE Bind(m)
        BY <4>1, <3>1 DEF Bind, pidVars
      <4>2. CASE RemoveSocket(m) \/ RemovePid(m)
        BY <4>2, <3>2 DEF RemoveSocket, RemovePid, pidVars
      <4>3. CASE Probe(m)
        BY <4>3 DEF Probe, pidVars
      <4>4. CASE StartService(m) \/ Look(m) \/ Prepare(m) \/ Listen(m) \/ LookForPid(m) \/ StartFails(m)
                 \/ StopListening(m) \/ Drain(m)
        BY <4>4 DEF files, pidVars, StartService, Look, Prepare, Listen, LookForPid, StartFails, StopListening,
                    Drain
      <4>5. CASE Kill(m)
        BY <4>5, <3>2 DEF Kill
      <4> QED BY <1>2, <3>4, <4>1, <4>2, <4>3, <4>4, <4>5
    <3>6. at'[m] # "unlinking"
      <4>1. CASE Probe(m)
        <5>1. at[s] \notin {"bound", "prepared"}
          BY <4>1, <3>1 DEF Probe
        <5>2. Listens(s)
          BY <5>1, <3>1 DEF Listens, Bound
        <5> QED BY <4>1, <3>1, <5>2 DEF Probe, Go, EndpointTypeOK
      <4>2. CASE ~Probe(m)
        BY <1>2, <4>2, <3>1 DEF EndpointTypeOK, Go, StartService, Look, RemoveStale, Bind, Prepare, Listen, LookForPid,
           ReplacePid, CreatePid, OwnPid, WriteNumber, StartFails, StopListening, Drain, RemoveSocket, RemovePid, Kill
      <4> QED BY <4>1, <4>2
    <3>7. Leftovers(s)' = {}
      BY <3>1, <3>2, <3>5, <3>6, <2>1 DEF Leftovers
    <3> QED BY <3>1, <3>5, <3>7, <2>2 DEF LoneServiceIsFound
  <2> QED BY <2>3, <2>4
<1> QED BY <1>1, <1>2 DEF EndpointNext

-----------------------------------------------------------------------------
LEMMA EndpointAlways == EndpointSpec => []EndpointInv
<1>1. EndpointInv /\ [EndpointNext]_endpointVars => EndpointInv'
  BY EndpointTypes, OwnersKept, LoneKept DEF EndpointInv
<1> QED BY EndpointStarts, <1>1, PTL DEF EndpointSpec

\* A service that nobody met in the midst of its start or end keeps the socket file and
\* the pid file while it accepts connections, and one that ends leaves none of its own
\* (prepare_socket_path(), run() and cleanup_endpoint()).
THEOREM LoneServiceKeepsEndpoint == EndpointSpec => []EndpointIsKept
<1>1. EndpointInv => EndpointIsKept
  BY DEF EndpointInv, EndpointTypeOK, FilesHaveOwners, LoneServiceIsFound, EndpointIsKept, Listens, Bound, Listening,
         HoldsSocket, HoldsPid
<1> QED BY EndpointAlways, <1>1, PTL

-----------------------------------------------------------------------------
(***************************************************************************)
(* ReadyIsVerified for any revisions, libraries and number of attempts: a  *)
(* file has its name only since it was verified, and while anything is     *)
(* left of an older release the trainer has no stamp of the pinned one.    *)
(***************************************************************************)

Places == {"none", "manifest", "asset", "download", "verify", "current", "inspect", "restamp",
           "attempt", "listing", "pinned", "archive", "cache", "extract", "stamp", "remove", "publish"}
Partials == {"none", "cut", "other", "whole"}
Jobs == [kind : {"none", "fetch", "install"}, pc : Places, revision : Revisions \cup {NoRevision},
         asset : Nat, attempt : Nat, partial : Partials]

DownloadTypes ==
  /\ job \in Jobs
  /\ remote \in [revision : Revisions, rolling : BOOLEAN]
  /\ current_revision \in Revisions \cup {NoRevision}
  /\ model \in [Revisions -> [DOMAIN Assets -> {"none"} \cup Downloaded]]
  /\ trainer \in [Release -> {"none", "old", "unhashed", "cut", "pinned"}]

FilesAreVerified ==
  \A r \in Revisions, a \in DOMAIN Assets : model[r][a] # "none" => Verified(model[r][a], a)

\* The stamp is of the pinned release only once nothing of another one is left.
StampComesLast ==
  (\E e \in Release : trainer[e] = "old") =>
    /\ trainer[Stamp] \in {"old", "none"}
    /\ ~At("install", "restamp") /\ ~At("install", "publish")

DownloadsInv == DownloadTypes /\ FilesAreVerified /\ StampComesLast

\* What the steps make of the process.
LEMMA NobodyWorks == NoJob \in Jobs /\ NoJob.pc = "none" /\ NoJob.kind = "none"
BY DEF NoJob, Jobs, Places, Partials

LEMMA JobMoves ==
  ASSUME NEW j \in Jobs, NEW pc \in Places
  PROVE  /\ [j EXCEPT !.pc = pc] \in Jobs /\ [j EXCEPT !.pc = pc].pc = pc
         /\ \A r \in Revisions : [j EXCEPT !.pc = pc, !.revision = r] \in Jobs
                                  /\ [j EXCEPT !.pc = pc, !.revision = r].pc = pc
         /\ \A content \in Partials : [j EXCEPT !.pc = pc, !.partial = content] \in Jobs
                                      /\ [j EXCEPT !.pc = pc, !.partial = content].pc = pc
         /\ [j EXCEPT !.pc = pc, !.attempt = @ + 1] \in Jobs
         /\ [j EXCEPT !.pc = pc, !.attempt = @ + 1].pc = pc
         /\ [j EXCEPT !.pc = pc, !.asset = @ + 1, !.partial = "none"] \in Jobs
         /\ [j EXCEPT !.pc = pc, !.asset = @ + 1, !.partial = "none"].pc = pc
<1>0. j.asset + 1 \in Nat /\ j.attempt + 1 \in Nat /\ "none" \in Partials
  BY DEF Jobs, Partials
<1>1. [j EXCEPT !.pc = pc] \in Jobs /\ [j EXCEPT !.pc = pc].pc = pc
  BY DEF Jobs
<1>2. ASSUME NEW r \in Revisions
      PROVE  [j EXCEPT !.pc = pc, !.revision = r] \in Jobs /\ [j EXCEPT !.pc = pc, !.revision = r].pc = pc
  BY DEF Jobs
<1>3. ASSUME NEW content \in Partials
      PROVE  /\ [j EXCEPT !.pc = pc, !.partial = content] \in Jobs
             /\ [j EXCEPT !.pc = pc, !.partial = content].pc = pc
  BY DEF Jobs
<1>4. [j EXCEPT !.pc = pc, !.attempt = @ + 1] \in Jobs /\ [j EXCEPT !.pc = pc, !.attempt = @ + 1].pc = pc
  BY <1>0 DEF Jobs
<1>5. /\ [j EXCEPT !.pc = pc, !.asset = @ + 1, !.partial = "none"] \in Jobs
      /\ [j EXCEPT !.pc = pc, !.asset = @ + 1, !.partial = "none"].pc = pc
  BY <1>0 DEF Jobs
<1> QED BY <1>1, <1>2, <1>3, <1>4, <1>5

\* Where a step takes the process that works.
LEMMA Going ==
  ASSUME DownloadTypes
  PROVE  /\ \A pc \in Places : Step(pc) => job' \in Jobs /\ job'.pc = pc
         /\ End => job' \in Jobs /\ job'.pc = "none"
<1>1. job \in Jobs
  BY DEF DownloadTypes
<1>2. ASSUME NEW pc \in Places, Step(pc) PROVE job' \in Jobs /\ job'.pc = pc
  <2>1. [job EXCEPT !.pc = pc] \in Jobs /\ [job EXCEPT !.pc = pc].pc = pc
    BY <1>1, JobMoves, Zenon
  <2> QED BY <1>2, <2>1 DEF Step
<1>3. ASSUME End PROVE job' \in Jobs /\ job'.pc = "none"
  BY <1>3, NobodyWorks DEF End
<1> QED BY <1>2, <1>3

LEMMA SomePlaces ==
  {"asset", "download", "verify", "current", "restamp", "attempt", "listing", "pinned", "archive", "cache",
   "extract", "stamp", "remove", "publish"} \subseteq Places /\ Downloaded \subseteq Partials
BY DEF Places, Partials, Downloaded

LEMMA AssetDone ==
  ASSUME NEW j \in Jobs
  PROVE  [j EXCEPT !.asset = @ + 1] \in Jobs /\ [j EXCEPT !.asset = @ + 1].pc = j.pc
BY DEF Jobs

LEMMA AssetPlaces == Len(Assets) = 3 /\ DOMAIN Assets = 1..3
BY DEF Assets

LEMMA DownloadsStart == DownloadsInit => DownloadsInv
<1> SUFFICES ASSUME DownloadsInit PROVE DownloadsInv
  OBVIOUS
<1>1. DownloadTypes
  <2>1. job \in Jobs
    BY NobodyWorks DEF DownloadsInit
  <2>2. model \in [Revisions -> [DOMAIN Assets -> {"none"} \cup Downloaded]]
    BY DEF DownloadsInit, NoFiles
  <2>3. trainer \in [Release -> {"none", "old", "unhashed", "cut", "pinned"}]
    BY DEF DownloadsInit, Installed
  <2> QED BY <2>1, <2>2, <2>3 DEF DownloadsInit, DownloadTypes
<1>2. FilesAreVerified
  BY DEF DownloadsInit, FilesAreVerified, NoFiles
<1>3. StampComesLast
  BY DEF DownloadsInit, StampComesLast, Installed, Release, Stamp, At, NoJob
<1> QED BY <1>1, <1>2, <1>3 DEF DownloadsInv

\* A step of the process that leaves the files alone and goes on to neither of the
\* positions at which the stamp is written.
LEMMA FilesStay ==
  ASSUME DownloadsInv, UNCHANGED <<modelVars, trainer>>, remote' \in [revision : Revisions, rolling : BOOLEAN],
         job' \in Jobs,
         job' = job \/ job'.pc \notin {"restamp", "publish"}
  PROVE  DownloadsInv'
BY DEF DownloadsInv, DownloadTypes, FilesAreVerified, StampComesLast, modelVars, At

LEMMA Fetching ==
  ASSUME DownloadsInv, FetchModel \/ ReadManifest \/ CheckAsset \/ Download
  PROVE  DownloadsInv'
<1>1. UNCHANGED <<remote, modelVars, trainer>>
  BY DEF FetchModel, ReadManifest, CheckAsset, Download, trainerVars
<1>2. /\ job' \in Jobs
      /\ job'.pc \notin {"restamp", "publish"}
  <2>1. CASE FetchModel
    BY <2>1 DEF FetchModel, NoJob, Jobs, Places, Partials
  <2>2. CASE ReadManifest
    <3>1. job \in Jobs /\ remote.revision \in Revisions /\ "asset" \in Places
      BY SomePlaces DEF DownloadsInv, DownloadTypes
    <3>2. End \/ job' = [job EXCEPT !.pc = "asset", !.revision = remote.revision]
      BY <2>2 DEF ReadManifest
    <3>3. CASE job' = [job EXCEPT !.pc = "asset", !.revision = remote.revision]
      BY <3>1, <3>3, JobMoves, Zenon
    <3> QED BY <3>2, <3>3, Going DEF DownloadsInv
  <2>3. CASE CheckAsset
    <3>1. job \in Jobs /\ {"current", "download"} \subseteq Places
      BY SomePlaces DEF DownloadsInv, DownloadTypes
    <3>2. Step("current") \/ Step("download") \/ job' = [job EXCEPT !.asset = @ + 1]
      BY <2>3 DEF CheckAsset
    <3>3. job.pc = "asset"
      BY <2>3 DEF CheckAsset, At
    <3>4. CASE job' = [job EXCEPT !.asset = @ + 1]
      BY <3>1, <3>3, <3>4, AssetDone
    <3> QED BY <3>1, <3>2, <3>4, Going DEF DownloadsInv
  <2>4. CASE Download
    <3>1. job \in Jobs /\ "verify" \in Places
      BY SomePlaces DEF DownloadsInv, DownloadTypes
    <3>2. PICK content \in Downloaded : job' = [job EXCEPT !.pc = "verify", !.partial = content]
      BY <2>4 DEF Download
    <3>3. content \in Partials
      BY SomePlaces
    <3> QED BY <3>1, <3>2, <3>3, JobMoves, Zenon
  <2> QED BY <2>1, <2>2, <2>3, <2>4
<1> QED BY <1>1, <1>2, FilesStay DEF DownloadsInv, DownloadTypes

LEMMA Installing ==
  ASSUME DownloadsInv, InstallTrainer \/ FailInstall \/ TryManifest \/ TryListing \/ ReadRelease
                       \/ FindArchive \/ VerifyArchive \/ CacheArchive \/ Extract \/ StampRelease
                       \/ FinishInstall \/ Cancel
  PROVE  DownloadsInv'
<1>1. UNCHANGED <<remote, modelVars, trainer>>
  BY DEF InstallTrainer, FailInstall, TryManifest, TryListing, ReadRelease, FindArchive, VerifyArchive,
         CacheArchive, Extract, StampRelease, FinishInstall, Cancel, trainerVars
<1>2. /\ job' \in Jobs
      /\ job'.pc \notin {"restamp", "publish"}
  <2>1. CASE InstallTrainer
    BY <2>1 DEF InstallTrainer, NoJob, Jobs, Places, Partials
  <2>2. CASE FailInstall \/ FinishInstall \/ Cancel
    BY <2>2, NobodyWorks DEF FailInstall, FinishInstall, Cancel, End
  <2>3. CASE TryManifest \/ TryListing
    <3>1. job \in Jobs /\ NextAttempt \in {"attempt", "listing"} /\ {"pinned", "listing", "attempt"} \subseteq Places
      BY SomePlaces DEF DownloadsInv, DownloadTypes, NextAttempt
    <3>2. Step("pinned") \/ Step("listing") \/ End \/ job' = [job EXCEPT !.pc = NextAttempt, !.attempt = @ + 1]
      BY <2>3 DEF TryManifest, TryListing
    <3>3. CASE job' = [job EXCEPT !.pc = NextAttempt, !.attempt = @ + 1]
      BY <3>1, <3>3, JobMoves, Zenon
    <3> QED BY <3>1, <3>2, <3>3, Going DEF DownloadsInv
  <2>4. CASE ReadRelease \/ FindArchive \/ VerifyArchive \/ CacheArchive \/ Extract \/ StampRelease
    <3>1. \E pc \in {"archive", "extract", "download", "cache", "stamp", "remove"} : Step(pc)
      BY <2>4 DEF ReadRelease, FindArchive, VerifyArchive, CacheArchive, Extract, StampRelease
    <3> QED BY <3>1, Going, SomePlaces DEF DownloadsInv
  <2> QED BY <2>1, <2>2, <2>3, <2>4
<1> QED BY <1>1, <1>2, FilesStay DEF DownloadsInv, DownloadTypes

\* A file is named only when it is verified.
LEMMA Keeping ==
  ASSUME DownloadsInv, KeepAsset
  PROVE  DownloadsInv'
<1>1. CASE UNCHANGED model /\ End
  BY <1>1, NobodyWorks, FilesStay DEF KeepAsset, End, DownloadsInv, DownloadTypes, trainerVars, modelVars
<1>2. CASE /\ Verified(job.partial, job.asset)
           /\ model' = [model EXCEPT ![job.revision][job.asset] = job.partial]
           /\ job' = [job EXCEPT !.pc = "asset", !.asset = @ + 1, !.partial = "none"]
  <2>1. job.partial \in {"none"} \cup Downloaded
    BY DEF DownloadsInv, DownloadTypes, Jobs, Partials, Downloaded
  <2>2. model' \in [Revisions -> [DOMAIN Assets -> {"none"} \cup Downloaded]]
    BY <1>2, <2>1 DEF DownloadsInv, DownloadTypes
  <2>3. \A r \in Revisions, a \in DOMAIN Assets :
          model'[r][a] = model[r][a] \/ (model'[r][a] = job.partial /\ a = job.asset)
    BY <1>2 DEF DownloadsInv, DownloadTypes
  <2>4. FilesAreVerified'
    BY <1>2, <2>3 DEF DownloadsInv, FilesAreVerified, Verified
  <2>5. UNCHANGED <<remote, current_revision, trainer>>
    BY DEF KeepAsset, trainerVars
  <2>6. job'.pc = "asset" /\ job' \in Jobs
    <3>1. job \in Jobs /\ "asset" \in Places
      BY SomePlaces DEF DownloadsInv, DownloadTypes
    <3> QED BY <1>2, <3>1, JobMoves, Zenon
  <2>7. DownloadTypes'
    BY <2>2, <2>5, <2>6 DEF DownloadsInv, DownloadTypes
  <2> QED BY <2>4, <2>5, <2>6, <2>7 DEF DownloadsInv, StampComesLast, At
<1> QED BY <1>1, <1>2 DEF KeepAsset

LEMMA Revising ==
  ASSUME DownloadsInv, WriteRevision
  PROVE  DownloadsInv'
<1>1. UNCHANGED <<remote, model, trainer>> /\ job' = NoJob
      /\ current_revision' \in Revisions \cup {NoRevision}
  BY DEF WriteRevision, End, DownloadsInv, DownloadTypes, Jobs, trainerVars
<1>2. DownloadTypes'
  BY <1>1, NobodyWorks DEF DownloadsInv, DownloadTypes
<1> QED BY <1>1, <1>2 DEF DownloadsInv, FilesAreVerified, StampComesLast, At, NoJob

\* A stamp without a hash is that of the pinned release; anything published comes
\* after everything was removed.
LEMMA Replacing ==
  ASSUME DownloadsInv,
         Inspect \/ Restamp \/ BeginPublish \/ \E e \in Release : RemoveEntry(e) \/ PublishEntry(e)
  PROVE  DownloadsInv'
<1>1. UNCHANGED <<remote, modelVars>>
  BY DEF Inspect, Restamp, BeginPublish, RemoveEntry, PublishEntry, trainerVars
<1>2. trainer' \in [Release -> {"none", "old", "unhashed", "cut", "pinned"}]
  BY DEF Inspect, Restamp, BeginPublish, RemoveEntry, PublishEntry, trainerVars, DownloadsInv, DownloadTypes
<1>3. job' \in Jobs
  <2>1. job' = job \/ End \/ \E pc \in {"restamp", "attempt", "publish"} : Step(pc)
    BY DEF Inspect, Restamp, BeginPublish, RemoveEntry, PublishEntry
  <2> QED BY <2>1, Going, SomePlaces DEF DownloadsInv, DownloadTypes
<1>4. StampComesLast'
  <2>1. CASE Inspect
    <3>1. CASE UNCHANGED trainer /\ (End \/ Step("attempt"))
      <4>1. job'.pc \notin {"restamp", "publish"}
        BY <3>1, Going, SomePlaces DEF DownloadsInv
      <4> QED BY <3>1, <4>1 DEF DownloadsInv, StampComesLast, At
    <3>2. CASE trainer[Stamp] = "unhashed" /\ trainer' = [trainer EXCEPT ![Stamp] = "cut"]
      <4>1. \A e \in Release : trainer[e] # "old"
        BY <3>2 DEF DownloadsInv, StampComesLast
      <4> QED BY <3>2, <4>1 DEF StampComesLast, DownloadsInv, DownloadTypes
    <3> QED BY <2>1, <3>1, <3>2 DEF Inspect
  <2>2. CASE Restamp \/ BeginPublish
    BY <2>2 DEF Restamp, BeginPublish, Removed, Step, End, NoJob, At, trainerVars, DownloadsInv, DownloadTypes,
                StampComesLast
  <2>3. CASE \E e \in Release : RemoveEntry(e) \/ PublishEntry(e)
    BY <2>3 DEF RemoveEntry, PublishEntry, At, Release, DownloadsInv, DownloadTypes, StampComesLast
  <2> QED BY <2>1, <2>2, <2>3
<1> QED BY <1>1, <1>2, <1>3, <1>4 DEF DownloadsInv, DownloadTypes, FilesAreVerified, modelVars

LEMMA Moving ==
  ASSUME DownloadsInv, RemoteMoves
  PROVE  DownloadsInv'
<1>1. UNCHANGED <<job, modelVars, trainer>> /\ remote' \in [revision : Revisions, rolling : BOOLEAN]
  <2>1. CASE \E r \in Revisions \ {remote.revision} : remote' = [remote EXCEPT !.revision = r]
    BY <2>1 DEF RemoteMoves, DownloadsInv, DownloadTypes, trainerVars
  <2>2. CASE remote' = [remote EXCEPT !.rolling = FALSE]
    BY <2>2 DEF RemoteMoves, DownloadsInv, DownloadTypes, trainerVars
  <2> QED BY <2>1, <2>2 DEF RemoteMoves
<1> QED BY <1>1, FilesStay DEF DownloadsInv, DownloadTypes

LEMMA DownloadsSteps == DownloadsInv /\ [DownloadsNext]_downloadVars => DownloadsInv'
<1>1. DownloadsInv /\ UNCHANGED downloadVars => DownloadsInv'
  BY FilesStay DEF downloadVars, trainerVars, DownloadsInv, DownloadTypes
<1> QED BY <1>1, Fetching, Installing, Keeping, Revising, Replacing, Moving DEF DownloadsNext

\* However downloads and installations are cancelled or fail and the servers move on,
\* a model that is shown as ready has no short file and the verified weights, and a
\* trainer that counts as usable has no entry of another release (lora_cli.cpp).
THEOREM ReadyThingsAreVerified == DownloadsSpec => []ReadyIsVerified
<1>1. DownloadsInv => ReadyIsVerified
  <2> SUFFICES ASSUME DownloadsInv PROVE ReadyIsVerified
    OBVIOUS
  <2>1. ASSUME ModelReady, NEW a \in DOMAIN Assets
        PROVE  model[current_revision][a] # "cut" /\ (a = Len(Assets) => model[current_revision][a] = "whole")
    <3>1. current_revision \in Revisions /\ model[current_revision][a] # "none"
      BY <2>1 DEF ModelReady, DownloadsInv, DownloadTypes
    <3>2. Verified(model[current_revision][a], a)
      BY <3>1 DEF DownloadsInv, FilesAreVerified
    <3> QED BY <3>2, AssetPlaces DEF Verified
  <2>2. ASSUME TrainerUsable, NEW e \in Release PROVE trainer[e] # "old"
    BY <2>2 DEF TrainerUsable, DownloadsInv, StampComesLast
  <2> QED BY <2>1, <2>2 DEF ReadyIsVerified
<1> QED BY DownloadsStart, DownloadsSteps, <1>1, PTL DEF DownloadsSpec

-----------------------------------------------------------------------------
\* How far a process has counted, and what lies beside the files.
DownloadCounts ==
  /\ job.asset \in 1..4 /\ job.attempt \in 1..(MaxAttempts + 1)
  /\ job.kind = "fetch" /\ job.pc \in {"download", "verify"} => job.asset <= 3
  /\ job.pc \in {"inspect", "attempt"} => job.attempt <= MaxAttempts
  /\ staging \subseteq Release /\ cache \in {"none", "whole"}

LEMMA NoJobCounts ==
  ASSUME job' = NoJob, staging' \subseteq Release, cache' \in {"none", "whole"}
  PROVE  DownloadCounts'
<1>1. job'.asset = 1 /\ job'.attempt = 1 /\ job'.kind = "none" /\ job'.pc = "none"
  BY DEF NoJob
<1> QED BY <1>1, AttemptsAssumption DEF DownloadCounts

\* A step to any other place leaves the counters alone.
LEMMA StepCounts ==
  ASSUME DownloadTypes, DownloadCounts, NEW pc \in Places, Step(pc),
         pc \in {"download", "verify"} /\ job.kind = "fetch" => job.asset <= 3,
         pc \in {"inspect", "attempt"} => job.attempt <= MaxAttempts,
         staging' \subseteq Release, cache' \in {"none", "whole"}
  PROVE  DownloadCounts'
<1>1. job'.asset = job.asset /\ job'.attempt = job.attempt /\ job'.kind = job.kind /\ job'.pc = pc
  BY DEF Step, DownloadTypes, Jobs
<1> QED BY <1>1 DEF DownloadCounts

LEMMA CountsOfFetch ==
  ASSUME DownloadTypes, DownloadCounts,
         FetchModel \/ ReadManifest \/ CheckAsset \/ Download \/ KeepAsset \/ WriteRevision
  PROVE  DownloadCounts'
<1>1. staging' \subseteq Release /\ cache' \in {"none", "whole"}
  BY DEF DownloadCounts, FetchModel, ReadManifest, CheckAsset, Download, KeepAsset, WriteRevision, trainerVars
<1>2. job \in Jobs
  BY DEF DownloadTypes
<1>3. CASE End
  BY <1>1, <1>3, NoJobCounts DEF End
<1>4. CASE FetchModel
  <2>1. job'.asset = 1 /\ job'.attempt = 1 /\ job'.kind = "fetch" /\ job'.pc = "manifest"
    BY <1>4 DEF FetchModel, NoJob
  <2> QED BY <1>1, <2>1, AttemptsAssumption DEF DownloadCounts
<1>5. CASE ReadManifest
  <2>1. CASE job' = [job EXCEPT !.pc = "asset", !.revision = remote.revision]
    <3>1. job'.asset = job.asset /\ job'.attempt = job.attempt /\ job'.pc = "asset"
      BY <1>2, <2>1 DEF Jobs
    <3> QED BY <1>1, <3>1 DEF DownloadCounts
  <2> QED BY <1>3, <1>5, <2>1 DEF ReadManifest
<1>6. CASE CheckAsset
  <2>1. CASE Step("current")
    BY <1>1, <2>1, StepCounts, SomePlaces
  <2>2. CASE job.asset <= Len(Assets) /\ Step("download")
    BY <1>1, <2>2, StepCounts, SomePlaces, AssetPlaces
  <2>3. CASE job.asset <= Len(Assets) /\ job' = [job EXCEPT !.asset = @ + 1]
    <3>1. job'.asset = job.asset + 1 /\ job'.attempt = job.attempt /\ job'.pc = "asset"
      BY <1>2, <1>6, <2>3 DEF Jobs, CheckAsset, At
    <3>2. job.asset <= 3
      BY <2>3, AssetPlaces
    <3> QED BY <1>1, <3>1, <3>2 DEF DownloadCounts
  <2> QED BY <1>6, <2>1, <2>2, <2>3 DEF CheckAsset
<1>7. CASE Download
  <2>1. PICK content \in Downloaded : job' = [job EXCEPT !.pc = "verify", !.partial = content]
    BY <1>7 DEF Download
  <2>2. job'.asset = job.asset /\ job'.attempt = job.attempt /\ job'.kind = job.kind /\ job'.pc = "verify"
    BY <1>2, <2>1 DEF Jobs
  <2>3. job.pc = "download"
    BY <1>7 DEF Download
  <2> QED BY <1>1, <2>2, <2>3 DEF DownloadCounts
<1>8. CASE KeepAsset
  <2>1. CASE job' = [job EXCEPT !.pc = "asset", !.asset = @ + 1, !.partial = "none"]
    <3>1. job'.asset = job.asset + 1 /\ job'.attempt = job.attempt /\ job'.pc = "asset"
      BY <1>2, <2>1 DEF Jobs
    <3>2. job.asset <= 3
      BY <1>8 DEF KeepAsset, At, DownloadCounts
    <3> QED BY <1>1, <3>1, <3>2 DEF DownloadCounts
  <2> QED BY <1>3, <1>8, <2>1 DEF KeepAsset
<1>9. CASE WriteRevision
  BY <1>3, <1>9 DEF WriteRevision
<1> QED BY <1>4, <1>5, <1>6, <1>7, <1>8, <1>9

LEMMA CountsOfAttempts ==
  ASSUME DownloadTypes, DownloadCounts, TryManifest \/ TryListing
  PROVE  DownloadCounts'
<1>1. staging' \subseteq Release /\ cache' \in {"none", "whole"}
  BY DEF DownloadCounts, TryManifest, TryListing, trainerVars
<1>2. job \in Jobs
  BY DEF DownloadTypes
<1>3. CASE Step("pinned") \/ Step("listing")
  BY <1>1, <1>3, StepCounts, SomePlaces
<1>4. CASE End
  BY <1>1, <1>4, NoJobCounts DEF End
<1>5. CASE job.attempt <= MaxAttempts /\ job' = [job EXCEPT !.pc = NextAttempt, !.attempt = @ + 1]
  <2>1. job'.asset = job.asset /\ job'.attempt = job.attempt + 1 /\ job'.pc = NextAttempt
    BY <1>2, <1>5 DEF Jobs
  <2>2. job.attempt \in Nat /\ MaxAttempts \in Nat
    BY <1>2, AttemptsAssumption DEF Jobs
  <2>3. NextAttempt = "listing" \/ (NextAttempt = "attempt" /\ job.attempt < MaxAttempts)
    BY DEF NextAttempt
  <2>4. job'.attempt \in 1..(MaxAttempts + 1)
    BY <1>5, <2>1, <2>2
  <2>5. job'.pc \in {"inspect", "attempt"} => job'.attempt <= MaxAttempts
    BY <2>1, <2>2, <2>3
  <2>6. job'.pc \notin {"download", "verify"}
    BY <2>1, <2>3
  <2> QED BY <1>1, <2>1, <2>4, <2>5, <2>6 DEF DownloadCounts
<1>6. CASE TryManifest
  <2>1. job.attempt <= MaxAttempts
    BY <1>6 DEF TryManifest, At, DownloadCounts
  <2> QED BY <1>3, <1>5, <1>6, <2>1 DEF TryManifest
<1>7. CASE TryListing
  <2>1. job.attempt \in Nat /\ MaxAttempts \in Nat
    BY <1>2, AttemptsAssumption DEF Jobs
  <2> QED BY <1>3, <1>4, <1>5, <1>7, <2>1 DEF TryListing
<1> QED BY <1>6, <1>7

LEMMA CountsOfInstallation ==
  ASSUME DownloadTypes, DownloadCounts,
         InstallTrainer \/ FailInstall \/ Inspect \/ Restamp \/ ReadRelease \/ FindArchive \/ VerifyArchive
           \/ CacheArchive \/ Extract \/ StampRelease \/ BeginPublish \/ FinishInstall \/ Cancel
  PROVE  DownloadCounts'
<1>1. staging' \subseteq Release /\ cache' \in {"none", "whole"}
  BY DEF DownloadCounts, InstallTrainer, FailInstall, Inspect, Restamp, ReadRelease, FindArchive, VerifyArchive,
         CacheArchive, Extract, StampRelease, BeginPublish, FinishInstall, Cancel, trainerVars
<1>2. CASE End
  BY <1>1, <1>2, NoJobCounts DEF End
<1>3. CASE InstallTrainer
  <2>1. job'.asset = 1 /\ job'.attempt = 1 /\ job'.kind = "install" /\ job'.pc = "inspect"
    BY <1>3 DEF InstallTrainer, NoJob
  <2> QED BY <1>1, <2>1, AttemptsAssumption DEF DownloadCounts
<1>4. CASE Inspect
  <2>1. job.attempt <= MaxAttempts
    BY <1>4 DEF Inspect, At, DownloadCounts
  <2>2. CASE Step("restamp") \/ Step("attempt")
    BY <1>1, <2>1, <2>2, StepCounts, SomePlaces
  <2> QED BY <1>2, <1>4, <2>2 DEF Inspect
<1>5. CASE ReadRelease \/ FindArchive \/ VerifyArchive \/ CacheArchive \/ Extract \/ StampRelease \/ BeginPublish
  <2>1. PICK pc \in {"archive", "extract", "download", "cache", "stamp", "remove", "publish"} : Step(pc)
    BY <1>5 DEF ReadRelease, FindArchive, VerifyArchive, CacheArchive, Extract, StampRelease, BeginPublish
  <2>2. job.kind = "install"
    BY <1>5 DEF ReadRelease, FindArchive, VerifyArchive, CacheArchive, Extract, StampRelease, BeginPublish, At
  <2>3. pc \in Places
    BY SomePlaces
  <2> QED BY <1>1, <2>1, <2>2, <2>3, StepCounts
<1>6. CASE FailInstall \/ Restamp \/ FinishInstall \/ Cancel
  BY <1>2, <1>6 DEF FailInstall, Restamp, FinishInstall, Cancel
<1> QED BY <1>3, <1>4, <1>5, <1>6

LEMMA CountsKept == DownloadTypes /\ DownloadCounts /\ [DownloadsNext]_downloadVars => DownloadCounts'
<1> SUFFICES ASSUME DownloadTypes, DownloadCounts, [DownloadsNext]_downloadVars PROVE DownloadCounts'
  OBVIOUS
<1>1. CASE (\E e \in Release : RemoveEntry(e) \/ PublishEntry(e)) \/ RemoteMoves \/ UNCHANGED downloadVars
  <2>1. UNCHANGED <<job, cache>> /\ staging' \subseteq Release
    BY <1>1 DEF RemoveEntry, PublishEntry, RemoteMoves, downloadVars, trainerVars, DownloadCounts
  <2> QED BY <2>1 DEF DownloadCounts
<1> QED BY <1>1, CountsOfFetch, CountsOfAttempts, CountsOfInstallation DEF DownloadsNext

\* However a download ends, every file is there to one of the extents that are told
\* apart, and no process counts past its last attempt or asset.
THEOREM DownloadTypesKept == DownloadsSpec => []DownloadsTypeOK
<1>1. DownloadsInit => DownloadCounts
  <2> SUFFICES ASSUME DownloadsInit PROVE DownloadCounts
    OBVIOUS
  <2>1. job.asset = 1 /\ job.attempt = 1 /\ job.kind = "none" /\ job.pc = "none"
    BY DEF DownloadsInit, NoJob
  <2> QED BY <2>1, AttemptsAssumption DEF DownloadsInit, DownloadCounts
<1>2. DownloadsInv => DownloadTypes
  BY DEF DownloadsInv
<1>3. DownloadTypes /\ DownloadCounts => DownloadsTypeOK
  <2> SUFFICES ASSUME DownloadTypes, DownloadCounts PROVE DownloadsTypeOK
    OBVIOUS
  <2>1. job \in [kind : {"none", "fetch", "install"}, pc : Places, revision : Revisions \cup {NoRevision},
                 asset : 1..(Len(Assets) + 1), attempt : 1..(MaxAttempts + 1), partial : {"none"} \cup Downloaded]
    <3>1. job.asset \in 1..(Len(Assets) + 1) /\ job.attempt \in 1..(MaxAttempts + 1)
      BY AssetPlaces DEF DownloadCounts
    <3>2. Partials = {"none"} \cup Downloaded
      BY DEF Partials, Downloaded
    <3> QED BY <3>1, <3>2 DEF DownloadTypes, Jobs
  <2> QED BY <2>1 DEF DownloadsTypeOK, DownloadTypes, DownloadCounts, Places
<1> QED BY DownloadsStart, DownloadsSteps, CountsKept, <1>1, <1>2, <1>3, PTL DEF DownloadsSpec

-----------------------------------------------------------------------------
(***************************************************************************)
(* StoredPhrasesStay for any front ends, texts and readings.  What a save  *)
(* writes is read back as it was, since every phrase that a front end      *)
(* holds is one that load() accepts; and a copy that is called fresh is    *)
(* the file, so a save from it writes what is meant and what was there.    *)
(***************************************************************************)

WellFormed(phrases) ==
  \A k \in Keys : phrases[k] # Absent => Valid([word |-> phrases[k], key |-> k])

PhrasesAreValid ==
  /\ \A e \in FrontEnds : Running(e) => WellFormed(memory[e])
  /\ WellFormed(saving.previous)

\* Who saves, and who gets the keys, runs.
SaversRun ==
  /\ saving.by = Absent => saving = Idle
  /\ saving.by # Absent => saving.pc # "idle" /\ Running(saving.by)
  /\ active # Absent => Running(active)

\* A fresh copy of a front end that does not save is the file, and so is a fresh dialog.
FreshCopies ==
  /\ \A e \in FrontEnds \cap fresh : Running(e) /\ (saving.by # e => memory[e] = Loaded(file))
  /\ "dialog" \in fresh => dialog # Absent /\ Loaded(dialog) = Loaded(file)
  /\ dialog # Absent => Running(Addon)

\* A save from a fresh copy writes what is meant wherever the file was as meant.
SaveIsMeant ==
  saving.by # Absent =>
    /\ saving.by \in fresh => saving.previous = Loaded(file)
    /\ saving.sound => \A k \in Keys : IsKept(k) => memory[saving.by][k] = saving.meant[k]
    /\ saving.pc = "rename" => temporary = Entries(memory[saving.by])

PhrasesInv == PhrasesTypeOK /\ PhrasesAreValid /\ SaversRun /\ FreshCopies /\ SaveIsMeant

Saves == [by : FrontEnds \cup {Absent}, pc : {"idle", "open", "write", "rename"},
          previous : Phrases, meant : Phrases, sound : BOOLEAN]

\* load() yields phrases that it accepts.
LEMMA LoadedIsValid ==
  ASSUME NEW lines \in Seq(Lines)
  PROVE  Loaded(lines) \in Phrases /\ WellFormed(Loaded(lines))
<1> DEFINE Of(k) == {i \in DOMAIN lines : lines[i].key = k /\ Valid(lines[i])}
           last(k) == CHOOSE i \in Of(k) : \A j \in Of(k) : j <= i
<1>1. ASSUME NEW k \in Keys, Of(k) # {}
      PROVE  /\ lines[last(k)].word \in Words
             /\ Valid([word |-> lines[last(k)].word, key |-> k])
  <2>1. Of(k) \in SUBSET (1..Len(lines)) /\ Len(lines) \in Nat
    BY LenProperties
  <2>2. \E i \in Of(k) : \A j \in Of(k) : j <= i
    BY <1>1, <2>1, GreatestPosition
  <2>3. last(k) \in Of(k)
    BY <2>2
  <2>4. lines[last(k)] \in Lines
    BY <2>1, <2>3, ElementOfSeq
  <2> QED BY <2>3, <2>4, Zenon DEF Lines, Valid
<1>2. Loaded(lines) = [k \in Keys |-> IF Of(k) = {} THEN Absent ELSE lines[last(k)].word]
  BY DEF Loaded
<1> HIDE DEF Of, last
<1>3. Loaded(lines) \in Phrases
  BY <1>1, <1>2 DEF Phrases
<1>4. WellFormed(Loaded(lines))
  BY <1>1, <1>2 DEF WellFormed
<1> QED BY <1>3, <1>4

\* What save() writes, load() reads.
LEMMA SavedIsLoaded ==
  ASSUME NEW phrases \in Phrases, WellFormed(phrases)
  PROVE  Entries(phrases) \in Seq(Lines) /\ Loaded(Entries(phrases)) = phrases
<1> DEFINE S == {i \in DOMAIN KeyOrder : phrases[KeyOrder[i]] # Absent}
           kept == Keep(KeyOrder, S)
           lines == [i \in DOMAIN kept |-> [word |-> phrases[kept[i]], key |-> kept[i]]]
<1>1. Entries(phrases) = lines
  BY DEF Entries
<1>2. S \in SUBSET (DOMAIN KeyOrder)
  OBVIOUS
<1>3. kept \in Seq(Keys) /\ \A i \in DOMAIN kept : \E j \in S : kept[i] = KeyOrder[j]
  <2> HIDE DEF S
  <2>1. /\ kept \in Seq(Keys)
        /\ \E from \in [DOMAIN kept -> S] : \A i \in DOMAIN kept : kept[i] = KeyOrder[from[i]]
    <3>1. KeyOrder \in Seq(Keys)
      BY KeyOrderAssumption
    <3>2. /\ Keep(KeyOrder, S) \in Seq(Keys)
          /\ \E from \in [DOMAIN Keep(KeyOrder, S) -> S] :
               /\ \A i \in DOMAIN Keep(KeyOrder, S) : Keep(KeyOrder, S)[i] = KeyOrder[from[i]]
               /\ \A k, l \in DOMAIN Keep(KeyOrder, S) : k < l => from[k] < from[l]
      BY <1>2, <3>1, KeepEmbeds, Zenon
    <3> QED BY <3>2
  <2> QED BY <2>1
<1>4. \A i \in DOMAIN kept : kept[i] \in Keys /\ phrases[kept[i]] \in Words
  <2> TAKE i \in DOMAIN kept
  <2>1. kept[i] \in Keys
    BY <1>3, ElementOfSeq, LenProperties
  <2>2. phrases[kept[i]] # Absent
    BY <1>3
  <2> QED BY <2>1, <2>2 DEF Phrases
<1>5. \A k \in Keys : phrases[k] # Absent => \E i \in DOMAIN kept : kept[i] = k
  <2> SUFFICES ASSUME NEW k \in Keys, phrases[k] # Absent PROVE \E i \in DOMAIN kept : kept[i] = k
    OBVIOUS
  <2>1. PICK j \in S : KeyOrder[j] = k
    BY KeyOrderAssumption
  <2> HIDE DEF S
  <2>2. \E i \in DOMAIN kept : kept[i] = KeyOrder[j]
    BY <1>2, KeepsEach, KeyOrderAssumption
  <2> QED BY <2>1, <2>2
<1> HIDE DEF S, kept
<1>6. lines \in Seq(Lines) /\ DOMAIN lines = DOMAIN kept
  <2>1. DOMAIN kept = 1..Len(kept) /\ Len(kept) \in Nat
    BY <1>3, LenProperties
  <2>2. lines \in [1..Len(kept) -> Lines]
    BY <1>4, <2>1 DEF Lines
  <2> QED BY <2>1, <2>2, FunctionIsSeq
<1>7. \A i \in DOMAIN kept : lines[i].key = kept[i] /\ lines[i].word = phrases[kept[i]] /\ Valid(lines[i])
  BY <1>3, <1>4 DEF WellFormed, Phrases, kept, S
<1> HIDE DEF lines
<1> DEFINE Of(k) == {i \in DOMAIN lines : lines[i].key = k /\ Valid(lines[i])}
           last(k) == CHOOSE i \in Of(k) : \A j \in Of(k) : j <= i
<1>8. ASSUME NEW k \in Keys
      PROVE  (IF Of(k) = {} THEN Absent ELSE lines[last(k)].word) = phrases[k]
  <2>1. CASE phrases[k] = Absent
    <3>1. Of(k) = {}
      BY <2>1, <1>4, <1>6, <1>7, AbsenceAssumption
    <3> QED BY <2>1, <3>1
  <2>2. CASE phrases[k] # Absent
    <3>1. Of(k) # {}
      BY <1>5, <1>6, <1>7, <2>2
    <3>2. Of(k) \in SUBSET (1..Len(lines)) /\ Len(lines) \in Nat
      BY <1>6, LenProperties
    <3>3. \E i \in Of(k) : \A j \in Of(k) : j <= i
      BY <3>1, <3>2, GreatestPosition
    <3>4. last(k) \in Of(k)
      BY <3>3
    <3>5. lines[last(k)].word = phrases[k]
      BY <3>4, <1>6, <1>7
    <3> QED BY <3>1, <3>5
  <2> QED BY <2>1, <2>2
<1>9. Loaded(lines) = [k \in Keys |-> IF Of(k) = {} THEN Absent ELSE lines[last(k)].word]
  BY DEF Loaded
<1> HIDE DEF Of, last
<1>10. Loaded(lines) = phrases
  BY <1>8, <1>9 DEF Phrases
<1> QED BY <1>1, <1>6, <1>10

LEMMA IdleSaves ==
  /\ Idle.by = Absent /\ Idle.pc = "idle" /\ Idle.previous = NoPhrases /\ Idle.sound = TRUE
  /\ Idle \in Saves
BY DEF Idle, NoPhrases, Phrases, Saves

LEMMA PhrasesStart == PhrasesInit => PhrasesInv
<1> SUFFICES ASSUME PhrasesInit PROVE PhrasesInv
  OBVIOUS
<1>1. NoPhrases \in Phrases /\ WellFormed(NoPhrases)
  BY DEF NoPhrases, Phrases, WellFormed
<1>2. PhrasesTypeOK
  BY <1>1, IdleSaves DEF PhrasesInit, PhrasesTypeOK, Saves
<1>3. PhrasesAreValid
  BY <1>1, IdleSaves DEF PhrasesInit, PhrasesAreValid, Running
<1>4. SaversRun /\ FreshCopies /\ SaveIsMeant
  BY IdleSaves DEF PhrasesInit, SaversRun, FreshCopies, SaveIsMeant
<1> QED BY <1>2, <1>3, <1>4 DEF PhrasesInv

\* A front end that runs holds phrases, and Idle saves nothing.
LEMMA Held ==
  ASSUME PhrasesInv
  PROVE  /\ \A e \in FrontEnds : Running(e) => memory[e] \in Phrases /\ WellFormed(memory[e])
         /\ NoPhrases \in Phrases /\ WellFormed(NoPhrases)
         /\ Loaded(file) \in Phrases /\ WellFormed(Loaded(file))
         /\ \A phrases \in Phrases : phrases # Absent
         /\ \A e \in FrontEnds : e # Absent
<1>1. \A e \in FrontEnds : Running(e) => memory[e] \in Phrases /\ WellFormed(memory[e])
  BY DEF PhrasesInv, PhrasesTypeOK, PhrasesAreValid, Running
<1>2. NoPhrases \in Phrases /\ WellFormed(NoPhrases)
  BY DEF NoPhrases, Phrases, WellFormed
<1>3. Loaded(file) \in Phrases /\ WellFormed(Loaded(file))
  BY LoadedIsValid DEF PhrasesInv, PhrasesTypeOK
<1> QED BY <1>1, <1>2, <1>3, AbsenceAssumption DEF Phrases

\* Whatever a front end that does not save has read is the file, or what it had.
LEMMA LoadingFile ==
  ASSUME PhrasesInv, NEW e \in FrontEnds, NEW readable \in BOOLEAN, Load(e, readable),
         saving.by # e,
         active' \in {active, e}, UNCHANGED <<file, temporary, saving, dialog, stored>>
  PROVE  PhrasesInv'
<1> DEFINE p == IF readable THEN Loaded(file) ELSE IF Running(e) THEN memory[e] ELSE NoPhrases
<1>1. memory' = [memory EXCEPT ![e] = p] /\ fresh' = IF readable THEN fresh \cup {e} ELSE fresh
  BY DEF Load, PhrasesInv, PhrasesTypeOK
<1>2. p \in Phrases /\ WellFormed(p) /\ (readable => p = Loaded(file))
      /\ (~readable /\ Running(e) => p = memory[e])
  BY Held
<1> HIDE DEF p
<1>3. /\ memory' \in [FrontEnds -> Phrases \cup {Absent}] /\ memory'[e] = p
      /\ \A d \in FrontEnds \ {e} : memory'[d] = memory[d]
  BY <1>1, <1>2 DEF PhrasesInv, PhrasesTypeOK
<1>4. PhrasesTypeOK'
  BY <1>1, <1>3 DEF PhrasesInv, PhrasesTypeOK
<1>5. PhrasesAreValid'
  <2>1. \A d \in FrontEnds : Running(d)' => WellFormed(memory'[d])
    BY <1>2, <1>3 DEF PhrasesInv, PhrasesAreValid, Running
  <2> QED BY <2>1 DEF PhrasesInv, PhrasesAreValid, WellFormed
<1>6. p # Absent
  BY <1>2, Held
<1>7. /\ saving.by \in FrontEnds \cup {Absent} /\ active \in FrontEnds \cup {Absent}
      /\ saving.by # Absent => memory'[saving.by] = memory[saving.by]
      /\ \A d \in FrontEnds : Running(d) => Running(d)'
      /\ Running(e)'
  BY <1>3, <1>6 DEF PhrasesInv, PhrasesTypeOK, Running
<1>8. SaversRun'
  BY <1>7 DEF PhrasesInv, SaversRun
<1>9. FreshCopies'
  <2>1. ASSUME NEW d \in FrontEnds, d \in fresh'
        PROVE  Running(d)' /\ (saving.by # d => memory'[d] = Loaded(file))
    <3>1. CASE d = e /\ readable
      BY <1>2, <1>3, <1>7, <3>1
    <3>2. CASE d = e /\ ~readable
      BY <1>1, <1>2, <1>3, <1>7, <2>1, <3>2 DEF PhrasesInv, FreshCopies
    <3>3. CASE d # e
      BY <1>1, <1>3, <1>7, <2>1, <3>3 DEF PhrasesInv, FreshCopies
    <3> QED BY <3>1, <3>2, <3>3
  <2>2. "dialog" \in fresh' => "dialog" \in fresh
    BY <1>1, FrontEndsAssumption
  <2>3. Running(Addon) => Running(Addon)'
    BY <1>7, FrontEndsAssumption
  <2> QED BY <2>1, <2>2, <2>3 DEF PhrasesInv, FreshCopies
<1>10. SaveIsMeant'
  BY <1>1, <1>7 DEF PhrasesInv, SaveIsMeant, IsKept
<1> QED BY <1>4, <1>5, <1>8, <1>9, <1>10 DEF PhrasesInv

\* A front end that starts works with the phrases of the file, or with none.
LEMMA Starting ==
  ASSUME PhrasesInv, NEW e \in FrontEnds, NEW readable \in BOOLEAN, StartFrontEnd(e, readable)
  PROVE  PhrasesInv'
<1>1. saving.by # e
  BY Held DEF StartFrontEnd, PhrasesInv, SaversRun
<1> QED BY <1>1, LoadingFile DEF StartFrontEnd

LEMMA Reloading ==
  ASSUME PhrasesInv, NEW e \in FrontEnds, NEW readable \in BOOLEAN,
         ReloadPhrases(e, readable) \/ ActivateFrontEnd(e, readable)
  PROVE  PhrasesInv'
BY LoadingFile DEF ReloadPhrases, ActivateFrontEnd, Ready

LEMMA Unconfigured ==
  ASSUME PhrasesInv, NEW e \in FrontEnds, ActivateUnconfigured(e)
  PROVE  PhrasesInv'
<1>1. /\ UNCHANGED <<file, temporary, memory, saving, dialog, fresh, stored>>
      /\ active' = e /\ Running(e)
  BY DEF ActivateUnconfigured, Ready
<1> QED BY <1>1 DEF PhrasesInv, PhrasesTypeOK, PhrasesAreValid, WellFormed, SaversRun, FreshCopies,
                    SaveIsMeant, IsKept, Running

\* A save begins: the front end holds what it is to write, and remembers what it held.
LEMMA Saving ==
  ASSUME PhrasesInv, NEW e \in FrontEnds, NEW phrases \in Phrases, NEW meant \in Phrases, NEW copy,
         Running(e), saving = Idle, Save(e, phrases, meant, copy), WellFormed(phrases),
         copy \in fresh => \A k \in Keys : IsKept(k) => phrases[k] = meant[k],
         UNCHANGED <<file, temporary, active, stored>>,
         UNCHANGED <<dialog, fresh>> \/ (dialog' = Absent /\ fresh' = fresh \ {"dialog"})
  PROVE  PhrasesInv'
<1>1. /\ memory' \in [FrontEnds -> Phrases \cup {Absent}] /\ memory'[e] = phrases
      /\ \A d \in FrontEnds \ {e} : memory'[d] = memory[d]
  BY DEF Save, PhrasesInv, PhrasesTypeOK
<1>2. /\ saving' \in Saves
      /\ saving'.by = e /\ saving'.pc = "open" /\ saving'.previous = memory[e] /\ saving'.meant = meant
      /\ saving'.sound = (copy \in fresh)
  BY Held DEF Save, Saves
<1>3. PhrasesTypeOK'
  <2>1. dialog' \in Seq(Lines) \cup {Absent} /\ fresh' \subseteq FrontEnds \cup {"dialog"}
    BY DEF PhrasesInv, PhrasesTypeOK
  <2> QED BY <1>1, <1>2, <2>1 DEF PhrasesInv, PhrasesTypeOK, Saves
<1>4. PhrasesAreValid'
  <2>1. \A d \in FrontEnds : Running(d)' => WellFormed(memory'[d])
    BY <1>1 DEF PhrasesInv, PhrasesAreValid, Running
  <2>2. WellFormed(saving'.previous)
    BY <1>2, Held
  <2> QED BY <2>1, <2>2 DEF PhrasesAreValid, WellFormed
<1>5. /\ phrases # Absent /\ e # Absent
      /\ \A d \in FrontEnds : Running(d) => Running(d)'
  BY <1>1, Held DEF Running
<1>6. SaversRun'
  BY <1>1, <1>2, <1>5 DEF PhrasesInv, PhrasesTypeOK, SaversRun
<1>7. FreshCopies'
  <2>1. \A d \in FrontEnds : saving.by # d
    BY Held, IdleSaves
  <2>2. \A d \in FrontEnds \cap fresh : Running(d)' /\ (saving'.by # d => memory'[d] = Loaded(file))
    BY <1>1, <1>2, <1>5, <2>1 DEF PhrasesInv, FreshCopies
  <2>3. fresh' \subseteq fresh /\ Running(Addon) => Running(Addon)'
    BY <1>5, FrontEndsAssumption
  <2> QED BY <2>2, <2>3, <1>5, FrontEndsAssumption DEF PhrasesInv, FreshCopies
<1>8. SaveIsMeant'
  <2>1. e \in fresh' => memory[e] = Loaded(file)
    BY Held, IdleSaves, FrontEndsAssumption DEF PhrasesInv, FreshCopies
  <2> QED BY <1>1, <1>2, <2>1 DEF SaveIsMeant, IsKept
<1> QED BY <1>3, <1>4, <1>6, <1>7, <1>8 DEF PhrasesInv

\* A phrase is added to those that the front end has.
LEMMA Adding ==
  ASSUME PhrasesInv, NEW line \in Lines, Add(line)
  PROVE  PhrasesInv'
<1> DEFINE phrases == [memory[active] EXCEPT ![line.key] = line.word]
           meant == [stored EXCEPT ![line.key] = line.word]
<1>1. /\ active # Absent /\ saving = Idle /\ Valid(line) /\ Save(active, phrases, meant, active)
      /\ UNCHANGED <<file, temporary, active, dialog, fresh, stored>>
  BY DEF Add
<1>2. active \in FrontEnds /\ Running(active) /\ memory[active] \in Phrases /\ WellFormed(memory[active])
  BY <1>1, Held DEF PhrasesInv, PhrasesTypeOK, SaversRun
<1>3. line.key \in Keys /\ line.word \in Words /\ line.word # Absent /\ stored \in Phrases
  BY AbsenceAssumption DEF Lines, PhrasesInv, PhrasesTypeOK
<1>4. phrases \in Phrases /\ WellFormed(phrases)
  BY <1>1, <1>2, <1>3 DEF Phrases, WellFormed, Valid
<1>5. meant \in Phrases
  BY <1>3 DEF Phrases
<1>6. ASSUME active \in fresh, NEW k \in Keys, IsKept(k)
      PROVE  phrases[k] = meant[k]
  <2>1. memory[active] = Loaded(file)
    BY <1>1, <1>2, <1>6, Held, IdleSaves DEF PhrasesInv, FreshCopies
  <2>2. memory[active][k] = stored[k]
    BY <1>6, <2>1 DEF IsKept
  <2> QED BY <1>2, <1>3, <2>2 DEF Phrases
<1> HIDE DEF phrases, meant
<1> QED BY <1>1, <1>2, <1>4, <1>5, <1>6, Saving

LEMMA EditedIsList ==
  ASSUME dialog \in Seq(Lines), NEW rows \in Edited
  PROVE  rows \in Seq(Lines)
<1>1. CASE \E k \in Keys : rows = Keep(dialog, {i \in DOMAIN dialog : dialog[i].key # k})
  <2>1. PICK k \in Keys : rows = Keep(dialog, {i \in DOMAIN dialog : dialog[i].key # k})
    BY <1>1
  <2> DEFINE S == {i \in DOMAIN dialog : dialog[i].key # k}
  <2>2. S \in SUBSET (DOMAIN dialog)
    OBVIOUS
  <2>3. rows = Keep(dialog, S)
    BY <2>1
  <2> HIDE DEF S
  <2>4. Keep(dialog, S) \in Seq(Lines)
    BY <2>2, KeepEmbeds, Zenon
  <2> QED BY <2>3, <2>4
<1>2. CASE \E l \in Lines : rows = Append(dialog, l)
  BY <1>2
<1> QED BY <1>1, <1>2 DEF Edited

\* The list that the user confirms is what is meant to be stored, where it has been
\* changed, and elsewhere what the dialog was opened with.
LEMMA Applying ==
  ASSUME PhrasesInv, dialog # Absent, NEW rows \in Edited, ApplyDialog(rows)
  PROVE  PhrasesInv'
<1>1. dialog \in Seq(Lines) /\ rows \in Seq(Lines)
  BY EditedIsList DEF PhrasesInv, PhrasesTypeOK
<1>2. CASE rows = <<>>
  <2>1. /\ UNCHANGED <<file, temporary, memory, saving, active, stored>> /\ dialog' = Absent
        /\ fresh' = fresh \ {"dialog"}
    BY <1>2 DEF ApplyDialog
  <2> QED BY <2>1 DEF PhrasesInv, PhrasesTypeOK, PhrasesAreValid, WellFormed, SaversRun, FreshCopies,
                      SaveIsMeant, IsKept, Running
<1>3. CASE rows # <<>>
  <2>1. /\ Save(Addon, Loaded(rows), Confirmed(rows), "dialog") /\ saving = Idle
        /\ dialog' = Absent /\ fresh' = fresh \ {"dialog"}
        /\ UNCHANGED <<file, temporary, active, stored>>
    BY <1>3 DEF ApplyDialog
  <2>2. Addon \in FrontEnds /\ Running(Addon)
    BY FrontEndsAssumption DEF PhrasesInv, FreshCopies
  <2>3. Loaded(rows) \in Phrases /\ WellFormed(Loaded(rows))
    BY <1>1, LoadedIsValid
  <2>4. Confirmed(rows) \in Phrases
    BY <2>3 DEF Confirmed, Phrases, PhrasesInv, PhrasesTypeOK
  <2>5. ASSUME "dialog" \in fresh, NEW k \in Keys, IsKept(k)
        PROVE  Loaded(rows)[k] = Confirmed(rows)[k]
    <3>1. Loaded(dialog)[k] = stored[k]
      BY <2>5 DEF PhrasesInv, FreshCopies, IsKept
    <3> QED BY <3>1 DEF Confirmed
  <2> QED BY <2>1, <2>2, <2>3, <2>4, <2>5, Saving
<1> QED BY <1>2, <1>3

\* The dialog shows what the front end holds.
LEMMA Opening ==
  ASSUME PhrasesInv, OpenDialog
  PROVE  PhrasesInv'
<1>1. /\ UNCHANGED <<file, temporary, memory, saving, active, stored>> /\ dialog' = Entries(memory[Addon])
      /\ fresh' = IF Addon \in fresh THEN fresh \cup {"dialog"} ELSE fresh
      /\ Running(Addon) /\ saving.by # Addon /\ dialog = Absent /\ Addon \in FrontEnds
  BY FrontEndsAssumption DEF OpenDialog, Ready
<1>2. Entries(memory[Addon]) \in Seq(Lines) /\ Loaded(Entries(memory[Addon])) = memory[Addon]
  BY <1>1, Held, SavedIsLoaded
<1>3. PhrasesTypeOK'
  BY <1>1, <1>2 DEF PhrasesInv, PhrasesTypeOK
<1>4. PhrasesAreValid' /\ SaversRun'
  BY <1>1 DEF PhrasesInv, PhrasesAreValid, WellFormed, SaversRun, Running
<1>5. dialog' # Absent
  BY <1>1, <1>2, AbsenceAssumption DEF Lines
<1>6. FreshCopies'
  <2>1. \A e \in FrontEnds \cap fresh' : e \in fresh
    BY <1>1, FrontEndsAssumption
  <2>2. "dialog" \in fresh' => Addon \in fresh
    BY <1>1 DEF PhrasesInv, FreshCopies
  <2>3. Addon \in fresh => memory[Addon] = Loaded(file)
    BY <1>1 DEF PhrasesInv, FreshCopies
  <2> QED BY <1>1, <1>2, <1>5, <2>1, <2>2, <2>3 DEF PhrasesInv, FreshCopies, Running
<1>7. SaveIsMeant'
  <2>1. saving.by \in FrontEnds => (saving.by \in fresh' => saving.by \in fresh)
    BY <1>1, FrontEndsAssumption
  <2>2. saving.by \in FrontEnds \cup {Absent}
    BY DEF PhrasesInv, PhrasesTypeOK
  <2> QED BY <1>1, <2>1, <2>2 DEF PhrasesInv, SaveIsMeant, IsKept
<1> QED BY <1>3, <1>4, <1>6, <1>7 DEF PhrasesInv

\* Who saves, and what it holds meanwhile.
LEMMA WhoSaves ==
  ASSUME PhrasesInv, saving # Idle
  PROVE  /\ saving.by \in FrontEnds /\ saving.by # Absent /\ saving.pc # "idle"
         /\ memory[saving.by] \in Phrases /\ WellFormed(memory[saving.by])
         /\ saving.previous \in Phrases /\ WellFormed(saving.previous) /\ saving.meant \in Phrases
BY Held DEF PhrasesInv, PhrasesTypeOK, PhrasesAreValid, SaversRun

\* A failed save returns to what was held before, which is the file if that was fresh.
LEMMA Failing ==
  ASSUME PhrasesInv, SaveFails
  PROVE  PhrasesInv'
<1>1. /\ UNCHANGED <<file, active, dialog, fresh, stored>> /\ saving # Idle /\ saving' = Idle
      /\ temporary' = <<>> /\ memory' = [memory EXCEPT ![saving.by] = saving.previous]
  BY DEF SaveFails
<1>2. /\ saving.by \in FrontEnds /\ saving.by # Absent /\ saving.previous \in Phrases
      /\ WellFormed(saving.previous) /\ saving.previous # Absent
  BY <1>1, WhoSaves, Held
<1>3. /\ memory' \in [FrontEnds -> Phrases \cup {Absent}] /\ memory'[saving.by] = saving.previous
      /\ \A d \in FrontEnds \ {saving.by} : memory'[d] = memory[d]
  BY <1>1, <1>2 DEF PhrasesInv, PhrasesTypeOK
<1>4. PhrasesTypeOK'
  BY <1>1, <1>3, IdleSaves DEF PhrasesInv, PhrasesTypeOK, Saves
<1>5. PhrasesAreValid'
  <2>1. \A d \in FrontEnds : Running(d)' => WellFormed(memory'[d])
    BY <1>2, <1>3 DEF PhrasesInv, PhrasesAreValid, Running
  <2>2. WellFormed(saving'.previous)
    BY <1>1, IdleSaves, Held
  <2> QED BY <2>1, <2>2 DEF PhrasesAreValid, WellFormed
<1>6. \A d \in FrontEnds : Running(d) => Running(d)'
  BY <1>2, <1>3 DEF Running
<1>7. SaversRun' /\ SaveIsMeant'
  BY <1>1, <1>6, IdleSaves DEF PhrasesInv, PhrasesTypeOK, SaversRun, SaveIsMeant
<1>8. FreshCopies'
  <2>1. saving.by \in fresh => saving.previous = Loaded(file)
    BY <1>2 DEF PhrasesInv, SaveIsMeant
  <2>2. \A d \in FrontEnds \cap fresh : memory'[d] = Loaded(file)
    BY <1>3, <2>1 DEF PhrasesInv, FreshCopies
  <2> QED BY <1>1, <1>6, <2>2, FrontEndsAssumption DEF PhrasesInv, FreshCopies
<1> QED BY <1>4, <1>5, <1>7, <1>8 DEF PhrasesInv

\* The temporary file is that of the save.
LEMMA Writing ==
  ASSUME PhrasesInv, OpenTemporary \/ WriteLines
  PROVE  PhrasesInv'
<1>1. UNCHANGED <<file, memory, active, dialog, fresh, stored>> /\ saving # Idle
  BY IdleSaves DEF OpenTemporary, WriteLines
<1>2. Entries(memory[saving.by]) \in Seq(Lines)
  BY <1>1, WhoSaves, SavedIsLoaded
<1>3. /\ temporary' \in Seq(Lines)
      /\ \E pc \in {"write", "rename"} : saving' = [saving EXCEPT !.pc = pc]
      /\ saving'.pc = "rename" => temporary' = Entries(memory[saving.by])
  <2>1. saving \in Saves
    BY DEF PhrasesInv, PhrasesTypeOK, Saves
  <2>2. CASE OpenTemporary
    BY <2>1, <2>2 DEF OpenTemporary, Saves
  <2>3. CASE WriteLines
    <3> DEFINE lines == Entries(memory[saving.by])
    <3>1. PICK n \in 0..Len(lines) : /\ temporary' = SubSeq(lines, 1, n)
                                     /\ saving' = [saving EXCEPT !.pc = IF n = Len(lines) THEN "rename" ELSE "write"]
      BY <2>3 DEF WriteLines
    <3>2. lines \in Seq(Lines)
      BY <1>2
    <3> HIDE DEF lines
    <3>3. SubSeq(lines, 1, n) \in Seq(Lines) /\ (n = Len(lines) => SubSeq(lines, 1, n) = lines)
      BY <3>2
    <3>4. saving'.pc = "rename" => n = Len(lines)
      BY <2>1, <3>1 DEF Saves
    <3> QED BY <3>1, <3>3, <3>4 DEF lines
  <2> QED BY <2>2, <2>3
<1>4. /\ saving' \in Saves
      /\ saving'.by = saving.by /\ saving'.previous = saving.previous /\ saving'.meant = saving.meant
      /\ saving'.pc # "idle" /\ saving'.sound = saving.sound
  BY <1>3 DEF PhrasesInv, PhrasesTypeOK, Saves
<1>5. PhrasesTypeOK'
  BY <1>1, <1>3, <1>4 DEF PhrasesInv, PhrasesTypeOK, Saves
<1>6. PhrasesAreValid' /\ FreshCopies'
  BY <1>1, <1>4 DEF PhrasesInv, PhrasesAreValid, WellFormed, Running, FreshCopies
<1>7. SaversRun' /\ SaveIsMeant'
  BY <1>1, <1>3, <1>4, WhoSaves DEF PhrasesInv, SaversRun, SaveIsMeant, Running, IsKept
<1> QED BY <1>5, <1>6, <1>7 DEF PhrasesInv

\* What is renamed is read back as what the front end that saved holds.
LEMMA WrittenIsLoaded ==
  ASSUME PhrasesInv, RenameTemporary
  PROVE  saving # Idle /\ Loaded(file)' = memory[saving.by]
<1>1. saving # Idle /\ file' = temporary /\ temporary = Entries(memory[saving.by])
  BY IdleSaves DEF RenameTemporary, PhrasesInv, SaveIsMeant, SaversRun
<1> QED BY <1>1, WhoSaves, SavedIsLoaded

\* From the rename on its copy is the only fresh one.
LEMMA Renaming ==
  ASSUME PhrasesInv, RenameTemporary
  PROVE  PhrasesInv'
<1>1. /\ UNCHANGED <<memory, active, dialog>> /\ saving # Idle /\ saving' = Idle /\ saving.pc = "rename"
      /\ file' = temporary /\ temporary' = <<>> /\ stored' = saving.meant
      /\ fresh' = {saving.by}
  BY IdleSaves DEF RenameTemporary
<1>2. Loaded(file)' = memory[saving.by]
  BY WrittenIsLoaded
<1>3. PhrasesTypeOK'
  BY <1>1, WhoSaves, IdleSaves DEF PhrasesInv, PhrasesTypeOK, Saves
<1>4. PhrasesAreValid'
  <2>1. WellFormed(saving'.previous)
    BY <1>1, IdleSaves, Held
  <2> QED BY <1>1, <2>1 DEF PhrasesInv, PhrasesAreValid, WellFormed, Running
<1>5. SaversRun' /\ SaveIsMeant'
  BY <1>1, IdleSaves DEF PhrasesInv, SaversRun, SaveIsMeant, Running
<1>6. FreshCopies'
  BY <1>1, <1>2, WhoSaves, FrontEndsAssumption DEF PhrasesInv, SaversRun, FreshCopies, Running
<1> QED BY <1>3, <1>4, <1>5, <1>6 DEF PhrasesInv

\* A process that ends takes its copies and its save with it.
LEMMA Crashing ==
  ASSUME PhrasesInv, NEW e \in FrontEnds, Crash(e)
  PROVE  PhrasesInv'
<1>1. /\ UNCHANGED <<file, stored>> /\ memory' = [memory EXCEPT ![e] = Absent]
      /\ saving' = IF saving.by = e THEN Idle ELSE saving
      /\ active' = IF active = e THEN Absent ELSE active
      /\ dialog' = IF e = Addon THEN Absent ELSE dialog
      /\ fresh' = fresh \ ({e} \cup IF e = Addon THEN {"dialog"} ELSE {})
      /\ temporary' = IF saving.by = e THEN <<>> ELSE temporary
  BY DEF Crash
<1>2. /\ memory' \in [FrontEnds -> Phrases \cup {Absent}] /\ memory'[e] = Absent
      /\ \A d \in FrontEnds \ {e} : memory'[d] = memory[d]
  BY <1>1 DEF PhrasesInv, PhrasesTypeOK
<1>3. PhrasesTypeOK'
  <2>1. fresh' \subseteq FrontEnds \cup {"dialog"} /\ dialog' \in Seq(Lines) \cup {Absent}
    BY <1>1 DEF PhrasesInv, PhrasesTypeOK
  <2>2. saving' \in Saves
    BY <1>1, IdleSaves DEF PhrasesInv, PhrasesTypeOK, Saves
  <2> QED BY <1>1, <1>2, <2>1, <2>2 DEF PhrasesInv, PhrasesTypeOK, Saves
<1>4. PhrasesAreValid'
  <2>1. \A d \in FrontEnds : Running(d)' => WellFormed(memory'[d])
    BY <1>2 DEF PhrasesInv, PhrasesAreValid, Running
  <2>2. WellFormed(saving'.previous)
    BY <1>1, IdleSaves, Held DEF PhrasesInv, PhrasesAreValid
  <2> QED BY <2>1, <2>2 DEF PhrasesAreValid, WellFormed
<1>5. e # Absent
  BY Held
<1>6. SaversRun' /\ SaveIsMeant'
  BY <1>1, <1>2, <1>5, IdleSaves DEF PhrasesInv, PhrasesTypeOK, SaversRun, SaveIsMeant, Running, IsKept
<1>7. FreshCopies'
  <2>1. \A d \in FrontEnds \cap fresh' : d # e /\ d \in fresh
    BY <1>1
  <2>2. \A d \in FrontEnds \ {e} : saving'.by # d => saving.by # d
    BY <1>1
  <2>3. \A d \in FrontEnds \cap fresh' : Running(d)' /\ (saving'.by # d => memory'[d] = Loaded(file))
    BY <1>2, <2>1, <2>2 DEF PhrasesInv, FreshCopies, Running
  <2>4. CASE e = Addon
    BY <1>1, <2>3, <2>4 DEF FreshCopies
  <2>5. CASE e # Addon
    BY <1>1, <1>2, <2>3, <2>5, FrontEndsAssumption DEF PhrasesInv, FreshCopies, Running
  <2> QED BY <2>4, <2>5
<1> QED BY <1>3, <1>4, <1>6, <1>7 DEF PhrasesInv

LEMMA EditingFile ==
  ASSUME PhrasesInv, NEW lines \in UserFiles, EditFile(lines)
  PROVE  PhrasesInv'
<1>1. lines \in Seq(Lines)
  <2>1. PICK n \in 0..MaxLines : lines \in [1..n -> Lines]
    BY DEF UserFiles
  <2>2. n \in Nat
    BY LinesAssumption
  <2> QED BY <2>1, <2>2, FunctionIsSeq
<1>2. /\ UNCHANGED <<temporary, memory, saving, active, dialog>> /\ saving = Idle
      /\ file' = lines /\ fresh' = {} /\ stored' = Loaded(lines)
  BY DEF EditFile
<1>3. PhrasesTypeOK'
  BY <1>1, <1>2, LoadedIsValid DEF PhrasesInv, PhrasesTypeOK
<1> QED BY <1>2, <1>3, IdleSaves DEF PhrasesInv, PhrasesAreValid, WellFormed, SaversRun, FreshCopies,
                                     SaveIsMeant, Running

LEMMA PhrasesSteps == PhrasesInv /\ [PhrasesNext]_phraseVars => PhrasesInv'
<1> SUFFICES ASSUME PhrasesInv, [PhrasesNext]_phraseVars PROVE PhrasesInv'
  OBVIOUS
<1>1. CASE UNCHANGED phraseVars
  BY <1>1 DEF phraseVars, PhrasesInv, PhrasesTypeOK, PhrasesAreValid, WellFormed, SaversRun, FreshCopies,
              SaveIsMeant, IsKept, Running
<1>2. CASE \E e \in FrontEnds, readable \in BOOLEAN :
             StartFrontEnd(e, readable) \/ ReloadPhrases(e, readable) \/ ActivateFrontEnd(e, readable)
  BY <1>2, Starting, Reloading
<1>3. CASE (\E e \in FrontEnds : ActivateUnconfigured(e)) \/ \E line \in Lines : Add(line)
  BY <1>3, Unconfigured, Adding
<1>4. CASE OpenDialog \/ (dialog # Absent /\ \E rows \in Edited : ApplyDialog(rows))
  BY <1>4, Opening, Applying
<1>5. CASE SaveFails \/ OpenTemporary \/ WriteLines \/ RenameTemporary
  BY <1>5, Failing, Writing, Renaming
<1>6. CASE (\E e \in FrontEnds : Crash(e)) \/ \E lines \in UserFiles : EditFile(lines)
  BY <1>6, Crashing, EditingFile
<1> QED BY <1>1, <1>2, <1>3, <1>4, <1>5, <1>6 DEF PhrasesNext

LEMMA PhrasesAlways == PhrasesSpec => []PhrasesInv
BY PhrasesStart, PhrasesSteps, PTL DEF PhrasesSpec

\* The file changes by a rename, or by the user's hand.
LEMMA KeptByEveryStep ==
  ASSUME PhrasesInv, [PhrasesNext]_phraseVars, NEW k \in Keys, IsKept(k), saving.sound
  PROVE  IsKept(k)'
<1>1. CASE RenameTemporary
  <2>1. saving # Idle /\ Loaded(file)' = memory[saving.by] /\ stored' = saving.meant
    BY <1>1, WrittenIsLoaded DEF RenameTemporary
  <2>2. memory[saving.by][k] = saving.meant[k]
    BY <2>1, WhoSaves DEF PhrasesInv, SaveIsMeant
  <2> QED BY <2>1, <2>2 DEF IsKept
<1>2. CASE \E lines \in UserFiles : EditFile(lines)
  BY <1>2 DEF EditFile, IsKept
<1>3. CASE UNCHANGED <<file, stored>>
  BY <1>3 DEF IsKept
<1> QED BY <1>1, <1>2, <1>3 DEF PhrasesNext, phraseVars, StartFrontEnd, ReloadPhrases, ActivateFrontEnd,
           ActivateUnconfigured, Add, OpenDialog, ApplyDialog, SaveFails, OpenTemporary, WriteLines, Crash

\* A phrase that a front end has reported as stored is read from the file until the user
\* takes it back, whichever front end or dialog saves next from a copy that nobody has
\* written the file behind, and wherever a process ends or a save fails.  A save from an
\* older copy is the exception that StoredPhrasesStay names (PhraseOverrideStore).
THEOREM ReportedPhrasesStay == PhrasesSpec => StoredPhrasesStay
<1>1. PhrasesInv /\ [PhrasesNext]_phraseVars
        => [<<file, stored>>' # <<file, stored>>
              => \A k \in Keys : IsKept(k) /\ saving.sound => IsKept(k)']_phraseVars
  BY KeptByEveryStep
<1> QED BY PhrasesAlways, <1>1, PTL DEF PhrasesSpec, StoredPhrasesStay

-----------------------------------------------------------------------------
(***************************************************************************)
(* MixedSurvives for any tokens, any tables and any TopK above one.  Every *)
(* reading kept without a syllable shows the keys themselves, so all those *)
(* of one length are one text, and the best of them takes one of the TopK  *)
(* places: the others are left to readings with a syllable.                *)
(***************************************************************************)
\* Every element of the finite set S has a partner, and together they are all of T.
LEMMA FiniteImage ==
  ASSUME NEW S, IsFiniteSet(S), NEW T, NEW f \in [S -> T], \A t \in T : \E s \in S : f[s] = t
  PROVE  IsFiniteSet(T)
<1>1. f \in Surjection(S, T)
  BY DEF Surjection
<1> QED
  BY <1>1, FS_Surjection

\* A finite set of numbers that is not empty has a greatest one.
LEMMA GreatestNumber ==
  ASSUME NEW S \in SUBSET Int, IsFiniteSet(S), S # {}
  PROVE  \E m \in S : \A x \in S : x <= m
<1> DEFINE Below(x) == {y \in S : y < x}
           rank == [x \in S |-> Cardinality(Below(x)) + 1]
           n == Cardinality(S) + 1
           R == {rank[x] : x \in S}
<1>1. \A x \in S : /\ IsFiniteSet(Below(x)) /\ Cardinality(Below(x)) \in Nat
                   /\ Cardinality(Below(x)) <= Cardinality(S)
  <2> TAKE x \in S
  <2>1. Below(x) \in SUBSET S
    OBVIOUS
  <2> HIDE DEF Below
  <2> QED
    BY <2>1, FS_Subset, FS_CardinalityType
<1>2. Cardinality(S) \in Nat
  BY FS_CardinalityType
<1>3. R \in SUBSET (1..n) /\ R # {} /\ n \in Nat
  <2> HIDE DEF Below
  <2>1. \A x \in S : rank[x] \in 1..n
    BY <1>1, <1>2
  <2>2. \A i \in R : \E x \in S : i = rank[x]
    OBVIOUS
  <2>3. PICK x \in S : TRUE
    OBVIOUS
  <2>4. rank[x] \in R
    OBVIOUS
  <2> HIDE DEF rank, R
  <2>5. R \in SUBSET (1..n)
    BY <2>1, <2>2
  <2> QED BY <2>4, <2>5, <1>2
<1>4. PICK r \in R : \A i \in R : i <= r
  <2> HIDE DEF R, n
  <2> QED BY <1>3, GreatestPosition
<1>5. PICK m \in S : rank[m] = r
  BY <1>4
<1>6. SUFFICES ASSUME NEW x \in S, ~(x <= m) PROVE FALSE
  BY <1>5
<1>7. Below(m) \cup {m} \in SUBSET Below(x) /\ m \notin Below(m)
  <2>1. m \in Int /\ x \in Int /\ \A y \in S : y \in Int
    BY <1>5, <1>6
  <2>2. \A y \in S : y < m => y < x
    <3> TAKE y \in S
    <3> QED BY <2>1, <1>6
  <2>3. m < x /\ ~(m < m)
    BY <2>1, <1>6
  <2> QED BY <2>2, <2>3, <1>5, <1>6
<1>8. Cardinality(Below(m)) + 1 <= Cardinality(Below(x))
  <2> HIDE DEF Below
  <2>1. IsFiniteSet(Below(m)) /\ IsFiniteSet(Below(x))
    BY <1>1, <1>5
  <2>2. Cardinality(Below(m) \cup {m}) = Cardinality(Below(m)) + 1
    BY <2>1, <1>7, FS_AddElement
  <2>3. Cardinality(Below(m) \cup {m}) <= Cardinality(Below(x))
    BY <2>1, <1>7, FS_Subset
  <2> QED BY <2>2, <2>3
<1>9. rank[x] \in R /\ rank[x] = Cardinality(Below(x)) + 1 /\ rank[m] = Cardinality(Below(m)) + 1
  BY <1>5, <1>6
<1> QED
  <2> HIDE DEF Below, rank, R
  <2>1. rank[x] <= rank[m]
    BY <1>4, <1>5, <1>9
  <2> QED BY <2>1, <1>8, <1>9, <1>1, <1>5, <1>6

-----------------------------------------------------------------------------
TokenKinds == {"LatinWord", "Number", "OperatorOrSymbol", "Alphanumeric", "Identifier", "Domain",
               "Email", "URL", "FilesystemPath"}

LEMMA ProposalsForm ==
  ASSUME NEW b \in Nat
  PROVE  /\ Len(Proposals(b)) = 9
         /\ \A k \in 1..9 : Proposals(b)[k].kind \in TokenKinds
         /\ Proposals(b)[1].ends = {b + 1}
  BY DEF Proposals, TokenKinds

LEMMA TokensForm ==
  ASSUME NEW b \in Nat, KeyCount \in Nat
  PROVE  /\ IsFiniteSet(Tokens(b))
         /\ \A t \in Tokens(b) : t.kind \in TokenKinds /\ t.begin = b /\ t.end \in (b + 1)..KeyCount
         /\ b < KeyCount => \E t \in Tokens(b) : t.end = b + 1
<1> DEFINE First(e) == {k \in 1..Len(Proposals(b)) : e \in Proposals(b)[k].ends /\ \A j \in 1..(k - 1) : e \notin Proposals(b)[j].ends}
           Of(e) == {[kind |-> Proposals(b)[k].kind, begin |-> b, end |-> e] : k \in First(e)}
           All == {Of(e) : e \in (b + 1)..KeyCount}
<1>1. Tokens(b) = UNION All
  BY DEF Tokens
<1>2. \A e \in (b + 1)..KeyCount : IsFiniteSet(Of(e))
  <2> TAKE e \in (b + 1)..KeyCount
  <2>1. IsFiniteSet(First(e))
    <3>1. First(e) \in SUBSET (1..9)
      BY ProposalsForm
    <3>2. IsFiniteSet(1..9)
      BY UpToFinite
    <3> HIDE DEF First
    <3> QED BY <3>1, <3>2, FS_Subset
  <2> DEFINE f == [k \in First(e) |-> [kind |-> Proposals(b)[k].kind, begin |-> b, end |-> e]]
  <2>2. f \in [First(e) -> Of(e)] /\ \A t \in Of(e) : \E k \in First(e) : f[k] = t
    OBVIOUS
  <2> HIDE DEF f, First, Of
  <2> QED BY <2>1, <2>2, FiniteImage
<1>3. IsFiniteSet(All)
  <2> DEFINE f == [e \in (b + 1)..KeyCount |-> Of(e)]
  <2>1. f \in [(b + 1)..KeyCount -> All] /\ \A t \in All : \E e \in (b + 1)..KeyCount : f[e] = t
    OBVIOUS
  <2>2. IsFiniteSet((b + 1)..KeyCount)
    <3>1. b + 1 \in Int /\ KeyCount \in Int
      OBVIOUS
    <3> QED BY <3>1, FS_Interval
  <2> HIDE DEF f, All, Of
  <2> QED BY <2>1, <2>2, FiniteImage
<1>4. IsFiniteSet(Tokens(b))
  <2>1. \A T \in All : IsFiniteSet(T)
    <3> HIDE DEF Of
    <3> QED BY <1>2
  <2> HIDE DEF All
  <2> QED BY <1>1, <1>3, <2>1, FS_UNION
<1>5. \A t \in Tokens(b) : t.kind \in TokenKinds /\ t.begin = b /\ t.end \in (b + 1)..KeyCount
  <2>1. \A k \in 1..Len(Proposals(b)) : Proposals(b)[k].kind \in TokenKinds
    BY ProposalsForm
  <2>2. ASSUME NEW e \in (b + 1)..KeyCount, NEW t \in Of(e)
        PROVE  t.kind \in TokenKinds /\ t.begin = b /\ t.end = e
    BY <2>1
  <2> HIDE DEF Of
  <2> QED BY <2>2, <1>1
<1>6. ASSUME b < KeyCount PROVE \E t \in Tokens(b) : t.end = b + 1
  <2> DEFINE t == [kind |-> Proposals(b)[1].kind, begin |-> b, end |-> b + 1]
  <2>1. 1 \in First(b + 1)
    <3>1. 1 \in 1..Len(Proposals(b)) /\ b + 1 \in Proposals(b)[1].ends
      BY ProposalsForm
    <3>2. 1..(1 - 1) = {}
      OBVIOUS
    <3> QED BY <3>1, <3>2
  <2>2. b + 1 \in (b + 1)..KeyCount
    BY <1>6
  <2>3. t \in Of(b + 1)
    <3> HIDE DEF First
    <3> QED BY <2>1
  <2>4. Of(b + 1) \in All
    <3> HIDE DEF Of
    <3> QED BY <2>2
  <2> HIDE DEF Of, All
  <2> QED BY <2>3, <2>4, <1>1
<1> QED BY <1>4, <1>5, <1>6

-----------------------------------------------------------------------------
MixedEdge == [begin : Int, end : Int, kind : {"number", "symbol", "latin", "bopomofo", "key"}, score : Int]
Entry == [path : Seq(MixedEdge), rendered : Seq(MixedEdge), score : Int]

\* What the tables say is a finite set of syllables inside the token.
TablesOK ==
  /\ KeyCount \in Nat
  /\ IsFiniteSet(syllables) /\ \A s \in syllables : s \in Nat \X Nat /\ s[1] < s[2] /\ s[2] <= KeyCount
  /\ IsFiniteSet(closers) /\ closers \subseteq Nat

LEMMA AsciiEdgesForm ==
  ASSUME NEW t, t.kind \in TokenKinds, t.begin \in Nat, t.end \in Nat
  PROVE  /\ AsciiEdge(t) \in MixedEdge /\ AsciiEdge(t).kind # "bopomofo"
         /\ AsciiEdge(t).begin = t.begin /\ AsciiEdge(t).end = t.end
<1> DEFINE word == IF t.end - t.begin >= known THEN 20 ELSE 0
           kind == CASE t.kind = "Number" -> "number"
                     [] t.kind = "OperatorOrSymbol" -> "symbol"
                     [] OTHER -> "latin"
           score == CASE t.kind \in Structured -> 60
                      [] t.kind = "LatinWord" -> 10 + word
                      [] t.kind = "Alphanumeric" -> 8 + word
                      [] t.kind = "Number" -> 8
                      [] t.kind = "OperatorOrSymbol" -> 0
<1>1. kind \in {"number", "symbol", "latin"}
  OBVIOUS
<1>2. score \in Int
  <2>1. word \in Int
    OBVIOUS
  <2> HIDE DEF word
  <2> QED BY <2>1 DEF TokenKinds, Structured
<1>3. AsciiEdge(t) = [begin |-> t.begin, end |-> t.end, kind |-> kind, score |-> score]
  BY DEF AsciiEdge
<1> HIDE DEF kind, score
<1> QED
  BY <1>1, <1>2, <1>3 DEF MixedEdge

\* Every key by itself is an edge, and so is every syllable.
LEMMA EdgesForm ==
  ASSUME TablesOK, NEW b \in Nat
  PROVE  /\ IsFiniteSet(Edges(b))
         /\ \A e \in Edges(b) : e \in MixedEdge /\ e.begin = b /\ (e.kind # "bopomofo" => e.end > b)
         /\ b < KeyCount => \E e \in Edges(b) : e.end = b + 1
         /\ \A s \in syllables : s[1] = b => \E e \in Edges(b) : e.end = s[2] /\ e.kind = "bopomofo"
<1> DEFINE Ascii == {AsciiEdge(t) : t \in Tokens(b)}
           Bopomofo == {e \in ToneEdges \cup SpaceEdges : e.begin = b}
<1>1. Edges(b) = Ascii \cup Bopomofo
  BY DEF Edges
<1>2. /\ IsFiniteSet(Tokens(b))
      /\ \A t \in Tokens(b) : t.kind \in TokenKinds /\ t.begin = b /\ t.end \in (b + 1)..KeyCount
      /\ b < KeyCount => \E t \in Tokens(b) : t.end = b + 1
  BY TokensForm DEF TablesOK
<1>3. IsFiniteSet(Ascii)
  <2> DEFINE f == [t \in Tokens(b) |-> AsciiEdge(t)]
  <2>1. f \in [Tokens(b) -> Ascii] /\ \A x \in Ascii : \E t \in Tokens(b) : f[t] = x
    OBVIOUS
  <2> HIDE DEF f, Ascii
  <2> QED BY <2>1, <1>2, FiniteImage
<1>4. \A e \in Ascii : e \in MixedEdge /\ e.begin = b /\ e.end > b
  <2> TAKE e \in Ascii
  <2>1. PICK t \in Tokens(b) : e = AsciiEdge(t)
    OBVIOUS
  <2>2. t.kind \in TokenKinds /\ t.begin \in Nat /\ t.end \in Nat /\ t.begin = b /\ t.end > b
    BY <1>2 DEF TablesOK
  <2> QED BY <2>1, <2>2, AsciiEdgesForm
<1>5. IsFiniteSet(ToneEdges)
  <2> DEFINE f == [s \in syllables |-> Syllable(s[1], s[2], 40 + 6 * (s[2] - s[1] - 1))]
  <2>1. f \in [syllables -> ToneEdges] /\ \A x \in ToneEdges : \E s \in syllables : f[s] = x
    BY DEF ToneEdges
  <2>2. IsFiniteSet(syllables)
    BY DEF TablesOK
  <2> HIDE DEF f
  <2> QED BY <2>1, <2>2, FiniteImage
<1>6. IsFiniteSet(SpaceEdges)
  <2> DEFINE f == [c \in closers |-> Syllable(c, KeyCount, 25 + 6 * (KeyCount - c))]
  <2>1. f \in [closers -> SpaceEdges] /\ \A x \in SpaceEdges : \E c \in closers : f[c] = x
    BY DEF SpaceEdges
  <2>2. IsFiniteSet(closers)
    BY DEF TablesOK
  <2> HIDE DEF f
  <2> QED BY <2>1, <2>2, FiniteImage
<1>7. IsFiniteSet(Edges(b))
  <2>1. IsFiniteSet(ToneEdges \cup SpaceEdges)
    BY <1>5, <1>6, FS_Union
  <2>2. Bopomofo \in SUBSET (ToneEdges \cup SpaceEdges)
    OBVIOUS
  <2>3. IsFiniteSet(Bopomofo)
    <3> HIDE DEF Bopomofo
    <3> QED BY <2>1, <2>2, FS_Subset
  <2> HIDE DEF Ascii, Bopomofo
  <2> QED BY <1>1, <1>3, <2>3, FS_Union
<1>8. \A e \in Bopomofo : e \in MixedEdge /\ e.begin = b /\ e.kind = "bopomofo"
  <2>0. ASSUME NEW x \in Int, NEW y \in Int, NEW z \in Int
        PROVE  Syllable(x, y, z) \in MixedEdge /\ Syllable(x, y, z).kind = "bopomofo"
    BY DEF Syllable, MixedEdge
  <2>1. ASSUME NEW e \in ToneEdges PROVE e \in MixedEdge /\ e.kind = "bopomofo"
    <3>1. PICK s \in syllables : e = Syllable(s[1], s[2], 40 + 6 * (s[2] - s[1] - 1))
      BY DEF ToneEdges
    <3>2. s[1] \in Int /\ s[2] \in Int
      BY DEF TablesOK
    <3>3. 40 + 6 * (s[2] - s[1] - 1) \in Int
      BY <3>2
    <3> QED BY <3>1, <3>2, <3>3, <2>0
  <2>2. ASSUME NEW e \in SpaceEdges PROVE e \in MixedEdge /\ e.kind = "bopomofo"
    <3>1. PICK c \in closers : e = Syllable(c, KeyCount, 25 + 6 * (KeyCount - c))
      BY DEF SpaceEdges
    <3>2. c \in Int /\ KeyCount \in Int
      <4>1. closers \subseteq Nat /\ KeyCount \in Nat
        BY DEF TablesOK
      <4>2. c \in closers
        OBVIOUS
      <4>3. c \in Nat
        BY <4>1, <4>2
      <4> QED BY <4>1, <4>3
    <3>3. 25 + 6 * (KeyCount - c) \in Int
      BY <3>2
    <3> QED BY <3>1, <3>2, <3>3, <2>0
  <2> QED BY <2>1, <2>2
<1>9. ASSUME b < KeyCount PROVE \E e \in Edges(b) : e.end = b + 1
  <2>1. PICK t \in Tokens(b) : t.end = b + 1
    BY <1>2, <1>9
  <2>2. AsciiEdge(t) \in Ascii /\ AsciiEdge(t).end = b + 1
    BY <2>1, <1>2, AsciiEdgesForm
  <2> QED BY <2>2, <1>1
<1>10. ASSUME NEW s \in syllables, s[1] = b PROVE \E e \in Edges(b) : e.end = s[2] /\ e.kind = "bopomofo"
  <2> DEFINE e == Syllable(s[1], s[2], 40 + 6 * (s[2] - s[1] - 1))
  <2>1. e \in ToneEdges /\ e.begin = b /\ e.end = s[2] /\ e.kind = "bopomofo"
    BY <1>10 DEF ToneEdges, Syllable
  <2> HIDE DEF e
  <2> QED BY <2>1, <1>1
<1> QED
  <2> HIDE DEF Ascii, Bopomofo
  <2> QED BY <1>1, <1>4, <1>7, <1>8, <1>9, <1>10

-----------------------------------------------------------------------------
\* A reading without a syllable is the keys as they were pressed, whatever words it was
\* split into; one with a syllable shows a character.
KeysAlone(n) == [i \in 1..n |-> Keystroke(i)]
ReadsAs(entry, v) ==
  IF HasSyllable(entry.path) THEN \E i \in DOMAIN entry.rendered : entry.rendered[i].kind = "bopomofo"
  ELSE entry.rendered = KeysAlone(v)

LEMMA KeysJoin ==
  ASSUME NEW v \in Nat, NEW w \in Nat, v < w
  PROVE  KeysAlone(v) \o [i \in 1..(w - v) |-> Keystroke(v + i)] = KeysAlone(w)
<1> DEFINE more == [i \in 1..(w - v) |-> Keystroke(v + i)]
<1>0. \A i \in Int : Keystroke(i) \in MixedEdge
  BY DEF Keystroke, MixedEdge
<1>1. KeysAlone(v) \in Seq(MixedEdge) /\ Len(KeysAlone(v)) = v /\ \A i \in 1..v : KeysAlone(v)[i] = Keystroke(i)
  <2>1. KeysAlone(v) \in [1..v -> MixedEdge]
    BY <1>0 DEF KeysAlone
  <2>2. KeysAlone(v) \in Seq(MixedEdge) /\ Len(KeysAlone(v)) = v
    BY <2>1, FunctionIsSeq
  <2> QED BY <2>2 DEF KeysAlone
<1>2. KeysAlone(w) \in Seq(MixedEdge) /\ Len(KeysAlone(w)) = w /\ \A i \in 1..w : KeysAlone(w)[i] = Keystroke(i)
  <2>1. KeysAlone(w) \in [1..w -> MixedEdge]
    BY <1>0 DEF KeysAlone
  <2>2. KeysAlone(w) \in Seq(MixedEdge) /\ Len(KeysAlone(w)) = w
    BY <2>1, FunctionIsSeq
  <2> QED BY <2>2 DEF KeysAlone
<1>3. more \in Seq(MixedEdge) /\ Len(more) = w - v /\ \A i \in 1..(w - v) : more[i] = Keystroke(v + i)
  <2>0. w - v \in Nat
    OBVIOUS
  <2>1. more \in [1..(w - v) -> MixedEdge]
    BY <1>0
  <2>2. more \in Seq(MixedEdge) /\ Len(more) = w - v
    <3> HIDE DEF more
    <3> QED BY <2>0, <2>1, FunctionIsSeq
  <2> QED BY <2>2
<1> HIDE DEF more
<1>4. KeysAlone(v) \o more \in Seq(MixedEdge) /\ Len(KeysAlone(v) \o more) = w
  <2>1. KeysAlone(v) \o more \in Seq(MixedEdge)
    BY <1>1, <1>3
  <2>2. Len(KeysAlone(v) \o more) = Len(KeysAlone(v)) + Len(more)
    BY <1>1, <1>3
  <2>3. v + (w - v) = w
    OBVIOUS
  <2> QED BY <2>1, <2>2, <2>3, <1>1, <1>3
<1>5. \A i \in 1..w : (KeysAlone(v) \o more)[i] = KeysAlone(w)[i]
  <2> TAKE i \in 1..w
  <2>1. CASE i <= v
    <3>0. i \in 1..Len(KeysAlone(v))
      BY <2>1, <1>1
    <3>1. (KeysAlone(v) \o more)[i] = KeysAlone(v)[i]
      BY <3>0, <1>1, <1>3
    <3> QED BY <3>1, <2>1, <1>1, <1>2
  <2>2. CASE i > v
    <3>1. (KeysAlone(v) \o more)[i] = more[i - v] /\ i - v \in 1..(w - v)
      BY <2>2, <1>1, <1>3
    <3>2. v + (i - v) = i
      OBVIOUS
    <3> QED BY <3>1, <3>2, <1>2, <1>3
  <2>3. i <= v \/ i > v
    OBVIOUS
  <2> QED BY <2>1, <2>2, <2>3, Zenon
<1>6. KeysAlone(v) \o more = KeysAlone(w)
  BY <1>2, <1>4, <1>5, SeqEqual
<1> QED BY <1>6 DEF more

LEMMA ExtendedReads ==
  ASSUME NEW v \in Nat, NEW entry \in Entry, ReadsAs(entry, v),
         NEW e \in MixedEdge, e.begin = v, e.end \in Nat, e.kind # "bopomofo" => e.end > v
  PROVE  /\ Extended(entry, e) \in Entry /\ ReadsAs(Extended(entry, e), e.end)
         /\ HasSyllable(Extended(entry, e).path) <=> HasSyllable(entry.path) \/ e.kind = "bopomofo"
<1> DEFINE x == Extended(entry, e)
<1>1. entry.path \in Seq(MixedEdge) /\ entry.rendered \in Seq(MixedEdge) /\ entry.score \in Int /\ e.score \in Int
  BY DEF Entry, MixedEdge
<1>2. x.path = Append(entry.path, e) /\ x.rendered = entry.rendered \o Rendered(e)
  BY DEF Extended
<1>3. x.score \in Int
  BY <1>1 DEF Extended
<1>4. Rendered(e) \in Seq(MixedEdge)
  <2>1. CASE e.kind = "bopomofo"
    BY <2>1 DEF Rendered
  <2>2. CASE e.kind # "bopomofo"
    <3>0. e.end - e.begin \in Nat /\ e.begin \in Int
      BY <2>2
    <3>1. [i \in 1..(e.end - e.begin) |-> Keystroke(e.begin + i)] \in [1..(e.end - e.begin) -> MixedEdge]
      <4>1. \A i \in Int : Keystroke(i) \in MixedEdge
        BY DEF Keystroke, MixedEdge
      <4> QED BY <3>0, <4>1
    <3>2. [i \in 1..(e.end - e.begin) |-> Keystroke(e.begin + i)] \in Seq(MixedEdge)
      BY <3>0, <3>1, FunctionIsSeq
    <3> QED BY <2>2, <3>2 DEF Rendered
  <2> QED BY <2>1, <2>2
<1>5. x \in Entry
  <2>1. x = [path |-> x.path, rendered |-> x.rendered, score |-> x.score]
    BY DEF Extended
  <2>2. x.path \in Seq(MixedEdge) /\ x.rendered \in Seq(MixedEdge)
    BY <1>1, <1>2, <1>4
  <2> HIDE DEF x
  <2> QED BY <2>1, <2>2, <1>3 DEF Entry
<1>6. HasSyllable(x.path) <=> HasSyllable(entry.path) \/ e.kind = "bopomofo"
  <2>1. /\ Len(Append(entry.path, e)) = Len(entry.path) + 1 /\ Len(entry.path) \in Nat
        /\ Append(entry.path, e)[Len(entry.path) + 1] = e
        /\ \A i \in 1..Len(entry.path) : Append(entry.path, e)[i] = entry.path[i]
    BY <1>1
  <2> HIDE DEF x
  <2> QED BY <1>2, <2>1 DEF HasSyllable
<1>7. ReadsAs(x, e.end)
  <2>1. /\ Len(entry.rendered) \in Nat /\ Len(Rendered(e)) \in Nat
        /\ Len(x.rendered) = Len(entry.rendered) + Len(Rendered(e)) /\ DOMAIN x.rendered = 1..Len(x.rendered)
        /\ DOMAIN entry.rendered = 1..Len(entry.rendered)
        /\ \A i \in 1..Len(entry.rendered) : x.rendered[i] = entry.rendered[i]
        /\ \A i \in 1..Len(Rendered(e)) : x.rendered[Len(entry.rendered) + i] = Rendered(e)[i]
    BY <1>1, <1>2, <1>4, SMTT(20)
  <2>2. CASE HasSyllable(entry.path)
    <3>1. PICK i \in 1..Len(entry.rendered) : entry.rendered[i].kind = "bopomofo"
      BY <2>1, <2>2 DEF ReadsAs
    <3>2. i \in DOMAIN x.rendered /\ x.rendered[i].kind = "bopomofo"
      <4> HIDE DEF x
      <4> QED BY <2>1, <3>1
    <3> HIDE DEF x
    <3> QED BY <3>2, <2>2, <1>6 DEF ReadsAs
  <2>3. CASE e.kind = "bopomofo"
    <3>1. Len(Rendered(e)) = 1 /\ Rendered(e)[1] = e
      BY <2>3 DEF Rendered
    <3>2. Len(entry.rendered) + 1 \in DOMAIN x.rendered /\ x.rendered[Len(entry.rendered) + 1].kind = "bopomofo"
      <4> HIDE DEF x
      <4> QED BY <2>1, <3>1, <2>3
    <3> HIDE DEF x
    <3> QED BY <3>2, <2>3, <1>6 DEF ReadsAs
  <2>4. CASE ~HasSyllable(entry.path) /\ e.kind # "bopomofo"
    <3>1. entry.rendered = KeysAlone(v)
      BY <2>4 DEF ReadsAs
    <3>2. Rendered(e) = [i \in 1..(e.end - v) |-> Keystroke(v + i)]
      BY <2>4 DEF Rendered
    <3>3. x.rendered = KeysAlone(e.end)
      <4>1. e.end > v
        BY <2>4
      <4>2. KeysAlone(v) \o [i \in 1..(e.end - v) |-> Keystroke(v + i)] = KeysAlone(e.end)
        BY <4>1, KeysJoin
      <4> QED BY <1>2, <3>1, <3>2, <4>2
    <3> HIDE DEF x
    <3> QED BY <3>3, <2>4, <1>6 DEF ReadsAs
  <2> QED BY <2>2, <2>3, <2>4
<1> QED BY <1>5, <1>6, <1>7

LEMMA SyllablesShow ==
  ASSUME NEW v \in Nat, NEW entry \in Entry, ReadsAs(entry, v), HasSyllable(entry.path)
  PROVE  entry.rendered # KeysAlone(v)
<1>1. PICK i \in DOMAIN entry.rendered : entry.rendered[i].kind = "bopomofo"
  BY DEF ReadsAs
<1>2. \A j \in DOMAIN KeysAlone(v) : KeysAlone(v)[j].kind = "key"
  BY DEF KeysAlone, Keystroke
<1> QED
  BY <1>1, <1>2

LEMMA LeastOfTwo ==
  ASSUME NEW a \in Nat, NEW b \in Nat
  PROVE  Min({a, b}) \in {a, b} /\ Min({a, b}) <= a /\ Min({a, b}) <= b
<1>1. \E x \in {a, b} : \A y \in {a, b} : x =< y
  OBVIOUS
<1> DEFINE m == CHOOSE x \in {a, b} : \A y \in {a, b} : x =< y
<1>2. m \in {a, b} /\ \A y \in {a, b} : m =< y
  BY <1>1
<1>3. Min({a, b}) = m
  BY DEF Min
<1> HIDE DEF m
<1> QED
  BY <1>2, <1>3

\* The paths without a syllable all read as the keys, so that they take one of the
\* places; the other ones are left to paths that have one.
LEMMA KeptReads ==
  ASSUME NEW v \in Nat, NEW entries \in SUBSET Entry, IsFiniteSet(entries), entries # {},
         \A e \in entries : ReadsAs(e, v),
         NEW kept \in Kept(entries)
  PROVE  /\ kept \subseteq entries /\ IsFiniteSet(kept) /\ kept # {}
         /\ (\E e \in entries : HasSyllable(e.path)) => \E e \in kept : HasSyllable(e.path)
<1> DEFINE best == {e \in entries : \A f \in entries : e.rendered = f.rendered => f.score <= e.score}
           renderings == {e.rendered : e \in best}
<1>1. /\ kept \in SUBSET best
      /\ Cardinality(kept) = Min({TopK, Cardinality(renderings)})
      /\ \A e, f \in kept : e.rendered = f.rendered => e = f
  BY DEF Kept, kSubset
<1>2. ASSUME NEW e \in entries PROVE \E d \in best : d.rendered = e.rendered
  <2> DEFINE same == {f \in entries : f.rendered = e.rendered}
             scores == {f.score : f \in same}
  <2>1. IsFiniteSet(same)
    <3>1. same \in SUBSET entries
      OBVIOUS
    <3> HIDE DEF same
    <3> QED BY <3>1, FS_Subset
  <2>2. IsFiniteSet(scores)
    <3> DEFINE g == [f \in same |-> f.score]
    <3>1. g \in [same -> scores] /\ \A x \in scores : \E f \in same : g[f] = x
      OBVIOUS
    <3> HIDE DEF g, same, scores
    <3> QED BY <2>1, <3>1, FiniteImage
  <2>3. scores \in SUBSET Int
    BY DEF Entry
  <2>4. e.score \in scores
    OBVIOUS
  <2>5. PICK m \in scores : \A x \in scores : x <= m
    <3> HIDE DEF scores
    <3> QED BY <2>2, <2>3, <2>4, GreatestNumber
  <2>6. PICK d \in same : d.score = m
    OBVIOUS
  <2>7. d \in best
    BY <2>5, <2>6
  <2> QED BY <2>6, <2>7
<1>3. IsFiniteSet(best)
  <2>1. best \in SUBSET entries
    OBVIOUS
  <2> HIDE DEF best
  <2> QED BY <2>1, FS_Subset
<1>4. IsFiniteSet(renderings)
  <2> DEFINE g == [e \in best |-> e.rendered]
  <2>1. g \in [best -> renderings] /\ \A x \in renderings : \E e \in best : g[e] = x
    OBVIOUS
  <2> HIDE DEF g, best, renderings
  <2> QED BY <1>3, <2>1, FiniteImage
<1>5. renderings # {}
  <2>1. PICK e \in entries : TRUE
    OBVIOUS
  <2>2. PICK d \in best : d.rendered = e.rendered
    BY <1>2
  <2> QED BY <2>2
<1>6. Cardinality(renderings) \in Nat /\ Cardinality(renderings) # 0
  <2> HIDE DEF renderings
  <2> QED BY <1>4, <1>5, FS_CardinalityType, FS_EmptySet
<1>7. IsFiniteSet(kept) /\ kept \subseteq entries
  <2>1. kept \subseteq entries
    BY <1>1
  <2> QED BY <2>1, FS_Subset
<1>8. /\ Cardinality(kept) \in {TopK, Cardinality(renderings)}
      /\ TopK \in Nat /\ TopK >= 2
  <2> HIDE DEF renderings
  <2> QED BY <1>1, <1>6, LeastOfTwo, TopKAssumption
<1>9. kept # {}
  <2>1. Cardinality(kept) # 0
    <3> HIDE DEF renderings
    <3> QED BY <1>6, <1>8
  <2> QED BY <2>1, FS_EmptySet
<1>10. ASSUME NEW c \in entries, HasSyllable(c.path) PROVE \E e \in kept : HasSyllable(e.path)
  <2> SUFFICES ASSUME \A e \in kept : ~HasSyllable(e.path) PROVE FALSE
    OBVIOUS
  <2>1. \A e \in kept : e.rendered = KeysAlone(v)
    BY <1>7 DEF ReadsAs
  <2>2. PICK k \in kept : TRUE
    BY <1>9
  <2>3. kept = {k}
    BY <1>1, <2>1
  <2>4. Cardinality(renderings) = 1
    <3>1. Cardinality(kept) = 1
      BY <2>3, FS_Singleton
    <3> HIDE DEF renderings
    <3> QED BY <3>1, <1>8
  <2>5. PICK x : renderings = {x}
    <3> HIDE DEF renderings
    <3> QED BY <1>4, <2>4, FS_Singleton
  <2>6. PICK d \in best : d.rendered = c.rendered
    BY <1>2
  <2>7. d.rendered \in renderings /\ k.rendered \in renderings
    BY <1>1
  <2>8. c.rendered = KeysAlone(v)
    <3> HIDE DEF renderings
    <3> QED BY <2>5, <2>6, <2>7, <2>1
  <2> QED
    BY <2>8, <1>10, SyllablesShow
<1> QED
  <2> HIDE DEF best, renderings
  <2> QED BY <1>7, <1>9, <1>10

-----------------------------------------------------------------------------
\* What is kept at each end, up to the one that is reached, are readings of the keys before it.
BucketsAreRead ==
  /\ buckets \in [0..KeyCount -> SUBSET Entry]
  /\ \A v \in 0..vertex : IsFiniteSet(buckets[v]) /\ buckets[v] # {} /\ \A e \in buckets[v] : ReadsAs(e, v)

DecodingInv ==
  /\ raw \in Raws /\ TablesOK /\ vertex \in 0..KeyCount /\ BucketsAreRead /\ MixedSurvives

LEMMA ArrivingReads ==
  ASSUME DecodingInv, vertex < KeyCount, NEW w \in Nat, w = vertex + 1
  PROVE  /\ Arriving(w) \in SUBSET Entry /\ IsFiniteSet(Arriving(w)) /\ Arriving(w) # {}
         /\ \A e \in Arriving(w) : ReadsAs(e, w)
         /\ (\E s \in syllables : s[2] <= w) => \E e \in Arriving(w) : HasSyllable(e.path)
<1> USE DEF DecodingInv
<1> DEFINE ending(v) == {e \in Edges(v) : e.end = w}
           from(v) == {Extended(entry, e) : entry \in buckets[v], e \in ending(v)}
           all == {from(v) : v \in 0..vertex}
<1>1. Arriving(w) = UNION all
  <2>1. w - 1 = vertex
    OBVIOUS
  <2> QED BY <2>1 DEF Arriving
<1>2. ASSUME NEW v \in 0..vertex
      PROVE  /\ v \in Nat /\ v < w /\ v < KeyCount /\ v \in 0..KeyCount
             /\ IsFiniteSet(Edges(v))
             /\ \A e \in Edges(v) : e \in MixedEdge /\ e.begin = v /\ (e.kind # "bopomofo" => e.end > v)
             /\ \E e \in Edges(v) : e.end = v + 1
             /\ \A s \in syllables : s[1] = v => \E e \in Edges(v) : e.end = s[2] /\ e.kind = "bopomofo"
             /\ buckets[v] \in SUBSET Entry /\ IsFiniteSet(buckets[v]) /\ buckets[v] # {}
             /\ \A e \in buckets[v] : ReadsAs(e, v)
  <2>1. v \in Nat /\ v < w /\ v < KeyCount /\ v \in 0..KeyCount
    BY DEF TablesOK
  <2>2. buckets[v] \in SUBSET Entry /\ IsFiniteSet(buckets[v]) /\ buckets[v] # {}
        /\ \A e \in buckets[v] : ReadsAs(e, v)
    BY <2>1 DEF BucketsAreRead
  <2> QED BY <2>1, <2>2, EdgesForm
<1>3. ASSUME NEW v \in 0..vertex, NEW entry \in buckets[v], NEW e \in ending(v)
      PROVE  /\ Extended(entry, e) \in Entry /\ ReadsAs(Extended(entry, e), w)
             /\ HasSyllable(Extended(entry, e).path) <=> HasSyllable(entry.path) \/ e.kind = "bopomofo"
             /\ Extended(entry, e) \in Arriving(w)
  <2>1. entry \in Entry /\ ReadsAs(entry, v) /\ e \in MixedEdge /\ e.begin = v /\ e.end = w
        /\ (e.kind # "bopomofo" => e.end > v) /\ v \in Nat
    BY <1>2
  <2>2. /\ Extended(entry, e) \in Entry /\ ReadsAs(Extended(entry, e), e.end)
        /\ HasSyllable(Extended(entry, e).path) <=> HasSyllable(entry.path) \/ e.kind = "bopomofo"
    BY <2>1, ExtendedReads
  <2>3. Extended(entry, e) \in from(v) /\ from(v) \in all
    OBVIOUS
  <2> QED BY <1>1, <2>1, <2>2, <2>3
<1>4. ASSUME NEW x \in Arriving(w)
      PROVE  \E v \in 0..vertex : \E entry \in buckets[v] : \E e \in ending(v) : x = Extended(entry, e)
  BY <1>1
<1>5. Arriving(w) \in SUBSET Entry /\ \A x \in Arriving(w) : ReadsAs(x, w)
  <2> HIDE DEF ending
  <2> QED BY <1>3, <1>4
<1>6. IsFiniteSet(Arriving(w))
  <2>1. ASSUME NEW v \in 0..vertex PROVE IsFiniteSet(from(v))
    <3>1. ending(v) \in SUBSET Edges(v)
      OBVIOUS
    <3>2. IsFiniteSet(ending(v))
      <4> HIDE DEF ending
      <4> QED BY <3>1, <1>2, FS_Subset
    <3>3. IsFiniteSet(buckets[v] \X ending(v))
      <4> HIDE DEF ending
      <4> QED BY <3>2, <1>2, FS_Product
    <3> DEFINE g == [p \in buckets[v] \X ending(v) |-> Extended(p[1], p[2])]
    <3> HIDE DEF ending
    <3>4. g \in [buckets[v] \X ending(v) -> from(v)]
      OBVIOUS
    <3>5. ASSUME NEW x \in from(v) PROVE \E p \in buckets[v] \X ending(v) : g[p] = x
      <4>1. PICK entry \in buckets[v], e \in ending(v) : x = Extended(entry, e)
        OBVIOUS
      <4>2. <<entry, e>> \in buckets[v] \X ending(v) /\ g[<<entry, e>>] = x
        BY <4>1
      <4> QED BY <4>2
    <3> HIDE DEF g, from
    <3> QED BY <3>3, <3>4, <3>5, FiniteImage
  <2>2. IsFiniteSet(all)
    <3> DEFINE g == [v \in 0..vertex |-> from(v)]
    <3>1. g \in [0..vertex -> all] /\ \A x \in all : \E v \in 0..vertex : g[v] = x
      OBVIOUS
    <3>2. IsFiniteSet(0..vertex)
      <4>1. 0 \in Int /\ vertex \in Int
        OBVIOUS
      <4> QED BY <4>1, FS_Interval
    <3> HIDE DEF g, all, from
    <3> QED BY <3>1, <3>2, FiniteImage
  <2>3. \A T \in all : IsFiniteSet(T)
    <3> HIDE DEF from
    <3> QED BY <2>1
  <2> HIDE DEF all
  <2> QED BY <1>1, <2>2, <2>3, FS_UNION
<1>7. vertex \in 0..vertex
  BY DEF TablesOK
<1>8. PICK single \in Edges(vertex) : single.end = w
  BY <1>2, <1>7
<1>9. PICK entry \in buckets[vertex] : TRUE
  BY <1>2, <1>7
<1>10. Arriving(w) # {}
  BY <1>3, <1>7, <1>8, <1>9
<1>11. ASSUME NEW s \in syllables, s[2] <= w PROVE \E e \in Arriving(w) : HasSyllable(e.path)
  <2>1. s[1] \in Nat /\ s[2] \in Nat /\ s[1] < s[2]
    BY DEF TablesOK
  <2>2. CASE s[2] = w
    <3>1. s[1] \in 0..vertex
      BY <2>1, <2>2
    <3>2. PICK e \in Edges(s[1]) : e.end = s[2] /\ e.kind = "bopomofo"
      BY <1>2, <3>1
    <3>3. PICK old \in buckets[s[1]] : TRUE
      BY <1>2, <3>1
    <3> QED BY <1>3, <2>2, <3>1, <3>2, <3>3
  <2>3. CASE s[2] # w
    <3>1. vertex \in 1..vertex /\ ~(s[2] > vertex)
      BY <2>1, <2>3, <1>11
    <3>2. PICK old \in buckets[vertex] : HasSyllable(old.path)
      BY <3>1 DEF MixedSurvives
    <3> QED BY <1>3, <1>7, <1>8, <3>2
  <2> QED BY <2>2, <2>3
<1> QED
  BY <1>5, <1>6, <1>10, <1>11

LEMMA DecodingStarts == DecodingInit => DecodingInv
<1> SUFFICES ASSUME DecodingInit PROVE DecodingInv
  OBVIOUS
<1>1. raw \in Raws /\ KeyCount \in Nat
  BY RawsAssumption DEF DecodingInit, KeyCount
<1>2. vertex = 0 /\ vertex \in 0..KeyCount
  BY <1>1 DEF DecodingInit
<1> DEFINE pairs == (0..(KeyCount - 1)) \X (1..KeyCount)
<1>3. IsFiniteSet(syllables) /\ \A s \in syllables : s \in Nat \X Nat /\ s[1] < s[2] /\ s[2] <= KeyCount
  <2>1. syllables \in SUBSET {s \in pairs : s[2] >= s[1] + 2 /\ KeyAt(s[2], Digits)}
    BY DEF DecodingInit
  <2>2. IsFiniteSet(0..(KeyCount - 1)) /\ IsFiniteSet(1..KeyCount)
    <3>1. 0 \in Int /\ 1 \in Int /\ KeyCount \in Int /\ KeyCount - 1 \in Int
      BY <1>1
    <3> QED BY <3>1, FS_Interval
  <2>3. IsFiniteSet(pairs)
    BY <2>2, FS_Product
  <2>4. \A s \in pairs : s \in Nat \X Nat /\ s[2] <= KeyCount
    BY <1>1
  <2>5. syllables \in SUBSET pairs /\ \A s \in syllables : s[2] >= s[1] + 2
    BY <2>1
  <2>6. IsFiniteSet(syllables)
    <3> HIDE DEF pairs
    <3> QED BY <2>3, <2>5, FS_Subset
  <2>7. \A s \in syllables : s \in Nat \X Nat /\ s[1] < s[2] /\ s[2] <= KeyCount
    <3> HIDE DEF pairs
    <3> QED BY <2>4, <2>5
  <2> QED BY <2>6, <2>7
<1>4. IsFiniteSet(closers) /\ closers \subseteq Nat
  <2>1. closers = {} \/ \E b \in Nat : closers = {b}
    BY <1>1 DEF DecodingInit
  <2> QED BY <2>1, FS_EmptySet, FS_Singleton
<1>5. TablesOK
  BY <1>1, <1>3, <1>4 DEF TablesOK
<1> DEFINE nothing == [path |-> <<>>, rendered |-> <<>>, score |-> 0]
<1>6. nothing \in Entry /\ ReadsAs(nothing, 0)
  <2>1. nothing.path = <<>> /\ nothing.rendered = <<>> /\ Len(<<>>) = 0
    OBVIOUS
  <2>2. KeysAlone(0) = <<>>
    BY DEF KeysAlone
  <2>3. ~HasSyllable(<<>>)
    BY DEF HasSyllable
  <2>4. nothing \in Entry
    BY DEF Entry
  <2> HIDE DEF nothing
  <2> QED BY <2>1, <2>2, <2>3, <2>4 DEF ReadsAs
<1>7. BucketsAreRead
  <2>1. buckets = [v \in 0..KeyCount |-> IF v = 0 THEN {nothing} ELSE {}]
    BY DEF DecodingInit
  <2> HIDE DEF nothing
  <2>2. buckets \in [0..KeyCount -> SUBSET Entry] /\ buckets[0] = {nothing}
    BY <2>1, <1>1, <1>6
  <2>3. \A v \in 0..vertex : v = 0
    BY <1>2
  <2> QED BY <2>2, <2>3, <1>6, FS_Singleton DEF BucketsAreRead
<1>8. MixedSurvives
  BY <1>2 DEF MixedSurvives
<1> QED
  BY <1>1, <1>2, <1>5, <1>7, <1>8 DEF DecodingInv

LEMMA DecodingSteps == DecodingInv /\ [DecodingNext]_decoderVars => DecodingInv'
<1> SUFFICES ASSUME DecodingInv, [DecodingNext]_decoderVars PROVE DecodingInv'
  OBVIOUS
<1>1. CASE UNCHANGED <<Input, vertex, buckets>>
  BY <1>1 DEF DecodingInv, Input, TablesOK, KeyCount, BucketsAreRead, MixedSurvives
<1>2. CASE Advance
  <2> DEFINE w == vertex + 1
  <2>1. PICK kept \in Kept(Arriving(w)) : buckets' = [buckets EXCEPT ![w] = kept]
    BY <1>2 DEF Advance
  <2>2. vertex' = w /\ vertex < KeyCount /\ UNCHANGED Input /\ vertex \in Nat /\ w \in Nat /\ KeyCount \in Nat
    BY <1>2 DEF Advance, DecodingInv, TablesOK
  <2>3. /\ Arriving(w) \in SUBSET Entry /\ IsFiniteSet(Arriving(w)) /\ Arriving(w) # {}
        /\ \A e \in Arriving(w) : ReadsAs(e, w)
        /\ (\E s \in syllables : s[2] <= w) => \E e \in Arriving(w) : HasSyllable(e.path)
    BY <2>2, ArrivingReads
  <2> HIDE DEF w
  <2>4. /\ kept \subseteq Arriving(w) /\ IsFiniteSet(kept) /\ kept # {}
        /\ (\E e \in Arriving(w) : HasSyllable(e.path)) => \E e \in kept : HasSyllable(e.path)
    BY <2>2, <2>3, KeptReads
  <2>5. raw' = raw /\ syllables' = syllables /\ closers' = closers /\ KeyCount' = KeyCount
    BY <2>2 DEF Input, KeyCount
  <2>6. w \in 1..KeyCount /\ vertex' \in 0..KeyCount /\ w \in 0..KeyCount
    BY <2>2 DEF w
  <2>7. buckets'[w] = kept /\ (\A v \in 0..KeyCount : v # w => buckets'[v] = buckets[v])
        /\ buckets' \in [0..KeyCount -> SUBSET Entry]
    BY <2>1, <2>3, <2>4, <2>6 DEF DecodingInv, BucketsAreRead
  <2>8. BucketsAreRead'
    <3>1. ASSUME NEW v \in 0..w
          PROVE  IsFiniteSet(buckets'[v]) /\ buckets'[v] # {} /\ \A e \in buckets'[v] : ReadsAs(e, v)
      <4>1. CASE v = w
        BY <4>1, <2>3, <2>4, <2>7
      <4>2. CASE v # w
        <5>1. v \in 0..vertex /\ v \in 0..KeyCount
          BY <4>2, <2>2 DEF w
        <5> QED BY <4>2, <5>1, <2>7 DEF DecodingInv, BucketsAreRead
      <4> QED BY <4>1, <4>2
    <3> QED BY <3>1, <2>2, <2>5, <2>7 DEF BucketsAreRead
  <2>9. MixedSurvives'
    <3> SUFFICES ASSUME NEW v \in 1..w, NEW s \in syllables, s[2] <= v
                 PROVE  \E entry \in buckets'[v] : HasSyllable(entry.path)
      <4>1. \A s \in syllables : s[2] \in Nat
        BY DEF DecodingInv, TablesOK
      <4> QED BY <4>1, <2>2, <2>5 DEF MixedSurvives
    <3>1. CASE v = w
      BY <3>1, <2>3, <2>4, <2>7
    <3>2. CASE v # w
      <4>1. v \in 1..vertex /\ v \in 0..KeyCount
        BY <3>2, <2>2 DEF w
      <4>2. s[2] \in Nat /\ ~(s[2] > v)
        BY DEF DecodingInv, TablesOK
      <4> QED BY <4>1, <4>2, <3>2, <2>7 DEF DecodingInv, MixedSurvives
    <3> QED BY <3>1, <3>2
  <2> QED
    BY <2>2, <2>5, <2>6, <2>8, <2>9 DEF DecodingInv, TablesOK
<1> QED
  BY <1>1, <1>2 DEF DecodingNext, Finish, decoderVars, Input

\* MixedInputDecoder::decode(): wherever a syllable ends among the keys, a reading
\* with one is among those kept, for any token, any tables and any kTopK above one.
THEOREM MixedReadingsSurvive == DecodingSpec => []MixedSurvives
<1>1. DecodingInv => MixedSurvives
  BY DEF DecodingInv
<1> QED
  BY DecodingStarts, DecodingSteps, <1>1, PTL DEF DecodingSpec

-----------------------------------------------------------------------------
(***************************************************************************)
(* DecodingTypeOK: a path grows by edges that begin where it ends, and the *)
(* edges are those of the token that it began with.                        *)
(***************************************************************************)
Tiles(path, v) ==
  /\ v = 0 => path = <<>>
  /\ v # 0 => path # <<>> /\ path[1].begin = 0 /\ path[Len(path)].end = v
  /\ \A i \in 1..Len(path) : path[i] \in Edges(path[i].begin)
  /\ \A i \in 1..(Len(path) - 1) : path[i].end = path[i + 1].begin

BucketsTile == \A v \in 0..vertex : \A entry \in buckets[v] : Tiles(entry.path, v)

\* There are no results before the end.
ResultsAreKept == (vertex < KeyCount => paths = {}) /\ paths \subseteq buckets[KeyCount]

LEMMA ProposalsStay ==
  ASSUME UNCHANGED Input, NEW b
  PROVE  Proposals(b)' = Proposals(b)
<1>1. raw' = raw
  BY DEF Input
<1> QED BY <1>1 DEF Proposals, Scan, ScanNumber, ScanIdentifier, ScanDomain, ScanEmail, ScanUrl, ScanPath,
                    LabelStarts, KeyCount, KeyAt, Min, Max

LEMMA TokensStay ==
  ASSUME UNCHANGED Input, NEW b
  PROVE  Tokens(b)' = Tokens(b)
<1>1. KeyCount' = KeyCount
  BY DEF Input, KeyCount
<1> QED BY <1>1, ProposalsStay DEF Tokens

LEMMA EdgesStay ==
  ASSUME UNCHANGED Input, NEW b
  PROVE  Edges(b)' = Edges(b)
<1>1. raw' = raw /\ known' = known /\ syllables' = syllables /\ closers' = closers
  BY DEF Input
<1>2. ToneEdges' = ToneEdges /\ SpaceEdges' = SpaceEdges
  BY <1>1 DEF ToneEdges, SpaceEdges, KeyCount, Syllable
<1>3. Tokens(b)' = Tokens(b)
  BY TokensStay
<1> QED BY <1>1, <1>2, <1>3 DEF Edges, AsciiEdge

LEMMA TilesStay ==
  ASSUME UNCHANGED Input, NEW path, NEW v
  PROVE  Tiles(path, v)' <=> Tiles(path, v)
BY EdgesStay DEF Tiles

LEMMA ExtendedTiles ==
  ASSUME NEW v \in Nat, NEW entry \in Entry, Tiles(entry.path, v),
         NEW e \in Edges(v), e \in MixedEdge, e.begin = v, e.end # 0
  PROVE  Tiles(Extended(entry, e).path, e.end)
<1> DEFINE p == entry.path
           q == Append(p, e)
           n == Len(p)
<1>1. p \in Seq(MixedEdge)
  BY DEF Entry
<1>2. Extended(entry, e).path = q
  BY DEF Extended
<1>3. n \in Nat /\ Len(q) = n + 1 /\ q[n + 1] = e /\ \A i \in 1..n : q[i] = p[i]
  BY <1>1
<1>4. q # <<>>
  BY <1>1
<1>5. /\ v = 0 => p = <<>>
      /\ v # 0 => p # <<>> /\ p[1].begin = 0 /\ p[n].end = v
      /\ \A i \in 1..n : p[i] \in Edges(p[i].begin)
      /\ \A i \in 1..(n - 1) : p[i].end = p[i + 1].begin
  BY DEF Tiles
<1>6. v = 0 => n = 0
  BY <1>5
<1>7. v # 0 => n > 0
  BY <1>1, <1>5
<1> HIDE DEF p, q, n
<1>8. q[1].begin = 0 /\ q[Len(q)].end = e.end
  BY <1>3, <1>5, <1>6, <1>7
<1>9. ASSUME NEW i \in 1..Len(q) PROVE q[i] \in Edges(q[i].begin)
  BY <1>3, <1>5
<1>10. ASSUME NEW i \in 1..(Len(q) - 1) PROVE q[i].end = q[i + 1].begin
  <2>1. CASE i = n
    <3>1. v # 0
      BY <1>3, <1>6, <2>1
    <3> QED BY <1>3, <1>5, <2>1, <3>1
  <2>2. CASE i # n
    <3>1. i \in 1..(n - 1) /\ i \in 1..n /\ i + 1 \in 1..n
      BY <1>3, <2>2
    <3> QED BY <1>3, <1>5, <3>1
  <2> QED BY <2>1, <2>2
<1> QED BY <1>2, <1>4, <1>8, <1>9, <1>10 DEF Tiles

LEMMA ArrivingTiles ==
  ASSUME DecodingInv, BucketsTile, vertex < KeyCount, NEW w \in Nat, w = vertex + 1,
         NEW x \in Arriving(w)
  PROVE  Tiles(x.path, w)
<1>1. PICK v \in 0..(w - 1) : x \in {Extended(entry, e) : entry \in buckets[v], e \in {e \in Edges(v) : e.end = w}}
  BY DEF Arriving
<1>2. PICK entry \in buckets[v], e \in Edges(v) : e.end = w /\ x = Extended(entry, e)
  BY <1>1
<1>3. v \in Nat /\ v \in 0..vertex /\ v \in 0..KeyCount /\ w # 0
  BY DEF DecodingInv, TablesOK
<1>4. entry \in Entry
  BY <1>2, <1>3 DEF DecodingInv, BucketsAreRead
<1>5. e \in MixedEdge /\ e.begin = v
  BY <1>2, <1>3, EdgesForm DEF DecodingInv
<1>6. Tiles(entry.path, v)
  BY <1>2, <1>3 DEF BucketsTile
<1>7. e.end # 0
  BY <1>2, <1>3
<1>8. Tiles(Extended(entry, e).path, e.end)
  BY <1>2, <1>3, <1>4, <1>5, <1>6, <1>7, ExtendedTiles
<1> QED BY <1>2, <1>8

LEMMA TilingStarts == DecodingInit => BucketsTile /\ ResultsAreKept
<1> SUFFICES ASSUME DecodingInit PROVE BucketsTile /\ ResultsAreKept
  OBVIOUS
<1>1. vertex = 0 /\ paths = {} /\ KeyCount \in Nat
  BY RawsAssumption DEF DecodingInit, KeyCount
<1> DEFINE nothing == [path |-> <<>>, rendered |-> <<>>, score |-> 0]
<1>2. buckets[0] = {nothing}
  BY <1>1 DEF DecodingInit
<1>3. nothing.path = <<>>
  OBVIOUS
<1> HIDE DEF nothing
<1>4. Tiles(<<>>, 0)
  BY DEF Tiles
<1>5. \A v \in 0..vertex : v = 0
  BY <1>1
<1> QED BY <1>1, <1>2, <1>3, <1>4, <1>5 DEF BucketsTile, ResultsAreKept

LEMMA TilingSteps ==
  DecodingInv /\ BucketsTile /\ ResultsAreKept /\ [DecodingNext]_decoderVars => BucketsTile' /\ ResultsAreKept'
<1> SUFFICES ASSUME DecodingInv, BucketsTile, ResultsAreKept, [DecodingNext]_decoderVars
             PROVE  BucketsTile' /\ ResultsAreKept'
  OBVIOUS
<1>1. UNCHANGED Input /\ KeyCount' = KeyCount /\ KeyCount \in Nat /\ vertex \in 0..KeyCount
  BY DEF DecodingNext, Advance, Finish, decoderVars, Input, KeyCount, DecodingInv, TablesOK
<1>2. CASE UNCHANGED <<vertex, buckets>>
  <2>1. BucketsTile'
    BY <1>1, <1>2, TilesStay DEF BucketsTile
  <2>2. paths' = paths \/ (vertex = KeyCount /\ paths' \subseteq buckets[KeyCount])
    <3>1. CASE Advance
      BY <1>1, <1>2, <3>1 DEF Advance
    <3>2. CASE Finish
      BY <3>2 DEF Finish
    <3> QED BY <3>1, <3>2 DEF DecodingNext, decoderVars
  <2>3. ResultsAreKept'
    BY <1>1, <1>2, <2>2 DEF ResultsAreKept
  <2> QED BY <2>1, <2>3
<1>3. CASE Advance
  <2> DEFINE w == vertex + 1
  <2>1. PICK kept \in Kept(Arriving(w)) : buckets' = [buckets EXCEPT ![w] = kept]
    BY <1>3 DEF Advance
  <2>2. vertex' = w /\ vertex < KeyCount /\ paths' = paths /\ w \in Nat /\ w \in 0..KeyCount
    BY <1>1, <1>3 DEF Advance
  <2>3. /\ Arriving(w) \in SUBSET Entry /\ IsFiniteSet(Arriving(w)) /\ Arriving(w) # {}
        /\ \A e \in Arriving(w) : ReadsAs(e, w)
    BY <2>2, ArrivingReads
  <2>4. \A v \in 0..w : v = w \/ v \in 0..vertex
    BY <1>1
  <2>5. \A x \in Arriving(w) : Tiles(x.path, w)
    BY <2>2, ArrivingTiles
  <2> HIDE DEF w
  <2>6. kept \subseteq Arriving(w)
    BY <2>2, <2>3, KeptReads
  <2>7. buckets'[w] = kept /\ \A v \in 0..KeyCount : v # w => buckets'[v] = buckets[v]
    BY <2>1, <2>2 DEF DecodingInv, BucketsAreRead
  <2>8. ASSUME NEW v \in 0..w, NEW entry \in buckets'[v] PROVE Tiles(entry.path, v)'
    <3>1. CASE v = w
      <4>1. Tiles(entry.path, w)
        BY <2>5, <2>6, <2>7, <3>1
      <4> QED BY <1>1, <3>1, <4>1, TilesStay
    <3>2. CASE v # w
      <4>1. v \in 0..vertex /\ v \in 0..KeyCount
        BY <1>1, <2>4, <3>2
      <4>2. Tiles(entry.path, v)
        BY <2>7, <3>2, <4>1 DEF BucketsTile
      <4> QED BY <1>1, <4>2, TilesStay
    <3> QED BY <3>1, <3>2
  <2>9. BucketsTile'
    BY <2>2, <2>8 DEF BucketsTile
  <2>10. ResultsAreKept'
    BY <1>1, <2>2 DEF ResultsAreKept
  <2> QED BY <2>9, <2>10
<1> QED BY <1>2, <1>3 DEF DecodingNext, Finish, decoderVars

\* MixedInputDecoder::decode(): every path that is kept for a position tiles the keys
\* before it with edges of the token, for any token, any tables and any kTopK above one.
THEOREM PathsTileTheKeys == DecodingSpec => []DecodingTypeOK
<1>1. DecodingInv /\ BucketsTile /\ ResultsAreKept => DecodingTypeOK
  <2> SUFFICES ASSUME DecodingInv, BucketsTile, ResultsAreKept PROVE DecodingTypeOK
    OBVIOUS
  <2>1. ASSUME NEW v \in 1..vertex, NEW entry \in buckets[v]
        PROVE  LET path == entry.path
               IN  /\ path # <<>> /\ path[1].begin = 0 /\ Last(path).end = v
                   /\ \A i \in 1..Len(path) : path[i] \in Edges(path[i].begin)
                   /\ \A i \in 1..(Len(path) - 1) : path[i].end = path[i + 1].begin
    <3>1. v \in 0..vertex /\ v # 0
      BY DEF DecodingInv, TablesOK
    <3>2. Tiles(entry.path, v)
      BY <3>1 DEF BucketsTile
    <3> QED BY <3>1, <3>2 DEF Tiles, Last
  <2> QED BY <2>1 DEF DecodingTypeOK, DecodingInv, ResultsAreKept
<1> QED BY DecodingStarts, DecodingSteps, TilingStarts, TilingSteps, <1>1, PTL DEF DecodingSpec

-----------------------------------------------------------------------------
(***************************************************************************)
(* KeysWalkTheShownList and StateMatchesComposition for any settings, any  *)
(* lengths of lists and any keys, clicks, answers and changes of the       *)
(* settings.  A handler ends with a redraw, and whatever state it is given *)
(* that is Sound the redraw makes Good; the few handlers that end without  *)
(* one (a token settled as its keys, a mark given up at the edge, a change *)
(* of the settings) leave a state that is Good already.                    *)
(***************************************************************************)
EditorFields == {"kind", "segments", "caret", "mark", "pending", "decision", "menu", "page", "cursor",
           "expanded", "shown", "stale"}
States == {"empty", "inputting", "choosing"}

\* A decision has the keys it was made for, and a syllable that is previewed candidates.
HasItsToken(s) ==
  s.decision # NoDecision =>
    /\ s.pending > 0
    /\ s.decision.preview = "chinese" => s.pending >= 2 /\ s.decision.closing # NoIndex
    /\ s.decision.preview = "latin" => s.pending >= 3

\* What every handler leaves before the redraw.
Sound(s) ==
  /\ config \in Settings
  /\ DOMAIN s = EditorFields /\ s.kind \in States /\ s.segments \in Seq(Segments)
  /\ s.caret \in 0..Len(s.segments) /\ s.mark \in {NoMark} \cup 0..Len(s.segments)
  /\ s.pending \in Nat /\ s.decision \in Decisions \cup {NoDecision}
  /\ s.menu \in {"closed", "top", "category"}
  /\ s.page \in Int /\ s.cursor \in Int /\ s.expanded \in BOOLEAN /\ s.shown \in Nat /\ s.stale \in BOOLEAN
  /\ HasItsToken(s)
  /\ MenuOpen(s) => ~Choosing(s)

\* The same composition and token.
SameText(s, t) ==
  /\ s.segments = t.segments /\ s.caret = t.caret /\ s.mark = t.mark
  /\ s.pending = t.pending /\ s.decision = t.decision /\ s.menu = t.menu

LEMMA DecisionType ==
  ASSUME NEW d \in Decisions \cup {NoDecision}
  PROVE  d.closing \in RowCounts \cup {NoIndex} /\ d.closing \in Nat
<1>1. CASE d \in Decisions
  <2>1. d.closing \in RowCounts \cup {NoIndex}
    BY <1>1 DEF Decisions
  <2>2. RowCounts \subseteq Nat \ {0}
    BY EditingAssumption
  <2> DEFINE n == d.closing
  <2> HIDE DEF n
  <2>3. n \in RowCounts \cup {NoIndex} => n \in Nat
    BY <2>2 DEF NoIndex
  <2> QED BY <2>1, <2>3 DEF n
<1>2. CASE d = NoDecision
  BY <1>2 DEF NoDecision, NoIndex
<1> QED BY <1>1, <1>2

LEMMA SegmentForm ==
  /\ Literal \in Segments /\ Literal.kind = "literal"
  /\ \A n \in 1..MaxSymbols : Partial(n) \in Segments /\ Partial(n).kind = "partial" /\ Partial(n).size = n
  /\ \A n \in RowCounts \cup {1} :
       /\ Complete(n) \in Segments /\ Complete(n).kind = "complete" /\ Complete(n).size = n
       /\ \A i \in 0..(n - 1) : Chosen(Complete(n), i) \in Segments
<1>1. Literal \in Segments /\ Literal.kind = "literal"
  BY DEF Segments, Literal
<1>2. \A n \in 1..MaxSymbols : Partial(n) \in Segments /\ Partial(n).kind = "partial" /\ Partial(n).size = n
  <2> TAKE n \in 1..MaxSymbols
  <2>1. Partial(n) \in Segments
    BY DEF Segments
  <2> QED BY <2>1 DEF Partial, Literal
<1>3. ASSUME NEW n \in RowCounts \cup {1}
      PROVE  /\ Complete(n) \in Segments /\ Complete(n).kind = "complete" /\ Complete(n).size = n
             /\ \A i \in 0..(n - 1) : Chosen(Complete(n), i) \in Segments
  <2>1. Complete(n) \in Segments /\ \A i \in 0..(n - 1) : Chosen(Complete(n), i) \in Segments
    BY DEF Segments
  <2> QED BY <2>1 DEF Complete, Literal
<1> QED BY <1>1, <1>2, <1>3

LEMMA SegmentKinds ==
  ASSUME NEW g \in Segments
  PROVE  /\ g.size \in Nat /\ g.choice \in Nat
         /\ g.kind = "partial" => \E n \in 1..MaxSymbols : g = Partial(n) /\ g.size = n
         /\ g.kind = "complete" => /\ g.size \in RowCounts \cup {1} /\ g.size \in Nat \ {0}
                                   /\ \A i \in 0..(g.size - 1) : Chosen(g, i) \in Segments
<1>1. CASE g = Literal
  BY <1>1 DEF Literal
<1>2. CASE \E n \in 1..MaxSymbols : g = Partial(n)
  <2>1. PICK n \in 1..MaxSymbols : g = Partial(n)
    BY <1>2
  <2>2. g.kind = "partial" /\ g.size = n /\ g.choice = 0
    BY <2>1 DEF Partial, Literal
  <2>3. n \in Nat
    BY EditingAssumption
  <2> QED BY <2>1, <2>2, <2>3
<1>3. CASE \E n \in RowCounts \cup {1} : g = Complete(n)
  <2>1. PICK n \in RowCounts \cup {1} : g = Complete(n)
    BY <1>3
  <2>2. g.kind = "complete" /\ g.size = n /\ g.choice = 0
    BY <2>1 DEF Complete, Literal
  <2>3. n \in Nat \ {0}
    BY EditingAssumption
  <2> QED BY <2>1, <2>2, <2>3, SegmentForm
<1>4. CASE \E n \in RowCounts \cup {1} : \E c \in 0..(n - 1) : g = Chosen(Complete(n), c)
  <2>0. PICK n \in RowCounts \cup {1} : \E c \in 0..(n - 1) : g = Chosen(Complete(n), c)
    BY <1>4
  <2>1. PICK c \in 0..(n - 1) : g = Chosen(Complete(n), c)
    BY <2>0
  <2>2. g.kind = "complete" /\ g.size = n /\ g.choice = c
    BY <2>1 DEF Chosen, Complete, Literal
  <2>3. n \in Nat \ {0}
    BY EditingAssumption
  <2>4. \A i \in 0..(n - 1) : Chosen(g, i) = Chosen(Complete(n), i)
    BY <2>1 DEF Chosen, Complete, Literal
  <2> QED BY <2>2, <2>3, <2>4, SegmentForm
<1> QED
  BY <1>1, <1>2, <1>3, <1>4 DEF Segments

LEMMA SoundAsBefore ==
  ASSUME NEW s, Sound(s), NEW t, DOMAIN t = EditorFields, SameText(t, s), t.kind \in States,
         t.page \in Int, t.cursor \in Int, t.expanded \in BOOLEAN, t.shown \in Nat, t.stale \in BOOLEAN,
         MenuOpen(t) => ~Choosing(t)
  PROVE  Sound(t)
<1>1. HasItsToken(t)
  BY DEF Sound, SameText, HasItsToken
<1>2. t.segments \in Seq(Segments) /\ t.caret \in 0..Len(t.segments)
  BY DEF Sound, SameText
<1>3. t.mark \in {NoMark} \cup 0..Len(t.segments) /\ t.pending \in Nat
  BY DEF Sound, SameText
<1>4. t.decision \in Decisions \cup {NoDecision} /\ t.menu \in {"closed", "top", "category"}
  BY DEF Sound, SameText
<1> QED
  BY <1>1, <1>2, <1>3, <1>4 DEF Sound

LEMMA ResetViewSound ==
  ASSUME NEW s, Sound(s)
  PROVE  /\ Sound(ResetView(s)) /\ SameText(ResetView(s), s)
         /\ ResetView(s).kind = s.kind /\ ResetView(s).shown = s.shown /\ ResetView(s).stale = s.stale
         /\ ResetView(s).page = 0 /\ ResetView(s).cursor = 0
<1> DEFINE t == ResetView(s)
<1>1. /\ DOMAIN t = EditorFields /\ t.kind = s.kind /\ t.segments = s.segments /\ t.caret = s.caret /\ t.mark = s.mark
      /\ t.pending = s.pending /\ t.decision = s.decision /\ t.menu = s.menu /\ t.page = 0 /\ t.cursor = 0
      /\ t.expanded = FALSE /\ t.shown = s.shown /\ t.stale = s.stale
  BY DEF Sound, EditorFields, ResetView
<1> HIDE DEF t
<1>2. SameText(t, s)
  BY <1>1 DEF SameText
<1>3. Sound(t)
  <2>1. MenuOpen(t) => ~Choosing(t)
    BY <1>1 DEF Sound, MenuOpen, Choosing
  <2>2. t.kind \in States /\ t.page \in Int /\ t.cursor \in Int /\ t.expanded \in BOOLEAN
        /\ t.shown \in Nat /\ t.stale \in BOOLEAN
    <3>1. t.kind \in States /\ t.shown \in Nat /\ t.stale \in BOOLEAN
      BY <1>1 DEF Sound
    <3>2. t.page \in Int /\ t.cursor \in Int
      BY <1>1
    <3>3. t.expanded \in BOOLEAN
      BY <1>1, Zenon
    <3> QED BY <3>1, <3>2, <3>3
  <2> QED BY <1>1, <1>2, <2>1, <2>2, SoundAsBefore
<1> QED
  BY <1>1, <1>2, <1>3 DEF t

LEMMA TargetForm ==
  ASSUME NEW s, Sound(s)
  PROVE  /\ Target(s) = NoIndex \/ (Target(s) \in 1..Len(s.segments) /\ s.segments[Target(s)].kind = "complete")
         /\ Available(s) \in Nat
         /\ Target(s) # NoIndex => s.segments[Target(s)].choice \in Nat
<1>1. Target(s) = NoIndex \/ IsComplete(s, Target(s))
  BY DEF Target, NoIndex
<1>2. CASE Target(s) = NoIndex
  BY <1>2 DEF Available
<1>3. CASE IsComplete(s, Target(s))
  <2>1. Target(s) \in 1..Len(s.segments) /\ s.segments[Target(s)].kind = "complete"
    BY <1>3 DEF IsComplete
  <2>2. s.segments[Target(s)] \in Segments
    BY <2>1 DEF Sound
  <2> QED BY <2>1, <2>2, SegmentKinds DEF Available
<1> QED BY <1>1, <1>2, <1>3

LEMMA LengthForm ==
  ASSUME config \in Settings, NEW s, NEW count \in Nat
  PROVE  PageLength(s, count) \in Nat \ {0}
BY EditingAssumption DEF PageLength

LEMMA ExpandedForm ==
  ASSUME NEW s, Sound(s), NEW page \in Nat \ {0}
  PROVE  Expanded(s, page) \in Nat \ {0}
BY DecisionType, SMTT(20) DEF Expanded, Lower, Sound

LEMMA RowsForm ==
  ASSUME NEW s, Sound(s)
  PROVE  Rows(s) \in Nat /\ MixedEntries(s) \in Nat /\ Listed(s) \in Nat
<1>1. MixedEntries(s) \in Nat
  <2>1. config.pageSize \in Nat \ {0}
    BY EditingAssumption DEF Sound
  <2> QED BY <2>1, ExpandedForm DEF MixedEntries
<1>2. Available(s) \in Nat
  BY TargetForm
<1>3. Rows(s) \in Nat
  <2>1. MenuOpen(s) => MenuRows[s.menu] \in Nat
    BY EditingAssumption DEF Sound, MenuOpen
  <2> QED BY <1>1, <1>2, <2>1 DEF Rows
<1> QED BY <1>1, <1>3 DEF Listed

LEMMA BecomeSound ==
  ASSUME NEW s, Sound(s), NEW kind \in States, kind = "choosing" => ~MenuOpen(s)
  PROVE  /\ Sound(Become(s, kind)) /\ SameText(Become(s, kind), s) /\ Become(s, kind).stale = s.stale
         /\ kind # "choosing" => /\ Become(s, kind).kind = kind /\ Become(s, kind).shown = 0
                                /\ Become(s, kind).page = 0 /\ Become(s, kind).cursor = 0
<1> DEFINE r == ResetView(s)
<1>1. /\ Sound(r) /\ SameText(r, s) /\ r.kind = s.kind /\ r.shown = s.shown /\ r.stale = s.stale
      /\ r.page = 0 /\ r.cursor = 0
  BY ResetViewSound
<1> HIDE DEF r
<1>2. CASE kind # "choosing"
  <2> DEFINE t == [r EXCEPT !.kind = kind, !.shown = 0]
  <2>1. Become(s, kind) = t
    BY <1>2 DEF Become, r
  <2>2. /\ DOMAIN t = EditorFields /\ t.kind = kind /\ t.segments = r.segments /\ t.caret = r.caret /\ t.mark = r.mark
        /\ t.pending = r.pending /\ t.decision = r.decision /\ t.menu = r.menu /\ t.page = r.page
        /\ t.cursor = r.cursor /\ t.expanded = r.expanded /\ t.shown = 0 /\ t.stale = r.stale
    BY <1>1 DEF Sound, EditorFields
  <2> HIDE DEF t
  <2>3. SameText(t, s)
    BY <1>1, <2>2 DEF SameText
  <2>4. Sound(t)
    <3>1. MenuOpen(t) => ~Choosing(t)
      BY <1>2, <2>2 DEF Choosing
    <3>2. t.kind \in States /\ t.page \in Int /\ t.cursor \in Int /\ t.expanded \in BOOLEAN
          /\ t.shown \in Nat /\ t.stale \in BOOLEAN
      BY <1>1, <2>2 DEF Sound
    <3> QED BY <2>2, <2>3, <3>1, <3>2, SoundAsBefore
  <2> QED BY <1>1, <1>2, <2>1, <2>2, <2>3, <2>4
<1>3. CASE kind = "choosing" /\ s.kind \in {"empty", "choosing"}
  BY <1>3 DEF Become, SameText
<1>4. CASE kind = "choosing" /\ s.kind = "inputting"
  <2> DEFINE c == IF Target(s) = NoIndex THEN r.cursor ELSE s.segments[Target(s)].choice
             t == Become(s, kind)
  <2>0. r.cursor \in Int
    BY <1>1 DEF Sound
  <2>1. c \in Int
    BY <2>0, TargetForm
  <2>2. /\ DOMAIN t = EditorFields /\ t.kind = kind /\ t.segments = r.segments /\ t.caret = r.caret /\ t.mark = r.mark
        /\ t.pending = r.pending /\ t.decision = r.decision /\ t.menu = r.menu /\ t.page = r.page
        /\ t.cursor = c /\ t.expanded = r.expanded /\ t.shown = r.shown /\ t.stale = r.stale
    <3>1. t = IF Target(s) = NoIndex THEN [r EXCEPT !.kind = kind]
              ELSE [[r EXCEPT !.kind = kind] EXCEPT !.cursor = s.segments[Target(s)].choice]
      BY <1>4 DEF Become, r
    <3> HIDE DEF t
    <3> QED BY <3>1, <1>1 DEF Sound, EditorFields
  <2> HIDE DEF t, c
  <2>3. SameText(t, s)
    BY <1>1, <2>2 DEF SameText
  <2>4. Sound(t)
    <3>1. MenuOpen(t) => ~Choosing(t)
      BY <1>4, <2>3 DEF MenuOpen, SameText
    <3>2. t.kind \in States /\ t.page \in Int /\ t.cursor \in Int /\ t.expanded \in BOOLEAN
          /\ t.shown \in Nat /\ t.stale \in BOOLEAN
      BY <1>1, <2>1, <2>2 DEF Sound
    <3> QED BY <2>2, <2>3, <3>1, <3>2, SoundAsBefore
  <2> QED BY <1>1, <1>4, <2>2, <2>3, <2>4 DEF t
<1> QED
  BY <1>2, <1>3, <1>4 DEF Sound, States

-----------------------------------------------------------------------------
(* The redraw *)

\* The cursor is a row of the page on view.
OnPage(s) ==
  s.shown > 0 /\ ~s.stale =>
    s.cursor \in Offset(s, s.shown)..(Lower(Offset(s, s.shown) + PageLength(s, s.shown), s.shown) - 1)

Shows(s) == (Choosing(s) \/ MenuOpen(s)) /\ ~s.stale => s.shown = Rows(s)
Matches(s) == ~s.stale => (s.kind = "empty" <=> CompositionEmpty(s))

\* What a handler leaves after it.
Good(s) ==
  /\ Sound(s) /\ s.page \in Nat /\ s.cursor \in Nat
  /\ OnPage(s) /\ Shows(s) /\ Matches(s)

LEMMA PageHolds ==
  ASSUME NEW c \in Nat, NEW size \in Nat \ {0}
  PROVE  c \div size \in Nat /\ (c \div size) * size \in Nat
         /\ (c \div size) * size <= c /\ c < (c \div size) * size + size
  OBVIOUS

LEMMA SameRows ==
  ASSUME NEW s, NEW t, Sound(s), SameText(t, s), t.kind = s.kind
  PROVE  /\ Rows(t) = Rows(s) /\ Listed(t) = Listed(s)
         /\ CompositionEmpty(t) = CompositionEmpty(s)
         /\ Choosing(s) \/ MenuOpen(s) => Rows(t) = Listed(s)
<1>1. /\ t.segments = s.segments /\ t.caret = s.caret /\ t.mark = s.mark
      /\ t.decision = s.decision /\ t.menu = s.menu /\ t.pending = s.pending
  BY DEF SameText
<1>2. Target(t) = Target(s)
  BY <1>1 DEF Target, IsComplete
<1>3. Available(t) = Available(s)
  BY <1>1, <1>2 DEF Available
<1>4. MixedEntries(t) = MixedEntries(s) /\ Deciding(t) = Deciding(s) /\ MenuOpen(t) = MenuOpen(s)
      /\ Choosing(t) = Choosing(s) /\ Marked(t) = Marked(s) /\ CompositionEmpty(t) = CompositionEmpty(s)
  BY <1>1 DEF MixedEntries, Expanded, Deciding, MenuOpen, Choosing, Marked, CompositionEmpty
<1>5. Rows(t) = Rows(s)
  BY <1>1, <1>3, <1>4 DEF Rows
<1>6. Listed(t) = Listed(s)
  BY <1>4, <1>5 DEF Listed
<1>7. Choosing(s) \/ MenuOpen(s) => Rows(s) = Listed(s)
  BY DEF Rows, Listed, Sound
<1> QED BY <1>4, <1>5, <1>6, <1>7

LEMMA SyncedSound ==
  ASSUME NEW s, Sound(s)
  PROVE  /\ Sound(Synced(s)) /\ SameText(Synced(s), s)
         /\ Synced(s).kind = "empty" <=> CompositionEmpty(Synced(s))
<1>1. CASE CompositionEmpty(s) /\ s.kind # "empty"
  <2>1. Synced(s) = Become(s, "empty")
    BY <1>1 DEF Synced
  <2>2. Sound(Become(s, "empty")) /\ SameText(Become(s, "empty"), s) /\ Become(s, "empty").kind = "empty"
    BY BecomeSound DEF States
  <2> QED BY <1>1, <2>1, <2>2 DEF CompositionEmpty, SameText
<1>2. CASE ~CompositionEmpty(s) /\ s.kind = "empty"
  <2>1. Synced(s) = Become(s, "inputting")
    BY <1>2 DEF Synced
  <2>2. /\ Sound(Become(s, "inputting")) /\ SameText(Become(s, "inputting"), s)
        /\ Become(s, "inputting").kind = "inputting"
    BY BecomeSound DEF States
  <2> QED BY <1>2, <2>1, <2>2 DEF CompositionEmpty, SameText
<1>3. CASE s.kind = "empty" <=> CompositionEmpty(s)
  BY <1>3 DEF Synced, SameText
<1> QED BY <1>1, <1>2, <1>3

LEMMA RedrawnGood ==
  ASSUME NEW s, Sound(s)
  PROVE  Good(Redrawn(s)) /\ SameText(Redrawn(s), s)
<1> DEFINE y == Synced(s)
           t == [y EXCEPT !.stale = FALSE]
           count == Listed(t)
<1>1. Sound(y) /\ SameText(y, s) /\ (y.kind = "empty" <=> CompositionEmpty(y))
  BY SyncedSound
<1> HIDE DEF y
<1>2. /\ DOMAIN t = EditorFields /\ t.kind = y.kind /\ t.segments = y.segments /\ t.caret = y.caret /\ t.mark = y.mark
      /\ t.pending = y.pending /\ t.decision = y.decision /\ t.menu = y.menu /\ t.page = y.page
      /\ t.cursor = y.cursor /\ t.expanded = y.expanded /\ t.shown = y.shown /\ t.stale = FALSE
  BY <1>1 DEF Sound, EditorFields
<1>3. Redrawn(s) = IF count = 0 THEN ResetView([t EXCEPT !.shown = 0]) ELSE ClampView([t EXCEPT !.shown = count], count)
  BY DEF Redrawn, y
<1> HIDE DEF t
<1>4. Sound(t) /\ SameText(t, s) /\ (t.kind = "empty" <=> CompositionEmpty(t))
  <2>1. SameText(t, y)
    BY <1>2 DEF SameText
  <2>2. t.kind \in States /\ t.shown \in Nat /\ t.page \in Int /\ t.cursor \in Int
    BY <1>1, <1>2 DEF Sound
  <2>3. t.expanded \in BOOLEAN /\ t.stale \in BOOLEAN
    BY <1>1, <1>2, Zenon DEF Sound
  <2>4. MenuOpen(t) => ~Choosing(t)
    BY <1>1, <1>2 DEF Sound, MenuOpen, Choosing
  <2>5. Sound(t)
    BY <1>1, <1>2, <2>1, <2>2, <2>3, <2>4, SoundAsBefore
  <2> QED BY <1>1, <1>2, <2>1, <2>5 DEF SameText, CompositionEmpty
<1>5. count \in Nat
  BY <1>4, RowsForm
<1>6. ASSUME NEW r, DOMAIN r = EditorFields, r.kind = t.kind, SameText(r, t), r.stale = FALSE, r.shown = count,
             r.page \in Nat, r.cursor \in Nat, r.expanded \in BOOLEAN, OnPage(r)
      PROVE  Good(r) /\ SameText(r, s)
  <2>1. Sound(r)
    <3>1. r.kind \in States /\ r.shown \in Nat /\ r.page \in Int /\ r.cursor \in Int
      BY <1>4, <1>5, <1>6 DEF Sound
    <3>2. r.stale \in BOOLEAN
      BY <1>6, Zenon
    <3>3. MenuOpen(r) => ~Choosing(r)
      BY <1>4, <1>6 DEF Sound, MenuOpen, Choosing, SameText
    <3> QED BY <1>4, <1>6, <3>1, <3>2, <3>3, SoundAsBefore
  <2>2. Shows(r)
    <3>1. Choosing(r) \/ MenuOpen(r) => Choosing(t) \/ MenuOpen(t)
      BY <1>6 DEF Choosing, MenuOpen, SameText
    <3>2. Choosing(r) \/ MenuOpen(r) => Rows(r) = count
      BY <1>4, <1>6, <3>1, SameRows
    <3> QED BY <1>6, <3>2 DEF Shows
  <2>3. Matches(r)
    BY <1>4, <1>6 DEF Matches, CompositionEmpty, SameText
  <2>4. SameText(r, s)
    BY <1>4, <1>6 DEF SameText
  <2> QED BY <1>6, <2>1, <2>2, <2>3, <2>4 DEF Good
<1> HIDE DEF count
<1>7. CASE count = 0
  <2> DEFINE r == ResetView([t EXCEPT !.shown = 0])
  <2>1. /\ DOMAIN r = EditorFields /\ r.kind = t.kind /\ r.segments = t.segments /\ r.caret = t.caret /\ r.mark = t.mark
        /\ r.pending = t.pending /\ r.decision = t.decision /\ r.menu = t.menu /\ r.page = 0
        /\ r.cursor = 0 /\ r.expanded = FALSE /\ r.shown = 0 /\ r.stale = FALSE
    BY <1>2 DEF EditorFields, ResetView
  <2> HIDE DEF r
  <2>2. SameText(r, t)
    BY <2>1 DEF SameText
  <2>3. OnPage(r)
    BY <2>1 DEF OnPage
  <2>4. r.expanded \in BOOLEAN
    BY <2>1, Zenon
  <2>5. r.page \in Nat /\ r.cursor \in Nat
    BY <2>1
  <2>6. Good(r) /\ SameText(r, s)
    BY <1>6, <1>7, <2>1, <2>2, <2>3, <2>4, <2>5
  <2> QED BY <1>3, <1>7, <2>6 DEF r
<1>8. CASE count # 0
  <2> DEFINE u == [t EXCEPT !.shown = count]
             r == ClampView(u, count)
             c == Clamped(u.cursor, 0, count - 1)
             size == PageLength(u, count)
  <2>1. /\ DOMAIN u = EditorFields /\ u.kind = t.kind /\ u.segments = t.segments /\ u.caret = t.caret /\ u.mark = t.mark
        /\ u.pending = t.pending /\ u.decision = t.decision /\ u.menu = t.menu /\ u.page = t.page
        /\ u.cursor = t.cursor /\ u.expanded = t.expanded /\ u.shown = count /\ u.stale = FALSE
    BY <1>2 DEF EditorFields
  <2> HIDE DEF u
  <2>2. c \in Nat /\ c < count
    BY <1>4, <1>5, <1>8, <2>1, SMTT(20) DEF Clamped, Sound
  <2>3. size \in Nat \ {0}
    BY <1>4, <1>5, LengthForm DEF Sound
  <2>4. /\ DOMAIN r = EditorFields /\ r.kind = t.kind /\ r.segments = t.segments /\ r.caret = t.caret /\ r.mark = t.mark
        /\ r.pending = t.pending /\ r.decision = t.decision /\ r.menu = t.menu /\ r.page = c \div size
        /\ r.cursor = c /\ r.expanded = t.expanded /\ r.shown = count /\ r.stale = FALSE
    BY <2>1 DEF EditorFields, ClampView
  <2>5. PageLength(r, count) = size
    BY <2>1, <2>4 DEF PageLength
  <2> HIDE DEF r, c, size
  <2>6. r.page \in Nat /\ r.page * size \in Nat /\ r.page * size <= c /\ c < r.page * size + size
    BY <2>2, <2>3, <2>4, PageHolds
  <2>7. OnPage(r)
    <3>1. Offset(r, count) = r.page * size
      BY <2>5 DEF Offset
    <3> DEFINE first == r.page * size
    <3> HIDE DEF first
    <3>2. c \in first..(Lower(first + size, count) - 1)
      BY <1>5, <2>2, <2>3, <2>6 DEF Lower, first
    <3> QED BY <2>4, <2>5, <3>1, <3>2 DEF OnPage, first
  <2>8. SameText(r, t)
    BY <2>4 DEF SameText
  <2>9. r.expanded \in BOOLEAN
    BY <1>4, <2>4, Zenon DEF Sound
  <2>10. Good(r) /\ SameText(r, s)
    BY <1>6, <2>2, <2>4, <2>6, <2>7, <2>8, <2>9
  <2> QED BY <1>3, <1>8, <2>10 DEF r, u
<1> QED BY <1>7, <1>8

-----------------------------------------------------------------------------
(* The buffer and the token *)

\* The same view of the lists, in the same state.
SameView(t, s) ==
  /\ DOMAIN t = EditorFields /\ t.kind = s.kind /\ t.menu = s.menu /\ t.page = s.page /\ t.cursor = s.cursor
  /\ t.expanded = s.expanded /\ t.shown = s.shown /\ t.stale = s.stale

LEMMA TextSound ==
  ASSUME NEW s, Sound(s), NEW t, SameView(t, s), t.segments \in Seq(Segments),
         t.caret \in 0..Len(t.segments), t.mark \in {NoMark} \cup 0..Len(t.segments),
         t.pending \in Nat, t.decision \in Decisions \cup {NoDecision}, HasItsToken(t)
  PROVE  Sound(t)
<1>1. MenuOpen(t) => ~Choosing(t)
  BY DEF Sound, SameView, MenuOpen, Choosing
<1>2. t.kind \in States /\ t.menu \in {"closed", "top", "category"} /\ t.page \in Int /\ t.cursor \in Int
      /\ t.shown \in Nat
  BY DEF Sound, SameView
<1>3. t.expanded \in BOOLEAN /\ t.stale \in BOOLEAN
  BY Zenon DEF Sound, SameView
<1> QED BY <1>1, <1>2, <1>3 DEF Sound, SameView

LEMMA SameToken ==
  ASSUME NEW s, Sound(s), NEW t, t.pending = s.pending, t.decision = s.decision
  PROVE  t.pending \in Nat /\ t.decision \in Decisions \cup {NoDecision} /\ HasItsToken(t)
BY DEF Sound, HasItsToken

LEMMA InsertedSound ==
  ASSUME NEW s, Sound(s), NEW new \in Seq(Segments)
  PROVE  /\ Sound(Inserted(s, new)) /\ SameView(Inserted(s, new), s)
         /\ Inserted(s, new).pending = s.pending /\ Inserted(s, new).decision = s.decision
<1> DEFINE t == Inserted(s, new)
           q == s.segments
           left == SubSeq(q, 1, s.caret)
           right == SubSeq(q, s.caret + 1, Len(q))
<1>0. q \in Seq(Segments) /\ s.caret \in 0..Len(q) /\ s.caret \in Nat /\ Len(q) \in Nat
  BY DEF Sound
<1>1. /\ DOMAIN t = EditorFields /\ t.kind = s.kind /\ t.segments = left \o new \o right /\ t.caret = s.caret + Len(new)
      /\ t.mark \in {s.mark, NoMark} /\ t.pending = s.pending /\ t.decision = s.decision /\ t.menu = s.menu
      /\ t.page = s.page /\ t.cursor = s.cursor /\ t.expanded = s.expanded /\ t.shown = s.shown /\ t.stale = s.stale
  BY DEF Sound, EditorFields, Inserted
<1> HIDE DEF t
<1>2. left \in Seq(Segments) /\ Len(left) = s.caret
  <2>1. \A i \in 1..s.caret : q[i] \in Segments
    BY <1>0
  <2> QED BY <1>0, <2>1, SubSeqProperties
<1>3. right \in Seq(Segments) /\ Len(right) = Len(q) - s.caret
  <2>1. \A i \in (s.caret + 1)..Len(q) : q[i] \in Segments
    BY <1>0
  <2> QED BY <1>0, <2>1, SubSeqProperties
<1> HIDE DEF left, right
<1>4. left \o new \in Seq(Segments) /\ Len(left \o new) = s.caret + Len(new)
  BY <1>2, ConcatProperties, SMTT(20)
<1>6. Len(new) \in Nat
  OBVIOUS
<1>5. t.segments \in Seq(Segments) /\ Len(t.segments) = Len(q) + Len(new)
  <2> DEFINE l == left \o new
  <2>0. l \in Seq(Segments) /\ Len(l) = s.caret + Len(new)
    BY <1>4
  <2>1. t.segments = l \o right
    BY <1>1
  <2> HIDE DEF l
  <2>2. l \o right \in Seq(Segments) /\ Len(l \o right) = Len(l) + Len(right)
    BY <1>3, <2>0, ConcatProperties
  <2>3. Len(l) + Len(right) = Len(q) + Len(new)
    <3>1. Len(l) = s.caret + Len(new) /\ Len(right) = Len(q) - s.caret
      BY <1>3, <2>0
    <3>2. s.caret \in Int /\ Len(q) \in Int /\ Len(new) \in Int
      BY <1>0, <1>6
    <3> QED BY <3>1, <3>2
  <2> QED BY <2>1, <2>2, <2>3
<1>7. t.caret \in 0..Len(t.segments) /\ t.mark \in {NoMark} \cup 0..Len(t.segments)
  BY <1>0, <1>1, <1>5, <1>6, SMTT(20) DEF Sound
<1>8. SameView(t, s)
  BY <1>1 DEF SameView
<1> QED
  BY <1>1, <1>5, <1>7, <1>8, SameToken, TextSound DEF t

LEMMA RemovedSound ==
  ASSUME NEW s, Sound(s), NEW i \in 1..Len(s.segments)
  PROVE  /\ Sound(RemoveSegment(s, i)) /\ SameView(RemoveSegment(s, i), s)
         /\ RemoveSegment(s, i).pending = s.pending /\ RemoveSegment(s, i).decision = s.decision
<1> DEFINE t == RemoveSegment(s, i)
           q == s.segments
           left == SubSeq(q, 1, i - 1)
           right == SubSeq(q, i + 1, Len(q))
<1>0. q \in Seq(Segments) /\ s.caret \in 0..Len(q) /\ s.caret \in Nat /\ Len(q) \in Nat /\ i \in 1..Len(q)
  BY DEF Sound
<1>1. /\ DOMAIN t = EditorFields /\ t.kind = s.kind /\ t.segments = left \o right
      /\ t.caret = (IF s.caret >= i THEN s.caret - 1 ELSE s.caret)
      /\ t.mark = NoMark /\ t.pending = s.pending /\ t.decision = s.decision /\ t.menu = s.menu
      /\ t.page = s.page /\ t.cursor = s.cursor /\ t.expanded = s.expanded /\ t.shown = s.shown /\ t.stale = s.stale
  BY DEF Sound, EditorFields, RemoveSegment, RemoveAt
<1> HIDE DEF t
<1>2. left \in Seq(Segments) /\ Len(left) = i - 1
  <2>1. \A j \in 1..(i - 1) : q[j] \in Segments
    BY <1>0
  <2> QED BY <1>0, <2>1, SubSeqProperties
<1>3. right \in Seq(Segments) /\ Len(right) = Len(q) - i
  <2>1. \A j \in (i + 1)..Len(q) : q[j] \in Segments
    BY <1>0
  <2> QED BY <1>0, <2>1, SubSeqProperties
<1> HIDE DEF left, right
<1>4. t.segments \in Seq(Segments) /\ Len(t.segments) = Len(q) - 1
  <2>1. left \o right \in Seq(Segments) /\ Len(left \o right) = Len(left) + Len(right)
    BY <1>2, <1>3, ConcatProperties
  <2>2. Len(left) + Len(right) = Len(q) - 1
    BY <1>0, <1>2, <1>3
  <2>3. t.segments = left \o right
    BY <1>1
  <2> QED BY <2>1, <2>2, <2>3
<1>5. t.caret \in 0..Len(t.segments) /\ t.mark \in {NoMark} \cup 0..Len(t.segments)
  BY <1>0, <1>1, <1>4
<1>6. SameView(t, s)
  BY <1>1 DEF SameView
<1> QED
  BY <1>1, <1>4, <1>5, <1>6, SameToken, TextSound DEF t

LEMMA ReplacedSound ==
  ASSUME NEW s, Sound(s), NEW i \in 1..Len(s.segments), NEW g \in Segments, NEW t,
         SameView(t, s), t.pending = s.pending, t.decision = s.decision,
         t.segments = [s.segments EXCEPT ![i] = g],
         t.caret \in 0..Len(s.segments), t.mark \in {NoMark, s.mark}
  PROVE  Sound(t)
<1>1. s.segments \in Seq(Segments) /\ s.mark \in {NoMark} \cup 0..Len(s.segments)
  BY DEF Sound
<1>2. t.segments \in Seq(Segments) /\ Len(t.segments) = Len(s.segments)
  BY <1>1, ExceptSeq
<1> QED
  BY <1>1, <1>2, SameToken, TextSound

LEMMA MovedSound ==
  ASSUME NEW s, Sound(s), NEW t, SameView(t, s), t.segments = s.segments,
         t.pending = s.pending, t.decision = s.decision,
         t.caret \in 0..Len(s.segments), t.mark \in {NoMark} \cup 0..Len(s.segments)
  PROVE  Sound(t)
BY SameToken, TextSound DEF Sound

LEMMA NoPendingSound ==
  ASSUME NEW s, Sound(s)
  PROVE  /\ Sound(NoPending(s)) /\ SameView(NoPending(s), s)
         /\ NoPending(s).pending = 0 /\ NoPending(s).decision = NoDecision
         /\ NoPending(s).segments = s.segments /\ NoPending(s).caret = s.caret /\ NoPending(s).mark = s.mark
<1> DEFINE t == NoPending(s)
<1>1. /\ DOMAIN t = EditorFields /\ t.kind = s.kind /\ t.segments = s.segments /\ t.caret = s.caret /\ t.mark = s.mark
      /\ t.pending = 0 /\ t.decision = NoDecision /\ t.menu = s.menu
      /\ t.page = s.page /\ t.cursor = s.cursor /\ t.expanded = s.expanded /\ t.shown = s.shown /\ t.stale = s.stale
  BY DEF Sound, EditorFields, NoPending
<1> HIDE DEF t
<1>2. SameView(t, s)
  BY <1>1 DEF SameView
<1>3. HasItsToken(t)
  BY <1>1 DEF HasItsToken
<1>4. t.segments \in Seq(Segments) /\ t.caret \in 0..Len(t.segments) /\ t.mark \in {NoMark} \cup 0..Len(t.segments)
  BY <1>1 DEF Sound
<1>5. t.pending \in Nat /\ t.decision \in Decisions \cup {NoDecision}
  BY <1>1
<1>6. Sound(t)
  BY <1>2, <1>3, <1>4, <1>5, TextSound
<1> QED BY <1>1, <1>2, <1>6 DEF t

LEMMA ClearedSound ==
  ASSUME NEW s, Sound(s)
  PROVE  Sound(Cleared(s))
<1> DEFINE u == [NoPending(s) EXCEPT !.segments = <<>>, !.caret = 0, !.mark = NoMark, !.menu = "closed"]
<1>1. /\ DOMAIN u = EditorFields /\ u.kind = s.kind /\ u.segments = <<>> /\ u.caret = 0 /\ u.mark = NoMark
      /\ u.pending = 0 /\ u.decision = NoDecision /\ u.menu = "closed"
      /\ u.page = s.page /\ u.cursor = s.cursor /\ u.expanded = s.expanded /\ u.shown = s.shown /\ u.stale = s.stale
  BY NoPendingSound DEF SameView, EditorFields
<1>2. Cleared(s) = Become(u, "empty")
  BY DEF Cleared
<1> HIDE DEF u
<1>3. u.segments \in Seq(Segments) /\ u.caret \in 0..Len(u.segments) /\ u.mark \in {NoMark} \cup 0..Len(u.segments)
  BY <1>1
<1>4. u.pending \in Nat /\ u.decision \in Decisions \cup {NoDecision} /\ HasItsToken(u)
  BY <1>1 DEF HasItsToken
<1>5. ~MenuOpen(u)
  BY <1>1 DEF MenuOpen
<1>6. u.kind \in States /\ u.page \in Int /\ u.cursor \in Int /\ u.shown \in Nat
  BY <1>1 DEF Sound
<1>7. u.expanded \in BOOLEAN /\ u.stale \in BOOLEAN
  BY <1>1, Zenon DEF Sound
<1>8. Sound(u)
  BY <1>1, <1>3, <1>4, <1>5, <1>6, <1>7 DEF Sound
<1> QED
  BY <1>2, <1>8, BecomeSound DEF States

LEMMA LiteralsForm == ASSUME NEW n \in Nat PROVE Literals(n) \in Seq(Segments)
<1>1. Literals(n) \in [1..n -> Segments]
  BY SegmentForm DEF Literals
<1> QED BY <1>1

\* With no list open, a state that is told by the composition needs no redraw.
LEMMA RestsGood ==
  ASSUME NEW s, Sound(s), ~MenuOpen(s), NEW kind \in {"empty", "inputting"},
         kind = "empty" <=> CompositionEmpty(s)
  PROVE  Good(Become(s, kind)) /\ ~MenuOpen(Become(s, kind))
<1> DEFINE t == Become(s, kind)
<1>1. Sound(t) /\ SameText(t, s) /\ t.kind = kind /\ t.shown = 0 /\ t.page = 0 /\ t.cursor = 0
  BY BecomeSound DEF States
<1> HIDE DEF t
<1>2. ~MenuOpen(t)
  BY <1>1 DEF MenuOpen, SameText
<1>3. OnPage(t) /\ Shows(t)
  BY <1>1, <1>2 DEF OnPage, Shows, Choosing
<1>4. Matches(t)
  BY <1>1 DEF Matches, CompositionEmpty, SameText
<1> QED BY <1>1, <1>2, <1>3, <1>4 DEF Good, t

LEMMA SettledSound ==
  ASSUME NEW s, Sound(s)
  PROVE  /\ Sound(Settled(s)) /\ SameText(Settled(s), s)
         /\ Sound(Resumed(s)) /\ SameText(Resumed(s), s)
         /\ Sound(Become(s, "inputting")) /\ SameText(Become(s, "inputting"), s)
BY BecomeSound DEF Settled, Resumed, States

LEMMA AsLiteralsGood ==
  ASSUME NEW s, Sound(s), ~MenuOpen(s)
  PROVE  Good(SettledAsLiterals(s)) /\ ~MenuOpen(SettledAsLiterals(s))
<1> DEFINE i == Inserted(s, Literals(s.pending))
           u == NoPending(i)
           kind == IF u.segments = <<>> THEN "empty" ELSE "inputting"
<1>1. Sound(i) /\ SameView(i, s)
  BY LiteralsForm, InsertedSound DEF Sound
<1> HIDE DEF i
<1>2. Sound(u) /\ SameView(u, i) /\ u.pending = 0
  BY <1>1, NoPendingSound
<1>3. SettledAsLiterals(s) = Become(u, kind)
  BY DEF SettledAsLiterals, Settled, i
<1> HIDE DEF u
<1>4. ~MenuOpen(u)
  BY <1>1, <1>2 DEF SameView, MenuOpen
<1>5. kind = "empty" <=> CompositionEmpty(u)
  BY <1>2 DEF CompositionEmpty
<1> QED BY <1>2, <1>3, <1>4, <1>5, RestsGood

LEMMA TypedGood ==
  ASSUME NEW s, Sound(s)
  PROVE  Good(Typed(s))
<1>1. <<Literal>> \in Seq(Segments)
  BY SegmentForm
<1>2. Sound(Inserted(s, <<Literal>>))
  BY <1>1, InsertedSound
<1> QED
  BY <1>2, SettledSound, RedrawnGood DEF Typed

\* A path is written with a redraw or not at all.
LEMMA AppliedGood ==
  ASSUME NEW s, Sound(s), ~MenuOpen(s), NEW path \in Seq(Segments)
  PROVE  Applied(s, path) = s \/ (Good(Applied(s, path)) /\ ~MenuOpen(Applied(s, path)))
<1> DEFINE i == Inserted(s, path)
           u == NoPending(i)
           b == Become(u, "inputting")
<1>1. Sound(i) /\ SameView(i, s)
  BY InsertedSound
<1> HIDE DEF i
<1>2. Sound(u) /\ SameView(u, i)
  BY <1>1, NoPendingSound
<1> HIDE DEF u
<1>3. Sound(b) /\ SameText(b, u)
  BY <1>2, SettledSound
<1> HIDE DEF b
<1>4. Good(Redrawn(b)) /\ SameText(Redrawn(b), b)
  BY <1>3, RedrawnGood
<1>5. ~MenuOpen(Redrawn(b))
  BY <1>1, <1>2, <1>3, <1>4 DEF MenuOpen, SameText, SameView
<1> QED
  BY <1>4, <1>5 DEF Applied, b, u, i

LEMMA PathsForm ==
  ASSUME NEW s, Sound(s)
  PROVE  /\ LetterPath \in Seq(Segments)
         /\ s.decision.closing # NoIndex =>
              \A row \in 0..(s.decision.closing - 1) : ClosingPath(s, row) \in Seq(Segments)
<1>1. Chosen(Complete(1), 0) \in Segments /\ Literal \in Segments
  BY SegmentForm
<1>2. LetterPath \in Seq(Segments)
  BY <1>1 DEF LetterPath
<1>3. ASSUME s.decision.closing # NoIndex, NEW row \in 0..(s.decision.closing - 1)
      PROVE  ClosingPath(s, row) \in Seq(Segments)
  <2>1. s.decision.closing \in RowCounts \cup {1}
    BY <1>3, DecisionType DEF Sound
  <2>2. Chosen(Complete(s.decision.closing), row) \in Segments
    BY <2>1, SegmentForm
  <2> QED BY <2>2 DEF ClosingPath
<1> QED BY <1>2, <1>3

LEMMA PreviewSettles ==
  ASSUME NEW s, Sound(s), ~MenuOpen(s)
  PROVE  SettledPreview(s) = s \/ (Good(SettledPreview(s)) /\ ~MenuOpen(SettledPreview(s)))
<1>1. CASE s.decision.preview = "chinese"
  <2>1. s.decision # NoDecision
    BY <1>1 DEF NoDecision
  <2>2. s.decision.closing # NoIndex
    BY <1>1, <2>1 DEF Sound, HasItsToken
  <2>3. s.decision.closing \in Nat
    BY DecisionType DEF Sound
  <2>4. 0 \in 0..(s.decision.closing - 1)
    BY <2>2, <2>3 DEF NoIndex
  <2>5. ClosingPath(s, 0) \in Seq(Segments)
    BY <2>2, <2>4, PathsForm
  <2>6. SettledPreview(s) = Applied(s, ClosingPath(s, 0))
    BY <1>1 DEF SettledPreview
  <2> QED BY <2>5, <2>6, AppliedGood
<1>2. CASE s.decision.preview = "latin"
  <2>1. SettledPreview(s) = Applied(s, LetterPath)
    BY <1>2 DEF SettledPreview
  <2> QED BY <2>1, PathsForm, AppliedGood
<1>3. CASE s.decision.preview \notin {"chinese", "latin"}
  BY <1>3, AsLiteralsGood DEF SettledPreview
<1> QED BY <1>1, <1>2, <1>3

\* The keys that settle a pending token first.
LEMMA TokenSettles ==
  ASSUME NEW s, Sound(s), ~MenuOpen(s)
  PROVE  /\ WithoutPending(s) = s \/ (Good(WithoutPending(s)) /\ ~MenuOpen(WithoutPending(s)))
         /\ Sound(WithoutPending(s)) /\ ~MenuOpen(WithoutPending(s))
         /\ Good(s) => Good(WithoutPending(s))
BY PreviewSettles DEF WithoutPending, Good

LEMMA RawPreview ==
  ASSUME NEW d \in Decisions
  PROVE  /\ [d EXCEPT !.preview = "raw"] \in Decisions /\ [d EXCEPT !.preview = "raw"].preview = "raw"
         /\ [d EXCEPT !.preview = "raw", !.boundary = FALSE] \in Decisions
         /\ [d EXCEPT !.preview = "raw", !.boundary = FALSE].preview = "raw"
BY DEF Decisions

\* Another decision for the token that is pending.
LEMMA DecisionSound ==
  ASSUME NEW s, Sound(s), NEW d \in Decisions \cup {NoDecision},
         HasItsToken([s EXCEPT !.decision = d])
  PROVE  /\ Sound([s EXCEPT !.decision = d]) /\ SameView([s EXCEPT !.decision = d], s)
         /\ [s EXCEPT !.decision = d].pending = s.pending
<1> DEFINE t == [s EXCEPT !.decision = d]
<1>1. /\ DOMAIN t = EditorFields /\ t.kind = s.kind /\ t.segments = s.segments /\ t.caret = s.caret /\ t.mark = s.mark
      /\ t.pending = s.pending /\ t.decision = d /\ t.menu = s.menu
      /\ t.page = s.page /\ t.cursor = s.cursor /\ t.expanded = s.expanded /\ t.shown = s.shown /\ t.stale = s.stale
  BY DEF Sound, EditorFields
<1>0. HasItsToken(t)
  OBVIOUS
<1> HIDE DEF t
<1>2. SameView(t, s)
  BY <1>1 DEF SameView
<1>3. t.segments \in Seq(Segments) /\ t.caret \in 0..Len(t.segments) /\ t.mark \in {NoMark} \cup 0..Len(t.segments)
      /\ t.pending \in Nat
  BY <1>1 DEF Sound
<1>4. Sound(t)
  BY <1>0, <1>1, <1>2, <1>3, TextSound
<1> QED BY <1>1, <1>2, <1>4 DEF t

LEMMA RawSound ==
  ASSUME NEW s, Sound(s), s.decision # NoDecision
  PROVE  /\ Sound([s EXCEPT !.decision.preview = "raw"])
         /\ Sound([s EXCEPT !.decision.preview = "raw", !.decision.boundary = FALSE])
<1> DEFINE d == [s.decision EXCEPT !.preview = "raw"]
           e == [s.decision EXCEPT !.preview = "raw", !.boundary = FALSE]
<1>0. s.decision \in Decisions
  BY DEF Sound
<1>1. d \in Decisions /\ e \in Decisions /\ d.preview = "raw" /\ e.preview = "raw"
  BY <1>0, RawPreview
<1>2. s.pending > 0
  BY DEF Sound, HasItsToken
<1>3. /\ [s EXCEPT !.decision.preview = "raw"] = [s EXCEPT !.decision = d]
      /\ [s EXCEPT !.decision.preview = "raw", !.decision.boundary = FALSE] = [s EXCEPT !.decision = e]
  BY DEF Sound, EditorFields
<1> HIDE DEF d, e
<1>4. ASSUME NEW f \in {d, e}
      PROVE  Sound([s EXCEPT !.decision = f])
  <2>1. f \in Decisions /\ f.preview = "raw"
    BY <1>1
  <2>2. [s EXCEPT !.decision = f].decision = f /\ [s EXCEPT !.decision = f].pending = s.pending
    BY DEF Sound, EditorFields
  <2>3. HasItsToken([s EXCEPT !.decision = f])
    BY <1>2, <2>1, <2>2 DEF HasItsToken
  <2> QED BY <2>1, <2>3, DecisionSound
<1> QED BY <1>3, <1>4

LEMMA RedecidedGood ==
  ASSUME NEW s, Sound(s), s.pending > 0, NEW space \in BOOLEAN, NEW t \in Redecided(s, space)
  PROVE  Good(t)
<1>1. CASE t = Redrawn(Cleared(s))
  BY <1>1, ClearedSound, RedrawnGood
<1>2. ASSUME NEW d \in Answers(s, space) \cup {NoDecision},
             t = Redrawn(Become([s EXCEPT !.decision = d], "inputting"))
      PROVE  Good(t)
  <2>1. d \in Decisions \cup {NoDecision}
    BY DEF Answers
  <2>2. [s EXCEPT !.decision = d].decision = d /\ [s EXCEPT !.decision = d].pending = s.pending
    BY DEF Sound, EditorFields
  <2>3. HasItsToken([s EXCEPT !.decision = d])
    BY <2>2 DEF HasItsToken, Answers, NoDecision
  <2>4. Sound([s EXCEPT !.decision = d])
    BY <2>1, <2>3, DecisionSound
  <2> QED BY <1>2, <2>4, SettledSound, RedrawnGood
<1> QED BY <1>1, <1>2 DEF Redecided

LEMMA AppendedSound ==
  ASSUME NEW s, Sound(s)
  PROVE  Sound(Appended(s)) /\ Appended(s).pending > 0
<1> DEFINE t == [s EXCEPT !.pending = @ + 1]
<1>1. /\ DOMAIN t = EditorFields /\ t.kind = s.kind /\ t.segments = s.segments /\ t.caret = s.caret /\ t.mark = s.mark
      /\ t.pending = s.pending + 1 /\ t.decision = s.decision /\ t.menu = s.menu
      /\ t.page = s.page /\ t.cursor = s.cursor /\ t.expanded = s.expanded /\ t.shown = s.shown /\ t.stale = s.stale
  BY DEF Sound, EditorFields
<1>0. Appended(s) = Become(t, "inputting")
  BY DEF Appended
<1> HIDE DEF t
<1>2. SameView(t, s)
  BY <1>1 DEF SameView
<1>3. t.segments \in Seq(Segments) /\ t.caret \in 0..Len(t.segments) /\ t.mark \in {NoMark} \cup 0..Len(t.segments)
      /\ t.decision \in Decisions \cup {NoDecision}
  BY <1>1 DEF Sound
<1>4. s.pending \in Nat
  BY DEF Sound
<1>5. t.pending \in Nat /\ t.pending > 0 /\ HasItsToken(t)
  BY <1>1, <1>4 DEF HasItsToken, Sound
<1>6. Sound(t)
  BY <1>2, <1>3, <1>5, TextSound
<1> QED BY <1>0, <1>5, <1>6, SettledSound DEF SameText

-----------------------------------------------------------------------------
(* The lists *)

LEMMA MixedSelectedGood ==
  ASSUME NEW s, Good(s), Choosing(s), Deciding(s), NEW row \in Nat
  PROVE  Good(MixedSelected(s, row))
<1> DEFINE page == PageLength(s, s.shown)
<1>0. Sound(s) /\ ~MenuOpen(s) /\ page \in Nat \ {0} /\ OfferedEntries(s) \in Nat \ {0}
  <2>1. Sound(s) /\ ~MenuOpen(s)
    BY DEF Good, Sound
  <2>2. page \in Nat \ {0}
    BY <2>1, LengthForm DEF Sound
  <2> QED BY <2>1, <2>2, ExpandedForm DEF OfferedEntries
<1>1. CASE row >= OfferedEntries(s)
  <2>1. row # 0
    BY <1>0, <1>1
  <2> QED BY <1>1, <2>1 DEF MixedSelected
<1>2. CASE row = 0 /\ ~(row >= OfferedEntries(s)) /\ s.decision.boundary
  <2>1. MixedSelected(s, row) = Redrawn(Cleared(s))
    BY <1>2 DEF MixedSelected
  <2> QED BY <1>0, <2>1, ClearedSound, RedrawnGood
<1>3. CASE row = 0 /\ ~(row >= OfferedEntries(s)) /\ ~s.decision.boundary
  <2>1. MixedSelected(s, row) = Redrawn(Become([s EXCEPT !.decision.preview = "raw"], "inputting"))
    BY <1>3 DEF MixedSelected
  <2>2. Sound([s EXCEPT !.decision.preview = "raw"])
    BY <1>0, RawSound DEF Deciding
  <2> QED BY <2>1, <2>2, SettledSound, RedrawnGood
<1>4. CASE row # 0 /\ ~(row >= OfferedEntries(s))
  <2>1. MixedSelected(s, row) = Applied(s, ClosingPath(s, row - 1))
    BY <1>4 DEF MixedSelected
  <2>2. s.decision.closing \in Nat
    BY <1>0, DecisionType DEF Sound
  <2>3. s.decision.closing # NoIndex /\ row - 1 \in 0..(s.decision.closing - 1)
    BY <1>0, <1>4, <2>2 DEF OfferedEntries, Expanded, Lower
  <2>4. ClosingPath(s, row - 1) \in Seq(Segments)
    BY <1>0, <2>3, PathsForm
  <2> QED BY <1>0, <2>1, <2>4, AppliedGood
<1> QED BY <1>1, <1>2, <1>3, <1>4

LEMMA ChoiceSound ==
  ASSUME NEW s, Sound(s), NEW row \in Nat, row < Available(s)
  PROVE  Sound(WithChoice(s, Target(s), row))
<1> DEFINE i == Target(s)
           t == WithChoice(s, i, row)
<1>1. i \in 1..Len(s.segments) /\ s.segments[i].kind = "complete" /\ row < s.segments[i].size
  BY TargetForm DEF Available
<1> HIDE DEF i
<1>2. s.segments[i] \in Segments /\ s.caret \in 0..Len(s.segments)
  BY <1>1 DEF Sound
<1>3. row \in 0..(s.segments[i].size - 1)
  BY <1>1, <1>2, SegmentKinds
<1>4. Chosen(s.segments[i], row) \in Segments
  BY <1>1, <1>2, <1>3, SegmentKinds
<1>5. /\ DOMAIN t = EditorFields /\ t.kind = s.kind
      /\ t.segments = [s.segments EXCEPT ![i] = Chosen(s.segments[i], row)]
      /\ t.caret \in {i, s.caret} /\ t.mark = NoMark
      /\ t.pending = s.pending /\ t.decision = s.decision /\ t.menu = s.menu
      /\ t.page = s.page /\ t.cursor = s.cursor /\ t.expanded = s.expanded /\ t.shown = s.shown /\ t.stale = s.stale
  <2>1. DOMAIN s.segments = 1..Len(s.segments)
    BY DEF Sound
  <2> QED BY <1>1, <2>1 DEF Sound, EditorFields, WithChoice
<1> HIDE DEF t
<1>6. t.caret \in 0..Len(s.segments)
  BY <1>1, <1>2, <1>5
<1>7. Sound(t)
  BY <1>1, <1>4, <1>5, <1>6, ReplacedSound DEF SameView
<1> QED BY <1>7 DEF t, i

LEMMA SelectedGood ==
  ASSUME NEW s, Good(s), NEW row \in Nat
  PROVE  Good(Selected(s, row))
<1>0. Sound(s)
  BY DEF Good
<1>1. CASE ~Choosing(s) \/ (row >= Available(s) /\ ~Deciding(s))
  BY <1>1 DEF Selected
<1>2. CASE Choosing(s) /\ Deciding(s)
  BY <1>2, MixedSelectedGood DEF Selected
<1>3. CASE Choosing(s) /\ ~Deciding(s) /\ ~(row >= Available(s))
  <2>1. Selected(s, row) = Redrawn(Become(WithChoice(s, Target(s), row), "inputting"))
    BY <1>3 DEF Selected
  <2>2. row < Available(s)
    BY <1>0, <1>3, TargetForm
  <2> QED BY <1>0, <2>1, <2>2, ChoiceSound, SettledSound, RedrawnGood
<1> QED BY <1>1, <1>2, <1>3

\* Another row or page of the list.
LEMMA ViewSound ==
  ASSUME NEW s, Sound(s), NEW page \in Int, NEW cursor \in Int
  PROVE  /\ Sound([s EXCEPT !.cursor = cursor])
         /\ Sound([s EXCEPT !.page = page, !.cursor = cursor])
         /\ Sound([s EXCEPT !.cursor = cursor, !.page = page])
<1>1. ASSUME NEW t, DOMAIN t = EditorFields, t.kind = s.kind, t.segments = s.segments, t.caret = s.caret, t.mark = s.mark,
             t.pending = s.pending, t.decision = s.decision, t.menu = s.menu, t.page \in Int, t.cursor \in Int,
             t.expanded = s.expanded, t.shown = s.shown, t.stale = s.stale
      PROVE  Sound(t)
  <2>1. SameText(t, s)
    BY <1>1 DEF SameText
  <2>2. t.kind \in States /\ t.shown \in Nat
    BY <1>1 DEF Sound
  <2>3. t.expanded \in BOOLEAN /\ t.stale \in BOOLEAN
    BY <1>1, Zenon DEF Sound
  <2>4. MenuOpen(t) => ~Choosing(t)
    BY <1>1 DEF Sound, MenuOpen, Choosing
  <2> QED BY <1>1, <2>1, <2>2, <2>3, <2>4, SoundAsBefore
<1>2. s.page \in Int /\ s.cursor \in Int
  BY DEF Sound
<1>3. DOMAIN s = EditorFields
  BY DEF Sound
<1>4. Sound([s EXCEPT !.cursor = cursor])
  <2> DEFINE t == [s EXCEPT !.cursor = cursor]
  <2> SUFFICES Sound(t) OBVIOUS
  <2>1. /\ DOMAIN t = EditorFields /\ t.kind = s.kind /\ t.segments = s.segments /\ t.caret = s.caret /\ t.mark = s.mark
        /\ t.pending = s.pending /\ t.decision = s.decision /\ t.menu = s.menu /\ t.page = s.page /\ t.cursor = cursor
        /\ t.expanded = s.expanded /\ t.shown = s.shown /\ t.stale = s.stale
    BY <1>3 DEF EditorFields
  <2> HIDE DEF t
  <2>2. t.page \in Int /\ t.cursor \in Int
    BY <1>2, <2>1
  <2> QED BY <1>1, <2>1, <2>2
<1>5. Sound([s EXCEPT !.page = page, !.cursor = cursor])
  <2> DEFINE t == [s EXCEPT !.page = page, !.cursor = cursor]
  <2> SUFFICES Sound(t) OBVIOUS
  <2>1. /\ DOMAIN t = EditorFields /\ t.kind = s.kind /\ t.segments = s.segments /\ t.caret = s.caret /\ t.mark = s.mark
        /\ t.pending = s.pending /\ t.decision = s.decision /\ t.menu = s.menu /\ t.page = page /\ t.cursor = cursor
        /\ t.expanded = s.expanded /\ t.shown = s.shown /\ t.stale = s.stale
    BY <1>3 DEF EditorFields
  <2> HIDE DEF t
  <2> QED BY <1>1, <2>1
<1>6. [s EXCEPT !.cursor = cursor, !.page = page] = [s EXCEPT !.page = page, !.cursor = cursor]
  BY <1>3 DEF EditorFields
<1> QED BY <1>4, <1>5, <1>6

LEMMA ClampSound ==
  ASSUME NEW s, Sound(s), NEW count \in Nat
  PROVE  Sound(ClampView(s, count))
<1> DEFINE c == Clamped(s.cursor, 0, count - 1)
           size == PageLength(s, count)
<1>1. c \in Int
  BY DEF Sound, Clamped
<1>2. size \in Nat \ {0}
  BY LengthForm DEF Sound
<1> HIDE DEF size
<1>3. c \div size \in Int
  BY <1>1, <1>2
<1>4. ClampView(s, count) = [s EXCEPT !.cursor = c, !.page = c \div size]
  BY DEF ClampView, size
<1> HIDE DEF c
<1>5. Sound([s EXCEPT !.cursor = c, !.page = c \div size])
  BY <1>1, <1>3, ViewSound, Zenon
<1> QED BY <1>4, <1>5

LEMMA OffsetForm ==
  ASSUME config \in Settings, NEW s, NEW count \in Nat
  PROVE  /\ s.page \in Int => Offset(s, count) \in Int
         /\ s.page \in Nat => Offset(s, count) \in Nat
<1>1. PageLength(s, count) \in Nat
  BY LengthForm
<1>2. \A a, b \in Int : a * b \in Int
  OBVIOUS
<1>3. \A a, b \in Nat : a * b \in Nat
  OBVIOUS
<1> QED BY <1>1, <1>2, <1>3 DEF Offset

LEMMA MovedCursorSound ==
  ASSUME NEW s, Sound(s), NEW delta \in Int, NEW count \in Nat
  PROVE  Sound(MovedCursor(s, delta, count))
<1> DEFINE first == Offset(s, count)
           last == Lower(first + PageLength(s, count), count) - 1
           next == s.cursor + delta
           c == IF next < first THEN last ELSE IF next > last THEN first ELSE next
<1>0. config \in Settings /\ s.page \in Int /\ s.cursor \in Int
  BY DEF Sound
<1>1. first \in Int /\ PageLength(s, count) \in Int
  BY <1>0, OffsetForm, LengthForm
<1>2. MovedCursor(s, delta, count) = s \/ MovedCursor(s, delta, count) = [s EXCEPT !.cursor = c]
  BY DEF MovedCursor
<1> HIDE DEF first
<1>3. last \in Int /\ next \in Int
  BY <1>0, <1>1 DEF Lower
<1> HIDE DEF last, next
<1>4. c \in Int
  BY <1>1, <1>3
<1> HIDE DEF c
<1>5. Sound([s EXCEPT !.cursor = c])
  BY <1>0, <1>4, ViewSound, Zenon
<1> QED BY <1>2, <1>5

LEMMA PagedSound ==
  ASSUME NEW s, Sound(s), NEW delta \in Int, NEW keepRow, NEW count \in Nat
  PROVE  Sound(Paged(s, delta, keepRow, count))
<1> DEFINE size == PageLength(s, count)
           top == (count + size - 1) \div size - 1
           page == Clamped(s.page + delta, 0, top)
           c == IF keepRow THEN Lower(page * size + (s.cursor % size), count - 1) ELSE s.cursor
<1>0. s.page \in Int /\ s.cursor \in Int
  BY DEF Sound
<1>1. size \in Nat \ {0}
  BY LengthForm DEF Sound
<1>2. Paged(s, delta, keepRow, count) = s \/ Paged(s, delta, keepRow, count) = [s EXCEPT !.page = page, !.cursor = c]
  BY DEF Paged
<1> HIDE DEF size
<1>3. top \in Int
  BY <1>1
<1> HIDE DEF top
<1>4. page \in Int
  BY <1>0, <1>3 DEF Clamped
<1> HIDE DEF page
<1>5. page * size \in Int /\ s.cursor % size \in Int
  BY <1>0, <1>1, <1>4
<1>6. c \in Int
  BY <1>0, <1>5 DEF Lower
<1> HIDE DEF c
<1>7. Sound([s EXCEPT !.page = page, !.cursor = c])
  BY <1>4, <1>6, ViewSound, Zenon
<1> QED BY <1>2, <1>7

LEMMA WithCursorSound ==
  ASSUME NEW s, Sound(s), NEW i \in Int, NEW count \in Nat
  PROVE  Sound(WithCursor(s, i, count))
<1> DEFINE next == Clamped(i, 0, count - 1)
<1>1. next \in Int /\ s.page \in Int
  BY DEF Clamped, Sound
<1>2. WithCursor(s, i, count) = s \/ WithCursor(s, i, count) = ClampView([s EXCEPT !.cursor = next], count)
  BY DEF WithCursor
<1> HIDE DEF next
<1>3. Sound([s EXCEPT !.cursor = next])
  BY <1>1, ViewSound, Zenon
<1> QED BY <1>2, <1>3, ClampSound

LEMMA WalkedSound ==
  ASSUME NEW s, Sound(s), NEW count \in Nat
  PROVE  /\ \A key \in WalkKeys : Sound(Walked(s, key, count))
         /\ \A delta \in {-1, 1} : Sound(PageTurned(s, delta, count))
<1>1. ASSUME NEW key \in WalkKeys PROVE Sound(Walked(s, key, count))
  <2>1. CASE key \in {"Up", "Down"}
    <3>1. Sound(MovedCursor(s, -1, count)) /\ Sound(MovedCursor(s, 1, count))
      BY MovedCursorSound
    <3> QED BY <2>1, <3>1 DEF Walked
  <2>2. CASE key \in {"Left", "Right"}
    <3>1. Sound(Paged(s, -1, TRUE, count)) /\ Sound(Paged(s, 1, TRUE, count))
      <4>1. -1 \in Int /\ 1 \in Int
        OBVIOUS
      <4> QED BY <4>1, PagedSound, Zenon
    <3> QED BY <2>2, <3>1 DEF Walked
  <2>3. CASE key \in {"Home", "End"}
    <3>1. Sound(WithCursor(s, 0, count)) /\ Sound(WithCursor(s, count - 1, count))
      BY WithCursorSound
    <3> QED BY <2>3, <3>1 DEF Walked
  <2> QED BY <2>1, <2>2, <2>3 DEF WalkKeys
<1>2. ASSUME NEW delta \in {-1, 1} PROVE Sound(PageTurned(s, delta, count))
  <2> DEFINE t == Paged(s, delta, FALSE, count)
  <2>1. Sound(t)
    <3>1. delta \in Int
      OBVIOUS
    <3> QED BY <3>1, PagedSound, Zenon
  <2>2. PageTurned(s, delta, count) \in {s, WithCursor(t, Offset(t, count), count)}
    BY DEF PageTurned
  <2> HIDE DEF t
  <2>3. Offset(t, count) \in Int
    BY <2>1, OffsetForm DEF Sound
  <2> QED BY <2>1, <2>2, <2>3, WithCursorSound
<1> QED BY <1>1, <1>2

-----------------------------------------------------------------------------
(* The symbol menu *)

LEMMA WithoutMenuSound ==
  ASSUME NEW s, Sound(s)
  PROVE  Sound(WithoutMenu(s)) /\ ~MenuOpen(WithoutMenu(s))
<1> DEFINE t == [s EXCEPT !.menu = "closed", !.shown = 0]
<1>1. /\ DOMAIN t = EditorFields /\ t.kind = s.kind /\ t.segments = s.segments /\ t.caret = s.caret /\ t.mark = s.mark
      /\ t.pending = s.pending /\ t.decision = s.decision /\ t.menu = "closed"
      /\ t.page = s.page /\ t.cursor = s.cursor /\ t.expanded = s.expanded /\ t.shown = 0 /\ t.stale = s.stale
  BY DEF Sound, EditorFields
<1>2. WithoutMenu(s) = ResetView(t)
  BY DEF WithoutMenu
<1> HIDE DEF t
<1>3. t.segments \in Seq(Segments) /\ t.caret \in 0..Len(t.segments) /\ t.mark \in {NoMark} \cup 0..Len(t.segments)
  BY <1>1 DEF Sound
<1>4. t.pending \in Nat /\ t.decision \in Decisions \cup {NoDecision} /\ HasItsToken(t)
  BY <1>1, SameToken
<1>5. t.kind \in States /\ t.page \in Int /\ t.cursor \in Int /\ t.shown \in Nat /\ t.menu \in {"closed", "top", "category"}
  BY <1>1 DEF Sound
<1>6. t.expanded \in BOOLEAN /\ t.stale \in BOOLEAN
  BY <1>1, Zenon DEF Sound
<1>7. ~MenuOpen(t)
  BY <1>1 DEF MenuOpen
<1>8. Sound(t)
  BY <1>1, <1>3, <1>4, <1>5, <1>6, <1>7 DEF Sound
<1> QED BY <1>2, <1>7, <1>8, ResetViewSound DEF MenuOpen, SameText

\* A level of the menu, of a state with no open list.
LEMMA LevelSound ==
  ASSUME NEW s, Sound(s), ~Choosing(s), NEW level \in {"top", "category"}, NEW shown \in Nat,
         NEW t, t = [s EXCEPT !.menu = level] \/ t = [s EXCEPT !.menu = level, !.shown = shown]
  PROVE  Sound(t)
<1>1. /\ DOMAIN t = EditorFields /\ t.kind = s.kind /\ t.segments = s.segments /\ t.caret = s.caret /\ t.mark = s.mark
      /\ t.pending = s.pending /\ t.decision = s.decision /\ t.menu = level
      /\ t.page = s.page /\ t.cursor = s.cursor /\ t.expanded = s.expanded /\ t.shown \in {s.shown, shown}
      /\ t.stale = s.stale
  <2>0. DOMAIN s = EditorFields
    BY DEF Sound
  <2>1. CASE t = [s EXCEPT !.menu = level]
    BY <2>0, <2>1 DEF EditorFields
  <2>2. CASE t = [s EXCEPT !.menu = level, !.shown = shown]
    BY <2>0, <2>2 DEF EditorFields
  <2> QED BY <2>1, <2>2
<1>3. t.segments \in Seq(Segments) /\ t.caret \in 0..Len(t.segments) /\ t.mark \in {NoMark} \cup 0..Len(t.segments)
  BY <1>1 DEF Sound
<1>4. t.pending \in Nat /\ t.decision \in Decisions \cup {NoDecision} /\ HasItsToken(t)
  BY <1>1, SameToken
<1>5. t.kind \in States /\ t.page \in Int /\ t.cursor \in Int /\ t.shown \in Nat /\ t.menu \in {"closed", "top", "category"}
  BY <1>1 DEF Sound
<1>6. t.expanded \in BOOLEAN /\ t.stale \in BOOLEAN
  BY <1>1, Zenon DEF Sound
<1>7. ~Choosing(t)
  BY <1>1 DEF Choosing
<1> QED
  BY <1>1, <1>3, <1>4, <1>5, <1>6, <1>7 DEF Sound

LEMMA SymbolSelectedGood ==
  ASSUME NEW s, Good(s), NEW row, NEW t \in SymbolSelected(s, row)
  PROVE  Good(t)
<1>0. Sound(s)
  BY DEF Good
<1>1. CASE t = s
  BY <1>1
<1>2. CASE t = Redrawn(Become(Inserted(WithoutMenu(s), <<Literal>>), "inputting"))
  <2>1. Sound(WithoutMenu(s))
    BY <1>0, WithoutMenuSound
  <2> QED BY <1>2, <2>1, TypedGood DEF Typed
<1>3. CASE s.menu = "top" /\ t = Redrawn(ResetView([s EXCEPT !.menu = "category"]))
  <2>1. ~Choosing(s)
    BY <1>0, <1>3 DEF Sound, MenuOpen
  <2>2. Sound([s EXCEPT !.menu = "category"])
    BY <1>0, <2>1, LevelSound
  <2> QED BY <1>3, <2>2, ResetViewSound, RedrawnGood
<1> QED BY <1>1, <1>2, <1>3 DEF SymbolSelected

LEMMA OpenedMenuGood ==
  ASSUME NEW s, Sound(s)
  PROVE  Good(OpenedMenu(s))
<1>1. CASE Choosing(s)
  <2> DEFINE b == Become(s, "inputting")
             u == Become([s EXCEPT !.menu = "top"], "inputting")
  <2>1. Sound(b) /\ ~Choosing(b)
    BY BecomeSound DEF States, Choosing
  <2>2. b = [ResetView(s) EXCEPT !.kind = "inputting", !.shown = 0]
    BY DEF Become
  <2>3. u = [ResetView([s EXCEPT !.menu = "top"]) EXCEPT !.kind = "inputting", !.shown = 0]
    BY DEF Become
  <2>4. u = [b EXCEPT !.menu = "top"]
    BY <2>2, <2>3 DEF ResetView, Sound, EditorFields
  <2>5. OpenedMenu(s) = Redrawn(u)
    BY <1>1 DEF OpenedMenu
  <2> HIDE DEF b, u
  <2>6. Sound(u)
    BY <2>1, <2>4, LevelSound
  <2> QED BY <2>5, <2>6, RedrawnGood
<1>2. CASE ~Choosing(s)
  <2> DEFINE u == [s EXCEPT !.menu = "top", !.shown = 0]
  <2>1. u = [[s EXCEPT !.menu = "top"] EXCEPT !.shown = 0]
    BY DEF Sound, EditorFields
  <2>2. Choosing([s EXCEPT !.menu = "top"]) = Choosing(s)
    BY DEF Choosing, Sound, EditorFields
  <2>3. OpenedMenu(s) = Redrawn(ResetView(u))
    BY <1>2, <2>1 DEF OpenedMenu
  <2>4. Sound(u)
    BY <1>2, LevelSound
  <2> HIDE DEF u
  <2> QED BY <2>3, <2>4, ResetViewSound, RedrawnGood
<1> QED BY <1>1, <1>2

LEMMA ExpandedSound ==
  ASSUME NEW s, Sound(s)
  PROVE  Sound([s EXCEPT !.expanded = ~@])
<1> DEFINE t == [s EXCEPT !.expanded = ~@]
<1>1. /\ DOMAIN t = EditorFields /\ t.kind = s.kind /\ t.segments = s.segments /\ t.caret = s.caret /\ t.mark = s.mark
      /\ t.pending = s.pending /\ t.decision = s.decision /\ t.menu = s.menu /\ t.page = s.page /\ t.cursor = s.cursor
      /\ t.shown = s.shown /\ t.stale = s.stale
  BY DEF Sound, EditorFields
<1>2. t.expanded = ~s.expanded
  BY Zenon DEF Sound, EditorFields
<1> HIDE DEF t
<1>3. SameText(t, s)
  BY <1>1 DEF SameText
<1>4. t.kind \in States /\ t.shown \in Nat /\ t.page \in Int /\ t.cursor \in Int
  BY <1>1 DEF Sound
<1>5. t.expanded \in BOOLEAN /\ t.stale \in BOOLEAN
  BY <1>1, <1>2, Zenon DEF Sound
<1>6. MenuOpen(t) => ~Choosing(t)
  BY <1>1 DEF Sound, MenuOpen, Choosing
<1>7. Sound(t)
  BY <1>1, <1>3, <1>4, <1>5, <1>6, SoundAsBefore
<1> QED BY <1>7 DEF t

-----------------------------------------------------------------------------
(* The composition *)

LEMMA UnmarkedSound ==
  ASSUME NEW s, Sound(s), s.mark # NoMark
  PROVE  Sound(Unmarked(s))
<1> DEFINE t == Unmarked(s)
<1>1. /\ DOMAIN t = EditorFields /\ t.kind = s.kind /\ t.segments = s.segments /\ t.caret = s.mark /\ t.mark = NoMark
      /\ t.pending = s.pending /\ t.decision = s.decision /\ t.menu = s.menu
      /\ t.page = s.page /\ t.cursor = s.cursor /\ t.expanded = s.expanded /\ t.shown = s.shown /\ t.stale = s.stale
  BY DEF Sound, EditorFields, Unmarked
<1> HIDE DEF t
<1>2. s.mark \in 0..Len(s.segments)
  BY DEF Sound
<1>3. t.caret \in 0..Len(s.segments) /\ t.mark \in {NoMark} \cup 0..Len(s.segments)
  BY <1>1, <1>2
<1>4. Sound(t)
  BY <1>1, <1>3, MovedSound DEF SameView
<1> QED BY <1>4 DEF t

\* A mark given up by an arrow that moves nothing.
LEMMA MarkDroppedGood ==
  ASSUME NEW s, Sound(s)
  PROVE  /\ Sound([s EXCEPT !.mark = NoMark])
         /\ Good(s) => Good([s EXCEPT !.mark = NoMark])
<1> DEFINE t == [s EXCEPT !.mark = NoMark]
<1>1. /\ DOMAIN t = EditorFields /\ t.kind = s.kind /\ t.segments = s.segments /\ t.caret = s.caret /\ t.mark = NoMark
      /\ t.pending = s.pending /\ t.decision = s.decision /\ t.menu = s.menu
      /\ t.page = s.page /\ t.cursor = s.cursor /\ t.expanded = s.expanded /\ t.shown = s.shown /\ t.stale = s.stale
  BY DEF Sound, EditorFields
<1> HIDE DEF t
<1>2. Sound(t)
  <2>1. t.caret \in 0..Len(s.segments) /\ t.mark \in {NoMark} \cup 0..Len(s.segments)
    BY <1>1 DEF Sound
  <2> QED BY <1>1, <2>1, MovedSound DEF SameView
<1>3. Rows(t) = Rows(s)
  <2>1. Target(t) = Target(s)
    BY <1>1 DEF Target, IsComplete
  <2>2. Available(t) = Available(s)
    BY <1>1, <2>1 DEF Available
  <2> QED BY <1>1, <2>2 DEF Rows, MenuOpen, Choosing, Deciding, MixedEntries, Expanded
<1>4. ASSUME Good(s) PROVE Good(t)
  <2>1. OnPage(t)
    BY <1>1, <1>4 DEF Good, OnPage, Offset, PageLength
  <2>2. Shows(t)
    BY <1>1, <1>3, <1>4 DEF Good, Shows, Choosing, MenuOpen
  <2>3. Matches(t)
    BY <1>1, <1>4 DEF Good, Matches, CompositionEmpty
  <2> QED BY <1>1, <1>2, <1>4, <2>1, <2>2, <2>3 DEF Good
<1> QED BY <1>2, <1>4 DEF t

LEMMA BackspacedSound ==
  ASSUME NEW s, Sound(s)
  PROVE  Sound(Backspaced(s))
<1>1. CASE s.caret = 0
  BY <1>1, MarkDroppedGood DEF Backspaced
<1>2. CASE s.caret # 0 /\ IsPartial(s, s.caret) /\ s.segments[s.caret].size > 1
  <2> DEFINE g == Partial(s.segments[s.caret].size - 1)
             t == Backspaced(s)
  <2>0. s.caret \in 1..Len(s.segments) /\ s.segments[s.caret] \in Segments /\ DOMAIN s.segments = 1..Len(s.segments)
    BY <1>2 DEF Sound, IsPartial
  <2>1. s.segments[s.caret].size \in 1..MaxSymbols
    BY <1>2, <2>0, SegmentKinds DEF IsPartial
  <2>2. s.segments[s.caret].size - 1 \in 1..MaxSymbols
    BY <1>2, <2>1, EditingAssumption
  <2>3. g \in Segments
    BY <2>2, SegmentForm
  <2>4. Backspaced(s) = [s EXCEPT !.segments[s.caret] = Partial(@.size - 1), !.mark = NoMark]
    BY <1>2 DEF Backspaced
  <2>5. /\ DOMAIN t = EditorFields /\ t.kind = s.kind /\ t.segments = [s.segments EXCEPT ![s.caret] = g]
        /\ t.caret = s.caret /\ t.mark = NoMark
        /\ t.pending = s.pending /\ t.decision = s.decision /\ t.menu = s.menu
        /\ t.page = s.page /\ t.cursor = s.cursor /\ t.expanded = s.expanded /\ t.shown = s.shown /\ t.stale = s.stale
    BY <2>0, <2>4 DEF Sound, EditorFields
  <2> HIDE DEF t, g
  <2>6. t.caret \in 0..Len(s.segments)
    BY <2>0, <2>5
  <2>7. Sound(t)
    BY <2>0, <2>3, <2>5, <2>6, ReplacedSound DEF SameView
  <2> QED BY <2>7 DEF t
<1>3. CASE s.caret # 0 /\ ~(IsPartial(s, s.caret) /\ s.segments[s.caret].size > 1)
  <2>1. s.caret \in 1..Len(s.segments)
    BY <1>3 DEF Sound
  <2>2. Backspaced(s) = RemoveSegment(s, s.caret)
    BY <1>3 DEF Backspaced
  <2> QED BY <2>1, <2>2, RemovedSound
<1> QED BY <1>1, <1>2, <1>3

\* A reading is replaced, and the mark perhaps given up.
LEMMA ReadingSound ==
  ASSUME NEW s, Sound(s), NEW i \in 1..Len(s.segments), NEW g \in Segments
  PROVE  /\ Sound([s EXCEPT !.segments[i] = g]) /\ Sound([s EXCEPT !.segments[i] = g, !.mark = NoMark])
         /\ [s EXCEPT !.segments[i] = g].kind = s.kind
<1>0. s.caret \in 0..Len(s.segments) /\ DOMAIN s.segments = 1..Len(s.segments)
  BY DEF Sound
<1>1. Sound([s EXCEPT !.segments[i] = g]) /\ [s EXCEPT !.segments[i] = g].kind = s.kind
  <2> DEFINE t == [s EXCEPT !.segments[i] = g]
  <2>1. /\ DOMAIN t = EditorFields /\ t.kind = s.kind /\ t.segments = [s.segments EXCEPT ![i] = g]
        /\ t.caret = s.caret /\ t.mark = s.mark
        /\ t.pending = s.pending /\ t.decision = s.decision /\ t.menu = s.menu
        /\ t.page = s.page /\ t.cursor = s.cursor /\ t.expanded = s.expanded /\ t.shown = s.shown /\ t.stale = s.stale
    BY <1>0 DEF Sound, EditorFields
  <2> HIDE DEF t
  <2>2. Sound(t)
    BY <1>0, <2>1, ReplacedSound DEF SameView
  <2> QED BY <2>1, <2>2 DEF t
<1>2. Sound([s EXCEPT !.segments[i] = g, !.mark = NoMark])
  <2> DEFINE t == [s EXCEPT !.segments[i] = g, !.mark = NoMark]
  <2>1. /\ DOMAIN t = EditorFields /\ t.kind = s.kind /\ t.segments = [s.segments EXCEPT ![i] = g]
        /\ t.caret = s.caret /\ t.mark = NoMark
        /\ t.pending = s.pending /\ t.decision = s.decision /\ t.menu = s.menu
        /\ t.page = s.page /\ t.cursor = s.cursor /\ t.expanded = s.expanded /\ t.shown = s.shown /\ t.stale = s.stale
    BY <1>0 DEF Sound, EditorFields
  <2> HIDE DEF t
  <2>2. Sound(t)
    BY <1>0, <2>1, ReplacedSound DEF SameView
  <2> QED BY <2>2 DEF t
<1> QED BY <1>1, <1>2

LEMMA ManualForm ==
  ASSUME NEW s, Sound(s)
  PROVE  ManualAtCaret(s) = NoIndex \/ IsComplete(s, ManualAtCaret(s))
<1> DEFINE manual == {i \in {s.caret, s.caret + 1} : IsComplete(s, i) /\ s.segments[i].manual}
<1>0. s.caret \in Nat
  BY DEF Sound
<1>1. \A i \in manual : IsComplete(s, i) /\ i \in {s.caret, s.caret + 1} /\ i # 0
  BY DEF IsComplete
<1>2. ManualAtCaret(s) = CHOOSE i \in manual \cup {NoIndex} : \A j \in manual : i # NoIndex /\ i <= j
  BY DEF ManualAtCaret
<1> HIDE DEF manual
<1>3. \E i \in manual \cup {NoIndex} : \A j \in manual : i # NoIndex /\ i <= j
  <2>1. CASE s.caret \in manual
    BY <1>0, <1>1, <2>1 DEF NoIndex
  <2>2. CASE s.caret \notin manual
    BY <1>0, <1>1, <2>2 DEF NoIndex
  <2> QED BY <2>1, <2>2
<1> QED BY <1>1, <1>2, <1>3

LEMMA UnfinishedForm ==
  ASSUME NEW s, Sound(s), Unfinished(s)
  PROVE  UnfinishedAtCaret(s) \in 1..Len(s.segments)
<1> DEFINE partial == {i \in 1..Len(s.segments) : IsPartial(s, i)}
<1>1. partial \in SUBSET (1..Len(s.segments)) /\ partial # {} /\ Len(s.segments) \in Nat
  BY DEF Unfinished, Sound
<1>2. UnfinishedAtCaret(s) = IF s.caret \in partial THEN s.caret
                             ELSE IF s.caret + 1 \in partial THEN s.caret + 1
                             ELSE CHOOSE i \in partial : \A j \in partial : i <= j
  BY DEF UnfinishedAtCaret
<1> HIDE DEF partial
<1>3. \E i \in partial : \A j \in partial : i <= j
  BY <1>1, LeastPosition
<1>4. UnfinishedAtCaret(s) \in partial
  BY <1>2, <1>3
<1> QED BY <1>1, <1>4

LEMMA OfferGood ==
  ASSUME NEW s, Good(s), ~MenuOpen(s)
  PROVE  Good(Offer(s))
<1>1. Sound(s)
  BY DEF Good
<1>2. Sound(Become(s, "choosing"))
  BY <1>1, BecomeSound DEF States
<1> QED BY <1>2, RedrawnGood DEF Offer

-----------------------------------------------------------------------------
(* The keys *)

LEMMA MenuKeys ==
  ASSUME Good(session),
         \/ \E key \in WalkKeys : MenuWalk(key)
         \/ \E delta \in {-1, 1} : MenuPage(delta)
         \/ \E row \in ListRows : MenuPick(row) \/ ClickSymbol(row)
         \/ MenuExpand \/ MenuBack \/ MenuClose \/ GraveKey
  PROVE  Good(session')
<1>0. Sound(session)
  BY DEF Good
<1>1. Rows(session) \in Nat
  BY <1>0, RowsForm
<1>2. ASSUME NEW key \in WalkKeys, MenuWalk(key) PROVE Good(session')
  <2>1. Sound(Walked(session, key, Rows(session)))
    BY <1>0, <1>1, WalkedSound
  <2> QED BY <1>2, <2>1, RedrawnGood DEF MenuWalk, Press, Drawn
<1>3. ASSUME NEW delta \in {-1, 1}, MenuPage(delta) PROVE Good(session')
  <2>1. Sound(PageTurned(session, delta, Rows(session)))
    BY <1>0, <1>1, WalkedSound
  <2> QED BY <1>3, <2>1, RedrawnGood DEF MenuPage, Press, Drawn
<1>4. ASSUME NEW row \in ListRows, MenuPick(row) \/ ClickSymbol(row) PROVE Good(session')
  BY <1>4, SymbolSelectedGood DEF MenuPick, ClickSymbol, Press
<1>5. CASE MenuExpand
  <2>1. session' = Redrawn([session EXCEPT !.expanded = ~@])
    BY <1>5 DEF MenuExpand, Press
  <2> QED BY <1>0, <2>1, ExpandedSound, RedrawnGood
<1>6. CASE MenuBack
  <2>1. session' = Redrawn(ResetView([session EXCEPT !.menu = "top"])) /\ session.menu = "category"
    BY <1>6 DEF MenuBack, Press
  <2>2. Sound([session EXCEPT !.menu = "top"])
    BY <1>0, <2>1, LevelSound DEF Sound, MenuOpen
  <2> QED BY <2>1, <2>2, ResetViewSound, RedrawnGood
<1>7. CASE MenuClose
  <2>1. session' = Redrawn(Settled(WithoutMenu(session)))
    BY <1>7 DEF MenuClose, Press, ClosedMenu
  <2> QED BY <1>0, <2>1, WithoutMenuSound, SettledSound, RedrawnGood
<1>8. CASE GraveKey
  <2>1. ~MenuOpen(session) /\ (session' = OpenedMenu(SettledPreview(session)) \/ session' = OpenedMenu(session))
    BY <1>8 DEF GraveKey, Press, NoMenu
  <2>2. Sound(SettledPreview(session))
    BY <1>0, <2>1, PreviewSettles DEF Good
  <2> QED BY <1>0, <2>1, <2>2, OpenedMenuGood
<1> QED BY <1>2, <1>3, <1>4, <1>5, <1>6, <1>7, <1>8

LEMMA ListKeys ==
  ASSUME Good(session),
         \/ \E key \in WalkKeys : ListWalk(key)
         \/ \E row \in ListRows : ListPick(row) \/ ClickCandidate(row)
         \/ ListReturn \/ SpaceKey \/ DownKey \/ TabKey
         \/ \E delta \in {-1, 1} : PageKey(delta)
  PROVE  Good(session')
<1>0. Sound(session) /\ session.cursor \in Nat /\ session.page \in Nat
  BY DEF Good
<1>1. Rows(session) \in Nat
  BY <1>0, RowsForm
<1>2. ASSUME NEW key \in WalkKeys, ListWalk(key) PROVE Good(session')
  <2>1. Sound(Walked(session, key, Rows(session)))
    BY <1>0, <1>1, WalkedSound
  <2> QED BY <1>2, <2>1, RedrawnGood DEF ListWalk, Press, Drawn
<1>3. ASSUME NEW row \in ListRows, ListPick(row) \/ ClickCandidate(row) PROVE Good(session')
  <2>1. row \in Nat
    BY EditingAssumption DEF ListRows
  <2>2. Offset(session, Rows(session)) + row \in Nat
    BY <1>0, <1>1, <2>1, OffsetForm DEF Sound
  <2> QED BY <1>0, <1>3, <2>1, <2>2, SelectedGood DEF ListPick, ClickCandidate, Press
<1>4. CASE ListReturn
  <2>1. session' \in {Selected(session, session.cursor), Redrawn(Cleared(session)), session}
    BY <1>4 DEF ListReturn, Press
  <2> QED BY <1>0, <2>1, SelectedGood, ClearedSound, RedrawnGood
<1>5. CASE SpaceKey
  BY <1>5, OfferGood DEF SpaceKey, Press, NoMenu
<1>6. CASE DownKey
  <2>1. ~MenuOpen(session) /\ session' = Offer(WithoutPending(session))
    BY <1>6 DEF DownKey, Press, NoMenu
  <2> QED BY <1>0, <2>1, TokenSettles, OfferGood
<1> DEFINE s == WithoutPending(session)
<1>7. ~MenuOpen(session) => Good(s) /\ Sound(s) /\ ~MenuOpen(s)
  BY <1>0, TokenSettles
<1>8. CASE TabKey
  <2>1. /\ ~MenuOpen(session)
        /\ session' \in {s, Redrawn([s EXCEPT !.expanded = ~@]), Redrawn(Become(s, "choosing"))}
    BY <1>8 DEF TabKey, Press, NoMenu
  <2> HIDE DEF s
  <2>2. Sound([s EXCEPT !.expanded = ~@])
    BY <1>7, <2>1, ExpandedSound
  <2>3. Sound(Become(s, "choosing"))
    BY <1>7, <2>1, BecomeSound DEF States
  <2> QED BY <1>7, <2>1, <2>2, <2>3, RedrawnGood
<1>9. ASSUME NEW delta \in {-1, 1}, PageKey(delta) PROVE Good(session')
  <2>1. ~MenuOpen(session) /\ session' \in {s, Redrawn(PageTurned(s, delta, Rows(s)))}
    BY <1>9 DEF PageKey, Press, NoMenu
  <2> HIDE DEF s
  <2>2. Sound(PageTurned(s, delta, Rows(s)))
    BY <1>7, <2>1, RowsForm, WalkedSound
  <2> QED BY <1>7, <2>1, <2>2, RedrawnGood
<1> QED BY <1>2, <1>3, <1>4, <1>5, <1>6, <1>8, <1>9

LEMMA TextKeys ==
  ASSUME Good(session),
         \/ CapsLockKey \/ ShiftSpaceKey \/ Reset \/ ActivateEditor \/ PendingReturn
         \/ KeypadKey \/ EnglishLetterKey \/ PendingPunctuation
         \/ LiteralKey \/ PunctuationKey \/ HsuDigitKey
  PROVE  Good(session')
<1>0. Sound(session)
  BY DEF Good
<1>1. CASE CapsLockKey \/ ShiftSpaceKey \/ Reset \/ PendingReturn
  <2>1. session' = Redrawn(Cleared(session))
    BY <1>1 DEF CapsLockKey, ShiftSpaceKey, Reset, PendingReturn, Press
  <2> QED BY <1>0, <2>1, ClearedSound, RedrawnGood
<1>2. CASE ActivateEditor
  BY <1>0, <1>2, RedrawnGood DEF ActivateEditor, Press
<1>3. CASE LiteralKey \/ PunctuationKey \/ HsuDigitKey
  BY <1>0, <1>3, TypedGood DEF LiteralKey, PunctuationKey, HsuDigitKey, Press
<1>4. CASE KeypadKey \/ EnglishLetterKey \/ PendingPunctuation
  <2>1. /\ ~MenuOpen(session)
        /\ session' \in {Typed(SettledPreview(session)), Typed(session), Redrawn(Cleared(session))}
    BY <1>4 DEF KeypadKey, EnglishLetterKey, PendingPunctuation, Press, NoMenu
  <2>2. Sound(SettledPreview(session))
    BY <1>0, <2>1, PreviewSettles DEF Good
  <2> QED BY <1>0, <2>1, <2>2, TypedGood, ClearedSound, RedrawnGood
<1> QED BY <1>1, <1>2, <1>3, <1>4

LEMMA TokenKeys ==
  ASSUME Good(session),
         PendingEscape \/ PendingBackSpace \/ PendingDown \/ PendingSpace \/ PendingKey \/ StartPending
  PROVE  Good(session')
<1>0. Sound(session) /\ session.pending \in Nat
  BY DEF Good, Sound
<1>1. CASE PendingEscape
  <2> DEFINE s == IF session.mark = NoMark THEN session ELSE Unmarked(session)
             t == CASE Deciding(s) /\ Choosing(s) -> s
                    [] Deciding(s) /\ ~Choosing(s) /\ s.decision.preview # "raw" ->
                         [s EXCEPT !.decision.preview = "raw", !.decision.boundary = FALSE]
                    [] OTHER -> NoPending(s)
  <2>1. session' = Redrawn(Resumed(t))
    BY <1>1 DEF PendingEscape, Press
  <2>2. Sound(s)
    BY <1>0, UnmarkedSound
  <2> HIDE DEF s
  <2>3. Sound(t)
    <3>1. Deciding(s) => Sound([s EXCEPT !.decision.preview = "raw", !.decision.boundary = FALSE])
      BY <2>2, RawSound DEF Deciding
    <3>2. Sound(NoPending(s))
      BY <2>2, NoPendingSound
    <3> QED BY <2>2, <3>1, <3>2
  <2> HIDE DEF t
  <2> QED BY <2>1, <2>3, SettledSound, RedrawnGood
<1>2. CASE PendingBackSpace
  <2> DEFINE s == IF Deciding(session) /\ Choosing(session) THEN Become(session, "inputting") ELSE session
             u == [s EXCEPT !.pending = @ - 1, !.decision = NoDecision]
             t == Resumed(u)
             v == [s EXCEPT !.decision = NoDecision]
  <2>1. /\ session.pending > 0
        /\ \/ session' = Redrawn(Become(v, "inputting"))
           \/ session' = Redrawn(t)
           \/ t.pending # 0 /\ session' \in Redecided(t, FALSE)
    BY <1>2 DEF PendingBackSpace, Pending, Press
  <2>2. Sound(s) /\ s.pending = session.pending
    BY <1>0, SettledSound DEF SameText
  <2> HIDE DEF s
  <2>3. Sound(v)
    <3>1. v.decision = NoDecision
      BY <2>2 DEF Sound, EditorFields
    <3>2. HasItsToken(v)
      BY <3>1 DEF HasItsToken
    <3> QED BY <2>2, <3>2, DecisionSound
  <2>4. Sound(u) /\ u.pending = session.pending - 1
    <3>1. /\ DOMAIN u = EditorFields /\ u.kind = s.kind /\ u.segments = s.segments /\ u.caret = s.caret /\ u.mark = s.mark
          /\ u.pending = s.pending - 1 /\ u.decision = NoDecision /\ u.menu = s.menu /\ u.page = s.page
          /\ u.cursor = s.cursor /\ u.expanded = s.expanded /\ u.shown = s.shown /\ u.stale = s.stale
      BY <2>2 DEF Sound, EditorFields
    <3> HIDE DEF u
    <3>2. SameView(u, s) /\ HasItsToken(u)
      BY <3>1 DEF SameView, HasItsToken
    <3>3. u.segments \in Seq(Segments) /\ u.caret \in 0..Len(u.segments) /\ u.mark \in {NoMark} \cup 0..Len(u.segments)
      BY <2>2, <3>1 DEF Sound
    <3>4. u.pending \in Nat /\ u.decision \in Decisions \cup {NoDecision}
      BY <1>0, <2>1, <2>2, <3>1
    <3>5. Sound(u)
      BY <2>2, <3>2, <3>3, <3>4, TextSound
    <3> QED BY <2>2, <3>1, <3>5
  <2> HIDE DEF u, v
  <2>5. Sound(t) /\ t.pending = session.pending - 1
    BY <2>4, SettledSound DEF SameText
  <2> HIDE DEF t
  <2>6. CASE session' = Redrawn(Become(v, "inputting"))
    BY <2>3, <2>6, SettledSound, RedrawnGood
  <2>7. CASE session' = Redrawn(t)
    BY <2>5, <2>7, RedrawnGood
  <2>8. CASE t.pending # 0 /\ session' \in Redecided(t, FALSE)
    <3>1. t.pending > 0
      BY <1>0, <2>1, <2>5, <2>8
    <3>2. FALSE \in BOOLEAN
      BY Zenon
    <3> QED BY <2>5, <2>8, <3>1, <3>2, RedecidedGood, Zenon
  <2> QED BY <2>1, <2>6, <2>7, <2>8
<1>3. CASE PendingDown
  <2> DEFINE s == Become(session, "choosing")
             c == IF session.decision.preview = "chinese" THEN 1 ELSE 0
  <2>1. ~MenuOpen(session) /\ session' = Redrawn([s EXCEPT !.cursor = c])
    BY <1>3 DEF PendingDown, Press, NoMenu
  <2>2. Sound(s)
    BY <1>0, <2>1, BecomeSound DEF States
  <2>3. c \in Int
    OBVIOUS
  <2> HIDE DEF s, c
  <2>4. Sound([s EXCEPT !.cursor = c])
    BY <2>2, <2>3, ViewSound, Zenon
  <2> QED BY <2>1, <2>4, RedrawnGood
<1>4. CASE PendingSpace
  <2>1. /\ ~MenuOpen(session) /\ session.pending > 0
        /\ \/ session' = SettledPreview(session)
           \/ session' = Redrawn(Cleared(session))
           \/ session' \in Redecided(session, TRUE)
    BY <1>4 DEF PendingSpace, Press, NoMenu, Pending
  <2>2. session' \in Redecided(session, TRUE) => Good(session')
    <3>1. TRUE \in BOOLEAN
      BY Zenon
    <3> QED BY <1>0, <2>1, <3>1, RedecidedGood, Zenon
  <2> QED BY <1>0, <2>1, <2>2, PreviewSettles, ClearedSound, RedrawnGood
<1>5. ASSUME NEW s, Sound(s), session' \in Redecided(Appended(s), FALSE) PROVE Good(session')
  <2>1. FALSE \in BOOLEAN
    BY Zenon
  <2> QED BY <1>5, <2>1, AppendedSound, RedecidedGood, Zenon
<1>6. CASE PendingKey
  <2> DEFINE s == CASE ~session.decision.boundary -> session
                    [] session.decision.boundary /\ session.decision.preview = "raw" ->
                         Inserted(SettledAsLiterals(session), <<Literal>>)
                    [] OTHER -> SettledPreview(session)
  <2>1. ~MenuOpen(session) /\ session' \in Redecided(Appended(s), FALSE)
    BY <1>6 DEF PendingKey, Press, NoMenu
  <2>2. Sound(SettledPreview(session)) /\ Sound(SettledAsLiterals(session))
    BY <1>0, <2>1, PreviewSettles, AsLiteralsGood DEF Good
  <2>3. <<Literal>> \in Seq(Segments)
    BY SegmentForm
  <2>4. Sound(Inserted(SettledAsLiterals(session), <<Literal>>))
    BY <2>2, <2>3, InsertedSound
  <2>5. Sound(s)
    BY <1>0, <2>2, <2>4
  <2> HIDE DEF s
  <2> QED BY <1>5, <2>1, <2>5
<1>7. CASE StartPending
  <2> DEFINE s == IF ListActive(session) THEN Become(session, "inputting") ELSE session
  <2>1. session' \in Redecided(Appended(s), FALSE)
    BY <1>7 DEF StartPending, Press
  <2>2. Sound(s)
    BY <1>0, SettledSound
  <2> HIDE DEF s
  <2> QED BY <1>5, <2>1, <2>2
<1> QED BY <1>1, <1>2, <1>3, <1>4, <1>6, <1>7

LEMMA BufferKeys ==
  ASSUME Good(session),
         \/ \E delta \in {-1, 1} : MarkArrow(delta) \/ ArrowKey(delta)
         \/ ReturnKey \/ EscapeKey \/ BackSpaceKey \/ DeleteKey \/ SymbolKey \/ ToneKey \/ Answer
  PROVE  Good(session')
<1>0. Sound(session)
  BY DEF Good
<1>1. ASSUME NEW delta \in {-1, 1}, MarkArrow(delta) PROVE Good(session')
  <2> DEFINE m == IF session.mark = NoMark THEN session.caret ELSE session.mark
             t == [session EXCEPT !.caret = @ + delta, !.mark = IF @ = NoMark THEN session.caret ELSE @]
  <2>1. session' = Redrawn(t) /\ session.caret + delta \in 0..Len(session.segments)
    BY <1>1 DEF MarkArrow, Press
  <2>2. m \in {NoMark} \cup 0..Len(session.segments)
    BY <1>0 DEF Sound
  <2>3. /\ DOMAIN t = EditorFields /\ t.kind = session.kind /\ t.segments = session.segments
        /\ t.caret = session.caret + delta /\ t.mark = m
        /\ t.pending = session.pending /\ t.decision = session.decision /\ t.menu = session.menu
        /\ t.page = session.page /\ t.cursor = session.cursor /\ t.expanded = session.expanded
        /\ t.shown = session.shown /\ t.stale = session.stale
    BY <1>0 DEF Sound, EditorFields
  <2> HIDE DEF t, m
  <2>4. SameView(t, session)
    BY <2>3 DEF SameView
  <2>5. t.caret \in 0..Len(session.segments) /\ t.mark \in {NoMark} \cup 0..Len(session.segments)
    BY <2>1, <2>2, <2>3
  <2>6. Sound(t)
    BY <1>0, <2>3, <2>4, <2>5, MovedSound
  <2> QED BY <2>1, <2>6, RedrawnGood
<1>2. ASSUME NEW delta \in {-1, 1}, ArrowKey(delta) PROVE Good(session')
  <2> DEFINE s == WithoutPending(session)
             t == [s EXCEPT !.mark = NoMark]
             u == [t EXCEPT !.caret = @ + delta]
  <2>1. /\ ~MenuOpen(session)
        /\ \/ session' = s \/ session' = t
           \/ s.caret + delta \in 0..Len(s.segments) /\ session' = Redrawn(Become(u, "inputting"))
    BY <1>2 DEF ArrowKey, Press, NoMenu
  <2>2. Good(s) /\ Sound(s)
    BY <1>0, <2>1, TokenSettles
  <2> HIDE DEF s
  <2>3. Good(t) /\ Sound(t)
    BY <2>2, MarkDroppedGood
  <2>4. ASSUME s.caret + delta \in 0..Len(s.segments) PROVE Sound(u)
    <3>1. /\ DOMAIN u = EditorFields /\ u.kind = s.kind /\ u.segments = s.segments
          /\ u.caret = s.caret + delta /\ u.mark = NoMark
          /\ u.pending = s.pending /\ u.decision = s.decision /\ u.menu = s.menu
          /\ u.page = s.page /\ u.cursor = s.cursor /\ u.expanded = s.expanded
          /\ u.shown = s.shown /\ u.stale = s.stale
      BY <2>2 DEF Sound, EditorFields
    <3> HIDE DEF u
    <3>2. SameView(u, s)
      BY <3>1 DEF SameView
    <3>3. u.caret \in 0..Len(s.segments) /\ u.mark \in {NoMark} \cup 0..Len(s.segments)
      BY <2>4, <3>1
    <3> QED BY <2>2, <3>1, <3>2, <3>3, MovedSound
  <2> HIDE DEF t, u
  <2> QED BY <2>1, <2>2, <2>3, <2>4, SettledSound, RedrawnGood
<1>3. CASE ReturnKey
  <2>1. \/ session' = session \/ session' = Redrawn(Cleared(session))
        \/ session.mark # NoMark /\ session' = Redrawn(Unmarked(session))
    BY <1>3 DEF ReturnKey, Press, Marked
  <2> QED BY <1>0, <2>1, UnmarkedSound, ClearedSound, RedrawnGood
<1>4. CASE EscapeKey
  <2> DEFINE c == [session EXCEPT !.segments = <<>>, !.caret = 0]
             i == ManualAtCaret(session)
             g == Complete(session.segments[i].size)
             m == [session EXCEPT !.segments[ManualAtCaret(session)] = Complete(@.size)]
             n == IF i = NoIndex THEN session ELSE m
             r == RemoveSegment(session, UnfinishedAtCaret(session))
  <2>1. \/ session.mark # NoMark /\ session' = Redrawn(Unmarked(session))
        \/ session.mark = NoMark /\ session' = Redrawn(Become(c, "empty"))
        \/ session' = Redrawn(Become(session, "inputting"))
        \/ Unfinished(session) /\ session' = Redrawn(Settled(r))
        \/ session' = Redrawn(Become(n, "inputting"))
    BY <1>4 DEF EscapeKey, Press
  <2>2. session.mark = NoMark => Sound(c)
    <3>1. /\ DOMAIN c = EditorFields /\ c.kind = session.kind /\ c.segments = <<>> /\ c.caret = 0 /\ c.mark = session.mark
          /\ c.pending = session.pending /\ c.decision = session.decision /\ c.menu = session.menu
          /\ c.page = session.page /\ c.cursor = session.cursor /\ c.expanded = session.expanded
          /\ c.shown = session.shown /\ c.stale = session.stale
      BY <1>0 DEF Sound, EditorFields
    <3> HIDE DEF c
    <3>2. SameView(c, session)
      BY <3>1 DEF SameView
    <3>3. c.segments \in Seq(Segments) /\ c.caret \in 0..Len(c.segments)
          /\ (session.mark = NoMark => c.mark \in {NoMark} \cup 0..Len(c.segments))
      BY <3>1
    <3>4. c.pending \in Nat /\ c.decision \in Decisions \cup {NoDecision} /\ HasItsToken(c)
      BY <1>0, <3>1, SameToken
    <3> QED BY <1>0, <3>2, <3>3, <3>4, TextSound
  <2>3. Unfinished(session) => Sound(r)
    BY <1>0, UnfinishedForm, RemovedSound
  <2>4. Sound(n)
    <3>1. CASE i = NoIndex
      BY <1>0, <3>1
    <3>2. CASE i # NoIndex
      <4>1. i \in 1..Len(session.segments) /\ session.segments[i].kind = "complete"
        BY <1>0, <3>2, ManualForm DEF IsComplete
      <4>2. session.segments[i] \in Segments /\ DOMAIN session.segments = 1..Len(session.segments)
        BY <1>0, <4>1 DEF Sound
      <4>3. g \in Segments
        BY <4>1, <4>2, SegmentKinds, SegmentForm
      <4>4. m = [session EXCEPT !.segments[i] = g]
        BY <1>0, <4>1, <4>2 DEF Sound, EditorFields
      <4>5. n = m
        BY <3>2
      <4> HIDE DEF g, m, i, n
      <4> QED BY <1>0, <4>1, <4>3, <4>4, <4>5, ReadingSound
    <3> QED BY <3>1, <3>2
  <2> HIDE DEF c, n, r
  <2>5. CASE session.mark # NoMark /\ session' = Redrawn(Unmarked(session))
    BY <1>0, <2>5, UnmarkedSound, RedrawnGood
  <2>6. CASE session.mark = NoMark /\ session' = Redrawn(Become(c, "empty"))
    BY <2>2, <2>6, BecomeSound, RedrawnGood DEF States
  <2>7. CASE session' = Redrawn(Become(session, "inputting"))
    BY <1>0, <2>7, SettledSound, RedrawnGood
  <2>8. CASE Unfinished(session) /\ session' = Redrawn(Settled(r))
    BY <2>3, <2>8, SettledSound, RedrawnGood
  <2>9. CASE session' = Redrawn(Become(n, "inputting"))
    BY <2>4, <2>9, SettledSound, RedrawnGood
  <2> QED BY <2>1, <2>5, <2>6, <2>7, <2>8, <2>9
<1>5. CASE BackSpaceKey
  BY <1>0, <1>5, BackspacedSound, SettledSound, RedrawnGood DEF BackSpaceKey, Press
<1>6. CASE DeleteKey
  <2> DEFINE s == WithoutPending(session)
             r == RemoveSegment(s, s.caret + 1)
  <2>1. /\ ~MenuOpen(session)
        /\ \/ session' = s \/ session' = Redrawn(Settled(s))
           \/ s.caret < Len(s.segments) /\ session' = Redrawn(Settled(r))
    BY <1>6 DEF DeleteKey, Press, NoMenu
  <2>2. Good(s) /\ Sound(s)
    BY <1>0, <2>1, TokenSettles
  <2> HIDE DEF s
  <2>3. s.caret < Len(s.segments) => Sound(r)
    <3>1. s.caret < Len(s.segments) => s.caret + 1 \in 1..Len(s.segments)
      BY <2>2 DEF Sound
    <3> QED BY <2>2, <3>1, RemovedSound
  <2> HIDE DEF r
  <2> QED BY <2>1, <2>2, <2>3, SettledSound, RedrawnGood
<1>7. CASE SymbolKey
  <2>1. CASE IsPartial(session, session.caret)
    <3> DEFINE i == session.caret
               g == session.segments[i]
    <3>1. i \in 1..Len(session.segments) /\ g \in Segments /\ g.kind = "partial"
      BY <1>0, <2>1 DEF IsPartial, Sound
    <3>2. g.size \in 1..MaxSymbols /\ MaxSymbols \in Nat
      BY <3>1, SegmentKinds, EditingAssumption
    <3>3. PICK n \in {g.size, Lower(g.size + 1, MaxSymbols)} :
            session' = Redrawn(Become([session EXCEPT !.segments[session.caret] = Partial(n), !.mark = NoMark], "inputting"))
      BY <1>7, <2>1 DEF SymbolKey, Press
    <3>4. n \in 1..MaxSymbols
      BY <3>2 DEF Lower
    <3>5. Partial(n) \in Segments
      BY <3>4, SegmentForm
    <3>6. Sound([session EXCEPT !.segments[session.caret] = Partial(n), !.mark = NoMark])
      BY <1>0, <3>1, <3>5, ReadingSound
    <3> QED BY <3>3, <3>6, SettledSound, RedrawnGood
  <2>2. CASE ~IsPartial(session, session.caret)
    <3>1. session' = Redrawn(Become(Inserted(session, <<Partial(1)>>), "inputting"))
      BY <1>7, <2>2 DEF SymbolKey, Press
    <3>2. 1 \in 1..MaxSymbols
      BY EditingAssumption
    <3>3. <<Partial(1)>> \in Seq(Segments)
      BY <3>2, SegmentForm
    <3> QED BY <1>0, <3>1, <3>3, InsertedSound, SettledSound, RedrawnGood
  <2> QED BY <2>1, <2>2
<1>8. CASE ToneKey
  <2> DEFINE s == Become(session, "inputting")
  <2>1. /\ IsPartial(session, session.caret)
        /\ \/ \E n \in RowCounts : session' = Redrawn([s EXCEPT !.segments[s.caret] = Complete(n), !.mark = NoMark])
           \/ session' = Redrawn(RemoveSegment(s, s.caret))
    BY <1>8 DEF ToneKey, Press
  <2>2. Sound(s) /\ s.caret = session.caret /\ s.segments = session.segments
    BY <1>0, SettledSound DEF SameText
  <2> HIDE DEF s
  <2>3. s.caret \in 1..Len(s.segments)
    BY <2>1, <2>2 DEF IsPartial
  <2>4. \A n \in RowCounts : Complete(n) \in Segments
    BY SegmentForm
  <2>5. \A n \in RowCounts : Sound([s EXCEPT !.segments[s.caret] = Complete(n), !.mark = NoMark])
    BY <2>2, <2>3, <2>4, ReadingSound
  <2>6. Sound(RemoveSegment(s, s.caret))
    BY <2>2, <2>3, RemovedSound
  <2> QED BY <2>1, <2>5, <2>6, RedrawnGood
<1>9. CASE Answer
  <2>1. PICK i \in 1..Len(session.segments) : \E n \in RowCounts :
          session' = Redrawn([session EXCEPT !.segments[i] = Complete(n)])
    BY <1>9 DEF Answer, Press
  <2>2. PICK n \in RowCounts : session' = Redrawn([session EXCEPT !.segments[i] = Complete(n)])
    BY <2>1
  <2>3. Complete(n) \in Segments
    BY SegmentForm
  <2> QED BY <1>0, <2>2, <2>3, ReadingSound, RedrawnGood
<1> QED BY <1>1, <1>2, <1>3, <1>4, <1>5, <1>6, <1>7, <1>8, <1>9

-----------------------------------------------------------------------------
(* The editor *)

EditingInv == config \in Settings /\ Good(session)

LEMMA EditingStarts == EditingInit => EditingInv
<1> SUFFICES ASSUME EditingInit PROVE EditingInv
  OBVIOUS
<1> DEFINE s == EmptySession
<1>1. /\ DOMAIN s = EditorFields /\ s.kind = "empty" /\ s.segments = <<>> /\ s.caret = 0 /\ s.mark = NoMark
      /\ s.pending = 0 /\ s.decision = NoDecision /\ s.menu = "closed" /\ s.page = 0
      /\ s.cursor = 0 /\ s.expanded = FALSE /\ s.shown = 0 /\ s.stale = FALSE
  BY DEF EmptySession, EditorFields
<1>2. session = s /\ config \in Settings
  BY DEF EditingInit
<1> HIDE DEF s
<1>3. s.segments \in Seq(Segments) /\ s.caret \in 0..Len(s.segments) /\ s.mark \in {NoMark} \cup 0..Len(s.segments)
  BY <1>1
<1>4. s.pending \in Nat /\ s.decision \in Decisions \cup {NoDecision} /\ HasItsToken(s)
  BY <1>1 DEF HasItsToken
<1>5. s.kind \in States /\ s.page \in Nat /\ s.cursor \in Nat /\ s.shown \in Nat /\ s.menu \in {"closed", "top", "category"}
  BY <1>1 DEF States
<1>6. s.expanded \in BOOLEAN /\ s.stale \in BOOLEAN
  BY <1>1, Zenon
<1>7. ~MenuOpen(s) /\ ~Choosing(s)
  BY <1>1 DEF MenuOpen, Choosing
<1>8. Sound(s)
  BY <1>1, <1>2, <1>3, <1>4, <1>5, <1>6, <1>7 DEF Sound
<1>9. OnPage(s) /\ Shows(s) /\ Matches(s)
  BY <1>1, <1>7 DEF OnPage, Shows, Matches, CompositionEmpty
<1> QED BY <1>2, <1>5, <1>8, <1>9 DEF EditingInv, Good

\* The redraw that follows a change of the settings is the next key's.
LEMMA SettingsSteps ==
  ASSUME EditingInv, NEW settle \in BOOLEAN, SetConfig(settle)
  PROVE  EditingInv'
<1> DEFINE l == Literals(session.pending)
           u == IF settle THEN NoPending(Inserted(session, l)) ELSE session
<1>0. Sound(session) /\ session.page \in Nat /\ session.cursor \in Nat
  BY DEF EditingInv, Good
<1>1. session' = [u EXCEPT !.stale = TRUE] /\ config' \in Settings
  BY DEF SetConfig
<1>2. /\ Sound(u) /\ u.page = session.page /\ u.cursor = session.cursor
      /\ u.expanded = session.expanded /\ u.shown = session.shown
  <2>1. l \in Seq(Segments)
    BY <1>0, LiteralsForm DEF Sound
  <2> HIDE DEF l
  <2>2. Sound(Inserted(session, l)) /\ SameView(Inserted(session, l), session)
    BY <1>0, <2>1, InsertedSound
  <2>3. Sound(NoPending(Inserted(session, l))) /\ SameView(NoPending(Inserted(session, l)), Inserted(session, l))
    BY <2>2, NoPendingSound
  <2> QED BY <1>0, <2>2, <2>3 DEF SameView
<1> HIDE DEF u, l
<1> DEFINE t == session'
<1>3. /\ DOMAIN t = EditorFields /\ t.kind = u.kind /\ t.segments = u.segments /\ t.caret = u.caret /\ t.mark = u.mark
      /\ t.pending = u.pending /\ t.decision = u.decision /\ t.menu = u.menu /\ t.page = u.page
      /\ t.cursor = u.cursor /\ t.expanded = u.expanded /\ t.shown = u.shown /\ t.stale = TRUE
  BY <1>1, <1>2 DEF Sound, EditorFields
<1> HIDE DEF t
<1>4. SameText(t, u)
  BY <1>3 DEF SameText
<1>5. t.kind \in States /\ t.shown \in Nat /\ t.page \in Int /\ t.cursor \in Int
  BY <1>2, <1>3 DEF Sound
<1>6. t.expanded \in BOOLEAN /\ t.stale \in BOOLEAN
  BY <1>2, <1>3, Zenon DEF Sound
<1>7. MenuOpen(t) => ~Choosing(t)
  BY <1>2, <1>3 DEF Sound, MenuOpen, Choosing
<1>8. Sound(t)
  BY <1>2, <1>3, <1>4, <1>5, <1>6, <1>7, SoundAsBefore
<1>9. Sound(session)'
  BY <1>1, <1>8 DEF t, Sound, HasItsToken, MenuOpen, Choosing, Segments
<1>10. OnPage(session)' /\ Shows(session)' /\ Matches(session)'
  BY <1>3 DEF t, OnPage, Shows, Matches
<1> QED BY <1>0, <1>1, <1>2, <1>3, <1>9, <1>10 DEF EditingInv, Good, t

LEMMA EditingSteps == EditingInv /\ [EditingNext]_editorVars => EditingInv'
<1> SUFFICES ASSUME EditingInv, [EditingNext]_editorVars PROVE EditingInv'
  OBVIOUS
<1>0. Good(session) /\ config \in Settings
  BY DEF EditingInv
<1>1. ASSUME Good(session'), config' = config PROVE EditingInv'
  <2>1. Good(session)'
    BY <1>1, Zenon DEF Good, Sound, OnPage, Shows, Matches, HasItsToken, Rows, Available, Target, IsComplete,
                MixedEntries, Expanded, Offset, PageLength, MenuOpen, Choosing, Deciding, CompositionEmpty
  <2> QED BY <1>0, <1>1, <2>1 DEF EditingInv
<1>2. CASE UNCHANGED editorVars
  BY <1>0, <1>1, <1>2 DEF editorVars
<1>3. ASSUME NEW settle \in BOOLEAN, SetConfig(settle) PROVE EditingInv'
  BY <1>3, SettingsSteps
<1>4. CASE \/ \E key \in WalkKeys : MenuWalk(key)
           \/ \E delta \in {-1, 1} : MenuPage(delta)
           \/ \E row \in ListRows : MenuPick(row) \/ ClickSymbol(row)
           \/ MenuExpand \/ MenuBack \/ MenuClose \/ GraveKey
  <2>1. config' = config
    BY <1>4 DEF MenuWalk, MenuPage, MenuPick, ClickSymbol, MenuExpand, MenuBack, MenuClose, GraveKey, Press
  <2> QED BY <1>0, <1>1, <1>4, <2>1, MenuKeys
<1>5. CASE \/ \E key \in WalkKeys : ListWalk(key)
           \/ \E row \in ListRows : ListPick(row) \/ ClickCandidate(row)
           \/ ListReturn \/ SpaceKey \/ DownKey \/ TabKey
           \/ \E delta \in {-1, 1} : PageKey(delta)
  <2>1. config' = config
    BY <1>5 DEF ListWalk, ListPick, ClickCandidate, ListReturn, SpaceKey, DownKey, TabKey, PageKey, Press
  <2> QED BY <1>0, <1>1, <1>5, <2>1, ListKeys
<1>6. CASE \/ CapsLockKey \/ ShiftSpaceKey \/ Reset \/ ActivateEditor \/ PendingReturn
           \/ KeypadKey \/ EnglishLetterKey \/ PendingPunctuation
           \/ LiteralKey \/ PunctuationKey \/ HsuDigitKey
  <2>1. config' = config
    BY <1>6 DEF CapsLockKey, ShiftSpaceKey, Reset, ActivateEditor, PendingReturn, KeypadKey, EnglishLetterKey,
                PendingPunctuation, LiteralKey, PunctuationKey, HsuDigitKey, Press
  <2> QED BY <1>0, <1>1, <1>6, <2>1, TextKeys
<1>7. CASE PendingEscape \/ PendingBackSpace \/ PendingDown \/ PendingSpace \/ PendingKey \/ StartPending
  <2>1. config' = config
    BY <1>7 DEF PendingEscape, PendingBackSpace, PendingDown, PendingSpace, PendingKey, StartPending, Press
  <2> QED BY <1>0, <1>1, <1>7, <2>1, TokenKeys
<1>8. CASE \/ \E delta \in {-1, 1} : MarkArrow(delta) \/ ArrowKey(delta)
           \/ ReturnKey \/ EscapeKey \/ BackSpaceKey \/ DeleteKey \/ SymbolKey \/ ToneKey \/ Answer
  <2>1. config' = config
    BY <1>8 DEF MarkArrow, ArrowKey, ReturnKey, EscapeKey, BackSpaceKey, DeleteKey, SymbolKey, ToneKey, Answer, Press
  <2> QED BY <1>0, <1>1, <1>8, <2>1, BufferKeys
<1> QED BY <1>2, <1>3, <1>4, <1>5, <1>6, <1>7, <1>8 DEF EditingNext

LEMMA EditingAlways == EditingSpec => []EditingInv
BY EditingStarts, EditingSteps, PTL DEF EditingSpec

\* Whatever is typed, clicked, answered or set, the rows that the keys walk over are the
\* rows on the panel and the cursor is one of the page on view, until settings that no
\* redraw has taken up yet.
THEOREM KeysWalkTheRowsShown == EditingSpec => []KeysWalkTheShownList
<1>1. EditingInv => KeysWalkTheShownList
  BY DEF EditingInv, Good, Shows, OnPage, KeysWalkTheShownList, CursorIsOnPage
<1> QED BY <1>1, EditingAlways, PTL

\* Whatever is typed, clicked, answered or set, the state is that of the composition,
\* and no decision outlives the keys it was made for.
THEOREM StateFollowsComposition == EditingSpec => []StateMatchesComposition
<1>1. EditingInv => StateMatchesComposition
  BY DEF EditingInv, Good, Sound, Matches, HasItsToken, Deciding, StateMatchesComposition, DecisionHasItsToken
<1> QED BY <1>1, EditingAlways, PTL

\* Every field of the session keeps its type, the caret and the mark stay inside the composition.
THEOREM EditingTypes == EditingSpec => []EditingTypeOK
<1>1. EditingInv => EditingTypeOK
  BY DEF EditingInv, Good, Sound, States, EditingTypeOK
<1> QED BY <1>1, EditingAlways, PTL

-----------------------------------------------------------------------------
(***************************************************************************)
(* The machines side by side.  A step of one leaves the variables of every *)
(* other one alone, so a behaviour of all of them is one of each.          *)
(***************************************************************************)
PartNames == {"editing", "decoding", "sampling", "fetching", "installing", "pinning", "serving", "exchanging"}

LEMMA PartsStart ==
  PartsInit => /\ EditingInit /\ DecodingInit /\ Init /\ DownloadsInit /\ PhrasesInit /\ EndpointInit /\ WireInit
               /\ part \in PartNames
BY DEF PartsInit, PartNames

LEMMA PartsStep ==
  [PartsNext]_partsVars =>
    /\ [EditingNext]_editorVars /\ [DecodingNext]_decoderVars /\ [Next]_vars /\ [DownloadsNext]_downloadVars
    /\ [PhrasesNext]_phraseVars /\ [EndpointNext]_endpointVars /\ [WireNext]_wireVars
    /\ UNCHANGED part
BY DEF PartsNext, partsVars, EditorMoves, DecoderMoves, SamplerMoves, LoaderMoves, StoreMoves, ServerMoves, WireMoves

\* Whichever machine moves, every variable of it has its type.
THEOREM PartsTypesKept == PartsSpec => []PartsTypeOK
<1>1. /\ part \in PartNames /\ EditingTypeOK /\ DecodingTypeOK /\ TypeOK /\ DownloadsTypeOK /\ PhrasesInv
      /\ EndpointInv /\ WireTypeOK
      => PartsTypeOK
  BY DEF PartNames, PhrasesInv, EndpointInv, PartsTypeOK
<1>2. part \in PartNames /\ UNCHANGED part => (part \in PartNames)'
  OBVIOUS
<1>3. PartsSpec => []EditingTypeOK
  BY PartsStart, PartsStep, EditingTypes, PTL DEF PartsSpec, EditingSpec
<1>4. PartsSpec => []DecodingTypeOK
  BY PartsStart, PartsStep, PathsTileTheKeys, PTL DEF PartsSpec, DecodingSpec
<1>5. PartsSpec => []TypeOK
  BY PartsStart, PartsStep, SamplingTypesKept, PTL DEF PartsSpec, Spec
<1>6. PartsSpec => []DownloadsTypeOK
  BY PartsStart, PartsStep, DownloadTypesKept, PTL DEF PartsSpec, DownloadsSpec
<1>7. PartsSpec => []PhrasesInv
  BY PartsStart, PartsStep, PhrasesAlways, PTL DEF PartsSpec, PhrasesSpec
<1>8. PartsSpec => []EndpointInv
  BY PartsStart, PartsStep, EndpointAlways, PTL DEF PartsSpec, EndpointSpec
<1>9. PartsSpec => []WireTypeOK
  BY PartsStart, PartsStep, WireTypes, PTL DEF PartsSpec, WireSpec
<1>10. PartsSpec => [](part \in PartNames)
  BY PartsStart, PartsStep, <1>2, PTL DEF PartsSpec
<1> QED BY <1>1, <1>3, <1>4, <1>5, <1>6, <1>7, <1>8, <1>9, <1>10, PTL

=============================================================================
