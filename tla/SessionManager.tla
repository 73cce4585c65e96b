--------------------------- MODULE SessionManager ---------------------------
(***************************************************************************)
(* The sessions of the prediction service (session_manager.cpp) under the  *)
(* threads that use them (unix_socket_server.cpp): the workers of the      *)
(* pool, which run one request each, and the poll loop, which reaps idle   *)
(* sessions and stops the service.  Clients send what they like: several   *)
(* connections may talk about one session at once.                         *)
(*                                                                         *)
(* A step is what a thread does while it holds a lock, up to the point     *)
(* where it lets go of it.  Three locks matter:                            *)
(*   mutex_             the session table; held for one step only          *)
(*   session->mutex     held while the model evaluates ("predicting")      *)
(*   prediction_mutex_  held from a failed look at the predicate of        *)
(*                      prediction_condition_ until the thread sleeps      *)
(*                      ("deciding")                                       *)
(* A step that needs a lock which another thread holds is not enabled.     *)
(* A connection of another user is refused when it is accepted, so that    *)
(* owns() holds; shutdown() runs when no worker is left, so that the error *)
(* paths behind shutting_down_ are never taken in the service.             *)
(***************************************************************************)
EXTENDS Naturals, Sequences, FiniteSets

CONSTANTS
  Workers,          \* threads of the pool
  MaxSessions,      \* limits_.max_sessions
  MaxIdleSessions,  \* limits_.max_idle_sessions
  MaxConcurrent,    \* limits_.max_concurrent_predictions
  MaxOpened,        \* bound on the number of sessions ever opened
  MaxRequestId,     \* bound on the request ids clients use
  MaxTasks,         \* bound on the number of requests
  NoTask            \* a worker without a request

SessionIds == 1..MaxOpened

Task == [kind : {"open"}]
        \cup [kind : {"predict"}, session : SessionIds, request_id : 0..MaxRequestId]
        \cup [kind : {"close"}, session : SessionIds]

\* The limits as the constructor leaves them, and the pool that run() creates.
ASSUME SessionAssumption ==
  /\ IsFiniteSet(Workers) /\ Cardinality(Workers) = MaxConcurrent + 1
  /\ MaxSessions \in Nat \ {0} /\ MaxConcurrent \in Nat \ {0}
  /\ MaxIdleSessions \in 1..MaxSessions
  /\ MaxOpened \in Nat /\ MaxRequestId \in Nat /\ MaxTasks \in Nat
  /\ NoTask \notin Task

VARIABLES
  tasks,            \* WorkerPool::queue_
  submitted,        \* number of requests made so far
  at,               \* what each worker does next
  task,             \* the request each worker runs
  known,            \* sessions_: the ids in the table
  opened,           \* number of sessions opened so far
  closing,          \* Session::state is Closing
  in_flight,        \* Session::prediction_in_flight
  last_request_id,  \* Session::last_request_id
  used_before,      \* Session::last_used: pairs of sessions, the older use first
  running,          \* running_predictions_
  phase             \* of the service: "serving", "stopping", "draining" or "down"

session_vars == <<closing, in_flight, last_request_id, used_before>>
vars == <<tasks, submitted, at, task, known, opened, closing, in_flight, last_request_id,
          used_before, running, phase>>

Init ==
  /\ tasks = <<>> /\ submitted = 0
  /\ at = [w \in Workers |-> "idle"] /\ task = [w \in Workers |-> NoTask]
  /\ known = {} /\ opened = 0
  /\ closing = [s \in SessionIds |-> FALSE]
  /\ in_flight = [s \in SessionIds |-> FALSE]
  /\ last_request_id = [s \in SessionIds |-> 0]
  /\ used_before = {}
  /\ running = 0 /\ phase = "serving"

-----------------------------------------------------------------------------
(* Locks and idle sessions *)

\* The model evaluates for session s, whose lock the worker holds.
Evaluating(s) == \E w \in Workers : at[w] = "predicting" /\ task[w].session = s

\* No thread is about to sleep on prediction_condition_.
PredictionMutexFree == \A w \in Workers : at[w] # "deciding"

\* A thread that looks through the table waits for every session's lock.
TableReadable == \A s \in known : ~Evaluating(s)

Idle == {s \in known : ~closing[s] /\ ~in_flight[s]}

\* last_used of s becomes later than that of any other session.
Touch(s) == {p \in used_before : p[1] # s} \cup {<<t, s>> : t \in (1..opened) \ {s}}

\* What reap_locked and evict_idle_locked(target) may leave of the table: some of
\* the idle sessions that were used longest ago have expired or are evicted,
\* until no more than target idle ones remain.
Kept(target) ==
  {known \ gone : gone \in {G \in SUBSET Idle :
                             /\ Cardinality(Idle \ G) <= target
                             /\ \A s \in Idle, t \in G : <<s, t>> \in used_before => s \in G}}

-----------------------------------------------------------------------------
(* Requests reach the pool *)

Submit(t) ==
  /\ phase \in {"serving", "stopping"} /\ submitted < MaxTasks
  /\ submitted' = submitted + 1
  /\ tasks' = Append(tasks, t)
  /\ UNCHANGED <<at, task, known, opened, session_vars, running, phase>>

\* A client knows the ids of the sessions that were opened.
Requests == {t \in Task : t.kind # "open" => t.session \in 1..opened}

Proceed(w, step) == at' = [at EXCEPT ![w] = step]

\* The response is sent and the worker is free.
RespondKeepingTask(w) ==
  /\ at' = [at EXCEPT ![w] = "idle"]
  /\ UNCHANGED task
Respond(w) ==
  /\ at' = [at EXCEPT ![w] = "idle"]
  /\ task' = [task EXCEPT ![w] = NoTask]

StartTask(w) ==
  /\ at[w] = "idle" /\ tasks # <<>>
  /\ task' = [task EXCEPT ![w] = Head(tasks)]
  /\ at' = [at EXCEPT ![w] = Head(tasks).kind]
  /\ tasks' = Tail(tasks)
  /\ UNCHANGED <<submitted, known, opened, session_vars, running, phase>>

-----------------------------------------------------------------------------
(* open_session; the bound MaxOpened refuses a session as max_sessions does *)

Open(w) ==
  /\ at[w] = "open" /\ TableReadable
  /\ \E kept \in Kept(MaxIdleSessions - 1) :
       IF Cardinality(kept) >= MaxSessions \/ opened = MaxOpened
       THEN known' = kept /\ UNCHANGED <<opened, used_before>>
       ELSE /\ opened' = opened + 1
            /\ known' = kept \cup {opened'}
            /\ used_before' = used_before \cup ((1..opened) \X {opened'})
  /\ Respond(w)
  /\ UNCHANGED <<tasks, submitted, closing, in_flight, last_request_id, running, phase>>

-----------------------------------------------------------------------------
(* predict *)

\* Under mutex_: the session is looked up, and kept alive by the pointer.
Find(w) ==
  /\ at[w] = "predict"
  /\ IF task[w].session \in known THEN Proceed(w, "found") /\ UNCHANGED task
     ELSE Respond(w)
  /\ UNCHANGED <<tasks, submitted, known, opened, session_vars, running, phase>>

\* Under session->mutex: SessionBusy, OutOfOrder, or the session is taken.
AcceptClosing(w) ==
  /\ at[w] = "found" /\ ~Evaluating(task[w].session)
  /\ LET s == task[w].session
     IN  IF in_flight[s] \/ task[w].request_id <= last_request_id[s]
         THEN Respond(w) /\ UNCHANGED session_vars
         ELSE /\ in_flight' = [in_flight EXCEPT ![s] = TRUE]
              /\ last_request_id' = [last_request_id EXCEPT ![s] = task[w].request_id]
              /\ used_before' = Touch(s)
              /\ Proceed(w, "queued") /\ UNCHANGED <<task, closing>>
  /\ UNCHANGED <<tasks, submitted, known, opened, running, phase>>
\* Mutant for OnePredictionPerSession: in_flight is not looked at.
AcceptSecond(w) ==
  /\ at[w] = "found" /\ ~Evaluating(task[w].session)
  /\ LET s == task[w].session
     IN  IF closing[s] \/ task[w].request_id <= last_request_id[s]
         THEN Respond(w) /\ UNCHANGED session_vars
         ELSE /\ in_flight' = [in_flight EXCEPT ![s] = TRUE]
              /\ last_request_id' = [last_request_id EXCEPT ![s] = task[w].request_id]
              /\ used_before' = Touch(s)
              /\ Proceed(w, "queued") /\ UNCHANGED <<task, closing>>
  /\ UNCHANGED <<tasks, submitted, known, opened, running, phase>>
Accept(w) ==
  /\ at[w] = "found" /\ ~Evaluating(task[w].session)
  /\ LET s == task[w].session
     IN  IF closing[s] \/ in_flight[s] \/ task[w].request_id <= last_request_id[s]
         THEN Respond(w) /\ UNCHANGED session_vars
         ELSE /\ in_flight' = [in_flight EXCEPT ![s] = TRUE]
              /\ last_request_id' = [last_request_id EXCEPT ![s] = task[w].request_id]
              /\ used_before' = Touch(s)
              /\ Proceed(w, "queued") /\ UNCHANGED <<task, closing>>
  /\ UNCHANGED <<tasks, submitted, known, opened, running, phase>>

\* Under prediction_mutex_: the predicate of the wait, the second look at the
\* session, and the slot.
EvaluatePredicateOffByOne(w) ==
  /\ at[w] = "queued" /\ PredictionMutexFree
  /\ IF closing[task[w].session] THEN Proceed(w, "cancelled") /\ UNCHANGED running
     ELSE IF running <= MaxConcurrent THEN Proceed(w, "granted") /\ running' = running + 1
     ELSE Proceed(w, "deciding") /\ UNCHANGED running
  /\ UNCHANGED <<tasks, submitted, task, known, opened, session_vars, phase>>
EvaluatePredicate(w) ==
  /\ at[w] = "queued" /\ PredictionMutexFree
  /\ IF closing[task[w].session] THEN Proceed(w, "cancelled") /\ UNCHANGED running
     ELSE IF running < MaxConcurrent THEN Proceed(w, "granted") /\ running' = running + 1
     ELSE Proceed(w, "deciding") /\ UNCHANGED running
  /\ UNCHANGED <<tasks, submitted, task, known, opened, session_vars, phase>>

Sleep(w) ==
  /\ at[w] = "deciding"
  /\ Proceed(w, "blocked")
  /\ UNCHANGED <<tasks, submitted, task, known, opened, session_vars, running, phase>>

\* A wait on a condition variable may also end without a notification.
WakeSpuriously(w) ==
  /\ at[w] = "blocked"
  /\ Proceed(w, "queued")
  /\ UNCHANGED <<tasks, submitted, task, known, opened, session_vars, running, phase>>

\* A prediction cancelled by close gives the session back.
Cancel(w) ==
  /\ at[w] = "cancelled"
  /\ in_flight' = [in_flight EXCEPT ![task[w].session] = FALSE]
  /\ Respond(w)
  /\ UNCHANGED <<tasks, submitted, known, opened, closing, last_request_id, used_before, running, phase>>

\* The session's lock is taken for the evaluation, which may also fail ...
Evaluate(w) ==
  /\ at[w] = "granted"
  /\ Proceed(w, "predicting")
  /\ UNCHANGED <<tasks, submitted, task, known, opened, session_vars, running, phase>>

\* ... and released when the model has answered.
Evaluated(w) ==
  /\ at[w] = "predicting"
  /\ Proceed(w, "releasing")
  /\ UNCHANGED <<tasks, submitted, task, known, opened, session_vars, running, phase>>

\* finish(): the slot is given back under prediction_mutex_ ...
ReleaseSlot(w) ==
  /\ at[w] = "releasing" /\ PredictionMutexFree
  /\ running' = IF running > 0 THEN running - 1 ELSE running
  /\ Proceed(w, "notifying")
  /\ UNCHANGED <<tasks, submitted, task, known, opened, session_vars, phase>>

Sleeping == {w \in Workers : at[w] = "blocked"}

\* Mutant for NoLostWakeup: nobody is woken.
NotifyNobody(w) ==
  /\ at[w] = "notifying"
  /\ at' = [at EXCEPT ![w] = "settling"]
  /\ UNCHANGED <<tasks, submitted, task, known, opened, session_vars, running, phase>>
\* ... notify_one() wakes one of the sleepers ...
NotifyOne(w) ==
  /\ at[w] = "notifying"
  /\ IF Sleeping = {} THEN at' = [at EXCEPT ![w] = "settling"]
     ELSE \E v \in Sleeping : at' = [at EXCEPT ![w] = "settling", ![v] = "queued"]
  /\ UNCHANGED <<tasks, submitted, task, known, opened, session_vars, running, phase>>

\* ... and the session is free for the next request.
Settle(w) ==
  /\ at[w] = "settling"
  /\ in_flight' = [in_flight EXCEPT ![task[w].session] = FALSE]
  /\ used_before' = Touch(task[w].session)
  /\ Respond(w)
  /\ UNCHANGED <<tasks, submitted, known, opened, closing, last_request_id, running, phase>>

-----------------------------------------------------------------------------
(* close_session *)

\* Under mutex_ and session->mutex; notify_all() without prediction_mutex_ wakes
\* only the threads that sleep already.
MarkClosing(w) ==
  /\ at[w] = "close"
  /\ LET s == task[w].session
     IN  IF s \notin known THEN Respond(w) /\ UNCHANGED closing
         ELSE /\ ~Evaluating(s)
              /\ closing' = [closing EXCEPT ![s] = TRUE]
              /\ at' = [v \in Workers |-> IF v = w THEN "draining"
                                          ELSE IF v \in Sleeping THEN "queued" ELSE at[v]]
              /\ UNCHANGED task
  /\ UNCHANGED <<tasks, submitted, known, opened, in_flight, last_request_id, used_before, running, phase>>

\* Mutant for NobodyWaitsForEver: a second close of the session waits for
\* the table entry that the first one erases.
DestroyEngineOnce(w) ==
  /\ at[w] = "draining" /\ ~in_flight[task[w].session] /\ task[w].session \in known
  /\ Proceed(w, "destroyed")
  /\ UNCHANGED <<tasks, submitted, task, known, opened, session_vars, running, phase>>

\* The prediction in flight is over: the engine of the session is destroyed.
DestroyEngine(w) ==
  /\ at[w] = "draining" /\ ~in_flight[task[w].session]
  /\ Proceed(w, "destroyed")
  /\ UNCHANGED <<tasks, submitted, task, known, opened, session_vars, running, phase>>

Erase(w) ==
  /\ at[w] = "destroyed"
  /\ known' = known \ {task[w].session}
  /\ Respond(w)
  /\ UNCHANGED <<tasks, submitted, opened, session_vars, running, phase>>

-----------------------------------------------------------------------------
(* The poll loop *)

Reap ==
  /\ phase \in {"serving", "stopping"} /\ TableReadable
  /\ known' \in Kept(MaxIdleSessions)
  /\ UNCHANGED <<tasks, submitted, at, task, opened, session_vars, running, phase>>

\* A signal, a Shutdown request or should_idle_shutdown() ends the loop; requests
\* that were read already still reach the pool ...
Stop ==
  /\ phase = "serving"
  /\ phase' = "stopping"
  /\ UNCHANGED <<tasks, submitted, at, task, known, opened, session_vars, running>>

\* ... until the threads of the connections are joined.
CloseConnections ==
  /\ phase = "stopping"
  /\ phase' = "draining"
  /\ UNCHANGED <<tasks, submitted, at, task, known, opened, session_vars, running>>

\* When the pool has finished what it accepted, shutdown() closes every session.
Shutdown ==
  /\ phase = "draining" /\ tasks = <<>> /\ \A w \in Workers : at[w] = "idle"
  /\ \A s \in known : ~in_flight[s]
  /\ phase' = "down"
  /\ closing' = [s \in SessionIds |-> closing[s] \/ s \in known]
  /\ known' = {}
  /\ UNCHANGED <<tasks, submitted, at, task, opened, in_flight, last_request_id, used_before, running>>

-----------------------------------------------------------------------------
Work(w) ==
  \/ StartTask(w) \/ Open(w)
  \/ Find(w) \/ Accept(w) \/ EvaluatePredicate(w) \/ Sleep(w) \/ Cancel(w) \/ Evaluate(w)
  \/ Evaluated(w) \/ ReleaseSlot(w) \/ NotifyOne(w) \/ Settle(w)
  \/ MarkClosing(w) \/ DestroyEngine(w) \/ Erase(w)

Next ==
  \/ \E t \in Requests : Submit(t)
  \/ \E w \in Workers : Work(w) \/ WakeSpuriously(w)
  \/ Reap \/ Stop \/ CloseConnections \/ Shutdown

\* Threads that can run do run, and the model's evaluation ends.  A worker that
\* wants prediction_mutex_ to give its slot back gets it in the end, even if a
\* waiting thread wakes up, looks and sleeps again for ever.
Fairness ==
  /\ \A w \in Workers : WF_vars(Work(w)) /\ SF_vars(ReleaseSlot(w))
  /\ WF_vars(CloseConnections) /\ WF_vars(Shutdown)

Spec == Init /\ [][Next]_vars /\ Fairness

-----------------------------------------------------------------------------
(* Properties *)

Steps == {"idle", "open", "predict", "close", "found", "queued", "deciding", "blocked",
          "cancelled", "granted", "predicting", "releasing", "notifying", "settling",
          "draining", "destroyed"}

\* Steps during which a worker has the session's prediction to itself.
Predicting == {"queued", "deciding", "blocked", "cancelled", "granted", "predicting",
               "releasing", "notifying", "settling"}

\* Every variable keeps its type, and a worker in the middle of a prediction or
\* of a close has a request of that kind.
TypeOK ==
  /\ tasks \in Seq(Task) /\ submitted \in Nat
  /\ at \in [Workers -> Steps] /\ task \in [Workers -> Task \cup {NoTask}]
  /\ \A w \in Workers :
       /\ at[w] = "idle" <=> task[w] = NoTask
       /\ at[w] \in Predicting \cup {"predict", "found"} => task[w].kind = "predict"
       /\ at[w] \in {"close", "draining", "destroyed"} => task[w].kind = "close"
  /\ known \subseteq SessionIds /\ opened \in 0..MaxOpened
  /\ closing \in [SessionIds -> BOOLEAN] /\ in_flight \in [SessionIds -> BOOLEAN]
  /\ last_request_id \in [SessionIds -> 0..MaxRequestId]
  /\ used_before \subseteq SessionIds \X SessionIds
  /\ running \in Nat /\ phase \in {"serving", "stopping", "draining", "down"}

\* A session has one prediction at a time, from the check of its request until
\* the flag is reset on every path out of predict(), so that its engine is never
\* used by two threads and a close() that waits for the flag waits for somebody.
OnePredictionPerSession ==
  /\ \A v, w \in Workers :
       at[v] \in Predicting /\ at[w] \in Predicting /\ task[v].session = task[w].session => v = w
  /\ \A s \in SessionIds :
       in_flight[s] <=> \E w \in Workers : at[w] \in Predicting /\ task[w].session = s

\* No prediction starts or goes on once close() has destroyed the engine of its
\* session, although the pointer that predict() holds keeps the session alive.
NoPredictionAfterDestroy ==
  \A v, w \in Workers :
    at[v] = "destroyed" /\ at[w] \in Predicting => task[v].session # task[w].session

\* running_predictions_ counts the workers that hold a slot, and there are never
\* more of them than the limit, whichever way each of them returns.
SlotHolders == {w \in Workers : at[w] \in {"granted", "predicting", "releasing"}}

SlotsAreCounted == running = Cardinality(SlotHolders) /\ running <= MaxConcurrent

\* A worker sleeps only while there is a reason to: its session is not closing,
\* and either no slot is free or the worker that freed one is about to notify.
\* close_session() notifies without prediction_mutex_ and its wake-up can be
\* lost; the pool has one thread more than there are slots, so that none is
\* left to close a session while another is about to sleep.
NoLostWakeup ==
  \A w \in Sleeping :
    /\ ~closing[task[w].session]
    /\ running = MaxConcurrent \/ \E v \in Workers : at[v] = "notifying"

\* Every request is answered: whoever waits for a slot gets one or is cancelled,
\* and whoever closes a session sees its prediction end.  The service comes down
\* after a stop: nothing it has accepted blocks the pool, and shutdown() finds no
\* prediction to wait for.
NobodyWaitsForEver ==
  /\ \A w \in Workers : (at[w] # "idle") ~> (at[w] = "idle")
  /\ (phase = "stopping") ~> (phase = "down")

=============================================================================
