---------------------------- MODULE SessionProofs ----------------------------
(***************************************************************************)
(* Theorems about SessionManager, for any number of workers, sessions and  *)
(* requests and any limits.                                                *)
(*                                                                         *)
(* What needs an argument is that no wake-up is lost (AloneOK).  A worker  *)
(* decides to sleep when it finds every slot taken.  The slots are counted *)
(* exactly and the pool has one thread more than there are slots, so every *)
(* other thread holds one: none of them can be closing a session while the *)
(* worker has decided but does not sleep yet, and until it is woken they   *)
(* can only give their slots back.                                         *)
(***************************************************************************)
EXTENDS SessionManager, FiniteSetTheorems, TLAPS

\* Steps during which a worker holds a prediction slot.
Slots == {"granted", "predicting", "releasing"}

\* Whoever is past the mark of close_session() has marked the session, for good.
ClosingOK ==
  \A w \in Workers : at[w] \in {"draining", "destroyed"} => closing[task[w].session]

\* A worker that waits for a slot is alone among workers that hold one, or that
\* have just given one back and will notify it; nobody closes its session.
AloneOK ==
  \A w \in Workers :
    /\ at[w] = "deciding" =>
         ~closing[task[w].session] /\ \A v \in Workers \ {w} : at[v] \in Slots
    /\ at[w] = "blocked" =>
         ~closing[task[w].session] /\ \A v \in Workers \ {w} : at[v] \in Slots \cup {"notifying"}

\* The kinds of requests and their fields.
LEMMA TaskFacts ==
  ASSUME NEW t \in Task
  PROVE  /\ t # NoTask
         /\ t.kind \in {"open", "predict", "close"}
         /\ t.kind # "open" => t.session \in SessionIds
         /\ t.kind = "predict" => t.request_id \in 0..MaxRequestId
BY SessionAssumption DEF Task

\* Types hold initially, in a service with an empty table.
LEMMA TypeInit == Init => TypeOK
BY SessionAssumption DEF Init, TypeOK, SessionIds, Steps, Predicting

\* Every step of a worker or of the poll loop keeps the types.
LEMMA TypeStep == TypeOK /\ [Next]_vars => TypeOK'
<1> SUFFICES ASSUME TypeOK, [Next]_vars PROVE TypeOK'
  OBVIOUS
<1> USE SessionAssumption
<1>1. ASSUME NEW t \in Requests, Submit(t) PROVE TypeOK'
  BY <1>1 DEF Submit, Requests, TypeOK, session_vars, Predicting
<1>2. ASSUME NEW w \in Workers, StartTask(w) PROVE TypeOK'
  <2>1. Head(tasks) \in Task /\ Tail(tasks) \in Seq(Task)
    BY <1>2 DEF StartTask, TypeOK
  <2> QED
    BY <1>2, <2>1, TaskFacts DEF StartTask, TypeOK, session_vars, Predicting, Steps
<1>3. ASSUME NEW w \in Workers, Open(w) PROVE TypeOK'
  <2>1. PICK kept \in Kept(MaxIdleSessions - 1) :
          IF Cardinality(kept) >= MaxSessions \/ opened = MaxOpened
          THEN known' = kept /\ UNCHANGED <<opened, used_before>>
          ELSE /\ opened' = opened + 1
               /\ known' = kept \cup {opened'}
               /\ used_before' = used_before \cup ((1..opened) \X {opened'})
    BY <1>3 DEF Open
  <2>2. kept \subseteq SessionIds
    BY DEF Kept, TypeOK
  <2>3. opened' \in 0..MaxOpened /\ known' \subseteq SessionIds
    <3>1. CASE opened = MaxOpened
      BY <2>1, <2>2, <3>1 DEF TypeOK
    <3>2. CASE opened # MaxOpened
      <4>1. opened + 1 \in 1..MaxOpened
        BY <3>2 DEF TypeOK
      <4>2. CASE known' = kept /\ UNCHANGED opened
        BY <2>2, <4>2 DEF TypeOK
      <4>3. CASE opened' = opened + 1 /\ known' = kept \cup {opened'}
        <5>1. opened' \in 0..MaxOpened /\ opened' \in SessionIds
          BY <4>1, <4>3, SessionAssumption DEF SessionIds
        <5> QED
          BY <2>2, <4>3, <5>1
      <4> QED
        BY <2>1, <4>2, <4>3
    <3> QED
      BY <3>1, <3>2
  <2>4. used_before' \subseteq SessionIds \X SessionIds
    <3>1. 1..opened \subseteq SessionIds
      BY DEF TypeOK, SessionIds
    <3>2. CASE UNCHANGED used_before
      BY <3>2 DEF TypeOK
    <3>3. CASE /\ opened' = opened + 1 /\ opened' \in SessionIds
               /\ used_before' = used_before \cup ((1..opened) \X {opened'})
      BY <3>1, <3>3 DEF TypeOK
    <3> QED
      BY <2>1, <2>3, <3>2, <3>3 DEF TypeOK, SessionIds
  <2>5. UNCHANGED <<tasks, submitted, closing, in_flight, last_request_id, running, phase>>
    BY <1>3 DEF Open
  <2>6. at' = [at EXCEPT ![w] = "idle"] /\ task' = [task EXCEPT ![w] = NoTask]
    BY <1>3 DEF Open, Respond
  <2> QED
    BY <2>3, <2>4, <2>5, <2>6 DEF TypeOK, Predicting, Steps
<1>4. ASSUME NEW w \in Workers, Find(w) PROVE TypeOK'
  BY ZenonT(60), <1>4 DEF Find, Proceed, Respond, TypeOK, session_vars, Predicting, Steps
<1>5. ASSUME NEW w \in Workers, Accept(w) PROVE TypeOK'
  <2>1. task[w] \in Task /\ task[w].kind = "predict"
    BY <1>5 DEF Accept, TypeOK
  <2>2. task[w].session \in SessionIds /\ task[w].request_id \in 0..MaxRequestId
    BY <2>1, TaskFacts
  <2>3. Touch(task[w].session) \subseteq SessionIds \X SessionIds
    BY <2>2 DEF Touch, TypeOK, SessionIds
  <2> QED
    <3>1. UNCHANGED <<tasks, submitted, known, opened, running, phase>>
      BY <1>5 DEF Accept
    <3>2. CASE UNCHANGED session_vars /\ Respond(w)
      BY <3>1, <3>2 DEF Respond, TypeOK, session_vars, Predicting, Steps
    <3>3. CASE /\ in_flight' = [in_flight EXCEPT ![task[w].session] = TRUE]
               /\ last_request_id' =
                    [last_request_id EXCEPT ![task[w].session] = task[w].request_id]
               /\ used_before' = Touch(task[w].session)
               /\ Proceed(w, "queued") /\ UNCHANGED <<task, closing>>
      BY <3>1, <3>3, <2>1, <2>2, <2>3 DEF Proceed, TypeOK, Predicting, Steps
    <3> QED
      BY <1>5, <3>2, <3>3 DEF Accept
<1>6. ASSUME NEW w \in Workers, EvaluatePredicate(w) PROVE TypeOK'
  <2>1. PICK step \in {"cancelled", "granted", "deciding"} : at' = [at EXCEPT ![w] = step]
    BY <1>6 DEF EvaluatePredicate, Proceed
  <2>2. running' \in Nat
    BY <1>6 DEF EvaluatePredicate, TypeOK
  <2> QED
    BY <1>6, <2>1, <2>2 DEF EvaluatePredicate, TypeOK, session_vars, Predicting, Steps
<1>7. ASSUME NEW w \in Workers, Sleep(w) PROVE TypeOK'
  BY <1>7 DEF Sleep, Proceed, TypeOK, session_vars, Predicting, Steps
<1>8. ASSUME NEW w \in Workers, WakeSpuriously(w) PROVE TypeOK'
  BY <1>8 DEF WakeSpuriously, Proceed, TypeOK, session_vars, Predicting, Steps
<1>9. ASSUME NEW w \in Workers, Cancel(w) PROVE TypeOK'
  BY <1>9 DEF Cancel, Respond, TypeOK, Predicting, Steps
<1>10. ASSUME NEW w \in Workers, Evaluate(w) PROVE TypeOK'
  BY <1>10 DEF Evaluate, Proceed, TypeOK, session_vars, Predicting, Steps
<1>11. ASSUME NEW w \in Workers, Evaluated(w) PROVE TypeOK'
  BY <1>11 DEF Evaluated, Proceed, TypeOK, session_vars, Predicting, Steps
<1>12. ASSUME NEW w \in Workers, ReleaseSlot(w) PROVE TypeOK'
  BY <1>12 DEF ReleaseSlot, Proceed, TypeOK, session_vars, Predicting, Steps
<1>13. ASSUME NEW w \in Workers, NotifyOne(w) PROVE TypeOK'
  BY ZenonT(60), <1>13 DEF NotifyOne, Sleeping, TypeOK, session_vars, Predicting, Steps
<1>14. ASSUME NEW w \in Workers, Settle(w) PROVE TypeOK'
  <2>1. task[w] \in Task /\ task[w].kind = "predict"
    BY <1>14 DEF Settle, TypeOK, Predicting
  <2>2. Touch(task[w].session) \subseteq SessionIds \X SessionIds
    BY <2>1, TaskFacts, SMTT(20) DEF Touch, TypeOK, SessionIds
  <2> QED
    BY <1>14, <2>2 DEF Settle, Respond, TypeOK, Predicting, Steps
<1>15. ASSUME NEW w \in Workers, MarkClosing(w) PROVE TypeOK'
  <2>1. UNCHANGED <<tasks, submitted, known, opened, in_flight, last_request_id, used_before,
                    running, phase>>
    BY <1>15 DEF MarkClosing
  <2>2. CASE task[w].session \notin known
    BY ZenonT(60), <1>15, <2>1, <2>2 DEF MarkClosing, Respond, TypeOK, Predicting, Steps
  <2>3. CASE task[w].session \in known
    <3>1. closing' \in [SessionIds -> BOOLEAN]
      BY <1>15, <2>3 DEF MarkClosing, TypeOK
    <3>2. at' \in [Workers -> Steps] /\ UNCHANGED task
      BY <1>15, <2>3 DEF MarkClosing, TypeOK, Steps
    <3>3. at[w] = "close" /\ at'[w] = "draining"
      BY <1>15, <2>3 DEF MarkClosing
    <3>4. \A v \in Workers \ {w} : at'[v] = at[v] \/ (at[v] = "blocked" /\ at'[v] = "queued")
      BY <1>15, <2>3 DEF MarkClosing, Sleeping
    <3> QED
      BY <2>1, <3>1, <3>2, <3>3, <3>4 DEF TypeOK, Predicting
  <2> QED
    BY <2>2, <2>3
<1>16. ASSUME NEW w \in Workers, DestroyEngine(w) PROVE TypeOK'
  BY <1>16 DEF DestroyEngine, Proceed, TypeOK, session_vars, Predicting, Steps
<1>17. ASSUME NEW w \in Workers, Erase(w) PROVE TypeOK'
  BY <1>17 DEF Erase, Respond, TypeOK, session_vars, Predicting, Steps
<1>18. ASSUME Reap PROVE TypeOK'
  BY <1>18 DEF Reap, Kept, Idle, TypeOK, session_vars, Predicting
<1>19. ASSUME Stop \/ CloseConnections PROVE TypeOK'
  BY <1>19 DEF Stop, CloseConnections, TypeOK, session_vars, Predicting
<1>20. ASSUME Shutdown PROVE TypeOK'
  BY <1>20 DEF Shutdown, TypeOK, Predicting
<1>21. ASSUME UNCHANGED vars PROVE TypeOK'
  BY <1>21 DEF vars, session_vars, TypeOK, Predicting
<1> QED
  BY <1>1, <1>2, <1>3, <1>4, <1>5, <1>6, <1>7, <1>8, <1>9, <1>10, <1>11, <1>12, <1>13, <1>14,
     <1>15, <1>16, <1>17, <1>18, <1>19, <1>20, <1>21 DEF Next, Work

-----------------------------------------------------------------------------
\* prediction_in_flight is set by Accept, when nobody predicts for the session, and
\* reset by Cancel and Settle, whose worker is the only one that did.
LEMMA OneStep == TypeOK /\ OnePredictionPerSession /\ [Next]_vars => OnePredictionPerSession'
<1> SUFFICES ASSUME TypeOK, OnePredictionPerSession, [Next]_vars PROVE OnePredictionPerSession'
  OBVIOUS
<1>1. ASSUME NEW t \in Requests, Submit(t) PROVE OnePredictionPerSession'
  BY <1>1 DEF Submit, OnePredictionPerSession, session_vars
<1>2. ASSUME NEW w \in Workers,
             StartTask(w) \/ Open(w) \/ Find(w) \/ Erase(w) \/ DestroyEngine(w)
      PROVE  OnePredictionPerSession'
  <2>1. at[w] \notin Predicting /\ at'[w] \notin Predicting /\ UNCHANGED in_flight
    <3>1. CASE StartTask(w)
      <4>1. Head(tasks).kind \in {"open", "predict", "close"}
        BY <3>1, TaskFacts DEF StartTask, TypeOK
      <4> QED
        BY <3>1, <4>1 DEF StartTask, TypeOK, Predicting, session_vars
    <3> QED
      BY <1>2, <3>1 DEF Open, Find, Erase, DestroyEngine, Proceed, Respond, TypeOK, Predicting,
                        session_vars
  <2>2. \A v \in Workers \ {w} : at'[v] = at[v] /\ task'[v] = task[v]
    BY <1>2 DEF StartTask, Open, Find, Erase, DestroyEngine, Proceed, Respond, TypeOK
  <2> QED
    BY <2>1, <2>2 DEF OnePredictionPerSession
<1>3. ASSUME NEW w \in Workers, Accept(w) PROVE OnePredictionPerSession'
  <2> DEFINE s == task[w].session
  <2>1. CASE Respond(w) /\ UNCHANGED session_vars
    BY <1>3, <2>1 DEF Accept, Respond, OnePredictionPerSession, TypeOK, Predicting, session_vars
  <2>2. CASE ~in_flight[s] /\ in_flight' = [in_flight EXCEPT ![s] = TRUE] /\ Proceed(w, "queued")
             /\ UNCHANGED task
    <3>1. s \in SessionIds
      BY ZenonT(60), <1>3, TaskFacts DEF Accept, TypeOK
    <3>2. at' = [at EXCEPT ![w] = "queued"]
      BY <2>2 DEF Proceed
    <3>3. \A v \in Workers : at[v] \in Predicting => task[v].session # s
      BY <2>2, <3>1 DEF OnePredictionPerSession
    <3>4. \A v \in Workers : at'[v] \in Predicting <=> v = w \/ at[v] \in Predicting
      BY <3>2 DEF TypeOK, Predicting
    <3>5. \A u, v \in Workers :
            at'[u] \in Predicting /\ at'[v] \in Predicting /\ task'[u].session = task'[v].session
              => u = v
      BY <2>2, <3>3, <3>4 DEF OnePredictionPerSession
    <3>6. \A t \in SessionIds :
            in_flight'[t] <=> \E v \in Workers : at'[v] \in Predicting /\ task'[v].session = t
      <4>1. ASSUME NEW t \in SessionIds \ {s}
            PROVE  in_flight'[t] <=> \E v \in Workers : at'[v] \in Predicting /\ task'[v].session = t
        BY <2>2, <3>4, <4>1 DEF OnePredictionPerSession, TypeOK
      <4>2. in_flight'[s] /\ at'[w] \in Predicting /\ task'[w].session = s
        BY <2>2, <3>1, <3>4 DEF TypeOK
      <4> QED
        BY <4>1, <4>2
    <3> QED
      BY <3>5, <3>6 DEF OnePredictionPerSession
  <2> QED
    BY <1>3, <2>1, <2>2 DEF Accept
<1>4. ASSUME NEW w \in Workers,
             \/ EvaluatePredicate(w) \/ Sleep(w) \/ WakeSpuriously(w) \/ Evaluate(w)
             \/ Evaluated(w) \/ ReleaseSlot(w) \/ NotifyOne(w)
      PROVE  OnePredictionPerSession'
  <2>1. UNCHANGED <<task, in_flight>>
    BY <1>4 DEF EvaluatePredicate, Sleep, WakeSpuriously, Evaluate, Evaluated, ReleaseSlot,
                NotifyOne, session_vars
  <2>2. \A v \in Workers : at'[v] \in Predicting <=> at[v] \in Predicting
    <3>1. CASE NotifyOne(w)
      BY <3>1 DEF NotifyOne, Sleeping, TypeOK, Predicting
    <3>2. CASE ~NotifyOne(w)
      BY <1>4, <3>2 DEF EvaluatePredicate, Sleep, WakeSpuriously, Evaluate, Evaluated,
                        ReleaseSlot, Proceed, TypeOK, Predicting
    <3> QED
      BY <3>1, <3>2
  <2> QED
    BY <2>1, <2>2 DEF OnePredictionPerSession
<1>5. ASSUME NEW w \in Workers, Cancel(w) \/ Settle(w) PROVE OnePredictionPerSession'
  <2> DEFINE s == task[w].session
  <2>1. at[w] \in Predicting /\ in_flight' = [in_flight EXCEPT ![s] = FALSE]
    BY <1>5 DEF Cancel, Settle, Predicting
  <2>2. s \in SessionIds
    BY <2>1, TaskFacts DEF TypeOK, Predicting
  <2>3. at'[w] \notin Predicting
    BY <1>5 DEF Cancel, Settle, Respond, TypeOK, Predicting
  <2>4. \A v \in Workers \ {w} : at'[v] = at[v] /\ task'[v] = task[v]
    BY <1>5 DEF Cancel, Settle, Respond, TypeOK
  <2>5. \A v \in Workers \ {w} : at[v] \in Predicting => task[v].session # s
    BY <2>1 DEF OnePredictionPerSession
  <2>6. \A u, v \in Workers :
          at'[u] \in Predicting /\ at'[v] \in Predicting /\ task'[u].session = task'[v].session
            => u = v
    BY <2>3, <2>4 DEF OnePredictionPerSession
  <2>7. ~in_flight'[s] /\ ~\E v \in Workers : at'[v] \in Predicting /\ task'[v].session = s
    BY <2>1, <2>2, <2>3, <2>4, <2>5 DEF TypeOK
  <2>8. ASSUME NEW t \in SessionIds \ {s}
        PROVE  in_flight'[t] <=> \E v \in Workers : at'[v] \in Predicting /\ task'[v].session = t
    <3>1. in_flight'[t] = in_flight[t]
      BY <2>1, <2>8 DEF TypeOK
    <3> QED
      BY <3>1, <2>3, <2>4, <2>8 DEF OnePredictionPerSession
  <2> QED
    BY <2>6, <2>7, <2>8 DEF OnePredictionPerSession
<1>6. ASSUME NEW w \in Workers, MarkClosing(w) PROVE OnePredictionPerSession'
  <2>1. UNCHANGED in_flight
    BY <1>6 DEF MarkClosing
  <2>2. \A v \in Workers : at'[v] \in Predicting <=> at[v] \in Predicting
    BY <1>6 DEF MarkClosing, Sleeping, Respond, TypeOK, Predicting
  <2>3. \A v \in Workers : at[v] \in Predicting => task'[v] = task[v]
    BY <1>6 DEF MarkClosing, Respond, TypeOK, Predicting
  <2> QED
    BY <2>1, <2>2, <2>3 DEF OnePredictionPerSession
<1>7. ASSUME Reap \/ Stop \/ CloseConnections \/ Shutdown \/ UNCHANGED vars
      PROVE  OnePredictionPerSession'
  BY <1>7 DEF Reap, Stop, CloseConnections, Shutdown, vars, session_vars, OnePredictionPerSession
<1> QED
  BY <1>1, <1>2, <1>3, <1>4, <1>5, <1>6, <1>7 DEF Next, Work

-----------------------------------------------------------------------------
\* A closing session accepts no prediction, and its engine is destroyed when the
\* last one is over.
LEMMA ClosedStep ==
  TypeOK /\ OnePredictionPerSession /\ ClosingOK /\ NoPredictionAfterDestroy /\ [Next]_vars
    => ClosingOK' /\ NoPredictionAfterDestroy'
<1> SUFFICES ASSUME TypeOK, OnePredictionPerSession, ClosingOK, NoPredictionAfterDestroy,
                    [Next]_vars
             PROVE  ClosingOK' /\ NoPredictionAfterDestroy'
  OBVIOUS
<1> DEFINE Closes == {"draining", "destroyed"}
<1>1. ASSUME NEW w \in Workers, Accept(w) PROVE ClosingOK' /\ NoPredictionAfterDestroy'
  <2> DEFINE s == task[w].session
  <2>1. UNCHANGED closing
    BY <1>1 DEF Accept, session_vars
  <2>2. CASE Respond(w)
    BY <1>1, <2>1, <2>2 DEF Respond, ClosingOK, NoPredictionAfterDestroy, TypeOK, Predicting
  <2>3. CASE ~closing[s] /\ Proceed(w, "queued") /\ UNCHANGED task
    <3>1. at' = [at EXCEPT ![w] = "queued"]
      BY <2>3 DEF Proceed
    <3>2. \A v \in Workers : at[v] = "destroyed" => task[v].session # s
      BY <2>3 DEF ClosingOK
    <3> QED
      BY <2>1, <2>3, <3>1, <3>2 DEF ClosingOK, NoPredictionAfterDestroy, TypeOK
  <2> QED
    BY <1>1, <2>2, <2>3 DEF Accept
<1>2. ASSUME NEW w \in Workers, MarkClosing(w) PROVE ClosingOK' /\ NoPredictionAfterDestroy'
  <2>1. \A v \in Workers : at'[v] \in Predicting <=> at[v] \in Predicting
    BY <1>2 DEF MarkClosing, Sleeping, Respond, TypeOK, Predicting
  <2>2. \A v \in Workers : at'[v] = "destroyed" <=> at[v] = "destroyed"
    BY <1>2 DEF MarkClosing, Sleeping, Respond, TypeOK
  <2>3. \A v \in Workers : at[v] \in Predicting \cup {"destroyed"} => task'[v] = task[v]
    BY <1>2 DEF MarkClosing, Respond, TypeOK, Predicting
  <2>4. ClosingOK'
    <3>1. CASE task[w].session \notin known
      BY <1>2, <3>1 DEF MarkClosing, Respond, ClosingOK, TypeOK
    <3>2. CASE task[w].session \in known
      <4>1. task[w].session \in SessionIds
        BY <3>2 DEF TypeOK
      <4>2. closing' = [closing EXCEPT ![task[w].session] = TRUE] /\ UNCHANGED task
        BY <1>2, <3>2 DEF MarkClosing
      <4>3. \A v \in Workers \ {w} : at'[v] \in Closes => at[v] \in Closes
        BY <1>2, <3>2 DEF MarkClosing, Sleeping, TypeOK
      <4>4. \A v \in Workers : at[v] \in Closes => task[v].session \in SessionIds
        BY TaskFacts DEF TypeOK
      <4>5. closing'[task[w].session]
        BY <4>1, <4>2 DEF TypeOK
      <4>6. ASSUME NEW v \in Workers \ {w}, at'[v] \in Closes PROVE closing'[task'[v].session]
        BY <4>1, <4>2, <4>3, <4>4, <4>6 DEF ClosingOK, TypeOK
      <4> QED
        BY <4>2, <4>5, <4>6 DEF ClosingOK
    <3> QED
      BY <3>1, <3>2
  <2> QED
    BY <2>1, <2>2, <2>3, <2>4 DEF NoPredictionAfterDestroy
<1>3. ASSUME NEW w \in Workers, DestroyEngine(w) PROVE ClosingOK' /\ NoPredictionAfterDestroy'
  <2>1. task[w].session \in SessionIds
    BY <1>3, TaskFacts DEF DestroyEngine, TypeOK
  <2>2. \A v \in Workers : at[v] \in Predicting => task[v].session # task[w].session
    BY <1>3, <2>1 DEF DestroyEngine, OnePredictionPerSession
  <2>3. at' = [at EXCEPT ![w] = "destroyed"] /\ UNCHANGED <<task, closing>> /\ at[w] = "draining"
    BY <1>3 DEF DestroyEngine, Proceed, session_vars
  <2>4. \A v \in Workers : at'[v] \in Predicting <=> at[v] \in Predicting
    BY <2>3 DEF TypeOK, Predicting
  <2> QED
    BY <2>2, <2>3, <2>4 DEF ClosingOK, NoPredictionAfterDestroy, TypeOK
<1>4. ASSUME NEW w \in Workers,
             \/ StartTask(w) \/ Open(w) \/ Find(w) \/ EvaluatePredicate(w) \/ Sleep(w)
             \/ WakeSpuriously(w) \/ Cancel(w) \/ Evaluate(w) \/ Evaluated(w)
             \/ ReleaseSlot(w) \/ NotifyOne(w) \/ Settle(w) \/ Erase(w)
      PROVE  ClosingOK' /\ NoPredictionAfterDestroy'
  <2>1. UNCHANGED closing
    BY <1>4 DEF StartTask, Open, Find, EvaluatePredicate, Sleep, WakeSpuriously, Cancel, Evaluate,
                Evaluated, ReleaseSlot, NotifyOne, Settle, Erase, session_vars
  <2>2. \A v \in Workers : /\ at'[v] \in Closes => at[v] = at'[v]
                           /\ at'[v] \in Predicting => at[v] \in Predicting
    <3>1. CASE StartTask(w)
      <4>1. Head(tasks).kind \in {"open", "predict", "close"}
        BY <3>1, TaskFacts DEF StartTask, TypeOK
      <4> QED
        BY <3>1, <4>1 DEF StartTask, TypeOK, Predicting
    <3>2. CASE NotifyOne(w)
      BY <3>2 DEF NotifyOne, Sleeping, TypeOK, Predicting
    <3>3. CASE \/ Open(w) \/ Find(w) \/ Cancel(w) \/ Settle(w) \/ Erase(w)
      BY <3>3 DEF Open, Find, Cancel, Settle, Erase, Respond, Proceed, TypeOK, Predicting
    <3>4. CASE \/ EvaluatePredicate(w) \/ Sleep(w) \/ WakeSpuriously(w) \/ Evaluate(w)
               \/ Evaluated(w) \/ ReleaseSlot(w)
      BY <3>4 DEF EvaluatePredicate, Sleep, WakeSpuriously, Evaluate, Evaluated, ReleaseSlot,
                  Proceed, TypeOK, Predicting
    <3> QED
      BY <1>4, <3>1, <3>2, <3>3, <3>4
  <2>3. \A v \in Workers : at'[v] \in Closes \cup Predicting => task'[v] = task[v]
    <3>1. CASE StartTask(w)
      <4>1. Head(tasks).kind \in {"open", "predict", "close"}
        BY <3>1, TaskFacts DEF StartTask, TypeOK
      <4> QED
        BY <3>1, <4>1 DEF StartTask, TypeOK, Predicting
    <3>2. CASE \/ Open(w) \/ Find(w) \/ Cancel(w) \/ Settle(w) \/ Erase(w)
      BY <3>2 DEF Open, Find, Cancel, Settle, Erase, Respond, TypeOK, Predicting
    <3> QED
      BY <1>4, <3>1, <3>2 DEF EvaluatePredicate, Sleep, WakeSpuriously, Evaluate, Evaluated,
                              ReleaseSlot, NotifyOne
  <2> QED
    BY <2>1, <2>2, <2>3 DEF ClosingOK, NoPredictionAfterDestroy
<1>5. ASSUME NEW t \in Requests, Submit(t) PROVE ClosingOK' /\ NoPredictionAfterDestroy'
  BY <1>5 DEF Submit, ClosingOK, NoPredictionAfterDestroy, session_vars
<1>6. CASE Shutdown
  BY <1>6 DEF Shutdown, ClosingOK, NoPredictionAfterDestroy, TypeOK
<1>7. CASE Reap \/ Stop \/ CloseConnections \/ UNCHANGED vars
  BY <1>7 DEF Reap, Stop, CloseConnections, vars, session_vars, ClosingOK,
              NoPredictionAfterDestroy
<1> QED
  BY <1>1, <1>2, <1>3, <1>4, <1>5, <1>6, <1>7 DEF Next, Work

-----------------------------------------------------------------------------
\* The slot holders are some of the finitely many workers.
LEMMA HoldersAreFinite ==
  /\ IsFiniteSet(SlotHolders)
  /\ Cardinality(SlotHolders) \in Nat
BY SessionAssumption, FS_Subset, FS_CardinalityType DEF SlotHolders

\* When no slot is free, every worker but the one that asks holds one.
LEMMA EveryoneElseHolds ==
  ASSUME SlotsAreCounted, NEW w \in Workers \ SlotHolders, running >= MaxConcurrent
  PROVE  SlotHolders = Workers \ {w} /\ running = MaxConcurrent
<1>1. IsFiniteSet(Workers \ {w}) /\ Cardinality(Workers \ {w}) = Cardinality(Workers) - 1
  BY SessionAssumption, FS_RemoveElement
<1>2. SlotHolders \subseteq Workers \ {w}
  BY DEF SlotHolders
<1>3. running = MaxConcurrent
  BY HoldersAreFinite, SessionAssumption DEF SlotsAreCounted
<1>4. Cardinality(SlotHolders) = Cardinality(Workers \ {w})
  BY <1>1, <1>3, SessionAssumption DEF SlotsAreCounted
<1> QED
  BY <1>1, <1>2, <1>3, <1>4, FS_Subset

\* running_predictions_ follows the set of slot holders.
LEMMA SlotStep == TypeOK /\ SlotsAreCounted /\ [Next]_vars => SlotsAreCounted'
<1> SUFFICES ASSUME TypeOK, SlotsAreCounted, [Next]_vars PROVE SlotsAreCounted'
  OBVIOUS
<1>1. ASSUME NEW w \in Workers, EvaluatePredicate(w) PROVE SlotsAreCounted'
  <2>1. CASE UNCHANGED running /\ (Proceed(w, "cancelled") \/ Proceed(w, "deciding"))
    <3>1. SlotHolders' = SlotHolders
      BY <1>1, <2>1 DEF EvaluatePredicate, Proceed, SlotHolders, TypeOK
    <3> QED
      BY <2>1, <3>1 DEF SlotsAreCounted
  <2>2. CASE running < MaxConcurrent /\ running' = running + 1 /\ Proceed(w, "granted")
    <3>1. SlotHolders' = SlotHolders \cup {w} /\ w \notin SlotHolders
      BY <1>1, <2>2 DEF EvaluatePredicate, Proceed, SlotHolders, TypeOK
    <3>2. Cardinality(SlotHolders') = Cardinality(SlotHolders) + 1
      BY <3>1, HoldersAreFinite, FS_AddElement
    <3> QED
      BY <2>2, <3>2, SessionAssumption DEF SlotsAreCounted, TypeOK
  <2> QED
    BY <1>1, <2>1, <2>2 DEF EvaluatePredicate
<1>2. ASSUME NEW w \in Workers, ReleaseSlot(w) PROVE SlotsAreCounted'
  <2>1. SlotHolders' = SlotHolders \ {w} /\ w \in SlotHolders
    BY <1>2 DEF ReleaseSlot, Proceed, SlotHolders, TypeOK
  <2>2. Cardinality(SlotHolders') = Cardinality(SlotHolders) - 1
    BY <2>1, HoldersAreFinite, FS_RemoveElement
  <2>3. Cardinality(SlotHolders) # 0
    BY <2>1, HoldersAreFinite, FS_EmptySet
  <2>4. running' = running - 1
    BY <1>2, <2>3 DEF ReleaseSlot, SlotsAreCounted, TypeOK
  <2> QED
    BY <2>2, <2>4, SessionAssumption DEF SlotsAreCounted, TypeOK
<1>3. ASSUME NEW w \in Workers,
             \/ StartTask(w) \/ Open(w) \/ Find(w) \/ Accept(w) \/ Sleep(w) \/ WakeSpuriously(w)
             \/ Cancel(w) \/ Evaluate(w) \/ Evaluated(w) \/ NotifyOne(w) \/ Settle(w)
             \/ MarkClosing(w) \/ DestroyEngine(w) \/ Erase(w)
      PROVE  SlotsAreCounted'
  <2>1. UNCHANGED running
    BY <1>3 DEF StartTask, Open, Find, Accept, Sleep, WakeSpuriously, Cancel, Evaluate, Evaluated,
                NotifyOne, Settle, MarkClosing, DestroyEngine, Erase
  <2>2. \A v \in Workers : at'[v] \in Slots <=> at[v] \in Slots
    <3>1. CASE StartTask(w)
      <4>1. Head(tasks).kind \in {"open", "predict", "close"}
        BY <3>1, TaskFacts DEF StartTask, TypeOK
      <4> QED
        BY <3>1, <4>1 DEF StartTask, TypeOK, Slots
    <3>2. CASE NotifyOne(w) \/ MarkClosing(w)
      BY <3>2, SMTT(20) DEF NotifyOne, MarkClosing, Respond, Sleeping, TypeOK, Slots
    <3>3. CASE \/ Open(w) \/ Find(w) \/ Accept(w) \/ Cancel(w) \/ Settle(w) \/ Erase(w)
      BY <3>3 DEF Open, Find, Accept, Cancel, Settle, Erase, Respond, Proceed, TypeOK, Slots
    <3>4. CASE Sleep(w) \/ WakeSpuriously(w) \/ Evaluate(w) \/ Evaluated(w) \/ DestroyEngine(w)
      BY <3>4 DEF Sleep, WakeSpuriously, Evaluate, Evaluated, DestroyEngine, Proceed, TypeOK, Slots
    <3> QED
      BY <1>3, <3>1, <3>2, <3>3, <3>4
  <2>3. SlotHolders' = SlotHolders
    BY <2>2 DEF SlotHolders, Slots
  <2> QED
    BY <2>1, <2>3 DEF SlotsAreCounted
<1>4. ASSUME NEW t \in Requests, Submit(t) PROVE SlotsAreCounted'
  BY <1>4 DEF Submit, SlotsAreCounted, SlotHolders
<1>5. CASE Reap \/ Stop \/ CloseConnections \/ Shutdown \/ UNCHANGED vars
  BY <1>5 DEF Reap, Stop, CloseConnections, Shutdown, vars, SlotsAreCounted, SlotHolders
<1> QED
  BY <1>1, <1>2, <1>3, <1>4, <1>5 DEF Next, Work

-----------------------------------------------------------------------------
\* Nobody joins or leaves the company of a waiting worker but by giving a slot back.
LEMMA AloneStep == TypeOK /\ SlotsAreCounted /\ AloneOK /\ [Next]_vars => AloneOK'
<1> SUFFICES ASSUME TypeOK, SlotsAreCounted, AloneOK, [Next]_vars PROVE AloneOK'
  OBVIOUS
<1> DEFINE Waits == {"deciding", "blocked"}
<1>0. ASSUME NEW w \in Workers, at[w] \notin Slots \cup {"notifying"}
      PROVE  \A v \in Workers \ {w} : at[v] \notin Waits
  BY <1>0 DEF AloneOK
<1>1. ASSUME NEW w \in Workers,
             \/ StartTask(w) \/ Open(w) \/ Find(w) \/ Accept(w) \/ WakeSpuriously(w) \/ Cancel(w)
             \/ Settle(w) \/ MarkClosing(w) \/ DestroyEngine(w) \/ Erase(w)
      PROVE  AloneOK'
  <2>1. at[w] \notin Slots \cup {"notifying"}
    BY <1>1 DEF StartTask, Open, Find, Accept, WakeSpuriously, Cancel, Settle, MarkClosing,
                DestroyEngine, Erase, Slots
  <2>2. at'[w] \notin Waits
    <3>1. CASE StartTask(w)
      <4>1. Head(tasks).kind \in {"open", "predict", "close"}
        BY <3>1, TaskFacts DEF StartTask, TypeOK
      <4> QED
        BY <3>1, <4>1 DEF StartTask, TypeOK
    <3> QED
      BY <1>1, <3>1 DEF Open, Find, Accept, WakeSpuriously, Cancel, Settle, MarkClosing,
                        DestroyEngine, Erase, Respond, Proceed, TypeOK
  <2>3. \A v \in Workers \ {w} : at'[v] \in Waits => at[v] \in Waits
    <3>1. CASE MarkClosing(w)
      BY <3>1 DEF MarkClosing, Respond, Sleeping, TypeOK
    <3> QED
      BY <1>1, <3>1 DEF StartTask, Open, Find, Accept, WakeSpuriously, Cancel, Settle,
                        DestroyEngine, Erase, Respond, Proceed, TypeOK
  <2> QED
    BY <2>1, <2>2, <2>3, <1>0 DEF AloneOK
<1>2. ASSUME NEW w \in Workers, EvaluatePredicate(w) PROVE AloneOK'
  <2>1. \A v \in Workers \ {w} : at[v] \notin Waits /\ at'[v] = at[v]
    BY <1>2, <1>0 DEF EvaluatePredicate, Proceed, TypeOK, Slots
  <2>2. CASE at'[w] # "deciding"
    <3>1. at'[w] \notin Waits
      BY <1>2, <2>2 DEF EvaluatePredicate, Proceed, TypeOK
    <3> QED
      BY <2>1, <3>1 DEF AloneOK
  <2>3. CASE at'[w] = "deciding"
    <3>1. ~closing[task[w].session] /\ running >= MaxConcurrent /\ UNCHANGED <<task, closing>>
      BY <1>2, <2>3, SessionAssumption DEF EvaluatePredicate, Proceed, TypeOK, session_vars
    <3>2. w \notin SlotHolders
      BY <1>2 DEF EvaluatePredicate, SlotHolders
    <3>3. SlotHolders = Workers \ {w}
      BY <3>1, <3>2, EveryoneElseHolds
    <3>4. \A v \in Workers \ {w} : at[v] \in Slots
      BY <3>3 DEF SlotHolders, Slots
    <3> QED
      BY <2>1, <2>3, <3>1, <3>4 DEF AloneOK
  <2> QED
    BY <2>2, <2>3
<1>3. ASSUME NEW w \in Workers, Sleep(w) PROVE AloneOK'
  <2>1. at' = [at EXCEPT ![w] = "blocked"] /\ at[w] = "deciding" /\ UNCHANGED <<task, closing>>
    BY <1>3 DEF Sleep, Proceed, session_vars
  <2>2. \A v \in Workers \ {w} : at[v] \notin Waits /\ at'[v] = at[v]
    BY <2>1, <1>0 DEF TypeOK, Slots
  <2> QED
    BY <2>1, <2>2 DEF AloneOK, TypeOK
<1>4. ASSUME NEW w \in Workers, Evaluate(w) \/ Evaluated(w) PROVE AloneOK'
  <2>1. PICK step \in Slots : at' = [at EXCEPT ![w] = step]
    BY <1>4 DEF Evaluate, Evaluated, Proceed, Slots
  <2>2. UNCHANGED <<task, closing>> /\ at[w] \in Slots
    BY <1>4 DEF Evaluate, Evaluated, session_vars, Slots
  <2>3. \A v \in Workers : /\ at'[v] \in Slots <=> at[v] \in Slots
                           /\ at'[v] \notin Slots => at'[v] = at[v]
    BY <2>1, <2>2 DEF TypeOK
  <2> QED
    BY <2>2, <2>3 DEF AloneOK, Slots
<1>5. ASSUME NEW w \in Workers, ReleaseSlot(w) PROVE AloneOK'
  <2>1. at' = [at EXCEPT ![w] = "notifying"] /\ at[w] = "releasing" /\ UNCHANGED <<task, closing>>
    BY <1>5 DEF ReleaseSlot, Proceed, session_vars
  <2>2. \A v \in Workers : at'[v] # "deciding"
    BY <1>5, <2>1 DEF ReleaseSlot, PredictionMutexFree, TypeOK
  <2> QED
    BY <2>1, <2>2 DEF AloneOK, TypeOK
<1>6. ASSUME NEW w \in Workers, NotifyOne(w) PROVE AloneOK'
  <2>1. \A v \in Workers : at[v] # "deciding"
    BY <1>6 DEF NotifyOne, AloneOK, Slots
  <2>2. \A u, v \in Sleeping : u = v
    BY DEF Sleeping, AloneOK, Slots
  <2>3. \A v \in Workers : at'[v] \notin Waits
    <3>1. CASE Sleeping = {}
      BY <1>6, <2>1, <3>1 DEF NotifyOne, Sleeping, TypeOK
    <3>2. CASE Sleeping # {}
      <4>1. PICK v \in Sleeping : at' = [at EXCEPT ![w] = "settling", ![v] = "queued"]
        BY <1>6, <3>2 DEF NotifyOne
      <4>2. \A u \in Workers \ {v} : at[u] \notin Waits
        BY <2>1, <2>2, <4>1 DEF Sleeping
      <4>3. v \in Workers
        BY <4>1 DEF Sleeping
      <4> QED
        BY <4>1, <4>2, <4>3 DEF TypeOK
    <3> QED
      BY <3>1, <3>2
  <2> QED
    BY <2>3 DEF AloneOK
<1>7. ASSUME NEW t \in Requests, Submit(t) PROVE AloneOK'
  BY <1>7 DEF Submit, AloneOK, session_vars
<1>8. CASE Shutdown
  <2>1. \A v \in Workers : at'[v] = "idle"
    BY <1>8 DEF Shutdown
  <2> QED
    BY <2>1 DEF AloneOK
<1>9. CASE Reap \/ Stop \/ CloseConnections \/ UNCHANGED vars
  BY <1>9 DEF Reap, Stop, CloseConnections, vars, session_vars, AloneOK
<1> QED
  BY <1>1, <1>2, <1>3, <1>4, <1>5, <1>6, <1>7, <1>8, <1>9 DEF Next, Work

-----------------------------------------------------------------------------
\* The inductive invariant.
Inv ==
  /\ TypeOK
  /\ OnePredictionPerSession
  /\ ClosingOK
  /\ NoPredictionAfterDestroy
  /\ SlotsAreCounted
  /\ AloneOK

\* If nobody is about to notify, the others of AloneOK hold all the slots.
LEMMA SleepersHaveAReason == TypeOK /\ SlotsAreCounted /\ AloneOK => NoLostWakeup
<1> SUFFICES ASSUME TypeOK, SlotsAreCounted, AloneOK, NEW w \in Sleeping,
                    \A v \in Workers : at[v] # "notifying"
             PROVE  ~closing[task[w].session] /\ running = MaxConcurrent
  BY DEF NoLostWakeup, AloneOK, Sleeping
<1>1. w \in Workers /\ at[w] = "blocked"
  BY DEF Sleeping
<1>2. SlotHolders = Workers \ {w}
  BY <1>1 DEF AloneOK, SlotHolders, Slots
<1>3. Cardinality(SlotHolders) = Cardinality(Workers) - 1
  BY <1>1, <1>2, SessionAssumption, FS_RemoveElement
<1> QED
  BY <1>1, <1>3, SessionAssumption DEF AloneOK, SlotsAreCounted

\* The invariant holds in every state of the service.
THEOREM SessionInvariant == Spec => []Inv
<1>1. Init => Inv
  <2> SUFFICES ASSUME Init PROVE Inv
    OBVIOUS
  <2>1. SlotHolders = {}
    BY DEF Init, SlotHolders
  <2>2. SlotsAreCounted
    BY <2>1, FS_EmptySet, SessionAssumption DEF Init, SlotsAreCounted
  <2>3. OnePredictionPerSession /\ ClosingOK /\ NoPredictionAfterDestroy /\ AloneOK
    BY DEF Init, OnePredictionPerSession, ClosingOK, NoPredictionAfterDestroy, AloneOK, Predicting
  <2> QED
    BY <2>2, <2>3, TypeInit DEF Inv
<1>2. Inv /\ [Next]_vars => Inv'
  BY TypeStep, OneStep, ClosedStep, SlotStep, AloneStep DEF Inv
<1> QED
  BY <1>1, <1>2, PTL DEF Spec

\* Every variable of the service keeps its type.
THEOREM SessionTypes == Spec => []TypeOK
BY SessionInvariant, PTL DEF Inv

\* A session's engine is used by one prediction at a time, and its flag is set
\* exactly while one is under way.
THEOREM OneAtATime == Spec => []OnePredictionPerSession
BY SessionInvariant, PTL DEF Inv

\* Once close_session() has destroyed an engine no prediction of its session is
\* under way any more.
THEOREM ClosedIsClosed == Spec => []NoPredictionAfterDestroy
BY SessionInvariant, PTL DEF Inv

\* running_predictions_ counts the slot holders and stays within the limit.
THEOREM SlotsAreExact == Spec => []SlotsAreCounted
BY SessionInvariant, PTL DEF Inv

\* A worker sleeps on prediction_condition_ only with a reason to.
THEOREM NobodySleepsBesideASlot == Spec => []NoLostWakeup
<1>1. Inv => NoLostWakeup
  BY SleepersHaveAReason DEF Inv
<1> QED
  BY <1>1, SessionInvariant, PTL

=============================================================================
