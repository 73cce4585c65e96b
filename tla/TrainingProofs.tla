--------------------------- MODULE TrainingProofs ---------------------------
(***************************************************************************)
(* Proofs about TrainingCommits, for any number of contexts, services,     *)
(* commits and passwords.  The invariant follows a record and its          *)
(* withdrawal from the queue to the service: the withdrawal is behind the  *)
(* record in the queue, is sent when the answer to the record has arrived, *)
(* and finds no other entry of the event.  What is staged is in the order  *)
(* of the clock, which a failed flush and the settling rely on.            *)
(***************************************************************************)
EXTENDS TrainingCommits, PositionsProofs

RecordOf(e) == [kind |-> "record", event |-> e]
DiscardOf(e) == [kind |-> "discard", event |-> e]

Recorded == 1..Len(commits)

\* The record of e has still to be handled by service s.
Recording(s, e) == op[s].kind = "record" /\ op[s].event = e
Holding(s, e) == RecordOf(e) \in pool[s] \/ Recording(s, e)
Queued(r) == \E k \in DOMAIN queue : queue[k] = r

\* Requests are about commits that were made.
EventsKnown ==
  /\ \A k \in DOMAIN queue : queue[k].event \in Recorded
  /\ \A s \in Services :
       /\ \A r \in pool[s] : r.event \in Recorded
       /\ op[s].kind = "record" => op[s].event \in Recorded
       /\ withdrawn[s] \subseteq Recorded

\* One service runs, a final flush finds no request, and nothing is left of a
\* process that is gone.
ServicesOK ==
  /\ \A s, t \in Services : phase[s] = "running" /\ phase[t] = "running" => s = t
  /\ \A s \in Services :
       /\ phase[s] \in {"gone", "destroying"} => pool[s] = {}
       /\ phase[s] # "running" /\ op[s].kind = "flush" => pool[s] = {}
       /\ phase[s] = "gone" => op[s].kind = "none"

\* The record of a commit is in one place: in the queue, or with one service,
\* where it waits or is handled.
RecordsOnce ==
  /\ \A j, k \in DOMAIN queue : queue[j] = queue[k] /\ queue[j].kind = "record" => j = k
  /\ \A s \in Services, e \in Recorded :
       /\ Queued(RecordOf(e)) => ~Holding(s, e)
       /\ ~(RecordOf(e) \in pool[s] /\ Recording(s, e))
       /\ \A t \in Services : Holding(s, e) /\ Holding(t, e) => s = t

\* What a Backspace may still withdraw, or has withdrawn, has no record with a
\* running service unless the transport waits for its answer.
Withdrawing(e) == e \in {recent, committing} \/ Queued(DiscardOf(e))

RecordAwaited ==
  \A s \in Services, e \in Recorded :
    Withdrawing(e) /\ phase[s] = "running" /\ Holding(s, e) => awaited = RecordOf(e)

\* A withdrawal comes after the record: in the queue, and where it is handled.
WithdrawalsLast ==
  /\ \A j, k \in DOMAIN queue : \A e \in Recorded :
       queue[j] = DiscardOf(e) /\ queue[k] = RecordOf(e) => k < j
  /\ \A s \in Services, e \in Recorded :
       DiscardOf(e) \in pool[s] \/ e \in withdrawn[s] => ~Queued(RecordOf(e)) /\ ~Holding(s, e)

\* Entries are about commits that were made, in the order of the clock; a record
\* that has still to be handled is not staged.
StagedOK ==
  \A s \in Services : \A i \in DOMAIN staged[s] :
    /\ staged[s][i].event \in Recorded /\ staged[s][i].at <= clock[s]
    /\ \A j \in DOMAIN staged[s] : i < j => staged[s][i].at < staged[s][j].at
    /\ ~Queued(RecordOf(staged[s][i].event)) /\ ~Holding(s, staged[s][i].event)

\* Only the latest commit can be withdrawn, and what is due in a running
\* service cannot, unless it was staged too early.
SettledOK ==
  /\ committing \in {None, Len(commits)}
  /\ committing = None => recent \in {None, Len(commits)}
  /\ \A s \in Services :
       /\ elapsed[s] <= clock[s]
       /\ \A i \in DOMAIN staged[s] :
            LET entry == staged[s][i]
            IN  entry.at <= elapsed[s] => entry.ahead \/ entry.event <= expired
       /\ phase[s] = "running" /\ op[s].kind = "flush" => op[s].until <= elapsed[s]

Inv ==
  /\ TypeOK
  /\ EventsKnown
  /\ ServicesOK
  /\ RecordsOnce
  /\ RecordAwaited
  /\ WithdrawalsLast
  /\ OneStagedPerSource
  /\ StagedOK
  /\ WithdrawalIsFinal
  /\ TextIsKept
  /\ SettledOK

-----------------------------------------------------------------------------
(* What the operators return *)

\* The first target is a target, and a position of staged_.
LEMMA FirstTarget ==
  ASSUME TypeOK, NEW s \in Services
  PROVE  /\ Targets(s) \subseteq DOMAIN staged[s] /\ DOMAIN staged[s] \subseteq Nat \ {0}
         /\ Targets(s) # {} => /\ Min(Targets(s)) \in Targets(s)
                               /\ \A i \in Targets(s) : Min(Targets(s)) <= i
<1>1. staged[s] \in Seq(StagedCommit) /\ Len(staged[s]) \in Nat /\ DOMAIN staged[s] = 1..Len(staged[s])
  BY LenProperties DEF TypeOK
<1>2. Targets(s) \in SUBSET (1..Len(staged[s]))
  BY <1>1 DEF Targets
<1>3. ASSUME Targets(s) # {}
      PROVE  /\ Min(Targets(s)) \in Targets(s)
             /\ \A i \in Targets(s) : Min(Targets(s)) <= i
  <2>1. \E m \in Targets(s) : \A i \in Targets(s) : m <= i
    BY <1>1, <1>2, <1>3, LeastPosition
  <2> QED
    BY <2>1 DEF Min
<1> QED
  BY <1>1, <1>2, <1>3

\* Removing a commit keeps a part of the entries.
LEMMA WithoutEventKeeps ==
  ASSUME NEW entries \in Seq(StagedCommit), NEW e
  PROVE  \/ WithoutEvent(entries, e) = entries /\ \A i \in DOMAIN entries : entries[i].event # e
         \/ \E i \in DOMAIN entries :
              entries[i].event = e /\ WithoutEvent(entries, e) = Keep(entries, DOMAIN entries \ {i})
<1> DEFINE found == {i \in DOMAIN entries : entries[i].event = e}
<1>1. CASE found = {}
  BY <1>1 DEF WithoutEvent
<1>2. CASE found # {}
  <2>1. Len(entries) \in Nat /\ found \in SUBSET (1..Len(entries))
    BY LenProperties
  <2>2. \E m \in found : \A i \in found : m <= i
    BY <1>2, <2>1, LeastPosition
  <2>3. Min(found) \in found
    BY <2>2 DEF Min
  <2>4. WithoutEvent(entries, e) = Keep(entries, DOMAIN entries \ {Min(found)})
    BY <1>2 DEF WithoutEvent
  <2> QED
    BY <2>3, <2>4
<1> QED
  BY <1>1, <1>2

\* Keeping a part of the entries keeps their type.
LEMMA KeepType ==
  ASSUME NEW entries \in Seq(StagedCommit), NEW S \in SUBSET (DOMAIN entries)
  PROVE  Keep(entries, S) \in Seq(StagedCommit)
BY KeepEmbeds

\* Removing a commit keeps the type of the entries.
LEMMA WithoutEventType ==
  ASSUME NEW entries \in Seq(StagedCommit), NEW e
  PROVE  WithoutEvent(entries, e) \in Seq(StagedCommit)
<1>1. CASE WithoutEvent(entries, e) = entries
  BY <1>1
<1>2. ASSUME NEW i \in DOMAIN entries, WithoutEvent(entries, e) = Keep(entries, DOMAIN entries \ {i})
      PROVE  WithoutEvent(entries, e) \in Seq(StagedCommit)
  BY <1>2, KeepType
<1>3. \/ WithoutEvent(entries, e) = entries
      \/ \E i \in DOMAIN entries : WithoutEvent(entries, e) = Keep(entries, DOMAIN entries \ {i})
  BY WithoutEventKeeps
<1> QED
  BY <1>1, <1>2, <1>3

\* The store of a new process.
LEMMA EmptyStoreTypes ==
  ASSUME TypeOK, NEW s \in Services, EmptyStore(s)
  PROVE  /\ staged' \in [Services -> Seq(StagedCommit)]
         /\ clock' \in [Services -> Nat] /\ elapsed' \in [Services -> Nat]
         /\ op' \in [Services -> Operation] /\ withdrawn' \in [Services -> SUBSET Events]
         /\ \A t \in Services : op'[t].kind = "record" => op'[t].event # None
<1>1. NoOperation \in Operation /\ NoOperation.kind # "record" /\ <<>> \in Seq(StagedCommit)
  BY TrainingAssumption DEF NoOperation, Operation, None
<1> QED
  BY <1>1 DEF EmptyStore, TypeOK

-----------------------------------------------------------------------------
(* Types *)

\* The types hold at the start.
LEMMA TypeInit == Init => TypeOK
<1> SUFFICES ASSUME Init PROVE TypeOK
  OBVIOUS
<1>1. NoOperation \in Operation
  BY TrainingAssumption DEF NoOperation, Operation, None
<1>2. commits \in Seq(Contexts) /\ Len(commits) = 0 /\ queue \in Seq(Request)
  BY DEF Init
<1>3. /\ pool \in [Services -> SUBSET Request] /\ staged \in [Services -> Seq(StagedCommit)]
      /\ withdrawn \in [Services -> SUBSET Events] /\ op \in [Services -> Operation]
  BY <1>1 DEF Init
<1> QED
  BY <1>2, <1>3, TrainingAssumption DEF Init, TypeOK, None, Unprotected, NoOperation

\* Every step of the engine, the transport and the settings window.
LEMMA TypeOutside ==
  ASSUME TypeOK,
         \/ InputMethod \/ FailRequest \/ Settings
         \/ \E s \in Services : StartService(s) \/ StopService(s) \/ SendRequest(s)
  PROVE  TypeOK'
<1> USE TrainingAssumption
<1>0. /\ Len(commits) \in Nat /\ Len(commits) <= MaxCommits
      /\ committing \in 0..Len(commits) /\ recent \in 0..Len(commits) /\ expired \in 0..Len(commits)
  BY DEF TypeOK
<1>1. ASSUME NEW c \in Contexts, CommitText(c) PROVE TypeOK'
  <2>1. Len(commits) + 1 \in Events /\ [kind |-> "record", event |-> Len(commits) + 1] \in Request
    BY <1>0, <1>1 DEF CommitText, Events, Request
  <2>4. /\ commits' = Append(commits, c)
        /\ queue' \in {queue, Append(queue, [kind |-> "record", event |-> Len(commits) + 1])}
    BY <1>1 DEF CommitText
  <2>5. commits \in Seq(Contexts) /\ queue \in Seq(Request)
    BY DEF TypeOK
  <2>6. commits' \in Seq(Contexts) /\ Len(commits') = Len(commits) + 1
    BY <2>4, <2>5, AppendProperties
  <2>7. Append(queue, [kind |-> "record", event |-> Len(commits) + 1]) \in Seq(Request)
    BY <2>1, <2>5, AppendProperties
  <2>2. commits' \in Seq(Contexts) /\ Len(commits') = Len(commits) + 1 /\ queue' \in Seq(Request)
    BY <2>4, <2>5, <2>6, <2>7
  <2>3. {committing', recent', expired'} \subseteq 0..Len(commits') /\ Len(commits') <= MaxCommits
    BY <1>0, <1>1, <2>2 DEF CommitText
  <2> QED
    BY <1>1, <2>2, <2>3 DEF CommitText, TypeOK, store_vars, database_vars
<1>2. ASSUME NEW c \in Contexts, Backspace(c) PROVE TypeOK'
  <2>1. recent \in Events
    BY <1>0, <1>2 DEF Backspace, Events, None
  <2>3. [kind |-> "discard", event |-> recent] \in Request
    BY <2>1 DEF Request
  <2>4. queue' \in {queue, Append(queue, [kind |-> "discard", event |-> recent])}
    BY <1>2 DEF Backspace
  <2>5. queue \in Seq(Request)
    BY DEF TypeOK
  <2>2. queue' \in Seq(Request)
    BY <2>3, <2>4, <2>5, AppendProperties
  <2> QED
    BY <1>2, <2>2, SMTT(20) DEF Backspace, TypeOK, None, store_vars, database_vars
<1>3. CASE RememberCommit
  BY <1>3, SMTT(20) DEF RememberCommit, TypeOK, None, transport_vars, store_vars, database_vars
<1>4. CASE ForgetCommit
  BY <1>4 DEF ForgetCommit, TypeOK, None, transport_vars, store_vars, database_vars
<1>5. CASE WindowCloses
  BY SMTT(30), <1>5 DEF WindowCloses, TypeOK, transport_vars, store_vars, database_vars
<1>6. CASE Reconfigure
  BY <1>6, SMTT(20) DEF Reconfigure, TypeOK, None, store_vars, database_vars
<1>7. CASE FailRequest
  <2>1. queue' \in Seq(Request)
    BY <1>7 DEF FailRequest, TypeOK
  <2> QED
    BY <1>7, <2>1 DEF FailRequest, TypeOK, engine_vars, store_vars, database_vars
<1>8. ASSUME NEW s \in Services, StartService(s) PROVE TypeOK'
  BY <1>8 DEF StartService, TypeOK, engine_vars, transport_vars, store_vars, database_vars
<1>9. ASSUME NEW s \in Services, StopService(s) PROVE TypeOK'
  BY <1>9 DEF StopService, TypeOK, engine_vars, store_vars, database_vars
<1>10. ASSUME NEW s \in Services, SendRequest(s) PROVE TypeOK'
  <2>1. queue' \in Seq(Request) /\ Head(queue) \in Request
    BY <1>10 DEF SendRequest, TypeOK
  <2>2. pool' \in [Services -> SUBSET Request]
    BY <1>10, <2>1, SMTT(20) DEF SendRequest, TypeOK
  <2> QED
    BY <1>10, <2>1, <2>2 DEF SendRequest, TypeOK, engine_vars, store_vars, database_vars
<1>11. CASE Settings
  <2>1. CASE ConfigurePassword
    BY <2>1, SMTT(20) DEF ConfigurePassword, TypeOK, None, engine_vars, transport_vars, store_vars
  <2>2. CASE ResetConversationData
    BY <2>2 DEF ResetConversationData, TypeOK, None, Unprotected, engine_vars, transport_vars, store_vars
  <2>3. ASSUME NEW enabled \in BOOLEAN, SetRecordingEnabled(enabled) PROVE TypeOK'
    BY <2>3 DEF SetRecordingEnabled, TypeOK, None, engine_vars, transport_vars, store_vars
  <2> QED
    BY <1>11, <2>1, <2>2, <2>3 DEF Settings
<1> QED
  BY <1>1, <1>2, <1>3, <1>4, <1>5, <1>6, <1>7, <1>8, <1>9, <1>10, <1>11 DEF InputMethod

\* Every step of a service.
LEMMA TypeStore ==
  ASSUME TypeOK, NEW s \in Services, CrashService(s) \/ Store(s)
  PROVE  TypeOK'
<1> USE TrainingAssumption
<1>0. /\ staged[s] \in Seq(StagedCommit) /\ clock[s] \in Nat /\ elapsed[s] \in Nat
      /\ op[s] \in Operation /\ NoOperation \in Operation /\ NoOperation.kind = "none"
      /\ op[s].kind = "record" => op[s].event \in Events
      /\ NoRequest \in Request \cup {NoRequest}
      /\ \A r : r \in pool[s] => r \in Request
  BY SMTT(20) DEF TypeOK, NoOperation, Operation, None, Events
<1>00. ASSUME NEW operation \in Operation, op' = [op EXCEPT ![s] = operation],
              operation.kind = "record" => operation.event # None
       PROVE  /\ op' \in [Services -> Operation]
              /\ \A t \in Services : op'[t].kind = "record" => op'[t].event # None
  BY <1>00 DEF TypeOK
<1>1. CASE CrashService(s)
  BY <1>1, EmptyStoreTypes DEF CrashService, TypeOK, engine_vars, database_vars
<1>2. ASSUME NEW e \in Events, BeginRecord(s, e) PROVE TypeOK'
  <2>1. awaited' \in Request \cup {NoRequest}
    BY <1>2 DEF BeginRecord, Answer, TypeOK
  <2> DEFINE operation == [kind |-> "record", event |-> e, until |-> 0, next |-> 1, key |-> None]
  <2>2. operation \in Operation /\ operation.event # None
    BY DEF Operation, None, Events
  <2>3. op' = op \/ op' = [op EXCEPT ![s] = operation]
    BY <1>2 DEF BeginRecord, Begin
  <2> HIDE DEF operation
  <2>4. CASE op' = op
    BY <1>2, <2>1, <2>4 DEF BeginRecord, TypeOK, engine_vars, database_vars
  <2>5. CASE op' = [op EXCEPT ![s] = operation]
    BY <1>00, <1>2, <2>1, <2>2, <2>5 DEF BeginRecord, TypeOK, engine_vars, database_vars
  <2> QED
    BY <2>3, <2>4, <2>5
<1>3. CASE FinishRecord(s)
  <2>1. awaited' \in Request \cup {NoRequest} /\ op' = [op EXCEPT ![s] = NoOperation]
    BY <1>3 DEF FinishRecord, Answer, TypeOK
  <2>2. clock' \in [Services -> Nat] /\ staged' \in [Services -> Seq(StagedCommit)]
    <3>1. CASE Len(staged[s]) >= StagedLimit
      BY <1>3, <3>1 DEF FinishRecord, TypeOK
    <3>2. CASE ~(Len(staged[s]) >= StagedLimit)
      <4> DEFINE entry == [event |-> op[s].event, at |-> clock[s] + 1,
                           ahead |-> op[s].event = committing, text |-> TRUE]
      <4>1. op[s].event \in Events /\ clock[s] + 1 \in Nat \ {0}
        BY <1>0, <1>3 DEF FinishRecord
      <4>2. entry \in StagedCommit
        BY <4>1 DEF StagedCommit
      <4>3. Append(staged[s], entry) \in Seq(StagedCommit)
        BY <1>0, <4>2, AppendProperties
      <4>4. /\ staged' = [staged EXCEPT ![s] = Append(staged[s], entry)]
            /\ clock' = [clock EXCEPT ![s] = clock[s] + 1]
        BY <1>3, <3>2 DEF FinishRecord
      <4> HIDE DEF entry
      <4> QED
        BY <4>1, <4>3, <4>4 DEF TypeOK
    <3> QED
      BY <3>1, <3>2
  <2> QED
    BY <1>0, <1>00, <1>3, <2>1, <2>2 DEF FinishRecord, TypeOK, engine_vars, database_vars
<1>4. ASSUME NEW e \in Events, Discard(s, e) PROVE TypeOK'
  <2>1. awaited' \in Request \cup {NoRequest}
    BY <1>4 DEF Discard, Answer, TypeOK
  <2>2. staged' \in [Services -> Seq(StagedCommit)]
    BY <1>0, <1>4, WithoutEventType DEF Discard, TypeOK
  <2> QED
    BY <1>4, <2>1, <2>2 DEF Discard, TypeOK, engine_vars, database_vars
<1>5. ASSUME NEW e \in Events, Insert(s, e) PROVE TypeOK'
  <2> DEFINE i == Min(Targets(s))
             row == [event |-> e, key |-> op[s].key]
  <2>1. i \in DOMAIN staged[s] /\ i \in Nat \ {0}
    BY <1>5, FirstTarget DEF Insert
  <2>2. row \in [event : Events, key : 1..MaxKeys]
    BY <1>0, <1>5, SMTT(20) DEF Insert, Operation, None
  <2>3. Keep(staged[s], DOMAIN staged[s] \ {i}) \in Seq(StagedCommit)
    BY <1>0, KeepType
  <2>4. staged' \in [Services -> Seq(StagedCommit)]
    <3>1. staged' = staged \/ staged' = [staged EXCEPT ![s] = Keep(staged[s], DOMAIN staged[s] \ {i})]
      BY <1>5 DEF Insert
    <3>2. staged \in [Services -> Seq(StagedCommit)]
      BY DEF TypeOK
    <3> DEFINE kept == Keep(staged[s], DOMAIN staged[s] \ {i})
    <3>3. kept \in Seq(StagedCommit) /\ (staged' = staged \/ staged' = [staged EXCEPT ![s] = kept])
      BY <2>3, <3>1
    <3> HIDE DEF kept
    <3> QED
      BY <3>2, <3>3
  <2> DEFINE Moved(n) == [kind |-> op[s].kind, event |-> op[s].event, until |-> op[s].until,
                          next |-> n, key |-> None]
  <2>5. PICK n \in Nat \ {0} : op' = [op EXCEPT ![s] = Moved(n)]
    <3>1. 1 \in Nat \ {0} /\ i + 1 \in Nat \ {0}
      BY <2>1
    <3>2. Continue(s, 1) \/ Continue(s, i + 1)
      BY <1>5 DEF Insert
    <3> QED
      BY <3>1, <3>2 DEF Continue
  <2>7. Moved(n) \in Operation /\ Moved(n).kind = op[s].kind /\ Moved(n).event = op[s].event
    BY SMTT(30), <1>0, <2>5 DEF Operation, None
  <2>9. Moved(n).kind = "record" => Moved(n).event # None
    BY <1>0, <2>7 DEF Events, None
  <2> HIDE DEF Moved
  <2>8. /\ op' \in [Services -> Operation]
        /\ \A t \in Services : op'[t].kind = "record" => op'[t].event # None
    BY <1>00, <2>5, <2>7, <2>9
  <2>6. rows' \in {rows, rows \cup {row}}
    BY <1>5 DEF Insert
  <2> QED
    BY <1>5, <2>2, <2>4, <2>6, <2>8 DEF Insert, TypeOK, engine_vars, transport_vars
<1>6. CASE FailRecord(s)
  <2>1. awaited' \in Request \cup {NoRequest} /\ op' = [op EXCEPT ![s] = NoOperation]
    BY <1>6 DEF FailRecord, Answer, TypeOK
  <2> QED
    BY <1>0, <1>00, <1>6, <2>1 DEF FailRecord, TypeOK, engine_vars, database_vars
<1>7. CASE BecomesDue(s)
  <2>1. PICK i \in DOMAIN staged[s] : elapsed' = [elapsed EXCEPT ![s] = staged[s][i].at]
    BY <1>7 DEF BecomesDue, ToSet
  <2>4. staged[s][i] \in StagedCommit
    BY <1>0
  <2>2. staged[s][i].at \in Nat
    BY <2>4 DEF StagedCommit
  <2>3. elapsed' \in [Services -> Nat]
    BY <2>1, <2>2 DEF TypeOK
  <2> QED
    BY SMTT(30), <1>7, <2>3 DEF BecomesDue, TypeOK, engine_vars, transport_vars, database_vars
<1>8. CASE BeginSettle(s)
  <2> DEFINE operation == [kind |-> "flush", event |-> None, until |-> elapsed[s], next |-> 1, key |-> None]
  <2>1. operation \in Operation /\ operation.kind = "flush"
    BY <1>0 DEF Operation, None
  <2>2. op' = [op EXCEPT ![s] = operation]
    BY <1>8 DEF BeginSettle, Begin
  <2> HIDE DEF operation
  <2> QED
    BY <1>00, <1>8, <2>1, <2>2 DEF BeginSettle, TypeOK, engine_vars, transport_vars, database_vars
<1>9. CASE BeginFinalFlush(s)
  <2> DEFINE operation == [kind |-> "flush", event |-> None, until |-> clock[s], next |-> 1, key |-> None]
  <2>1. operation \in Operation /\ operation.kind = "flush"
    BY <1>0 DEF Operation, None
  <2>2. op' = [op EXCEPT ![s] = operation]
    BY <1>9 DEF BeginFinalFlush, Begin
  <2> HIDE DEF operation
  <2> QED
    BY <1>00, <1>9, <2>1, <2>2 DEF BeginFinalFlush, TypeOK, engine_vars, transport_vars, database_vars
<1>10. CASE ReadParameters(s)
  <2> DEFINE operation == [op[s] EXCEPT !.key = protection.key]
  <2>1. protection.key \in 0..MaxKeys
    BY DEF TypeOK
  <2>2. operation \in Operation /\ operation.kind = op[s].kind /\ operation.event = op[s].event
    BY <1>0, <2>1 DEF Operation
  <2>3. op' = [op EXCEPT ![s] = operation]
    BY <1>10 DEF ReadParameters
  <2> HIDE DEF operation
  <2>4. operation.kind = "record" => operation.event # None
    BY <2>2 DEF TypeOK
  <2> QED
    BY <1>00, <1>10, <2>2, <2>3, <2>4
    DEF ReadParameters, TypeOK, engine_vars, transport_vars, database_vars
<1>11. ASSUME NEW remaining \in Seq(StagedCommit), EndFlush(s, remaining),
              UNCHANGED <<engine_vars, transport_vars, pool, database_vars>>
       PROVE  TypeOK'
  <2>1. CASE phase[s] # "destroying"
    <3>1. /\ phase' = [phase EXCEPT ![s] = IF phase[s] = "stopping" THEN "destroying" ELSE phase[s]]
          /\ staged' = [staged EXCEPT ![s] = remaining] /\ op' = [op EXCEPT ![s] = NoOperation]
          /\ UNCHANGED <<clock, elapsed, withdrawn>>
      BY <1>11, <2>1 DEF EndFlush
    <3>2. /\ phase' \in [Services -> {"running", "stopping", "destroying", "gone"}]
          /\ staged' \in [Services -> Seq(StagedCommit)]
      BY <1>11, <3>1 DEF TypeOK
    <3> QED
      BY <1>0, <1>00, <1>11, <3>1, <3>2 DEF TypeOK, engine_vars, transport_vars, database_vars
  <2>2. CASE phase[s] = "destroying"
    BY <1>11, <2>2, EmptyStoreTypes DEF EndFlush, TypeOK, engine_vars, transport_vars, database_vars
  <2> QED
    BY <2>1, <2>2
<1>12. CASE FinishFlush(s)
  <2>1. Keep(staged[s], {i \in DOMAIN staged[s] : staged[s][i].at > op[s].until}) \in Seq(StagedCommit)
    BY <1>0, KeepType
  <2> QED
    BY <1>11, <1>12, <2>1 DEF FinishFlush
<1>13. CASE FailFlush(s)
  <2>1. LeftByFailure(s) \in Seq(StagedCommit)
    <3>1. \A i \in DOMAIN staged[s] : staged[s][i] \in StagedCommit
      BY <1>0
    <3>2. \A i \in DOMAIN staged[s] : LeftByFailure(s)[i] \in StagedCommit
      BY <3>1 DEF LeftByFailure, StagedCommit
    <3>3. LeftByFailure(s) \in [1..Len(staged[s]) -> StagedCommit] /\ Len(staged[s]) \in Nat
      BY <1>0, <3>2, LenProperties DEF LeftByFailure
    <3> QED
      BY <3>3, FunctionIsSeq
  <2> QED
    BY <1>11, <1>13, <2>1 DEF FailFlush
<1> QED
  BY <1>1, <1>2, <1>3, <1>4, <1>5, <1>6, <1>7, <1>8, <1>9, <1>10, <1>12, <1>13 DEF Store

\* A step keeps the types.
LEMMA TypeStep == TypeOK /\ [Next]_vars => TypeOK'
<1> SUFFICES ASSUME TypeOK, [Next]_vars PROVE TypeOK'
  OBVIOUS
<1>1. CASE UNCHANGED vars
  BY <1>1 DEF vars, engine_vars, transport_vars, store_vars, database_vars, TypeOK
<1> QED
  BY <1>1, TypeOutside, TypeStore DEF Next

\* Types of the engine, the transport, the services and the database, for any
\* number of each.
THEOREM TrainingTypes == Spec => []TypeOK
BY TypeInit, TypeStep, PTL DEF Spec

-----------------------------------------------------------------------------
(* What a step does to the requests *)

\* The queue loses all or its first request, or nothing.
QueueShrinks ==
  \E d \in 0..1 : \A k \in DOMAIN queue' : k + d \in DOMAIN queue /\ queue'[k] = queue[k + d]

\* No request comes into being, is sent or is begun.
MessagesShrink ==
  /\ commits' = commits
  /\ QueueShrinks
  /\ \A s \in Services :
       /\ pool'[s] \subseteq pool[s] /\ withdrawn'[s] \subseteq withdrawn[s]
       /\ op'[s].kind = "record" => op[s].kind = "record" /\ op'[s].event = op[s].event

\* What is behind the first request.
LEMMA BehindFirst ==
  ASSUME TypeOK, queue # <<>>
  PROVE  /\ 1 \in DOMAIN queue /\ Head(queue) = queue[1] /\ Head(queue) \in Request
         /\ \A k \in DOMAIN Tail(queue) :
              k \in Nat \ {0} /\ k + 1 \in DOMAIN queue /\ Tail(queue)[k] = queue[k + 1]
<1>1. queue \in Seq(Request) /\ Len(queue) \in Nat /\ DOMAIN queue = 1..Len(queue)
  BY LenProperties DEF TypeOK
<1>2. Len(Tail(queue)) = Len(queue) - 1 /\ Tail(queue) \in Seq(Request)
  BY <1>1, HeadTailProperties
<1>3. \A k \in 1..Len(Tail(queue)) : Tail(queue)[k] = queue[k + 1]
  BY <1>1, HeadTailProperties
<1>4. DOMAIN Tail(queue) = 1..(Len(queue) - 1)
  BY <1>2, LenProperties
<1>5. \A k \in 1..(Len(queue) - 1) :
        k \in Nat \ {0} /\ k + 1 \in 1..Len(queue) /\ Tail(queue)[k] = queue[k + 1]
  BY <1>1, <1>2, <1>3
<1>6. 1 \in DOMAIN queue /\ Head(queue) = queue[1] /\ Head(queue) \in Request
  BY <1>1
<1> QED
  BY <1>1, <1>4, <1>5, <1>6

\* A queue that loses its first request, or all, or none.
LEMMA QueueKept ==
  ASSUME TypeOK, queue' = queue \/ queue' = <<>> \/ (queue # <<>> /\ queue' = Tail(queue))
  PROVE  QueueShrinks
<1>1. queue \in Seq(Request) /\ Len(queue) \in Nat /\ DOMAIN queue = 1..Len(queue)
  BY LenProperties DEF TypeOK
<1>2. CASE queue' = queue
  <2>1. \A k \in DOMAIN queue' : k + 0 \in DOMAIN queue /\ queue'[k] = queue[k + 0]
    BY <1>1, <1>2
  <2> QED
    BY <2>1 DEF QueueShrinks
<1>3. CASE queue' = <<>>
  <2>1. \A k \in DOMAIN queue' : k + 0 \in DOMAIN queue /\ queue'[k] = queue[k + 0]
    BY <1>3
  <2> QED
    BY <2>1 DEF QueueShrinks
<1>4. CASE queue # <<>> /\ queue' = Tail(queue)
  <2>1. \A k \in DOMAIN queue' : k + 1 \in DOMAIN queue /\ queue'[k] = queue[k + 1]
    BY <1>4, BehindFirst
  <2> QED
    BY <2>1 DEF QueueShrinks
<1> QED
  BY <1>2, <1>3, <1>4

\* The store of a service that ends holds no request.
LEMMA EmptyStoreShrinks ==
  ASSUME TypeOK, NEW s \in Services, EmptyStore(s), NEW t \in Services
  PROVE  /\ withdrawn'[t] \subseteq withdrawn[t]
         /\ op'[t].kind = "record" => op[t].kind = "record" /\ op'[t].event = op[t].event
BY DEF EmptyStore, TypeOK, NoOperation

\* Steps that neither make nor move a request.
Quiet ==
  \/ UNCHANGED vars \/ RememberCommit \/ ForgetCommit \/ WindowCloses \/ Reconfigure
  \/ FailRequest \/ Settings
  \/ \E s \in Services :
       \/ StartService(s) \/ StopService(s) \/ CrashService(s)
       \/ BecomesDue(s) \/ BeginSettle(s) \/ BeginFinalFlush(s) \/ ReadParameters(s)
       \/ FinishRecord(s) \/ FailRecord(s) \/ FinishFlush(s) \/ FailFlush(s)
       \/ \E e \in Events : Insert(s, e)

\* Every other step makes, sends or handles one request.
LEMMA StepForms ==
  ASSUME [Next]_vars
  PROVE  \/ Quiet
         \/ \E c \in Contexts : CommitText(c) \/ Backspace(c)
         \/ \E s \in Services : SendRequest(s) \/ \E e \in Events : BeginRecord(s, e) \/ Discard(s, e)
BY DEF Next, InputMethod, Store, Quiet

\* Every quiet step only loses requests.
LEMMA QuietShrinks ==
  ASSUME TypeOK, Quiet
  PROVE  MessagesShrink
<1>1. ASSUME UNCHANGED <<commits, pool, withdrawn, op>>,
             queue' = queue \/ queue' = <<>> \/ (queue # <<>> /\ queue' = Tail(queue))
      PROVE  MessagesShrink
  BY <1>1, QueueKept DEF MessagesShrink
<1>2. CASE \/ UNCHANGED vars \/ RememberCommit \/ ForgetCommit \/ WindowCloses \/ Reconfigure
           \/ FailRequest \/ Settings \/ \E s \in Services : StartService(s) \/ BecomesDue(s)
  <2>1. /\ UNCHANGED <<commits, pool, withdrawn, op>>
        /\ queue' = queue \/ queue' = <<>> \/ (queue # <<>> /\ queue' = Tail(queue))
    BY <1>2 DEF RememberCommit, ForgetCommit, WindowCloses, Reconfigure, FailRequest, Settings,
       ConfigurePassword, ResetConversationData, SetRecordingEnabled, StartService, BecomesDue,
       vars, engine_vars, transport_vars, store_vars, database_vars
  <2> QED
    BY <1>1, <2>1
<1>3. ASSUME NEW s \in Services, UNCHANGED <<commits, queue>>,
             \A t \in Services : /\ pool'[t] \subseteq pool[t] /\ withdrawn'[t] \subseteq withdrawn[t]
                                 /\ op'[t].kind = "record" =>
                                      op[t].kind = "record" /\ op'[t].event = op[t].event
      PROVE  MessagesShrink
  BY <1>3, QueueKept DEF MessagesShrink
<1>4. ASSUME NEW s \in Services, NEW operation, op' = [op EXCEPT ![s] = operation],
             operation.kind = "record" => op[s].kind = "record" /\ operation.event = op[s].event,
             UNCHANGED <<commits, queue, pool, withdrawn>>
      PROVE  MessagesShrink
  <2>1. \A t \in Services : op'[t].kind = "record" =>
                              op[t].kind = "record" /\ op'[t].event = op[t].event
    BY <1>4 DEF TypeOK
  <2> QED
    BY <1>3, <1>4, <2>1
<1>5. ASSUME NEW s \in Services, StopService(s) PROVE MessagesShrink
  <2>1. \A t \in Services : pool'[t] \subseteq pool[t]
    BY <1>5 DEF StopService, TypeOK
  <2> QED
    BY <1>3, <1>5, <2>1 DEF StopService, engine_vars, store_vars
<1>6. ASSUME NEW s \in Services, CrashService(s) PROVE MessagesShrink
  <2>1. \A t \in Services : pool'[t] \subseteq pool[t]
    BY <1>6 DEF CrashService, TypeOK
  <2> QED
    BY <1>3, <1>6, <2>1, EmptyStoreShrinks DEF CrashService, engine_vars
<1>7. ASSUME NEW s \in Services, BeginSettle(s) \/ BeginFinalFlush(s) PROVE MessagesShrink
  <2>1. PICK until : op' = [op EXCEPT ![s] = [kind |-> "flush", event |-> None, until |-> until,
                                              next |-> 1, key |-> None]]
    BY <1>7 DEF BeginSettle, BeginFinalFlush, Begin
  <2>2. UNCHANGED <<commits, queue, pool, withdrawn>>
    BY <1>7 DEF BeginSettle, BeginFinalFlush, engine_vars, transport_vars
  <2> DEFINE operation == [kind |-> "flush", event |-> None, until |-> until, next |-> 1, key |-> None]
  <2>3. operation.kind # "record" /\ op' = [op EXCEPT ![s] = operation]
    BY <2>1
  <2> HIDE DEF operation
  <2> QED
    BY <1>4, <2>2, <2>3
<1>8. ASSUME NEW s \in Services, ReadParameters(s) PROVE MessagesShrink
  <2> DEFINE operation == [op[s] EXCEPT !.key = protection.key]
  <2>1. operation.kind = op[s].kind /\ operation.event = op[s].event
    BY DEF TypeOK, Operation
  <2>2. op' = [op EXCEPT ![s] = operation] /\ UNCHANGED <<commits, queue, pool, withdrawn>>
    BY <1>8 DEF ReadParameters, engine_vars, transport_vars
  <2> HIDE DEF operation
  <2> QED
    BY <1>4, <2>1, <2>2
<1>9. ASSUME NEW s \in Services, NEW e \in Events, Insert(s, e) PROVE MessagesShrink
  <2>1. PICK next : op' = [op EXCEPT ![s] = [kind |-> op[s].kind, event |-> op[s].event,
                                             until |-> op[s].until, next |-> next, key |-> None]]
    BY <1>9 DEF Insert, Continue
  <2>2. UNCHANGED <<commits, queue, pool, withdrawn>>
    BY <1>9 DEF Insert, engine_vars, transport_vars
  <2> DEFINE operation == [kind |-> op[s].kind, event |-> op[s].event, until |-> op[s].until,
                           next |-> next, key |-> None]
  <2>3. /\ operation.kind = op[s].kind /\ operation.event = op[s].event
        /\ op' = [op EXCEPT ![s] = operation]
    BY <2>1
  <2> HIDE DEF operation
  <2> QED
    BY <1>4, <2>2, <2>3
<1>10. ASSUME NEW s \in Services, FinishRecord(s) \/ FailRecord(s) PROVE MessagesShrink
  <2>1. op' = [op EXCEPT ![s] = NoOperation] /\ UNCHANGED <<commits, queue, pool, withdrawn>>
    BY <1>10 DEF FinishRecord, FailRecord, engine_vars
  <2> QED
    BY <1>4, <2>1 DEF NoOperation
<1>11. ASSUME NEW s \in Services, FinishFlush(s) \/ FailFlush(s) PROVE MessagesShrink
  <2>1. (\E remaining : EndFlush(s, remaining)) /\ UNCHANGED <<commits, queue, pool>>
    BY <1>11 DEF FinishFlush, FailFlush, engine_vars, transport_vars
  <2>2. CASE op' = [op EXCEPT ![s] = NoOperation] /\ UNCHANGED withdrawn
    BY <1>4, <2>1, <2>2 DEF NoOperation
  <2>3. CASE EmptyStore(s)
    BY <1>3, <2>1, <2>3, EmptyStoreShrinks
  <2> QED
    BY <2>1, <2>2, <2>3 DEF EndFlush
<1> QED
  BY <1>2, <1>5, <1>6, <1>7, <1>8, <1>9, <1>10, <1>11 DEF Quiet

-----------------------------------------------------------------------------
(* Where a record is, and where its withdrawal *)

\* A request is the record or the withdrawal of one commit.
LEMMA RequestForms ==
  /\ \A e, f : /\ RecordOf(e) # DiscardOf(f)
               /\ RecordOf(e) = RecordOf(f) => e = f
               /\ DiscardOf(e) = DiscardOf(f) => e = f
  /\ \A e : RecordOf(e).kind = "record" /\ DiscardOf(e).kind = "discard"
  /\ \A e : RecordOf(e).event = e /\ DiscardOf(e).event = e
  /\ \A r \in Request : IF r.kind = "record" THEN r = RecordOf(r.event) ELSE r = DiscardOf(r.event)
  /\ \A e \in Events : RecordOf(e) \in Request /\ DiscardOf(e) \in Request
BY DEF RecordOf, DiscardOf, Request

\* What is appended is the last of the queue.
QueueGrows(r) ==
  \A k \in DOMAIN queue' :
    \/ k \in DOMAIN queue /\ k <= Len(queue) /\ queue'[k] = queue[k]
    \/ k = Len(queue) + 1 /\ queue'[k] = r

\* Appending is growing.
LEMMA QueueAppended ==
  ASSUME TypeOK, NEW r \in Request, queue' = queue \/ queue' = Append(queue, r)
  PROVE  QueueGrows(r)
<1>1. queue \in Seq(Request) /\ Len(queue) \in Nat /\ DOMAIN queue = 1..Len(queue)
  BY LenProperties DEF TypeOK
<1>2. CASE queue' = queue
  BY <1>1, <1>2 DEF QueueGrows
<1>3. CASE queue' = Append(queue, r)
  <2>1. /\ Append(queue, r) \in Seq(Request) /\ Len(Append(queue, r)) = Len(queue) + 1
        /\ \A k \in 1..Len(queue) : Append(queue, r)[k] = queue[k]
        /\ Append(queue, r)[Len(queue) + 1] = r
    BY <1>1, AppendProperties
  <2>2. DOMAIN Append(queue, r) = 1..(Len(queue) + 1)
    BY <2>1, LenProperties
  <2> QED
    BY <1>1, <1>3, <2>1, <2>2 DEF QueueGrows
<1> QED
  BY <1>2, <1>3

\* What is said of requests, in the queue and with the services.
MessagesOK == EventsKnown /\ RecordsOnce /\ WithdrawalsLast

\* Losing requests keeps the order of records and withdrawals.
LEMMA ShrinkKeepsMessages ==
  ASSUME TypeOK, TypeOK', MessagesOK, MessagesShrink
  PROVE  MessagesOK'
<1>0. DOMAIN queue' \subseteq Int
  <2>1. queue' \in Seq(Request)
    BY DEF TypeOK
  <2> QED
    BY <2>1, LenProperties
<1>1. Recorded' = Recorded
  BY DEF MessagesShrink, Recorded
<1>2. PICK d \in 0..1 : \A k \in DOMAIN queue' : k + d \in DOMAIN queue /\ queue'[k] = queue[k + d]
  BY DEF MessagesShrink, QueueShrinks
<1>3. \A r : Queued(r)' => Queued(r)
  BY <1>2 DEF Queued
<1>4. \A s \in Services : \A e : /\ Holding(s, e)' => Holding(s, e)
                                 /\ Recording(s, e)' => Recording(s, e)
                                 /\ pool'[s] \subseteq pool[s] /\ withdrawn'[s] \subseteq withdrawn[s]
  BY DEF MessagesShrink, Holding, Recording
<1>5. EventsKnown'
  BY <1>1, <1>2, <1>4 DEF EventsKnown, MessagesOK, MessagesShrink
<1>6. RecordsOnce'
  <2>1. ASSUME NEW j \in DOMAIN queue', NEW k \in DOMAIN queue', queue'[j] = queue'[k],
               queue'[j].kind = "record"
        PROVE  j = k
    <3>1. j + d = k + d
      BY <1>2, <2>1 DEF MessagesOK, RecordsOnce
    <3>2. j \in Int /\ k \in Int /\ d \in Int
      BY <1>0
    <3>3. \A x, y, z \in Int : x + z = y + z => x = y
      OBVIOUS
    <3> QED
      BY <3>1, <3>2, <3>3
  <2> QED
    BY <1>1, <1>3, <1>4, <2>1 DEF MessagesOK, RecordsOnce
<1>7. WithdrawalsLast'
  <2>1. ASSUME NEW j \in DOMAIN queue', NEW k \in DOMAIN queue', NEW e \in Recorded,
               queue'[j] = DiscardOf(e), queue'[k] = RecordOf(e)
        PROVE  k < j
    <3>1. k + d < j + d
      BY <1>2, <2>1 DEF MessagesOK, WithdrawalsLast
    <3>2. j \in Int /\ k \in Int /\ d \in Int
      BY <1>0
    <3> QED
      BY <3>1, <3>2
  <2> QED
    BY <1>1, <1>3, <1>4, <2>1 DEF MessagesOK, WithdrawalsLast
<1> QED
  BY <1>5, <1>6, <1>7 DEF MessagesOK

\* The engine's steps: a new commit is known to nobody yet, and a withdrawal
\* goes to the end of the queue.
LEMMA CommitKeepsMessages ==
  ASSUME TypeOK, TypeOK', MessagesOK, NEW c \in Contexts, CommitText(c)
  PROVE  MessagesOK'
<1> DEFINE n == Len(commits) + 1
<1>1. /\ Len(commits) \in Nat /\ n \in Events /\ DOMAIN queue = 1..Len(queue) /\ Len(queue) \in Nat
      /\ DOMAIN queue' \subseteq Nat
  <2>1. commits \in Seq(Contexts) /\ queue \in Seq(Request) /\ queue' \in Seq(Request)
    BY DEF TypeOK
  <2>2. Len(commits) \in Nat /\ Len(commits) < MaxCommits /\ MaxCommits \in Nat
    BY <2>1, TrainingAssumption DEF CommitText
  <2> QED
    BY <2>1, <2>2, LenProperties DEF Events
<1>2. n \notin Recorded /\ Recorded' = Recorded \cup {n}
  <2>1. Len(commits') = Len(commits) + 1
    BY AppendProperties DEF CommitText, TypeOK
  <2> QED
    BY <1>1, <2>1 DEF Recorded
<1>3. QueueGrows(RecordOf(n))
  BY <1>1, QueueAppended, RequestForms DEF CommitText, RecordOf
<1>4. UNCHANGED <<pool, withdrawn, op>>
  BY DEF CommitText, store_vars
<1> HIDE DEF n
<1>5. \A k \in DOMAIN queue : queue[k] # RecordOf(n) /\ queue[k] # DiscardOf(n)
  BY <1>2, RequestForms DEF MessagesOK, EventsKnown
<1>6. \A e \in Recorded : /\ Queued(RecordOf(e))' => Queued(RecordOf(e))
                          /\ Queued(DiscardOf(e))' => Queued(DiscardOf(e))
  BY <1>2, <1>3, RequestForms DEF Queued, QueueGrows
<1>7. \A s \in Services : /\ ~Holding(s, n) /\ DiscardOf(n) \notin pool[s] /\ n \notin withdrawn[s]
  BY <1>2, RequestForms DEF MessagesOK, EventsKnown, Holding, Recording
<1>8. \A s \in Services : \A e : /\ Holding(s, e)' <=> Holding(s, e)
                                 /\ Recording(s, e)' <=> Recording(s, e)
  BY <1>4 DEF Holding, Recording
<1>9. EventsKnown'
  BY <1>2, <1>3, <1>4, RequestForms DEF MessagesOK, EventsKnown, QueueGrows
<1>10. RecordsOnce'
  <2>1. ASSUME NEW j \in DOMAIN queue', NEW k \in DOMAIN queue', queue'[j] = queue'[k],
               queue'[j].kind = "record"
        PROVE  j = k
    BY <1>1, <1>3, <1>5, <2>1 DEF MessagesOK, RecordsOnce, QueueGrows
  <2>2. ASSUME NEW s \in Services, NEW e \in Recorded'
        PROVE  /\ Queued(RecordOf(e))' => ~Holding(s, e)'
               /\ ~(RecordOf(e) \in pool'[s] /\ Recording(s, e)')
               /\ \A t \in Services : Holding(s, e)' /\ Holding(t, e)' => s = t
    <3>1. CASE e = n
      BY <1>4, <1>7, <1>8, <3>1 DEF Holding
    <3>2. CASE e \in Recorded
      BY <1>4, <1>6, <1>8, <3>2 DEF MessagesOK, RecordsOnce
    <3> QED
      BY <1>2, <3>1, <3>2
  <2> QED
    BY <2>1, <2>2 DEF RecordsOnce
<1>11. WithdrawalsLast'
  <2>1. ASSUME NEW j \in DOMAIN queue', NEW k \in DOMAIN queue', NEW e \in Recorded',
               queue'[j] = DiscardOf(e), queue'[k] = RecordOf(e)
        PROVE  k < j
    <3>1. j \in DOMAIN queue /\ queue[j] = DiscardOf(e) /\ e # n
      BY <1>3, <1>5, <2>1, RequestForms DEF QueueGrows
    <3>2. e \in Recorded /\ k \in DOMAIN queue /\ queue[k] = RecordOf(e)
      BY <1>2, <1>3, <2>1, <3>1, RequestForms DEF QueueGrows
    <3> QED
      BY <3>1, <3>2 DEF MessagesOK, WithdrawalsLast
  <2>2. ASSUME NEW s \in Services, NEW e \in Recorded', DiscardOf(e) \in pool'[s] \/ e \in withdrawn'[s]
        PROVE  ~Queued(RecordOf(e))' /\ ~Holding(s, e)'
    <3>1. e # n /\ e \in Recorded
      BY <1>2, <1>4, <1>7, <2>2
    <3> QED
      BY <1>4, <1>6, <1>8, <2>2, <3>1 DEF MessagesOK, WithdrawalsLast
  <2> QED
    BY <2>1, <2>2 DEF WithdrawalsLast
<1> QED
  BY <1>9, <1>10, <1>11 DEF MessagesOK

\* A withdrawal goes to the end of the queue.
LEMMA BackspaceKeepsMessages ==
  ASSUME TypeOK, TypeOK', MessagesOK, NEW c \in Contexts, Backspace(c)
  PROVE  MessagesOK'
<1>1. /\ recent \in Recorded /\ recent \in Events /\ DOMAIN queue = 1..Len(queue)
      /\ Len(queue) \in Nat /\ DOMAIN queue' \subseteq Nat
  <2>1. commits \in Seq(Contexts) /\ queue \in Seq(Request) /\ queue' \in Seq(Request)
    BY DEF TypeOK
  <2>2. recent \in 0..Len(commits) /\ Len(commits) <= MaxCommits /\ recent # 0
    BY DEF Backspace, None, TypeOK
  <2> QED
    BY <2>1, <2>2, LenProperties, TrainingAssumption DEF Recorded, Events
<1>2. Recorded' = Recorded /\ UNCHANGED <<pool, withdrawn, op>>
  BY DEF Backspace, Recorded, store_vars
<1>3. QueueGrows(DiscardOf(recent))
  BY <1>1, QueueAppended, RequestForms DEF Backspace, DiscardOf
<1>4. \A e : Queued(RecordOf(e))' => Queued(RecordOf(e))
  BY <1>3, RequestForms DEF Queued, QueueGrows
<1>5. \A s \in Services : \A e : /\ Holding(s, e)' <=> Holding(s, e)
                                 /\ Recording(s, e)' <=> Recording(s, e)
  BY <1>2 DEF Holding, Recording
<1>6. EventsKnown'
  BY <1>1, <1>2, <1>3, RequestForms DEF MessagesOK, EventsKnown, QueueGrows
<1>7. RecordsOnce'
  <2>1. ASSUME NEW j \in DOMAIN queue', NEW k \in DOMAIN queue', queue'[j] = queue'[k],
               queue'[j].kind = "record"
        PROVE  j = k
    BY <1>1, <1>3, <2>1, RequestForms DEF MessagesOK, RecordsOnce, QueueGrows
  <2> QED
    BY <1>2, <1>4, <1>5, <2>1 DEF MessagesOK, RecordsOnce
<1>8. WithdrawalsLast'
  <2>1. ASSUME NEW j \in DOMAIN queue', NEW k \in DOMAIN queue', NEW e \in Recorded,
               queue'[j] = DiscardOf(e), queue'[k] = RecordOf(e)
        PROVE  k < j
    <3>1. k \in DOMAIN queue /\ k <= Len(queue) /\ queue[k] = RecordOf(e)
      BY <1>3, <2>1, RequestForms DEF QueueGrows
    <3>2. CASE j = Len(queue) + 1
      BY <1>1, <3>1, <3>2
    <3>3. CASE j \in DOMAIN queue /\ queue'[j] = queue[j]
      BY <2>1, <3>1, <3>3 DEF MessagesOK, WithdrawalsLast
    <3> QED
      BY <1>3, <3>2, <3>3 DEF QueueGrows
  <2> QED
    BY <1>2, <1>4, <1>5, <2>1 DEF MessagesOK, WithdrawalsLast
<1> QED
  BY <1>6, <1>7, <1>8 DEF MessagesOK

\* A request is sent: a record leaves the queue for good, and no record is with
\* the service when its withdrawal arrives there.
LEMMA SendKeepsMessages ==
  ASSUME TypeOK, TypeOK', MessagesOK, RecordAwaited, NEW s \in Services, SendRequest(s)
  PROVE  MessagesOK'
<1> DEFINE r == Head(queue)
<1>1. /\ queue # <<>> /\ queue' = Tail(queue) /\ phase[s] = "running" /\ awaited = NoRequest
      /\ Recorded' = Recorded /\ UNCHANGED <<withdrawn, op>>
      /\ \A t \in Services : pool'[t] = IF t = s THEN pool[s] \cup {r} ELSE pool[t]
  BY DEF SendRequest, engine_vars, store_vars, TypeOK, Recorded
<1>2. /\ 1 \in DOMAIN queue /\ r = queue[1] /\ r \in Request
      /\ \A k \in DOMAIN queue' :
           k \in Nat \ {0} /\ k + 1 \in DOMAIN queue /\ queue'[k] = queue[k + 1]
  BY <1>1, BehindFirst
<1> HIDE DEF r
<1>3. \A e : /\ Queued(RecordOf(e))' => Queued(RecordOf(e)) /\ r # RecordOf(e)
             /\ r = RecordOf(e) => Queued(RecordOf(e))
             /\ r = DiscardOf(e) => Queued(DiscardOf(e)) /\ ~Queued(RecordOf(e))'
  <2> TAKE e
  <2>0. r = RecordOf(e) \/ r = DiscardOf(e) => e \in Recorded
    BY <1>2, RequestForms DEF MessagesOK, EventsKnown
  <2>1. ASSUME NEW k \in DOMAIN queue', queue'[k] = RecordOf(e)
        PROVE  queue[k + 1] = RecordOf(e) /\ k + 1 \in DOMAIN queue /\ r # RecordOf(e) /\ r # DiscardOf(e)
    <3>1. k \in Nat \ {0} /\ queue[k + 1] = RecordOf(e) /\ k + 1 \in DOMAIN queue
      BY <1>2, <2>1
    <3>2. r # RecordOf(e)
      <4>1. \A i, j \in DOMAIN queue : queue[i] = queue[j] /\ queue[i].kind = "record" => i = j
        BY DEF MessagesOK, RecordsOnce
      <4>2. RecordOf(e).kind = "record"
        BY RequestForms
      <4>3. r = RecordOf(e) => 1 = k + 1
        BY <1>2, <3>1, <4>1, <4>2
      <4> QED
        BY <3>1, <4>3
    <3>3. r # DiscardOf(e)
      <4>1. r = DiscardOf(e) => k + 1 < 1
        BY <1>2, <2>0, <3>1 DEF MessagesOK, WithdrawalsLast
      <4> QED
        BY <3>1, <4>1
    <3> QED
      BY <3>1, <3>2, <3>3
  <2> QED
    BY <1>2, <2>1 DEF Queued
<1>4. \A t \in Services : \A e : /\ Recording(t, e)' <=> Recording(t, e)
                                 /\ Holding(t, e)' <=> Holding(t, e) \/ (t = s /\ r = RecordOf(e))
  BY <1>1 DEF Recording, Holding
<1>5. \A e \in Recorded : r = DiscardOf(e) => ~Holding(s, e)
  <2>1. \A e : NoRequest # RecordOf(e)
    BY DEF NoRequest, RecordOf
  <2> QED
    BY <1>1, <1>3, <2>1 DEF RecordAwaited, Withdrawing
<1>6. EventsKnown'
  BY <1>1, <1>2 DEF MessagesOK, EventsKnown
<1>7. RecordsOnce'
  <2>1. ASSUME NEW j \in DOMAIN queue', NEW k \in DOMAIN queue', queue'[j] = queue'[k],
               queue'[j].kind = "record"
        PROVE  j = k
    <3>1. j + 1 = k + 1 /\ j \in Int /\ k \in Int
      BY <1>2, <2>1 DEF MessagesOK, RecordsOnce
    <3>2. \A x, y \in Int : x + 1 = y + 1 => x = y
      OBVIOUS
    <3> QED
      BY <3>1, <3>2
  <2>2. ASSUME NEW t \in Services, NEW e \in Recorded
        PROVE  /\ Queued(RecordOf(e))' => ~Holding(t, e)'
               /\ ~(RecordOf(e) \in pool'[t] /\ Recording(t, e)')
               /\ \A u \in Services : Holding(t, e)' /\ Holding(u, e)' => t = u
    <3>1. CASE r = RecordOf(e)
      <4>1. \A u \in Services : ~Holding(u, e)
        BY <1>3, <3>1 DEF MessagesOK, RecordsOnce
      <4> QED
        BY <1>3, <1>4, <3>1, <4>1 DEF Holding
    <3>2. CASE r # RecordOf(e)
      BY <1>1, <1>3, <1>4, <3>2 DEF MessagesOK, RecordsOnce
    <3> QED
      BY <3>1, <3>2
  <2> QED
    BY <1>1, <2>1, <2>2 DEF RecordsOnce
<1>8. WithdrawalsLast'
  <2>1. ASSUME NEW j \in DOMAIN queue', NEW k \in DOMAIN queue', NEW e \in Recorded,
               queue'[j] = DiscardOf(e), queue'[k] = RecordOf(e)
        PROVE  k < j
    <3>1. k + 1 < j + 1 /\ j \in Int /\ k \in Int
      BY <1>2, <2>1 DEF MessagesOK, WithdrawalsLast
    <3> QED
      BY <3>1
  <2>2. ASSUME NEW t \in Services, NEW e \in Recorded, DiscardOf(e) \in pool'[t] \/ e \in withdrawn'[t]
        PROVE  ~Queued(RecordOf(e))' /\ ~Holding(t, e)'
    <3>1. CASE t = s /\ r = DiscardOf(e)
      BY <1>3, <1>4, <1>5, <3>1, RequestForms
    <3>2. CASE DiscardOf(e) \in pool[t] \/ e \in withdrawn[t]
      BY <1>3, <1>4, <3>2 DEF MessagesOK, WithdrawalsLast
    <3> QED
      BY <1>1, <2>2, <3>1, <3>2
  <2> QED
    BY <1>1, <2>1, <2>2 DEF WithdrawalsLast
<1> QED
  BY <1>6, <1>7, <1>8 DEF MessagesOK

\* A record is begun, or found unwanted.
LEMMA BeginKeepsMessages ==
  ASSUME TypeOK, TypeOK', MessagesOK, NEW s \in Services, NEW f \in Events, BeginRecord(s, f)
  PROVE  MessagesOK'
<1>1. /\ RecordOf(f) \in pool[s] /\ op[s] = NoOperation /\ Recorded' = Recorded
      /\ UNCHANGED <<queue, withdrawn>>
      /\ \A t \in Services : pool'[t] = IF t = s THEN pool[s] \ {RecordOf(f)} ELSE pool[t]
  BY DEF BeginRecord, RecordOf, Recorded, engine_vars, TypeOK
<1>2. /\ \A t \in Services : t # s => op'[t] = op[t]
      /\ op'[s].kind = "record" => op'[s].event = f
  <2>1. op[s].kind # "record"
    BY <1>1 DEF NoOperation
  <2> DEFINE operation == [kind |-> "record", event |-> f, until |-> 0, next |-> 1, key |-> None]
  <2>2. op' = op \/ op' = [op EXCEPT ![s] = operation]
    BY DEF BeginRecord, Begin
  <2>3. operation.event = f /\ op \in [Services -> Operation]
    BY DEF TypeOK
  <2> HIDE DEF operation
  <2> QED
    BY <2>1, <2>2, <2>3
<1>3. \A t \in Services : \A e : Holding(t, e)' => Holding(t, e)
  BY <1>1, <1>2 DEF Holding, Recording
<1>4. \A e : Queued(RecordOf(e))' <=> Queued(RecordOf(e))
  BY <1>1 DEF Queued
<1>5. EventsKnown'
  BY <1>1, <1>2, RequestForms DEF MessagesOK, EventsKnown
<1>6. \A t \in Services, e \in Recorded : ~(RecordOf(e) \in pool'[t] /\ Recording(t, e)')
  BY <1>1, <1>2 DEF MessagesOK, RecordsOnce, Recording
<1>7. RecordsOnce'
  BY <1>1, <1>3, <1>4, <1>6 DEF MessagesOK, RecordsOnce
<1>8. WithdrawalsLast'
  BY <1>1, <1>3, <1>4, RequestForms DEF MessagesOK, WithdrawalsLast
<1> QED
  BY <1>5, <1>7, <1>8 DEF MessagesOK

\* A withdrawal is handled.
LEMMA DiscardKeepsMessages ==
  ASSUME TypeOK, TypeOK', MessagesOK, NEW s \in Services, NEW f \in Events, Discard(s, f)
  PROVE  MessagesOK'
<1>1. /\ DiscardOf(f) \in pool[s] /\ Recorded' = Recorded /\ UNCHANGED <<queue, op>>
      /\ \A t \in Services : /\ pool'[t] \subseteq pool[t]
                             /\ withdrawn'[t] = IF t = s THEN withdrawn[s] \cup {f} ELSE withdrawn[t]
  BY DEF Discard, DiscardOf, Recorded, engine_vars, TypeOK
<1>2. \A t \in Services : \A e : /\ Holding(t, e)' => Holding(t, e)
                                 /\ Recording(t, e)' <=> Recording(t, e)
  BY <1>1 DEF Holding, Recording
<1>3. \A e : Queued(RecordOf(e))' <=> Queued(RecordOf(e))
  BY <1>1 DEF Queued
<1>4. EventsKnown'
  BY <1>1, RequestForms DEF MessagesOK, EventsKnown
<1>5. RecordsOnce'
  BY <1>1, <1>2, <1>3 DEF MessagesOK, RecordsOnce
<1>6. WithdrawalsLast'
  BY <1>1, <1>2, <1>3 DEF MessagesOK, WithdrawalsLast
<1> QED
  BY <1>4, <1>5, <1>6 DEF MessagesOK

\* Every step keeps the order of records and withdrawals.
LEMMA MessagesKept ==
  ASSUME TypeOK, TypeOK', MessagesOK, RecordAwaited, [Next]_vars
  PROVE  MessagesOK'
BY StepForms, QuietShrinks, ShrinkKeepsMessages, CommitKeepsMessages, BackspaceKeepsMessages,
   SendKeepsMessages, BeginKeepsMessages, DiscardKeepsMessages

-----------------------------------------------------------------------------
(* The life of the services *)

\* A service's store begins, continues or ends an operation.
LEMMA OperationKeepsServices ==
  ASSUME TypeOK, ServicesOK, NEW s \in Services, UNCHANGED phase,
         \A t \in Services : pool'[t] \subseteq pool[t],
         \A t \in Services : t # s => op'[t] = op[t],
         op'[s].kind = "flush" => op[s].kind = "flush" \/ phase[s] = "running" \/ pool[s] = {},
         phase[s] = "gone" => op'[s].kind = "none"
  PROVE  ServicesOK'
BY DEF ServicesOK

\* The same for an operation that is given.
LEMMA NewOperation ==
  ASSUME TypeOK, NEW s \in Services, NEW operation, op' = [op EXCEPT ![s] = operation]
  PROVE  op'[s] = operation /\ \A t \in Services : t # s => op'[t] = op[t]
BY DEF TypeOK

\* Every step keeps what is said of the services.
LEMMA ServicesKept ==
  ASSUME TypeOK, ServicesOK, [Next]_vars
  PROVE  ServicesOK'
<1>1. CASE \/ UNCHANGED vars \/ RememberCommit \/ ForgetCommit \/ WindowCloses \/ Reconfigure
           \/ FailRequest \/ Settings \/ (\E s \in Services : BecomesDue(s))
           \/ \E c \in Contexts : CommitText(c) \/ Backspace(c)
  <2>1. UNCHANGED <<phase, pool, op>>
    BY <1>1 DEF RememberCommit, ForgetCommit, WindowCloses, Reconfigure, FailRequest, Settings,
       ConfigurePassword, ResetConversationData, SetRecordingEnabled, BecomesDue, CommitText,
       Backspace, vars, store_vars
  <2> QED
    BY <2>1 DEF ServicesOK
<1>2. ASSUME NEW s \in Services, StartService(s) PROVE ServicesOK'
  <2>1. /\ \A t \in Services : phase[t] # "running"
        /\ \A t \in Services : phase'[t] = IF t = s THEN "running" ELSE phase[t]
        /\ UNCHANGED <<pool, op>>
    BY <1>2 DEF StartService, Running, TypeOK, store_vars
  <2> QED
    BY <2>1 DEF ServicesOK
<1>3. ASSUME NEW s \in Services, StopService(s) PROVE ServicesOK'
  <2>1. /\ \A t \in Services : phase'[t] = IF t = s THEN "stopping" ELSE phase[t]
        /\ \A t \in Services : pool'[t] \subseteq pool[t]
        /\ op[s].kind # "flush" /\ UNCHANGED op
    BY <1>3 DEF StopService, TypeOK, store_vars
  <2> QED
    BY <2>1 DEF ServicesOK
<1>4. ASSUME NEW s \in Services, NEW new \in [Services -> {"running", "stopping", "destroying", "gone"}],
             phase' = new, new = [phase EXCEPT ![s] = "gone"],
             \A t \in Services : pool'[t] = IF t = s THEN {} ELSE pool[t], EmptyStore(s)
      PROVE  ServicesOK'
  <2>1. /\ \A t \in Services : phase'[t] = IF t = s THEN "gone" ELSE phase[t]
        /\ \A t \in Services : t # s => op'[t] = op[t]
        /\ op'[s].kind = "none"
    BY <1>4 DEF EmptyStore, TypeOK, NoOperation
  <2> QED
    BY <1>4, <2>1 DEF ServicesOK
<1>5. ASSUME NEW s \in Services, CrashService(s) PROVE ServicesOK'
  <2>1. \A t \in Services : pool'[t] = IF t = s THEN {} ELSE pool[t]
    BY <1>5 DEF CrashService, TypeOK
  <2>2. [phase EXCEPT ![s] = "gone"] \in [Services -> {"running", "stopping", "destroying", "gone"}]
    BY DEF TypeOK
  <2> QED
    BY <1>4, <1>5, <2>1, <2>2 DEF CrashService
<1>6. ASSUME NEW s \in Services, SendRequest(s) PROVE ServicesOK'
  <2>1. /\ phase[s] = "running" /\ UNCHANGED <<phase, op>>
        /\ \A t \in Services : t # s => pool'[t] = pool[t]
    BY <1>6 DEF SendRequest, TypeOK, store_vars
  <2> QED
    BY <2>1 DEF ServicesOK
<1>7. ASSUME NEW s \in Services, NEW e \in Events, BeginRecord(s, e) PROVE ServicesOK'
  <2> DEFINE operation == [kind |-> "record", event |-> e, until |-> 0, next |-> 1, key |-> None]
  <2>1. operation.kind = "record" /\ op[s].kind = "none" /\ pool[s] # {}
    BY <1>7 DEF BeginRecord, NoOperation
  <2>2. UNCHANGED phase /\ \A t \in Services : pool'[t] \subseteq pool[t]
    BY <1>7 DEF BeginRecord, TypeOK
  <2>3. op' = [op EXCEPT ![s] = operation] \/ op' = op
    BY <1>7 DEF BeginRecord, Begin
  <2>4. phase[s] # "gone"
    BY <2>1 DEF ServicesOK
  <2> HIDE DEF operation
  <2>5. CASE op' = [op EXCEPT ![s] = operation]
    BY <2>1, <2>2, <2>4, <2>5, NewOperation, OperationKeepsServices
  <2>6. CASE op' = op
    BY <2>1, <2>2, <2>6 DEF ServicesOK
  <2> QED
    BY <2>3, <2>5, <2>6
<1>8. ASSUME NEW s \in Services, NEW e \in Events, Discard(s, e) PROVE ServicesOK'
  <2>1. UNCHANGED <<phase, op>> /\ \A t \in Services : pool'[t] \subseteq pool[t]
    BY <1>8 DEF Discard, TypeOK
  <2> QED
    BY <2>1 DEF ServicesOK
<1>9. ASSUME NEW s \in Services, BeginSettle(s) \/ BeginFinalFlush(s) PROVE ServicesOK'
  <2>1. PICK until : op' = [op EXCEPT ![s] = [kind |-> "flush", event |-> None, until |-> until,
                                              next |-> 1, key |-> None]]
    BY <1>9 DEF BeginSettle, BeginFinalFlush, Begin
  <2> DEFINE operation == [kind |-> "flush", event |-> None, until |-> until, next |-> 1, key |-> None]
  <2>2. op' = [op EXCEPT ![s] = operation]
    BY <2>1
  <2>3. /\ UNCHANGED <<phase, pool>> /\ phase[s] # "gone"
        /\ phase[s] = "running" \/ pool[s] = {}
    BY <1>9 DEF BeginSettle, BeginFinalFlush
  <2> HIDE DEF operation
  <2> QED
    BY <2>2, <2>3, NewOperation, OperationKeepsServices
<1>10. ASSUME NEW s \in Services, ReadParameters(s) PROVE ServicesOK'
  <2> DEFINE operation == [op[s] EXCEPT !.key = protection.key]
  <2>1. operation.kind = op[s].kind
    BY DEF TypeOK, Operation
  <2>2. op' = [op EXCEPT ![s] = operation] /\ UNCHANGED <<phase, pool>>
    BY <1>10 DEF ReadParameters
  <2> HIDE DEF operation
  <2>3. phase[s] = "gone" => operation.kind = "none"
    BY <2>1 DEF ServicesOK
  <2> QED
    BY <2>1, <2>2, <2>3, NewOperation, OperationKeepsServices
<1>11. ASSUME NEW s \in Services, NEW e \in Events, Insert(s, e) PROVE ServicesOK'
  <2>1. PICK next : op' = [op EXCEPT ![s] = [kind |-> op[s].kind, event |-> op[s].event,
                                             until |-> op[s].until, next |-> next, key |-> None]]
    BY <1>11 DEF Insert, Continue
  <2> DEFINE operation == [kind |-> op[s].kind, event |-> op[s].event, until |-> op[s].until,
                           next |-> next, key |-> None]
  <2>2. op' = [op EXCEPT ![s] = operation] /\ operation.kind = op[s].kind /\ UNCHANGED <<phase, pool>>
    BY <1>11, <2>1 DEF Insert
  <2> HIDE DEF operation
  <2>3. phase[s] = "gone" => operation.kind = "none"
    BY <2>2 DEF ServicesOK
  <2> QED
    BY <2>2, <2>3, NewOperation, OperationKeepsServices
<1>12. ASSUME NEW s \in Services, FinishRecord(s) \/ FailRecord(s) PROVE ServicesOK'
  <2>1. op' = [op EXCEPT ![s] = NoOperation] /\ UNCHANGED <<phase, pool>>
    BY <1>12 DEF FinishRecord, FailRecord
  <2>2. NoOperation.kind = "none"
    BY DEF NoOperation
  <2> QED
    BY <2>1, <2>2, NewOperation, OperationKeepsServices
<1>13. ASSUME NEW s \in Services, FinishFlush(s) \/ FailFlush(s) PROVE ServicesOK'
  <2>1. (\E remaining : EndFlush(s, remaining)) /\ UNCHANGED pool /\ op[s].kind = "flush"
    BY <1>13 DEF FinishFlush, FailFlush
  <2>2. CASE phase[s] = "destroying"
    <3>1. EmptyStore(s) /\ phase' = [phase EXCEPT ![s] = "gone"]
      BY <2>1, <2>2 DEF EndFlush
    <3>2. \A t \in Services : pool'[t] = IF t = s THEN {} ELSE pool[t]
      BY <2>1, <2>2 DEF ServicesOK
    <3>3. [phase EXCEPT ![s] = "gone"] \in [Services -> {"running", "stopping", "destroying", "gone"}]
      BY DEF TypeOK
    <3> QED
      BY <1>4, <3>1, <3>2, <3>3
  <2>3. CASE phase[s] # "destroying"
    <3>1. /\ \A t \in Services : t # s => phase'[t] = phase[t] /\ op'[t] = op[t]
          /\ phase'[s] = IF phase[s] = "stopping" THEN "destroying" ELSE phase[s]
          /\ op'[s].kind = "none"
      BY <2>1, <2>3 DEF EndFlush, TypeOK, NoOperation
    <3> QED
      BY <2>1, <2>3, <3>1 DEF ServicesOK
  <2> QED
    BY <2>2, <2>3
<1> QED
  BY <1>1, <1>2, <1>3, <1>5, <1>6, <1>7, <1>8, <1>9, <1>10, <1>11, <1>12, <1>13, StepForms DEF Quiet

-----------------------------------------------------------------------------
(* The transport waits for the record that could be withdrawn *)

\* Who is awaited stays awaited while its record is held.
LEMMA AwaitedStays ==
  ASSUME TypeOK, RecordAwaited, Recorded' = Recorded,
         \A e \in Recorded : Withdrawing(e)' => Withdrawing(e),
         \A s \in Services, e \in Recorded :
           Holding(s, e)' /\ phase'[s] = "running" =>
             Holding(s, e) /\ phase[s] = "running" /\ (awaited = RecordOf(e) => awaited' = awaited)
  PROVE  RecordAwaited'
BY DEF RecordAwaited

\* Nothing more can be withdrawn unless a commit is made.
LEMMA WithdrawingStays ==
  ASSUME TypeOK, QueueShrinks, recent' \in {recent, committing, None}, committing' \in {committing, None},
         NEW e \in Recorded, Withdrawing(e)'
  PROVE  Withdrawing(e)
<1>1. \A r : Queued(r)' => Queued(r)
  BY DEF QueueShrinks, Queued
<1>2. e # None
  <2>1. Len(commits) \in Nat
    BY DEF TypeOK
  <2> QED
    BY <2>1 DEF Recorded, None
<1> QED
  BY <1>1, <1>2 DEF Withdrawing

\* Answers go to records that are no longer held.
LEMMA QuietKeepsAwaited ==
  ASSUME TypeOK, ServicesOK, RecordsOnce, RecordAwaited, Quiet
  PROVE  RecordAwaited'
<1>1. MessagesShrink
  BY QuietShrinks
<1>2. /\ Recorded' = Recorded /\ QueueShrinks
      /\ \A s \in Services : \A e : Holding(s, e)' => Holding(s, e)
  BY <1>1 DEF MessagesShrink, Recorded, Holding, Recording
<1>3. ASSUME recent' \in {recent, committing, None}, committing' \in {committing, None},
             \A s \in Services, e \in Recorded :
               Holding(s, e)' /\ phase'[s] = "running" =>
                 phase[s] = "running" /\ (awaited = RecordOf(e) => awaited' = awaited)
      PROVE  RecordAwaited'
  <2>1. \A e \in Recorded : Withdrawing(e)' => Withdrawing(e)
    BY <1>2, <1>3, WithdrawingStays
  <2> QED
    BY <1>2, <1>3, <2>1, AwaitedStays
<1>4. CASE \/ UNCHANGED vars \/ RememberCommit \/ ForgetCommit \/ WindowCloses \/ FailRequest \/ Settings
           \/ \E s \in Services :
                \/ BecomesDue(s) \/ BeginSettle(s) \/ BeginFinalFlush(s) \/ ReadParameters(s)
                \/ \E e \in Events : Insert(s, e)
  <2>1. /\ recent' \in {recent, committing, None} /\ committing' \in {committing, None}
        /\ UNCHANGED <<phase, awaited>>
    BY <1>4 DEF vars, RememberCommit, ForgetCommit, WindowCloses, FailRequest, Settings,
       ConfigurePassword, ResetConversationData, SetRecordingEnabled, BecomesDue, BeginSettle,
       BeginFinalFlush, ReadParameters, Insert, engine_vars, transport_vars
  <2> QED
    BY <1>3, <2>1
<1>5. CASE Reconfigure
  <2>1. \A e \in Recorded : ~Withdrawing(e)'
    <3>1. Len(commits) \in Nat /\ recent' = None /\ committing' = None /\ queue' = <<>>
      BY <1>5 DEF Reconfigure, TypeOK
    <3> QED
      BY <3>1 DEF Withdrawing, Queued, Recorded, None
  <2> QED
    BY <1>2, <2>1 DEF RecordAwaited
<1>6. ASSUME NEW s \in Services, StartService(s) PROVE RecordAwaited'
  <2>1. /\ UNCHANGED <<commits, recent, committing, queue, awaited, pool, op>> /\ phase[s] = "gone"
        /\ \A t \in Services : t # s => phase'[t] = phase[t]
    BY <1>6 DEF StartService, TypeOK, engine_vars, transport_vars, store_vars
  <2>2. \A e : ~Holding(s, e)
    BY <2>1 DEF ServicesOK, Holding, Recording
  <2> QED
    BY <1>2, <1>3, <2>1, <2>2
<1>7. ASSUME NEW s \in Services, StopService(s) \/ CrashService(s) PROVE RecordAwaited'
  <2>1. /\ UNCHANGED <<recent, committing>>
        /\ \A t \in Services : t # s => phase'[t] = phase[t]
        /\ phase'[s] # "running"
        /\ awaited' = awaited \/ phase[s] = "running"
    BY <1>7 DEF StopService, CrashService, TypeOK, engine_vars
  <2>2. \A t \in Services : phase'[t] = "running" => phase[t] = "running" /\ awaited' = awaited
    BY <2>1 DEF ServicesOK
  <2> QED
    BY <1>3, <2>1, <2>2
<1>8. ASSUME NEW s \in Services, FinishRecord(s) \/ FailRecord(s) PROVE RecordAwaited'
  <2>1. /\ UNCHANGED <<recent, committing, phase, pool>> /\ op' = [op EXCEPT ![s] = NoOperation]
        /\ op[s].kind = "record"
        /\ awaited' = awaited \/ awaited = RecordOf(op[s].event)
    BY <1>8 DEF FinishRecord, FailRecord, Answer, RecordOf, engine_vars
  <2>2. NoOperation.kind # "record" /\ op'[s] = NoOperation
    BY <2>1, NewOperation DEF NoOperation
  <2>3. ASSUME NEW t \in Services, NEW e \in Recorded, Holding(t, e)', awaited = RecordOf(e)
        PROVE  awaited' = awaited
    <3>1. Holding(t, e)
      BY <1>2, <2>3
    <3>2. CASE e = op[s].event
      <4>1. Holding(s, e) /\ Recording(s, e)
        BY <2>1, <3>2 DEF Holding, Recording
      <4>2. t = s /\ RecordOf(e) \notin pool[s]
        BY <3>1, <4>1 DEF RecordsOnce
      <4> QED
        BY <2>1, <2>2, <2>3, <4>2 DEF Holding, Recording
    <3>3. CASE e # op[s].event
      BY <2>1, <2>3, <3>3, RequestForms
    <3> QED
      BY <3>2, <3>3
  <2> QED
    BY <1>3, <2>1, <2>3
<1>9. ASSUME NEW s \in Services, FinishFlush(s) \/ FailFlush(s) PROVE RecordAwaited'
  <2>1. /\ UNCHANGED <<recent, committing, awaited>>
        /\ \E remaining : EndFlush(s, remaining)
    BY <1>9 DEF FinishFlush, FailFlush, engine_vars, transport_vars
  <2>2. \A t \in Services : phase'[t] = "running" => phase[t] = "running"
    BY <2>1 DEF EndFlush, TypeOK
  <2> QED
    BY <1>3, <2>1, <2>2
<1> QED
  BY <1>4, <1>5, <1>6, <1>7, <1>8, <1>9 DEF Quiet

\* Every step keeps what is said of the awaited record.
LEMMA AwaitedKept ==
  ASSUME TypeOK, TypeOK', MessagesOK, ServicesOK, RecordAwaited, [Next]_vars
  PROVE  RecordAwaited'
<1>1. CASE Quiet
  BY <1>1, QuietKeepsAwaited DEF MessagesOK
<1>2. ASSUME NEW c \in Contexts, CommitText(c) PROVE RecordAwaited'
  <2> DEFINE n == Len(commits) + 1
  <2>1. Len(commits) \in Nat /\ n \in Events
    BY <1>2, TrainingAssumption, SMTT(20) DEF CommitText, TypeOK, Events
  <2>2. n \notin Recorded /\ Recorded' = Recorded \cup {n}
    <3>1. Len(commits') = Len(commits) + 1
      BY <1>2, AppendProperties DEF CommitText, TypeOK
    <3> QED
      BY <2>1, <3>1 DEF Recorded
  <2>3. QueueGrows(RecordOf(n))
    BY <1>2, <2>1, QueueAppended, RequestForms DEF CommitText, RecordOf
  <2>4. committing' = n /\ UNCHANGED <<recent, pool, op, awaited, phase>>
    BY <1>2 DEF CommitText, store_vars
  <2> HIDE DEF n
  <2>5. \A s \in Services : \A e : Holding(s, e)' <=> Holding(s, e)
    BY <2>4 DEF Holding, Recording
  <2>6. \A s \in Services : ~Holding(s, n)
    BY <2>2, RequestForms DEF MessagesOK, EventsKnown, Holding, Recording
  <2>7. \A e \in Recorded : Withdrawing(e)' => Withdrawing(e)
    BY <2>2, <2>3, <2>4, RequestForms DEF Withdrawing, Queued, QueueGrows
  <2> QED
    BY <2>2, <2>4, <2>5, <2>6, <2>7 DEF RecordAwaited
<1>3. ASSUME NEW c \in Contexts, Backspace(c) PROVE RecordAwaited'
  <2>1. /\ Recorded' = Recorded /\ recent' = None /\ recent # None
        /\ UNCHANGED <<committing, pool, op, awaited, phase>>
    BY <1>3 DEF Backspace, Recorded, store_vars
  <2>2. recent \in Events
    <3>1. recent \in 0..Len(commits) /\ Len(commits) \in Nat /\ Len(commits) <= MaxCommits
      BY DEF TypeOK
    <3> QED
      BY <2>1, <3>1, TrainingAssumption DEF Events, None
  <2>3. QueueGrows(DiscardOf(recent))
    BY <1>3, <2>2, QueueAppended, RequestForms DEF Backspace, DiscardOf
  <2>4. \A e \in Recorded : e # None
    <3>1. Len(commits) \in Nat
      BY DEF TypeOK
    <3> QED
      BY <3>1 DEF Recorded, None
  <2>5. \A e \in Recorded : Withdrawing(e)' => Withdrawing(e)
    BY <2>1, <2>3, <2>4, RequestForms DEF Withdrawing, Queued, QueueGrows
  <2>6. \A s \in Services : \A e : Holding(s, e)' => Holding(s, e)
    BY <2>1 DEF Holding, Recording
  <2> QED
    BY <2>1, <2>5, <2>6, AwaitedStays
<1>4. ASSUME NEW s \in Services, SendRequest(s) PROVE RecordAwaited'
  <2> DEFINE r == Head(queue)
  <2>1. /\ queue # <<>> /\ queue' = Tail(queue) /\ awaited = NoRequest /\ awaited' = r
        /\ Recorded' = Recorded /\ UNCHANGED <<recent, committing, op, phase>>
        /\ \A t \in Services : pool'[t] = IF t = s THEN pool[s] \cup {r} ELSE pool[t]
    BY <1>4 DEF SendRequest, engine_vars, store_vars, TypeOK, Recorded
  <2>2. QueueShrinks
    BY <2>1, QueueKept
  <2>3. \A e \in Recorded : Withdrawing(e)' => Withdrawing(e)
    BY <2>1, <2>2, WithdrawingStays
  <2> HIDE DEF r
  <2>4. \A t \in Services : \A e : Holding(t, e)' => Holding(t, e) \/ r = RecordOf(e)
    BY <2>1 DEF Holding, Recording
  <2>5. \A e : NoRequest # RecordOf(e)
    BY DEF NoRequest, RecordOf
  <2> QED
    BY <2>1, <2>3, <2>4, <2>5 DEF RecordAwaited
<1>5. ASSUME NEW s \in Services, NEW f \in Events, BeginRecord(s, f) PROVE RecordAwaited'
  <2>1. /\ RecordOf(f) \in pool[s] /\ op[s] = NoOperation /\ Recorded' = Recorded
        /\ UNCHANGED <<queue, recent, committing, phase>>
        /\ \A t \in Services : pool'[t] = IF t = s THEN pool[s] \ {RecordOf(f)} ELSE pool[t]
        /\ awaited' = awaited \/ (awaited = RecordOf(f) /\ op' = op)
    BY <1>5 DEF BeginRecord, Answer, RecordOf, Recorded, engine_vars, TypeOK
  <2>2. /\ \A t \in Services : t # s => op'[t] = op[t]
        /\ op'[s].kind = "record" => op'[s].event = f
    <3>1. op[s].kind # "record"
      BY <2>1 DEF NoOperation
    <3> DEFINE operation == [kind |-> "record", event |-> f, until |-> 0, next |-> 1, key |-> None]
    <3>2. op' = op \/ op' = [op EXCEPT ![s] = operation]
      BY <1>5 DEF BeginRecord, Begin
    <3>3. operation.event = f
      OBVIOUS
    <3> HIDE DEF operation
    <3> QED
      BY <3>1, <3>2, <3>3, NewOperation
  <2>3. \A t \in Services : \A e : Holding(t, e)' => Holding(t, e)
    BY <2>1, <2>2 DEF Holding, Recording
  <2>4. \A e : Withdrawing(e)' => Withdrawing(e)
    BY <2>1 DEF Withdrawing, Queued
  <2>5. ASSUME NEW t \in Services, NEW e \in Recorded, Holding(t, e)', awaited = RecordOf(e)
        PROVE  awaited' = awaited
    <3>1. CASE e # f
      BY <2>1, <2>5, <3>1, RequestForms
    <3>2. CASE e = f /\ op' = op
      <4>1. Holding(s, e) /\ t = s
        BY <2>1, <2>3, <2>5, <3>2 DEF MessagesOK, RecordsOnce, Holding
      <4>2. op[s].kind # "record"
        BY <2>1 DEF NoOperation
      <4> QED
        BY <2>1, <2>5, <3>2, <4>1, <4>2 DEF Holding, Recording
    <3> QED
      BY <2>1, <3>1, <3>2
  <2> QED
    BY <2>1, <2>3, <2>4, <2>5, AwaitedStays
<1>6. ASSUME NEW s \in Services, NEW f \in Events, Discard(s, f) PROVE RecordAwaited'
  <2>1. /\ Recorded' = Recorded /\ UNCHANGED <<queue, recent, committing, phase, op>>
        /\ \A t \in Services : pool'[t] \subseteq pool[t]
        /\ awaited' = awaited \/ awaited = DiscardOf(f)
    BY <1>6 DEF Discard, Answer, DiscardOf, Recorded, engine_vars, TypeOK
  <2>2. \A t \in Services : \A e : Holding(t, e)' => Holding(t, e)
    BY <2>1 DEF Holding, Recording
  <2>3. \A e : Withdrawing(e)' => Withdrawing(e)
    BY <2>1 DEF Withdrawing, Queued
  <2> QED
    BY <2>1, <2>2, <2>3, AwaitedStays, RequestForms
<1> QED
  BY <1>1, <1>2, <1>3, <1>4, <1>5, <1>6, StepForms

-----------------------------------------------------------------------------
(* What a step does to the staged commits *)

\* A record that has been handled does not come back, and a commit keeps its
\* source.
LEMMA RecordsMoveOn ==
  ASSUME TypeOK, [Next]_vars
  PROVE  /\ Recorded \subseteq Recorded'
         /\ \A e \in Recorded : Source(e)' = Source(e)
         /\ \A s \in Services, e \in Recorded :
              Queued(RecordOf(e))' \/ Holding(s, e)' => Queued(RecordOf(e)) \/ Holding(s, e)
<1>1. CASE Quiet
  <2>1. MessagesShrink
    BY <1>1, QuietShrinks
  <2> QED
    BY <2>1 DEF MessagesShrink, QueueShrinks, Queued, Holding, Recording, Recorded, Source
<1>2. ASSUME NEW c \in Contexts, CommitText(c)
      PROVE  /\ Recorded \subseteq Recorded'
             /\ \A e \in Recorded : Source(e)' = Source(e)
             /\ \A s \in Services, e \in Recorded :
                  Queued(RecordOf(e))' \/ Holding(s, e)' => Queued(RecordOf(e)) \/ Holding(s, e)
  <2> DEFINE n == Len(commits) + 1
  <2>1. Len(commits) \in Nat /\ n \in Events /\ commits \in Seq(Contexts)
    BY <1>2, TrainingAssumption DEF CommitText, TypeOK, Events
  <2>2. Len(commits') = Len(commits) + 1 /\ \A e \in 1..Len(commits) : commits'[e] = commits[e]
    BY <1>2, <2>1, AppendProperties DEF CommitText
  <2>3. QueueGrows(RecordOf(n))
    BY <1>2, <2>1, QueueAppended, RequestForms DEF CommitText, RecordOf
  <2>4. n \notin Recorded /\ Recorded \subseteq Recorded' /\ \A e \in Recorded : Source(e)' = Source(e)
    BY <2>1, <2>2 DEF Recorded, Source
  <2>5. UNCHANGED <<pool, op>>
    BY <1>2 DEF CommitText, store_vars
  <2> HIDE DEF n
  <2>6. \A s \in Services : \A e : Holding(s, e)' <=> Holding(s, e)
    BY <2>5 DEF Holding, Recording
  <2>7. \A e \in Recorded : Queued(RecordOf(e))' => Queued(RecordOf(e))
    BY <2>3, <2>4, RequestForms DEF Queued, QueueGrows
  <2> QED
    BY <2>4, <2>6, <2>7
<1>3. ASSUME NEW c \in Contexts, Backspace(c)
      PROVE  /\ Recorded \subseteq Recorded'
             /\ \A e \in Recorded : Source(e)' = Source(e)
             /\ \A s \in Services, e \in Recorded :
                  Queued(RecordOf(e))' \/ Holding(s, e)' => Queued(RecordOf(e)) \/ Holding(s, e)
  <2>1. UNCHANGED <<commits, pool, op>> /\ recent # None
    BY <1>3 DEF Backspace, store_vars
  <2>2. recent \in Events
    <3>1. recent \in 0..Len(commits) /\ Len(commits) \in Nat /\ Len(commits) <= MaxCommits
      BY DEF TypeOK
    <3> QED
      BY <2>1, <3>1, TrainingAssumption DEF Events, None
  <2>3. QueueGrows(DiscardOf(recent))
    BY <1>3, <2>2, QueueAppended, RequestForms DEF Backspace, DiscardOf
  <2>4. \A e : Queued(RecordOf(e))' => Queued(RecordOf(e))
    BY <2>3, RequestForms DEF Queued, QueueGrows
  <2>5. \A s \in Services : \A e : Holding(s, e)' <=> Holding(s, e)
    BY <2>1 DEF Holding, Recording
  <2> QED
    BY <2>1, <2>4, <2>5 DEF Recorded, Source
<1>4. ASSUME NEW s \in Services, SendRequest(s)
      PROVE  /\ Recorded \subseteq Recorded'
             /\ \A e \in Recorded : Source(e)' = Source(e)
             /\ \A t \in Services, e \in Recorded :
                  Queued(RecordOf(e))' \/ Holding(t, e)' => Queued(RecordOf(e)) \/ Holding(t, e)
  <2> DEFINE r == Head(queue)
  <2>1. /\ queue # <<>> /\ queue' = Tail(queue) /\ UNCHANGED <<commits, op>>
        /\ \A t \in Services : pool'[t] = IF t = s THEN pool[s] \cup {r} ELSE pool[t]
    BY <1>4 DEF SendRequest, engine_vars, store_vars, TypeOK
  <2>2. 1 \in DOMAIN queue /\ r = queue[1] /\ \A k \in DOMAIN queue' : k + 1 \in DOMAIN queue /\ queue'[k] = queue[k + 1]
    BY <2>1, BehindFirst
  <2> HIDE DEF r
  <2>3. \A e : /\ Queued(RecordOf(e))' => Queued(RecordOf(e))
               /\ r = RecordOf(e) => Queued(RecordOf(e))
    BY <2>2 DEF Queued
  <2>4. \A t \in Services : \A e : Holding(t, e)' => Holding(t, e) \/ r = RecordOf(e)
    BY <2>1 DEF Holding, Recording
  <2> QED
    BY <2>1, <2>3, <2>4 DEF Recorded, Source
<1>5. ASSUME NEW s \in Services, NEW f \in Events, BeginRecord(s, f)
      PROVE  /\ Recorded \subseteq Recorded'
             /\ \A e \in Recorded : Source(e)' = Source(e)
             /\ \A t \in Services, e \in Recorded :
                  Queued(RecordOf(e))' \/ Holding(t, e)' => Queued(RecordOf(e)) \/ Holding(t, e)
  <2>1. /\ RecordOf(f) \in pool[s] /\ op[s] = NoOperation /\ UNCHANGED <<commits, queue>>
        /\ \A t \in Services : pool'[t] \subseteq pool[t]
    BY <1>5 DEF BeginRecord, RecordOf, engine_vars, TypeOK
  <2>2. /\ \A t \in Services : t # s => op'[t] = op[t]
        /\ op'[s].kind = "record" => op'[s].event = f
    <3>1. op[s].kind # "record"
      BY <2>1 DEF NoOperation
    <3> DEFINE operation == [kind |-> "record", event |-> f, until |-> 0, next |-> 1, key |-> None]
    <3>2. op' = op \/ op' = [op EXCEPT ![s] = operation]
      BY <1>5 DEF BeginRecord, Begin
    <3>3. operation.event = f
      OBVIOUS
    <3> HIDE DEF operation
    <3> QED
      BY <3>1, <3>2, <3>3, NewOperation
  <2> QED
    BY <2>1, <2>2 DEF Queued, Holding, Recording, Recorded, Source
<1>6. ASSUME NEW s \in Services, NEW f \in Events, Discard(s, f)
      PROVE  /\ Recorded \subseteq Recorded'
             /\ \A e \in Recorded : Source(e)' = Source(e)
             /\ \A t \in Services, e \in Recorded :
                  Queued(RecordOf(e))' \/ Holding(t, e)' => Queued(RecordOf(e)) \/ Holding(t, e)
  <2>1. UNCHANGED <<commits, queue, op>> /\ \A t \in Services : pool'[t] \subseteq pool[t]
    BY <1>6 DEF Discard, engine_vars, TypeOK
  <2> QED
    BY <2>1 DEF Queued, Holding, Recording, Recorded, Source
<1> QED
  BY <1>1, <1>2, <1>3, <1>4, <1>5, <1>6, StepForms

\* Entries disappear, and the others stay as they are and in order.
Thinned(s) ==
  \E from \in [DOMAIN staged'[s] -> DOMAIN staged[s]] :
    /\ \A k \in DOMAIN staged'[s] : staged'[s][k] = staged[s][from[k]]
    /\ \A k, l \in DOMAIN staged'[s] : k < l => from[k] < from[l]

\* A new entry is the last, and the latest.
Extended(s) ==
  /\ op[s].kind = "record" /\ Targets(s) = {}
  /\ UNCHANGED <<commits, queue, pool, withdrawn, elapsed>> /\ op'[s].kind = "none"
  /\ clock'[s] = clock[s] + 1
  /\ \A k \in DOMAIN staged'[s] :
       \/ k \in DOMAIN staged[s] /\ k <= Len(staged[s]) /\ staged'[s][k] = staged[s][k]
       \/ /\ k = Len(staged[s]) + 1
          /\ staged'[s][k].event = op[s].event
          /\ staged'[s][k].at = clock[s] + 1
          /\ staged'[s][k].text

\* Entries that stay are thinned by none.
LEMMA ThinnedSame ==
  ASSUME TypeOK, NEW s \in Services, staged'[s] = staged[s]
  PROVE  Thinned(s)
<1> DEFINE from == [k \in DOMAIN staged[s] |-> k]
<1>1. /\ from \in [DOMAIN staged'[s] -> DOMAIN staged[s]]
      /\ \A k \in DOMAIN staged'[s] : from[k] = k
  OBVIOUS
<1> HIDE DEF from
<1>2. /\ \A k \in DOMAIN staged'[s] : staged'[s][k] = staged[s][from[k]]
      /\ \A k, l \in DOMAIN staged'[s] : k < l => from[k] < from[l]
  BY <1>1
<1> QED
  BY <1>1, <1>2 DEF Thinned

\* Keeping a part of the entries thins them.
LEMMA ThinnedKeep ==
  ASSUME TypeOK, NEW s \in Services, NEW S \in SUBSET (DOMAIN staged[s]),
         staged'[s] = Keep(staged[s], S)
  PROVE  Thinned(s)
<1>1. staged[s] \in Seq(StagedCommit)
  BY DEF TypeOK
<1>2. PICK from \in [DOMAIN Keep(staged[s], S) -> S] :
        /\ \A k \in DOMAIN Keep(staged[s], S) : Keep(staged[s], S)[k] = staged[s][from[k]]
        /\ \A k, l \in DOMAIN Keep(staged[s], S) : k < l => from[k] < from[l]
  BY <1>1, KeepEmbeds
<1>3. from \in [DOMAIN staged'[s] -> DOMAIN staged[s]]
  BY <1>2
<1> QED
  BY <1>2, <1>3 DEF Thinned

\* The text of no entry is taken by a failure: what is in front of the entry
\* that could not be written is older.
LEMMA FailureTakesNothing ==
  ASSUME TypeOK, StagedOK, NEW s \in Services, op[s].kind = "flush", Targets(s) # {}
  PROVE  LeftByFailure(s) = staged[s]
<1>1. /\ Targets(s) \subseteq DOMAIN staged[s] /\ Min(Targets(s)) \in Targets(s)
      /\ staged[s] \in Seq(StagedCommit) /\ DOMAIN staged[s] = 1..Len(staged[s])
      /\ op[s].until \in Nat
  BY FirstTarget, LenProperties DEF TypeOK, Operation
<1>2. \A i \in DOMAIN staged[s] : staged[s][i] \in StagedCommit
  BY <1>1
<1>3. \A i \in DOMAIN staged[s] : staged[s][i].at \in Nat
  BY <1>2 DEF StagedCommit
<1>4. staged[s][Min(Targets(s))].at <= op[s].until
  BY <1>1 DEF Targets
<1>5. ASSUME NEW i \in DOMAIN staged[s], i < Min(Targets(s)) PROVE ~(staged[s][i].at > op[s].until)
  <2>1. staged[s][i].at < staged[s][Min(Targets(s))].at
    BY <1>1, <1>5 DEF StagedOK
  <2> QED
    BY <1>1, <1>3, <1>4, <2>1
<1>6. LeftByFailure(s) = [i \in DOMAIN staged[s] |-> staged[s][i]]
  BY <1>5 DEF LeftByFailure
<1> QED
  BY <1>1, <1>6

\* In a step, the entries of a service are emptied, thinned or extended.
LEMMA StagedForms ==
  ASSUME TypeOK, TypeOK', StagedOK, [Next]_vars, NEW t \in Services
  PROVE  \/ staged'[t] = <<>> /\ clock'[t] = 0 /\ elapsed'[t] = 0
         \/ Thinned(t) /\ clock'[t] = clock[t] /\ (elapsed'[t] = elapsed[t] \/ BecomesDue(t))
         \/ Extended(t)
<1> DEFINE Goal == \/ staged'[t] = <<>> /\ clock'[t] = 0 /\ elapsed'[t] = 0
                   \/ Thinned(t) /\ clock'[t] = clock[t] /\ (elapsed'[t] = elapsed[t] \/ BecomesDue(t))
                   \/ Extended(t)
<1>1. ASSUME UNCHANGED <<staged, clock, elapsed>> PROVE Goal
  BY <1>1, ThinnedSame
<1>2. ASSUME \/ UNCHANGED vars \/ RememberCommit \/ ForgetCommit \/ WindowCloses \/ Reconfigure
             \/ FailRequest \/ Settings
             \/ \E c \in Contexts : CommitText(c) \/ Backspace(c)
             \/ \E s \in Services :
                  \/ StartService(s) \/ StopService(s) \/ SendRequest(s)
                  \/ BeginSettle(s) \/ BeginFinalFlush(s) \/ ReadParameters(s) \/ FailRecord(s)
                  \/ \E e \in Events : BeginRecord(s, e)
      PROVE  Goal
  <2>1. UNCHANGED <<staged, clock, elapsed>>
    BY <1>2 DEF vars, RememberCommit, ForgetCommit, WindowCloses, Reconfigure, FailRequest, Settings,
       ConfigurePassword, ResetConversationData, SetRecordingEnabled, CommitText, Backspace,
       StartService, StopService, SendRequest, BeginSettle, BeginFinalFlush, ReadParameters,
       FailRecord, BeginRecord, store_vars
  <2> QED
    BY <1>1, <2>1
<1>3. ASSUME NEW s \in Services, BecomesDue(s) PROVE Goal
  <2>1. UNCHANGED <<staged, clock>> /\ (s # t => elapsed'[t] = elapsed[t])
    BY <1>3 DEF BecomesDue, TypeOK
  <2> QED
    BY <1>3, <2>1, ThinnedSame
<1>4. ASSUME NEW s \in Services, EmptyStore(s) PROVE Goal
  <2>1. IF t = s THEN staged'[t] = <<>> /\ clock'[t] = 0 /\ elapsed'[t] = 0
        ELSE staged'[t] = staged[t] /\ clock'[t] = clock[t] /\ elapsed'[t] = elapsed[t]
    BY <1>4 DEF EmptyStore, TypeOK
  <2> QED
    BY <2>1, ThinnedSame
<1>5. ASSUME NEW s \in Services, NEW S \in SUBSET (DOMAIN staged[s]), UNCHANGED <<clock, elapsed>>,
             staged' = [staged EXCEPT ![s] = Keep(staged[s], S)]
      PROVE  Goal
  <2>1. staged'[t] = IF t = s THEN Keep(staged[s], S) ELSE staged[t]
    BY <1>5 DEF TypeOK
  <2> QED
    BY <1>5, <2>1, ThinnedSame, ThinnedKeep
<1>6. ASSUME NEW s \in Services, NEW e \in Events, Discard(s, e) PROVE Goal
  <2>1. /\ UNCHANGED <<clock, elapsed>> /\ staged' = [staged EXCEPT ![s] = WithoutEvent(staged[s], e)]
        /\ staged[s] \in Seq(StagedCommit)
    BY <1>6 DEF Discard, TypeOK
  <2>2. CASE WithoutEvent(staged[s], e) = staged[s]
    BY <1>1, <2>1, <2>2 DEF TypeOK
  <2>3. ASSUME NEW i \in DOMAIN staged[s],
               WithoutEvent(staged[s], e) = Keep(staged[s], DOMAIN staged[s] \ {i})
        PROVE  Goal
    <3>1. /\ DOMAIN staged[s] \ {i} \in SUBSET (DOMAIN staged[s])
          /\ staged' = [staged EXCEPT ![s] = Keep(staged[s], DOMAIN staged[s] \ {i})]
      BY <2>1, <2>3
    <3> HIDE DEF Goal
    <3> QED
      BY <1>5, <2>1, <3>1
  <2> HIDE DEF Goal
  <2> QED
    BY <2>1, <2>2, <2>3, WithoutEventKeeps
<1>7. ASSUME NEW s \in Services, NEW e \in Events, Insert(s, e) PROVE Goal
  <2>1. /\ UNCHANGED <<clock, elapsed>>
        /\ \/ staged' = [staged EXCEPT ![s] = Keep(staged[s], DOMAIN staged[s] \ {Min(Targets(s))})]
           \/ staged' = staged
    BY <1>7 DEF Insert
  <2> HIDE DEF Goal
  <2> QED
    BY <1>1, <1>5, <2>1
<1>8. ASSUME NEW s \in Services, FinishFlush(s) \/ FailFlush(s) PROVE Goal
  <2>1. PICK remaining :
          /\ EndFlush(s, remaining)
          /\ \/ \E S \in SUBSET (DOMAIN staged[s]) : remaining = Keep(staged[s], S)
             \/ remaining = staged[s]
    <3>1. CASE FinishFlush(s)
      <4>1. {i \in DOMAIN staged[s] : staged[s][i].at > op[s].until} \in SUBSET (DOMAIN staged[s])
        OBVIOUS
      <4> QED
        BY <3>1, <4>1 DEF FinishFlush
    <3>2. CASE FailFlush(s)
      BY <3>2, FailureTakesNothing DEF FailFlush, WriteFails
    <3> QED
      BY <1>8, <3>1, <3>2
  <2>2. CASE EmptyStore(s)
    BY <1>4, <2>2
  <2>3. CASE UNCHANGED <<clock, elapsed>> /\ staged' = [staged EXCEPT ![s] = remaining]
    <3>1. CASE remaining = staged[s]
      BY <1>1, <2>3, <3>1 DEF TypeOK
    <3>2. ASSUME NEW S \in SUBSET (DOMAIN staged[s]), remaining = Keep(staged[s], S) PROVE Goal
      BY <1>5, <2>3, <3>2
    <3> HIDE DEF Goal
    <3> QED
      BY <2>1, <3>1, <3>2
  <2> HIDE DEF Goal
  <2> QED
    BY <2>1, <2>2, <2>3 DEF EndFlush
<1>9. ASSUME NEW s \in Services, FinishRecord(s) PROVE Goal
  <2>1. CASE Len(staged[s]) >= StagedLimit
    BY <1>1, <1>9, <2>1 DEF FinishRecord
  <2>2. CASE ~(Len(staged[s]) >= StagedLimit)
    <3> DEFINE entry == [event |-> op[s].event, at |-> clock[s] + 1,
                         ahead |-> op[s].event = committing, text |-> TRUE]
    <3>1. /\ staged' = [staged EXCEPT ![s] = Append(staged[s], entry)]
          /\ clock' = [clock EXCEPT ![s] = clock[s] + 1]
          /\ op' = [op EXCEPT ![s] = NoOperation]
          /\ UNCHANGED <<commits, queue, pool, withdrawn, elapsed>>
          /\ op[s].kind = "record" /\ Targets(s) = {}
      BY <1>9, <2>2 DEF FinishRecord, engine_vars
    <3>2. entry.event = op[s].event /\ entry.at = clock[s] + 1 /\ entry.text
      OBVIOUS
    <3>3. /\ op[s].event \in Events /\ clock[s] \in Nat /\ staged[s] \in Seq(StagedCommit)
          /\ NoOperation.kind = "none"
      <4>1. op[s] \in Operation /\ op[s].event # None /\ clock[s] \in Nat /\ staged[s] \in Seq(StagedCommit)
        BY <3>1 DEF TypeOK
      <4>2. op[s].event \in 0..MaxCommits
        BY <4>1 DEF Operation
      <4> QED
        BY <4>1, <4>2, TrainingAssumption DEF Events, None, NoOperation
    <3>4. entry \in StagedCommit
      BY <3>3 DEF StagedCommit
    <3> HIDE DEF entry
    <3>5. /\ Append(staged[s], entry) \in Seq(StagedCommit)
          /\ Len(Append(staged[s], entry)) = Len(staged[s]) + 1
          /\ \A k \in 1..Len(staged[s]) : Append(staged[s], entry)[k] = staged[s][k]
          /\ Append(staged[s], entry)[Len(staged[s]) + 1] = entry
      BY <3>3, <3>4, AppendProperties
    <3>6. /\ DOMAIN Append(staged[s], entry) = 1..(Len(staged[s]) + 1)
          /\ DOMAIN staged[s] = 1..Len(staged[s]) /\ Len(staged[s]) \in Nat
      BY <3>3, <3>5, LenProperties
    <3>7. \A k \in DOMAIN Append(staged[s], entry) :
            \/ k \in DOMAIN staged[s] /\ k <= Len(staged[s]) /\ Append(staged[s], entry)[k] = staged[s][k]
            \/ k = Len(staged[s]) + 1 /\ Append(staged[s], entry)[k] = entry
      BY <3>5, <3>6
    <3>8. /\ staged'[t] = IF t = s THEN Append(staged[s], entry) ELSE staged[t]
          /\ clock'[t] = IF t = s THEN clock[s] + 1 ELSE clock[t]
          /\ op'[t] = IF t = s THEN NoOperation ELSE op[t]
      BY <3>1 DEF TypeOK
    <3>9. CASE t = s
      <4>1. Extended(t)
        BY <3>1, <3>2, <3>3, <3>7, <3>8, <3>9 DEF Extended
      <4> QED
        BY <4>1
    <3>10. CASE t # s
      BY <3>1, <3>8, <3>10, ThinnedSame
    <3> QED
      BY <3>9, <3>10
  <2> QED
    BY <2>1, <2>2
<1>10. ASSUME NEW s \in Services, CrashService(s) PROVE Goal
  BY <1>4, <1>10 DEF CrashService
<1> HIDE DEF Goal
<1>11. ASSUME Quiet PROVE Goal
  <2>1. \/ \/ UNCHANGED vars \/ RememberCommit \/ ForgetCommit \/ WindowCloses \/ Reconfigure
           \/ FailRequest \/ Settings
           \/ \E s \in Services :
                \/ StartService(s) \/ StopService(s)
                \/ BeginSettle(s) \/ BeginFinalFlush(s) \/ ReadParameters(s) \/ FailRecord(s)
        \/ \E s \in Services :
             \/ BecomesDue(s) \/ CrashService(s) \/ FinishRecord(s) \/ FinishFlush(s) \/ FailFlush(s)
             \/ \E e \in Events : Insert(s, e)
    BY <1>11 DEF Quiet
  <2> QED
    BY <1>2, <1>3, <1>7, <1>8, <1>9, <1>10, <2>1
<1>12. Goal
  BY <1>2, <1>6, <1>11, StepForms
<1> QED
  BY <1>12 DEF Goal

\* The types of the entries of a service.
LEMMA EntryTypes ==
  ASSUME TypeOK, NEW s \in Services
  PROVE  /\ staged[s] \in Seq(StagedCommit) /\ Len(staged[s]) \in Nat
         /\ DOMAIN staged[s] = 1..Len(staged[s])
         /\ clock[s] \in Nat /\ elapsed[s] \in Nat /\ expired \in Nat
         /\ \A i \in DOMAIN staged[s] :
              /\ staged[s][i] \in StagedCommit
              /\ staged[s][i].at \in Nat \ {0} /\ staged[s][i].event \in Events
<1>1. staged[s] \in Seq(StagedCommit) /\ clock[s] \in Nat /\ elapsed[s] \in Nat
  BY DEF TypeOK
<1>2. \A i \in DOMAIN staged[s] : staged[s][i] \in StagedCommit
  BY <1>1
<1>3. expired \in 0..Len(commits) /\ Len(commits) \in Nat
  BY DEF TypeOK
<1>4. \A i \in DOMAIN staged[s] : staged[s][i].at \in Nat \ {0} /\ staged[s][i].event \in Events
  BY <1>2 DEF StagedCommit
<1> QED
  BY <1>1, <1>2, <1>3, <1>4, LenProperties

\* What the invariant says of the entries of one service.
Handled(s, e) == ~Queued(RecordOf(e)) /\ ~Holding(s, e)
StagedAt(s) ==
  \A i \in DOMAIN staged[s] :
    /\ staged[s][i].event \in Recorded /\ staged[s][i].at <= clock[s]
    /\ \A j \in DOMAIN staged[s] : i < j => staged[s][i].at < staged[s][j].at
    /\ \A e : staged[s][i].event = e => Handled(s, e)
SourcesAt(s) ==
  \A i, j \in DOMAIN staged[s] :
    Source(staged[s][i].event) = Source(staged[s][j].event) => i = j
TextAt(s) == \A i \in DOMAIN staged[s] : staged[s][i].text

\* A step keeps what is said of the entries of one service ...
LEMMA EntriesKept ==
  ASSUME TypeOK, TypeOK', MessagesOK, StagedOK, OneStagedPerSource, TextIsKept, [Next]_vars,
         NEW s \in Services
  PROVE  StagedAt(s)' /\ SourcesAt(s)' /\ TextAt(s)'
<1>1. /\ Recorded \subseteq Recorded'
      /\ \A e \in Recorded : Source(e)' = Source(e)
      /\ \A e \in Recorded :
           Handled(s, e) => Handled(s, e)'
  BY RecordsMoveOn DEF Handled
<1>2. StagedAt(s) /\ SourcesAt(s) /\ TextAt(s)
  BY DEF StagedOK, OneStagedPerSource, TextIsKept, ToSet, StagedAt, SourcesAt, TextAt, Handled
<1>3. CASE staged'[s] = <<>>
  BY <1>3 DEF StagedAt, SourcesAt, TextAt
<1>4. CASE Thinned(s) /\ clock'[s] = clock[s]
  <2>1. PICK from \in [DOMAIN staged'[s] -> DOMAIN staged[s]] :
          /\ \A k \in DOMAIN staged'[s] : staged'[s][k] = staged[s][from[k]]
          /\ \A k, l \in DOMAIN staged'[s] : k < l => from[k] < from[l]
    BY <1>4 DEF Thinned
  <2>2. \A k \in DOMAIN staged'[s] : from[k] \in DOMAIN staged[s] /\ k \in Nat
    <3>1. staged'[s] \in Seq(StagedCommit)
      BY DEF TypeOK
    <3>2. DOMAIN staged'[s] = 1..Len(staged'[s]) /\ Len(staged'[s]) \in Nat
      BY <3>1, LenProperties
    <3> QED
      BY <2>1, <3>2
  <2>3. StagedAt(s)'
    BY <1>1, <1>2, <1>4, <2>1, <2>2 DEF StagedAt
  <2>4. ASSUME NEW i \in DOMAIN staged'[s], NEW j \in DOMAIN staged'[s],
               (Source(staged[s][i].event) = Source(staged[s][j].event))'
        PROVE  i = j
    <3>1. from[i] = from[j]
      BY <1>1, <1>2, <2>1, <2>2, <2>4 DEF SourcesAt, StagedAt, Source
    <3>2. from[i] \in DOMAIN staged[s] /\ DOMAIN staged[s] = 1..Len(staged[s]) /\ Len(staged[s]) \in Nat
      BY <2>2, EntryTypes
    <3>3. ~(i < j) /\ ~(j < i)
      BY <2>1, <3>1, <3>2
    <3>4. i \in Nat /\ j \in Nat
      BY <2>2, <2>4
    <3> QED
      BY <3>3, <3>4
  <2>5. TextAt(s)'
    BY <1>2, <2>1, <2>2 DEF TextAt
  <2> QED
    BY <2>3, <2>4, <2>5 DEF SourcesAt
<1>5. CASE Extended(s)
  <2> DEFINE n == Len(staged[s]) + 1
  <2>0. PICK f : f = op[s].event
    OBVIOUS
  <2>1. /\ op[s].kind = "record" /\ Targets(s) = {}
        /\ UNCHANGED <<commits, queue, pool, withdrawn, elapsed>> /\ op'[s].kind = "none"
        /\ clock'[s] = clock[s] + 1
        /\ \A k \in DOMAIN staged'[s] :
             \/ k \in DOMAIN staged[s] /\ k <= Len(staged[s]) /\ staged'[s][k] = staged[s][k]
             \/ /\ k = n /\ staged'[s][k].event = f
                /\ staged'[s][k].at = clock[s] + 1 /\ staged'[s][k].text
    BY <1>5, <2>0 DEF Extended
  <2>2. f \in Recorded /\ Recording(s, f)
    BY <2>0, <2>1 DEF MessagesOK, EventsKnown, Recording
  <2>3. Handled(s, f)'
    <3>1. ~Queued(RecordOf(f)) /\ RecordOf(f) \notin pool[s]
      BY <2>2 DEF MessagesOK, RecordsOnce, Holding
    <3>2. ~Queued(RecordOf(f))'
      BY <2>1, <3>1 DEF Queued
    <3>3. ~Holding(s, f)'
      BY <2>1, <3>1 DEF Holding, Recording
    <3> QED
      BY <3>2, <3>3 DEF Handled
  <2>4. \A i \in DOMAIN staged[s] : Source(staged[s][i].event) # Source(f)
    BY <2>0, <2>1 DEF Targets
  <2>5. /\ clock[s] \in Nat /\ Len(staged[s]) \in Nat /\ DOMAIN staged[s] = 1..Len(staged[s])
        /\ \A i \in DOMAIN staged[s] : staged[s][i].at \in Nat
    BY EntryTypes
  <2>6. StagedAt(s)'
    <3> SUFFICES ASSUME NEW i \in DOMAIN staged'[s]
                 PROVE  /\ staged'[s][i].event \in Recorded' /\ staged'[s][i].at <= clock'[s]
                        /\ \A j \in DOMAIN staged'[s] : i < j => staged'[s][i].at < staged'[s][j].at
                        /\ \A e : staged'[s][i].event = e => Handled(s, e)'
      BY DEF StagedAt
    <3>1. CASE i = n /\ staged'[s][i].event = f /\ staged'[s][i].at = clock[s] + 1
      <4>1. \A j \in DOMAIN staged'[s] : ~(i < j)
        BY <2>1, <2>5, <3>1
      <4> QED
        BY <1>1, <2>1, <2>2, <2>3, <2>5, <3>1, <4>1
    <3>2. CASE i \in DOMAIN staged[s] /\ staged'[s][i] = staged[s][i]
      <4>1. staged[s][i].at <= clock[s] /\ staged[s][i].at \in Nat /\ staged[s][i].event \in Recorded
        BY <1>2, <2>5, <3>2 DEF StagedAt
      <4>2. \A j \in DOMAIN staged'[s] : i < j => staged'[s][i].at < staged'[s][j].at
        <5>1. \A j \in DOMAIN staged[s] : i < j => staged[s][i].at < staged[s][j].at
          BY <1>2, <3>2 DEF StagedAt
        <5>2. staged[s][i].at < clock[s] + 1
          BY <2>5, <4>1
        <5> QED
          BY <2>1, <3>2, <5>1, <5>2
      <4>3. \A e : staged[s][i].event = e => Handled(s, e)
        BY <1>2, <3>2 DEF StagedAt
      <4>4. staged[s][i].at <= clock[s] + 1
        BY <2>5, <4>1
      <4> QED
        BY <1>1, <2>1, <3>2, <4>1, <4>2, <4>3, <4>4
    <3> QED
      BY <2>1, <3>1, <3>2
  <2>7. SourcesAt(s)'
    <3> SUFFICES ASSUME NEW i \in DOMAIN staged'[s], NEW j \in DOMAIN staged'[s],
                        (Source(staged[s][i].event) = Source(staged[s][j].event))'
                 PROVE  i = j
      BY DEF SourcesAt
    <3>1. commits[staged'[s][i].event] = commits[staged'[s][j].event]
      BY <2>1 DEF Source
    <3>2. \A k \in DOMAIN staged[s] : commits[staged[s][k].event] # commits[f]
      BY <2>4 DEF Source
    <3>3. \A k, l \in DOMAIN staged[s] :
            commits[staged[s][k].event] = commits[staged[s][l].event] => k = l
      BY <1>2 DEF SourcesAt, Source
    <3> QED
      BY <2>1, <3>1, <3>2, <3>3
  <2>8. TextAt(s)'
    BY <1>2, <2>1 DEF TextAt
  <2> QED
    BY <2>6, <2>7, <2>8
<1> QED
  BY <1>3, <1>4, <1>5, StagedForms

\* ... and so of all.
LEMMA StagedKept ==
  ASSUME TypeOK, TypeOK', MessagesOK, StagedOK, OneStagedPerSource, TextIsKept, [Next]_vars
  PROVE  StagedOK' /\ OneStagedPerSource' /\ TextIsKept'
<1>1. \A s \in Services : StagedAt(s)' /\ SourcesAt(s)' /\ TextAt(s)'
  BY EntriesKept
<1> QED
  BY <1>1 DEF StagedAt, SourcesAt, TextAt, Handled, StagedOK, OneStagedPerSource, TextIsKept, ToSet

\* A commit that was withdrawn is not staged: its withdrawal finds the only
\* entry there is, and its record is handled before.
LEMMA WithdrawnKept ==
  ASSUME TypeOK, TypeOK', MessagesOK, StagedOK, OneStagedPerSource, WithdrawalIsFinal, [Next]_vars
  PROVE  WithdrawalIsFinal'
<1> SUFFICES ASSUME NEW s \in Services, NEW k \in DOMAIN staged'[s]
             PROVE  staged'[s][k].event \notin withdrawn'[s]
  BY DEF WithdrawalIsFinal, ToSet
<1>1. \A i \in DOMAIN staged[s] : staged[s][i].event \notin withdrawn[s]
  BY DEF WithdrawalIsFinal, ToSet
<1>2. CASE Extended(s)
  <2>1. op[s].event \notin withdrawn[s]
    <3>1. op[s].event \in Recorded /\ Holding(s, op[s].event)
      BY <1>2 DEF Extended, MessagesOK, EventsKnown, Holding, Recording
    <3> QED
      BY <3>1 DEF MessagesOK, WithdrawalsLast
  <2> QED
    BY <1>1, <1>2, <2>1 DEF Extended
<1>3. CASE staged'[s] = <<>>
  BY <1>3
<1>4. CASE Thinned(s)
  <2>1. PICK i \in DOMAIN staged[s] : staged'[s][k] = staged[s][i]
    BY <1>4 DEF Thinned
  <2>2. CASE withdrawn'[s] \subseteq withdrawn[s]
    BY <1>1, <2>1, <2>2
  <2>3. ASSUME NEW e \in Events, Discard(s, e) PROVE staged'[s][k].event \notin withdrawn'[s]
    <3>1. /\ staged'[s] = WithoutEvent(staged[s], e) /\ withdrawn'[s] = withdrawn[s] \cup {e}
          /\ staged[s] \in Seq(StagedCommit)
      BY <2>3 DEF Discard, TypeOK
    <3>2. CASE WithoutEvent(staged[s], e) = staged[s] /\ \A j \in DOMAIN staged[s] : staged[s][j].event # e
      BY <1>1, <3>1, <3>2
    <3>3. ASSUME NEW j \in DOMAIN staged[s], staged[s][j].event = e,
                 WithoutEvent(staged[s], e) = Keep(staged[s], DOMAIN staged[s] \ {j})
          PROVE  staged'[s][k].event \notin withdrawn'[s]
      <4>2. PICK from \in [DOMAIN Keep(staged[s], DOMAIN staged[s] \ {j}) -> DOMAIN staged[s] \ {j}] :
              \A l \in DOMAIN Keep(staged[s], DOMAIN staged[s] \ {j}) :
                Keep(staged[s], DOMAIN staged[s] \ {j})[l] = staged[s][from[l]]
        <5> DEFINE S == DOMAIN staged[s] \ {j}
        <5>1. S \in SUBSET (DOMAIN staged[s])
          OBVIOUS
        <5> HIDE DEF S
        <5>2. \E from \in [DOMAIN Keep(staged[s], S) -> S] :
                \A l \in DOMAIN Keep(staged[s], S) : Keep(staged[s], S)[l] = staged[s][from[l]]
          BY SMTT(30), <3>1, <5>1, KeepEmbeds
        <5> QED
          BY <5>2 DEF S
      <4>3. from[k] \in DOMAIN staged[s] /\ from[k] # j /\ staged'[s][k] = staged[s][from[k]]
        BY <3>1, <3>3, <4>2
      <4>4. staged[s][from[k]].event # e
        BY <3>3, <4>3 DEF OneStagedPerSource
      <4> QED
        BY <1>1, <3>1, <4>3, <4>4
    <3> QED
      BY <3>1, <3>2, <3>3, WithoutEventKeeps
  <2>4. ASSUME NEW t \in Services, NEW e \in Events, Discard(t, e), t # s
        PROVE  withdrawn'[s] \subseteq withdrawn[s]
    BY <2>4 DEF Discard, TypeOK
  <2>5. ASSUME Quiet PROVE withdrawn'[s] \subseteq withdrawn[s]
    BY <2>5, QuietShrinks DEF MessagesShrink
  <2>6. ASSUME \/ \E c \in Contexts : CommitText(c) \/ Backspace(c)
               \/ \E t \in Services : SendRequest(t) \/ \E e \in Events : BeginRecord(t, e)
        PROVE  withdrawn'[s] \subseteq withdrawn[s]
    BY <2>6 DEF CommitText, Backspace, SendRequest, BeginRecord, store_vars
  <2> QED
    BY <2>2, <2>3, <2>4, <2>5, <2>6, StepForms
<1> QED
  BY <1>2, <1>3, <1>4, StagedForms

-----------------------------------------------------------------------------
(* What is due *)

\* The commit that may be withdrawn is the latest one.
LatestOnly ==
  /\ committing \in {None, Len(commits)}
  /\ committing = None => recent \in {None, Len(commits)}

\* Every step keeps that only the latest commit can be withdrawn.
LEMMA LatestKept ==
  ASSUME TypeOK, LatestOnly, [Next]_vars
  PROVE  LatestOnly' /\ expired' \in {expired, expired + 1}
<1>1. ASSUME NEW c \in Contexts, CommitText(c) PROVE LatestOnly' /\ expired' \in {expired, expired + 1}
  <2>1. Len(commits) \in Nat /\ Len(commits') = Len(commits) + 1
    BY <1>1, AppendProperties DEF CommitText, TypeOK
  <2>2. committing' = Len(commits) + 1 /\ expired' = expired
    BY <1>1 DEF CommitText
  <2> QED
    BY <2>1, <2>2 DEF LatestOnly, None
<1>2. ASSUME \/ RememberCommit \/ ForgetCommit \/ WindowCloses \/ Reconfigure
             \/ \E c \in Contexts : Backspace(c)
      PROVE  LatestOnly' /\ expired' \in {expired, expired + 1}
  BY <1>2 DEF RememberCommit, ForgetCommit, WindowCloses, Reconfigure, Backspace, LatestOnly
<1>3. ASSUME UNCHANGED engine_vars PROVE LatestOnly' /\ expired' \in {expired, expired + 1}
  BY <1>3 DEF LatestOnly, engine_vars
<1>4. ASSUME \/ UNCHANGED vars \/ FailRequest \/ Settings
             \/ \E s \in Services :
                  \/ StartService(s) \/ StopService(s) \/ CrashService(s) \/ SendRequest(s)
                  \/ BecomesDue(s) \/ BeginSettle(s) \/ BeginFinalFlush(s) \/ ReadParameters(s)
                  \/ FinishRecord(s) \/ FailRecord(s) \/ FinishFlush(s) \/ FailFlush(s)
                  \/ \E e \in Events : BeginRecord(s, e) \/ Discard(s, e) \/ Insert(s, e)
      PROVE  UNCHANGED engine_vars
  BY ZenonT(60), <1>4 DEF vars, FailRequest, Settings, ConfigurePassword, ResetConversationData,
     SetRecordingEnabled, StartService, StopService, CrashService, SendRequest, BecomesDue,
     BeginSettle, BeginFinalFlush, ReadParameters, FinishRecord, FailRecord, FinishFlush,
     FailFlush, BeginRecord, Discard, Insert
<1>5. ASSUME Quiet PROVE \/ UNCHANGED engine_vars
                         \/ RememberCommit \/ ForgetCommit \/ WindowCloses \/ Reconfigure
  BY <1>4, <1>5 DEF Quiet
<1>6. ASSUME NEW s \in Services, SendRequest(s) \/ \E e \in Events : BeginRecord(s, e) \/ Discard(s, e)
      PROVE  UNCHANGED engine_vars
  BY <1>4, <1>6
<1> QED
  BY <1>1, <1>2, <1>3, <1>5, <1>6, StepForms

\* What is due in a service cannot be withdrawn, unless it was staged too early.
DueAt(s) ==
  /\ elapsed[s] <= clock[s]
  /\ \A i \in DOMAIN staged[s] :
       staged[s][i].at <= elapsed[s] => staged[s][i].ahead \/ staged[s][i].event <= expired

\* What becomes due is one entry, the next.
LEMMA BecomesDueForm ==
  ASSUME TypeOK, StagedOK, NEW s \in Services, BecomesDue(s)
  PROVE  /\ UNCHANGED <<phase, staged, clock, op, expired>>
         /\ \E i \in DOMAIN staged[s] :
              /\ elapsed'[s] = staged[s][i].at /\ elapsed[s] < elapsed'[s] /\ elapsed'[s] <= clock[s]
              /\ staged[s][i].ahead \/ staged[s][i].event <= expired
              /\ \A j \in DOMAIN staged[s] :
                   staged[s][j].at <= elapsed'[s] => staged[s][j].at <= elapsed[s] \/ j = i
<1>1. PICK entry \in ToSet(staged[s]) :
        /\ entry.at > elapsed[s] /\ (entry.ahead \/ entry.event <= expired)
        /\ \A other \in ToSet(staged[s]) : other.at > elapsed[s] => entry.at <= other.at
        /\ elapsed' = [elapsed EXCEPT ![s] = entry.at]
        /\ UNCHANGED <<phase, staged, clock, op, expired>>
  BY DEF BecomesDue, engine_vars
<1>2. PICK i \in DOMAIN staged[s] : entry = staged[s][i]
  BY DEF ToSet
<1>3. elapsed'[s] = staged[s][i].at /\ staged[s][i].at > elapsed[s]
  BY <1>1, <1>2 DEF TypeOK
<1>4. /\ DOMAIN staged[s] = 1..Len(staged[s]) /\ Len(staged[s]) \in Nat
      /\ elapsed[s] \in Nat /\ clock[s] \in Nat
      /\ \A j \in DOMAIN staged[s] : staged[s][j].at \in Nat
  BY EntryTypes
<1>5. staged[s][i].at <= clock[s]
  BY DEF StagedOK
<1>6. ASSUME NEW j \in DOMAIN staged[s], staged[s][j].at <= elapsed'[s], ~(staged[s][j].at <= elapsed[s])
      PROVE  j = i
  <2>1. staged[s][i].at <= staged[s][j].at
    BY <1>1, <1>2, <1>4, <1>6, SMTT(20) DEF ToSet
  <2>2. staged[s][j].at = staged[s][i].at
    BY <1>3, <1>4, <1>6, <2>1
  <2>3. ~(i < j) /\ ~(j < i)
    BY <1>4, <2>2 DEF StagedOK
  <2> QED
    BY <1>4, <2>3
<1> QED
  BY <1>1, <1>2, <1>3, <1>4, <1>5, <1>6

\* Every step keeps what is due settled.
LEMMA DueKept ==
  ASSUME TypeOK, TypeOK', StagedOK, LatestOnly, [Next]_vars, NEW s \in Services, DueAt(s)
  PROVE  DueAt(s)'
<1>1. /\ expired' \in Nat /\ expired \in Nat /\ expired <= expired'
  BY LatestKept, EntryTypes
<1>2. /\ clock[s] \in Nat /\ elapsed[s] \in Nat /\ Len(staged[s]) \in Nat
      /\ \A i \in DOMAIN staged[s] : staged[s][i].at \in Nat /\ staged[s][i].event \in Nat
  BY EntryTypes DEF Events
<1>3. CASE staged'[s] = <<>> /\ clock'[s] = 0 /\ elapsed'[s] = 0
  BY <1>3 DEF DueAt
<1>4. CASE Thinned(s) /\ clock'[s] = clock[s] /\ elapsed'[s] = elapsed[s]
  <2>1. PICK from \in [DOMAIN staged'[s] -> DOMAIN staged[s]] :
          \A k \in DOMAIN staged'[s] : staged'[s][k] = staged[s][from[k]]
    BY <1>4 DEF Thinned
  <2>2. \A k \in DOMAIN staged'[s] : from[k] \in DOMAIN staged[s]
    BY <2>1
  <2>3. \A i \in DOMAIN staged[s] : staged[s][i].event <= expired => staged[s][i].event <= expired'
    BY <1>1, <1>2
  <2> QED
    BY <1>4, <2>1, <2>2, <2>3 DEF DueAt
<1>5. CASE BecomesDue(s)
  BY <1>5, BecomesDueForm DEF DueAt
<1>6. CASE Extended(s)
  <2>1. /\ clock'[s] = clock[s] + 1 /\ elapsed'[s] = elapsed[s]
        /\ \A k \in DOMAIN staged'[s] :
             \/ k \in DOMAIN staged[s] /\ staged'[s][k] = staged[s][k]
             \/ staged'[s][k].at = clock[s] + 1
    BY <1>6 DEF Extended
  <2>2. elapsed[s] <= clock[s] + 1 /\ ~(clock[s] + 1 <= elapsed[s])
    BY <1>2 DEF DueAt
  <2>3. \A i \in DOMAIN staged[s] : staged[s][i].event <= expired => staged[s][i].event <= expired'
    BY <1>1, <1>2
  <2> QED
    BY <2>1, <2>2, <2>3 DEF DueAt
<1> QED
  BY <1>3, <1>4, <1>5, <1>6, StagedForms

\* A running service flushes what is due.
FlushAt(s) == phase[s] = "running" /\ op[s].kind = "flush" => op[s].until <= elapsed[s]

\* Every step keeps a flush to what is due.
LEMMA FlushKept ==
  ASSUME TypeOK, ServicesOK, StagedOK, [Next]_vars, NEW s \in Services, FlushAt(s)
  PROVE  FlushAt(s)'
<1>0. op[s].until \in Nat /\ elapsed[s] \in Nat
  BY DEF TypeOK, Operation
<1>1. ASSUME NEW t \in Services, BecomesDue(t) PROVE FlushAt(s)'
  <2>1. UNCHANGED <<phase, op>> /\ (t # s => elapsed'[s] = elapsed[s])
    BY <1>1 DEF BecomesDue, TypeOK
  <2>2. t = s => elapsed[s] < elapsed'[s] /\ elapsed'[s] \in Nat
    <3>1. elapsed' \in [Services -> Nat]
      BY <1>1, TypeStep DEF TypeOK
    <3> QED
      BY <1>1, <3>1, BecomesDueForm
  <2> QED
    BY <1>0, <2>1, <2>2 DEF FlushAt
<1>2. ASSUME phase'[s] = "running" => phase[s] = "running", elapsed'[s] = elapsed[s],
             op'[s].kind = "flush" => op[s].kind = "flush" /\ op'[s].until = op[s].until
      PROVE  FlushAt(s)'
  BY <1>2 DEF FlushAt
<1>3. ASSUME \/ UNCHANGED vars \/ RememberCommit \/ ForgetCommit \/ WindowCloses \/ Reconfigure
             \/ FailRequest \/ Settings
             \/ \E c \in Contexts : CommitText(c) \/ Backspace(c)
             \/ \E t \in Services : SendRequest(t) \/ \E e \in Events : Discard(t, e)
      PROVE  FlushAt(s)'
  <2>1. UNCHANGED <<phase, op, elapsed>>
    BY <1>3 DEF vars, RememberCommit, ForgetCommit, WindowCloses, Reconfigure, FailRequest, Settings,
       ConfigurePassword, ResetConversationData, SetRecordingEnabled, CommitText, Backspace,
       SendRequest, Discard, store_vars
  <2> QED
    BY <2>1 DEF FlushAt
<1>4. ASSUME NEW t \in Services, StartService(t) PROVE FlushAt(s)'
  <2>1. /\ phase[t] = "gone" /\ UNCHANGED <<op, elapsed>> /\ (t # s => phase'[s] = phase[s])
    BY <1>4 DEF StartService, TypeOK, store_vars
  <2> QED
    BY <2>1 DEF FlushAt, ServicesOK
<1>5. ASSUME NEW t \in Services, StopService(t) PROVE FlushAt(s)'
  <2>1. /\ UNCHANGED <<op, elapsed>> /\ (phase'[s] = "running" => phase[s] = "running")
    BY <1>5 DEF StopService, TypeOK, store_vars
  <2> QED
    BY <2>1 DEF FlushAt
<1>6. ASSUME NEW t \in Services, EmptyStore(t), phase' = [phase EXCEPT ![t] = "gone"] PROVE FlushAt(s)'
  <2>1. /\ t = s => phase'[s] # "running"
        /\ t # s => phase'[s] = phase[s] /\ op'[s] = op[s] /\ elapsed'[s] = elapsed[s]
    BY <1>6 DEF EmptyStore, TypeOK
  <2> QED
    BY <2>1 DEF FlushAt
<1>7. ASSUME NEW t \in Services, NEW operation, op' = [op EXCEPT ![t] = operation],
             UNCHANGED elapsed, phase'[s] = "running" => phase[s] = "running",
             operation.kind = "flush" => \/ op[t].kind = "flush" /\ operation.until = op[t].until
                                         \/ operation.until = elapsed[t]
                                         \/ phase'[t] # "running"
      PROVE  FlushAt(s)'
  <2>1. op'[t] = operation /\ (t # s => op'[s] = op[s])
    BY <1>7, NewOperation
  <2> QED
    BY <1>0, <1>7, <2>1 DEF FlushAt
<1>8. ASSUME NEW t \in Services, NEW e \in Events, BeginRecord(t, e) PROVE FlushAt(s)'
  <2> DEFINE operation == [kind |-> "record", event |-> e, until |-> 0, next |-> 1, key |-> None]
  <2>1. UNCHANGED <<phase, elapsed>> /\ (op' = op \/ op' = [op EXCEPT ![t] = operation])
    BY <1>8 DEF BeginRecord, Begin
  <2>2. operation.kind # "flush"
    OBVIOUS
  <2> HIDE DEF operation
  <2>3. CASE op' = op
    BY <2>1, <2>3 DEF FlushAt
  <2> QED
    BY <1>7, <2>1, <2>2, <2>3
<1>9. ASSUME NEW t \in Services, BeginSettle(t) \/ BeginFinalFlush(t) PROVE FlushAt(s)'
  <2>1. PICK until : /\ op' = [op EXCEPT ![t] = [kind |-> "flush", event |-> None, until |-> until,
                                                 next |-> 1, key |-> None]]
                     /\ until = elapsed[t] \/ phase[t] # "running"
    BY <1>9 DEF BeginSettle, BeginFinalFlush, Begin
  <2>2. UNCHANGED <<phase, elapsed>>
    BY <1>9 DEF BeginSettle, BeginFinalFlush
  <2> DEFINE operation == [kind |-> "flush", event |-> None, until |-> until, next |-> 1, key |-> None]
  <2>3. operation.until = until /\ op' = [op EXCEPT ![t] = operation]
    BY <2>1
  <2> HIDE DEF operation
  <2> QED
    BY <1>7, <2>1, <2>2, <2>3
<1>10. ASSUME NEW t \in Services, ReadParameters(t) PROVE FlushAt(s)'
  <2> DEFINE operation == [op[t] EXCEPT !.key = protection.key]
  <2>1. operation.kind = op[t].kind /\ operation.until = op[t].until
    BY DEF TypeOK, Operation
  <2>2. op' = [op EXCEPT ![t] = operation] /\ UNCHANGED <<phase, elapsed>>
    BY <1>10 DEF ReadParameters
  <2> HIDE DEF operation
  <2> QED
    BY <1>7, <2>1, <2>2
<1>11. ASSUME NEW t \in Services, NEW e \in Events, Insert(t, e) PROVE FlushAt(s)'
  <2>1. PICK next : op' = [op EXCEPT ![t] = [kind |-> op[t].kind, event |-> op[t].event,
                                             until |-> op[t].until, next |-> next, key |-> None]]
    BY <1>11 DEF Insert, Continue
  <2> DEFINE operation == [kind |-> op[t].kind, event |-> op[t].event, until |-> op[t].until,
                           next |-> next, key |-> None]
  <2>2. /\ op' = [op EXCEPT ![t] = operation] /\ operation.kind = op[t].kind
        /\ operation.until = op[t].until /\ UNCHANGED <<phase, elapsed>>
    BY <1>11, <2>1 DEF Insert
  <2> HIDE DEF operation
  <2> QED
    BY <1>7, <2>2
<1>12. ASSUME NEW t \in Services, FinishRecord(t) \/ FailRecord(t) PROVE FlushAt(s)'
  <2>1. op' = [op EXCEPT ![t] = NoOperation] /\ UNCHANGED <<phase, elapsed>>
    BY <1>12 DEF FinishRecord, FailRecord
  <2> QED
    BY <1>7, <2>1 DEF NoOperation
<1>13. ASSUME NEW t \in Services, FinishFlush(t) \/ FailFlush(t) PROVE FlushAt(s)'
  <2>1. \E remaining : EndFlush(t, remaining)
    BY <1>13 DEF FinishFlush, FailFlush
  <2>2. CASE EmptyStore(t) /\ phase' = [phase EXCEPT ![t] = "gone"]
    BY <1>6, <2>2
  <2>3. CASE /\ phase' = [phase EXCEPT ![t] = IF @ = "stopping" THEN "destroying" ELSE @]
             /\ op' = [op EXCEPT ![t] = NoOperation] /\ UNCHANGED elapsed
    <3>1. phase'[s] = "running" => phase[s] = "running"
      BY <2>3 DEF TypeOK
    <3> QED
      BY <1>7, <2>3, <3>1 DEF NoOperation
  <2> QED
    BY <2>1, <2>2, <2>3 DEF EndFlush
<1>14. ASSUME Quiet PROVE FlushAt(s)'
  <2>1. ASSUME NEW t \in Services, CrashService(t) PROVE FlushAt(s)'
    BY <1>6, <2>1 DEF CrashService
  <2> QED
    BY <1>1, <1>3, <1>4, <1>5, <1>9, <1>10, <1>11, <1>12, <1>13, <1>14, <2>1 DEF Quiet
<1> QED
  BY <1>3, <1>8, <1>14, StepForms

\* The three together.
LEMMA SettledKept ==
  ASSUME TypeOK, TypeOK', ServicesOK, StagedOK, SettledOK, [Next]_vars
  PROVE  SettledOK'
<1>1. LatestOnly /\ \A s \in Services : DueAt(s) /\ FlushAt(s)
  BY DEF SettledOK, LatestOnly, DueAt, FlushAt
<1>2. LatestOnly' /\ \A s \in Services : DueAt(s)' /\ FlushAt(s)'
  BY <1>1, LatestKept, DueKept, FlushKept
<1> QED
  BY <1>2 DEF SettledOK, LatestOnly, DueAt, FlushAt

-----------------------------------------------------------------------------
(* The theorems *)

\* The invariant holds at the start.
LEMMA InvInit == Init => Inv
<1> SUFFICES ASSUME Init PROVE Inv
  OBVIOUS
<1>1. TypeOK
  BY TypeInit
<1>2. /\ DOMAIN queue = {} /\ commits = <<>> /\ committing = None /\ recent = None
      /\ \A s \in Services : /\ pool[s] = {} /\ op[s].kind = "none" /\ DOMAIN staged[s] = {}
                             /\ phase[s] = "gone" /\ withdrawn[s] = {}
                             /\ elapsed[s] = 0 /\ clock[s] = 0
  BY DEF Init, NoOperation
<1>3. EventsKnown /\ ServicesOK /\ WithdrawalsLast /\ RecordAwaited
  BY <1>2 DEF EventsKnown, ServicesOK, WithdrawalsLast, RecordAwaited
<1>4. RecordsOnce
  BY <1>2 DEF RecordsOnce, Queued, Holding, Recording
<1>5. OneStagedPerSource /\ StagedOK /\ WithdrawalIsFinal /\ TextIsKept
  BY <1>2 DEF OneStagedPerSource, StagedOK, WithdrawalIsFinal, TextIsKept, ToSet
<1>6. SettledOK
  BY <1>2 DEF SettledOK
<1> QED
  BY <1>1, <1>3, <1>4, <1>5, <1>6 DEF Inv

\* Every step keeps the invariant.
LEMMA InvStep == Inv /\ [Next]_vars => Inv'
<1> SUFFICES ASSUME Inv, [Next]_vars PROVE Inv'
  OBVIOUS
<1>1. TypeOK /\ TypeOK' /\ MessagesOK
  BY TypeStep DEF Inv, MessagesOK
<1>2. MessagesOK' /\ ServicesOK' /\ RecordAwaited'
  BY <1>1, MessagesKept, ServicesKept, AwaitedKept DEF Inv
<1>3. StagedOK' /\ OneStagedPerSource' /\ TextIsKept' /\ WithdrawalIsFinal'
  BY <1>1, StagedKept, WithdrawnKept DEF Inv
<1>4. SettledOK'
  BY <1>1, SettledKept DEF Inv
<1> QED
  BY <1>1, <1>2, <1>3, <1>4 DEF Inv, MessagesOK

\* The inductive invariant.
THEOREM TrainingInvariant == Spec => []Inv
BY InvInit, InvStep, PTL DEF Spec

\* A commit that was withdrawn in a service is not staged there again, whatever
\* becomes of connections, workers, processes and the transport.
THEOREM WithdrawalsAreFinal == Spec => []WithdrawalIsFinal
<1>1. Inv => WithdrawalIsFinal
  BY DEF Inv
<1> QED
  BY <1>1, TrainingInvariant, PTL

\* Each input session has at most one staged commit in a service.
THEOREM SourcesStageOnce == Spec => []OneStagedPerSource
<1>1. Inv => OneStagedPerSource
  BY DEF Inv
<1> QED
  BY <1>1, TrainingInvariant, PTL

\* A flush that fails leaves every staged commit with its text.
THEOREM FailuresKeepText == Spec => []TextIsKept
<1>1. Inv => TextIsKept
  BY DEF Inv
<1> QED
  BY <1>1, TrainingInvariant, PTL

\* Only an insertion adds a row.
LEMMA RowsInserted ==
  ASSUME [Next]_vars, NEW row \in rows' \ rows
  PROVE  \E s \in Services, e \in Events : Insert(s, e) /\ row.event = e
<1>1. ASSUME NEW s \in Services, NEW e \in Events, Insert(s, e) PROVE row.event = e
  BY <1>1 DEF Insert
<1>2. ASSUME \/ UNCHANGED vars \/ InputMethod \/ FailRequest \/ Settings
             \/ \E s \in Services :
                  \/ StartService(s) \/ StopService(s) \/ CrashService(s) \/ SendRequest(s)
                  \/ BecomesDue(s) \/ BeginSettle(s) \/ BeginFinalFlush(s) \/ ReadParameters(s)
                  \/ FinishRecord(s) \/ FailRecord(s) \/ FinishFlush(s) \/ FailFlush(s)
                  \/ \E e \in Events : BeginRecord(s, e) \/ Discard(s, e)
      PROVE  rows' \subseteq rows
  BY ZenonT(60), <1>2 DEF vars, InputMethod, CommitText, RememberCommit, Backspace, ForgetCommit, WindowCloses,
     Reconfigure, FailRequest, Settings, ConfigurePassword, ResetConversationData,
     SetRecordingEnabled, StartService, StopService, CrashService, SendRequest, BecomesDue,
     BeginSettle, BeginFinalFlush, ReadParameters, FinishRecord, FailRecord, FinishFlush,
     FailFlush, BeginRecord, Discard, database_vars
<1> QED
  BY <1>1, <1>2 DEF Next, Store

\* A commit that a Backspace could still withdraw is written only by a service
\* that stops, that staged it early, or that an older record makes settle it.
THEOREM WritesAreSettled == Spec => WrittenWhenSettled
<1>1. Inv /\ [Next]_vars =>
        [\A row \in rows' \ rows :
           Withdrawable(row.event) => \E s \in Services : HoldsEarly(s, row.event)]_vars
  <2> SUFFICES ASSUME Inv, [Next]_vars, NEW row \in rows' \ rows, Withdrawable(row.event)
               PROVE  \E s \in Services : HoldsEarly(s, row.event)
    OBVIOUS
  <2>1. PICK s \in Services, e \in Events : Insert(s, e) /\ row.event = e
    BY RowsInserted
  <2> DEFINE i == Min(Targets(s))
  <2>2. /\ TypeOK /\ i \in Targets(s) /\ i \in DOMAIN staged[s] /\ staged[s][i].event = e
        /\ op[s].kind \in {"record", "flush"}
    BY <2>1, FirstTarget DEF Inv, Insert
  <2> HIDE DEF i
  <2>3. committing = None /\ recent = e /\ e > expired /\ e \in Nat /\ e # None
    BY <2>1 DEF Withdrawable, Events, None
  <2>4. e = Len(commits) /\ Len(commits) \in Nat
    BY <2>2, <2>3 DEF Inv, SettledOK, TypeOK
  <2>5. staged[s][i] \in ToSet(staged[s])
    BY <2>2 DEF ToSet
  <2>6. CASE op[s].kind = "record"
    <3>1. op[s].event \in Recorded /\ ~Recording(s, e)
      BY <2>2, <2>6 DEF Inv, EventsKnown, StagedOK, Holding
    <3>2. op[s].event # e
      BY <2>6, <3>1 DEF Recording
    <3>3. op[s].event < e
      BY <2>4, <3>1, <3>2 DEF Recorded
    <3> QED
      BY <2>1, <2>2, <2>5, <2>6, <3>3 DEF HoldsEarly
  <2>7. CASE op[s].kind = "flush" /\ phase[s] = "running"
    <3>1. staged[s][i].at <= op[s].until /\ op[s].until <= elapsed[s]
      BY <2>2, <2>7 DEF Inv, SettledOK, Targets
    <3>2. staged[s][i].at \in Nat /\ op[s].until \in Nat /\ elapsed[s] \in Nat /\ expired \in Nat
      BY <2>2, EntryTypes DEF TypeOK, Operation
    <3>3. staged[s][i].at <= elapsed[s]
      BY <3>1, <3>2
    <3>4. staged[s][i].ahead \/ staged[s][i].event <= expired
      BY <2>2, <3>3 DEF Inv, SettledOK
    <3>5. staged[s][i].ahead
      BY <2>2, <2>3, <3>2, <3>4
    <3> QED
      BY <2>1, <2>2, <2>5, <3>5 DEF HoldsEarly
  <2>8. CASE phase[s] # "running"
    BY <2>1, <2>2, <2>5, <2>8 DEF HoldsEarly
  <2> QED
    BY <2>2, <2>6, <2>7, <2>8
<1> QED
  BY <1>1, TrainingInvariant, PTL DEF Spec, WrittenWhenSettled

=============================================================================
