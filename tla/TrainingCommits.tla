--------------------------- MODULE TrainingCommits ---------------------------
(***************************************************************************)
(* What becomes of the text a user commits, as training data.  The input   *)
(* method (Engine, engine.cpp) sends a record of each commit through its   *)
(* transport and remembers the latest one: a Backspace within the          *)
(* correction window withdraws it.  The service (CommitStore,              *)
(* commit_store.cpp) stages a record for the same time before it seals it  *)
(* and writes it to the database.  The settings window is a process of its *)
(* own with a CommitStore of its own (lora_gui.cpp): what it does to the   *)
(* database, the service learns from the database only.                    *)
(*                                                                         *)
(* Within the service commit_mutex_ is held for a whole operation of the   *)
(* store; the database is shared with the other process, so that an        *)
(* operation is a step for each of its accesses.  Text, readings and       *)
(* encryption are abstracted: a row is its event and the key it is sealed  *)
(* for.  Time is abstracted to its order: a record becomes due in the      *)
(* order in which records were staged, and only when the engine's window   *)
(* is over, unless it was staged before the engine looked at its clock.    *)
(* Predictions share the transport and the workers; they only delay what   *)
(* is modelled here.                                                       *)
(***************************************************************************)
EXTENDS Naturals, Sequences, FiniteSets, SequencesExt, FiniteSetsExt, Positions

CONSTANTS
  Contexts,     \* input sessions, each with its training_source_id
  Services,     \* service processes that may exist at a time
  StagedLimit,  \* 256 in CommitStore::record
  MaxCommits,   \* bound on the number of recorded commits
  MaxKeys       \* bound on the number of passwords ever configured

ASSUME TrainingAssumption ==
  /\ StagedLimit \in Nat \ {0}
  /\ MaxCommits \in Nat /\ MaxKeys \in Nat

Events == 1..MaxCommits
None == 0   \* no event, no key, no password

Request == [kind : {"record", "discard"}, event : Events]
NoRequest == [kind |-> "none", event |-> None]

\* StagedCommit: `at` orders queued_at within a service; `ahead` says that the
\* record was staged before the engine took recorded_at; `text` is FALSE when
\* the request was moved out of the entry.
StagedCommit == [event : Events, at : Nat \ {0}, ahead : BOOLEAN, text : BOOLEAN]

\* What the holder of commit_mutex_ does: it writes the staged commits of the
\* source of a new event, or those staged up to `until` from position `next` on.
Operation == [kind : {"none", "record", "flush"}, event : 0..MaxCommits, until : Nat,
              next : Nat \ {0}, key : 0..MaxKeys]
NoOperation == [kind |-> "none", event |-> None, until |-> 0, next |-> 1, key |-> None]

VARIABLES
  commits,     \* the context of each commit, in order
  committing,  \* the event of the handler between record_commit and remember_recent_commit
  recent,      \* Engine::recent_commit_: its event
  expired,     \* the correction window of the events up to this one is over
  queue,       \* ServiceTransport::queue_, as far as it is about commits
  awaited,     \* the request whose answer the transport waits for
  phase,       \* of each service: "running", "stopping", "destroying" or "gone"
  pool,        \* requests sent to each service and not begun by its workers
  staged,      \* CommitStore::staged_ of each service
  clock,       \* how many commits each service has staged
  elapsed,     \* the commits of each service staged up to this one are due
  op,          \* the operation that holds commit_mutex_ of each service
  withdrawn,   \* the events each service has handled a discard of
  protection,  \* the row of commit_protection
  keys,        \* the number of passwords configured so far
  rows         \* the rows of commits

engine_vars == <<commits, committing, recent, expired>>
transport_vars == <<queue, awaited>>
store_vars == <<staged, clock, elapsed, op, withdrawn>>
database_vars == <<protection, keys, rows>>
vars == <<engine_vars, transport_vars, phase, pool, store_vars, database_vars>>

Unprotected == [key |-> None, enabled |-> FALSE]

Init ==
  /\ commits = <<>> /\ committing = None /\ recent = None /\ expired = 0
  /\ queue = <<>> /\ awaited = NoRequest
  /\ phase = [s \in Services |-> "gone"] /\ pool = [s \in Services |-> {}]
  /\ staged = [s \in Services |-> <<>>]
  /\ clock = [s \in Services |-> 0] /\ elapsed = [s \in Services |-> 0]
  /\ op = [s \in Services |-> NoOperation] /\ withdrawn = [s \in Services |-> {}]
  /\ protection = Unprotected /\ keys = 0 /\ rows = {}

-----------------------------------------------------------------------------
(* The main loop of the input method *)

\* apply_effect: the record is queued, or dropped when other requests have
\* filled the queue; which commit is the recent one is noted afterwards.
CommitText(c) ==
  /\ committing = None /\ Len(commits) < MaxCommits
  /\ commits' = Append(commits, c)
  /\ committing' = Len(commits) + 1
  /\ \/ queue' = Append(queue, [kind |-> "record", event |-> Len(commits) + 1])
     \/ queue' = queue
  /\ UNCHANGED <<recent, expired, awaited, phase, pool, store_vars, database_vars>>

RememberCommit ==
  /\ committing # None
  /\ recent' = committing
  /\ committing' = None
  /\ UNCHANGED <<commits, expired, transport_vars, phase, pool, store_vars, database_vars>>

\* A Backspace would still withdraw this event.
Withdrawable(e) == committing = None /\ recent = e /\ e > expired

\* withdraw_recent_commit: the text in front of the caret decides whether the
\* Backspace deletes what was committed.
Backspace(c) ==
  /\ committing = None /\ recent # None
  /\ recent' = None
  /\ \/ /\ commits[recent] = c /\ Withdrawable(recent)
        /\ queue' = Append(queue, [kind |-> "discard", event |-> recent])
     \/ queue' = queue
  /\ UNCHANGED <<commits, committing, expired, awaited, phase, pool, store_vars, database_vars>>

\* Any other key, and a reset or detach of the context of the commit.
ForgetCommit ==
  /\ committing = None /\ recent # None
  /\ recent' = None
  /\ UNCHANGED <<commits, committing, expired, transport_vars, phase, pool, store_vars,
                 database_vars>>

\* correction_window_ elapses for one more event.
WindowCloses ==
  /\ expired < Len(commits) /\ expired + 1 # committing
  /\ expired' = expired + 1
  /\ UNCHANGED <<commits, committing, recent, transport_vars, phase, pool, store_vars,
                 database_vars>>

-----------------------------------------------------------------------------
(* Services come and go *)

Running == {s \in Services : phase[s] = "running"}

\* ensure_connected: a service is started when none answers.
StartService(s) ==
  /\ queue # <<>> /\ Running = {} /\ phase[s] = "gone"
  /\ phase' = [phase EXCEPT ![s] = "running"]
  /\ UNCHANGED <<engine_vars, transport_vars, pool, store_vars, database_vars>>

\* The next process begins with an empty store.
EmptyStore(s) ==
  /\ staged' = [staged EXCEPT ![s] = <<>>]
  /\ clock' = [clock EXCEPT ![s] = 0] /\ elapsed' = [elapsed EXCEPT ![s] = 0]
  /\ op' = [op EXCEPT ![s] = NoOperation]
  /\ withdrawn' = [withdrawn EXCEPT ![s] = {}]

\* Idle shutdown, a signal or a request to shut down: the poll loop ends and
\* the connections are closed, with the requests that were not read yet.
StopService(s) ==
  /\ phase[s] = "running" /\ op[s].kind # "flush"
  /\ phase' = [phase EXCEPT ![s] = "stopping"]
  /\ awaited' = NoRequest
  /\ \E read \in SUBSET pool[s] : pool' = [pool EXCEPT ![s] = read]
  /\ UNCHANGED <<engine_vars, queue, store_vars, database_vars>>

\* The process dies: what it had staged is lost.
CrashService(s) ==
  /\ phase[s] # "gone"
  /\ phase' = [phase EXCEPT ![s] = "gone"]
  /\ awaited' = IF phase[s] = "running" THEN NoRequest ELSE awaited
  /\ pool' = [pool EXCEPT ![s] = {}]
  /\ EmptyStore(s)
  /\ UNCHANGED <<engine_vars, queue, database_vars>>

\* set_transport_options: the queue is failed and the recent commit forgotten.
\* A service that is told to stop stops like any other, in its own time.
Reconfigure ==
  /\ committing = None
  /\ queue' = <<>> /\ awaited' = NoRequest
  /\ recent' = None
  /\ UNCHANGED <<commits, committing, expired, phase, pool, store_vars, database_vars>>

-----------------------------------------------------------------------------
(* The transport's worker *)

SendRequest(s) ==
  /\ awaited = NoRequest /\ queue # <<>> /\ phase[s] = "running"
  /\ queue' = Tail(queue)
  /\ awaited' = Head(queue)
  /\ pool' = [pool EXCEPT ![s] = @ \cup {Head(queue)}]
  /\ UNCHANGED <<engine_vars, phase, store_vars, database_vars>>

\* No service is reached: the request fails, and nobody hears of it.
FailRequest ==
  /\ awaited = NoRequest /\ queue # <<>> /\ Running = {}
  /\ queue' = Tail(queue)
  /\ UNCHANGED <<engine_vars, awaited, phase, pool, store_vars, database_vars>>

\* The answer reaches the transport, unless it has given up on the request.
Answer(r) == awaited' = IF awaited = r THEN NoRequest ELSE awaited

-----------------------------------------------------------------------------
(* CommitStore *)

Source(e) == commits[e]

\* The positions in staged_ that the operation has still to write.
Targets(s) ==
  {i \in DOMAIN staged[s] :
     \/ op[s].kind = "record" /\ Source(staged[s][i].event) = Source(op[s].event)
     \/ op[s].kind = "flush" /\ i >= op[s].next /\ staged[s][i].at <= op[s].until}

Begin(s, kind, e, until) ==
  op' = [op EXCEPT ![s] = [kind |-> kind, event |-> e, until |-> until, next |-> 1, key |-> None]]

\* One commit is written: the next one needs the key anew.
Continue(s, next) ==
  op' = [op EXCEPT ![s] = [kind |-> op[s].kind, event |-> op[s].event, until |-> op[s].until,
                           next |-> next, key |-> None]]

\* record: protection_status_of is read before anything else.
BeginRecord(s, e) ==
  LET request == [kind |-> "record", event |-> e]
  IN  /\ request \in pool[s] /\ op[s] = NoOperation
      /\ pool' = [pool EXCEPT ![s] = @ \ {request}]
      /\ \/ /\ protection.enabled
            /\ Begin(s, "record", e, 0)
            /\ awaited' = awaited
         \/ /\ ~protection.enabled
            /\ op' = op /\ Answer(request)
      /\ UNCHANGED <<engine_vars, queue, phase, staged, clock, elapsed, withdrawn, database_vars>>

\* Mutant for TextIsKept: the newest commit is staged in front.
FinishRecordInFront(s) ==
  /\ op[s].kind = "record" /\ Targets(s) = {}
  /\ op' = [op EXCEPT ![s] = NoOperation]
  /\ Answer([kind |-> "record", event |-> op[s].event])
  /\ IF Len(staged[s]) >= StagedLimit THEN UNCHANGED <<staged, clock>>
     ELSE /\ clock' = [clock EXCEPT ![s] = @ + 1]
          /\ staged' = [staged EXCEPT ![s] =
               <<[event |-> op[s].event, at |-> clock[s] + 1,
                  ahead |-> op[s].event = committing, text |-> TRUE]>> \o @]
  /\ UNCHANGED <<engine_vars, queue, phase, pool, elapsed, withdrawn, database_vars>>

\* record: the new commit is staged when those of its source are written,
\* unless the store is full.
FinishRecord(s) ==
  /\ op[s].kind = "record" /\ Targets(s) = {}
  /\ op' = [op EXCEPT ![s] = NoOperation]
  /\ Answer([kind |-> "record", event |-> op[s].event])
  /\ IF Len(staged[s]) >= StagedLimit THEN UNCHANGED <<staged, clock>>
     ELSE /\ clock' = [clock EXCEPT ![s] = @ + 1]
          /\ staged' = [staged EXCEPT ![s] =
               Append(@, [event |-> op[s].event, at |-> clock[s] + 1,
                          ahead |-> op[s].event = committing, text |-> TRUE])]
  /\ UNCHANGED <<engine_vars, queue, phase, pool, elapsed, withdrawn, database_vars>>

\* Mutant for WithdrawalIsFinal: the answer says withdrawn, the entry stays.
DiscardKeeping(s, e) ==
  LET request == [kind |-> "discard", event |-> e]
  IN  /\ request \in pool[s] /\ op[s] = NoOperation
      /\ pool' = [pool EXCEPT ![s] = @ \ {request}]
      /\ withdrawn' = [withdrawn EXCEPT ![s] = @ \cup {e}]
      /\ Answer(request)
      /\ UNCHANGED <<engine_vars, queue, phase, staged, clock, elapsed, op, database_vars>>

\* discard_staged: the first entry of the event is erased.
WithoutEvent(entries, e) ==
  LET found == {i \in DOMAIN entries : entries[i].event = e}
  IN  IF found = {} THEN entries ELSE Keep(entries, DOMAIN entries \ {Min(found)})

Discard(s, e) ==
  LET request == [kind |-> "discard", event |-> e]
  IN  /\ request \in pool[s] /\ op[s] = NoOperation
      /\ pool' = [pool EXCEPT ![s] = @ \ {request}]
      /\ staged' = [staged EXCEPT ![s] = WithoutEvent(@, e)]
      /\ withdrawn' = [withdrawn EXCEPT ![s] = @ \cup {e}]
      /\ Answer(request)
      /\ UNCHANGED <<engine_vars, queue, phase, clock, elapsed, op, database_vars>>

\* Ten seconds are over for the commit that was staged next.
BecomesDue(s) ==
  \E entry \in ToSet(staged[s]) :
    /\ phase[s] = "running" /\ entry.at > elapsed[s]
    /\ \A other \in ToSet(staged[s]) : other.at > elapsed[s] => entry.at <= other.at
    /\ entry.ahead \/ entry.event <= expired
    /\ elapsed' = [elapsed EXCEPT ![s] = entry.at]
    /\ UNCHANGED <<engine_vars, transport_vars, phase, pool, staged, clock, op, withdrawn,
                   database_vars>>

\* Mutants for WrittenWhenSettled and StagedIsSettled: the poll loop writes
\* everything, or forgets what has just become due.
BeginSettleAll(s) ==
  /\ phase[s] = "running" /\ op[s] = NoOperation /\ staged[s] # <<>>
  /\ Begin(s, "flush", None, clock[s])
  /\ UNCHANGED <<engine_vars, transport_vars, phase, pool, staged, clock, elapsed, withdrawn,
                 database_vars>>
BeginSettleLate(s) ==
  /\ phase[s] = "running" /\ op[s] = NoOperation
  /\ \E entry \in ToSet(staged[s]) : entry.at < elapsed[s]
  /\ Begin(s, "flush", None, elapsed[s] - 1)
  /\ UNCHANGED <<engine_vars, transport_vars, phase, pool, staged, clock, elapsed, withdrawn,
                 database_vars>>

\* The poll loop writes what is due.
BeginSettle(s) ==
  /\ phase[s] = "running" /\ op[s] = NoOperation
  /\ \E entry \in ToSet(staged[s]) : entry.at <= elapsed[s]
  /\ Begin(s, "flush", None, elapsed[s])
  /\ UNCHANGED <<engine_vars, transport_vars, phase, pool, staged, clock, elapsed, withdrawn,
                 database_vars>>

\* Nothing can arrive any more: run() writes what is left, and the destructor
\* of the store tries again.
BeginFinalFlush(s) ==
  /\ phase[s] \in {"stopping", "destroying"} /\ op[s] = NoOperation /\ pool[s] = {}
  /\ Begin(s, "flush", None, clock[s])
  /\ UNCHANGED <<engine_vars, transport_vars, phase, pool, staged, clock, elapsed, withdrawn,
                 database_vars>>

\* The flush leaves `remaining` in staged_.  The shutdown goes on, whatever came
\* of the flush: after the second one the process is over.
EndFlush(s, remaining) ==
  \/ /\ phase[s] # "destroying"
     /\ phase' = [phase EXCEPT ![s] = IF @ = "stopping" THEN "destroying" ELSE @]
     /\ staged' = [staged EXCEPT ![s] = remaining]
     /\ op' = [op EXCEPT ![s] = NoOperation]
     /\ UNCHANGED <<clock, elapsed, withdrawn>>
  \/ /\ phase[s] = "destroying"
     /\ phase' = [phase EXCEPT ![s] = "gone"]
     /\ EmptyStore(s)

\* flush_locked: what was not due remains.
FinishFlush(s) ==
  /\ op[s].kind = "flush" /\ Targets(s) = {}
  /\ EndFlush(s, Keep(staged[s], {i \in DOMAIN staged[s] : staged[s][i].at > op[s].until}))
  /\ UNCHANGED <<engine_vars, transport_vars, pool, database_vars>>

\* write_locked: the public key is read before the transaction begins.
ReadParameters(s) ==
  /\ Targets(s) # {} /\ op[s].key = None /\ protection.key # None
  /\ op' = [op EXCEPT ![s].key = protection.key]
  /\ UNCHANGED <<engine_vars, transport_vars, phase, pool, staged, clock, elapsed, withdrawn,
                 database_vars>>

\* write_locked: the transaction.  An event that has a row already is ignored.
Insert(s, e) ==
  LET i == Min(Targets(s))
  IN  /\ op[s].key # None /\ Targets(s) # {} /\ staged[s][i].event = e
      /\ rows' = IF \E row \in rows : row.event = e THEN rows
                 ELSE rows \cup {[event |-> e, key |-> op[s].key]}
      /\ \/ /\ op[s].kind = "record"
            /\ staged' = [staged EXCEPT ![s] = Keep(@, DOMAIN @ \ {i})]
            /\ Continue(s, 1)
         \/ /\ op[s].kind = "flush"
            /\ Continue(s, i + 1)
            /\ staged' = staged
      /\ UNCHANGED <<engine_vars, transport_vars, phase, pool, clock, elapsed, withdrawn,
                     protection, keys>>

\* write_locked throws: no password is configured, or the transaction finds the
\* database locked by the other process, full or broken.  (A reader of a
\* database with a write-ahead log waits for no one.)
WriteFails(s) == Targets(s) # {} /\ (protection.key = None \/ op[s].key # None)

\* Mutant for OneStagedPerSource: the new commit is staged all the same.
FailRecordStaging(s) ==
  /\ op[s].kind = "record" /\ WriteFails(s)
  /\ op' = [op EXCEPT ![s] = NoOperation]
  /\ Answer([kind |-> "record", event |-> op[s].event])
  /\ clock' = [clock EXCEPT ![s] = @ + 1]
  /\ staged' = [staged EXCEPT ![s] =
       Append(@, [event |-> op[s].event, at |-> clock[s] + 1, ahead |-> FALSE, text |-> TRUE])]
  /\ UNCHANGED <<engine_vars, queue, phase, pool, elapsed, withdrawn, database_vars>>

\* The answer to the new commit is an error; the old one stays staged.
FailRecord(s) ==
  /\ op[s].kind = "record" /\ WriteFails(s)
  /\ op' = [op EXCEPT ![s] = NoOperation]
  /\ Answer([kind |-> "record", event |-> op[s].event])
  /\ UNCHANGED <<engine_vars, queue, phase, pool, staged, clock, elapsed, withdrawn, database_vars>>

\* What an exception leaves of staged_: every entry, those that were written
\* and those whose request was already moved to `remaining`.
LeftByFailure(s) ==
  [i \in DOMAIN staged[s] |->
     IF i < Min(Targets(s)) /\ staged[s][i].at > op[s].until
     THEN [staged[s][i] EXCEPT !.text = FALSE] ELSE staged[s][i]]

FailFlush(s) ==
  /\ op[s].kind = "flush" /\ WriteFails(s)
  /\ EndFlush(s, LeftByFailure(s))
  /\ UNCHANGED <<engine_vars, transport_vars, pool, database_vars>>

-----------------------------------------------------------------------------
(* The settings window *)

ConfigurePassword ==
  /\ protection.key = None /\ keys < MaxKeys
  /\ keys' = keys + 1
  /\ protection' = [key |-> keys + 1, enabled |-> TRUE]
  /\ UNCHANGED <<engine_vars, transport_vars, phase, pool, store_vars, rows>>

SetRecordingEnabled(enabled) ==
  /\ protection.key # None /\ protection.enabled # enabled
  /\ protection' = [protection EXCEPT !.enabled = enabled]
  /\ UNCHANGED <<engine_vars, transport_vars, phase, pool, store_vars, keys, rows>>

\* Mutant for TypeOK: only the key is removed.
ResetKeepingEnabled ==
  /\ protection.key # None
  /\ protection' = [protection EXCEPT !.key = None] /\ rows' = {}
  /\ UNCHANGED <<engine_vars, transport_vars, phase, pool, store_vars, keys>>

ResetConversationData ==
  /\ protection.key # None
  /\ protection' = Unprotected /\ rows' = {}
  /\ UNCHANGED <<engine_vars, transport_vars, phase, pool, store_vars, keys>>

-----------------------------------------------------------------------------

InputMethod ==
  \/ \E c \in Contexts : CommitText(c) \/ Backspace(c)
  \/ RememberCommit \/ ForgetCommit \/ WindowCloses \/ Reconfigure

Store(s) ==
  \/ \E e \in Events : BeginRecord(s, e) \/ Discard(s, e) \/ Insert(s, e)
  \/ FinishRecord(s) \/ FailRecord(s)
  \/ BecomesDue(s) \/ BeginSettle(s) \/ BeginFinalFlush(s)
  \/ ReadParameters(s) \/ FinishFlush(s) \/ FailFlush(s)

Settings ==
  \/ ConfigurePassword \/ ResetConversationData
  \/ \E enabled \in BOOLEAN : SetRecordingEnabled(enabled)

Next ==
  \/ InputMethod
  \/ FailRequest
  \/ \E s \in Services : \/ StartService(s) \/ StopService(s) \/ CrashService(s)
                         \/ SendRequest(s) \/ Store(s)
  \/ Settings

Spec == Init /\ [][Next]_vars

\* What the threads of a service do without a failure.
Proceed(s) ==
  \/ \E e \in Events : BeginRecord(s, e) \/ Discard(s, e)
  \/ FinishRecord(s) \/ FinishFlush(s) \/ ReadParameters(s)
  \/ BecomesDue(s) \/ BeginSettle(s) \/ BeginFinalFlush(s)

\* Every thread runs, time passes, and a database that is locked or full is
\* usable again and again.
Fairness ==
  /\ WF_vars(RememberCommit) /\ WF_vars(WindowCloses)
  /\ \A s \in Services : /\ WF_vars(Proceed(s))
                         /\ \A e \in Events : SF_vars(Insert(s, e))

FairSpec == Spec /\ Fairness

-----------------------------------------------------------------------------
(* Properties *)

\* Every variable keeps its type; requests, operations and staged entries are about
\* commits that were made.
TypeOK ==
  /\ commits \in Seq(Contexts) /\ Len(commits) <= MaxCommits
  /\ {committing, recent, expired} \subseteq 0..Len(commits)
  /\ queue \in Seq(Request) /\ awaited \in Request \cup {NoRequest}
  /\ phase \in [Services -> {"running", "stopping", "destroying", "gone"}]
  /\ pool \in [Services -> SUBSET Request]
  /\ staged \in [Services -> Seq(StagedCommit)]
  /\ clock \in [Services -> Nat] /\ elapsed \in [Services -> Nat]
  /\ op \in [Services -> Operation]
  /\ \A s \in Services : op[s].kind = "record" => op[s].event # None
  /\ withdrawn \in [Services -> SUBSET Events]
  /\ protection \in [key : 0..MaxKeys, enabled : BOOLEAN]
  /\ (protection.enabled => protection.key # None)
  /\ keys \in 0..MaxKeys
  /\ rows \subseteq [event : Events, key : 1..MaxKeys]

\* A service that has handled the withdrawal of a commit does not hold the
\* commit and will not: its record never arrives after its withdrawal, however
\* connections and workers come and go.
WithdrawalIsFinal ==
  \A s \in Services : \A entry \in ToSet(staged[s]) : entry.event \notin withdrawn[s]

\* Each source has at most one staged commit: the next one settles it first,
\* and is not staged when that fails.
OneStagedPerSource ==
  \A s \in Services : \A i, j \in DOMAIN staged[s] :
    Source(staged[s][i].event) = Source(staged[s][j].event) => i = j

\* A write that fails in the middle of a flush takes the text from no commit
\* that is still to be written: nothing was moved before it.
TextIsKept == \A s \in Services : \A entry \in ToSet(staged[s]) : entry.text

\* A commit is written only when no Backspace can withdraw it any more, with
\* three exceptions: the service stops; it staged the commit before the engine
\* took the time; or an older record that the transport had given up at a
\* restart reaches the store after it and settles it.
HoldsEarly(s, e) ==
  \E entry \in ToSet(staged[s]) :
    /\ entry.event = e
    /\ \/ phase[s] # "running"
       \/ entry.ahead
       \/ op[s].kind = "record" /\ op[s].event < e

WrittenWhenSettled ==
  [][\A row \in rows' \ rows :
       Withdrawable(row.event) => \E s \in Services : HoldsEarly(s, row.event)]_vars

\* A staged commit does not stay staged, unless the password is removed.
Holds(s, e) == \E entry \in ToSet(staged[s]) : entry.event = e

StagedIsSettled ==
  \A s \in Services, e \in Events :
    Holds(s, e) ~> (~Holds(s, e) \/ protection.key = None)

\* "Commits are only stored while encrypted recording is enabled": the write of
\* a commit begins only then.
StoredOnlyWhileEnabled ==
  [][\A s \in Services : op[s].key = None /\ op'[s].key # None => protection.enabled]_vars

=============================================================================
