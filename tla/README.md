# Llavon IME: models, checks and proofs

Llavon IME is a Bopomofo (Zhuyin) input method. A library in the host process
(fcitx5 or a macOS input method) keeps the composition of every input field and
asks a language model in a service process which characters are meant. This
directory holds TLA+ models of the parts of that program whose correctness
depends on the order in which things happen, the TLC configurations that check
them on small instances, and TLAPS proofs of the properties that matter most.

Paths below are relative to `src/`. `PROJECT.json` maps every definition to the
lines it models, and lists the runs, the hazards of the code and the theorems.

## 1. Inventory

### How the parts interact

```
 host's main loop (one thread)                       service process
 ┌────────────────────────────────┐  socket   ┌──────────────────────────────┐
 │ front end → Engine             │           │ poll loop: accept, reap,     │
 │   InputProcessor, Composition  │           │   write settled commits,     │
 │   PredictionState, phrases     │           │   idle shutdown              │
 │        │ enqueue   ▲ post      │           │ connection threads: read     │
 │        ▼           │           │           │   frames, enqueue tasks      │
 │ ServiceTransport worker thread │◄─────────►│ worker pool: SessionManager, │
 └────────────────────────────────┘           │   CommitStore                │
   accessibility sampler thread               └──────────────┬───────────────┘
                                                             │ SQLite
   settings window (a third process) ────────────────────────┘
```

| Component | State | Operations | What makes it correct |
|---|---|---|---|
| Engine, prediction state (`engine/src/host/engine.cpp`, `input/prediction_state.hpp`) | sessions per context; request in flight with its revision and indices, `pending`, `dirty`, `generation`, session id | attach, detach, key events, selections, reset, configuration and transport changes, four kinds of callback | answers land only on what they were asked for; everything typed is asked for; every wait ends |
| Composition buffer (`buffer/composition_buffer.cpp`) | segments with readings, candidates and choices; caret, selection mark; revision | insert, delete, move, mark, set candidates, select, clear | the revision changes with the content; candidates belong to the segment |
| Input processor (`input/input_processor.cpp`) | candidate window, mixed-input path, symbol menu state per session | one handler per key and state | every edit is followed by a request or settles the composition |
| Decoding of typed keys (`mixed_input_decoder.cpp`, `ascii_tokenizer.cpp`, `bopomofo/`) | none | functions of the typed keys | a reading as Chinese is not crowded out; valid syllables |
| Fallback engine, phrase overrides (`engine/fallback_engine.cpp`, `phrase_override/`) | table; stored phrases, file | look up; load, store, replace the file | an explicit choice survives the model's answer; no save from an up-to-date copy loses a phrase |
| Service transport (`engine/src/engine/service_transport.cpp`) | request queue, `stopping_`, `socket_fd_`, epoch, back-off, worker thread | enqueue, worker loop, connect or spawn, stop, reconfigure | one answer per request, in order; the descriptor is not closed under the worker; stop returns |
| Wire protocol (`engine/src/protocol/protocol.cpp`, `ime-unix-service/src/pipe/protocol.cpp`) | none | encode, decode, on each side by hand | the two agree on every field, limit and optional part |
| Socket server (`ime-unix-service/src/platform/unix_socket_server.cpp`) | socket and pid file, connections, worker pool | start, accept, dispatch, poll loop, shutdown | whoever listens is found at the path; what was accepted is finished |
| Session manager (`session/session_manager.cpp`) | session table, per-session flags, number of running predictions | open, predict, close, reap, evict, status, shutdown | one prediction per session, exact slots, no lost wake-up, no engine used after its end |
| Training commits (`training/commit_store.cpp`, correction window of `engine.cpp`) | recent commit; staged commits; rows, key, switch in the database | record, withdraw, settle, final flush; password, switch, reset in another process | a withdrawn commit is not written, a kept one is, once |
| LoRA tools (`training/lora_gui.cpp`, `lora_cli.cpp`) | the window's lock, row states, one job, run directories, the active model; downloaded models and trainer | review, exclude, delete, train, apply, prune; fetch, install | a record is taught once; an applied model exists; what is shown as ready is whole |
| Accessibility context (`context/`, `atspi/`) | sampler thread, sample and its sequence, activation gate | activate, sample, publish, adopt | the user's own preedit is not taken for the text before it |
| Symbol menu (`symbol/symbol_menu.cpp`), candidate view (`candidate_view.hpp`) | level, page, cursor, epoch | open, walk, pick, close | a key picks from the list on the panel |
| Configuration, rendering texts, C interface, front ends | little or none | parsing, conversions, forwarding | sequential |

The hard behaviour is in the interplay: a late or lost answer meets an edited
composition; a stop meets a worker between two system calls; threads of the
service wait for slots, sessions and each other; several processes share a
database, a directory, a text file or a socket path and nothing else; a process
ends between any two writes; three clocks measure one correction window.
`hazards` in `PROJECT.json` lists these places with the properties that watch
over them, and says why where there is none.

### Not modelled, and why

* Encryption, tokenisation for the model, the model itself (`ime-core`, a
  submodule that is not part of this tree) and the table data: functions whose
  results only matter as "some candidates" or "an error".
* Bopomofo syllables and keyboard layouts, the keypad and punctuation tables,
  parsing and clamping of the configuration: pure functions of one call, whose
  inputs unit tests enumerate. The models take their results as any choice.
* Bytes of a frame: `WireProtocol` has fields with widths and values. That
  `append_u32` and `u32` agree on the order of bytes, and that the UTF-8 and
  UTF-16 validators accept the same texts, is not shown. TLC's instance has every
  limit that short lists reach; that lists of 1024 or 65536 entries and frames of
  1 MiB are understood as well is proved (`WireProofs`).
* Front ends: adapters that forward calls on one thread. What the models take
  from them is that callbacks run on the main loop in the order they were
  posted, and that a context id is not used again. The phrase dialog and the
  activation of contexts are modelled.
* The server's table of connections, with its limit of clients and the check of
  the peer's user; the walk over the accessibility tree; HTTP routing and HTML
  of the training window; the review of plaintext rows of older versions.
* Packaging, installers, scripts, diagnostic tools, and a socket class of the
  engine that only its tests use.

## 2. Modules

| Module | Models | Checked by |
|---|---|---|
| `Prediction` | engine, prediction state, the parts of buffer, input processor, phrase store and fallback that take part in a prediction; transport queue and service as the engine sees them | `MCPrediction` |
| `RequestQueue` | what a transport promises: the abstract specification | through `ServiceTransport` |
| `ServiceTransport` | the transport, its worker, `stop`/`reconfigure`, the service processes at the socket path | `MCServiceTransport` |
| `SessionManager` | the sessions of the service under the worker pool and the poll loop | `MCSessionManager` |
| `TrainingCommits` | a commit's way from the correction window to the database, with crashes and the settings window | `MCTrainingCommits` |
| `LoraTraining`, `TrainingManager` | one training process; the windows that start, cancel, review, apply and delete | `MCTrainingManager` |
| `Downloads` | `fetch-model` and `install-trainer`, step by step | `MCParts`, `MCDownloads` |
| `Editing` | the composition, the input state, lists and menus of one input context, every key and click | `MCParts` |
| `MixedDecoder` | how a smart-English token is read | `MCParts` |
| `Sampling` | the sampler thread and the engine's use of its samples | `MCParts` |
| `PhraseOverrides` | the file of phrases and the programs that write it | `MCParts` |
| `ServiceEndpoint` | socket and pid file under several services | `MCParts` |
| `WireProtocol` | one exchange over the socket: both encoders, both decoders | `MCParts` |
| `Positions` | filtering a sequence by position: `Prediction` and `TrainingCommits` use it | through both |
| `PositionsProofs` | lemmas on `Positions` | tlapm |
| `PredictionProofs`, `TransportProofs`, `SessionProofs`, `TrainingProofs`, `TrainingManagerProofs`, `PartsProofs`, `WireProofs` | theorems | tlapm |

How they fit together: `Prediction` has a transport and a service that are
abstract; `ServiceTransport` implements the first (`RequestQueue`),
`SessionManager` is the second in detail. `Prediction` and `Editing` look at the
same buffer from two sides: the first at revisions and requests with any caret,
the second at caret, states and lists with any answer. `TrainingCommits` ends
at rows of the database, with which `LoraTraining` begins; `TrainingManager`
extends it. The machines of `MCParts` share no state with one another, and a
behaviour of it moves one of them, so that its state space is the sum of theirs.

### Prediction

One action is one turn of the host's main loop, one step of the service, or one
posted answer. `buffer[c]` keeps a segment's kind, its reading, the reading its
candidates belong to (`of`) and who chose the character; the caret is "any
position". `prediction[c]` has the fields of `PredictionState`. `queue` holds
requests in the order of the transport, `posted` the answers that wait for the
main loop. `service` maps open sessions to their last request id. Answers of
`ServeFails` stand for every transport error; `ForgetSessions` for reaping,
eviction and a restarted service. `SetTransportOptions` fails the queue,
increments generations and forgets sessions as `reconfigure` does. Key handlers
that end in the same calls are one action (`CompleteReading`, `RemoveSegment`);
those that touch the buffer without asking again (`InsertLiteral`, `MoveCaret`)
are kept apart, because that is where the code is delicate.

That the transport is a queue that answers each request once and in order is
not assumed freely: it is `RequestQueue`, and `ServiceTransport` implements it.

### ServiceTransport

The worker's program counter (`worker`) steps through `run()` and
`ensure_connected()` from one lock or system call to the next; `owner` steps
through `stop()` and `reconfigure()`. `connection` is the worker's descriptor:
whose process is the peer, whether it was shut down, and where its one frame
is. `services` are the processes that may ever listen at the path; each was
spawned by a generation of the transport or is foreign. Timeouts (one second
for a spawned service, thirty seconds of back-off, one second in
`shutdown_service`) may end at any moment. `Waiting`, the refinement mapping,
is the request in the worker's hands followed by the queue.

### SessionManager

A step is what a thread does under one hold of a lock. `at[w]` is the position
of a worker in `predict`, `open_session` or `close_session`; the locks that are
held over several steps are states of it ("predicting" holds the session's
mutex, "deciding" holds `prediction_mutex_` between a failed look at the
predicate and the sleep). `last_used` is kept as the relation `used_before`.
Condition variables may wake anyone spuriously. `phase` follows the shutdown of
`UnixSocketServer::run`: no new task after the connections are closed, the pool
drained, then the sessions destroyed. Session ids are random in the code and
never reused; here they are counted. Requests of other users are refused at
accept; error paths behind `shutting_down_` are never taken, as the workers have
been joined before it is set.

### TrainingCommits

The engine's half is `recent` (`recent_commit_`), `expired` (up to which event
the correction window is over) and `committing`: the record is queued before
`recorded_at` is taken, and the service may stage it in between. The transport
is a queue with one awaited answer; a reconfigured transport forgets both,
while a request that was sent may still be in the `pool` of a service. In the
service `op[s]` is the operation that holds `commit_mutex_`, and the database
is read and written in steps of their own (`ReadParameters`, `Insert`), because
the settings window uses it at the same time through a store of its own. Time
is kept as an order: a commit becomes due in the order of staging, and not
before the engine's window is over, unless it was staged `ahead` of
`recorded_at`. A service may crash at any time; started again it has an empty
store; a service that stops closes its connections with any part of the
requests not read. A flush that throws leaves in `staged` what the C++ leaves, moved-from
entries included (`LeftByFailure`). Readers of a database in WAL mode do not
fail; write transactions may.

### Editing

`session` has the fields of `InputSession` that a key can tell apart: segments
with the number of their candidates and the choice among them, caret, mark, the
number of pending smart-English keys and the decision about them, menu level,
page, cursor, and the length of the list last drawn (`shown`). Each branch of
`InputProcessor::process_impl` is an action; `Press` ends it as
`sync_state` and the redraw do. Dictionaries and the decoder decide
nondeterministically how a key continues. `Answer` is the model's answer, which
replaces lists under an open cursor; `SetConfig` changes the page size
(`config.pageSize`) and what keys mean without a redraw (`stale`), so that a view may
be left on a page that the new size does not have until the next redraw.

### MixedDecoder

A token is a sequence of key classes. `Tokens` are the proposals of
`tokenize_ascii` at a position, `Edges` add the syllables, one step (`Advance`)
extends the paths kept for one position, with the scores of the code; `Kept` is
`insert_entry`, ties falling either way.

### Sampling

The thread of the AT-SPI backend moves between positions of its main loop and
its callbacks (`sampler`), the engine thread (`main`) between the calls that
share a lock or an atomic with it: `queue_idle()`, which both threads run, is
the look at `idle_source_`, the reading of the generation, the attach and the
store, and `set_active()` the exchange of `active_` and the counting of the
activation. So both may attach a source, and a source may run before its id is
stored, after which no more is queued. A text is the widget it was read from and
the composition whose preedit it ends with, which is what `sample_adoption`
is there to keep apart.

### LoraTraining, TrainingManager, Downloads

A command (`cli[c]`, or `job` in `Downloads`) goes from one effect on the disk
or the database to the next and may be killed or fail before each. The window
(`manager[m]`) holds `gui.lock`, asks a holder of another build, replaces it and
runs one command at a time; what the user does in it (`record`, `selection`,
`active`) may happen between any two steps of a command.

### PhraseOverrides

A save truncates the temporary file, writes it line by line and renames it. Two
front ends hold copies (`memory`), the dialog a third one, and a text editor
writes the file itself. `stored` is what the user has been told is stored: a
phrase that was added is in it until the user removes it, whatever the programs
write meanwhile, and closing the dialog changes it only in the rows that the
user changed (`Confirmed`). `save()` writes all the phrases of one copy and does
not look at the file. `fresh` says which copies nobody has written the file
behind since they were read from it or written to it; `saving.sound` is whether
a save started from such a copy.

A front end reads the file when it starts, when it is activated, and when it is
asked to (`StartFrontEnd`, `ActivateFrontEnd`, `ReloadPhrases`); a file that
cannot be read leaves the copy as it was. On macOS an activation without a
configuration and an installed model returns before it has come to the phrases
(`ActivateUnconfigured`).

### ServiceEndpoint

One step is one system call of `prepare_socket_path`, `run` or
`cleanup_endpoint` that changes a file or whose result decides what comes next;
the pid file is looked at, removed, created and removed at the end in steps of
their own. A process that is killed leaves its files and forgets the rest.
`contested` remembers which services met another one in the midst of its start
or end; see the runs.

### WireProtocol

A frame is a sequence of `<<width, value>>`. `RequestFields` and `ResponseOf`
are the engine's, `RequestOf` and `ResponseFields` the service's; `Sendable…`
are the refusals of the encoders, the `Read…` operators those of the decoders.
The service refuses to send more lists of candidates, or a longer list, than the
engine would read (`MaxRepeated`): without that the round trip is false, though
no instance of TLC's is long enough to show it.
`Break` cuts what was written anywhere. A list is read by a function of the
number of items read so far, so that the module can be proved about;
`ReadList` takes the reader of an item as its parameter.

## 3. Runs

| Run | Bounds | Shows |
|---|---|---|
| `prediction` | two instances in one run (`MCPrediction`): 1 context, 2 readings, one phrase of two syllables, ≤ 2 segments, ≤ 3 revisions, 1 request id, 1 generation; and 2 contexts, 1 reading, ≤ 1 segment, 1 revision | answers land on their own readings (`CandidatesMatchReading`); nothing typed is lost (`EditsAreRepeated`, `DirtyIsRepeated`); ids and sessions are used as the service expects (`SessionsUsedAsExpected`); only the awaited answer moves a request (`AnsweredByItsOwnReply`); a context that waits has its request or its answer on the way (`PendingHasAnswer`) and is answered (`Answered`) |
| `prediction_lost_change` | as `prediction` | **violated**: `ChangedMeansDirty` |
| `transport` | 3 requests, 1 restart, 2 service processes, queue limit 1 | `ServiceTransport` implements `RequestQueue`; descriptors, stop and drain; every request is answered and `stop()` returns (`EverybodyIsAnswered`) |
| `transport_hung_service` | 1 request | **violated**: `StopAlwaysReturns` without an answer to the status request |
| `transport_late_service` | 1 request | **violated**: `OwnedServiceIsShutDown` |
| `sessions` | 2 workers, 1 slot, 2 sessions, 1 idle, request ids up to 2, 4 tasks | exact slots, one prediction per session, no lost wake-up, no use after destruction, and `NobodyWaitsForEver` |
| `commits` | 2 contexts, 1 service (restartable), 2 commits, 2 staged, 1 password | withdrawal, staging, settling, failures (see below) |
| `commits_disabled` | as `commits` | **violated**: `StoredOnlyWhileEnabled` |
| `training` | 2 windows of two builds, 2 trainings, 2 records, 1 crash of a window, symmetric trainings and records | `TrainedByOneRun`, `ActiveModelExists`, `ReadableWhileRunning`, `NewestKnowsTrained` |
| `training_unlock` | as `training` | **violated**: `TrainingKeepsItsDataset` |
| `parts` | see below | the seven modules that `MCParts` puts side by side, one property each and two of `Editing` |
| `trainer_cut` | 2 revisions, 2 libraries, 2 attempts | **violated**: `UsableTrainerIsWhole` |

Deadlock is not checked: every bounded run ends when its inputs are used up.

**Why the bounds are enough.** Each property is about the meeting of few
things. *Prediction*: one answer in flight, one or two edits of a two-segment
buffer, a repetition; three revisions let the buffer be edited before, during
and after a request, and the one generation lets a reset or reconnect fall
anywhere. Two contexts are needed only for the shared queue. *Transport*: one
restart separates an old from a new worker, two services an old from a new
process, and a queue limit of one is reached by the third request. *Sessions*:
with two workers and one slot one worker predicts or waits for the slot while
the other closes, opens or evicts; three workers with two slots were checked
for the invariants as well (and are covered by the proofs), but with liveness
such a run takes too long to keep. *Commits*: two commits of one or of two contexts are
what settling and withdrawing relate; with two services at once (4.6 million
states) and with two passwords (230 seconds) the invariants hold as well, but
such runs take too long to keep. *Training*: two windows are what a takeover
needs, two trainings what an orphan of a crashed window meets. The theorems of
section 5 remove the bounds for most safety properties of these.

*Parts*. Editing: compositions of up to two segments to which keys add, up to
three pending keys, lists of one and three rows, two sets of settings with
pages of two and of three rows; the cursor meets a shorter list, a last page, a
list of one row and a page that other settings do not have.
MixedDecoder: nine tokens, one of each kind that the tokenizer knows, with any
syllables in them and two paths kept where the code keeps more: the smaller the
number, the sooner a path is pushed out. Sampling: two widgets, one a password's,
two activations, two samples, one composition, which is what one sample taken
too late needs. Downloads: two revisions, two libraries, two attempts, cut off
anywhere. Phrases: two keys and two texts, of which each fits one key, two front
ends and the dialog, one line in the text editor. Endpoint: three services, so
that a newcomer meets one that starts and one that stops. Wire: each message with texts of no, the greatest and
one more unit, invalid texts, zero ids, scalars around the surrogates, lists of
up to two entries, and every optional part with and without. Together the
machines have 785 000 states, more than half of them of `Sampling`, whose
passwords show no preedit and which forgets what a prediction was given when its
composition ends.

**What `parts` shows.** `KeysWalkTheShownList`: a key or click picks from the list
on the panel, although answers and marks shorten it under the cursor.
`StateMatchesComposition`: the fifty handlers that set the input state by hand
agree with what is composed, and a decision has the keys it was made for.
`MixedSurvives`: readings as words do not crowd out every Chinese one.
`WholeTextPredatesComposition`: a prediction's context never ends with its own
preedit. `ReadyIsVerified`: a download cut off anywhere is not shown as ready.
`StoredPhrasesStay`: a phrase that was reported as stored stays in the file, and
none comes back that was taken back, when a save is made from an up-to-date copy,
fails, or is cut off. A save from a copy that is older than the file loses what
was written meanwhile; the property names this exception (`saving.sound`), and
TLC reaches the loss without it, in three ways: the dialog was open when a phrase
was stored from a marked range; the file could not be read at the start or the
activation (`phrase_override_store.cpp:76`); or, on macOS, the user edits
the file while there is no configuration and no installed model, and
`EngineBridge.swift:92` returns before the phrases are read. The last is at odds
with the comment at 88-90 ("so external edits take effect"); it has no run of its
own and is listed under `hazards`.
`EndpointIsKept`: a listening service is found at the path, unless it met
another one in the midst of a start or end; that such a service may lose its
files is possible in the code (nothing orders bind, listen and unlink of two
processes), costs a second service process, and is promised otherwise nowhere.
`FramesAreUnderstood`: each program decodes what the other encodes, up to every
limit, and acts on nothing that was cut off.

**What `commits` shows.** A service that has handled a withdrawal never holds
the commit again (`WithdrawalIsFinal`): the transport sends a withdrawal only
when the record was answered, given up or dropped with the queue.
`OneStagedPerSource`: a context's new commit is staged after its old one was
written or not at all. `TextIsKept`: the requests that `flush_locked` has moved
away when a write throws are none, as `staged_` is ordered by `queued_at` and
what is due comes first. `WrittenWhenSettled` names the only ways in which a
commit is written that a Backspace would still withdraw: the service stops, the
service staged it before the engine noted the time, or a record which the
transport had given up at a reconfiguration overtakes it in the service.
`StagedIsSettled`: nothing stays staged for ever.

**Findings.** Six statements of the sources that the code does not keep, each
with a run that shows it: `dirty` does not mark every change of the buffer
(punctuation, letters, caret moves); `stop()` cannot wake a worker that waits for
the answer to its status request; a spawned service that listens too late is not
shut down by `reconfigure()`; a commit staged by the service is written after
recording was switched off in the settings window; unlocking the review deletes
the dataset that a running training has still to open; a trainer whose
installation was cut off counts as usable and is not completed.

## 4. Fairness

* *Prediction*: weak fairness of serving the queue and of delivering posted
  answers. The worker thread and the main loop run as long as the host does.
  `recv` has no timeout, so this assumes that the service answers each request
  or the connection breaks. Nothing is assumed of the user; `Answered` leaves out
  the user who makes every repetition dirty again.
* *Transport*: weak fairness of the worker, of the thread in `stop()`, and of
  the service's answer to the status request, which a connection thread gives
  without waiting for anybody. `EverybodyIsAnswered` states its second
  part under the condition that predictions are answered too.
  `transport_hung_service` drops
  the status assumption and shows why it is needed.
* *Sessions*: weak fairness of each worker and of the poll loop; strong
  fairness of `ReleaseSlot`, whose mutex others take again and again.
  `NobodyWaitsForEver` assumes in addition a client that reads its answers, as the
  transport does. The number
  of tasks is bounded: that a client which never stops asking could starve
  another one is not covered.
* *Commits*: the engine's handler ends, windows close, and each thread of the
  service proceeds (weak); a write that is possible again and again succeeds
  (strong), because a lock of the other process lasts for one transaction.
  Nothing is assumed of users, crashes or the settings window; `StagedIsSettled`
  excepts a removed password, without which nothing can be written.

## 5. Proofs

The theorems hold for every value of the constants that satisfies the named
assumptions, which TLC evaluates in the runs: each module states what the code
gives it (a queue has room for a request, the pool has a thread more than there
are slots, `None` is not an id). Each theorem is proved from an inductive
invariant: `Init` implies it, every step preserves it, it implies the property.

* `PredictionProofs`. `TypeCorrect`. `RequestsDescribeCompositions`: a request
  carries the revision of its buffer, and while the buffer still has that
  revision, the readings and choices in the request and the indices kept of it
  are the buffer's. This is why `CandidatesAlwaysMatch` holds, which is not
  inductive: an answer is applied when the revisions agree, and it then fits.
  `WaitingIsNeverForgotten`: a pending context has its
  very request in the queue or its answer posted. The invariant adds that open
  requests of one generation are answered in order before the session is used,
  and that a new session is idle (`NewIsIdle`).
  `ServiceIsUsedAsExpected` follows the stream of requests through service,
  queue and answers at once (`RequestsKeepOrder`): each session is owned by one
  context (`SessionsAreOwned`), its request ids grow along the queue and are
  above what the service has seen and below the context's next one, and behind
  a Close nothing is queued for that session. `OnlyOwnRepliesCount` needs that
  order: an old error has another generation, or its request was the open one.
  `DirtyRequestsAreRepeated` is an action property of the answer.
  `NoEditIsLost` says which edits leave a request that is not dirty as it was:
  a literal put before a segment moves the positions but not the readings
  (`AscendingShifted`), and giving a segment its character again never makes a
  choice explicit.
* `TransportProofs`. The invariant joins the types with four facts: which
  request the worker has (`CurrentOK`), when its descriptor is open and
  published (`DescriptorOK`), what a stop has done at each of its positions
  (`StopOK`), and that answers are not more than requests (`CountOK`).
  `SocketStaysOpen`, `StopReachesWorker`, `StoppedIsDrained` follow;
  `TransportIsAQueue` maps each step to a step or stutter of `RequestQueue`.
* `SessionProofs`. `OneAtATime`, `ClosedIsClosed`, `SlotsAreExact`, and
  `NobodySleepsBesideASlot`. `close_session` notifies without the mutex of the
  condition, so that a notification can fall between a look at the predicate
  and the sleep. It does no harm for one reason: the pool has one thread more
  than there are slots (`SessionAssumption`), so that whoever finds no slot is
  the only one without (`AloneOK`), and no other thread is left to close.

* `PositionsProofs`. Keeping the elements of a sequence at given positions is
  written without recursion: `Ascending(S, n)` counts. The lemmas say that its
  elements are positions of `S` in order, so that what is kept embeds in the
  sequence (`KeepEmbeds`), that a set of positions has a least and a greatest one,
  that a set is listed in ascending order in one way only (`AscendingUnique`), and
  that putting an element in shifts the positions behind it (`AscendingShifted`).
* `TrainingProofs`. `WithdrawalsAreFinal`, `SourcesStageOnce`,
  `FailuresKeepText`, and the action property `WritesAreSettled`, for any number
  of services, contexts and commits. The invariant (`TrainingInvariant`) follows
  a record and its withdrawal. The record of a commit is in one place
  (`RecordsOnce`). In the queue the withdrawal is behind it, and where the
  withdrawal has arrived no record is left (`WithdrawalsLast`). That this
  survives the sending of a withdrawal is `RecordAwaited`: whatever could be
  withdrawn and has its record in a running service is what the transport waits
  for, so that nothing else is sent; a reconfiguration, which gives up the
  awaited record, forgets the recent commit in the same step, and one service
  runs at a time (`ServicesOK`). `WithdrawalIsFinal` then needs
  `OneStagedPerSource`: `discard_staged` erases the first entry of an event, and
  there is no second. `StagedOK` keeps the entries in the order of `at`, which is
  why `LeftByFailure` takes the text of none, and `SettledOK` says that in a
  running service only what is due is flushed, and that what is due is older
  than the engine's window unless it was staged `ahead`.

* `TrainingManagerProofs`. `TrainingManagerTypes`, `RecordsAreTaughtOnce`,
  `ActiveModelStays`, `TextIsReadableOnlyMeanwhile` and `NewestKnowsAll`, for any
  number of rows, builds and crashes. What a run has taught is never pending
  again (`PublishedIsSettled`), so that no other run can teach it. A window has a
  process only while it holds the lock (`JobsAreServed`); hence, while no window
  has crashed with a job, there is one training (`OneTraining`) and each run
  starts from the one before (`RunsAreChained`). An orphan breaks the last two,
  which is why `NewestKnowsTrained` excepts it.
* `PartsProofs`. `OwnPreeditIsNeverContext`: compositions are numbered as they
  start, so that no text read before a composition can end with its preedit
  (`TextsAreOld`), and a sample not newer than the composition's base was
  published before it (`SampleIsOld`). Nothing about the life of the backend is
  used. `LoneServiceKeepsEndpoint`, for any number of services: the invariant
  says who may still unlink a file (`FilesHaveOwners`) and that nobody may unlink
  those of a service that is not contested (`LoneServiceIsFound`).
  `ReadyThingsAreVerified`: a file that is in place was verified
  (`FilesAreVerified`), and the stamp is written after all of them
  (`StampComesLast`). `ReportedPhrasesStay`, for any keys, phrases and front ends,
  with the exception of saves from a copy older than the file:
  whoever saves runs (`SaversRun`); a fresh copy says what the file says
  (`FreshCopies`), so that a save from one has in its memory, and in the temporary
  file, what is meant for every reading that the file had right, and would return
  to what the file holds (`SaveIsMeant`); every phrase it has is one that `load()` accepts
  (`PhrasesAreValid`), so that what is written is read back as it was.
  `MixedReadingsSurvive`, for any token, any tables and any number of kept paths
  above one: a reading kept without a syllable shows the keys themselves
  (`ReadsAs`), so that all of one length are one text and occupy one place of the
  `TopK`; a place is left for a reading with a syllable, and one that ends later
  is a kept path and the key after it. With one place it would be false.
  `KeysWalkTheRowsShown` and `StateFollowsComposition`, for any settings, lengths
  of lists and page sizes. `Sound` says what every handler leaves before the
  redraw (a caret and a mark inside the composition, a decision with its keys, no
  open list under the menu), whatever settings are in force, `Good` what it leaves
  after it; `RedrawnGood` takes the first to the second, and the handlers that end
  without a redraw
  (`SettledAsLiterals`, an arrow at the edge, `SetConfig`) keep `Good` themselves.
  `EditingTypes` follows.

  The types are proved of each machine for itself. `PathsTileTheKeys`: a path
  grows by an edge that begins where it ends, and the edges stay those of the
  token, which nothing changes (`EdgesStay`), so that what is kept for a position
  tiles the keys before it. `DownloadTypesKept`: whoever downloads an asset has
  one left, and whoever is about to try again has an attempt left
  (`DownloadCounts`). `SamplingTypesKept` adds the threads and the bounds of the
  counters to the invariant above (`SamplingRanges`). A step of one machine
  leaves the variables of all others alone (`PartsStep`), so that a behaviour of
  `PartsSpec` is one of each of them, and `PartsTypesKept` follows.
* `WireProofs`. `FramesAlwaysUnderstood`, for any requests, texts, errors and
  candidates. It rests on the two round trips, `RequestUnderstood` and
  `ResponseUnderstood`: what the one program encodes, the other decodes as the
  same message. Each reader has a lemma of one form: from a reader that stands
  in front of the fields of one part, with any fields behind them, it gets to
  those fields with the part's value (`TextRead`, `PaddingRead`, `EntryRead`,
  `SessionRead`, ...). For lists (`PaddingsRead`, `EntriesRead`,
  `CandidateListsRead`) that is an induction on the number of items read, between
  two sequences of what is left (`BetweenItems`). A decoder also refuses a count
  that the bytes left cannot hold; that this never refuses what was encoded
  needs the bytes of all fields (`CountOfList`, `BytesConcat`). `OnlyWhole`: of
  a part of a frame that is not the whole frame nothing is read. The inductive
  invariant (`WireInv`, `WireFollowed`) then follows one exchange: what is on the
  way is a part of the frame of this request, or of an answer to it, that could
  be encoded; the answer in hand is one to the request; a connection that was
  closed and not broken was closed by a refusal. `WireTypes` follows with
  `WidthInBytes`: no field is wider than the frame.

  The induction theorems of the library take an operator as a parameter, which
  no prover here can instantiate. `Induction` says the same of a set of numbers,
  from the well-foundedness of `<` on them (`WFMin`), and `Iteration` that a
  function given by recursion exists and has its values.

Every safety invariant and action property that a passing run checks is proved.
Only model-checked are the four liveness properties (`Answered`,
`EverybodyIsAnswered`, `NobodyWaitsForEver`, `StagedIsSettled`): liveness under
fairness, and `ENABLED`, are beyond the proof system's reach.
