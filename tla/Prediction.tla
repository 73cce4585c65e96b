----------------------------- MODULE Prediction -----------------------------
(***************************************************************************)
(* How the input method asks the prediction service for candidates while   *)
(* the user keeps typing.  Three actors share the state:                   *)
(*   - the main loop: key events, resets and configuration changes, and    *)
(*     the responses that were posted to it (Engine, engine.cpp; the       *)
(*     bookkeeping of one session is PredictionState);                     *)
(*   - the transport's worker, which sends one queued request at a time    *)
(*     (service_transport.cpp; its own life cycle is ServiceTransport.tla) *)
(*   - the service, which knows its sessions and the last request id of    *)
(*     each (session_manager.cpp; its threads are SessionManager.tla).     *)
(*                                                                         *)
(* A composition is a sequence of segments.  Keys, characters and context  *)
(* text are abstracted: a segment is an unfinished syllable, a completed   *)
(* reading or a literal, `of` is the reading its candidate list was        *)
(* computed for, and `choice` says who picked the shown character.  The    *)
(* caret is abstracted too: an edit may happen at any position.  The code  *)
(* compares revisions only for equality, so several touch() calls of one   *)
(* handler count as one.                                                   *)
(***************************************************************************)
EXTENDS Naturals, Sequences, FiniteSets, SequencesExt, FiniteSetsExt, Positions

CONSTANTS
  Contexts,       \* input contexts of the host
  Readings,       \* completed Bopomofo readings
  Phrases,        \* phrases the user may store, as sequences of readings
  MaxSegments,    \* bound on the length of a composition
  MaxRevision,    \* bound on the buffer revision a user action starts from
  MaxRequests,    \* bound on the request id from which a key may repeat a request for nothing
  MaxGeneration,  \* bound on the generation a reset or restart starts from
  NoReading       \* stands for the reading of a literal or unfinished segment

ASSUME PredictionAssumption ==
  /\ IsFiniteSet(Contexts)
  /\ NoReading \notin Readings
  /\ Phrases \subseteq Seq(Readings)
  /\ \A phrase \in Phrases : Len(phrase) \in 2..8   \* PhraseOverrideStore::valid_entry
  /\ MaxSegments \in Nat /\ MaxRevision \in Nat /\ MaxRequests \in Nat
  /\ MaxGeneration \in Nat

VARIABLES
  attached,   \* which contexts have an InputSession: "new", "live" or "gone"
  buffer,     \* CompositionBuffer of each context
  prediction, \* PredictionState of each context
  phrases,    \* PhraseOverrideStore: the stored phrases
  queue,      \* ServiceTransport::queue_
  posted,     \* responses posted to the main loop, in order
  service,    \* the service's sessions: session id -> last_request_id
  sessions_opened \* how many session ids the service has handed out

vars == <<attached, buffer, prediction, phrases, queue, posted, service, sessions_opened>>

-----------------------------------------------------------------------------
(* Segments and the composition buffer *)

None == 0   \* no session (all-zero SessionId) and no in-flight request

Segment == [kind : {"partial", "complete", "literal"}, reading : Readings \cup {NoReading},
            of : Readings \cup {NoReading}, choice : {"auto", "manual", "pinned"}]

Partial == [kind |-> "partial", reading |-> NoReading, of |-> NoReading, choice |-> "auto"]
Literal == [Partial EXCEPT !.kind = "literal"]
\* A finished reading starts with the table's candidates for it.
Complete(r, choice) == [kind |-> "complete", reading |-> r, of |-> r, choice |-> choice]

CompositionBuffer == [segments : Seq(Segment), revision : Nat]

EmptyBuffer == [segments |-> <<>>, revision |-> 0]

Touched(b, segs) == [segments |-> segs, revision |-> b.revision + 1]

\* The positions of the elements of s that have one of the given kinds, in
\* ascending order.
PositionsOf(s, kinds) == Ascending({i \in 1..Len(s) : s[i].kind \in kinds}, Len(s))

completed_segment_indices(b) == PositionsOf(b.segments, {"complete"})

raw_composition(b) ==
  LET spelled == PositionsOf(b.segments, {"partial", "complete"})
  IN  [k \in DOMAIN spelled |-> b.segments[spelled[k]].reading]

\* What build_predict_request sends of the composition.
padding(b) ==
  LET indices == completed_segment_indices(b)
  IN  [k \in DOMAIN indices |->
         [reading |-> b.segments[indices[k]].reading,
          chosen  |-> b.segments[indices[k]].choice # "auto"]]

\* CompositionBuffer::clear touches only a buffer that holds something.
clear(b) == IF b.segments = <<>> THEN b ELSE Touched(b, <<>>)

-----------------------------------------------------------------------------
(* Phrase overrides: InputProcessor::apply_phrase_override *)

Usable(s) == s.kind = "complete" /\ s.choice # "manual"

ReadingsOf(segs, i, j) == [k \in 1..(j - i + 1) |-> segs[i + k - 1].reading]

\* The contiguous run of pinned segments around position i.
PinnedRun(segs, i) ==
  {j \in 1..Len(segs) : \A k \in Min({i, j})..Max({i, j}) : segs[k].choice = "pinned"}

\* Positions whose pin is not backed by a stored phrase any more.
Released(segs, stored) ==
  {i \in 1..Len(segs) :
     /\ segs[i].choice = "pinned"
     /\ ReadingsOf(segs, Min(PinnedRun(segs, i)), Max(PinnedRun(segs, i))) \notin stored}

\* Positions covered by stored phrases, leftmost first and longest first.
Covered(segs, stored) ==
  LET Lengths(i) == {n \in 2..8 :
                       /\ i + n - 1 <= Len(segs)
                       /\ \A k \in i..(i + n - 1) : Usable(segs[k])
                       /\ ReadingsOf(segs, i, i + n - 1) \in stored}
      from[i \in 1..(Len(segs) + 1)] ==
        IF i > Len(segs) THEN {}
        ELSE IF Lengths(i) = {} THEN from[i + 1]
        ELSE (i..(i + Max(Lengths(i)) - 1)) \cup from[i + Max(Lengths(i))]
  IN  from[1]

apply_phrase_override(b, stored) ==
  LET released == Released(b.segments, stored)
      unpinned == [i \in 1..Len(b.segments) |->
                     IF i \in released THEN [b.segments[i] EXCEPT !.choice = "auto"]
                     ELSE b.segments[i]]
      covered  == Covered(unpinned, stored)
      pinned   == [i \in 1..Len(b.segments) |->
                     IF i \in covered THEN [unpinned[i] EXCEPT !.choice = "pinned"]
                     ELSE unpinned[i]]
  IN  IF released = {} /\ pinned = unpinned THEN b ELSE Touched(b, pinned)

-----------------------------------------------------------------------------
(* Candidates from the table and from the model *)

\* apply_fallback_candidates for each requested index: the code re-checks that
\* the segment still exists and is complete, and keeps an explicit choice.
apply_fallback_candidates(b, indices) ==
  LET refreshed == {i \in 1..Len(b.segments) :
                      /\ \E k \in DOMAIN indices : indices[k] = i
                      /\ Usable(b.segments[i])}
  IN  IF refreshed = {} THEN b
      ELSE Touched(b, [i \in 1..Len(b.segments) |->
                         IF i \in refreshed
                         THEN [b.segments[i] EXCEPT !.of = b.segments[i].reading]
                         ELSE b.segments[i]])

\* The k-th candidate list goes to the k-th requested index, unchecked.
apply_prediction(b, indices, candidates) ==
  LET refreshed == {i \in 1..Len(b.segments) :
                      /\ \E k \in DOMAIN indices : indices[k] = i
                      /\ b.segments[i].choice # "manual"}
      Given(i)  == candidates[CHOOSE k \in DOMAIN indices : indices[k] = i].reading
  IN  IF refreshed = {} THEN b
      ELSE Touched(b, [i \in 1..Len(b.segments) |->
                         IF i \in refreshed THEN [b.segments[i] EXCEPT !.of = Given(i)]
                         ELSE b.segments[i]])

-----------------------------------------------------------------------------
(* PredictionState: prediction_state.hpp *)

InitialPrediction ==
  [session_id |-> None, next_request_id |-> 1, generation |-> 0,
   inflight_request_id |-> None, inflight_revision |-> 0, key |-> <<>>, revision |-> 0,
   segment_indices |-> <<>>, pending |-> FALSE, dirty |-> FALSE]

session_open(p) == p.session_id # None

mark_dirty(p) == [p EXCEPT !.dirty = @ \/ p.pending]

clear_pending(p) ==
  [p EXCEPT !.pending = FALSE, !.dirty = FALSE, !.inflight_request_id = None,
            !.inflight_revision = 0, !.segment_indices = <<>>]

invalidate(p) == clear_pending([p EXCEPT !.generation = @ + 1])

\* begin() for a composition b: what it leaves behind ...
begin(p, b) ==
  IF p.pending THEN [p EXCEPT !.dirty = TRUE]
  ELSE IF completed_segment_indices(b) = <<>> THEN p
  ELSE [p EXCEPT !.pending = TRUE, !.dirty = FALSE, !.key = raw_composition(b),
                 !.revision = b.revision, !.segment_indices = completed_segment_indices(b)]

\* ... and whether it returned true.
Begins(p, b) == ~p.pending /\ completed_segment_indices(b) # <<>>

correlates_prediction(p, request) ==
  /\ p.inflight_request_id # None
  /\ p.inflight_request_id = request.request_id
  /\ p.inflight_revision = request.buffer_revision
  /\ p.session_id = request.session_id

\* Every error about a prediction carries the id of its request.
correlates_error(p, request) ==
  p.inflight_request_id = None \/ p.inflight_request_id = request.request_id

MatchesIgnoringRevision(p, b, candidates) ==
  Len(candidates) = Len(p.segment_indices) /\ p.key = raw_composition(b)
matches_composition(p, b, candidates) ==
  /\ Len(candidates) = Len(p.segment_indices)
  /\ p.key = raw_composition(b)
  /\ p.revision = b.revision

-----------------------------------------------------------------------------
(* Requests of the engine.  An operator that may send something returns the *)
(* new prediction state, the new buffer and the requests to enqueue.        *)

OpenRequest(c, p) == [kind |-> "open", context |-> c, generation |-> p.generation]

CloseRequest(p) == [kind |-> "close", session_id |-> p.session_id]

\* close_prediction_session: the Close that is enqueued, if any.
Closing(p) == IF session_open(p) THEN <<CloseRequest(p)>> ELSE <<>>

PredictRequest(c, p, b) ==
  [kind |-> "predict", context |-> c, generation |-> p.generation,
   session_id |-> p.session_id, request_id |-> p.next_request_id,
   buffer_revision |-> p.revision, padding |-> padding(b)]

\* The content is read from the buffer now; the revision is the one begin() saw.
send_prediction(c, p, b) ==
  [buffer |-> b,
   prediction |-> [p EXCEPT !.next_request_id = @ + 1,
                            !.inflight_request_id = p.next_request_id,
                            !.inflight_revision = p.revision],
   requests |-> <<PredictRequest(c, p, b)>>]

request_prediction(c, p, b, stored) ==
  LET b1 == apply_phrase_override(b, stored)
      p1 == begin(p, b1)
  IN  IF ~Begins(p, b1) THEN [buffer |-> b1, prediction |-> p1, requests |-> <<>>]
      ELSE IF ~session_open(p1)
      THEN [buffer |-> b1, prediction |-> p1, requests |-> <<OpenRequest(c, p1)>>]
      ELSE send_prediction(c, p1, b1)

\* finish(), and the repetition a dirty request gets.
FinishWithoutRepeat(c, p, b, stored) ==
  [buffer |-> b, prediction |-> clear_pending(p), requests |-> <<>>]
Finish(c, p, b, stored) ==
  IF p.dirty THEN request_prediction(c, clear_pending(p), b, stored)
  ELSE [buffer |-> b, prediction |-> clear_pending(p), requests |-> <<>>]

-----------------------------------------------------------------------------
(* The main loop: key events and other calls of the host *)

Live == {c \in Contexts : attached[c] = "live"}

Init ==
  /\ attached = [c \in Contexts |-> "new"]
  /\ buffer = [c \in Contexts |-> EmptyBuffer]
  /\ prediction = [c \in Contexts |-> InitialPrediction]
  /\ phrases = {}
  /\ queue = <<>>
  /\ posted = <<>>
  /\ service = <<>>
  /\ sessions_opened = 0

\* Engine::attach, or the first key of a context.  The hosts count their
\* context ids up and never use one again (ime_engine.cpp, EngineCore.swift).
Attach(c) ==
  /\ attached[c] = "new"
  /\ attached' = [attached EXCEPT ![c] = "live"]
  /\ UNCHANGED <<buffer, prediction, phrases, queue, posted, service, sessions_opened>>

\* A user action on context c that a bound on the model still allows.
Editable(c) == c \in Live /\ buffer[c].revision < MaxRevision

Apply(c, result) ==
  /\ buffer' = [buffer EXCEPT ![c] = result.buffer]
  /\ prediction' = [prediction EXCEPT ![c] = result.prediction]
  /\ queue' = queue \o result.requests
  /\ UNCHANGED <<posted, service, sessions_opened>>

\* The buffer changes and no request is started.
Edit(c, segs, p) ==
  Apply(c, [buffer |-> Touched(buffer[c], segs), prediction |-> p, requests |-> <<>>])

\* The buffer changes and the key's effect asks for a prediction.
EditAndRequest(c, segs, p) ==
  Apply(c, request_prediction(c, p, Touched(buffer[c], segs), phrases))

Positions(c) == 1..Len(buffer[c].segments)
HasRoom(c) == Len(buffer[c].segments) < MaxSegments

\* A symbol key starts a syllable at the caret or changes the unfinished one.
TypeSymbol(c) ==
  /\ Editable(c)
  /\ \/ /\ HasRoom(c)
        /\ \E i \in 1..(Len(buffer[c].segments) + 1) :
             Edit(c, InsertAt(buffer[c].segments, i, Partial), mark_dirty(prediction[c]))
     \/ /\ \E i \in Positions(c) : buffer[c].segments[i].kind = "partial"
        /\ Edit(c, buffer[c].segments, mark_dirty(prediction[c]))
  /\ UNCHANGED <<attached, phrases>>

\* A tone key finishes the syllable; the table's candidates are there at once.
CompleteReading(c) ==
  /\ Editable(c)
  /\ \E i \in Positions(c), r \in Readings :
       /\ buffer[c].segments[i].kind = "partial"
       /\ EditAndRequest(c, [buffer[c].segments EXCEPT ![i] = Complete(r, "auto")],
                         mark_dirty(prediction[c]))
  /\ UNCHANGED <<attached, phrases>>

\* A settled Smart-English path appends readings with their chosen characters,
\* and literals; add_bopomofo_keys wants the caret at the end.
SettleMixedPath(c) ==
  /\ Editable(c)
  /\ \E n \in 1..(MaxSegments - Len(buffer[c].segments)) :
       \E path \in [1..n -> {Literal} \cup {Complete(r, "manual") : r \in Readings}] :
         /\ \E k \in 1..n : path[k] # Literal
         /\ EditAndRequest(c, buffer[c].segments \o path, mark_dirty(prediction[c]))
  /\ UNCHANGED <<attached, phrases>>

\* Backspace, Delete, Escape on an unfinished reading, and a finished reading
\* the table has no character for.
RemoveSegment(c) ==
  /\ Editable(c)
  /\ \E i \in Positions(c) :
       Edit(c, RemoveAt(buffer[c].segments, i), mark_dirty(prediction[c]))
  /\ UNCHANGED <<attached, phrases>>

\* Backspace in front of the composition and Delete behind it change no text,
\* and still mark the request dirty.
DeleteNothing(c) ==
  /\ Editable(c) /\ prediction[c].next_request_id <= MaxRequests
  /\ Positions(c) # {}
  /\ Apply(c, [buffer |-> buffer[c], prediction |-> mark_dirty(prediction[c]), requests |-> <<>>])
  /\ UNCHANGED <<attached, phrases>>

\* Keypad keys and the symbol menu mark the request dirty; punctuation, letters
\* put into the buffer and Hsu digits do not.
InsertLiteral(c) ==
  /\ Editable(c) /\ HasRoom(c)
  /\ \E i \in 1..(Len(buffer[c].segments) + 1), p \in {prediction[c], mark_dirty(prediction[c])} :
       Edit(c, InsertAt(buffer[c].segments, i, Literal), p)
  /\ UNCHANGED <<attached, phrases>>

\* Caret and selection moves touch the buffer.
MoveCaret(c) ==
  /\ Editable(c) /\ Positions(c) # {}
  /\ Edit(c, buffer[c].segments, prediction[c])
  /\ UNCHANGED <<attached, phrases>>

\* The user picks a candidate of a completed segment.
SelectWithoutRequest(c) ==
  /\ Editable(c)
  /\ \E i \in Positions(c) :
       /\ buffer[c].segments[i].kind = "complete"
       /\ Edit(c, [buffer[c].segments EXCEPT ![i].choice = "manual"], prediction[c])
  /\ UNCHANGED <<attached, phrases>>
SelectCandidate(c) ==
  /\ Editable(c)
  /\ \E i \in Positions(c) :
       /\ buffer[c].segments[i].kind = "complete"
       /\ EditAndRequest(c, [buffer[c].segments EXCEPT ![i].choice = "manual"], prediction[c])
  /\ UNCHANGED <<attached, phrases>>

\* Escape on an explicitly chosen segment gives it back to the model.
CancelSelection(c) ==
  /\ Editable(c)
  /\ \E i \in Positions(c) :
       /\ buffer[c].segments[i].choice = "manual"
       /\ EditAndRequest(c, [buffer[c].segments EXCEPT ![i].choice = "auto"], prediction[c])
  /\ UNCHANGED <<attached, phrases>>

\* Enter on a marked range stores it as a phrase and pins it right away.
StorePhrase(c) ==
  /\ Editable(c)
  /\ \E i, j \in Positions(c) :
       LET phrase == ReadingsOf(buffer[c].segments, i, j)
       IN  /\ phrase \in Phrases
           /\ phrases' = phrases \cup {phrase}
           /\ Apply(c, [buffer |-> apply_phrase_override(
                                     Touched(buffer[c], buffer[c].segments), phrases'),
                        prediction |-> prediction[c], requests |-> <<>>])
  /\ UNCHANGED attached

\* commit_current, commit_composition_with, Escape that clears the buffer, Caps
\* Lock without Chinese input: the generation stays.
Commit(c) ==
  /\ Editable(c)
  /\ Apply(c, [buffer |-> clear(buffer[c]), prediction |-> clear_pending(prediction[c]),
               requests |-> <<>>])
  /\ UNCHANGED <<attached, phrases>>

\* InputProcessor::reset: focus changes, deactivation and resets by the client.
Reset(c) ==
  /\ c \in Live /\ prediction[c].generation < MaxGeneration
  /\ Apply(c, [buffer |-> clear(buffer[c]), prediction |-> invalidate(prediction[c]),
               requests |-> <<>>])
  /\ UNCHANGED <<attached, phrases>>

WithoutSession(p) == [p EXCEPT !.session_id = None]

\* Engine::detach closes the session and forgets the context.
Detach(c) ==
  /\ c \in Live
  /\ attached' = [attached EXCEPT ![c] = "gone"]
  /\ Apply(c, [buffer |-> EmptyBuffer, prediction |-> InitialPrediction,
               requests |-> Closing(prediction[c])])
  /\ UNCHANGED phrases

\* Engine::set_config with settle_sessions: keys still pending become literals
\* (prepare_for_config_change) and every open session is closed, in the order
\* of the session map.
SettledPredictionKeepingSession(p) == invalidate(p)
SettledPrediction(p) == WithoutSession(invalidate(p))

SetConfig ==
  /\ Live # {}
  /\ \A c \in Live : prediction[c].generation < MaxGeneration
  /\ \E settled \in SUBSET {c \in Live : HasRoom(c)} :
     \E caret \in [settled -> 1..MaxSegments] :
       /\ \A c \in settled : caret[c] <= Len(buffer[c].segments) + 1
       /\ buffer' = [c \in Contexts |->
                       IF c \in settled
                       THEN Touched(buffer[c], InsertAt(buffer[c].segments, caret[c], Literal))
                       ELSE buffer[c]]
  /\ prediction' = [c \in Contexts |-> IF c \in Live THEN SettledPrediction(prediction[c])
                                       ELSE prediction[c]]
  /\ LET open == {c \in Live : session_open(prediction[c])}
     IN  \E closes \in [1..Cardinality(open) -> {CloseRequest(prediction[c]) : c \in open}] :
           /\ \A i, j \in DOMAIN closes : closes[i] = closes[j] => i = j
           /\ queue' = queue \o closes
  /\ UNCHANGED <<attached, phrases, posted, service, sessions_opened>>

-----------------------------------------------------------------------------
(* The transport's worker and the service *)

Reply(m, code, sid) == [request |-> m, code |-> code, session_id |-> sid]

\* A Close has no callback: its answer reaches nobody.
Failures(requests) ==
  LET asked == PositionsOf(requests, {"open", "predict"})
  IN  [k \in DOMAIN asked |-> Reply(requests[asked[k]], "failed", None)]

\* Engine::set_transport_options: reconfigure() fails what is queued and stops
\* the service it may have started; every context forgets its session.
RestartKeepingRequest(p) == WithoutSession(p)
RestartedPrediction(p) == WithoutSession(invalidate(p))

SetTransportOptions ==
  /\ Live # {}
  /\ \A c \in Live : prediction[c].generation < MaxGeneration
  /\ posted' = posted \o Failures(queue)
  /\ queue' = <<>>
  /\ service' \in {service, <<>>}
  /\ prediction' = [c \in Contexts |-> IF c \in Live THEN RestartedPrediction(prediction[c])
                                       ELSE prediction[c]]
  /\ UNCHANGED <<attached, buffer, phrases, sessions_opened>>

\* The worker takes the next request off the queue; what it gets back is posted.
Answer(reply) ==
  /\ queue' = Tail(queue)
  /\ posted' = Append(posted, reply)
  /\ UNCHANGED <<attached, buffer, prediction, phrases>>

WithRequestId(sid, id) == [s \in DOMAIN service \cup {sid} |-> IF s = sid THEN id ELSE service[s]]
WithoutSessions(sids) == [s \in DOMAIN service \ sids |-> service[s]]

\* No connection, a connection that breaks, or an error the engine treats alike
\* (ModelError, ResourceExhausted, ServiceShuttingDown, ProtocolError).
ServeFails ==
  /\ queue # <<>> /\ Head(queue).kind # "close"
  /\ Answer(Reply(Head(queue), "failed", None))
  /\ UNCHANGED <<service, sessions_opened>>

ServeOpenReusingId ==
  /\ queue # <<>> /\ Head(queue).kind = "open"
  /\ service' = WithRequestId(sessions_opened + 1, 0)
  /\ Answer(Reply(Head(queue), "ok", sessions_opened + 1))
  /\ UNCHANGED sessions_opened
ServeOpen ==
  /\ queue # <<>> /\ Head(queue).kind = "open"
  /\ sessions_opened' = sessions_opened + 1
  /\ service' = WithRequestId(sessions_opened', 0)
  /\ Answer(Reply(Head(queue), "ok", sessions_opened'))

\* SessionManager::predict for a worker that sends one request at a time; the
\* model may fail after the request id was taken.
ServePredict ==
  /\ queue # <<>> /\ Head(queue).kind = "predict"
  /\ LET m == Head(queue)
     IN  IF m.session_id \notin DOMAIN service
         THEN /\ Answer(Reply(m, "unknown_session", None))
              /\ UNCHANGED service
         ELSE IF m.request_id <= service[m.session_id]
         THEN /\ Answer(Reply(m, "out_of_order", None))
              /\ UNCHANGED service
         ELSE /\ \E code \in {"ok", "failed"} : Answer(Reply(m, code, m.session_id))
              /\ service' = WithRequestId(m.session_id, m.request_id)
  /\ UNCHANGED sessions_opened

ServeClose ==
  /\ queue # <<>> /\ Head(queue).kind = "close"
  /\ queue' = Tail(queue)
  /\ service' \in {service, WithoutSessions({Head(queue).session_id})}
  /\ UNCHANGED <<attached, buffer, prediction, phrases, posted, sessions_opened>>

\* Idle sessions are reaped or evicted, and a service that restarts knows none.
ForgetSessions ==
  /\ \E sids \in (SUBSET DOMAIN service) \ {{}} : service' = WithoutSessions(sids)
  /\ UNCHANGED <<attached, buffer, prediction, phrases, queue, posted, sessions_opened>>

-----------------------------------------------------------------------------
(* The main loop handles the next posted response *)

Handled(c, result) ==
  /\ buffer' = [buffer EXCEPT ![c] = result.buffer]
  /\ prediction' = [prediction EXCEPT ![c] = result.prediction]
  /\ queue' = queue \o result.requests
  /\ posted' = Tail(posted)
  /\ UNCHANGED <<attached, phrases, service, sessions_opened>>

\* The response is about the request this context is waiting for, as far as
\* generation and pending tell.
StaleByPendingOnly(m) == m.context \notin Live \/ ~prediction[m.context].pending
Stale(m) ==
  \/ m.context \notin Live
  \/ prediction[m.context].generation # m.generation
  \/ ~prediction[m.context].pending

Ignored(reply) ==
  \/ Stale(reply.request)
  \/ LET p == prediction[reply.request.context]
     IN  \/ reply.request.kind = "open" /\ session_open(p)
         \/ /\ reply.request.kind = "predict"
            /\ IF reply.code = "ok" THEN ~correlates_prediction(p, reply.request)
               ELSE ~correlates_error(p, reply.request)

IgnoreReply ==
  /\ posted # <<>> /\ Ignored(Head(posted))
  /\ posted' = Tail(posted)
  /\ UNCHANGED <<attached, buffer, prediction, phrases, queue, service, sessions_opened>>

\* The callback of open_prediction_session when the service opened a session.
SessionOpened ==
  /\ posted # <<>> /\ ~Ignored(Head(posted))
  /\ Head(posted).request.kind = "open" /\ Head(posted).code = "ok"
  /\ LET c == Head(posted).request.context
     IN  Handled(c, send_prediction(c, [prediction[c] EXCEPT !.session_id = Head(posted).session_id],
                                    buffer[c]))

\* What both error paths and an outdated prediction do: table candidates for
\* the requested segments, stored phrases pinned again, request finished.
FallBackStillPending(c, p, b, stored) ==
  [buffer |-> apply_phrase_override(apply_fallback_candidates(b, p.segment_indices), stored),
   prediction |-> p, requests |-> <<>>]
FallBack(c, p, b, stored) ==
  Finish(c, p, apply_phrase_override(apply_fallback_candidates(b, p.segment_indices), stored), stored)

OpenFailed ==
  /\ posted # <<>> /\ ~Ignored(Head(posted))
  /\ Head(posted).request.kind = "open" /\ Head(posted).code # "ok"
  /\ LET c == Head(posted).request.context
     IN  Handled(c, FallBack(c, prediction[c], buffer[c], phrases))

PredictionArrived ==
  /\ posted # <<>> /\ ~Ignored(Head(posted))
  /\ Head(posted).request.kind = "predict" /\ Head(posted).code = "ok"
  /\ LET c == Head(posted).request.context
         p == prediction[c]
         b == buffer[c]
         candidates == Head(posted).request.padding
     IN  IF matches_composition(p, b, candidates)
         THEN Handled(c, Finish(c, p, apply_phrase_override(
                apply_prediction(b, p.segment_indices, candidates), phrases), phrases))
         ELSE Handled(c, FallBack(c, p, b, phrases))

PredictionFailed ==
  /\ posted # <<>> /\ ~Ignored(Head(posted))
  /\ Head(posted).request.kind = "predict" /\ Head(posted).code # "ok"
  /\ LET c == Head(posted).request.context
         p == IF Head(posted).code = "unknown_session" THEN WithoutSession(prediction[c])
              ELSE prediction[c]
     IN  Handled(c, FallBack(c, p, buffer[c], phrases))

-----------------------------------------------------------------------------
UserAction(c) ==
  \/ Attach(c) \/ TypeSymbol(c) \/ CompleteReading(c) \/ SettleMixedPath(c)
  \/ RemoveSegment(c) \/ DeleteNothing(c) \/ InsertLiteral(c) \/ MoveCaret(c) \/ SelectCandidate(c)
  \/ CancelSelection(c) \/ StorePhrase(c) \/ Commit(c) \/ Reset(c) \/ Detach(c)

Serve == ServeFails \/ ServeOpen \/ ServePredict \/ ServeClose

Deliver ==
  IgnoreReply \/ SessionOpened \/ OpenFailed \/ PredictionArrived \/ PredictionFailed

Next ==
  \/ \E c \in Contexts : UserAction(c)
  \/ SetConfig \/ SetTransportOptions
  \/ Serve \/ ForgetSessions \/ Deliver

\* The worker thread drains its queue and the host runs what was posted to it;
\* nothing makes the user type.  Serve and Deliver are the steps that shorten
\* the two queues, and one of their disjuncts is enabled whenever there is
\* something to take, so fairness is stated on the queues themselves.
TakesRequest == queue # <<>> /\ queue' = Tail(queue)
TakesResponse == posted # <<>> /\ posted' = Tail(posted)
Fairness == WF_queue(TakesRequest) /\ WF_posted(TakesResponse)

Spec == Init /\ [][Next]_vars /\ Fairness

-----------------------------------------------------------------------------
(* Properties *)

PaddingEntry == [reading : Readings \cup {NoReading}, chosen : BOOLEAN]

Message ==
  [kind : {"open"}, context : Contexts, generation : Nat]
  \cup [kind : {"predict"}, context : Contexts, generation : Nat, session_id : Nat,
        request_id : Nat, buffer_revision : Nat,
        padding : Seq(PaddingEntry)]
  \cup [kind : {"close"}, session_id : Nat]

Response ==
  [request : Message, code : {"ok", "failed", "unknown_session", "out_of_order"}, session_id : Nat]

PredictionState ==
  [session_id : Nat, next_request_id : Nat \ {0}, generation : Nat,
   inflight_request_id : Nat, inflight_revision : Nat,
   key : Seq(Readings \cup {NoReading}), revision : Nat,
   segment_indices : Seq(Nat), pending : BOOLEAN, dirty : BOOLEAN]

\* Every variable keeps the type its C++ counterpart has.
TypeOK ==
  /\ attached \in [Contexts -> {"new", "live", "gone"}]
  /\ buffer \in [Contexts -> CompositionBuffer]
  /\ prediction \in [Contexts -> PredictionState]
  /\ phrases \subseteq Phrases
  /\ queue \in Seq(Message)
  /\ posted \in Seq(Response)
  /\ sessions_opened \in Nat
  /\ DOMAIN service \subseteq 1..sessions_opened
  /\ \A sid \in DOMAIN service : service[sid] \in Nat

\* No segment ever shows candidates of another reading: an answer that comes
\* back after the composition changed is not applied to the segments that have
\* taken the requested ones' places (matches_composition, apply_prediction).
SegmentsMatch(b) == \A i \in DOMAIN b.segments : b.segments[i].of = b.segments[i].reading

CandidatesMatchReading == \A c \in Live : SegmentsMatch(buffer[c])

\* Requests that are queued, and those whose answer the main loop has yet to see.
Messages == {queue[k] : k \in DOMAIN queue} \cup {posted[k].request : k \in DOMAIN posted}

\* Why CandidatesMatchReading holds: a prediction request was built from its
\* context's buffer at the revision it carries or at a later one, so that it
\* describes the buffer while the revisions agree ...
RequestDescribes(m, b) ==
  /\ m.buffer_revision <= b.revision
  /\ m.buffer_revision = b.revision => m.padding = padding(b)

\* ... and so do the indices that PredictionState keeps of it.
StateDescribes(p, b) ==
  /\ p.pending => p.revision <= b.revision
  /\ p.pending /\ p.revision = b.revision => p.segment_indices = completed_segment_indices(b)
  /\ p.inflight_request_id # None => p.pending /\ p.inflight_revision = p.revision

\* Contexts that are gone are forgotten; their requests may still be on the way.
Known(c) == attached[c] # "gone"

RequestsFollowRevisions ==
  /\ \A c \in Contexts : Known(c) =>
       SegmentsMatch(buffer[c]) /\ StateDescribes(prediction[c], buffer[c])
  /\ \A m \in Messages :
       m.kind = "predict" /\ Known(m.context) => RequestDescribes(m, buffer[m.context])

\* The prediction request that context c is waiting for, once it was sent.
InFlight(c) ==
  {m \in Messages :
     /\ m.kind = "predict" /\ m.context = c
     /\ m.request_id = prediction[c].inflight_request_id}

\* What the user typed or picked after the request was built is asked for again:
\* a request in flight that lacks a reading or an explicit choice is dirty
\* (mark_dirty in the key handlers, begin() for a selection).
EditsAreRepeated ==
  \A c \in Live : \A m \in InFlight(c) :
    LET b == buffer[c]
        indices == completed_segment_indices(b)
        SameReadings == /\ Len(m.padding) = Len(indices)
                        /\ \A k \in DOMAIN indices :
                             m.padding[k].reading = b.segments[indices[k]].reading
        KnowsChoices == \A k \in DOMAIN indices :
                          b.segments[indices[k]].choice = "manual" => m.padding[k].chosen
    IN  prediction[c].pending /\ ~prediction[c].dirty => SameReadings /\ KnowsChoices

\* When the answer to a dirty request is in, the repetition starts with it: the
\* request is pending again unless nothing is left to ask for (finish()).
DirtyIsRepeated ==
  [][\A c \in Live :
       TakesResponse /\ prediction[c].dirty /\ ~prediction'[c].pending
         => completed_segment_indices(buffer'[c]) = <<>>]_vars

\* The message whose answer context c is waiting for: the open request until a
\* session is there, then the prediction request of that session.
Awaited(c, m) ==
  LET p == prediction[c]
  IN  /\ m.kind # "close" /\ m.context = c /\ m.generation = p.generation
      /\ IF p.inflight_request_id = None THEN m.kind = "open" /\ ~session_open(p)
         ELSE /\ m.kind = "predict" /\ m.request_id = p.inflight_request_id
              /\ m.session_id = p.session_id /\ m.buffer_revision = p.inflight_revision

\* A context that waits for candidates is never forgotten: its request is still
\* queued or its answer is on its way to the main loop, whatever commits,
\* resets and service restarts happened in between.
PendingHasAnswer ==
  \A c \in Live : prediction[c].pending =>
    \/ \E k \in DOMAIN queue : Awaited(c, queue[k])
    \/ \E k \in DOMAIN posted : Awaited(c, posted[k].request)

\* The service gets requests as it expects them: request ids of a session reach
\* it in increasing order although next_request_id outlives the session
\* (OutOfOrderRequest in SessionManager::predict), and no prediction follows the
\* Close of its session, whichever order the contexts of a configuration change
\* are closed in.
SessionsUsedAsExpected ==
  /\ \A k \in DOMAIN posted : posted[k].code # "out_of_order"
  /\ \A i, j \in DOMAIN queue :
       i < j /\ queue[i].kind = "close" /\ queue[j].kind = "predict"
         => queue[i].session_id # queue[j].session_id

\* Only the awaited answer finishes or advances a request: correlates(Error)
\* accepts any error while no request id is in flight, so the generation and
\* the order of answers have to keep old errors away.
AnsweredByItsOwnReply ==
  [][\A c \in Live :
       TakesResponse /\ prediction'[c] # prediction[c]
         => Awaited(c, Head(posted).request)]_vars

Waiting(c) == attached[c] = "live" /\ prediction[c].pending

\* Every request is answered: waiting ends although the service may fail,
\* forget sessions or be replaced in between.  Only a user who makes each
\* repetition dirty again, without end, can keep a context waiting.
Answered ==
  \A c \in Contexts :
    <>[](Waiting(c) => ~prediction[c].dirty) => (Waiting(c) ~> ~Waiting(c))

\* prediction_state.hpp says dirty "marks that the buffer changed while a
\* request was in flight", and that finish() then asks for a fresh request.
ChangedMeansDirty ==
  \A c \in Live :
    prediction[c].pending /\ prediction[c].revision # buffer[c].revision
      => prediction[c].dirty

=============================================================================
