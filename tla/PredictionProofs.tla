-------------------------- MODULE PredictionProofs --------------------------
(***************************************************************************)
(* Proofs about Prediction, for every set of contexts, readings and stored *)
(* phrases and every bound.  The operators that decide which segments a    *)
(* stored phrase covers stay unexpanded: nothing below depends on them.    *)
(***************************************************************************)
EXTENDS Prediction, PositionsProofs

-----------------------------------------------------------------------------
(* Sequences *)

\* The elements of a concatenation and of a tail.
LEMMA ConcatElements ==
  ASSUME NEW S, NEW s1 \in Seq(S), NEW s2 \in Seq(S), NEW k \in DOMAIN (s1 \o s2)
  PROVE  (\E j \in DOMAIN s1 : (s1 \o s2)[k] = s1[j]) \/ (\E j \in DOMAIN s2 : (s1 \o s2)[k] = s2[j])
<1>1. k \in 1..(Len(s1) + Len(s2)) /\ Len(s1) \in Nat /\ Len(s2) \in Nat
  BY ConcatProperties, LenProperties
<1>2. CASE k <= Len(s1)
  <2>1. k \in DOMAIN s1 /\ (s1 \o s2)[k] = s1[k]
    BY <1>1, <1>2, ConcatProperties, LenProperties
  <2> QED
    BY <2>1
<1>3. CASE ~(k <= Len(s1))
  <2>1. k - Len(s1) \in DOMAIN s2 /\ (s1 \o s2)[k] = s2[k - Len(s1)]
    BY <1>1, <1>3, ConcatProperties, LenProperties
  <2> QED
    BY <2>1
<1> QED
  BY <1>2, <1>3

\* The rest of a sequence has no other elements.
LEMMA TailElements ==
  ASSUME NEW S, NEW s \in Seq(S), s # <<>>, NEW k \in DOMAIN Tail(s)
  PROVE  k + 1 \in DOMAIN s /\ Tail(s)[k] = s[k + 1]
BY HeadTailProperties, LenProperties

\* Inserting or removing an element keeps a sequence a sequence.
LEMMA InsertAtType ==
  ASSUME NEW S, NEW s \in Seq(S), NEW i \in 1..(Len(s) + 1), NEW e \in S
  PROVE  InsertAt(s, i, e) \in Seq(S)
<1>1. SubSeq(s, 1, i - 1) \in Seq(S)
  BY SubSeqProperties
<1>2. SubSeq(s, i, Len(s)) \in Seq(S)
  BY SubSeqProperties
<1>3. <<e>> \in Seq(S)
  OBVIOUS
<1> QED
  BY <1>1, <1>2, <1>3, ConcatProperties DEF InsertAt

\* Removing an element keeps the element type.
LEMMA RemoveAtType ==
  ASSUME NEW S, NEW s \in Seq(S), NEW i \in 1..Len(s)
  PROVE  RemoveAt(s, i) \in Seq(S)
<1>1. SubSeq(s, 1, i - 1) \in Seq(S)
  BY SubSeqProperties
<1>2. SubSeq(s, i + 1, Len(s)) \in Seq(S)
  BY SubSeqProperties
<1> QED
  BY <1>1, <1>2, ConcatProperties DEF RemoveAt

\* A property of all elements survives insertion, removal and concatenation.
LEMMA ElementsInsertRemove ==
  ASSUME NEW S, NEW s \in Seq(S), NEW T, \A k \in DOMAIN s : s[k] \in T
  PROVE  /\ s \in Seq(T)
         /\ \A i \in 1..(Len(s) + 1), e \in T : InsertAt(s, i, e) \in Seq(T)
         /\ \A i \in 1..Len(s) : RemoveAt(s, i) \in Seq(T)
<1>1. s \in Seq(T)
  OBVIOUS
<1> QED
  BY <1>1, InsertAtType, RemoveAtType

\* PositionsOf yields positions of its sequence.
LEMMA PositionsOfType ==
  ASSUME NEW S, NEW s \in Seq(S), NEW kinds
  PROVE  PositionsOf(s, kinds) \in Seq(1..Len(s))
BY AscendingType, LenProperties DEF PositionsOf

-----------------------------------------------------------------------------
(* What the operators return *)

Result == [buffer : CompositionBuffer, prediction : PredictionState, requests : Seq(Message)]

\* Every segment the handlers build, and every change they make to one, is a segment.
LEMMA SegmentTypes ==
  /\ Partial \in Segment /\ Literal \in Segment
  /\ \A r \in Readings, choice \in {"auto", "manual", "pinned"} : Complete(r, choice) \in Segment
  /\ \A s \in Segment, choice \in {"auto", "manual", "pinned"} :
       [s EXCEPT !.choice = choice] \in Segment
  /\ \A s \in Segment, r \in Readings \cup {NoReading} : [s EXCEPT !.of = r] \in Segment
  /\ \A s \in Segment : s.reading \in Readings \cup {NoReading}
BY DEF Segment, Partial, Literal, Complete

\* The empty buffer and a touched one are buffers.
LEMMA BufferTypes ==
  /\ EmptyBuffer \in CompositionBuffer
  /\ \A b \in CompositionBuffer : \A segs \in Seq(Segment) : Touched(b, segs) \in CompositionBuffer
  /\ \A b \in CompositionBuffer : clear(b) \in CompositionBuffer
BY EmptySeq DEF CompositionBuffer, EmptyBuffer, Touched, clear

\* A sequence built position by position from the segments of a buffer.
LEMMA SegmentMap ==
  ASSUME NEW b \in CompositionBuffer, NEW f \in [1..Len(b.segments) -> Segment]
  PROVE  Touched(b, f) \in CompositionBuffer
<1>1. Len(b.segments) \in Nat
  BY DEF CompositionBuffer
<1>2. f \in Seq(Segment)
  BY <1>1, FunctionIsSeq
<1> QED
  BY <1>2, BufferTypes

\* Pinning phrases keeps the length of the composition and its type.
LEMMA PhraseOverrideType ==
  ASSUME NEW b \in CompositionBuffer, NEW stored
  PROVE  apply_phrase_override(b, stored) \in CompositionBuffer
<1> DEFINE released == Released(b.segments, stored)
           unpinned == [i \in 1..Len(b.segments) |->
                          IF i \in released THEN [b.segments[i] EXCEPT !.choice = "auto"]
                          ELSE b.segments[i]]
           covered == Covered(unpinned, stored)
           pinned == [i \in 1..Len(b.segments) |->
                        IF i \in covered THEN [unpinned[i] EXCEPT !.choice = "pinned"]
                        ELSE unpinned[i]]
<1> HIDE DEF released, covered
<1>1. \A i \in 1..Len(b.segments) : b.segments[i] \in Segment
  BY DEF CompositionBuffer
<1>2. unpinned \in [1..Len(b.segments) -> Segment]
  <2>1. \A i \in 1..Len(b.segments) : [b.segments[i] EXCEPT !.choice = "auto"] \in Segment
    BY <1>1, SegmentTypes
  <2> QED
    BY <1>1, <2>1
<1>3. pinned \in [1..Len(b.segments) -> Segment]
  BY <1>2, SegmentTypes
<1>4. Touched(b, pinned) \in CompositionBuffer
  BY <1>3, SegmentMap
<1> QED
  BY <1>4 DEF apply_phrase_override, released, covered

\* Table candidates keep the composition's type.
LEMMA FallbackType ==
  ASSUME NEW b \in CompositionBuffer, NEW indices
  PROVE  apply_fallback_candidates(b, indices) \in CompositionBuffer
<1> DEFINE refreshed == {i \in 1..Len(b.segments) :
                           /\ \E k \in DOMAIN indices : indices[k] = i
                           /\ Usable(b.segments[i])}
           new == [i \in 1..Len(b.segments) |->
                     IF i \in refreshed THEN [b.segments[i] EXCEPT !.of = b.segments[i].reading]
                     ELSE b.segments[i]]
<1>1. \A i \in 1..Len(b.segments) : b.segments[i] \in Segment
  BY DEF CompositionBuffer
<1> HIDE DEF refreshed
<1>2. new \in [1..Len(b.segments) -> Segment]
  <2>1. \A i \in 1..Len(b.segments) :
          [b.segments[i] EXCEPT !.of = b.segments[i].reading] \in Segment
    BY <1>1, SegmentTypes
  <2> QED
    BY <1>1, <2>1
<1>3. Touched(b, new) \in CompositionBuffer
  BY <1>2, SegmentMap
<1> QED
  BY <1>3 DEF apply_fallback_candidates, refreshed

\* An answer keeps the composition's type.
LEMMA ApplyPredictionType ==
  ASSUME NEW b \in CompositionBuffer, NEW indices \in Seq(Nat),
         NEW candidates \in Seq(PaddingEntry),
         Len(candidates) = Len(indices)
  PROVE  apply_prediction(b, indices, candidates) \in CompositionBuffer
<1> DEFINE refreshed == {i \in 1..Len(b.segments) :
                           /\ \E k \in DOMAIN indices : indices[k] = i
                           /\ b.segments[i].choice # "manual"}
           Given(i) == candidates[CHOOSE k \in DOMAIN indices : indices[k] = i].reading
           new == [i \in 1..Len(b.segments) |->
                     IF i \in refreshed THEN [b.segments[i] EXCEPT !.of = Given(i)]
                     ELSE b.segments[i]]
<1>1. \A i \in 1..Len(b.segments) : b.segments[i] \in Segment
  BY DEF CompositionBuffer
<1>2. ASSUME NEW i \in refreshed PROVE Given(i) \in Readings \cup {NoReading}
  <2>1. (CHOOSE k \in DOMAIN indices : indices[k] = i) \in DOMAIN indices
    BY <1>2
  <2>2. DOMAIN indices = DOMAIN candidates
    OBVIOUS
  <2>3. \A k \in DOMAIN candidates : candidates[k] \in PaddingEntry
    OBVIOUS
  <2> QED
    BY <2>1, <2>2, <2>3 DEF PaddingEntry
<1> HIDE DEF refreshed, Given
<1>3. new \in [1..Len(b.segments) -> Segment]
  <2>1. \A i \in refreshed : [b.segments[i] EXCEPT !.of = Given(i)] \in Segment
    BY <1>1, <1>2, SegmentTypes DEF refreshed
  <2> QED
    BY <1>1, <2>1
<1>4. Touched(b, new) \in CompositionBuffer
  BY <1>3, SegmentMap
<1> QED
  BY <1>4 DEF apply_prediction, refreshed, Given

\* Each method of PredictionState returns a PredictionState.
LEMMA StateTypes ==
  /\ InitialPrediction \in PredictionState
  /\ \A p \in PredictionState :
       /\ mark_dirty(p) \in PredictionState
       /\ clear_pending(p) \in PredictionState
       /\ invalidate(p) \in PredictionState
       /\ WithoutSession(p) \in PredictionState
       /\ \A sid \in Nat : [p EXCEPT !.session_id = sid] \in PredictionState
<1>1. InitialPrediction \in PredictionState
  BY EmptySeq DEF InitialPrediction, PredictionState, None
<1>2. ASSUME NEW p \in PredictionState
      PROVE  /\ mark_dirty(p) \in PredictionState
             /\ WithoutSession(p) \in PredictionState
             /\ \A sid \in Nat : [p EXCEPT !.session_id = sid] \in PredictionState
  BY DEF PredictionState, mark_dirty, WithoutSession, None
<1>3. ASSUME NEW p \in PredictionState PROVE clear_pending(p) \in PredictionState
  BY EmptySeq DEF PredictionState, clear_pending, None
<1>4. ASSUME NEW p \in PredictionState PROVE invalidate(p) \in PredictionState
  <2>1. \A n \in Nat : [p EXCEPT !.generation = n] \in PredictionState
    BY DEF PredictionState
  <2>2. p.generation + 1 \in Nat
    BY DEF PredictionState
  <2> QED
    BY <1>3, <2>1, <2>2 DEF invalidate
<1> QED
  BY <1>1, <1>2, <1>3, <1>4

\* A cleared request is neither pending nor in flight.
LEMMA ClearedState ==
  ASSUME NEW p \in PredictionState
  PROVE  \A q \in {clear_pending(p), invalidate(p), SettledPrediction(p), RestartedPrediction(p)} :
           ~q.pending /\ q.inflight_request_id = None /\ q \in PredictionState
<1>1. \A q \in PredictionState :
        ~clear_pending(q).pending /\ clear_pending(q).inflight_request_id = None
  BY DEF clear_pending, PredictionState
<1>2. [p EXCEPT !.generation = @ + 1] \in PredictionState
  <2>1. \A n \in Nat : [p EXCEPT !.generation = n] \in PredictionState
    BY DEF PredictionState
  <2>2. p.generation + 1 \in Nat
    BY DEF PredictionState
  <2> QED
    BY <2>1, <2>2
<1>3. ~invalidate(p).pending /\ invalidate(p).inflight_request_id = None
  BY <1>1, <1>2 DEF invalidate
<1>4. \A q \in PredictionState : /\ WithoutSession(q).pending = q.pending
                                /\ WithoutSession(q).inflight_request_id = q.inflight_request_id
  BY DEF WithoutSession, PredictionState
<1> QED
  BY <1>1, <1>3, <1>4, StateTypes DEF SettledPrediction, RestartedPrediction

\* What a request carries is well typed.
LEMMA CompositionTypes ==
  ASSUME NEW b \in CompositionBuffer
  PROVE  /\ completed_segment_indices(b) \in Seq(Nat)
         /\ completed_segment_indices(b) \in Seq(1..Len(b.segments))
         /\ raw_composition(b) \in Seq(Readings \cup {NoReading})
         /\ padding(b) \in Seq(PaddingEntry)
         /\ Len(padding(b)) = Len(completed_segment_indices(b))
<1>1. b.segments \in Seq(Segment) /\ \A i \in 1..Len(b.segments) : b.segments[i] \in Segment
  BY DEF CompositionBuffer
<1>2. completed_segment_indices(b) \in Seq(1..Len(b.segments))
  BY <1>1, PositionsOfType DEF completed_segment_indices
<1>3. completed_segment_indices(b) \in Seq(Nat)
  BY <1>2, SeqMonotonic
<1>4. raw_composition(b) \in Seq(Readings \cup {NoReading})
  <2> DEFINE spelled == PositionsOf(b.segments, {"partial", "complete"})
             text == [k \in DOMAIN spelled |-> b.segments[spelled[k]].reading]
  <2>1. spelled \in Seq(1..Len(b.segments))
    BY <1>1, PositionsOfType
  <2> HIDE DEF spelled
  <2>2. \A k \in DOMAIN spelled : b.segments[spelled[k]] \in Segment
    BY <1>1, <2>1
  <2>3. \A k \in DOMAIN spelled : b.segments[spelled[k]].reading \in Readings \cup {NoReading}
    BY <2>2, SegmentTypes
  <2>4. Len(spelled) \in Nat /\ DOMAIN spelled = 1..Len(spelled)
    BY <2>1
  <2>5. text \in [1..Len(spelled) -> Readings \cup {NoReading}]
    BY <2>3, <2>4
  <2>6. text \in Seq(Readings \cup {NoReading})
    BY <2>4, <2>5, FunctionIsSeq
  <2> QED
    BY <2>6 DEF raw_composition, spelled
<1>5. padding(b) \in Seq(PaddingEntry) /\ Len(padding(b)) = Len(completed_segment_indices(b))
  <2> DEFINE indices == completed_segment_indices(b)
             entry(k) == [reading |-> b.segments[indices[k]].reading,
                          chosen  |-> b.segments[indices[k]].choice # "auto"]
  <2> HIDE DEF indices
  <2>1. indices \in Seq(1..Len(b.segments))
    BY <1>2 DEF indices
  <2>2. \A k \in DOMAIN indices : b.segments[indices[k]] \in Segment
    BY <1>1, <2>1
  <2>3. \A k \in DOMAIN indices : entry(k) \in PaddingEntry
    BY <2>2, SegmentTypes DEF PaddingEntry
  <2>4. Len(indices) \in Nat /\ DOMAIN indices = 1..Len(indices)
    BY <2>1
  <2>5. [k \in DOMAIN indices |-> entry(k)] \in [1..Len(indices) -> PaddingEntry]
    BY <2>3, <2>4
  <2>6. /\ [k \in DOMAIN indices |-> entry(k)] \in Seq(PaddingEntry)
        /\ Len([k \in DOMAIN indices |-> entry(k)]) = Len(indices)
    BY <2>4, <2>5, FunctionIsSeq
  <2> QED
    BY <2>6 DEF padding, indices
<1> QED
  BY <1>2, <1>3, <1>4, <1>5

\* begin() returns a PredictionState.
LEMMA BeginType ==
  ASSUME NEW p \in PredictionState, NEW b \in CompositionBuffer
  PROVE  begin(p, b) \in PredictionState
<1>1. b.revision \in Nat
  BY DEF CompositionBuffer
<1> QED
  BY <1>1, CompositionTypes DEF begin, PredictionState

\* send_prediction() returns a well-typed result.
LEMMA SendType ==
  ASSUME NEW c \in Contexts, NEW p \in PredictionState, NEW b \in CompositionBuffer
  PROVE  send_prediction(c, p, b) \in Result
<1>1. PredictRequest(c, p, b) \in Message
  BY CompositionTypes DEF PredictRequest, Message, PredictionState
<1>2. [p EXCEPT !.next_request_id = @ + 1, !.inflight_request_id = p.next_request_id,
                !.inflight_revision = p.revision] \in PredictionState
  <2>1. p.next_request_id + 1 \in Nat \ {0} /\ p.next_request_id \in Nat /\ p.revision \in Nat
    BY DEF PredictionState
  <2>2. \A n \in Nat \ {0}, i \in Nat, r \in Nat :
          [p EXCEPT !.next_request_id = n, !.inflight_request_id = i, !.inflight_revision = r]
            \in PredictionState
    BY DEF PredictionState
  <2> QED
    BY <2>1, <2>2
<1> QED
  BY <1>1, <1>2 DEF send_prediction, Result

\* request_prediction() returns a well-typed result.
LEMMA RequestType ==
  ASSUME NEW c \in Contexts, NEW p \in PredictionState, NEW b \in CompositionBuffer, NEW stored
  PROVE  request_prediction(c, p, b, stored) \in Result
<1> DEFINE b1 == apply_phrase_override(b, stored)
           p1 == begin(p, b1)
<1>1. b1 \in CompositionBuffer
  BY PhraseOverrideType
<1> HIDE DEF b1
<1>2. p1 \in PredictionState
  BY <1>1, BeginType
<1> HIDE DEF p1
<1>3. send_prediction(c, p1, b1) \in Result
  BY <1>1, <1>2, SendType
<1>4. OpenRequest(c, p1) \in Message
  BY <1>2 DEF OpenRequest, Message, PredictionState
<1>5. [buffer |-> b1, prediction |-> p1, requests |-> <<>>] \in Result
  BY <1>1, <1>2, EmptySeq DEF Result
<1>6. [buffer |-> b1, prediction |-> p1, requests |-> <<OpenRequest(c, p1)>>] \in Result
  BY <1>1, <1>2, <1>4 DEF Result
<1> QED
  BY <1>3, <1>5, <1>6 DEF request_prediction, b1, p1

\* finish() and the request it may repeat are well typed.
LEMMA FinishType ==
  ASSUME NEW c \in Contexts, NEW p \in PredictionState, NEW b \in CompositionBuffer, NEW stored
  PROVE  Finish(c, p, b, stored) \in Result
<1>1. clear_pending(p) \in PredictionState
  BY StateTypes
<1>2. request_prediction(c, clear_pending(p), b, stored) \in Result
  BY <1>1, RequestType
<1>3. [buffer |-> b, prediction |-> clear_pending(p), requests |-> <<>>] \in Result
  BY <1>1, EmptySeq DEF Result
<1> QED
  BY <1>2, <1>3 DEF Finish

\* Falling back to the table is well typed.
LEMMA FallBackType ==
  ASSUME NEW c \in Contexts, NEW p \in PredictionState, NEW b \in CompositionBuffer, NEW stored
  PROVE  FallBack(c, p, b, stored) \in Result
BY FallbackType, PhraseOverrideType, FinishType DEF FallBack

-----------------------------------------------------------------------------
(* The type invariant *)

\* Storing a result in a context keeps the types.
LEMMA ApplyType ==
  ASSUME TypeOK, NEW c \in Contexts, NEW r \in Result, Apply(c, r),
         attached' \in [Contexts -> {"new", "live", "gone"}], phrases' \subseteq Phrases
  PROVE  TypeOK'
<1>1. queue' \in Seq(Message)
  BY ConcatProperties DEF TypeOK, Apply, Result
<1>2. buffer' \in [Contexts -> CompositionBuffer] /\ prediction' \in [Contexts -> PredictionState]
  BY DEF TypeOK, Apply, Result
<1> QED
  BY <1>1, <1>2 DEF TypeOK, Apply

\* Handling a posted response keeps the types.
LEMMA HandledType ==
  ASSUME TypeOK, posted # <<>>, NEW c \in Contexts, NEW r \in Result, Handled(c, r)
  PROVE  TypeOK'
<1>1. queue' \in Seq(Message)
  BY ConcatProperties DEF TypeOK, Handled, Result
<1>2. buffer' \in [Contexts -> CompositionBuffer] /\ prediction' \in [Contexts -> PredictionState]
  BY DEF TypeOK, Handled, Result
<1>3. posted' \in Seq(Response)
  BY HeadTailProperties DEF TypeOK, Handled
<1> QED
  BY <1>1, <1>2, <1>3 DEF TypeOK, Handled

\* An edit without a request keeps the types.
LEMMA EditType ==
  ASSUME TypeOK, NEW c \in Contexts, NEW segs \in Seq(Segment), NEW p \in PredictionState,
         UNCHANGED <<attached, phrases>>,
         Edit(c, segs, p) \/ EditAndRequest(c, segs, p)
  PROVE  TypeOK'
<1>1. Touched(buffer[c], segs) \in CompositionBuffer
  BY BufferTypes DEF TypeOK
<1>2. [buffer |-> Touched(buffer[c], segs), prediction |-> p, requests |-> <<>>] \in Result
  BY <1>1, EmptySeq DEF Result
<1>3. request_prediction(c, p, Touched(buffer[c], segs), phrases) \in Result
  BY <1>1, RequestType
<1>4. attached' \in [Contexts -> {"new", "live", "gone"}] /\ phrases' \subseteq Phrases
  BY DEF TypeOK
<1> QED
  BY <1>2, <1>3, <1>4, ApplyType DEF Edit, EditAndRequest

\* The request that closes a session is a message.
LEMMA ClosingType ==
  ASSUME NEW p \in PredictionState
  PROVE  CloseRequest(p) \in Message /\ Closing(p) \in Seq(Message)
<1>1. p.session_id \in Nat
  BY DEF PredictionState
<1>2. CloseRequest(p) \in Message
  BY <1>1 DEF CloseRequest, Message
<1> QED
  BY <1>2, EmptySeq DEF Closing

\* What an edit of the buffer of c starts from.
LEMMA EditBase ==
  ASSUME TypeOK, NEW c \in Contexts
  PROVE  /\ buffer[c] \in CompositionBuffer
         /\ buffer[c].segments \in Seq(Segment)
         /\ Len(buffer[c].segments) \in Nat
         /\ prediction[c] \in PredictionState
         /\ mark_dirty(prediction[c]) \in PredictionState
BY StateTypes DEF TypeOK, CompositionBuffer

\* Every action of the user keeps the types.
LEMMA UserActionType ==
  ASSUME TypeOK, NEW c \in Contexts, UserAction(c)
  PROVE  TypeOK'
<1> USE DEF Positions
<1>1. CASE Attach(c)
  BY <1>1 DEF Attach, TypeOK
<1>2. CASE TypeSymbol(c)
  <2>1. \A i \in 1..(Len(buffer[c].segments) + 1) :
          InsertAt(buffer[c].segments, i, Partial) \in Seq(Segment)
    BY EditBase, InsertAtType, SegmentTypes
  <2> QED
    BY <1>2, <2>1, EditBase, EditType DEF TypeSymbol
<1>3. CASE CompleteReading(c)
  <2>1. PICK i \in Positions(c), r \in Readings :
          EditAndRequest(c, [buffer[c].segments EXCEPT ![i] = Complete(r, "auto")],
                         mark_dirty(prediction[c]))
    BY <1>3 DEF CompleteReading
  <2>2. [buffer[c].segments EXCEPT ![i] = Complete(r, "auto")] \in Seq(Segment)
    BY EditBase, ExceptSeq, SegmentTypes
  <2> QED
    BY <1>3, <2>1, <2>2, EditBase, EditType DEF CompleteReading
<1>4. CASE SettleMixedPath(c)
  <2>1. PICK n \in 1..(MaxSegments - Len(buffer[c].segments)) :
          \E path \in [1..n -> {Literal} \cup {Complete(r, "manual") : r \in Readings}] :
            EditAndRequest(c, buffer[c].segments \o path, mark_dirty(prediction[c]))
    BY <1>4 DEF SettleMixedPath
  <2>2. PICK path \in [1..n -> {Literal} \cup {Complete(r, "manual") : r \in Readings}] :
          EditAndRequest(c, buffer[c].segments \o path, mark_dirty(prediction[c]))
    BY <2>1
  <2>3. path \in [1..n -> Segment]
    BY SegmentTypes
  <2>4. n \in Nat
    BY EditBase, PredictionAssumption
  <2>5. path \in Seq(Segment)
    BY <2>3, <2>4, FunctionIsSeq
  <2>6. buffer[c].segments \o path \in Seq(Segment)
    BY <2>5, EditBase, ConcatProperties
  <2> QED
    BY <1>4, <2>2, <2>6, EditBase, EditType DEF SettleMixedPath
<1>5. CASE RemoveSegment(c)
  <2>1. \A i \in Positions(c) : RemoveAt(buffer[c].segments, i) \in Seq(Segment)
    BY EditBase, RemoveAtType
  <2> QED
    BY <1>5, <2>1, EditBase, EditType DEF RemoveSegment
<1>6. CASE DeleteNothing(c)
  <2>1. [buffer |-> buffer[c], prediction |-> mark_dirty(prediction[c]), requests |-> <<>>] \in Result
    BY EditBase, EmptySeq DEF Result
  <2>2. attached' \in [Contexts -> {"new", "live", "gone"}] /\ phrases' \subseteq Phrases
    BY <1>6 DEF DeleteNothing, TypeOK
  <2> QED
    BY <1>6, <2>1, <2>2, ApplyType DEF DeleteNothing
<1>7. CASE InsertLiteral(c)
  <2>1. \A i \in 1..(Len(buffer[c].segments) + 1) :
          InsertAt(buffer[c].segments, i, Literal) \in Seq(Segment)
    BY EditBase, InsertAtType, SegmentTypes
  <2> QED
    BY <1>7, <2>1, EditBase, EditType DEF InsertLiteral
<1>8. CASE MoveCaret(c)
  BY <1>8, EditBase, EditType DEF MoveCaret
<1>9. CASE SelectCandidate(c) \/ CancelSelection(c)
  <2>1. PICK i \in Positions(c), choice \in {"auto", "manual"} :
          EditAndRequest(c, [buffer[c].segments EXCEPT ![i].choice = choice], prediction[c])
    BY <1>9 DEF SelectCandidate, CancelSelection
  <2>2. [buffer[c].segments[i] EXCEPT !.choice = choice] \in Segment
    BY EditBase, ElementOfSeq, SegmentTypes
  <2>3. [buffer[c].segments EXCEPT ![i].choice = choice] \in Seq(Segment)
    BY <2>2, EditBase, ExceptSeq
  <2> QED
    BY <1>9, <2>1, <2>3, EditBase, EditType DEF SelectCandidate, CancelSelection
<1>10. CASE StorePhrase(c)
  <2>1. /\ phrases' \subseteq Phrases
        /\ Apply(c, [buffer |-> apply_phrase_override(
                                  Touched(buffer[c], buffer[c].segments), phrases'),
                     prediction |-> prediction[c], requests |-> <<>>])
    BY <1>10 DEF StorePhrase, TypeOK
  <2>2. [buffer |-> apply_phrase_override(Touched(buffer[c], buffer[c].segments), phrases'),
         prediction |-> prediction[c], requests |-> <<>>] \in Result
    BY EditBase, BufferTypes, PhraseOverrideType, EmptySeq DEF Result
  <2>3. attached' \in [Contexts -> {"new", "live", "gone"}]
    BY <1>10 DEF StorePhrase, TypeOK
  <2> QED
    BY <2>1, <2>2, <2>3, ApplyType
<1>11. CASE Commit(c) \/ Reset(c)
  <2>1. PICK p \in {clear_pending(prediction[c]), invalidate(prediction[c])} :
          Apply(c, [buffer |-> clear(buffer[c]), prediction |-> p, requests |-> <<>>])
    BY <1>11 DEF Commit, Reset
  <2>2. [buffer |-> clear(buffer[c]), prediction |-> p, requests |-> <<>>] \in Result
    BY EditBase, BufferTypes, StateTypes, EmptySeq DEF Result
  <2>3. attached' \in [Contexts -> {"new", "live", "gone"}] /\ phrases' \subseteq Phrases
    BY <1>11 DEF Commit, Reset, TypeOK
  <2> QED
    BY <2>1, <2>2, <2>3, ApplyType
<1>12. CASE Detach(c)
  <2>1. Closing(prediction[c]) \in Seq(Message)
    BY EditBase, ClosingType
  <2>2. [buffer |-> EmptyBuffer, prediction |-> InitialPrediction,
         requests |-> Closing(prediction[c])] \in Result
    BY <2>1, BufferTypes, StateTypes DEF Result
  <2>3. attached' \in [Contexts -> {"new", "live", "gone"}] /\ phrases' \subseteq Phrases
    BY <1>12 DEF Detach, TypeOK
  <2> QED
    BY <1>12, <2>2, <2>3, ApplyType DEF Detach
<1> QED
  BY <1>1, <1>2, <1>3, <1>4, <1>5, <1>6, <1>7, <1>8, <1>9, <1>10, <1>11, <1>12 DEF UserAction

\* A change of the configuration keeps the types.
LEMMA SetConfigType ==
  ASSUME TypeOK, SetConfig
  PROVE  TypeOK'
<1>1. buffer' \in [Contexts -> CompositionBuffer]
  <2>1. PICK settled \in SUBSET {c \in Live : HasRoom(c)} :
          \E caret \in [settled -> 1..MaxSegments] :
            /\ \A c \in settled : caret[c] <= Len(buffer[c].segments) + 1
            /\ buffer' = [c \in Contexts |->
                            IF c \in settled
                            THEN Touched(buffer[c], InsertAt(buffer[c].segments, caret[c], Literal))
                            ELSE buffer[c]]
    BY DEF SetConfig
  <2>2. PICK caret \in [settled -> 1..MaxSegments] :
            /\ \A c \in settled : caret[c] <= Len(buffer[c].segments) + 1
            /\ buffer' = [c \in Contexts |->
                            IF c \in settled
                            THEN Touched(buffer[c], InsertAt(buffer[c].segments, caret[c], Literal))
                            ELSE buffer[c]]
    BY <2>1
  <2>3. ASSUME NEW c \in Contexts, c \in settled
        PROVE  Touched(buffer[c], InsertAt(buffer[c].segments, caret[c], Literal)) \in CompositionBuffer
    <3>1. caret[c] \in 1..(Len(buffer[c].segments) + 1)
      BY <2>2, <2>3, EditBase, PredictionAssumption
    <3> QED
      BY <3>1, EditBase, InsertAtType, SegmentTypes, BufferTypes
  <2> QED
    BY <2>2, <2>3, EditBase
<1>2. prediction' \in [Contexts -> PredictionState]
  BY StateTypes DEF SetConfig, SettledPrediction, TypeOK
<1>3. queue' \in Seq(Message)
  <2> DEFINE open == {c \in Live : session_open(prediction[c])}
  <2>1. PICK closes \in [1..Cardinality(open) -> {CloseRequest(prediction[c]) : c \in open}] :
          queue' = queue \o closes
    BY DEF SetConfig
  <2>2. IsFiniteSet(open)
    BY PredictionAssumption, FS_Subset DEF Live
  <2>3. Cardinality(open) \in Nat
    BY <2>2, FS_CardinalityType
  <2>4. {CloseRequest(prediction[c]) : c \in open} \subseteq Message
    BY ClosingType, EditBase DEF Live
  <2> HIDE DEF open
  <2>5. closes \in Seq(Message)
    BY <2>3, <2>4, FunctionIsSeq
  <2> QED
    BY <2>1, <2>5, ConcatProperties DEF TypeOK
<1> QED
  BY <1>1, <1>2, <1>3 DEF SetConfig, TypeOK

\* A reply to a message is a response.
LEMMA ReplyType ==
  ASSUME NEW m \in Message, NEW code \in {"ok", "failed", "unknown_session", "out_of_order"},
         NEW sid \in Nat
  PROVE  Reply(m, code, sid) \in Response
BY DEF Reply, Response

\* Every failure answers a request that was queued.
LEMMA FailuresType ==
  ASSUME NEW requests \in Seq(Message)
  PROVE  /\ Failures(requests) \in Seq(Response)
         /\ \A k \in DOMAIN Failures(requests) :
              \E i \in DOMAIN requests : Failures(requests)[k].request = requests[i]
<1> DEFINE asked == PositionsOf(requests, {"open", "predict"})
<1>1. asked \in Seq(1..Len(requests))
  BY PositionsOfType
<1> HIDE DEF asked
<1>2. Len(asked) \in Nat /\ DOMAIN asked = 1..Len(asked)
      /\ \A k \in 1..Len(asked) : asked[k] \in DOMAIN requests
  BY <1>1
<1>3. \A k \in 1..Len(asked) : Reply(requests[asked[k]], "failed", None) \in Response
  BY <1>2, ReplyType DEF None
<1>4. [k \in 1..Len(asked) |-> Reply(requests[asked[k]], "failed", None)] \in [1..Len(asked) -> Response]
  BY <1>3
<1>5. Failures(requests) = [k \in 1..Len(asked) |-> Reply(requests[asked[k]], "failed", None)]
  BY <1>2 DEF Failures, asked
<1>6. Failures(requests) \in Seq(Response)
  BY <1>2, <1>4, <1>5, FunctionIsSeq
<1>7. \A k \in 1..Len(asked) : Failures(requests)[k].request = requests[asked[k]]
  BY <1>5 DEF Reply
<1> QED
  BY <1>2, <1>5, <1>6, <1>7

\* A restart of the transport keeps the types.
LEMMA SetTransportOptionsType ==
  ASSUME TypeOK, SetTransportOptions
  PROVE  TypeOK'
<1>1. posted' \in Seq(Response)
  BY FailuresType, ConcatProperties DEF SetTransportOptions, TypeOK
<1>2. prediction' \in [Contexts -> PredictionState]
  BY StateTypes DEF SetTransportOptions, RestartedPrediction, TypeOK
<1>3. /\ DOMAIN service' \subseteq 1..sessions_opened'
      /\ \A sid \in DOMAIN service' : service'[sid] \in Nat
  <2>1. CASE service' = service
    BY <2>1 DEF SetTransportOptions, TypeOK
  <2>2. CASE service' = <<>>
    BY <2>2, EmptySeq
  <2> QED
    BY <2>1, <2>2 DEF SetTransportOptions
<1> QED
  BY <1>1, <1>2, <1>3, EmptySeq DEF SetTransportOptions, TypeOK

\* Every step of transport and service keeps the types.
LEMMA ServeType ==
  ASSUME TypeOK, Serve
  PROVE  TypeOK'
<1>1. queue # <<>> /\ Head(queue) \in Message /\ queue' \in Seq(Message)
  <2>1. queue # <<>> /\ queue' = Tail(queue)
    BY DEF Serve, ServeFails, ServeOpen, ServePredict, ServeClose, Answer
  <2> QED
    BY <2>1, HeadTailProperties DEF TypeOK
<1>2. ASSUME NEW code \in {"ok", "failed", "unknown_session", "out_of_order"}, NEW sid \in Nat,
             Answer(Reply(Head(queue), code, sid))
      PROVE  posted' \in Seq(Response)
  BY <1>1, <1>2, ReplyType, AppendProperties DEF Answer, TypeOK
<1>3. CASE ServeFails
  <2>1. posted' \in Seq(Response)
    BY <1>2, <1>3 DEF ServeFails, None
  <2> QED
    BY <1>1, <1>3, <2>1 DEF ServeFails, Answer, TypeOK
<1>4. CASE ServeOpen
  <2>1. sessions_opened' \in Nat /\ sessions_opened' = sessions_opened + 1
    BY <1>4 DEF ServeOpen, TypeOK
  <2>2. posted' \in Seq(Response)
    BY <1>2, <1>4, <2>1 DEF ServeOpen
  <2>3. /\ DOMAIN service' \subseteq 1..sessions_opened'
        /\ \A sid \in DOMAIN service' : service'[sid] \in Nat
    BY <1>4, <2>1 DEF ServeOpen, WithRequestId, TypeOK
  <2> QED
    BY <1>1, <1>4, <2>1, <2>2, <2>3 DEF ServeOpen, Answer, TypeOK
<1>5. CASE ServePredict
  <2>1. Head(queue).session_id \in Nat /\ Head(queue).request_id \in Nat
    BY <1>1, <1>5 DEF ServePredict, Message
  <2>2. posted' \in Seq(Response)
    BY <1>2, <1>5, <2>1 DEF ServePredict, None
  <2>3. /\ DOMAIN service' \subseteq 1..sessions_opened'
        /\ \A sid \in DOMAIN service' : service'[sid] \in Nat
    BY <1>5, <2>1 DEF ServePredict, WithRequestId, TypeOK
  <2>4. UNCHANGED <<attached, buffer, prediction, phrases, sessions_opened>>
    BY <1>5 DEF ServePredict, Answer
  <2> QED
    BY <1>1, <2>2, <2>3, <2>4 DEF TypeOK
<1>6. CASE ServeClose
  <2>1. /\ DOMAIN service' \subseteq 1..sessions_opened'
        /\ \A sid \in DOMAIN service' : service'[sid] \in Nat
    BY <1>6 DEF ServeClose, WithoutSessions, TypeOK
  <2> QED
    BY <1>1, <1>6, <2>1 DEF ServeClose, TypeOK
<1> QED
  BY <1>3, <1>4, <1>5, <1>6 DEF Serve

\* Reaping and restarting of the service keep the types.
LEMMA ForgetSessionsType ==
  ASSUME TypeOK, ForgetSessions
  PROVE  TypeOK'
BY DEF ForgetSessions, WithoutSessions, TypeOK

\* Every posted response keeps the types when it is handled.
LEMMA DeliverType ==
  ASSUME TypeOK, Deliver
  PROVE  TypeOK'
<1>1. posted # <<>> /\ Head(posted) \in Response /\ Tail(posted) \in Seq(Response)
  <2>1. posted # <<>>
    BY DEF Deliver, IgnoreReply, SessionOpened, OpenFailed, PredictionArrived, PredictionFailed
  <2> QED
    BY <2>1, HeadTailProperties DEF TypeOK
<1>2. CASE IgnoreReply
  BY <1>1, <1>2 DEF IgnoreReply, TypeOK
<1> DEFINE c == Head(posted).request.context
<1>3. ASSUME ~Ignored(Head(posted)) PROVE c \in Contexts
  BY <1>3 DEF Ignored, Stale, Live
<1>4. CASE SessionOpened
  <2>1. c \in Contexts
    BY <1>3, <1>4 DEF SessionOpened
  <2>2. [prediction[c] EXCEPT !.session_id = Head(posted).session_id] \in PredictionState
    BY <1>1, <2>1, EditBase, StateTypes DEF Response
  <2>3. send_prediction(c, [prediction[c] EXCEPT !.session_id = Head(posted).session_id], buffer[c])
          \in Result
    BY <2>1, <2>2, EditBase, SendType
  <2> QED
    BY <1>1, <1>4, <2>1, <2>3, HandledType DEF SessionOpened
<1>5. CASE OpenFailed
  <2>1. c \in Contexts
    BY <1>3, <1>5 DEF OpenFailed
  <2>2. FallBack(c, prediction[c], buffer[c], phrases) \in Result
    BY <2>1, EditBase, FallBackType
  <2> QED
    BY <1>1, <1>5, <2>1, <2>2, HandledType DEF OpenFailed
<1>6. CASE PredictionArrived
  <2>1. c \in Contexts
    BY <1>3, <1>6 DEF PredictionArrived
  <2> DEFINE p == prediction[c]
             b == buffer[c]
             candidates == Head(posted).request.padding
             applied == apply_phrase_override(
                          apply_prediction(b, p.segment_indices, candidates), phrases)
  <2>2. FallBack(c, p, b, phrases) \in Result
    BY <2>1, EditBase, FallBackType
  <2>3. ASSUME matches_composition(p, b, candidates)
        PROVE  Finish(c, p, applied, phrases) \in Result
    <3>1. candidates \in Seq(PaddingEntry)
      <4>1. Head(posted).request \in Message /\ Head(posted).request.kind = "predict"
        BY <1>1, <1>6 DEF Response, PredictionArrived
      <4> QED
        BY <4>1 DEF Message
    <3>2. p.segment_indices \in Seq(Nat)
      BY <2>1, EditBase DEF PredictionState
    <3>3. Len(candidates) = Len(p.segment_indices)
      BY <2>3 DEF matches_composition
    <3>4. applied \in CompositionBuffer
      BY <3>1, <3>2, <3>3, <2>1, EditBase, ApplyPredictionType, PhraseOverrideType
    <3> QED
      BY <3>4, <2>1, EditBase, FinishType
  <2> QED
    BY <1>1, <1>6, <2>1, <2>2, <2>3, HandledType DEF PredictionArrived
<1>7. CASE PredictionFailed
  <2>1. c \in Contexts
    BY <1>3, <1>7 DEF PredictionFailed
  <2> DEFINE p == IF Head(posted).code = "unknown_session" THEN WithoutSession(prediction[c])
                  ELSE prediction[c]
  <2>2. p \in PredictionState
    BY <2>1, EditBase, StateTypes
  <2>3. FallBack(c, p, buffer[c], phrases) \in Result
    BY <2>1, <2>2, EditBase, FallBackType
  <2> QED
    BY <1>1, <1>7, <2>1, <2>3, HandledType DEF PredictionFailed
<1> QED
  BY <1>2, <1>4, <1>5, <1>6, <1>7 DEF Deliver

\* Types hold before the first context is attached.
LEMMA InitType == Init => TypeOK
BY BufferTypes, StateTypes, EmptySeq DEF Init, TypeOK

\* Every step keeps the types.
LEMMA NextType == TypeOK /\ [Next]_vars => TypeOK'
<1> SUFFICES ASSUME TypeOK, [Next]_vars PROVE TypeOK'
  OBVIOUS
<1>1. CASE UNCHANGED vars
  BY <1>1 DEF vars, TypeOK
<1> QED
  BY <1>1, UserActionType, SetConfigType, SetTransportOptionsType, ServeType,
     ForgetSessionsType, DeliverType DEF Next

\* The type invariant of TLC's runs, for every instance.
THEOREM TypeCorrect == Spec => []TypeOK
BY InitType, NextType, PTL DEF Spec

-----------------------------------------------------------------------------
(* Answers are only applied to the readings they were asked for *)

\* Every operator that changes a buffer moves its revision on.
Grows(b, b2) == b2 = b \/ b.revision < b2.revision

Good(c, b, r) ==
  /\ Grows(b, r.buffer)
  /\ SegmentsMatch(r.buffer)
  /\ StateDescribes(r.prediction, r.buffer)
  /\ \A k \in DOMAIN r.requests : r.requests[k].kind = "predict" =>
       r.requests[k].context = c /\ RequestDescribes(r.requests[k], r.buffer)

\* Growth of a buffer's revision is transitive.
LEMMA GrowsTransitive ==
  ASSUME NEW a \in CompositionBuffer, NEW b \in CompositionBuffer, NEW d \in CompositionBuffer,
         Grows(a, b), Grows(b, d)
  PROVE  Grows(a, d)
BY DEF Grows, CompositionBuffer

\* touch() makes the revision grow.
LEMMA TouchedGrows ==
  ASSUME NEW b \in CompositionBuffer, NEW segs
  PROVE  Grows(b, Touched(b, segs))
BY DEF Grows, Touched, CompositionBuffer

\* What a prediction state says of its request stays true when the buffer moves on.
LEMMA StateSurvivesGrowth ==
  ASSUME NEW b \in CompositionBuffer, NEW b2 \in CompositionBuffer, NEW p \in PredictionState,
         Grows(b, b2), StateDescribes(p, b)
  PROVE  StateDescribes(p, b2)
BY DEF Grows, StateDescribes, CompositionBuffer, PredictionState

\* What a request says of the buffer stays true when the buffer moves on.
LEMMA RequestSurvivesGrowth ==
  ASSUME NEW b \in CompositionBuffer, NEW b2 \in CompositionBuffer, NEW m \in Message,
         m.kind = "predict", Grows(b, b2), RequestDescribes(m, b)
  PROVE  RequestDescribes(m, b2)
<1>1. m.buffer_revision \in Nat
  BY DEF Message
<1> QED
  BY <1>1 DEF Grows, RequestDescribes, CompositionBuffer

\* Pinning a phrase keeps every candidate list at its reading, or touches the buffer.
LEMMA PhraseOverrideGood ==
  ASSUME NEW b \in CompositionBuffer, NEW stored, SegmentsMatch(b)
  PROVE  /\ Grows(b, apply_phrase_override(b, stored))
         /\ SegmentsMatch(apply_phrase_override(b, stored))
<1> DEFINE released == Released(b.segments, stored)
           unpinned == [i \in 1..Len(b.segments) |->
                          IF i \in released THEN [b.segments[i] EXCEPT !.choice = "auto"]
                          ELSE b.segments[i]]
           covered == Covered(unpinned, stored)
           pinned == [i \in 1..Len(b.segments) |->
                        IF i \in covered THEN [unpinned[i] EXCEPT !.choice = "pinned"]
                        ELSE unpinned[i]]
<1> HIDE DEF released, covered
<1>1. \A i \in 1..Len(b.segments) : b.segments[i] \in Segment
  BY DEF CompositionBuffer
<1>2. \A i \in 1..Len(b.segments) : b.segments[i].of = b.segments[i].reading
  BY DEF SegmentsMatch, CompositionBuffer
<1>3. \A i \in 1..Len(b.segments) :
        unpinned[i] \in Segment /\ unpinned[i].of = unpinned[i].reading
  BY <1>1, <1>2 DEF Segment
<1>4. \A i \in 1..Len(b.segments) : pinned[i].of = pinned[i].reading
  BY <1>3 DEF Segment
<1>5. SegmentsMatch(Touched(b, pinned))
  BY <1>4 DEF SegmentsMatch, Touched
<1> QED
  BY <1>5, TouchedGrows DEF apply_phrase_override, released, covered, Grows

\* Table candidates belong to the readings they are put on.
LEMMA FallbackGood ==
  ASSUME NEW b \in CompositionBuffer, NEW indices, SegmentsMatch(b)
  PROVE  /\ Grows(b, apply_fallback_candidates(b, indices))
         /\ SegmentsMatch(apply_fallback_candidates(b, indices))
<1> DEFINE refreshed == {i \in 1..Len(b.segments) :
                           /\ \E k \in DOMAIN indices : indices[k] = i
                           /\ Usable(b.segments[i])}
           new == [i \in 1..Len(b.segments) |->
                     IF i \in refreshed THEN [b.segments[i] EXCEPT !.of = b.segments[i].reading]
                     ELSE b.segments[i]]
<1> HIDE DEF refreshed
<1>1. \A i \in 1..Len(b.segments) :
        b.segments[i] \in Segment /\ b.segments[i].of = b.segments[i].reading
  BY DEF CompositionBuffer, SegmentsMatch
<1>2. \A i \in 1..Len(b.segments) : new[i].of = new[i].reading
  BY <1>1 DEF Segment
<1>3. SegmentsMatch(Touched(b, new))
  BY <1>2 DEF SegmentsMatch, Touched
<1> QED
  BY <1>3, TouchedGrows DEF apply_fallback_candidates, refreshed, Grows

\* The k-th list of an answer lands on the segment whose reading was the k-th
\* of the request, provided the buffer still is the one it was built from.
LEMMA ApplyPredictionGood ==
  ASSUME NEW b \in CompositionBuffer, SegmentsMatch(b)
  PROVE  LET b2 == apply_prediction(b, completed_segment_indices(b), padding(b))
         IN  Grows(b, b2) /\ SegmentsMatch(b2)
<1> DEFINE indices == completed_segment_indices(b)
           refreshed == {i \in 1..Len(b.segments) :
                           /\ \E k \in DOMAIN indices : indices[k] = i
                           /\ b.segments[i].choice # "manual"}
           Given(i) == padding(b)[CHOOSE k \in DOMAIN indices : indices[k] = i].reading
           new == [i \in 1..Len(b.segments) |->
                     IF i \in refreshed THEN [b.segments[i] EXCEPT !.of = Given(i)]
                     ELSE b.segments[i]]
<1> HIDE DEF indices
<1>1. \A i \in 1..Len(b.segments) :
        b.segments[i] \in Segment /\ b.segments[i].of = b.segments[i].reading
  BY DEF CompositionBuffer, SegmentsMatch
<1>2. ASSUME NEW i \in refreshed PROVE Given(i) = b.segments[i].reading
  <2>1. PICK k \in DOMAIN indices :
          k = (CHOOSE j \in DOMAIN indices : indices[j] = i) /\ indices[k] = i
    BY <1>2
  <2>2. padding(b)[k].reading = b.segments[indices[k]].reading
    BY <2>1 DEF padding, indices
  <2> QED
    BY <2>1, <2>2
<1> HIDE DEF refreshed, Given
<1>3. \A i \in 1..Len(b.segments) : new[i].of = new[i].reading
  BY <1>1, <1>2 DEF Segment
<1>4. SegmentsMatch(Touched(b, new))
  BY <1>3 DEF SegmentsMatch, Touched
<1> QED
  BY <1>4, TouchedGrows DEF apply_prediction, refreshed, Given, indices, Grows

\* The request sent describes the buffer as it is.
LEMMA SendGood ==
  ASSUME NEW c \in Contexts, NEW p \in PredictionState, NEW b \in CompositionBuffer,
         SegmentsMatch(b), StateDescribes(p, b), p.pending
  PROVE  Good(c, b, send_prediction(c, p, b))
<1> DEFINE r == send_prediction(c, p, b)
           m == PredictRequest(c, p, b)
<1>1. r.buffer = b /\ r.requests = <<m>>
  BY DEF send_prediction
<1>2. p.revision \in Nat /\ b.revision \in Nat /\ p.revision <= b.revision
  BY DEF PredictionState, CompositionBuffer, StateDescribes
<1>3. StateDescribes(r.prediction, b)
  BY <1>2 DEF send_prediction, StateDescribes, PredictionState
<1>4. m.context = c /\ RequestDescribes(m, b)
  BY <1>2 DEF PredictRequest, RequestDescribes
<1> HIDE DEF r, m
<1>5. \A k \in DOMAIN r.requests : r.requests[k] = m
  BY <1>1
<1> QED
  BY <1>1, <1>3, <1>4, <1>5 DEF Good, Grows, r

\* begin() remembers the indices and revision of the buffer as it is.
LEMMA BeginGood ==
  ASSUME NEW p \in PredictionState, NEW b \in CompositionBuffer, StateDescribes(p, b)
  PROVE  StateDescribes(begin(p, b), b)
<1>1. b.revision \in Nat /\ p.revision \in Nat
  BY DEF CompositionBuffer, PredictionState
<1>2. CASE p.pending
  BY <1>1, <1>2 DEF begin, StateDescribes, PredictionState
<1>3. CASE ~p.pending
  BY <1>1, <1>3 DEF begin, StateDescribes, PredictionState
<1> QED
  BY <1>2, <1>3

\* request_prediction() leaves state and request in agreement with the buffer.
LEMMA RequestGood ==
  ASSUME NEW c \in Contexts, NEW p \in PredictionState, NEW b \in CompositionBuffer, NEW stored,
         SegmentsMatch(b), StateDescribes(p, b)
  PROVE  Good(c, b, request_prediction(c, p, b, stored))
<1> DEFINE b1 == apply_phrase_override(b, stored)
           p1 == begin(p, b1)
<1>1. b1 \in CompositionBuffer /\ Grows(b, b1) /\ SegmentsMatch(b1)
  BY PhraseOverrideType, PhraseOverrideGood
<1> HIDE DEF b1
<1>2. StateDescribes(p, b1)
  BY <1>1, StateSurvivesGrowth
<1>3. p1 \in PredictionState /\ StateDescribes(p1, b1)
  BY <1>1, <1>2, BeginType, BeginGood
<1>4. Begins(p, b1) => p1.pending
  BY DEF Begins, begin, PredictionState
<1> HIDE DEF p1
<1>5. CASE Begins(p, b1) /\ session_open(p1)
  <2>1. request_prediction(c, p, b, stored) = send_prediction(c, p1, b1)
    BY <1>5 DEF request_prediction, b1, p1
  <2>2. Good(c, b1, send_prediction(c, p1, b1))
    BY <1>1, <1>3, <1>4, <1>5, SendGood
  <2>3. send_prediction(c, p1, b1).buffer = b1
    BY DEF send_prediction
  <2> QED
    BY <1>1, <2>1, <2>2, <2>3 DEF Good
<1>6. CASE ~(Begins(p, b1) /\ session_open(p1))
  <2>1. PICK requests \in {<<>>, <<OpenRequest(c, p1)>>} :
          request_prediction(c, p, b, stored)
            = [buffer |-> b1, prediction |-> p1, requests |-> requests]
    BY <1>6 DEF request_prediction, b1, p1
  <2>2. \A k \in DOMAIN requests : requests[k].kind # "predict"
    BY DEF OpenRequest
  <2> QED
    BY <1>1, <1>3, <2>1, <2>2 DEF Good
<1> QED
  BY <1>5, <1>6

\* finish() forgets the old request and repeats it for the buffer as it is.
LEMMA FinishGood ==
  ASSUME NEW c \in Contexts, NEW p \in PredictionState, NEW b \in CompositionBuffer, NEW stored,
         SegmentsMatch(b)
  PROVE  Good(c, b, Finish(c, p, b, stored))
<1>1. clear_pending(p) \in PredictionState
  BY StateTypes
<1>2. StateDescribes(clear_pending(p), b)
  BY DEF clear_pending, StateDescribes, PredictionState, None
<1>3. Good(c, b, request_prediction(c, clear_pending(p), b, stored))
  BY <1>1, <1>2, RequestGood
<1>4. Good(c, b, [buffer |-> b, prediction |-> clear_pending(p), requests |-> <<>>])
  BY <1>2 DEF Good, Grows
<1> QED
  BY <1>3, <1>4 DEF Finish

\* A result that is good for a later buffer is good for an earlier one.
LEMMA GoodFromEarlier ==
  ASSUME NEW c \in Contexts, NEW a \in CompositionBuffer, NEW b \in CompositionBuffer,
         NEW r \in Result, Grows(a, b), Good(c, b, r)
  PROVE  Good(c, a, r)
<1>1. r.buffer \in CompositionBuffer
  BY DEF Result
<1> QED
  BY <1>1, GrowsTransitive DEF Good

\* Falling back to the table leaves state and request in agreement with the buffer.
LEMMA FallBackGood ==
  ASSUME NEW c \in Contexts, NEW p \in PredictionState, NEW b \in CompositionBuffer, NEW stored,
         SegmentsMatch(b)
  PROVE  Good(c, b, FallBack(c, p, b, stored))
<1> DEFINE b1 == apply_fallback_candidates(b, p.segment_indices)
           b2 == apply_phrase_override(b1, stored)
<1>1. b1 \in CompositionBuffer /\ Grows(b, b1) /\ SegmentsMatch(b1)
  BY FallbackType, FallbackGood
<1> HIDE DEF b1
<1>2. b2 \in CompositionBuffer /\ Grows(b1, b2) /\ SegmentsMatch(b2)
  BY <1>1, PhraseOverrideType, PhraseOverrideGood
<1> HIDE DEF b2
<1>3. Grows(b, b2)
  BY <1>1, <1>2, GrowsTransitive
<1>4. Good(c, b2, Finish(c, p, b2, stored)) /\ Finish(c, p, b2, stored) \in Result
  BY <1>2, FinishGood, FinishType
<1> QED
  BY <1>2, <1>3, <1>4, GoodFromEarlier DEF FallBack, b1, b2

\* What is queued or posted is a message.
LEMMA MessagesType ==
  ASSUME TypeOK
  PROVE  Messages \subseteq Message
<1>1. \A k \in DOMAIN queue : queue[k] \in Message
  BY DEF TypeOK
<1>2. \A k \in DOMAIN posted : posted[k] \in Response
  BY DEF TypeOK
<1>3. \A reply \in Response : reply.request \in Message
  BY DEF Response
<1> QED
  BY <1>1, <1>2, <1>3 DEF Messages

\* What a step has to show: known contexts stay in order, and a prediction
\* request that is new describes its context's buffer.
LEMMA StepKeeps ==
  ASSUME TypeOK, TypeOK', RequestsFollowRevisions,
         \A d \in Contexts : Known(d)' =>
           /\ Known(d)
           /\ Grows(buffer[d], buffer'[d])
           /\ SegmentsMatch(buffer'[d])
           /\ StateDescribes(prediction'[d], buffer'[d]),
         \A m \in Messages' : m.kind = "predict" /\ Known(m.context)' =>
           m \in Messages \/ RequestDescribes(m, buffer'[m.context])
  PROVE  RequestsFollowRevisions'
<1>1. \A m \in Messages : m \in Message
  BY MessagesType
<1>2. ASSUME NEW m \in Messages', m.kind = "predict", Known(m.context)'
      PROVE  RequestDescribes(m, buffer'[m.context])
  <2>1. CASE m \in Messages
    <3>1. m \in Message /\ m.context \in Contexts
      BY <1>1, <1>2, <2>1 DEF Message
    <3>2. RequestDescribes(m, buffer[m.context]) /\ Grows(buffer[m.context], buffer'[m.context])
      BY <1>2, <2>1, <3>1 DEF RequestsFollowRevisions
    <3>3. buffer[m.context] \in CompositionBuffer /\ buffer'[m.context] \in CompositionBuffer
      BY <3>1 DEF TypeOK
    <3> QED
      BY <1>2, <3>1, <3>2, <3>3, RequestSurvivesGrowth
  <2> QED
    BY <1>2, <2>1
<1> QED
  BY <1>2 DEF RequestsFollowRevisions

\* Steps of one context that end in a good result.
LEMMA GoodStep ==
  ASSUME TypeOK, TypeOK', RequestsFollowRevisions, attached' = attached,
         NEW c \in Contexts, Known(c), NEW r \in Result, Good(c, buffer[c], r),
         buffer' = [buffer EXCEPT ![c] = r.buffer],
         prediction' = [prediction EXCEPT ![c] = r.prediction],
         queue' = queue \o r.requests,
         \A k \in DOMAIN posted' : \E j \in DOMAIN posted : posted'[k] = posted[j]
  PROVE  RequestsFollowRevisions'
<1>1. \A d \in Contexts : Known(d)' =>
        /\ Known(d)
        /\ Grows(buffer[d], buffer'[d])
        /\ SegmentsMatch(buffer'[d])
        /\ StateDescribes(prediction'[d], buffer'[d])
  BY DEF Known, Good, Grows, RequestsFollowRevisions, TypeOK
<1>2. \A m \in Messages' : m \in Messages \/ \E k \in DOMAIN r.requests : m = r.requests[k]
  <2>1. \A k \in DOMAIN queue' : (\E j \in DOMAIN queue : queue'[k] = queue[j])
                                  \/ \E j \in DOMAIN r.requests : queue'[k] = r.requests[j]
    <3>1. queue \in Seq(Message) /\ r.requests \in Seq(Message)
      BY DEF TypeOK, Result
    <3> QED
      BY SMTT(30), <3>1, ConcatElements
  <2> QED
    BY <2>1 DEF Messages
<1>3. ASSUME NEW m \in Messages', m.kind = "predict"
      PROVE  m \in Messages \/ RequestDescribes(m, buffer'[m.context])
  BY <1>2, <1>3 DEF Good, TypeOK
<1> QED
  BY <1>1, <1>3, StepKeeps

\* Steps that change no buffer and send nothing.
LEMMA QuietStep ==
  ASSUME TypeOK, TypeOK', RequestsFollowRevisions, UNCHANGED <<buffer, prediction>>,
         \A d \in Contexts : Known(d)' => Known(d),
         \A m \in Messages' : m \in Messages
  PROVE  RequestsFollowRevisions'
<1>1. \A d \in Contexts : Known(d)' =>
        /\ Known(d)
        /\ Grows(buffer[d], buffer'[d])
        /\ SegmentsMatch(buffer'[d])
        /\ StateDescribes(prediction'[d], buffer'[d])
  BY DEF Grows, RequestsFollowRevisions
<1> QED
  BY <1>1, StepKeeps

\* A good result, stored in its context, keeps the invariant.
LEMMA ApplyGood ==
  ASSUME TypeOK, TypeOK', RequestsFollowRevisions, attached' = attached,
         NEW c \in Contexts, Known(c), NEW r \in Result, Good(c, buffer[c], r), Apply(c, r)
  PROVE  RequestsFollowRevisions'
BY GoodStep DEF Apply

\* So does a good result of handling the oldest posted response.
LEMMA HandledGood ==
  ASSUME TypeOK, TypeOK', RequestsFollowRevisions, posted # <<>>,
         NEW c \in Contexts, Known(c), NEW r \in Result, Good(c, buffer[c], r), Handled(c, r)
  PROVE  RequestsFollowRevisions'
<1>1. \A k \in DOMAIN posted' : \E j \in DOMAIN posted : posted'[k] = posted[j]
  BY TailElements DEF TypeOK, Handled
<1> QED
  BY <1>1, GoodStep DEF Handled

\* An edit whose new segments still match their candidates.
LEMMA EditGood ==
  ASSUME TypeOK, TypeOK', RequestsFollowRevisions, UNCHANGED attached, NEW c \in Live,
         NEW segs \in Seq(Segment), \A i \in DOMAIN segs : segs[i].of = segs[i].reading,
         NEW p \in {prediction[c], mark_dirty(prediction[c])},
         Edit(c, segs, p) \/ EditAndRequest(c, segs, p)
  PROVE  RequestsFollowRevisions'
<1> DEFINE b == Touched(buffer[c], segs)
<1>1. c \in Contexts /\ Known(c)
  BY DEF Live, Known
<1>2. b \in CompositionBuffer /\ Grows(buffer[c], b) /\ SegmentsMatch(b)
  BY <1>1, EditBase, BufferTypes, TouchedGrows DEF SegmentsMatch, Touched
<1>3. p \in PredictionState /\ StateDescribes(prediction[c], buffer[c])
  BY <1>1, EditBase DEF RequestsFollowRevisions
<1>4. StateDescribes(p, buffer[c])
  BY <1>1, <1>3, EditBase DEF mark_dirty, StateDescribes, PredictionState
<1>5. StateDescribes(p, b)
  BY <1>1, <1>2, <1>3, <1>4, EditBase, StateSurvivesGrowth
<1> HIDE DEF b
<1>6. CASE Edit(c, segs, p)
  <2> DEFINE r == [buffer |-> b, prediction |-> p, requests |-> <<>>]
  <2>1. r \in Result /\ Good(c, buffer[c], r)
    BY <1>2, <1>3, <1>5, EmptySeq DEF Result, Good
  <2>2. Apply(c, r)
    BY <1>6 DEF Edit, b
  <2> QED
    BY <1>1, <2>1, <2>2, ApplyGood
<1>7. CASE EditAndRequest(c, segs, p)
  <2> DEFINE r == request_prediction(c, p, b, phrases)
  <2>1. r \in Result /\ Good(c, b, r)
    BY <1>1, <1>2, <1>3, <1>5, RequestType, RequestGood
  <2>2. Good(c, buffer[c], r)
    BY <1>1, <1>2, <2>1, EditBase, GoodFromEarlier
  <2>3. Apply(c, r)
    BY <1>7 DEF EditAndRequest, b
  <2> QED
    BY <1>1, <2>1, <2>2, <2>3, ApplyGood
<1> QED
  BY <1>6, <1>7

\* Segments that show candidates of their own reading.
Matching == {s \in Segment : s.of = s.reading}

\* The segments a handler builds show candidates of their own reading.
LEMMA MatchingTypes ==
  /\ Partial \in Matching /\ Literal \in Matching
  /\ \A r \in Readings, choice \in {"auto", "manual", "pinned"} : Complete(r, choice) \in Matching
  /\ \A s \in Matching, choice \in {"auto", "manual", "pinned"} :
       [s EXCEPT !.choice = choice] \in Matching
  /\ Matching \subseteq Segment
BY SegmentTypes DEF Matching, Segment, Partial, Literal, Complete

\* A composition of such segments matches throughout.
LEMMA MatchingSeq ==
  ASSUME NEW segs \in Seq(Matching)
  PROVE  segs \in Seq(Segment) /\ \A i \in DOMAIN segs : segs[i].of = segs[i].reading
BY MatchingTypes, SeqMonotonic DEF Matching

\* What the invariant says of one live context.
LEMMA LiveBase ==
  ASSUME TypeOK, RequestsFollowRevisions, NEW c \in Live
  PROVE  /\ c \in Contexts /\ Known(c)
         /\ buffer[c].segments \in Seq(Matching)
         /\ Len(buffer[c].segments) \in Nat
         /\ StateDescribes(prediction[c], buffer[c])
<1>1. c \in Contexts /\ Known(c)
  BY DEF Live, Known
<1>2. \A i \in DOMAIN buffer[c].segments : buffer[c].segments[i] \in Matching
  BY <1>1, EditBase DEF RequestsFollowRevisions, SegmentsMatch, Matching
<1> QED
  BY <1>1, <1>2, EditBase, ElementsInsertRemove DEF RequestsFollowRevisions

\* An emptied buffer matches.
LEMMA ClearGood ==
  ASSUME NEW b \in CompositionBuffer, SegmentsMatch(b)
  PROVE  Grows(b, clear(b)) /\ SegmentsMatch(clear(b))
<1>1. SegmentsMatch(Touched(b, <<>>))
  BY DEF SegmentsMatch, Touched
<1> QED
  BY <1>1, TouchedGrows DEF clear, Grows

\* Most keys change the segments, each of which shows candidates of its own
\* reading, and may then ask for a prediction.
Edits(c) ==
  \/ TypeSymbol(c) \/ CompleteReading(c) \/ SettleMixedPath(c) \/ RemoveSegment(c)
  \/ InsertLiteral(c) \/ MoveCaret(c) \/ SelectCandidate(c) \/ CancelSelection(c)

\* Some keys ask for a prediction of what they leave.
AsksAgain(c) ==
  CompleteReading(c) \/ SettleMixedPath(c) \/ SelectCandidate(c) \/ CancelSelection(c)

\* They are an edit with a request to a matching composition.
LEMMA EditRequestForm ==
  ASSUME TypeOK, RequestsFollowRevisions, NEW c \in Contexts, AsksAgain(c)
  PROVE  /\ c \in Live /\ attached' = attached
         /\ \E segs \in Seq(Matching), p \in {prediction[c], mark_dirty(prediction[c])} :
              EditAndRequest(c, segs, p)
<1> USE DEF Positions, Editable
<1>1. CASE CompleteReading(c)
  <2>1. c \in Live
    BY <1>1 DEF CompleteReading
  <2>2. PICK segs \in Seq(Matching) : EditAndRequest(c, segs, mark_dirty(prediction[c]))
    <3>1. \A i \in Positions(c), r \in Readings :
            [buffer[c].segments EXCEPT ![i] = Complete(r, "auto")] \in Seq(Matching)
      BY <2>1, LiveBase, ExceptSeq, MatchingTypes
    <3> QED
      BY <1>1, <3>1 DEF CompleteReading
  <2> QED
    BY <1>1, <2>1, <2>2 DEF CompleteReading
<1>2. CASE SettleMixedPath(c)
  <2>1. c \in Live
    BY <1>2 DEF SettleMixedPath
  <2>2. PICK n \in 1..(MaxSegments - Len(buffer[c].segments)) :
          \E path \in [1..n -> {Literal} \cup {Complete(r, "manual") : r \in Readings}] :
            EditAndRequest(c, buffer[c].segments \o path, mark_dirty(prediction[c]))
    BY <1>2 DEF SettleMixedPath
  <2>3. PICK path \in [1..n -> {Literal} \cup {Complete(r, "manual") : r \in Readings}] :
          EditAndRequest(c, buffer[c].segments \o path, mark_dirty(prediction[c]))
    BY <2>2
  <2>4. path \in [1..n -> Matching] /\ n \in Nat
    BY <2>1, LiveBase, MatchingTypes, PredictionAssumption
  <2>5. buffer[c].segments \o path \in Seq(Matching)
    BY <2>1, <2>4, LiveBase, FunctionIsSeq, ConcatProperties
  <2> QED
    BY <1>2, <2>1, <2>3, <2>5 DEF SettleMixedPath
<1>3. CASE SelectCandidate(c) \/ CancelSelection(c)
  <2>1. c \in Live /\ attached' = attached
    BY <1>3 DEF SelectCandidate, CancelSelection
  <2>2. PICK i \in Positions(c), choice \in {"auto", "manual"} :
          EditAndRequest(c, [buffer[c].segments EXCEPT ![i].choice = choice], prediction[c])
    BY <1>3 DEF SelectCandidate, CancelSelection
  <2>3. [buffer[c].segments[i] EXCEPT !.choice = choice] \in Matching
    BY <2>1, LiveBase, ElementOfSeq, MatchingTypes
  <2>4. [buffer[c].segments EXCEPT ![i].choice = choice] \in Seq(Matching)
    BY <2>1, <2>3, LiveBase, ExceptSeq
  <2> QED
    BY <2>1, <2>2, <2>4
<1> QED
  BY <1>1, <1>2, <1>3 DEF AsksAgain

\* Every editing key is an edit, with or without a request, to a matching composition.
LEMMA EditForm ==
  ASSUME TypeOK, RequestsFollowRevisions, NEW c \in Contexts, Edits(c)
  PROVE  /\ c \in Live /\ attached' = attached
         /\ \E segs \in Seq(Matching), p \in {prediction[c], mark_dirty(prediction[c])} :
              Edit(c, segs, p) \/ EditAndRequest(c, segs, p)
<1> USE DEF Positions, Editable
<1>1. CASE TypeSymbol(c)
  <2>1. c \in Live
    BY <1>1 DEF TypeSymbol
  <2>2. PICK segs \in Seq(Matching) : Edit(c, segs, mark_dirty(prediction[c]))
    <3>1. \A i \in 1..(Len(buffer[c].segments) + 1) :
            InsertAt(buffer[c].segments, i, Partial) \in Seq(Matching)
      BY <2>1, LiveBase, InsertAtType, MatchingTypes
    <3> QED
      BY <1>1, <2>1, <3>1, LiveBase DEF TypeSymbol
  <2> QED
    BY <1>1, <2>1, <2>2 DEF TypeSymbol
<1>2. CASE AsksAgain(c)
  BY <1>2, EditRequestForm
<1>3. CASE RemoveSegment(c)
  <2>1. c \in Live
    BY <1>3 DEF RemoveSegment
  <2>2. PICK segs \in Seq(Matching) : Edit(c, segs, mark_dirty(prediction[c]))
    BY <1>3, <2>1, LiveBase, RemoveAtType DEF RemoveSegment
  <2> QED
    BY <1>3, <2>1, <2>2 DEF RemoveSegment
<1>4. CASE InsertLiteral(c)
  <2>1. c \in Live
    BY <1>4 DEF InsertLiteral
  <2>2. PICK segs \in Seq(Matching), p \in {prediction[c], mark_dirty(prediction[c])} :
          Edit(c, segs, p)
    <3>1. \A i \in 1..(Len(buffer[c].segments) + 1) :
            InsertAt(buffer[c].segments, i, Literal) \in Seq(Matching)
      BY <2>1, LiveBase, InsertAtType, MatchingTypes
    <3> QED
      BY <1>4, <3>1 DEF InsertLiteral
  <2> QED
    BY <1>4, <2>1, <2>2 DEF InsertLiteral
<1>5. CASE MoveCaret(c)
  <2>1. c \in Live /\ Edit(c, buffer[c].segments, prediction[c]) /\ attached' = attached
    BY <1>5 DEF MoveCaret
  <2> QED
    BY <2>1, LiveBase
<1> QED
  BY <1>1, <1>2, <1>3, <1>4, <1>5 DEF Edits, AsksAgain

\* Every action of the user keeps the invariant.
LEMMA UserActionGood ==
  ASSUME TypeOK, TypeOK', RequestsFollowRevisions, NEW c \in Contexts, UserAction(c)
  PROVE  RequestsFollowRevisions'
<1> USE DEF Editable
<1>1. CASE Attach(c)
  <2>1. /\ \A d \in Contexts : Known(d)' => Known(d)
        /\ UNCHANGED <<buffer, prediction>>
    BY <1>1 DEF Attach, Known, TypeOK
  <2>2. Messages' = Messages
    BY <1>1 DEF Attach, Messages
  <2> QED
    BY <2>1, <2>2, QuietStep
<1>2. CASE Edits(c)
  <2>1. c \in Live /\ attached' = attached
    BY <1>2, EditForm
  <2>2. PICK segs \in Seq(Matching), p \in {prediction[c], mark_dirty(prediction[c])} :
          Edit(c, segs, p) \/ EditAndRequest(c, segs, p)
    BY <1>2, EditForm
  <2> QED
    BY <2>1, <2>2, MatchingSeq, EditGood
<1>3. CASE DeleteNothing(c)
  <2> DEFINE r == [buffer |-> buffer[c], prediction |-> mark_dirty(prediction[c]), requests |-> <<>>]
  <2>1. c \in Live /\ Apply(c, r) /\ attached' = attached
    BY <1>3 DEF DeleteNothing
  <2>2. StateDescribes(mark_dirty(prediction[c]), buffer[c])
    BY <2>1, LiveBase, EditBase DEF mark_dirty, StateDescribes, PredictionState
  <2>3. r \in Result /\ Good(c, buffer[c], r)
    BY <2>1, <2>2, LiveBase, EditBase, EmptySeq DEF Result, Good, Grows, RequestsFollowRevisions
  <2> QED
    BY <2>1, <2>3, LiveBase, ApplyGood
<1>4. CASE StorePhrase(c)
  <2> DEFINE b == Touched(buffer[c], buffer[c].segments)
             b2 == apply_phrase_override(b, phrases')
             r == [buffer |-> b2, prediction |-> prediction[c], requests |-> <<>>]
  <2>1. c \in Live /\ Apply(c, r) /\ attached' = attached
    BY <1>4 DEF StorePhrase
  <2>2. b \in CompositionBuffer /\ Grows(buffer[c], b) /\ SegmentsMatch(b)
    BY <2>1, LiveBase, EditBase, MatchingSeq, BufferTypes, TouchedGrows DEF SegmentsMatch, Touched
  <2> HIDE DEF b
  <2>3. b2 \in CompositionBuffer /\ Grows(b, b2) /\ SegmentsMatch(b2)
    BY <2>2, PhraseOverrideType, PhraseOverrideGood
  <2> HIDE DEF b2
  <2>4. Grows(buffer[c], b2)
    BY <2>2, <2>3, EditBase, GrowsTransitive
  <2>5. StateDescribes(prediction[c], b2)
    BY <2>1, <2>3, <2>4, LiveBase, EditBase, StateSurvivesGrowth
  <2>6. r \in Result /\ Good(c, buffer[c], r)
    BY <2>3, <2>4, <2>5, EditBase, EmptySeq DEF Result, Good
  <2> QED
    BY <2>1, <2>6, LiveBase, ApplyGood
<1>5. CASE Commit(c) \/ Reset(c)
  <2>1. PICK p \in {clear_pending(prediction[c]), invalidate(prediction[c])} :
          Apply(c, [buffer |-> clear(buffer[c]), prediction |-> p, requests |-> <<>>])
    BY <1>5 DEF Commit, Reset
  <2>2. c \in Live /\ attached' = attached
    BY <1>5 DEF Commit, Reset
  <2>3. Grows(buffer[c], clear(buffer[c])) /\ SegmentsMatch(clear(buffer[c]))
    BY <2>2, LiveBase, EditBase, ClearGood DEF RequestsFollowRevisions
  <2>4. ~p.pending /\ p.inflight_request_id = None /\ p \in PredictionState
    BY <2>1, EditBase, ClearedState
  <2> DEFINE r == [buffer |-> clear(buffer[c]), prediction |-> p, requests |-> <<>>]
  <2>5. r \in Result /\ Good(c, buffer[c], r)
    BY <2>3, <2>4, EditBase, BufferTypes, EmptySeq DEF Result, Good, StateDescribes
  <2> QED
    BY <2>1, <2>2, <2>5, LiveBase, ApplyGood
<1>6. CASE Detach(c)
  <2>1. \A d \in Contexts : Known(d)' =>
          d # c /\ Known(d) /\ buffer'[d] = buffer[d] /\ prediction'[d] = prediction[d]
    BY <1>6 DEF Detach, Apply, Known, TypeOK
  <2>2. \A m \in Messages' : m.kind = "predict" => m \in Messages
    <3>1. queue \in Seq(Message) /\ Closing(prediction[c]) \in Seq(Message)
      BY EditBase, ClosingType DEF TypeOK
    <3>2. queue' = queue \o Closing(prediction[c]) /\ posted' = posted
      BY <1>6 DEF Detach, Apply
    <3>3. \A k \in DOMAIN Closing(prediction[c]) : Closing(prediction[c])[k].kind = "close"
      BY DEF Closing, CloseRequest
    <3>4. \A k \in DOMAIN queue' : queue'[k].kind = "predict" => \E j \in DOMAIN queue : queue'[k] = queue[j]
      BY <3>1, <3>2, <3>3, ConcatElements
    <3> QED
      BY <3>2, <3>4 DEF Messages
  <2> QED
    BY <2>1, <2>2, StepKeeps DEF Grows, RequestsFollowRevisions
<1> QED
  BY <1>1, <1>2, <1>3, <1>4, <1>5, <1>6 DEF UserAction, Edits

\* A new message that is no prediction request needs no argument.
LEMMA QueueOnly ==
  ASSUME TypeOK, NEW more \in Seq(Message), queue' = queue \o more, posted' = posted,
         \A k \in DOMAIN more : more[k].kind # "predict"
  PROVE  \A m \in Messages' : m.kind = "predict" => m \in Messages
<1>1. \A k \in DOMAIN queue' : queue'[k].kind = "predict" => \E j \in DOMAIN queue : queue'[k] = queue[j]
  BY ConcatElements DEF TypeOK
<1> QED
  BY <1>1 DEF Messages

\* A change of the configuration keeps the invariant.
LEMMA SetConfigGood ==
  ASSUME TypeOK, TypeOK', RequestsFollowRevisions, SetConfig
  PROVE  RequestsFollowRevisions'
<1>1. PICK settled \in SUBSET {c \in Live : HasRoom(c)} :
        \E caret \in [settled -> 1..MaxSegments] :
          /\ \A c \in settled : caret[c] <= Len(buffer[c].segments) + 1
          /\ buffer' = [c \in Contexts |->
                          IF c \in settled
                          THEN Touched(buffer[c], InsertAt(buffer[c].segments, caret[c], Literal))
                          ELSE buffer[c]]
  BY DEF SetConfig
<1>2. PICK caret \in [settled -> 1..MaxSegments] :
        /\ \A c \in settled : caret[c] <= Len(buffer[c].segments) + 1
        /\ buffer' = [c \in Contexts |->
                        IF c \in settled
                        THEN Touched(buffer[c], InsertAt(buffer[c].segments, caret[c], Literal))
                        ELSE buffer[c]]
  BY <1>1
<1>3. ASSUME NEW d \in Contexts, Known(d)
      PROVE  /\ Grows(buffer[d], buffer'[d])
             /\ SegmentsMatch(buffer'[d])
  <2>1. CASE d \in settled
    <3> DEFINE segs == InsertAt(buffer[d].segments, caret[d], Literal)
    <3>1. d \in Live /\ caret[d] \in 1..(Len(buffer[d].segments) + 1)
      BY <1>1, <1>2, <2>1, EditBase, PredictionAssumption
    <3>2. segs \in Seq(Matching)
      BY <3>1, LiveBase, InsertAtType, MatchingTypes
    <3> HIDE DEF segs
    <3>3. SegmentsMatch(Touched(buffer[d], segs))
      BY <3>2, MatchingSeq DEF SegmentsMatch, Touched
    <3>4. Grows(buffer[d], Touched(buffer[d], segs))
      BY <3>1, EditBase, TouchedGrows
    <3> QED
      BY <1>2, <2>1, <3>3, <3>4 DEF segs
  <2>2. CASE d \notin settled
    BY <1>2, <1>3, <2>2 DEF Grows, RequestsFollowRevisions
  <2> QED
    BY <2>1, <2>2
<1>4. ASSUME NEW d \in Contexts, Known(d)
      PROVE  StateDescribes(prediction'[d], buffer'[d])
  <2>1. CASE d \in Live
    <3>1. prediction'[d] = SettledPrediction(prediction[d])
      BY <2>1 DEF SetConfig
    <3> QED
      BY <3>1, EditBase, ClearedState DEF StateDescribes
  <2>2. CASE d \notin Live
    <3>1. prediction'[d] = prediction[d]
      BY <2>2 DEF SetConfig
    <3>2. StateDescribes(prediction[d], buffer[d])
      BY <1>4 DEF RequestsFollowRevisions
    <3>3. /\ prediction[d] \in PredictionState /\ buffer[d] \in CompositionBuffer
          /\ buffer'[d] \in CompositionBuffer
      BY DEF TypeOK
    <3> QED
      BY <1>3, <1>4, <3>1, <3>2, <3>3, StateSurvivesGrowth
  <2> QED
    BY <2>1, <2>2
<1>5. \A m \in Messages' : m.kind = "predict" => m \in Messages
  <2> DEFINE open == {c \in Live : session_open(prediction[c])}
  <2>1. PICK closes \in [1..Cardinality(open) -> {CloseRequest(prediction[c]) : c \in open}] :
          queue' = queue \o closes
    BY DEF SetConfig
  <2>2. IsFiniteSet(open)
    BY PredictionAssumption, FS_Subset DEF Live
  <2>3. Cardinality(open) \in Nat
    BY <2>2, FS_CardinalityType
  <2>4. {CloseRequest(prediction[c]) : c \in open} \subseteq Message
    BY ClosingType, EditBase DEF Live
  <2>5. \A k \in DOMAIN closes : closes[k].kind = "close"
    BY DEF CloseRequest
  <2> HIDE DEF open
  <2>6. closes \in Seq(Message)
    BY <2>3, <2>4, FunctionIsSeq
  <2>7. posted' = posted
    BY DEF SetConfig
  <2> QED
    BY <2>1, <2>5, <2>6, <2>7, QueueOnly
<1>6. attached' = attached
  BY DEF SetConfig
<1> QED
  BY <1>3, <1>4, <1>5, <1>6, StepKeeps DEF Known

\* A restart of the transport keeps the invariant.
LEMMA SetTransportOptionsGood ==
  ASSUME TypeOK, TypeOK', RequestsFollowRevisions, SetTransportOptions
  PROVE  RequestsFollowRevisions'
<1>1. attached' = attached /\ buffer' = buffer
  BY DEF SetTransportOptions
<1>2. ASSUME NEW d \in Contexts, Known(d)
      PROVE  StateDescribes(prediction'[d], buffer'[d])
  <2>1. CASE d \in Live
    <3>1. prediction'[d] = RestartedPrediction(prediction[d])
      BY <2>1 DEF SetTransportOptions
    <3> QED
      BY <3>1, EditBase, ClearedState DEF StateDescribes
  <2>2. CASE d \notin Live
    <3>1. prediction'[d] = prediction[d]
      BY <2>2 DEF SetTransportOptions
    <3> QED
      BY <1>1, <1>2, <3>1 DEF RequestsFollowRevisions
  <2> QED
    BY <2>1, <2>2
<1>3. \A m \in Messages' : m \in Messages
  <2>1. \A k \in DOMAIN queue' : FALSE
    BY DEF SetTransportOptions
  <2>2. ASSUME NEW k \in DOMAIN posted' PROVE posted'[k].request \in Messages
    <3>1. posted \in Seq(Response) /\ queue \in Seq(Message) /\ posted' = posted \o Failures(queue)
      BY DEF TypeOK, SetTransportOptions
    <3>2. Failures(queue) \in Seq(Response)
      BY <3>1, FailuresType
    <3>3. \A j \in DOMAIN Failures(queue) : \E i \in DOMAIN queue : Failures(queue)[j].request = queue[i]
      BY <3>1, FailuresType
    <3>4. (\E j \in DOMAIN posted : posted'[k] = posted[j])
          \/ \E j \in DOMAIN Failures(queue) : posted'[k] = Failures(queue)[j]
      BY SMTT(30), <3>1, <3>2, ConcatElements
    <3> QED
      BY <3>3, <3>4 DEF Messages
  <2> QED
    BY <2>1, <2>2 DEF Messages
<1> QED
  BY <1>1, <1>2, <1>3, StepKeeps DEF Known, Grows, RequestsFollowRevisions

\* The worker's steps move a request from the queue to the posted responses.
LEMMA ServeMovesOn ==
  ASSUME TypeOK, Serve
  PROVE  UNCHANGED <<attached, buffer, prediction>> /\ Messages' \subseteq Messages
<1>1. /\ queue # <<>> /\ queue' = Tail(queue)
      /\ UNCHANGED <<attached, buffer, prediction>>
  BY DEF Serve, ServeFails, ServeOpen, ServePredict, ServeClose, Answer
<1>2. posted' = posted \/ \E code, sid : posted' = Append(posted, Reply(Head(queue), code, sid))
  BY DEF Serve, ServeFails, ServeOpen, ServePredict, ServeClose, Answer
<1>3. \A k \in DOMAIN queue' : queue'[k] \in Messages
  BY <1>1, TailElements DEF TypeOK, Messages
<1>4. \A k \in DOMAIN posted' : posted'[k].request \in Messages
  <2>1. Head(queue) \in Messages
    <3>1. Head(queue) = queue[1] /\ 1 \in DOMAIN queue
      BY <1>1, HeadTailProperties, LenProperties, EmptySeq DEF TypeOK
    <3> QED
      BY <3>1 DEF Messages
  <2>2. CASE posted' = posted
    BY <2>2 DEF Messages
  <2>3. ASSUME NEW code, NEW sid, posted' = Append(posted, Reply(Head(queue), code, sid))
        PROVE  \A k \in DOMAIN posted' : posted'[k].request \in Messages
    <3>1. Reply(Head(queue), code, sid).request = Head(queue)
      BY DEF Reply
    <3>2. \A k \in DOMAIN posted' :
            \/ k \in DOMAIN posted /\ posted'[k] = posted[k]
            \/ posted'[k] = Reply(Head(queue), code, sid)
      BY <2>3, AppendProperties, LenProperties DEF TypeOK
    <3> QED
      BY <2>1, <3>1, <3>2 DEF Messages
  <2> QED
    BY <1>2, <2>2, <2>3
<1>5. \A m \in Messages' : m \in Messages
  BY <1>3, <1>4 DEF Messages
<1> QED
  BY <1>1, <1>5

\* ... which keeps the invariant.
LEMMA ServeGood ==
  ASSUME TypeOK, TypeOK', RequestsFollowRevisions, Serve
  PROVE  RequestsFollowRevisions'
BY ServeMovesOn, QuietStep DEF Known

\* Reaping and restarting of the service keep the invariant.
LEMMA ForgetSessionsGood ==
  ASSUME TypeOK, TypeOK', RequestsFollowRevisions, ForgetSessions
  PROVE  RequestsFollowRevisions'
BY DEF ForgetSessions, RequestsFollowRevisions, Messages, Known

\* What the main loop knows when it takes an answer that is not ignored.
LEMMA DeliverBase ==
  ASSUME TypeOK, RequestsFollowRevisions, posted # <<>>, ~Ignored(Head(posted))
  PROVE  LET c == Head(posted).request.context
         IN  /\ Head(posted) \in Response
             /\ Head(posted).request \in Messages
             /\ c \in Live /\ c \in Contexts /\ Known(c)
             /\ prediction[c].pending
             /\ SegmentsMatch(buffer[c]) /\ StateDescribes(prediction[c], buffer[c])
             /\ buffer[c] \in CompositionBuffer /\ prediction[c] \in PredictionState
<1>1. Head(posted) = posted[1] /\ 1 \in DOMAIN posted /\ Head(posted) \in Response
  BY HeadTailProperties, LenProperties, EmptySeq DEF TypeOK
<1>2. Head(posted).request \in Messages
  BY <1>1 DEF Messages
<1> DEFINE c == Head(posted).request.context
<1>3. c \in Live /\ c \in Contexts /\ Known(c) /\ prediction[c].pending
  BY DEF Ignored, Stale, Live, Known
<1> HIDE DEF c
<1>4. SegmentsMatch(buffer[c]) /\ StateDescribes(prediction[c], buffer[c])
  BY <1>3 DEF RequestsFollowRevisions
<1>5. buffer[c] \in CompositionBuffer /\ prediction[c] \in PredictionState
  BY <1>3 DEF TypeOK
<1> QED
  BY <1>1, <1>2, <1>3, <1>4, <1>5 DEF c

\* Every posted response keeps the invariant when it is handled.
LEMMA DeliverGood ==
  ASSUME TypeOK, TypeOK', RequestsFollowRevisions, Deliver
  PROVE  RequestsFollowRevisions'
<1> DEFINE c == Head(posted).request.context
           p == prediction[c]
           b == buffer[c]
<1>1. CASE IgnoreReply
  <2>1. posted # <<>> /\ posted' = Tail(posted) /\ queue' = queue
    BY <1>1 DEF IgnoreReply
  <2>2. \A k \in DOMAIN posted' : posted'[k].request \in Messages
    BY <2>1, TailElements DEF TypeOK, Messages
  <2>3. \A m \in Messages' : m \in Messages
    BY <2>1, <2>2 DEF Messages
  <2>4. UNCHANGED <<attached, buffer, prediction>>
    BY <1>1 DEF IgnoreReply
  <2> QED
    BY <2>3, <2>4, QuietStep DEF Known
<1>2. CASE SessionOpened
  <2> DEFINE q == [p EXCEPT !.session_id = Head(posted).session_id]
  <2>1. posted # <<>> /\ ~Ignored(Head(posted)) /\ Handled(c, send_prediction(c, q, b))
    BY <1>2 DEF SessionOpened
  <2>2. q \in PredictionState
    BY <2>1, DeliverBase, StateTypes DEF Response
  <2>3. q.pending /\ StateDescribes(q, b)
    BY <2>1, DeliverBase DEF StateDescribes, PredictionState
  <2> HIDE DEF q
  <2>4. send_prediction(c, q, b) \in Result /\ Good(c, b, send_prediction(c, q, b))
    BY <2>1, <2>2, <2>3, DeliverBase, SendType, SendGood
  <2> QED
    BY <2>1, <2>4, DeliverBase, HandledGood
<1>3. CASE OpenFailed
  <2>1. posted # <<>> /\ ~Ignored(Head(posted)) /\ Handled(c, FallBack(c, p, b, phrases))
    BY <1>3 DEF OpenFailed
  <2>2. FallBack(c, p, b, phrases) \in Result /\ Good(c, b, FallBack(c, p, b, phrases))
    BY <2>1, DeliverBase, FallBackType, FallBackGood
  <2> QED
    BY <2>1, <2>2, DeliverBase, HandledGood
<1>4. CASE PredictionFailed
  <2>1. posted # <<>> /\ ~Ignored(Head(posted))
    BY <1>4 DEF PredictionFailed
  <2>2. PICK q \in {p, WithoutSession(p)} : Handled(c, FallBack(c, q, b, phrases))
    BY <1>4 DEF PredictionFailed
  <2>3. q \in PredictionState
    BY <2>1, <2>2, DeliverBase, StateTypes
  <2>4. FallBack(c, q, b, phrases) \in Result /\ Good(c, b, FallBack(c, q, b, phrases))
    BY <2>1, <2>3, DeliverBase, FallBackType, FallBackGood
  <2> QED
    BY <2>1, <2>2, <2>4, DeliverBase, HandledGood
<1>5. CASE PredictionArrived
  <2> DEFINE m == Head(posted).request
             b1 == apply_prediction(b, p.segment_indices, m.padding)
             b2 == apply_phrase_override(b1, phrases)
  <2>1. posted # <<>> /\ ~Ignored(Head(posted)) /\ m.kind = "predict" /\ Head(posted).code = "ok"
    BY <1>5 DEF PredictionArrived
  <2>2. CASE matches_composition(p, b, m.padding)
    <3>1. Handled(c, Finish(c, p, b2, phrases))
      BY <1>5, <2>2 DEF PredictionArrived
    <3>2. correlates_prediction(p, m)
      BY <2>1 DEF Ignored
    <3>3. p.inflight_revision = m.buffer_revision /\ p.inflight_request_id # None
      BY <3>2 DEF correlates_prediction
    <3>4. p.revision = b.revision
      BY <2>2 DEF matches_composition
    <3>5. p.pending /\ p.inflight_revision = p.revision /\ p.segment_indices = completed_segment_indices(b)
      BY <2>1, <3>3, <3>4, DeliverBase DEF StateDescribes
    <3>6. m.padding = padding(b)
      <4>1. RequestDescribes(m, b)
        BY <2>1, DeliverBase DEF RequestsFollowRevisions
      <4> QED
        BY <3>3, <3>4, <3>5, <4>1 DEF RequestDescribes
    <3>7. b1 = apply_prediction(b, completed_segment_indices(b), padding(b))
      BY <3>5, <3>6
    <3>8. b1 \in CompositionBuffer /\ Grows(b, b1) /\ SegmentsMatch(b1)
      BY <2>1, <3>7, DeliverBase, CompositionTypes, ApplyPredictionType, ApplyPredictionGood
    <3> HIDE DEF b1
    <3>9. b2 \in CompositionBuffer /\ Grows(b1, b2) /\ SegmentsMatch(b2)
      BY <3>8, PhraseOverrideType, PhraseOverrideGood
    <3> HIDE DEF b2
    <3>10. Grows(b, b2)
      BY <2>1, <3>8, <3>9, DeliverBase, GrowsTransitive
    <3>11. Finish(c, p, b2, phrases) \in Result /\ Good(c, b2, Finish(c, p, b2, phrases))
      BY <2>1, <3>9, DeliverBase, FinishType, FinishGood
    <3>12. Good(c, b, Finish(c, p, b2, phrases))
      BY <2>1, <3>9, <3>10, <3>11, DeliverBase, GoodFromEarlier
    <3> QED
      BY <2>1, <3>1, <3>11, <3>12, DeliverBase, HandledGood
  <2>3. CASE ~matches_composition(p, b, m.padding)
    <3>1. Handled(c, FallBack(c, p, b, phrases))
      BY <1>5, <2>3 DEF PredictionArrived
    <3>2. FallBack(c, p, b, phrases) \in Result /\ Good(c, b, FallBack(c, p, b, phrases))
      BY <2>1, DeliverBase, FallBackType, FallBackGood
    <3> QED
      BY <2>1, <3>1, <3>2, DeliverBase, HandledGood
  <2> QED
    BY <2>2, <2>3
<1> QED
  BY <1>1, <1>2, <1>3, <1>4, <1>5 DEF Deliver

\* No request describes anything before the first context is attached.
LEMMA InitGood == Init => RequestsFollowRevisions
BY EmptySeq DEF Init, RequestsFollowRevisions, Messages, SegmentsMatch, StateDescribes,
               EmptyBuffer, InitialPrediction, None

\* Every step keeps the invariant.
LEMMA NextGood ==
  ASSUME TypeOK, TypeOK', RequestsFollowRevisions, [Next]_vars
  PROVE  RequestsFollowRevisions'
<1>1. CASE \E c \in Contexts : UserAction(c)
  BY <1>1, UserActionGood
<1>2. CASE SetConfig
  BY <1>2, SetConfigGood
<1>3. CASE SetTransportOptions
  BY <1>3, SetTransportOptionsGood
<1>4. CASE Serve
  BY <1>4, ServeGood
<1>5. CASE ForgetSessions
  BY <1>5, ForgetSessionsGood
<1>6. CASE Deliver
  BY <1>6, DeliverGood
<1>7. CASE UNCHANGED vars
  BY <1>7 DEF vars, RequestsFollowRevisions, Messages, Known
<1> QED
  BY <1>1, <1>2, <1>3, <1>4, <1>5, <1>6, <1>7 DEF Next

\* Prediction requests and the indices kept of them describe the composition as
\* long as the revisions agree, for any number of contexts, segments and edits:
\* what Engine::send_prediction and PredictionState::begin have to guarantee.
THEOREM RequestsDescribeCompositions == Spec => []RequestsFollowRevisions
<1>1. Init => RequestsFollowRevisions
  BY InitGood
<1>2. TypeOK /\ TypeOK' /\ RequestsFollowRevisions /\ [Next]_vars => RequestsFollowRevisions'
  BY NextGood
<1> QED
  BY <1>1, <1>2, TypeCorrect, PTL DEF Spec

\* No segment of a live context ever shows candidates of another reading,
\* however answers and edits interleave: Engine::handle_prediction_response
\* applies an answer only to the composition it was asked for.
THEOREM CandidatesAlwaysMatch == Spec => []CandidatesMatchReading
<1>1. RequestsFollowRevisions => CandidatesMatchReading
  BY DEF RequestsFollowRevisions, CandidatesMatchReading, Known, Live
<1> QED
  BY <1>1, RequestsDescribeCompositions, PTL


-----------------------------------------------------------------------------
(***************************************************************************)
(* A context that waits for candidates always has its request queued or    *)
(* the answer on its way: that a context which does not wait has no        *)
(* request id in flight is part of RequestsFollowRevisions.  Then the      *)
(* order of requests and the sessions they use (RequestsKeepOrder), and    *)
(* what follows from it of the answers that a context acts on.             *)
(***************************************************************************)

\* Awaited, for a state p that a context is about to have.
Awaits(p, c, m) ==
  /\ m.kind # "close" /\ m.context = c /\ m.generation = p.generation
  /\ IF p.inflight_request_id = None THEN m.kind = "open" /\ ~session_open(p)
     ELSE /\ m.kind = "predict" /\ m.request_id = p.inflight_request_id
          /\ m.session_id = p.session_id /\ m.buffer_revision = p.inflight_revision

\* States that wait for the same message.
SameWait(p, q) ==
  /\ q.generation = p.generation /\ q.inflight_request_id = p.inflight_request_id
  /\ q.session_id = p.session_id /\ q.inflight_revision = p.inflight_revision

\* A result that waits has just sent the request it waits for.
Asks(c, r) ==
  r.prediction.pending => \E k \in DOMAIN r.requests : Awaits(r.prediction, c, r.requests[k])

\* The same wait awaits the same messages.
LEMMA WaitKept ==
  ASSUME NEW p, NEW q, SameWait(p, q), NEW c, NEW m, Awaits(p, c, m)
  PROVE  Awaits(q, c, m)
BY DEF SameWait, Awaits, session_open

\* send_prediction() sends the request that is then waited for.
LEMMA SendAsks ==
  ASSUME NEW c \in Contexts, NEW p \in PredictionState, NEW b \in CompositionBuffer
  PROVE  Asks(c, send_prediction(c, p, b))
<1> DEFINE r == send_prediction(c, p, b)
<1>1. r.requests = <<PredictRequest(c, p, b)>>
  BY DEF send_prediction
<1>2. /\ r.prediction.generation = p.generation /\ r.prediction.session_id = p.session_id
      /\ r.prediction.inflight_request_id = p.next_request_id
      /\ r.prediction.inflight_revision = p.revision
  BY DEF send_prediction, PredictionState
<1>3. p.next_request_id # None
  BY DEF PredictionState, None
<1>4. Awaits(r.prediction, c, PredictRequest(c, p, b))
  BY <1>2, <1>3 DEF Awaits, PredictRequest
<1> HIDE DEF r
<1>5. 1 \in DOMAIN r.requests /\ r.requests[1] = PredictRequest(c, p, b)
  BY <1>1
<1> QED
  BY <1>4, <1>5 DEF Asks, r

\* request_prediction() sends the request that is then waited for, if any is.
LEMMA RequestAsks ==
  ASSUME NEW c \in Contexts, NEW p \in PredictionState, NEW b \in CompositionBuffer, NEW stored,
         ~p.pending, p.inflight_request_id = None
  PROVE  Asks(c, request_prediction(c, p, b, stored))
<1> DEFINE b1 == apply_phrase_override(b, stored)
           p1 == begin(p, b1)
<1>1. b1 \in CompositionBuffer
  BY PhraseOverrideType
<1> HIDE DEF b1
<1>2. p1 \in PredictionState
  BY <1>1, BeginType
<1>3. p1.inflight_request_id = None /\ p1.generation = p.generation
      /\ (~Begins(p, b1) => ~p1.pending)
  BY DEF begin, Begins, PredictionState
<1> HIDE DEF p1
<1>4. CASE ~Begins(p, b1)
  BY <1>3, <1>4 DEF request_prediction, Asks, b1, p1
<1>5. CASE Begins(p, b1) /\ ~session_open(p1)
  <2> DEFINE r == [buffer |-> b1, prediction |-> p1, requests |-> <<OpenRequest(c, p1)>>]
  <2>1. Awaits(p1, c, OpenRequest(c, p1))
    BY <1>3, <1>5 DEF Awaits, OpenRequest
  <2>2. 1 \in DOMAIN r.requests /\ r.requests[1] = OpenRequest(c, p1) /\ r.prediction = p1
    OBVIOUS
  <2>3. Asks(c, r)
    BY <2>1, <2>2 DEF Asks
  <2> QED
    BY <1>5, <2>3 DEF request_prediction, b1, p1
<1>6. CASE Begins(p, b1) /\ session_open(p1)
  <2>1. request_prediction(c, p, b, stored) = send_prediction(c, p1, b1)
    BY <1>6 DEF request_prediction, b1, p1
  <2> QED
    BY <1>1, <1>2, <2>1, SendAsks
<1> QED
  BY <1>4, <1>5, <1>6

\* So does the repetition by finish().
LEMMA FinishAsks ==
  ASSUME NEW c \in Contexts, NEW p \in PredictionState, NEW b \in CompositionBuffer, NEW stored
  PROVE  Asks(c, Finish(c, p, b, stored))
<1> DEFINE q == clear_pending(p)
<1>1. q \in PredictionState /\ ~q.pending /\ q.inflight_request_id = None
  BY ClearedState
<1> HIDE DEF q
<1>2. Asks(c, request_prediction(c, q, b, stored))
  BY <1>1, RequestAsks
<1>3. Asks(c, [buffer |-> b, prediction |-> q, requests |-> <<>>])
  BY <1>1 DEF Asks
<1> QED
  BY <1>2, <1>3 DEF Finish, q

\* So does falling back to the table.
LEMMA FallBackAsks ==
  ASSUME NEW c \in Contexts, NEW p \in PredictionState, NEW b \in CompositionBuffer, NEW stored
  PROVE  Asks(c, FallBack(c, p, b, stored))
<1>1. apply_phrase_override(apply_fallback_candidates(b, p.segment_indices), stored) \in CompositionBuffer
  BY FallbackType, PhraseOverrideType
<1> QED
  BY <1>1, FinishAsks DEF FallBack

\* A key may start a request or join the one that is pending.
AsksOrJoins(c, p, r) == Asks(c, r) \/ (p.pending /\ SameWait(p, r.prediction))

\* While a request is pending, request_prediction() keeps waiting for that one.
LEMMA RequestAsksOrJoins ==
  ASSUME NEW c \in Contexts, NEW p \in PredictionState, NEW b \in CompositionBuffer, NEW stored,
         ~p.pending => p.inflight_request_id = None
  PROVE  AsksOrJoins(c, p, request_prediction(c, p, b, stored))
<1>1. CASE p.pending
  <2>1. request_prediction(c, p, b, stored).prediction = [p EXCEPT !.dirty = TRUE]
    BY <1>1 DEF request_prediction, begin, Begins
  <2>2. SameWait(p, [p EXCEPT !.dirty = TRUE])
    BY DEF SameWait, PredictionState
  <2> QED
    BY <1>1, <2>1, <2>2 DEF AsksOrJoins
<1>2. CASE ~p.pending
  BY <1>2, RequestAsks DEF AsksOrJoins
<1> QED
  BY <1>1, <1>2

-----------------------------------------------------------------------------
(* Steps *)

\* PendingHasAnswer in terms of the awaited message.
LEMMA PendingMeans ==
  PendingHasAnswer <=>
    \A c \in Live : prediction[c].pending => \E m \in Messages : Awaits(prediction[c], c, m)
BY DEF PendingHasAnswer, Awaited, Awaits, Messages

\* A context still waits for a message that is on its way, or for a new one.
LEMMA WaitStep ==
  ASSUME PendingHasAnswer,
         \A d \in Live' : prediction'[d].pending =>
           \/ \E m \in Messages' : Awaits(prediction'[d], d, m)
           \/ /\ d \in Live /\ prediction[d].pending /\ SameWait(prediction[d], prediction'[d])
              /\ \A m \in Messages : Awaits(prediction[d], d, m) => m \in Messages'
  PROVE  PendingHasAnswer'
<1>1. ASSUME NEW d \in Live', prediction'[d].pending
      PROVE  \E m \in Messages' : Awaits(prediction'[d], d, m)
  <2>1. CASE /\ d \in Live /\ prediction[d].pending /\ SameWait(prediction[d], prediction'[d])
             /\ \A m \in Messages : Awaits(prediction[d], d, m) => m \in Messages'
    <3>1. PICK m \in Messages : Awaits(prediction[d], d, m)
      BY <2>1, PendingMeans
    <3>2. m \in Messages' /\ Awaits(prediction'[d], d, m)
      BY <2>1, <3>1, WaitKept
    <3> QED
      BY <3>2
  <2> QED
    BY <1>1, <2>1
<1>2. PendingHasAnswer' <=>
        \A c \in Live' : prediction'[c].pending => \E m \in Messages' : Awaits(prediction'[c], c, m)
  BY DEF PendingHasAnswer, Awaited, Awaits, Messages
<1> QED
  BY <1>1, <1>2

\* What enqueueing leaves in place and adds.
LEMMA MessagesGrow ==
  ASSUME TypeOK, NEW more \in Seq(Message), queue' = queue \o more, posted' = posted
  PROVE  Messages \subseteq Messages' /\ \A k \in DOMAIN more : more[k] \in Messages'
<1>1. queue \in Seq(Message)
  BY DEF TypeOK
<1>2. \A k \in DOMAIN queue : k \in DOMAIN queue' /\ queue'[k] = queue[k]
  BY <1>1, ConcatProperties, LenProperties
<1>3. \A k \in DOMAIN more : \E j \in DOMAIN queue' : queue'[j] = more[k]
  <2> TAKE k \in DOMAIN more
  <2>1. k + Len(queue) \in DOMAIN queue' /\ queue'[k + Len(queue)] = more[k]
    BY <1>1, ConcatProperties, LenProperties
  <2> QED
    BY <2>1
<1> QED
  BY ZenonT(60), <1>2, <1>3 DEF Messages

\* A result of a user action.
LEMMA ApplyWaits ==
  ASSUME TypeOK, PendingHasAnswer, attached' = attached, NEW c \in Live, NEW r \in Result,
         Apply(c, r), AsksOrJoins(c, prediction[c], r)
  PROVE  PendingHasAnswer'
<1>1. c \in Contexts /\ Live' = Live
  BY DEF Live
<1>2. prediction' = [prediction EXCEPT ![c] = r.prediction] /\ prediction \in [Contexts -> PredictionState]
  BY DEF Apply, TypeOK
<1>3. r.requests \in Seq(Message)
  BY DEF Result
<1>4. Messages \subseteq Messages' /\ \A k \in DOMAIN r.requests : r.requests[k] \in Messages'
  BY <1>3, MessagesGrow DEF Apply
<1>5. ASSUME NEW d \in Live', prediction'[d].pending
      PROVE  \/ \E m \in Messages' : Awaits(prediction'[d], d, m)
             \/ /\ d \in Live /\ prediction[d].pending /\ SameWait(prediction[d], prediction'[d])
                /\ \A m \in Messages : Awaits(prediction[d], d, m) => m \in Messages'
  <2>1. CASE d = c
    <3>1. prediction'[d] = r.prediction
      BY <1>1, <1>2, <2>1
    <3> QED
      BY <1>4, <1>5, <2>1, <3>1 DEF AsksOrJoins, Asks
  <2>2. CASE d # c
    <3>1. d \in Live /\ prediction'[d] = prediction[d]
      BY <1>1, <1>2, <2>2 DEF Live
    <3> QED
      BY <1>4, <1>5, <3>1 DEF SameWait
  <2> QED
    BY <2>1, <2>2
<1> QED
  BY <1>5, WaitStep

\* A result of a posted answer, which is gone afterwards.
LEMMA HandledWaits ==
  ASSUME TypeOK, PendingHasAnswer, posted # <<>>, NEW c \in Contexts, NEW r \in Result,
         c = Head(posted).request.context, Handled(c, r), Asks(c, r)
  PROVE  PendingHasAnswer'
<1>1. prediction' = [prediction EXCEPT ![c] = r.prediction] /\ prediction \in [Contexts -> PredictionState]
      /\ Live' = Live
  BY DEF Handled, TypeOK, Live
<1>2. queue \in Seq(Message) /\ r.requests \in Seq(Message) /\ queue' = queue \o r.requests
  BY DEF Result, TypeOK, Handled
<1>3. \A m \in Messages : m.context # c => m \in Messages'
  <2>1. \A k \in DOMAIN queue : k \in DOMAIN queue' /\ queue'[k] = queue[k]
    BY <1>2, ConcatProperties, LenProperties
  <2>2. \A k \in DOMAIN posted : posted[k].request.context # c => \E j \in DOMAIN posted' : posted'[j] = posted[k]
    <3> SUFFICES ASSUME NEW k \in DOMAIN posted, k # 1 PROVE \E j \in DOMAIN posted' : posted'[j] = posted[k]
      BY HeadTailProperties DEF TypeOK
    <3>1. posted \in Seq(Response) /\ posted' = Tail(posted)
      BY DEF TypeOK, Handled
    <3>2. k - 1 \in DOMAIN posted' /\ posted'[k - 1] = posted[k]
      BY <3>1, HeadTailProperties, LenProperties
    <3> QED
      BY <3>2
  <2> QED
    BY <2>1, <2>2 DEF Messages
<1>4. \A k \in DOMAIN r.requests : \E j \in DOMAIN queue' : queue'[j] = r.requests[k]
  <2> TAKE k \in DOMAIN r.requests
  <2>1. k + Len(queue) \in DOMAIN queue' /\ queue'[k + Len(queue)] = r.requests[k]
    BY <1>2, ConcatProperties, LenProperties, SMTT(20)
  <2> QED
    BY <2>1
<1>5. ASSUME NEW d \in Live', prediction'[d].pending
      PROVE  \/ \E m \in Messages' : Awaits(prediction'[d], d, m)
             \/ /\ d \in Live /\ prediction[d].pending /\ SameWait(prediction[d], prediction'[d])
                /\ \A m \in Messages : Awaits(prediction[d], d, m) => m \in Messages'
  <2>1. CASE d = c
    <3>1. prediction'[d] = r.prediction
      BY <1>1, <2>1
    <3> QED
      BY <1>4, <1>5, <2>1, <3>1 DEF Asks, Messages
  <2>2. CASE d # c
    <3>1. d \in Live /\ prediction'[d] = prediction[d]
      BY <1>1, <2>2 DEF Live
    <3>2. \A m \in Messages : Awaits(prediction[d], d, m) => m \in Messages'
      BY <1>3, <2>2 DEF Awaits
    <3> QED
      BY <1>5, <3>1, <3>2 DEF SameWait
  <2> QED
    BY <2>1, <2>2
<1> QED
  BY <1>5, WaitStep

\* A step that changes no waiting context and loses no message.
LEMMA StillWaits ==
  ASSUME PendingHasAnswer, \A m \in Messages : m.kind # "close" => m \in Messages',
         \A d \in Live' : prediction'[d].pending => d \in Live /\ prediction'[d] = prediction[d]
  PROVE  PendingHasAnswer'
<1>1. ASSUME NEW d \in Live', prediction'[d].pending
      PROVE  /\ d \in Live /\ prediction[d].pending /\ SameWait(prediction[d], prediction'[d])
             /\ \A m \in Messages : Awaits(prediction[d], d, m) => m \in Messages'
  BY <1>1 DEF SameWait, Awaits
<1> QED
  BY <1>1, WaitStep

\* What the proved invariants say of one live context.
LEMMA LiveState ==
  ASSUME TypeOK, RequestsFollowRevisions, NEW c \in Live
  PROVE  /\ c \in Contexts /\ prediction[c] \in PredictionState /\ buffer[c] \in CompositionBuffer
         /\ \A p \in {prediction[c], mark_dirty(prediction[c])} :
              /\ p \in PredictionState
              /\ ~p.pending => p.inflight_request_id = None
              /\ SameWait(prediction[c], p)
              /\ p.pending => prediction[c].pending
<1>1. c \in Contexts /\ StateDescribes(prediction[c], buffer[c])
  BY LiveBase
<1>2. prediction[c] \in PredictionState /\ mark_dirty(prediction[c]) \in PredictionState
      /\ buffer[c] \in CompositionBuffer
  BY <1>1, EditBase
<1>3. /\ mark_dirty(prediction[c]).pending = prediction[c].pending
      /\ mark_dirty(prediction[c]).inflight_request_id = prediction[c].inflight_request_id
      /\ SameWait(prediction[c], mark_dirty(prediction[c]))
  BY <1>2 DEF mark_dirty, SameWait, PredictionState
<1>4. ~prediction[c].pending => prediction[c].inflight_request_id = None
  BY <1>1 DEF StateDescribes
<1> QED
  BY <1>1, <1>2, <1>3, <1>4 DEF SameWait

\* An edit that asks for a prediction starts a request or joins the pending one.
LEMMA EditWaits ==
  ASSUME TypeOK, RequestsFollowRevisions, PendingHasAnswer, attached' = attached, NEW c \in Live,
         NEW segs \in Seq(Segment), NEW p \in {prediction[c], mark_dirty(prediction[c])},
         Edit(c, segs, p) \/ EditAndRequest(c, segs, p)
  PROVE  PendingHasAnswer'
<1> DEFINE b == Touched(buffer[c], segs)
<1>1. b \in CompositionBuffer /\ p \in PredictionState
  BY LiveState, BufferTypes
<1> HIDE DEF b
<1>2. CASE Edit(c, segs, p)
  <2> DEFINE r == [buffer |-> b, prediction |-> p, requests |-> <<>>]
  <2>1. r \in Result
    BY <1>1, EmptySeq DEF Result
  <2>2. AsksOrJoins(c, prediction[c], r)
    BY LiveState DEF AsksOrJoins, Asks
  <2>3. Apply(c, r)
    BY <1>2 DEF Edit, b
  <2> QED
    BY <2>1, <2>2, <2>3, ApplyWaits
<1>3. CASE EditAndRequest(c, segs, p)
  <2> DEFINE r == request_prediction(c, p, b, phrases)
  <2>1. r \in Result
    BY <1>1, LiveState, RequestType
  <2>2. AsksOrJoins(c, p, r)
    BY <1>1, LiveState, RequestAsksOrJoins
  <2>3. Apply(c, r)
    BY <1>3 DEF EditAndRequest, b
  <2> HIDE DEF r
  <2>4. AsksOrJoins(c, prediction[c], r)
    <3>1. SameWait(prediction[c], p) /\ (p.pending => prediction[c].pending)
      BY LiveState
    <3> QED
      BY <2>2, <3>1 DEF AsksOrJoins, SameWait
  <2> QED
    BY <2>1, <2>3, <2>4, ApplyWaits
<1> QED
  BY <1>2, <1>3

\* A context that was never used does not wait.
NewIsIdle == \A c \in Contexts : attached[c] = "new" => ~prediction[c].pending

\* Every action of the user keeps the waited-for messages.
LEMMA UserActionWaits ==
  ASSUME TypeOK, RequestsFollowRevisions, NewIsIdle, PendingHasAnswer, NEW c \in Contexts, UserAction(c)
  PROVE  PendingHasAnswer'
<1> USE DEF Editable
<1>1. CASE Attach(c)
  <2>1. \A m \in Messages : m \in Messages'
    BY <1>1 DEF Attach, Messages
  <2>2. \A d \in Live' : prediction'[d].pending => d \in Live /\ prediction'[d] = prediction[d]
    BY <1>1 DEF Attach, Live, NewIsIdle, TypeOK
  <2> QED
    BY <2>1, <2>2, StillWaits
<1>2. CASE Edits(c)
  <2>1. c \in Live /\ attached' = attached
    BY <1>2, EditForm
  <2>2. PICK segs \in Seq(Matching), p \in {prediction[c], mark_dirty(prediction[c])} :
          Edit(c, segs, p) \/ EditAndRequest(c, segs, p)
    BY <1>2, EditForm
  <2> QED
    BY <2>1, <2>2, MatchingSeq, EditWaits
<1>3. CASE DeleteNothing(c) \/ StorePhrase(c)
  <2>1. PICK p \in {prediction[c], mark_dirty(prediction[c])} :
          \E b : Apply(c, [buffer |-> b, prediction |-> p, requests |-> <<>>])
    <3>1. CASE DeleteNothing(c)
      BY <3>1 DEF DeleteNothing
    <3>2. CASE StorePhrase(c)
      BY <3>2 DEF StorePhrase
    <3> QED
      BY <1>3, <3>1, <3>2
  <2>2. c \in Live /\ attached' = attached
    BY <1>3 DEF DeleteNothing, StorePhrase
  <2>3. queue' = queue \o <<>> /\ posted' = posted
    BY <2>1 DEF Apply
  <2>4. \A m \in Messages : m \in Messages'
    BY <2>3, EmptySeq, MessagesGrow
  <2>5. prediction' = [prediction EXCEPT ![c] = p]
    BY <2>1 DEF Apply
  <2>6. ASSUME NEW d \in Live', prediction'[d].pending
        PROVE  d \in Live /\ prediction[d].pending /\ SameWait(prediction[d], prediction'[d])
    BY <2>2, <2>5, <2>6, LiveState DEF Live, SameWait, TypeOK
  <2> QED
    BY <2>4, <2>6, WaitStep
<1>4. CASE Commit(c) \/ Reset(c)
  <2>1. PICK p \in {clear_pending(prediction[c]), invalidate(prediction[c])} :
          Apply(c, [buffer |-> clear(buffer[c]), prediction |-> p, requests |-> <<>>])
    BY <1>4 DEF Commit, Reset
  <2>2. c \in Live /\ attached' = attached
    BY <1>4 DEF Commit, Reset
  <2>3. p \in PredictionState /\ ~p.pending
    BY <2>1, EditBase, ClearedState
  <2> DEFINE r == [buffer |-> clear(buffer[c]), prediction |-> p, requests |-> <<>>]
  <2>4. r \in Result
    BY <2>3, EditBase, BufferTypes, EmptySeq DEF Result
  <2>5. AsksOrJoins(c, prediction[c], r)
    BY <2>3 DEF AsksOrJoins, Asks
  <2> QED
    BY <2>1, <2>2, <2>4, <2>5, ApplyWaits
<1>5. CASE Detach(c)
  <2>1. \A d \in Live' : d \in Live /\ prediction'[d] = prediction[d]
    BY <1>5 DEF Detach, Apply, Live, TypeOK
  <2>2. Closing(prediction[c]) \in Seq(Message)
    BY EditBase, ClosingType
  <2>3. queue' = queue \o Closing(prediction[c]) /\ posted' = posted
    BY <1>5 DEF Detach, Apply
  <2>4. \A m \in Messages : m \in Messages'
    BY <2>2, <2>3, MessagesGrow
  <2> QED
    BY <2>1, <2>4, StillWaits
<1> QED
  BY <1>1, <1>2, <1>3, <1>4, <1>5 DEF UserAction, Edits

\* Configuration changes and restarts end every wait.
LEMMA ConfigWaits ==
  ASSUME TypeOK, PendingHasAnswer, SetConfig \/ SetTransportOptions
  PROVE  PendingHasAnswer'
<1>1. ASSUME NEW d \in Live' PROVE ~prediction'[d].pending
  <2>1. d \in Live /\ d \in Contexts
    BY DEF SetConfig, SetTransportOptions, Live
  <2>2. prediction'[d] \in {SettledPrediction(prediction[d]), RestartedPrediction(prediction[d])}
    BY <2>1 DEF SetConfig, SetTransportOptions
  <2> QED
    BY <2>1, <2>2, EditBase, ClearedState
<1> QED
  BY <1>1, WaitStep

\* The worker moves a request on; only a Close leaves the queue for good.
LEMMA ServeWaits ==
  ASSUME TypeOK, PendingHasAnswer, Serve \/ ForgetSessions
  PROVE  PendingHasAnswer'
<1>1. UNCHANGED <<attached, prediction>>
  BY DEF Serve, ServeFails, ServeOpen, ServePredict, ServeClose, Answer, ForgetSessions
<1>2. \A m \in Messages : m.kind # "close" => m \in Messages'
  <2>1. CASE ForgetSessions
    BY <2>1 DEF ForgetSessions, Messages
  <2>2. CASE Serve
    <3>1. queue # <<>> /\ queue' = Tail(queue) /\ queue \in Seq(Message) /\ posted \in Seq(Response)
      BY <2>2 DEF Serve, ServeFails, ServeOpen, ServePredict, ServeClose, Answer, TypeOK
    <3>2. \A k \in DOMAIN queue : queue[k] # Head(queue) => \E j \in DOMAIN queue' : queue'[j] = queue[k]
      <4> SUFFICES ASSUME NEW k \in DOMAIN queue, k # 1 PROVE \E j \in DOMAIN queue' : queue'[j] = queue[k]
        BY <3>1, HeadTailProperties
      <4>1. k - 1 \in DOMAIN queue' /\ queue'[k - 1] = queue[k]
        BY <3>1, HeadTailProperties, LenProperties
      <4> QED
        BY <4>1
    <3>3. \/ posted' = posted /\ Head(queue).kind = "close"
          \/ \E code, sid : posted' = Append(posted, Reply(Head(queue), code, sid))
      BY <2>2 DEF Serve, ServeFails, ServeOpen, ServePredict, ServeClose, Answer
    <3>4. CASE posted' = posted /\ Head(queue).kind = "close"
      BY <3>2, <3>4 DEF Messages
    <3>5. ASSUME NEW code, NEW sid, posted' = Append(posted, Reply(Head(queue), code, sid))
          PROVE  \A m \in Messages : m \in Messages'
      <4>1. \A k \in DOMAIN posted : k \in DOMAIN posted' /\ posted'[k] = posted[k]
        BY <3>1, <3>5, AppendProperties, LenProperties
      <4>2. Len(posted) + 1 \in DOMAIN posted' /\ posted'[Len(posted) + 1] = Reply(Head(queue), code, sid)
        BY <3>1, <3>5, AppendProperties, LenProperties
      <4>3. Head(queue) \in Messages'
        BY <4>2 DEF Messages, Reply
      <4> QED
        BY <3>2, <4>1, <4>3 DEF Messages
    <3> QED
      BY <3>3, <3>4, <3>5
  <2> QED
    BY <2>1, <2>2
<1> QED
  BY <1>1, <1>2, StillWaits DEF Live

\* A response that is consumed was not awaited, or ends the wait.
LEMMA DeliverWaits ==
  ASSUME TypeOK, RequestsFollowRevisions, PendingHasAnswer, Deliver
  PROVE  PendingHasAnswer'
<1> DEFINE c == Head(posted).request.context
           p == prediction[c]
           b == buffer[c]
<1>1. CASE IgnoreReply
  <2>1. posted # <<>> /\ posted' = Tail(posted) /\ queue' = queue /\ posted \in Seq(Response)
        /\ Ignored(Head(posted)) /\ UNCHANGED <<attached, prediction>>
    BY <1>1 DEF IgnoreReply, TypeOK
  <2>2. Head(posted) \in Response
    BY <2>1, HeadTailProperties
  <2>3. \A m \in Messages : m # Head(posted).request => m \in Messages'
    <3>1. \A k \in DOMAIN posted : posted[k] # Head(posted) => \E j \in DOMAIN posted' : posted'[j] = posted[k]
      <4> SUFFICES ASSUME NEW k \in DOMAIN posted, k # 1 PROVE \E j \in DOMAIN posted' : posted'[j] = posted[k]
        BY <2>1, HeadTailProperties
      <4>1. k - 1 \in DOMAIN posted' /\ posted'[k - 1] = posted[k]
        BY <2>1, HeadTailProperties, LenProperties
      <4> QED
        BY <4>1
    <3> QED
      BY <2>1, <3>1 DEF Messages
  <2>4. ASSUME NEW d \in Live, prediction[d].pending
        PROVE  ~Awaits(prediction[d], d, Head(posted).request)
    BY <2>1, <2>2, <2>4 DEF Awaits, Ignored, Stale, correlates_prediction, correlates_error, Response
  <2>5. ASSUME NEW d \in Live', prediction'[d].pending
        PROVE  /\ d \in Live /\ prediction[d].pending /\ SameWait(prediction[d], prediction'[d])
               /\ \A m \in Messages : Awaits(prediction[d], d, m) => m \in Messages'
    BY <2>1, <2>3, <2>4, <2>5 DEF Live, SameWait
  <2> QED
    BY <2>5, WaitStep
<1>2. CASE SessionOpened
  <2> DEFINE q == [p EXCEPT !.session_id = Head(posted).session_id]
  <2>1. posted # <<>> /\ ~Ignored(Head(posted)) /\ Handled(c, send_prediction(c, q, b))
    BY <1>2 DEF SessionOpened
  <2>2. q \in PredictionState
    BY <2>1, DeliverBase, StateTypes DEF Response
  <2> HIDE DEF q
  <2>3. send_prediction(c, q, b) \in Result /\ Asks(c, send_prediction(c, q, b))
    BY <2>1, <2>2, DeliverBase, SendType, SendAsks
  <2> QED
    BY <2>1, <2>3, DeliverBase, HandledWaits
<1>3. CASE OpenFailed \/ PredictionFailed
  <2>1. posted # <<>> /\ ~Ignored(Head(posted))
    BY <1>3 DEF OpenFailed, PredictionFailed
  <2>2. PICK q \in {p, WithoutSession(p)} : Handled(c, FallBack(c, q, b, phrases))
    BY <1>3 DEF OpenFailed, PredictionFailed
  <2>3. q \in PredictionState
    BY <2>1, <2>2, DeliverBase, StateTypes
  <2>4. FallBack(c, q, b, phrases) \in Result /\ Asks(c, FallBack(c, q, b, phrases))
    BY <2>1, <2>3, DeliverBase, FallBackType, FallBackAsks
  <2> QED
    BY <2>1, <2>2, <2>4, DeliverBase, HandledWaits
<1>4. CASE PredictionArrived
  <2> DEFINE b1 == apply_prediction(b, p.segment_indices, Head(posted).request.padding)
             b2 == apply_phrase_override(b1, phrases)
  <2>1. posted # <<>> /\ ~Ignored(Head(posted)) /\ Head(posted).request.kind = "predict"
        /\ Head(posted).code = "ok"
    BY <1>4 DEF PredictionArrived
  <2>2. CASE matches_composition(p, b, Head(posted).request.padding)
    <3>1. Handled(c, Finish(c, p, b2, phrases))
      BY <1>4, <2>2 DEF PredictionArrived
    <3>2. b2 \in CompositionBuffer
      <4>1. Head(posted).request \in Message
        BY <2>1, DeliverBase DEF Response
      <4>2. Head(posted).request.padding \in Seq(PaddingEntry)
        BY <2>1, <4>1 DEF Message
      <4>3. p.segment_indices \in Seq(Nat)
            /\ Len(Head(posted).request.padding) = Len(p.segment_indices)
        BY <2>1, <2>2, DeliverBase DEF PredictionState, matches_composition
      <4> QED
        BY <2>1, <4>2, <4>3, DeliverBase, ApplyPredictionType, PhraseOverrideType
    <3>3. Finish(c, p, b2, phrases) \in Result /\ Asks(c, Finish(c, p, b2, phrases))
      BY <2>1, <3>2, DeliverBase, FinishType, FinishAsks
    <3> QED
      BY <2>1, <3>1, <3>3, DeliverBase, HandledWaits
  <2>3. CASE ~matches_composition(p, b, Head(posted).request.padding)
    <3>1. Handled(c, FallBack(c, p, b, phrases))
      BY <1>4, <2>3 DEF PredictionArrived
    <3>2. FallBack(c, p, b, phrases) \in Result /\ Asks(c, FallBack(c, p, b, phrases))
      BY <2>1, DeliverBase, FallBackType, FallBackAsks
    <3> QED
      BY <2>1, <3>1, <3>2, DeliverBase, HandledWaits
  <2> QED
    BY <2>2, <2>3
<1> QED
  BY <1>1, <1>2, <1>3, <1>4 DEF Deliver

\* Nothing but a user's first key ends a context's being new, and nothing
\* before it touches the context.
LEMMA OnlyLiveChange ==
  ASSUME TypeOK, RequestsFollowRevisions, [Next]_vars, NEW c \in Contexts, attached'[c] = "new"
  PROVE  attached[c] = "new" /\ prediction'[c] = prediction[c]
<1>1. ASSUME NEW d \in Contexts, UserAction(d)
      PROVE  attached[c] = "new" /\ prediction'[c] = prediction[c]
  <2>1. CASE Attach(d)
    BY <2>1 DEF Attach, TypeOK
  <2>2. CASE Edits(d)
    BY <2>2, EditForm DEF Edit, EditAndRequest, Apply, Live, TypeOK
  <2>3. CASE DeleteNothing(d) \/ StorePhrase(d) \/ Commit(d) \/ Reset(d) \/ Detach(d)
    BY <2>3 DEF DeleteNothing, StorePhrase, Commit, Reset, Detach, Apply, Editable, Live, TypeOK
  <2> QED
    BY <1>1, <2>1, <2>2, <2>3 DEF UserAction, Edits
<1>2. CASE SetConfig
  BY <1>2 DEF SetConfig, Live
<1>3. CASE SetTransportOptions
  BY <1>3 DEF SetTransportOptions, Live
<1>4. CASE Serve \/ ForgetSessions
  BY <1>4 DEF Serve, ServeFails, ServeOpen, ServePredict, ServeClose, Answer, ForgetSessions
<1>5. CASE Deliver
  <2>1. CASE IgnoreReply
    BY <2>1 DEF IgnoreReply
  <2>2. CASE ~IgnoreReply
    <3>1. posted # <<>> /\ ~Ignored(Head(posted))
      BY <1>5, <2>2 DEF Deliver, SessionOpened, OpenFailed, PredictionArrived, PredictionFailed
    <3>2. Head(posted).request.context \in Live
      BY <3>1, DeliverBase
    <3>3. \E r : Handled(Head(posted).request.context, r)
      BY <1>5, <2>2 DEF Deliver, SessionOpened, OpenFailed, PredictionArrived, PredictionFailed
    <3> QED
      BY <3>2, <3>3 DEF Handled, Live, TypeOK
  <2> QED
    BY <2>1, <2>2
<1>6. CASE UNCHANGED vars
  BY <1>6 DEF vars
<1> QED
  BY <1>1, <1>2, <1>3, <1>4, <1>5, <1>6 DEF Next

\* Every step keeps the waited-for messages.
LEMMA NextWaits ==
  ASSUME TypeOK, RequestsFollowRevisions, NewIsIdle, PendingHasAnswer, [Next]_vars
  PROVE  NewIsIdle' /\ PendingHasAnswer'
<1>1. NewIsIdle'
  BY OnlyLiveChange DEF NewIsIdle
<1>2. CASE UNCHANGED vars
  <2>1. Messages' = Messages /\ prediction' = prediction /\ attached' = attached
    BY <1>2 DEF vars, Messages
  <2> QED
    BY <1>1, <2>1, StillWaits DEF Live
<1> QED
  BY <1>1, <1>2, UserActionWaits, ConfigWaits, ServeWaits, DeliverWaits DEF Next

\* A context that waits for candidates is never forgotten, whatever commits,
\* resets, failures and service restarts happen meanwhile: there is always a
\* queued request or a response under way that begin() can rely on when it
\* only marks the request dirty.
THEOREM WaitingIsNeverForgotten == Spec => []PendingHasAnswer
<1>1. ASSUME Init PROVE NewIsIdle /\ PendingHasAnswer
  <2>1. \A c \in Contexts : attached[c] = "new" /\ prediction[c].pending = FALSE
    BY <1>1 DEF Init, InitialPrediction
  <2> QED
    BY <2>1 DEF NewIsIdle, PendingHasAnswer, Live
<1>2. TypeOK /\ RequestsFollowRevisions /\ NewIsIdle /\ PendingHasAnswer /\ [Next]_vars
        => NewIsIdle' /\ PendingHasAnswer'
  BY NextWaits
<1> QED
  BY <1>1, <1>2, TypeCorrect, RequestsDescribeCompositions, PTL DEF Spec

-----------------------------------------------------------------------------
(* The order of requests and the sessions they use *)

\* What the service must not see turned round: request ids of a session, which
\* are those of its context, grow, and nothing follows a session's Close.
Before(m, n) ==
  n.kind = "predict" =>
    /\ m.kind = "predict" /\ (m.context = n.context \/ m.session_id = n.session_id)
         => m.request_id < n.request_id
    /\ m.kind = "close" => m.session_id # n.session_id

\* Responses ps whose requests were sent before the requests q.
InLine(ps, q) ==
  /\ \A i, j \in DOMAIN q : i < j => Before(q[i], q[j])
  /\ \A i, j \in DOMAIN ps : i < j => Before(ps[i].request, ps[j].request)
  /\ \A i \in DOMAIN ps, j \in DOMAIN q : Before(ps[i].request, q[j])

\* A context that waits has a session exactly when it has sent its prediction
\* request, which is the last one it sent.
Coherent(p) ==
  /\ p.dirty => p.pending
  /\ p.inflight_request_id # None =>
       p.pending /\ session_open(p) /\ p.inflight_request_id + 1 = p.next_request_id
  /\ p.pending /\ session_open(p) => p.inflight_request_id # None

\* What the state p of context c says of a message that is still on its way.
\* A context that has no session sent no prediction request since the last reset.
Fits(p, c, m) ==
  /\ m.kind = "predict" /\ m.context = c =>
       /\ m.request_id # None /\ m.request_id < p.next_request_id
       /\ m.generation <= p.generation
       /\ m.generation = p.generation => session_open(p)
       /\ m.request_id = p.inflight_request_id =>
            m.session_id = p.session_id /\ m.buffer_revision = p.inflight_revision
  /\ m.kind = "predict" /\ session_open(p) /\ m.session_id = p.session_id => m.context = c
  /\ m.kind = "close" /\ session_open(p) => m.session_id # p.session_id

StatesFit ==
  \A c \in Contexts : Known(c) =>
    Coherent(prediction[c]) /\ \A m \in Messages : Fits(prediction[c], c, m)

\* The k-th response hands out a session.
Opens(k) == posted[k].request.kind = "open" /\ posted[k].code = "ok"

\* A session that no context has been told of is not used yet.
IsFresh(k) ==
  LET s == posted[k].session_id
  IN  /\ s \in 1..sessions_opened
      /\ s \in DOMAIN service => service[s] = 0
      /\ \A c \in Contexts : Known(c) => prediction[c].session_id # s
      /\ \A m \in Messages : m.kind # "open" => m.session_id # s
      /\ \A j \in DOMAIN posted : Opens(j) /\ posted[j].session_id = s => j = k

OpenedAreFresh == \A k \in DOMAIN posted : Opens(k) => IsFresh(k)

\* Sessions belong to one context each, and the service has seen smaller
\* request ids than those that are still to come.
SessionsAreOwned ==
  /\ \A m \in Messages : m.kind # "open" => m.session_id \in 1..sessions_opened
  /\ \A c \in Contexts : Known(c) =>
       /\ prediction[c].session_id <= sessions_opened
       /\ prediction[c].session_id \in DOMAIN service =>
            service[prediction[c].session_id] < prediction[c].next_request_id
  /\ \A c, d \in Contexts :
       Known(c) /\ Known(d) /\ session_open(prediction[c])
         /\ prediction[c].session_id = prediction[d].session_id => c = d
  /\ \A k \in DOMAIN queue : queue[k].kind = "predict" /\ queue[k].session_id \in DOMAIN service
                              => service[queue[k].session_id] < queue[k].request_id

RequestsKeepOrder == InLine(posted, queue) /\ StatesFit /\ OpenedAreFresh /\ SessionsAreOwned

\* Sending more requests keeps the order when each may follow what was sent.
LEMMA LineGrows ==
  ASSUME NEW ps \in Seq(Response), NEW q \in Seq(Message), NEW more \in Seq(Message),
         InLine(ps, q),
         \A k \in DOMAIN more : /\ \A i \in DOMAIN q : Before(q[i], more[k])
                                /\ \A i \in DOMAIN ps : Before(ps[i].request, more[k]),
         \A k, l \in DOMAIN more : k < l => Before(more[k], more[l])
  PROVE  InLine(ps, q \o more)
<1> DEFINE all == q \o more
<1>1. \A i \in DOMAIN all : \/ i \in DOMAIN q /\ all[i] = q[i]
                            \/ i - Len(q) \in DOMAIN more /\ all[i] = more[i - Len(q)] /\ i > Len(q)
  BY ConcatProperties, LenProperties
<1>2. Len(q) \in Nat /\ DOMAIN q = 1..Len(q) /\ DOMAIN more \subseteq Nat /\ DOMAIN all \subseteq Nat
  BY ConcatProperties, LenProperties
<1> HIDE DEF all
<1>3. ASSUME NEW i \in DOMAIN all, NEW j \in DOMAIN all, i < j
      PROVE  Before(all[i], all[j])
  <2>1. CASE j \in DOMAIN q /\ all[j] = q[j]
    <3>1. i \in DOMAIN q /\ all[i] = q[i]
      BY <1>1, <1>2, <1>3, <2>1
    <3> QED
      BY <1>3, <2>1, <3>1 DEF InLine
  <2>2. CASE j - Len(q) \in DOMAIN more /\ all[j] = more[j - Len(q)]
    <3>1. CASE i \in DOMAIN q /\ all[i] = q[i]
      BY <2>2, <3>1
    <3>2. CASE i - Len(q) \in DOMAIN more /\ all[i] = more[i - Len(q)]
      <4>1. i - Len(q) < j - Len(q)
        BY <1>2, <1>3
      <4> QED
        BY <2>2, <3>2, <4>1
    <3> QED
      BY <1>1, <1>3, <3>1, <3>2
  <2> QED
    BY <1>1, <1>3, <2>1, <2>2
<1>4. ASSUME NEW i \in DOMAIN ps, NEW j \in DOMAIN all
      PROVE  Before(ps[i].request, all[j])
  BY <1>1 DEF InLine
<1>5. \A i, j \in DOMAIN ps : i < j => Before(ps[i].request, ps[j].request)
  BY DEF InLine
<1> QED
  BY <1>3, <1>4, <1>5 DEF InLine, all

\* Taking the oldest response keeps the order of the others.
LEMMA LineTaken ==
  ASSUME NEW ps \in Seq(Response), NEW q \in Seq(Message), InLine(ps, q), ps # <<>>
  PROVE  /\ InLine(Tail(ps), q)
         /\ \A i \in DOMAIN Tail(ps) : Before(Head(ps).request, Tail(ps)[i].request)
         /\ \A j \in DOMAIN q : Before(Head(ps).request, q[j])
<1>1. \A i \in DOMAIN Tail(ps) : i + 1 \in DOMAIN ps /\ Tail(ps)[i] = ps[i + 1] /\ i \in Nat /\ 1 < i + 1
  BY TailElements, HeadTailProperties, LenProperties
<1>2. 1 \in DOMAIN ps /\ Head(ps) = ps[1]
  BY HeadTailProperties, LenProperties
<1>3. \A i, j \in DOMAIN Tail(ps) : i < j => i + 1 < j + 1
  BY <1>1
<1> QED
  BY <1>1, <1>2, <1>3 DEF InLine

\* A request that is answered keeps its place.
LEMMA LineAnswered ==
  ASSUME NEW ps \in Seq(Response), NEW q \in Seq(Message), InLine(ps, q), q # <<>>
  PROVE  /\ InLine(ps, Tail(q))
         /\ \A j \in DOMAIN Tail(q) : Before(Head(q), Tail(q)[j])
         /\ \A reply \in Response : reply.request = Head(q) => InLine(Append(ps, reply), Tail(q))
<1>1. \A i \in DOMAIN Tail(q) : i + 1 \in DOMAIN q /\ Tail(q)[i] = q[i + 1] /\ i \in Nat /\ 1 < i + 1
  BY TailElements, HeadTailProperties, LenProperties
<1>2. 1 \in DOMAIN q /\ Head(q) = q[1]
  BY HeadTailProperties, LenProperties
<1>3. \A i, j \in DOMAIN Tail(q) : i < j => i + 1 < j + 1
  BY <1>1
<1>4. InLine(ps, Tail(q)) /\ \A j \in DOMAIN Tail(q) : Before(Head(q), Tail(q)[j])
  BY <1>1, <1>2, <1>3 DEF InLine
<1>5. ASSUME NEW reply \in Response, reply.request = Head(q)
      PROVE  InLine(Append(ps, reply), Tail(q))
  <2> DEFINE more == Append(ps, reply)
  <2>1. \A i \in DOMAIN more : i \in Nat /\ \/ i \in DOMAIN ps /\ more[i] = ps[i]
                                            \/ i = Len(ps) + 1 /\ more[i] = reply
    BY AppendProperties, LenProperties
  <2>2. Len(ps) \in Nat /\ DOMAIN ps = 1..Len(ps)
    BY LenProperties
  <2> HIDE DEF more
  <2>3. ASSUME NEW i \in DOMAIN more, NEW j \in DOMAIN more, i < j
        PROVE  Before(more[i].request, more[j].request)
    <3>1. i \in DOMAIN ps /\ more[i] = ps[i]
      BY <2>1, <2>2, <2>3
    <3>2. CASE j \in DOMAIN ps /\ more[j] = ps[j]
      BY <2>3, <3>1, <3>2 DEF InLine
    <3>3. CASE more[j] = reply
      BY <1>2, <1>5, <3>1, <3>3 DEF InLine
    <3> QED
      BY <2>1, <3>2, <3>3
  <2>4. ASSUME NEW i \in DOMAIN more, NEW j \in DOMAIN Tail(q)
        PROVE  Before(more[i].request, Tail(q)[j])
    <3>1. CASE i \in DOMAIN ps /\ more[i] = ps[i]
      BY <1>4, <3>1 DEF InLine
    <3>2. CASE more[i] = reply
      BY <1>4, <1>5, <3>2
    <3> QED
      BY <2>1, <3>1, <3>2
  <2>5. \A i, j \in DOMAIN Tail(q) : i < j => Before(Tail(q)[i], Tail(q)[j])
    BY <1>4 DEF InLine
  <2> QED
    BY <2>3, <2>4, <2>5 DEF InLine, more
<1> QED
  BY <1>4, <1>5

\* Failing everything that is queued answers it in its order.
LEMMA LineFailed ==
  ASSUME NEW ps \in Seq(Response), NEW q \in Seq(Message), InLine(ps, q)
  PROVE  InLine(ps \o Failures(q), <<>>)
<1> DEFINE S == {i \in 1..Len(q) : q[i].kind \in {"open", "predict"}}
           A == Ascending(S, Len(q))
           F == Failures(q)
           all == ps \o F
<1>1. Len(q) \in Nat /\ DOMAIN q = 1..Len(q) /\ S \in SUBSET (1..Len(q)) /\ DOMAIN ps = 1..Len(ps) /\ Len(ps) \in Nat
  BY LenProperties
<1>2. PositionsOf(q, {"open", "predict"}) = A
  BY DEF PositionsOf
<1> HIDE DEF S
<1>3. /\ Cardinality(S) \in Nat /\ DOMAIN Keep(q, S) = 1..Cardinality(S)
      /\ \A k \in DOMAIN Keep(q, S) : A[k] \in S
      /\ \A k, l \in DOMAIN Keep(q, S) : k < l => A[k] < A[l]
  BY <1>1, KeptElements DEF Keep
<1>4. DOMAIN A = 1..Cardinality(S)
  BY DEF Ascending
<1> HIDE DEF A
<1>5. /\ F \in Seq(Response) /\ DOMAIN F = DOMAIN A
      /\ \A k \in DOMAIN F : F[k].request = q[A[k]]
  BY <1>2, FailuresType DEF Failures, Reply
<1> HIDE DEF F
<1>6. \A i \in DOMAIN all : \/ i \in DOMAIN ps /\ all[i] = ps[i]
                            \/ i - Len(ps) \in DOMAIN F /\ all[i] = F[i - Len(ps)] /\ i > Len(ps)
  BY <1>5, ConcatProperties, LenProperties
<1>7. DOMAIN all \subseteq Nat
  BY <1>5, ConcatProperties, LenProperties
<1> HIDE DEF all
<1>8. ASSUME NEW i \in DOMAIN all, NEW j \in DOMAIN all, i < j
      PROVE  Before(all[i].request, all[j].request)
  <2>1. CASE j \in DOMAIN ps /\ all[j] = ps[j]
    <3>1. i \in DOMAIN ps /\ all[i] = ps[i]
      BY <1>1, <1>6, <1>7, <1>8, <2>1
    <3> QED
      BY <1>8, <2>1, <3>1 DEF InLine
  <2>2. CASE j - Len(ps) \in DOMAIN F /\ all[j] = F[j - Len(ps)]
    <3> DEFINE l == j - Len(ps)
    <3>1. A[l] \in DOMAIN q /\ all[j].request = q[A[l]]
      BY <1>1, <1>3, <1>4, <1>5, <2>2
    <3>2. CASE i \in DOMAIN ps /\ all[i] = ps[i]
      BY <3>1, <3>2 DEF InLine
    <3>3. CASE i - Len(ps) \in DOMAIN F /\ all[i] = F[i - Len(ps)]
      <4> DEFINE k == i - Len(ps)
      <4>1. k < l
        BY <1>1, <1>7, <1>8
      <4>2. A[k] \in DOMAIN q /\ all[i].request = q[A[k]] /\ A[k] < A[l]
        BY <1>1, <1>3, <1>4, <1>5, <2>2, <3>3, <4>1
      <4> QED
        BY <3>1, <4>2 DEF InLine
    <3> QED
      BY <1>6, <1>8, <3>2, <3>3
  <2> QED
    BY <1>6, <1>8, <2>1, <2>2
<1> QED
  BY <1>8, EmptySeq DEF InLine, all, F


-----------------------------------------------------------------------------
(* What the operators that send requests keep of it *)

\* What is sent next by a context whose state becomes q.
Sendable(c, p, q, m) ==
  /\ m.kind # "close" /\ m.context = c
  /\ m.kind = "predict" =>
       /\ session_open(p) /\ m.session_id = p.session_id
       /\ m.request_id = p.next_request_id
  /\ Fits(q, c, m)

\* A result that continues from the state p: the session and what is known of
\* the messages stay, and at most one request follows.
Continues(c, p, r) ==
  LET q == r.prediction
  IN  /\ Coherent(q)
      /\ q.session_id = p.session_id
      /\ p.next_request_id <= q.next_request_id
      /\ \A m \in Message : Fits(p, c, m) => Fits(q, c, m)
      /\ \A k, l \in DOMAIN r.requests : k = l
      /\ \A k \in DOMAIN r.requests : Sendable(c, p, q, r.requests[k])

\* A finished or invalidated request leaves a coherent state that knows no less.
LEMMA ClearedFits ==
  ASSUME NEW p \in PredictionState, NEW c \in Contexts,
         NEW q \in {clear_pending(p), invalidate(p)}
  PROVE  /\ Coherent(q) /\ ~q.pending /\ q \in PredictionState
         /\ q.session_id = p.session_id /\ q.next_request_id = p.next_request_id
         /\ \A m \in Message : Fits(p, c, m) => Fits(q, c, m)
<1>1. /\ ~q.pending /\ ~q.dirty /\ q.inflight_request_id = None /\ q \in PredictionState
      /\ q.session_id = p.session_id /\ q.next_request_id = p.next_request_id
      /\ q.generation \in {p.generation, p.generation + 1}
  <2>1. q \in PredictionState
    BY StateTypes
  <2>2. CASE q = clear_pending(p)
    BY <2>1, <2>2 DEF clear_pending, PredictionState
  <2>3. CASE q = invalidate(p)
    BY <2>1, <2>3 DEF clear_pending, invalidate, PredictionState
  <2> QED
    BY <2>2, <2>3
<1>2. Coherent(q)
  BY <1>1 DEF Coherent
<1>3. ASSUME NEW m \in Message, Fits(p, c, m)
      PROVE  Fits(q, c, m)
  <2>1. m.kind = "predict" => m.generation \in Nat
    BY DEF Message
  <2>2. p.generation \in Nat
    BY DEF PredictionState
  <2> QED
    BY <1>1, <1>3, <2>1, <2>2 DEF Fits, session_open
<1> QED
  BY <1>1, <1>2, <1>3

\* Marking a request dirty keeps all of it.
LEMMA MarkedFits ==
  ASSUME NEW p \in PredictionState, Coherent(p), NEW c \in Contexts,
         NEW q \in {p, mark_dirty(p), [p EXCEPT !.dirty = p.pending]}
  PROVE  /\ Coherent(q)
         /\ q.session_id = p.session_id /\ q.next_request_id = p.next_request_id
         /\ \A m : Fits(p, c, m) => Fits(q, c, m)
<1>1. /\ q.dirty => q.pending
      /\ q.pending = p.pending /\ q.inflight_request_id = p.inflight_request_id
      /\ q.session_id = p.session_id /\ q.next_request_id = p.next_request_id
      /\ q.generation = p.generation /\ q.inflight_revision = p.inflight_revision
  BY DEF mark_dirty, Coherent, PredictionState
<1> QED
  BY <1>1 DEF Coherent, Fits, session_open

\* send_prediction() of a pending request continues once a session is open.
LEMMA SendContinues ==
  ASSUME NEW c \in Contexts, NEW p \in PredictionState, NEW b \in CompositionBuffer,
         p.pending, session_open(p)
  PROVE  Continues(c, p, send_prediction(c, p, b))
<1> DEFINE r == send_prediction(c, p, b)
           q == r.prediction
           n == PredictRequest(c, p, b)
<1>1. /\ q.generation = p.generation /\ q.session_id = p.session_id /\ q.pending
      /\ q.inflight_request_id = p.next_request_id /\ q.inflight_revision = p.revision
      /\ q.next_request_id = p.next_request_id + 1
  BY DEF send_prediction, PredictionState
<1>2. p.next_request_id \in Nat \ {0} /\ p.generation \in Nat
  BY DEF PredictionState
<1>3. r.requests = <<n>>
  BY DEF send_prediction
<1>4. Coherent(q) /\ p.next_request_id <= q.next_request_id
  BY <1>1, <1>2 DEF Coherent, session_open, None
<1>5. ASSUME NEW m \in Message, Fits(p, c, m)
      PROVE  Fits(q, c, m)
  <2>1. m.kind = "predict" => m.request_id \in Nat
    BY DEF Message
  <2> QED
    BY <1>1, <1>2, <1>5, <2>1 DEF Fits, session_open
<1>6. Sendable(c, p, q, n)
  BY <1>1, <1>2 DEF Sendable, Fits, PredictRequest, session_open, None
<1> HIDE DEF r, n
<1>7. DOMAIN r.requests = {1} /\ r.requests[1] = n
  BY <1>3
<1> QED
  BY <1>1, <1>4, <1>5, <1>6, <1>7 DEF Continues, r

\* request_prediction() continues from any coherent state.
LEMMA RequestContinues ==
  ASSUME NEW c \in Contexts, NEW p \in PredictionState, NEW b \in CompositionBuffer, NEW stored,
         Coherent(p)
  PROVE  Continues(c, p, request_prediction(c, p, b, stored))
<1> DEFINE b1 == apply_phrase_override(b, stored)
           p1 == begin(p, b1)
<1>1. b1 \in CompositionBuffer
  BY PhraseOverrideType
<1> HIDE DEF b1
<1>2. p1 \in PredictionState
  BY <1>1, BeginType
<1>3. CASE ~Begins(p, b1)
  <2>1. p1 \in {p, [p EXCEPT !.dirty = p.pending]}
    BY <1>3 DEF begin, Begins, PredictionState
  <2> HIDE DEF p1
  <2> DEFINE r == [buffer |-> b1, prediction |-> p1, requests |-> <<>>]
  <2>2. /\ Coherent(p1) /\ p1.session_id = p.session_id /\ p1.next_request_id = p.next_request_id
        /\ \A m : Fits(p, c, m) => Fits(p1, c, m)
    BY <2>1, MarkedFits
  <2>3. p.next_request_id <= p.next_request_id
    BY DEF PredictionState
  <2>4. Continues(c, p, r)
    BY <2>2, <2>3, EmptySeq DEF Continues
  <2> QED
    BY <1>3, <2>4 DEF request_prediction, b1, p1
<1>4. CASE Begins(p, b1)
  <2>1. /\ p1.pending /\ ~p1.dirty /\ p1.session_id = p.session_id
        /\ p1.next_request_id = p.next_request_id /\ p1.generation = p.generation
        /\ p1.inflight_request_id = p.inflight_request_id
        /\ p1.inflight_revision = p.inflight_revision
    BY <1>4 DEF begin, Begins, PredictionState
  <2>2. p.inflight_request_id = None /\ p.next_request_id <= p.next_request_id
    BY <1>4 DEF Begins, Coherent, PredictionState
  <2> HIDE DEF p1
  <2>3. \A m : Fits(p, c, m) => Fits(p1, c, m)
    BY <2>1 DEF Fits, session_open
  <2>4. CASE ~session_open(p1)
    <3> DEFINE n == OpenRequest(c, p1)
               r == [buffer |-> b1, prediction |-> p1, requests |-> <<n>>]
    <3>1. Coherent(p1)
      BY <2>1, <2>2, <2>4 DEF Coherent
    <3>2. Sendable(c, p, p1, n)
      BY DEF Sendable, Fits, OpenRequest
    <3> HIDE DEF n
    <3>3. DOMAIN r.requests = {1} /\ r.requests[1] = n /\ r.prediction = p1
      OBVIOUS
    <3> HIDE DEF r
    <3>4. Continues(c, p, r)
      BY <2>1, <2>2, <2>3, <3>1, <3>2, <3>3 DEF Continues
    <3> QED
      BY <1>4, <2>4, <3>4 DEF request_prediction, b1, p1, r, n
  <2>5. CASE session_open(p1)
    <3> DEFINE r == send_prediction(c, p1, b1)
    <3>1. Continues(c, p1, r)
      BY <1>1, <1>2, <2>1, <2>5, SendContinues
    <3>2. request_prediction(c, p, b, stored) = r
      BY <1>4, <2>5 DEF request_prediction, b1, p1
    <3> HIDE DEF r
    <3>3. \A q, m : Sendable(c, p1, q, m) => Sendable(c, p, q, m)
      BY <2>1 DEF Sendable, session_open
    <3>4. Continues(c, p, r)
      BY <2>1, <2>3, <3>1, <3>3 DEF Continues
    <3> QED
      BY <3>2, <3>4
  <2> QED
    BY <2>4, <2>5
<1> QED
  BY <1>3, <1>4

\* finish() continues from any state, because it clears the request first.
LEMMA FinishContinues ==
  ASSUME NEW c \in Contexts, NEW p \in PredictionState, NEW b \in CompositionBuffer, NEW stored
  PROVE  Continues(c, p, Finish(c, p, b, stored))
<1> DEFINE q == clear_pending(p)
<1>1. /\ Coherent(q) /\ q \in PredictionState
      /\ q.session_id = p.session_id /\ q.next_request_id = p.next_request_id
      /\ \A m \in Message : Fits(p, c, m) => Fits(q, c, m)
  BY ClearedFits
<1> HIDE DEF q
<1>2. \A s, m : Sendable(c, q, s, m) => Sendable(c, p, s, m)
  BY <1>1 DEF Sendable, session_open
<1>3. CASE p.dirty
  <2> DEFINE r == request_prediction(c, q, b, stored)
  <2>1. Continues(c, q, r)
    BY <1>1, RequestContinues
  <2> HIDE DEF r
  <2>2. Continues(c, p, r)
    BY <1>1, <1>2, <2>1 DEF Continues
  <2> QED
    BY <1>3, <2>2 DEF Finish, q, r
<1>4. CASE ~p.dirty
  <2> DEFINE r == [buffer |-> b, prediction |-> q, requests |-> <<>>]
  <2>1. p.next_request_id <= p.next_request_id
    BY DEF PredictionState
  <2>2. Continues(c, p, r)
    BY <1>1, <2>1, EmptySeq DEF Continues
  <2> QED
    BY <1>4, <2>2 DEF Finish, q
<1> QED
  BY <1>3, <1>4

\* So does falling back to the table.
LEMMA FallBackContinues ==
  ASSUME NEW c \in Contexts, NEW p \in PredictionState, NEW b \in CompositionBuffer, NEW stored
  PROVE  Continues(c, p, FallBack(c, p, b, stored))
<1>1. apply_phrase_override(apply_fallback_candidates(b, p.segment_indices), stored) \in CompositionBuffer
  BY FallbackType, PhraseOverrideType
<1> QED
  BY <1>1, FinishContinues DEF FallBack


-----------------------------------------------------------------------------
(* Steps that keep the order of requests *)

\* What is queued was queued before or is new.
LEMMA Enqueued ==
  ASSUME TypeOK, NEW more \in Seq(Message), queue' = queue \o more
  PROVE  \A j \in DOMAIN queue' : \/ \E i \in DOMAIN queue : queue'[j] = queue[i]
                                 \/ \E k \in DOMAIN more : queue'[j] = more[k]
<1>1. queue \in Seq(Message)
  BY DEF TypeOK
<1>2. \A j \in DOMAIN (queue \o more) :
        \/ \E i \in DOMAIN queue : (queue \o more)[j] = queue[i]
        \/ \E k \in DOMAIN more : (queue \o more)[j] = more[k]
  BY <1>1, ConcatElements
<1> QED
  BY <1>2

\* The oldest response is taken, or none is.
TakesAtMostOne == posted' = posted \/ (posted # <<>> /\ posted' = Tail(posted))

\* The session the oldest response hands out, when it is taken.
HandsOut(taken) ==
  taken = {} \/ /\ posted # <<>> /\ Opens(1) /\ posted' = Tail(posted)
                /\ taken = {posted[1].session_id}

\* The responses that stay keep what is known of their sessions.
LEMMA RestOfPosted ==
  ASSUME TypeOK, TakesAtMostOne, NEW taken, HandsOut(taken), OpenedAreFresh
  PROVE  /\ \A k \in DOMAIN posted' :
              /\ posted'[k].request \in Messages
              /\ Opens(k)' => posted'[k].session_id \notin taken
              /\ \E i \in DOMAIN posted : posted'[k] = posted[i] /\ (i = k \/ i = k + 1) /\ k \in Nat
         /\ \A k, l \in DOMAIN posted' :
              Opens(k)' /\ Opens(l)' /\ posted'[k].session_id = posted'[l].session_id => k = l
<1>1. posted \in Seq(Response) /\ DOMAIN posted \subseteq Nat
  BY LenProperties DEF TypeOK
<1>2. CASE posted' = posted
  <2>1. taken = {}
    <3>1. posted # <<>> => Len(Tail(posted)) # Len(posted)
      BY <1>1, HeadTailProperties, LenProperties
    <3> QED
      BY <1>2, <3>1 DEF HandsOut
  <2>2. \A k \in DOMAIN posted' : Opens(k)' = Opens(k)
    BY <1>2 DEF Opens
  <2> QED
    BY <1>1, <1>2, <2>1, <2>2 DEF OpenedAreFresh, IsFresh, Messages
<1>3. CASE posted # <<>> /\ posted' = Tail(posted)
  <2>1. \A k \in DOMAIN posted' : k + 1 \in DOMAIN posted /\ posted'[k] = posted[k + 1] /\ k \in Nat \ {0}
    BY <1>1, <1>3, TailElements, HeadTailProperties, LenProperties
  <2>2. \A k \in DOMAIN posted' : Opens(k)' => Opens(k + 1)
    BY <2>1 DEF Opens
  <2>3. 1 \in DOMAIN posted
    BY <1>1, <1>3, LenProperties
  <2>4. ASSUME NEW k \in DOMAIN posted', Opens(k)'
        PROVE  posted'[k].session_id \notin taken
    <3>1. k + 1 # 1 /\ Opens(k + 1) /\ k + 1 \in DOMAIN posted
      BY <2>1, <2>2, <2>4
    <3>2. Opens(1) => posted[1].session_id # posted[k + 1].session_id
      BY <2>3, <3>1 DEF OpenedAreFresh, IsFresh
    <3> QED
      BY <2>1, <2>4, <3>2 DEF HandsOut
  <2>5. ASSUME NEW k \in DOMAIN posted', NEW l \in DOMAIN posted', Opens(k)', Opens(l)',
               posted'[k].session_id = posted'[l].session_id
        PROVE  k = l
    <3>1. k + 1 \in DOMAIN posted /\ l + 1 \in DOMAIN posted /\ Opens(k + 1) /\ Opens(l + 1)
          /\ posted[k + 1].session_id = posted[l + 1].session_id /\ k \in Nat /\ l \in Nat
      BY <2>1, <2>2, <2>5
    <3>2. l + 1 = k + 1
      BY <3>1 DEF OpenedAreFresh, IsFresh
    <3> QED
      BY <3>1, <3>2
  <2> QED
    BY <2>1, <2>4, <2>5 DEF Messages
<1> QED
  BY <1>2, <1>3 DEF TakesAtMostOne

\* Contexts keep or lose their sessions; c may get the one handed out.
SessionsMove(c, taken) ==
  \A d \in Contexts : Known(d)' =>
    /\ Known(d)
    /\ prediction[d].next_request_id <= prediction'[d].next_request_id
    /\ \/ prediction'[d].session_id \in {prediction[d].session_id, None}
       \/ d = c /\ prediction'[d].session_id \in taken

\* Requests use a session of a context or the one handed out, with a request id
\* that the service has not seen.
OwnSessions(more, taken) ==
  \A k \in DOMAIN more :
    /\ more[k].kind # "open" =>
         /\ more[k].session_id # None
         /\ \/ more[k].session_id \in taken
            \/ \E d \in Contexts : Known(d) /\ more[k].session_id = prediction[d].session_id
    /\ more[k].kind = "predict" /\ more[k].session_id \in DOMAIN service
         => service[more[k].session_id] < more[k].request_id

\* What sending requests has to show.
LEMMA SendStep ==
  ASSUME TypeOK, TypeOK', RequestsKeepOrder, UNCHANGED <<service, sessions_opened>>,
         NEW more \in Seq(Message), queue' = queue \o more, TakesAtMostOne,
         NEW c, NEW taken, HandsOut(taken),
         InLine(posted', queue'), StatesFit',
         SessionsMove(c, taken), OwnSessions(more, taken)
  PROVE  RequestsKeepOrder'
<1>1. /\ \A k \in DOMAIN posted' :
           /\ posted'[k].request \in Messages
           /\ Opens(k)' => posted'[k].session_id \notin taken
           /\ \E i \in DOMAIN posted : posted'[k] = posted[i] /\ (i = k \/ i = k + 1) /\ k \in Nat
      /\ \A k, l \in DOMAIN posted' :
           Opens(k)' /\ Opens(l)' /\ posted'[k].session_id = posted'[l].session_id => k = l
  BY RestOfPosted DEF RequestsKeepOrder
<1>2. \A s \in taken : /\ s \in 1..sessions_opened
                       /\ s \in DOMAIN service => service[s] = 0
                       /\ \A d \in Contexts : Known(d) => prediction[d].session_id # s
                       /\ \A m \in Messages : m.kind # "open" => m.session_id # s
  <2>1. posted # <<>> => 1 \in DOMAIN posted
    BY LenProperties DEF TypeOK
  <2> QED
    BY <2>1 DEF HandsOut, RequestsKeepOrder, OpenedAreFresh, IsFresh
<1>3. \A j \in DOMAIN queue' : \/ \E i \in DOMAIN queue : queue'[j] = queue[i]
                               \/ \E k \in DOMAIN more : queue'[j] = more[k]
  BY Enqueued
<1>4. \A m \in Messages' : m \in Messages \/ \E k \in DOMAIN more : m = more[k]
  BY <1>1, <1>3 DEF Messages
<1>5. \A d \in Contexts : prediction[d] \in PredictionState /\ prediction'[d] \in PredictionState
  BY DEF TypeOK
<1>6. \A d \in Contexts : prediction[d].session_id \in Nat /\ prediction[d].next_request_id \in Nat \ {0}
                         /\ prediction'[d].session_id \in Nat /\ prediction'[d].next_request_id \in Nat \ {0}
  BY <1>5 DEF PredictionState
<1>7. \A d \in Contexts : Known(d) => prediction[d].session_id <= sessions_opened
  BY DEF RequestsKeepOrder, SessionsAreOwned
<1>15. \A d \in Contexts : Known(d)' =>
         /\ Known(d)
         /\ prediction[d].next_request_id <= prediction'[d].next_request_id
         /\ \/ prediction'[d].session_id \in {prediction[d].session_id, None}
            \/ d = c /\ prediction'[d].session_id \in taken
  BY DEF SessionsMove
<1>16. \A k \in DOMAIN more :
         /\ more[k].kind # "open" =>
              /\ more[k].session_id # None
              /\ \/ more[k].session_id \in taken
                 \/ \E d \in Contexts : Known(d) /\ more[k].session_id = prediction[d].session_id
         /\ more[k].kind = "predict" /\ more[k].session_id \in DOMAIN service
              => service[more[k].session_id] < more[k].request_id
  BY DEF OwnSessions
<1>8. sessions_opened \in Nat /\ \A s \in DOMAIN service : s # None /\ service[s] \in Nat
  BY DEF TypeOK, None
<1>9. OpenedAreFresh'
  <2> SUFFICES ASSUME NEW k \in DOMAIN posted', Opens(k)' PROVE IsFresh(k)'
    BY DEF OpenedAreFresh
  <2>1. PICK i \in DOMAIN posted : posted'[k] = posted[i]
    BY <1>1
  <2>2. Opens(i)
    BY <2>1 DEF Opens
  <2>3. IsFresh(i) /\ posted'[k].session_id \notin taken
    BY <1>1, <2>2 DEF RequestsKeepOrder, OpenedAreFresh
  <2> DEFINE s == posted'[k].session_id
  <2>4. /\ s \in 1..sessions_opened
        /\ s \in DOMAIN service => service[s] = 0
        /\ \A d \in Contexts : Known(d) => prediction[d].session_id # s
        /\ \A m \in Messages : m.kind # "open" => m.session_id # s
    BY <2>1, <2>3 DEF IsFresh
  <2>5. s # None /\ s \notin taken
    BY <1>8, <2>3, <2>4 DEF None
  <2>6. \A j \in DOMAIN posted' : Opens(j)' /\ posted'[j].session_id = s => j = k
    BY <1>1
  <2> HIDE DEF s
  <2>7. \A d \in Contexts : Known(d)' => prediction'[d].session_id # s
    BY <1>15, <2>4, <2>5
  <2>8. \A m \in Messages' : m.kind # "open" => m.session_id # s
    <3>1. ASSUME NEW l \in DOMAIN more, more[l].kind # "open"
          PROVE  more[l].session_id # s
      BY <1>16, <2>4, <2>5, <3>1
    <3> QED
      BY <1>4, <2>4, <3>1
  <2> QED
    BY <2>4, <2>6, <2>7, <2>8 DEF IsFresh, s
<1>10. \A m \in Messages' : m.kind # "open" => m.session_id \in 1..sessions_opened
  <2>1. ASSUME NEW k \in DOMAIN more, more[k].kind # "open"
        PROVE  more[k].session_id \in 1..sessions_opened
    BY <1>2, <1>6, <1>7, <1>8, <1>16, <2>1 DEF None
  <2> QED
    BY <1>4, <2>1 DEF RequestsKeepOrder, SessionsAreOwned
<1>11. ASSUME NEW d \in Contexts, Known(d)'
       PROVE  /\ prediction'[d].session_id <= sessions_opened
              /\ prediction'[d].session_id \in DOMAIN service =>
                   service[prediction'[d].session_id] < prediction'[d].next_request_id
  <2>1. CASE prediction'[d].session_id = prediction[d].session_id
    <3>1. prediction[d].session_id \in DOMAIN service =>
            service[prediction[d].session_id] < prediction[d].next_request_id
      BY <1>11, <1>15 DEF RequestsKeepOrder, SessionsAreOwned
    <3>2. prediction[d].next_request_id <= prediction'[d].next_request_id /\ Known(d)
      BY <1>11, <1>15
    <3>3. prediction[d].session_id \in DOMAIN service => service[prediction[d].session_id] \in Nat
      BY <1>8
    <3> QED
      BY <1>6, <1>7, <2>1, <3>1, <3>2, <3>3
  <2>2. CASE prediction'[d].session_id = None
    BY <1>8, <2>2 DEF None
  <2>3. CASE prediction'[d].session_id \in taken
    BY <1>2, <1>6, <1>8, <2>3
  <2> QED
    BY <1>11, <1>15, <2>1, <2>2, <2>3
<1>12. ASSUME NEW d \in Contexts, NEW e \in Contexts, Known(d)', Known(e)',
              session_open(prediction'[d]), prediction'[d].session_id = prediction'[e].session_id
       PROVE  d = e
  <2>1. prediction'[d].session_id # None
    BY <1>12 DEF session_open
  <2>2. CASE prediction'[d].session_id \in taken
    <3>1. taken = {prediction'[d].session_id}
      BY <2>2 DEF HandsOut
    <3>2. d = c /\ e = c
      BY <1>2, <1>12, <1>15, <2>1, <2>2
    <3> QED
      BY <3>2
  <2>3. CASE prediction'[d].session_id \notin taken
    <3>1. /\ Known(d) /\ Known(e) /\ session_open(prediction[d])
          /\ prediction[d].session_id = prediction[e].session_id
      BY <1>12, <1>15, <2>1, <2>3 DEF session_open
    <3> QED
      BY <3>1 DEF RequestsKeepOrder, SessionsAreOwned
  <2> QED
    BY <2>2, <2>3
<1>13. \A j \in DOMAIN queue' : queue'[j].kind = "predict" /\ queue'[j].session_id \in DOMAIN service
                                  => service[queue'[j].session_id] < queue'[j].request_id
  <2>1. \A i \in DOMAIN queue : queue[i].kind = "predict" /\ queue[i].session_id \in DOMAIN service
                                 => service[queue[i].session_id] < queue[i].request_id
    BY DEF RequestsKeepOrder, SessionsAreOwned
  <2> TAKE j \in DOMAIN queue'
  <2>2. CASE \E i \in DOMAIN queue : queue'[j] = queue[i]
    BY <2>1, <2>2
  <2>3. CASE \E k \in DOMAIN more : queue'[j] = more[k]
    BY <1>16, <2>3
  <2> QED
    BY <1>3, <2>2, <2>3
<1>14. SessionsAreOwned'
  BY <1>10, <1>11, <1>12, <1>13 DEF SessionsAreOwned
<1> QED
  BY <1>9, <1>14 DEF RequestsKeepOrder

\* A step of one context that continues from its state, or from the state p in
\* which the response it takes has left it, keeps the order of requests.
LEMMA ContextStep ==
  ASSUME TypeOK, TypeOK', RequestsKeepOrder, UNCHANGED <<attached, service, sessions_opened>>,
         NEW c \in Contexts, Known(c), NEW p \in PredictionState, NEW r \in Result,
         Continues(c, p, r),
         prediction' = [prediction EXCEPT ![c] = r.prediction],
         queue' = queue \o r.requests, TakesAtMostOne,
         NEW taken, HandsOut(taken),
         p.session_id \in {prediction[c].session_id, None} \cup taken,
         p.next_request_id = prediction[c].next_request_id,
         \A k \in DOMAIN queue : Fits(p, c, queue[k]),
         \A k \in DOMAIN posted' : Fits(p, c, posted'[k].request)
  PROVE  RequestsKeepOrder'
<1> DEFINE q == r.prediction
           more == r.requests
<1>1. more \in Seq(Message) /\ q \in PredictionState
  BY DEF Result
<1>2. /\ Coherent(q) /\ q.session_id = p.session_id /\ p.next_request_id <= q.next_request_id
      /\ \A m \in Message : Fits(p, c, m) => Fits(q, c, m)
      /\ \A k, l \in DOMAIN more : k = l
      /\ \A k \in DOMAIN more : Sendable(c, p, q, more[k])
  BY DEF Continues
<1> HIDE DEF q, more
<1>3. queue \in Seq(Message) /\ posted \in Seq(Response) /\ posted' \in Seq(Response)
      /\ prediction \in [Contexts -> PredictionState] /\ queue' \in Seq(Message)
  BY DEF TypeOK
<1>4. \A d \in Contexts : Known(d)' = Known(d)
  BY DEF Known
<1>5. prediction'[c] = q /\ \A d \in Contexts \ {c} : prediction'[d] = prediction[d]
  BY <1>3 DEF q
<1>6. \A s \in taken : /\ s \in 1..sessions_opened
                       /\ s \in DOMAIN service => service[s] = 0
                       /\ \A d \in Contexts : Known(d) => prediction[d].session_id # s
  <2>1. posted # <<>> => 1 \in DOMAIN posted
    BY <1>3, LenProperties
  <2> QED
    BY <2>1 DEF HandsOut, RequestsKeepOrder, OpenedAreFresh, IsFresh
<1>7. InLine(posted', queue')
  <2>1. InLine(posted', queue)
    BY <1>3, LineTaken DEF TakesAtMostOne, RequestsKeepOrder
  <2>2. ASSUME NEW m, Fits(p, c, m), NEW k \in DOMAIN more
        PROVE  Before(m, more[k])
    BY <1>2, <2>2 DEF Before, Fits, Sendable
  <2>3. \A k, l \in DOMAIN more : k < l => Before(more[k], more[l])
    <3>1. \A k \in DOMAIN more : ~(k < k)
      BY <1>1, LenProperties
    <3> QED
      BY <1>2, <3>1
  <2>4. queue' = queue \o more
    BY DEF more
  <2> QED
    BY <1>1, <1>3, <2>1, <2>2, <2>3, <2>4, LineGrows
<1>8. \A k \in DOMAIN posted' : posted'[k].request \in Messages
  BY RestOfPosted DEF RequestsKeepOrder
<1>9. \A j \in DOMAIN queue' : \/ \E i \in DOMAIN queue : queue'[j] = queue[i]
                               \/ \E k \in DOMAIN more : queue'[j] = more[k]
  <2>1. queue' = queue \o more
    BY DEF more
  <2> QED
    BY <1>1, <2>1, Enqueued
<1>10. \A m \in Messages' : \/ \E k \in DOMAIN more : m = more[k]
                            \/ m \in Messages /\ Fits(p, c, m)
  <2> SUFFICES ASSUME NEW m \in Messages', \A k \in DOMAIN more : m # more[k]
               PROVE  m \in Messages /\ Fits(p, c, m)
    OBVIOUS
  <2>1. CASE \E j \in DOMAIN queue' : m = queue'[j]
    BY <1>9, <2>1 DEF Messages
  <2>2. CASE \E k \in DOMAIN posted' : m = posted'[k].request
    BY <1>8, <2>2
  <2> QED
    BY <2>1, <2>2 DEF Messages
<1>11. \A m \in Messages' : m \in Message
  <2>1. \A k \in DOMAIN queue' : queue'[k] \in Message
    BY <1>3
  <2>2. \A k \in DOMAIN posted' : posted'[k] \in Response
    BY <1>3
  <2> QED
    BY <2>1, <2>2 DEF Messages, Response
<1>12. ASSUME NEW d \in Contexts \ {c}, Known(d), session_open(p)
       PROVE  prediction[d].session_id # p.session_id
  <2>1. CASE p.session_id \in taken
    BY <1>6, <1>12, <2>1
  <2>2. CASE p.session_id = prediction[c].session_id
    BY <1>12, <2>2 DEF RequestsKeepOrder, SessionsAreOwned, session_open
  <2> QED
    BY <1>12, <2>1, <2>2 DEF session_open
<1>13. StatesFit'
  <2> SUFFICES ASSUME NEW d \in Contexts, Known(d)'
               PROVE  Coherent(prediction'[d]) /\ \A m \in Messages' : Fits(prediction'[d], d, m)
    BY DEF StatesFit
  <2>1. CASE d = c
    <3>1. \A m \in Messages' : Fits(q, c, m)
      BY <1>2, <1>10, <1>11 DEF Sendable
    <3> QED
      BY <1>2, <1>5, <2>1, <3>1
  <2>2. CASE d # c
    <3>1. /\ Coherent(prediction[d]) /\ \A m \in Messages : Fits(prediction[d], d, m)
          /\ prediction'[d] = prediction[d] /\ Known(d)
      BY <1>4, <1>5, <2>2 DEF RequestsKeepOrder, StatesFit
    <3>2. \A k \in DOMAIN more : Fits(prediction[d], d, more[k])
      BY <1>2, <1>12, <2>2, <3>1 DEF Sendable, Fits
    <3> QED
      BY <1>10, <3>1, <3>2
  <2> QED
    BY <2>1, <2>2
<1>14. p.session_id \in DOMAIN service => service[p.session_id] < p.next_request_id
  <2>1. p.next_request_id \in Nat \ {0}
    BY DEF PredictionState
  <2>2. CASE p.session_id \in taken
    BY <1>6, <2>1, <2>2
  <2>3. CASE p.session_id = prediction[c].session_id
    BY <2>3 DEF RequestsKeepOrder, SessionsAreOwned
  <2>4. CASE p.session_id = None
    BY <2>4 DEF TypeOK, None
  <2> QED
    BY <2>2, <2>3, <2>4
<1>15. OwnSessions(more, taken)
  <2>1. \A k \in DOMAIN more : more[k].kind \in {"open", "predict", "close"}
    BY <1>1 DEF Message
  <2>2. ASSUME NEW k \in DOMAIN more, more[k].kind # "open"
        PROVE  /\ more[k].session_id # None
               /\ \/ more[k].session_id \in taken
                  \/ \E d \in Contexts : Known(d) /\ more[k].session_id = prediction[d].session_id
    BY <1>2, <2>1, <2>2 DEF Sendable, session_open
  <2>3. \A k \in DOMAIN more :
          more[k].kind = "predict" /\ more[k].session_id \in DOMAIN service
            => service[more[k].session_id] < more[k].request_id
    BY <1>2, <1>14 DEF Sendable
  <2> QED
    BY <2>2, <2>3 DEF OwnSessions
<1>16. SessionsMove(c, taken)
  <2>1. \A d \in Contexts : prediction[d].next_request_id <= prediction[d].next_request_id
    <3>1. \A s \in PredictionState : s.next_request_id <= s.next_request_id
      BY DEF PredictionState
    <3> QED
      BY <1>3, <3>1
  <2> QED
    BY <1>2, <1>4, <1>5, <2>1 DEF SessionsMove
<1> QED
  <2>1. queue' = queue \o more /\ UNCHANGED <<service, sessions_opened>>
    BY DEF more
  <2> QED
    BY <1>1, <1>7, <1>13, <1>15, <1>16, <2>1, SendStep


\* A user action that continues from the state of its context, as it is or marked dirty.
LEMMA ApplyInOrder ==
  ASSUME TypeOK, TypeOK', RequestsKeepOrder, attached' = attached, NEW c \in Contexts, Known(c),
         NEW p \in {prediction[c], mark_dirty(prediction[c])}, NEW r \in Result,
         Continues(c, p, r), Apply(c, r)
  PROVE  RequestsKeepOrder'
<1>1. prediction[c] \in PredictionState /\ Coherent(prediction[c])
      /\ \A m \in Messages : Fits(prediction[c], c, m)
  BY DEF TypeOK, RequestsKeepOrder, StatesFit
<1>2. p \in PredictionState
  BY <1>1, StateTypes
<1>3. /\ p.session_id = prediction[c].session_id /\ p.next_request_id = prediction[c].next_request_id
      /\ \A m : Fits(prediction[c], c, m) => Fits(p, c, m)
  BY <1>1, MarkedFits
<1>4. \A m \in Messages : Fits(p, c, m)
  BY <1>1, <1>3
<1>5. /\ prediction' = [prediction EXCEPT ![c] = r.prediction]
      /\ queue' = queue \o r.requests /\ TakesAtMostOne
      /\ UNCHANGED <<attached, service, sessions_opened>> /\ posted' = posted
  BY DEF Apply, TakesAtMostOne
<1>6. HandsOut({})
  BY DEF HandsOut
<1>7. /\ \A k \in DOMAIN queue : Fits(p, c, queue[k])
      /\ \A k \in DOMAIN posted' : Fits(p, c, posted'[k].request)
  BY <1>4, <1>5 DEF Messages
<1> QED
  BY <1>2, <1>3, <1>5, <1>6, <1>7, ContextStep

\* The result of an action that sends nothing.
LEMMA QuietContinues ==
  ASSUME NEW c \in Contexts, NEW p \in PredictionState, Coherent(p), NEW b,
         NEW q \in {p, clear_pending(p), invalidate(p)}
  PROVE  Continues(c, p, [buffer |-> b, prediction |-> q, requests |-> <<>>])
<1> DEFINE r == [buffer |-> b, prediction |-> q, requests |-> <<>>]
<1>1. /\ Coherent(q) /\ q.session_id = p.session_id /\ q.next_request_id = p.next_request_id
      /\ \A m \in Message : Fits(p, c, m) => Fits(q, c, m)
  BY ClearedFits, MarkedFits
<1>2. p.next_request_id <= p.next_request_id
  BY DEF PredictionState
<1> QED
  BY <1>1, <1>2, EmptySeq DEF Continues

\* Messages that leave change nothing for those that stay.
LEMMA FewerMessages ==
  ASSUME TypeOK, TypeOK', RequestsKeepOrder, UNCHANGED <<attached, prediction>>,
         Messages' \subseteq Messages
  PROVE  StatesFit'
BY DEF RequestsKeepOrder, StatesFit, Known

\* Every action of the user keeps the order of requests.
LEMMA UserActionInOrder ==
  ASSUME TypeOK, TypeOK', RequestsFollowRevisions, RequestsKeepOrder,
         NEW c \in Contexts, UserAction(c)
  PROVE  RequestsKeepOrder'
<1> USE DEF Editable
<1>1. CASE Attach(c)
  <2>1. UNCHANGED <<prediction, queue, posted, service, sessions_opened>>
        /\ \A d \in Contexts : Known(d)' = Known(d)
    BY <1>1 DEF Attach, Known, TypeOK
  <2>2. Messages' = Messages /\ \A k \in DOMAIN posted : Opens(k)' = Opens(k)
    BY <2>1 DEF Messages, Opens
  <2>3. StatesFit' /\ InLine(posted, queue)' /\ SessionsAreOwned'
    BY <2>1, <2>2 DEF RequestsKeepOrder, StatesFit, SessionsAreOwned, InLine
  <2>4. OpenedAreFresh'
    BY <2>1, <2>2 DEF RequestsKeepOrder, OpenedAreFresh, IsFresh, Opens
  <2> QED
    BY <2>3, <2>4 DEF RequestsKeepOrder
<1>2. ASSUME c \in Live
      PROVE  /\ Known(c) /\ Coherent(prediction[c])
             /\ \A p \in {prediction[c], mark_dirty(prediction[c])} : p \in PredictionState /\ Coherent(p)
             /\ buffer[c] \in CompositionBuffer
  <2>1. Known(c) /\ Coherent(prediction[c]) /\ prediction[c] \in PredictionState
    BY <1>2, EditBase DEF Known, Live, RequestsKeepOrder, StatesFit
  <2> QED
    BY <2>1, EditBase, MarkedFits
<1>3. CASE Edits(c)
  <2>1. c \in Live /\ attached' = attached
    BY <1>3, EditForm
  <2>2. PICK segs \in Seq(Matching), p \in {prediction[c], mark_dirty(prediction[c])} :
          Edit(c, segs, p) \/ EditAndRequest(c, segs, p)
    BY <1>3, EditForm
  <2> DEFINE b == Touched(buffer[c], segs)
  <2>3. b \in CompositionBuffer /\ p \in PredictionState /\ Coherent(p) /\ Known(c)
    BY <1>2, <2>1, <2>2, BufferTypes, MatchingSeq
  <2>4. PICK r \in {[buffer |-> b, prediction |-> p, requests |-> <<>>],
                    request_prediction(c, p, b, phrases)} : Apply(c, r)
    BY <2>2 DEF Edit, EditAndRequest
  <2> HIDE DEF b
  <2>5. r \in Result /\ Continues(c, p, r)
    <3>1. [buffer |-> b, prediction |-> p, requests |-> <<>>] \in Result
      BY <2>3, EmptySeq DEF Result
    <3> QED
      BY <2>3, <2>4, <3>1, RequestType, RequestContinues, QuietContinues
  <2> QED
    BY <2>1, <2>2, <2>3, <2>4, <2>5, ApplyInOrder
<1>4. CASE DeleteNothing(c) \/ StorePhrase(c) \/ Commit(c) \/ Reset(c)
  <2>1. c \in Live /\ attached' = attached
    BY <1>4 DEF DeleteNothing, StorePhrase, Commit, Reset
  <2>2. PICK p \in {prediction[c], mark_dirty(prediction[c])} :
          \E q \in {p, clear_pending(p), invalidate(p)}, b \in CompositionBuffer :
            Apply(c, [buffer |-> b, prediction |-> q, requests |-> <<>>])
    <3>1. CASE DeleteNothing(c)
      BY <1>2, <2>1, <3>1 DEF DeleteNothing
    <3>2. CASE StorePhrase(c)
      <4>1. Touched(buffer[c], buffer[c].segments) \in CompositionBuffer
        BY <1>2, <2>1, BufferTypes DEF CompositionBuffer
      <4>2. apply_phrase_override(Touched(buffer[c], buffer[c].segments), phrases') \in CompositionBuffer
        BY <4>1, PhraseOverrideType
      <4> QED
        BY <3>2, <4>2 DEF StorePhrase
    <3>3. CASE Commit(c) \/ Reset(c)
      <4>1. clear(buffer[c]) \in CompositionBuffer
        BY <1>2, <2>1, BufferTypes
      <4> QED
        BY <3>3, <4>1 DEF Commit, Reset
    <3> QED
      BY <1>4, <3>1, <3>2, <3>3
  <2>3. PICK q \in {p, clear_pending(p), invalidate(p)}, b \in CompositionBuffer :
          Apply(c, [buffer |-> b, prediction |-> q, requests |-> <<>>])
    BY <2>2
  <2> DEFINE r == [buffer |-> b, prediction |-> q, requests |-> <<>>]
  <2>4. p \in PredictionState /\ Coherent(p) /\ Known(c)
    BY <1>2, <2>1, <2>2
  <2>5. r \in Result
    <3>1. q \in PredictionState
      BY <2>3, <2>4, StateTypes
    <3> QED
      BY <3>1, EmptySeq DEF Result
  <2>6. Continues(c, p, r)
    BY <2>3, <2>4, QuietContinues
  <2> QED
    BY <2>1, <2>2, <2>3, <2>4, <2>5, <2>6, ApplyInOrder
<1>5. CASE Detach(c)
  <2> DEFINE more == Closing(prediction[c])
  <2>1. /\ c \in Live /\ Known(c) /\ posted' = posted /\ queue' = queue \o more
        /\ UNCHANGED <<service, sessions_opened>>
    BY <1>2, <1>5 DEF Detach, Apply
  <2>2. \A d \in Contexts : Known(d)' => d # c /\ Known(d) /\ prediction'[d] = prediction[d]
    BY <1>5 DEF Detach, Apply, Known, TypeOK
  <2>3. more \in Seq(Message)
    BY EditBase, ClosingType
  <2>4. /\ \A k \in DOMAIN more : /\ more[k] = CloseRequest(prediction[c])
                                  /\ session_open(prediction[c])
        /\ \A k, l \in DOMAIN more : k = l
    BY EmptySeq DEF Closing
  <2> HIDE DEF more
  <2>5. queue \in Seq(Message) /\ posted \in Seq(Response)
    BY DEF TypeOK
  <2>6. InLine(posted', queue')
    <3>1. \A m : \A k \in DOMAIN more : Before(m, more[k])
      BY <2>4 DEF Before, CloseRequest
    <3> QED
      BY <2>1, <2>3, <2>5, <3>1, LineGrows DEF RequestsKeepOrder
  <2>7. \A m \in Messages' : m \in Messages \/ \E k \in DOMAIN more : m = more[k]
    <3>1. \A j \in DOMAIN queue' : \/ \E i \in DOMAIN queue : queue'[j] = queue[i]
                                   \/ \E k \in DOMAIN more : queue'[j] = more[k]
      BY <2>1, <2>3, Enqueued
    <3> QED
      BY <2>1, <3>1 DEF Messages
  <2>8. StatesFit'
    <3> SUFFICES ASSUME NEW d \in Contexts, Known(d)'
                 PROVE  Coherent(prediction'[d]) /\ \A m \in Messages' : Fits(prediction'[d], d, m)
      BY DEF StatesFit
    <3>1. /\ d # c /\ Known(d) /\ prediction'[d] = prediction[d]
          /\ Coherent(prediction[d]) /\ \A m \in Messages : Fits(prediction[d], d, m)
      BY <2>2 DEF RequestsKeepOrder, StatesFit
    <3>2. \A k \in DOMAIN more : Fits(prediction[d], d, more[k])
      BY <2>1, <2>4, <3>1 DEF Fits, CloseRequest, RequestsKeepOrder, SessionsAreOwned, session_open
    <3> QED
      BY <2>7, <3>1, <3>2
  <2>9. SessionsMove(c, {})
    <3>1. \A s \in PredictionState : s.next_request_id <= s.next_request_id
      BY DEF PredictionState
    <3> QED
      BY <2>2, <3>1, EditBase DEF SessionsMove
  <2>10. OwnSessions(more, {})
    BY <2>1, <2>4 DEF OwnSessions, CloseRequest, session_open
  <2>11. TakesAtMostOne /\ HandsOut({})
    BY <2>1 DEF TakesAtMostOne, HandsOut
  <2> QED
    BY <2>1, <2>3, <2>6, <2>8, <2>9, <2>10, <2>11, SendStep
<1> QED
  BY <1>1, <1>3, <1>4, <1>5 DEF UserAction, Edits


\* A context that forgets its session and what it waits for is coherent, and
\* knows no less of the messages that are on their way.
LEMMA ForgottenFits ==
  ASSUME TypeOK, RequestsKeepOrder, NEW d \in Live
  PROVE  LET s == WithoutSession(invalidate(prediction[d]))
         IN  /\ Coherent(s) /\ s.session_id = None
             /\ s.next_request_id = prediction[d].next_request_id
             /\ \A m \in Messages : Fits(s, d, m)
<1> DEFINE q == invalidate(prediction[d])
           s == WithoutSession(q)
<1>1. d \in Contexts /\ Known(d) /\ prediction[d] \in PredictionState
  BY EditBase DEF Known, Live
<1>2. /\ ~q.pending /\ ~q.dirty /\ q.inflight_request_id = None /\ q \in PredictionState
      /\ q.next_request_id = prediction[d].next_request_id
      /\ q.generation = prediction[d].generation + 1
  <2>1. q \in PredictionState
    BY <1>1, StateTypes
  <2> QED
    BY <1>1, <2>1 DEF invalidate, clear_pending, PredictionState
<1> HIDE DEF q
<1>3. /\ ~s.pending /\ ~s.dirty /\ s.inflight_request_id = None /\ s.session_id = None
      /\ s.next_request_id = q.next_request_id /\ s.generation = q.generation
  BY <1>2 DEF WithoutSession, PredictionState
<1> HIDE DEF s
<1>4. ASSUME NEW m \in Messages PROVE Fits(s, d, m)
  <2>1. Fits(prediction[d], d, m)
    BY <1>1 DEF RequestsKeepOrder, StatesFit
  <2>2. prediction[d].generation \in Nat /\ (m.kind = "predict" => m.generation \in Nat)
    BY <1>1, MessagesType DEF PredictionState, Message
  <2> QED
    BY <1>2, <1>3, <2>1, <2>2 DEF Fits, session_open
<1>5. Coherent(s)
  BY <1>3 DEF Coherent
<1> QED
  BY <1>2, <1>3, <1>4, <1>5 DEF q, s

\* A change of the configuration closes every open session: nothing follows the
\* Closes, whatever their order.
LEMMA SetConfigInOrder ==
  ASSUME TypeOK, TypeOK', RequestsKeepOrder, SetConfig
  PROVE  RequestsKeepOrder'
<1> DEFINE opened == {c \in Live : session_open(prediction[c])}
<1>1. PICK more \in [1..Cardinality(opened) -> {CloseRequest(prediction[c]) : c \in opened}] :
        queue' = queue \o more
  BY DEF SetConfig
<1>2. /\ attached' = attached /\ UNCHANGED <<posted, service, sessions_opened>>
      /\ prediction' = [c \in Contexts |-> IF c \in Live THEN SettledPrediction(prediction[c])
                                           ELSE prediction[c]]
  BY DEF SetConfig
<1>3. PICK c \in Contexts : c \in Live
  BY DEF SetConfig, Live
<1>4. IsFiniteSet(opened)
  BY PredictionAssumption, FS_Subset DEF Live
<1>5. Cardinality(opened) \in Nat
  BY <1>4, FS_CardinalityType
<1>6. \A k \in DOMAIN more : \E d \in Live : more[k] = CloseRequest(prediction[d]) /\ session_open(prediction[d])
  BY <1>1
<1> HIDE DEF opened
<1>7. more \in Seq(Message)
  <2>1. \A d \in Live : CloseRequest(prediction[d]) \in Message
    BY EditBase, ClosingType DEF Live
  <2>2. more \in [1..Cardinality(opened) -> Message]
    BY <1>1, <1>6, <2>1
  <2> QED
    BY <1>5, <2>2, FunctionIsSeq
<1>8. queue \in Seq(Message) /\ posted \in Seq(Response)
  BY DEF TypeOK
<1>9. InLine(posted', queue')
  <2>1. \A m : \A k \in DOMAIN more : Before(m, more[k])
    BY <1>6 DEF Before, CloseRequest
  <2> QED
    BY <1>1, <1>2, <1>7, <1>8, <2>1, LineGrows DEF RequestsKeepOrder
<1>10. \A m \in Messages' : m \in Messages \/ \E k \in DOMAIN more : m = more[k]
  <2>1. \A j \in DOMAIN queue' : \/ \E i \in DOMAIN queue : queue'[j] = queue[i]
                                 \/ \E k \in DOMAIN more : queue'[j] = more[k]
    BY <1>1, <1>7, Enqueued
  <2> QED
    BY <1>2, <2>1 DEF Messages
<1>11. \A d \in Contexts : /\ Known(d)' = Known(d) /\ (d \in Live => Known(d))
                           /\ prediction[d] \in PredictionState
  BY <1>2, EditBase DEF Known, Live
<1>12. ASSUME NEW d \in Live
       PROVE  /\ Coherent(prediction'[d]) /\ ~session_open(prediction'[d])
              /\ prediction'[d].session_id = None
              /\ prediction'[d].next_request_id = prediction[d].next_request_id
              /\ \A m \in Messages : Fits(prediction'[d], d, m)
  BY <1>2, <1>11, ForgottenFits DEF Live, SettledPrediction, session_open
<1>13. StatesFit'
  <2> SUFFICES ASSUME NEW d \in Contexts, Known(d)'
               PROVE  Coherent(prediction'[d]) /\ \A m \in Messages' : Fits(prediction'[d], d, m)
    BY DEF StatesFit
  <2>1. CASE d \in Live
    <3>1. \A k \in DOMAIN more : Fits(prediction'[d], d, more[k])
      BY <1>6, <1>12, <2>1 DEF Fits, CloseRequest
    <3> QED
      BY <1>10, <1>12, <2>1, <3>1
  <2>2. CASE d \notin Live
    <3>1. /\ prediction'[d] = prediction[d] /\ Known(d)
          /\ Coherent(prediction[d]) /\ \A m \in Messages : Fits(prediction[d], d, m)
      BY <1>2, <1>11, <2>2 DEF RequestsKeepOrder, StatesFit
    <3>2. \A e \in Live : e \in Contexts /\ e # d /\ Known(e)
      BY <1>11, <2>2 DEF Live
    <3>3. \A k \in DOMAIN more : Fits(prediction[d], d, more[k])
      BY <1>6, <3>1, <3>2 DEF Fits, CloseRequest, RequestsKeepOrder, SessionsAreOwned, session_open
    <3> QED
      BY <1>10, <3>1, <3>3
  <2> QED
    BY <2>1, <2>2
<1>14. SessionsMove(c, {})
  <2>1. \A s \in PredictionState : s.next_request_id <= s.next_request_id
    BY DEF PredictionState
  <2> QED
    BY <1>2, <1>11, <1>12, <2>1 DEF SessionsMove
<1>15. OwnSessions(more, {})
  <2>1. \A d \in Live : d \in Contexts /\ Known(d)
    BY <1>11 DEF Live
  <2> QED
    BY <1>6, <2>1 DEF OwnSessions, CloseRequest, session_open
<1>16. TakesAtMostOne /\ HandsOut({})
  BY <1>2 DEF TakesAtMostOne, HandsOut
<1> QED
  BY <1>1, <1>2, <1>7, <1>9, <1>13, <1>14, <1>15, <1>16, SendStep

\* A restart of the transport answers what is queued and forgets every session.
LEMMA RestartInOrder ==
  ASSUME TypeOK, TypeOK', RequestsKeepOrder, SetTransportOptions
  PROVE  RequestsKeepOrder'
<1>1. /\ posted' = posted \o Failures(queue) /\ queue' = <<>> /\ service' \in {service, <<>>}
      /\ UNCHANGED <<attached, sessions_opened>>
      /\ prediction' = [c \in Contexts |-> IF c \in Live THEN RestartedPrediction(prediction[c])
                                           ELSE prediction[c]]
  BY DEF SetTransportOptions
<1>2. queue \in Seq(Message) /\ posted \in Seq(Response)
  BY DEF TypeOK
<1>3. InLine(posted', queue')
  BY <1>1, <1>2, LineFailed DEF RequestsKeepOrder
<1>4. /\ Failures(queue) \in Seq(Response)
      /\ \A k \in DOMAIN Failures(queue) : /\ Failures(queue)[k].code = "failed"
                                           /\ \E i \in DOMAIN queue : Failures(queue)[k].request = queue[i]
  BY <1>2, FailuresType DEF Failures, Reply
<1>5. \A k \in DOMAIN posted' : \/ k \in DOMAIN posted /\ posted'[k] = posted[k]
                                \/ \E i \in DOMAIN Failures(queue) : posted'[k] = Failures(queue)[i]
  <2> DEFINE F == Failures(queue)
  <2>1. F \in Seq(Response)
    BY <1>4
  <2> HIDE DEF F
  <2>2. \A k \in DOMAIN (posted \o F) : \/ k \in DOMAIN posted /\ (posted \o F)[k] = posted[k]
                                        \/ \E i \in DOMAIN F : (posted \o F)[k] = F[i]
    BY <1>2, <2>1, ConcatProperties, LenProperties
  <2> QED
    BY <1>1, <2>2 DEF F
<1>6. \A m \in Messages' : m \in Messages
  <2>1. \A k \in DOMAIN posted' : posted'[k].request \in Messages
    BY <1>4, <1>5 DEF Messages
  <2>2. \A k \in DOMAIN queue' : FALSE
    BY <1>1, EmptySeq
  <2> QED
    BY <2>1, <2>2 DEF Messages
<1>7. \A k \in DOMAIN posted' : Opens(k)' => k \in DOMAIN posted /\ posted'[k] = posted[k] /\ Opens(k)
  BY <1>4, <1>5 DEF Opens
<1>8. \A d \in Contexts : Known(d)' = Known(d) /\ (d \in Live => Known(d))
                           /\ prediction[d] \in PredictionState
  BY <1>1, EditBase DEF Known, Live
<1>9. ASSUME NEW d \in Live
      PROVE  /\ Coherent(prediction'[d]) /\ prediction'[d].session_id = None
             /\ \A m \in Messages : Fits(prediction'[d], d, m)
  BY <1>1, <1>8, ForgottenFits DEF Live, RestartedPrediction
<1>10. StatesFit'
  <2> SUFFICES ASSUME NEW d \in Contexts, Known(d)'
               PROVE  Coherent(prediction'[d]) /\ \A m \in Messages' : Fits(prediction'[d], d, m)
    BY DEF StatesFit
  <2>1. CASE d \in Live
    BY <1>6, <1>9, <2>1
  <2>2. CASE d \notin Live
    <3>1. /\ prediction'[d] = prediction[d]
          /\ Coherent(prediction[d]) /\ \A m \in Messages : Fits(prediction[d], d, m)
      BY <1>1, <1>8, <2>2 DEF RequestsKeepOrder, StatesFit
    <3> QED
      BY <1>6, <3>1
  <2> QED
    BY <2>1, <2>2
<1>11. \A d \in Contexts : prediction'[d].session_id = None \/ prediction'[d] = prediction[d]
  BY <1>1, <1>9
<1>12. \A s \in DOMAIN service' : s \in DOMAIN service /\ service'[s] = service[s] /\ s # None
  <2>1. \A s \in DOMAIN service : s # None
    BY DEF TypeOK, None
  <2>2. DOMAIN <<>> = {}
    OBVIOUS
  <2> QED
    BY <1>1, <2>1, <2>2
<1>13. OpenedAreFresh'
  <2> SUFFICES ASSUME NEW k \in DOMAIN posted', Opens(k)' PROVE IsFresh(k)'
    BY DEF OpenedAreFresh
  <2>1. IsFresh(k) /\ posted'[k] = posted[k] /\ k \in DOMAIN posted
    BY <1>7 DEF RequestsKeepOrder, OpenedAreFresh
  <2> DEFINE s == posted'[k].session_id
  <2>2. /\ s \in 1..sessions_opened /\ s # None
        /\ s \in DOMAIN service => service[s] = 0
        /\ \A d \in Contexts : Known(d) => prediction[d].session_id # s
        /\ \A m \in Messages : m.kind # "open" => m.session_id # s
        /\ \A j \in DOMAIN posted : Opens(j) /\ posted[j].session_id = s => j = k
    BY <2>1 DEF IsFresh, None
  <2> HIDE DEF s
  <2>3. /\ s \in DOMAIN service' => service'[s] = 0
        /\ \A d \in Contexts : Known(d)' => prediction'[d].session_id # s
        /\ \A m \in Messages' : m.kind # "open" => m.session_id # s
        /\ \A j \in DOMAIN posted' : Opens(j)' /\ posted'[j].session_id = s => j = k
    BY <1>6, <1>7, <1>8, <1>11, <1>12, <2>2
  <2> QED
    BY <1>1, <2>2, <2>3 DEF IsFresh, s
<1>14. SessionsAreOwned'
  <2>1. \A m \in Messages' : m.kind # "open" => m.session_id \in 1..sessions_opened'
    BY <1>1, <1>6 DEF RequestsKeepOrder, SessionsAreOwned
  <2>2. ASSUME NEW d \in Contexts, Known(d)'
        PROVE  /\ prediction'[d].session_id <= sessions_opened'
               /\ prediction'[d].session_id \in DOMAIN service' =>
                    service'[prediction'[d].session_id] < prediction'[d].next_request_id
    <3>1. CASE prediction'[d].session_id = None
      BY <1>1, <1>12, <3>1 DEF TypeOK, None
    <3>2. CASE prediction'[d] = prediction[d]
      BY <1>1, <1>8, <1>12, <2>2, <3>2 DEF RequestsKeepOrder, SessionsAreOwned
    <3> QED
      BY <1>11, <3>1, <3>2
  <2>3. ASSUME NEW d \in Contexts, NEW e \in Contexts, Known(d)', Known(e)',
               session_open(prediction'[d]), prediction'[d].session_id = prediction'[e].session_id
        PROVE  d = e
    <3>1. prediction'[d] = prediction[d] /\ prediction'[e] = prediction[e]
      BY <1>11, <2>3 DEF session_open
    <3> QED
      BY <1>8, <2>3, <3>1 DEF RequestsKeepOrder, SessionsAreOwned
  <2>4. \A j \in DOMAIN queue' : FALSE
    BY <1>1, EmptySeq
  <2> QED
    BY <2>1, <2>2, <2>3, <2>4 DEF SessionsAreOwned
<1> QED
  BY <1>3, <1>10, <1>13, <1>14 DEF RequestsKeepOrder


\* The worker's answers keep the order of requests: the service takes the
\* request ids of each session as they come.
LEMMA ServeInOrder ==
  ASSUME TypeOK, TypeOK', RequestsKeepOrder, Serve
  PROVE  RequestsKeepOrder'
<1> DEFINE h == Head(queue)
<1>1. queue # <<>> /\ queue' = Tail(queue) /\ UNCHANGED <<attached, prediction>>
  BY DEF Serve, ServeFails, ServeOpen, ServePredict, ServeClose, Answer
<1>2. queue \in Seq(Message) /\ posted \in Seq(Response) /\ sessions_opened \in Nat
      /\ (\A s \in DOMAIN service : s \in 1..sessions_opened /\ service[s] \in Nat)
  BY DEF TypeOK
<1>3. h = queue[1] /\ 1 \in DOMAIN queue /\ h \in Message
  BY <1>1, <1>2, HeadTailProperties, LenProperties
<1>4. \/ posted' = posted
      \/ \E reply \in Response : posted' = Append(posted, reply) /\ reply.request = h
  <2>1. \A code \in {"ok", "failed", "unknown_session", "out_of_order"}, sid \in Nat :
          Reply(h, code, sid) \in Response /\ Reply(h, code, sid).request = h
    BY <1>3, ReplyType DEF Reply
  <2>2. h.kind = "predict" => h.session_id \in Nat
    BY <1>3 DEF Message
  <2> HIDE DEF h
  <2>3. CASE ServeFails
    BY <2>1, <2>3 DEF ServeFails, Answer, None, h
  <2>4. CASE ServeOpen
    BY <1>2, <2>1, <2>4 DEF ServeOpen, Answer, h
  <2>5. CASE ServePredict
    BY <2>1, <2>2, <2>5 DEF ServePredict, Answer, None, h
  <2>6. CASE ServeClose
    BY <2>6 DEF ServeClose
  <2> QED
    BY <2>3, <2>4, <2>5, <2>6 DEF Serve
<1>5. InLine(posted', queue') /\ \A j \in DOMAIN queue' : Before(h, queue'[j])
  BY <1>1, <1>2, <1>4, LineAnswered DEF RequestsKeepOrder
<1>6. \A j \in DOMAIN queue' : \E i \in DOMAIN queue : queue'[j] = queue[i]
  BY <1>1, <1>2, TailElements
<1>7. \A k \in DOMAIN posted' :
        \/ k \in DOMAIN posted /\ posted'[k] = posted[k]
        \/ k = Len(posted) + 1 /\ posted'[k].request = h /\ posted' = Append(posted, posted'[k])
  BY <1>2, <1>4, AppendProperties, LenProperties
<1>8. h \in Messages
  BY <1>3 DEF Messages
<1>9. Messages' \subseteq Messages
  <2>1. \A j \in DOMAIN queue' : queue'[j] \in Messages
    BY <1>6 DEF Messages
  <2>2. \A k \in DOMAIN posted' : posted'[k].request \in Messages
    BY <1>7, <1>8 DEF Messages
  <2> QED
    BY <2>1, <2>2 DEF Messages
<1>10. StatesFit'
  BY <1>1, <1>9, FewerMessages
<1>11. \A d \in Contexts : Known(d)' = Known(d) /\ prediction'[d] = prediction[d]
                           /\ prediction[d].session_id \in Nat /\ prediction[d].next_request_id \in Nat \ {0}
  <2>1. \A d \in Contexts : prediction[d] \in PredictionState
    BY DEF TypeOK
  <2> QED
    BY <1>1, <2>1 DEF Known, PredictionState
<1>12. \A m \in Messages : m.kind # "open" => m.session_id \in 1..sessions_opened
  BY DEF RequestsKeepOrder, SessionsAreOwned
<1> HIDE DEF h
<1>13. CASE ServeOpen
  <2> DEFINE n == sessions_opened + 1
  <2>1. /\ sessions_opened' = n /\ h.kind = "open"
        /\ posted' = Append(posted, Reply(h, "ok", n))
        /\ service' = [s \in DOMAIN service \cup {n} |-> IF s = n THEN 0 ELSE service[s]]
    BY <1>13 DEF ServeOpen, Answer, WithRequestId, h
  <2>2. \A k \in DOMAIN posted' : \/ k \in DOMAIN posted /\ posted'[k] = posted[k] /\ (Opens(k)' = Opens(k))
                                  \/ k = Len(posted) + 1 /\ posted'[k].session_id = n
    <3>1. \A k \in DOMAIN posted' : \/ k \in DOMAIN posted /\ posted'[k] = posted[k]
                                    \/ k = Len(posted) + 1 /\ posted'[k] = Reply(h, "ok", n)
      BY <1>2, <2>1, AppendProperties, LenProperties
    <3> QED
      BY <3>1 DEF Opens, Reply
  <2> HIDE DEF n
  <2>3. n \notin 1..sessions_opened /\ n \in 1..n /\ n \notin DOMAIN service
        /\ \A s \in 1..sessions_opened : s \in 1..n /\ s # n
    BY <1>2 DEF n
  <2>4. \A d \in Contexts : Known(d) => prediction[d].session_id <= sessions_opened
                                        /\ prediction[d].session_id # n /\ prediction[d].session_id <= n
    <3>1. \A d \in Contexts : Known(d) => prediction[d].session_id <= sessions_opened
      BY DEF RequestsKeepOrder, SessionsAreOwned
    <3> QED
      BY <1>2, <1>11, <3>1 DEF n
  <2>5. OpenedAreFresh'
    <3> SUFFICES ASSUME NEW k \in DOMAIN posted', Opens(k)' PROVE IsFresh(k)'
      BY DEF OpenedAreFresh
    <3>1. CASE posted'[k].session_id = n /\ k = Len(posted) + 1
      <4>1. \A m \in Messages' : m.kind # "open" => m.session_id # n
        BY <1>9, <1>12, <2>3
      <4>2. \A j \in DOMAIN posted : Opens(j) => posted[j].session_id # n
        BY <2>3 DEF RequestsKeepOrder, OpenedAreFresh, IsFresh
      <4>3. \A j \in DOMAIN posted' : Opens(j)' /\ posted'[j].session_id = n => j = k
        BY <2>2, <3>1, <4>2
      <4> QED
        BY <1>11, <2>1, <2>3, <2>4, <3>1, <4>1, <4>3 DEF IsFresh
    <3>2. CASE k \in DOMAIN posted /\ posted'[k] = posted[k] /\ Opens(k)
      <4> DEFINE s == posted[k].session_id
      <4>1. /\ s \in 1..sessions_opened
            /\ s \in DOMAIN service => service[s] = 0
            /\ \A d \in Contexts : Known(d) => prediction[d].session_id # s
            /\ \A m \in Messages : m.kind # "open" => m.session_id # s
            /\ \A j \in DOMAIN posted : Opens(j) /\ posted[j].session_id = s => j = k
        BY <3>2 DEF RequestsKeepOrder, OpenedAreFresh, IsFresh
      <4> HIDE DEF s
      <4>2. /\ s \in 1..n /\ s # n
            /\ s \in DOMAIN service' => service'[s] = 0
            /\ \A d \in Contexts : Known(d)' => prediction'[d].session_id # s
            /\ \A m \in Messages' : m.kind # "open" => m.session_id # s
        BY <1>9, <1>11, <2>1, <2>3, <4>1
      <4>3. \A j \in DOMAIN posted' : Opens(j)' /\ posted'[j].session_id = s => j = k
        BY <2>2, <4>1, <4>2
      <4> QED
        BY <2>1, <3>2, <4>2, <4>3 DEF IsFresh, s
    <3> QED
      BY <2>2, <3>1, <3>2
  <2>6. SessionsAreOwned'
    <3>1. \A m \in Messages' : m.kind # "open" => m.session_id \in 1..n
      BY <1>9, <1>12, <2>3
    <3>2. \A d \in Contexts : Known(d)' =>
            /\ prediction'[d].session_id <= n
            /\ prediction'[d].session_id \in DOMAIN service' =>
                 service'[prediction'[d].session_id] < prediction'[d].next_request_id
      <4>1. \A d \in Contexts : Known(d) /\ prediction[d].session_id \in DOMAIN service =>
              service[prediction[d].session_id] < prediction[d].next_request_id
        BY DEF RequestsKeepOrder, SessionsAreOwned
      <4> QED
        BY <1>11, <2>1, <2>4, <4>1
    <3>3. \A c, d \in Contexts :
            Known(c)' /\ Known(d)' /\ session_open(prediction'[c])
              /\ prediction'[c].session_id = prediction'[d].session_id => c = d
      BY <1>11 DEF RequestsKeepOrder, SessionsAreOwned
    <3>4. ASSUME NEW j \in DOMAIN queue', queue'[j].kind = "predict", queue'[j].session_id \in DOMAIN service'
          PROVE  service'[queue'[j].session_id] < queue'[j].request_id
      <4>1. PICK i \in DOMAIN queue : queue'[j] = queue[i]
        BY <1>6
      <4>2. queue[i].session_id # n
        BY <1>12, <2>3, <3>4, <4>1 DEF Messages
      <4>3. service'[queue[i].session_id] = service[queue[i].session_id] /\ queue[i].session_id \in DOMAIN service
        BY <2>1, <3>4, <4>1, <4>2
      <4> QED
        BY <3>4, <4>1, <4>3 DEF RequestsKeepOrder, SessionsAreOwned
    <3> QED
      BY <2>1, <3>1, <3>2, <3>3, <3>4 DEF SessionsAreOwned
  <2> QED
    BY <1>5, <1>10, <2>5, <2>6 DEF RequestsKeepOrder
<1>14. CASE ServeFails \/ ServePredict \/ ServeClose
  <2>1. sessions_opened' = sessions_opened
    BY <1>14 DEF ServeFails, ServePredict, ServeClose
  <2>2. \A s \in DOMAIN service' :
          \/ s \in DOMAIN service /\ service'[s] = service[s]
          \/ /\ h.kind = "predict" /\ s = h.session_id /\ service'[s] = h.request_id
    <3>1. CASE ServeFails
      BY <3>1 DEF ServeFails
    <3>2. CASE ServePredict
      BY <3>2 DEF ServePredict, WithRequestId, h
    <3>3. CASE ServeClose
      BY <3>3 DEF ServeClose, WithoutSessions
    <3> QED
      BY <1>14, <3>1, <3>2, <3>3
  <2>3. \A k \in DOMAIN posted' : Opens(k)' => k \in DOMAIN posted /\ posted'[k] = posted[k] /\ Opens(k)
    <3>1. \/ posted' = posted
          \/ \E code, sid : posted' = Append(posted, Reply(h, code, sid)) /\ ~(h.kind = "open" /\ code = "ok")
      <4>1. CASE ServeFails
        BY <4>1 DEF ServeFails, Answer, h
      <4>2. CASE ServePredict
        BY <4>2 DEF ServePredict, Answer, h
      <4>3. CASE ServeClose
        BY <4>3 DEF ServeClose
      <4> QED
        BY <1>14, <4>1, <4>2, <4>3
    <3>2. CASE posted' = posted
      BY <3>2 DEF Opens
    <3>3. ASSUME NEW code, NEW sid, posted' = Append(posted, Reply(h, code, sid)),
                 ~(h.kind = "open" /\ code = "ok")
          PROVE  \A k \in DOMAIN posted' : Opens(k)' => k \in DOMAIN posted /\ posted'[k] = posted[k] /\ Opens(k)
      <4>1. \A k \in DOMAIN posted' : \/ k \in DOMAIN posted /\ posted'[k] = posted[k]
                                      \/ posted'[k] = Reply(h, code, sid)
        BY <1>2, <3>3, AppendProperties, LenProperties
      <4> QED
        BY <3>3, <4>1 DEF Opens, Reply
    <3> QED
      BY <3>1, <3>2, <3>3
  <2>4. OpenedAreFresh'
    <3> SUFFICES ASSUME NEW k \in DOMAIN posted', Opens(k)' PROVE IsFresh(k)'
      BY DEF OpenedAreFresh
    <3>1. k \in DOMAIN posted /\ posted'[k] = posted[k] /\ Opens(k)
      BY <2>3
    <3> DEFINE s == posted[k].session_id
    <3>2. /\ s \in 1..sessions_opened
          /\ s \in DOMAIN service => service[s] = 0
          /\ \A d \in Contexts : Known(d) => prediction[d].session_id # s
          /\ \A m \in Messages : m.kind # "open" => m.session_id # s
          /\ \A j \in DOMAIN posted : Opens(j) /\ posted[j].session_id = s => j = k
      BY <3>1 DEF RequestsKeepOrder, OpenedAreFresh, IsFresh
    <3> HIDE DEF s
    <3>3. /\ s \in DOMAIN service' => service'[s] = 0
          /\ \A d \in Contexts : Known(d)' => prediction'[d].session_id # s
          /\ \A m \in Messages' : m.kind # "open" => m.session_id # s
          /\ \A j \in DOMAIN posted' : Opens(j)' /\ posted'[j].session_id = s => j = k
      BY <1>8, <1>9, <1>11, <2>2, <2>3, <3>2
    <3> QED
      BY <2>1, <3>1, <3>2, <3>3 DEF IsFresh, s
  <2>5. SessionsAreOwned'
    <3>1. \A m \in Messages' : m.kind # "open" => m.session_id \in 1..sessions_opened
      BY <1>9, <1>12
    <3>2. ASSUME NEW d \in Contexts, Known(d)'
          PROVE  /\ prediction'[d].session_id <= sessions_opened
                 /\ prediction'[d].session_id \in DOMAIN service' =>
                      service'[prediction'[d].session_id] < prediction'[d].next_request_id
      <4>1. /\ Known(d) /\ prediction[d].session_id <= sessions_opened
            /\ prediction[d].session_id \in DOMAIN service =>
                 service[prediction[d].session_id] < prediction[d].next_request_id
        BY <1>11, <3>2 DEF RequestsKeepOrder, SessionsAreOwned
      <4>2. CASE h.kind = "predict" /\ prediction[d].session_id = h.session_id
        <5>1. prediction[d].session_id # None /\ Fits(prediction[d], d, h)
          BY <1>8, <1>12, <4>1, <4>2 DEF RequestsKeepOrder, StatesFit, None
        <5>2. h.context = d /\ h.request_id < prediction[d].next_request_id
          BY <4>2, <5>1 DEF Fits, session_open
        <5> QED
          BY <1>11, <2>2, <4>1, <5>2
      <4>3. CASE ~(h.kind = "predict" /\ prediction[d].session_id = h.session_id)
        BY <1>11, <2>2, <4>1, <4>3
      <4> QED
        BY <4>2, <4>3
    <3>3. \A c, d \in Contexts :
            Known(c)' /\ Known(d)' /\ session_open(prediction'[c])
              /\ prediction'[c].session_id = prediction'[d].session_id => c = d
      BY <1>11 DEF RequestsKeepOrder, SessionsAreOwned
    <3>4. ASSUME NEW j \in DOMAIN queue', queue'[j].kind = "predict", queue'[j].session_id \in DOMAIN service'
          PROVE  service'[queue'[j].session_id] < queue'[j].request_id
      <4>1. PICK i \in DOMAIN queue : queue'[j] = queue[i]
        BY <1>6
      <4>2. queue[i].session_id \in DOMAIN service => service[queue[i].session_id] < queue[i].request_id
        BY <3>4, <4>1 DEF RequestsKeepOrder, SessionsAreOwned
      <4>3. h.kind = "predict" /\ queue[i].session_id = h.session_id => h.request_id < queue[i].request_id
        BY <1>5, <3>4, <4>1 DEF Before
      <4> QED
        BY <2>2, <3>4, <4>1, <4>2, <4>3
    <3> QED
      BY <2>1, <3>1, <3>2, <3>3, <3>4 DEF SessionsAreOwned
  <2> QED
    BY <1>5, <1>10, <2>4, <2>5 DEF RequestsKeepOrder
<1> QED
  BY <1>13, <1>14 DEF Serve

\* A service that forgets sessions refuses their requests, which is in order.
LEMMA ForgetInOrder ==
  ASSUME TypeOK, TypeOK', RequestsKeepOrder, ForgetSessions
  PROVE  RequestsKeepOrder'
<1>1. UNCHANGED <<attached, prediction, queue, posted, sessions_opened>>
      /\ \A s \in DOMAIN service' : s \in DOMAIN service /\ service'[s] = service[s]
  BY DEF ForgetSessions, WithoutSessions
<1>2. Messages' = Messages /\ (\A d \in Contexts : Known(d)' = Known(d))
      /\ \A k \in DOMAIN posted : Opens(k)' = Opens(k)
  BY <1>1 DEF Messages, Known, Opens
<1>3. InLine(posted, queue)' /\ StatesFit'
  BY <1>1, <1>2 DEF RequestsKeepOrder, InLine, StatesFit
<1>4. OpenedAreFresh'
  BY <1>1, <1>2 DEF RequestsKeepOrder, OpenedAreFresh, IsFresh
<1>5. SessionsAreOwned'
  BY <1>1, <1>2 DEF RequestsKeepOrder, SessionsAreOwned
<1> QED
  BY <1>3, <1>4, <1>5 DEF RequestsKeepOrder


\* Handling an answer keeps the order of requests.
LEMMA DeliverInOrder ==
  ASSUME TypeOK, TypeOK', RequestsFollowRevisions, RequestsKeepOrder, Deliver
  PROVE  RequestsKeepOrder'
<1> DEFINE h == Head(posted)
           c == h.request.context
           p == prediction[c]
           b == buffer[c]
<1>1. posted # <<>> /\ posted' = Tail(posted) /\ UNCHANGED <<attached, service, sessions_opened>>
  BY DEF Deliver, IgnoreReply, SessionOpened, OpenFailed, PredictionArrived, PredictionFailed, Handled
<1>2. queue \in Seq(Message) /\ posted \in Seq(Response)
  BY DEF TypeOK
<1>3. h = posted[1] /\ 1 \in DOMAIN posted
  BY <1>1, <1>2, HeadTailProperties, LenProperties
<1>4. TakesAtMostOne /\ HandsOut({})
  BY <1>1 DEF TakesAtMostOne, HandsOut
<1>5. \A k \in DOMAIN posted' : posted'[k].request \in Messages /\ posted'[k] \in Response
  BY <1>4, RestOfPosted DEF RequestsKeepOrder, TypeOK
<1>6. \A k \in DOMAIN queue : queue[k] \in Messages /\ queue[k] \in Message
  BY <1>2 DEF Messages
<1>7. CASE IgnoreReply
  <2>1. UNCHANGED <<attached, prediction, queue>>
    BY <1>7 DEF IgnoreReply
  <2>2. queue' = queue \o <<>> /\ <<>> \in Seq(Message)
    BY <1>2, <2>1, EmptySeq
  <2>3. InLine(posted', queue')
    BY <1>1, <1>2, <2>1, LineTaken DEF RequestsKeepOrder
  <2>4. StatesFit'
    <3>1. Messages' \subseteq Messages
      BY <1>5, <2>1 DEF Messages
    <3> QED
      BY <2>1, <3>1, FewerMessages
  <2>5. SessionsMove(0, {})
    <3>1. \A s \in PredictionState : s.next_request_id <= s.next_request_id
      BY DEF PredictionState
    <3> QED
      BY <2>1, <3>1, EditBase DEF SessionsMove, Known
  <2>6. OwnSessions(<<>>, {})
    BY EmptySeq DEF OwnSessions
  <2> QED
    BY <1>1, <1>4, <2>2, <2>3, <2>4, <2>5, <2>6, SendStep
<1>8. ASSUME ~Ignored(h)
      PROVE  /\ c \in Live /\ c \in Contexts /\ Known(c) /\ p \in PredictionState /\ b \in CompositionBuffer
             /\ p.pending /\ p.generation = h.request.generation
             /\ h.request \in Message /\ h.session_id \in Nat
             /\ Coherent(p) /\ \A m \in Messages : Fits(p, c, m)
             /\ h.request \in Messages
  BY <1>1, <1>8, DeliverBase DEF Response, Ignored, Stale, RequestsKeepOrder, StatesFit
<1>9. ASSUME ~Ignored(h), NEW q, NEW r \in Result, Continues(c, q, r), Handled(c, r),
             \/ q = p
             \/ q = WithoutSession(p) /\ h.request.kind = "predict" /\ h.code # "ok"
      PROVE  RequestsKeepOrder'
  <2>1. q \in PredictionState /\ q.session_id \in {p.session_id, None} /\ q.next_request_id = p.next_request_id
    <3>1. p \in PredictionState
      BY <1>8, <1>9
    <3>2. \A s \in PredictionState : WithoutSession(s) \in PredictionState
      BY StateTypes
    <3>3. \A s \in PredictionState : /\ WithoutSession(s).session_id = None
                                     /\ WithoutSession(s).next_request_id = s.next_request_id
      BY DEF WithoutSession, PredictionState
    <3> HIDE DEF p
    <3> QED
      BY <1>9, <3>1, <3>2, <3>3
  <2>2. /\ \A k \in DOMAIN queue : Fits(q, c, queue[k])
        /\ \A k \in DOMAIN posted' : Fits(q, c, posted'[k].request)
    <3>1. CASE q = p
      BY <1>5, <1>6, <1>8, <1>9, <3>1
    <3>2. CASE q = WithoutSession(p) /\ h.request.kind = "predict" /\ h.code # "ok"
      <4>1. /\ session_open(p) /\ p.inflight_request_id # None
            /\ p.inflight_request_id = h.request.request_id
            /\ p.inflight_request_id + 1 = p.next_request_id
        BY <1>8, <1>9, <3>2 DEF Fits, Coherent, Ignored, correlates_error
      <4>2. ASSUME NEW m \in Message, m \in Messages, Before(h.request, m)
            PROVE  ~(m.kind = "predict" /\ m.context = c)
        <5>1. SUFFICES ASSUME m.kind = "predict", m.context = c PROVE FALSE
          OBVIOUS
        <5>2. h.request.request_id < m.request_id /\ m.request_id < p.next_request_id
          BY <1>8, <1>9, <3>2, <4>2, <5>1 DEF Before, Fits
        <5>3. m.request_id \in Nat /\ h.request.request_id \in Nat /\ p.next_request_id \in Nat
          BY <1>8, <1>9, <3>2, <5>1 DEF Message, PredictionState
        <5> QED
          BY <4>1, <5>2, <5>3
      <4>3. ~session_open(q)
        BY <1>8, <1>9, <3>2 DEF WithoutSession, session_open, PredictionState
      <4>4. ASSUME NEW m \in Message, m \in Messages, Before(h.request, m)
            PROVE  Fits(q, c, m)
        BY <4>2, <4>3, <4>4 DEF Fits
      <4>5. /\ \A k \in DOMAIN queue : Before(h.request, queue[k])
            /\ \A k \in DOMAIN posted' : Before(h.request, posted'[k].request)
        BY <1>1, <1>2, LineTaken DEF RequestsKeepOrder
      <4>6. \A k \in DOMAIN posted' : posted'[k].request \in Message
        BY <1>5 DEF Response
      <4> QED
        BY <1>5, <1>6, <4>4, <4>5, <4>6
    <3> QED
      BY <1>9, <3>1, <3>2
  <2>3. prediction' = [prediction EXCEPT ![c] = r.prediction] /\ queue' = queue \o r.requests
    BY <1>9 DEF Handled
  <2> HIDE DEF h
  <2> QED
    BY <1>1, <1>4, <1>8, <1>9, <2>1, <2>2, <2>3, ContextStep
<1>10. CASE SessionOpened
  <2> DEFINE q == [p EXCEPT !.session_id = h.session_id]
             r == send_prediction(c, q, b)
             taken == {posted[1].session_id}
  <2>1. ~Ignored(h) /\ h.request.kind = "open" /\ h.code = "ok" /\ Handled(c, r)
    BY <1>10 DEF SessionOpened
  <2>2. Opens(1) /\ HandsOut(taken)
    BY <1>1, <1>3, <2>1 DEF Opens, HandsOut
  <2>3. /\ h.session_id # None
        /\ \A m \in Messages : m.kind # "open" => m.session_id # h.session_id
    BY <1>3, <2>2 DEF RequestsKeepOrder, OpenedAreFresh, IsFresh, None
  <2>4. ~session_open(p) /\ p.inflight_request_id = None
    BY <1>8, <2>1 DEF Ignored, Coherent
  <2>5. /\ q \in PredictionState /\ q.session_id = h.session_id /\ q.pending = p.pending
        /\ q.generation = p.generation /\ q.inflight_request_id = p.inflight_request_id
        /\ q.inflight_revision = p.inflight_revision /\ q.next_request_id = p.next_request_id
    <3>1. q \in PredictionState
      BY <1>8, <2>1, StateTypes
    <3> QED
      BY <1>8, <2>1, <3>1 DEF PredictionState
  <2> HIDE DEF q, taken
  <2>6. r \in Result /\ Continues(c, q, r)
    BY <1>8, <2>1, <2>3, <2>5, SendType, SendContinues DEF session_open
  <2>7. ASSUME NEW m \in Messages PROVE Fits(q, c, m)
    <3>1. Fits(p, c, m) /\ (m.kind # "open" => m.session_id # h.session_id)
      BY <1>8, <2>1, <2>3
    <3> QED
      BY <2>3, <2>4, <2>5, <3>1 DEF Fits, session_open
  <2>8. /\ \A k \in DOMAIN queue : Fits(q, c, queue[k])
        /\ \A k \in DOMAIN posted' : Fits(q, c, posted'[k].request)
    BY <1>5, <1>6, <2>7
  <2>9. prediction' = [prediction EXCEPT ![c] = r.prediction] /\ queue' = queue \o r.requests
    BY <2>1 DEF Handled
  <2>10. q.session_id \in {p.session_id, None} \cup taken
    BY <1>3, <2>5 DEF taken
  <2> HIDE DEF r, h
  <2> QED
    BY <1>1, <1>4, <1>8, <2>1, <2>2, <2>5, <2>6, <2>8, <2>9, <2>10, ContextStep
<1>11. CASE OpenFailed \/ PredictionFailed
  <2>1. PICK q \in {p, WithoutSession(p)} :
          /\ ~Ignored(h) /\ Handled(c, FallBack(c, q, b, phrases))
          /\ \/ q = p
             \/ q = WithoutSession(p) /\ h.request.kind = "predict" /\ h.code # "ok"
    BY <1>11 DEF OpenFailed, PredictionFailed
  <2>2. q \in PredictionState
    BY <1>8, <2>1, StateTypes
  <2>3. FallBack(c, q, b, phrases) \in Result /\ Continues(c, q, FallBack(c, q, b, phrases))
    BY <1>8, <2>1, <2>2, FallBackType, FallBackContinues
  <2> QED
    BY <1>9, <2>1, <2>3
<1>12. CASE PredictionArrived
  <2> DEFINE b1 == apply_prediction(b, p.segment_indices, h.request.padding)
             b2 == apply_phrase_override(b1, phrases)
  <2>1. ~Ignored(h) /\ h.request.kind = "predict" /\ h.code = "ok"
    BY <1>12 DEF PredictionArrived
  <2>2. CASE matches_composition(p, b, h.request.padding)
    <3>1. Handled(c, Finish(c, p, b2, phrases))
      BY <1>12, <2>2 DEF PredictionArrived
    <3>2. b2 \in CompositionBuffer
      <4>1. h.request.padding \in Seq(PaddingEntry)
        BY <1>8, <2>1 DEF Message
      <4>2. p.segment_indices \in Seq(Nat) /\ Len(h.request.padding) = Len(p.segment_indices)
        BY <1>8, <2>1, <2>2 DEF PredictionState, matches_composition
      <4> QED
        BY <1>8, <2>1, <4>1, <4>2, ApplyPredictionType, PhraseOverrideType
    <3> HIDE DEF b2
    <3>3. Finish(c, p, b2, phrases) \in Result /\ Continues(c, p, Finish(c, p, b2, phrases))
      BY <1>8, <2>1, <3>2, FinishType, FinishContinues
    <3> QED
      BY <1>9, <2>1, <3>1, <3>3
  <2>3. CASE ~matches_composition(p, b, h.request.padding)
    <3>1. Handled(c, FallBack(c, p, b, phrases))
      BY <1>12, <2>3 DEF PredictionArrived
    <3>2. FallBack(c, p, b, phrases) \in Result /\ Continues(c, p, FallBack(c, p, b, phrases))
      BY <1>8, <2>1, FallBackType, FallBackContinues
    <3> QED
      BY <1>9, <2>1, <3>1, <3>2
  <2> QED
    BY <2>2, <2>3
<1> QED
  BY <1>7, <1>10, <1>11, <1>12 DEF Deliver

\* At first nothing was sent and no session is open.
LEMMA InitInOrder == Init => RequestsKeepOrder
<1> SUFFICES ASSUME Init PROVE RequestsKeepOrder
  OBVIOUS
<1>1. /\ queue = <<>> /\ posted = <<>> /\ service = <<>> /\ sessions_opened = 0
      /\ \A c \in Contexts : prediction[c] = InitialPrediction /\ attached[c] = "new"
  BY DEF Init
<1>2. Messages = {}
  BY <1>1, EmptySeq DEF Messages
<1>3. InLine(posted, queue) /\ OpenedAreFresh
  BY <1>1, EmptySeq DEF InLine, OpenedAreFresh
<1>4. StatesFit
  BY <1>1, <1>2 DEF StatesFit, Coherent, InitialPrediction
<1>5. SessionsAreOwned
  BY <1>1, <1>2, EmptySeq DEF SessionsAreOwned, InitialPrediction, session_open, None
<1> QED
  BY <1>3, <1>4, <1>5 DEF RequestsKeepOrder

\* Every step keeps the order of requests.
LEMMA NextInOrder ==
  ASSUME TypeOK, TypeOK', RequestsFollowRevisions, RequestsKeepOrder, [Next]_vars
  PROVE  RequestsKeepOrder'
<1>1. CASE UNCHANGED vars
  <2>1. UNCHANGED <<attached, prediction, queue, posted, service, sessions_opened>>
    BY <1>1 DEF vars
  <2>2. Messages' = Messages /\ (\A d \in Contexts : Known(d)' = Known(d))
        /\ \A k \in DOMAIN posted : Opens(k)' = Opens(k)
    BY <2>1 DEF Messages, Known, Opens
  <2>3. InLine(posted, queue)' /\ StatesFit'
    BY <2>1, <2>2 DEF RequestsKeepOrder, InLine, StatesFit
  <2>4. OpenedAreFresh'
    BY <2>1, <2>2 DEF RequestsKeepOrder, OpenedAreFresh, IsFresh
  <2>5. SessionsAreOwned'
    BY <2>1, <2>2 DEF RequestsKeepOrder, SessionsAreOwned
  <2> QED
    BY <2>3, <2>4, <2>5 DEF RequestsKeepOrder
<1> QED
  BY <1>1, UserActionInOrder, SetConfigInOrder, RestartInOrder, ServeInOrder, ForgetInOrder,
     DeliverInOrder DEF Next

\* No response reports a request id out of order.
NoneOutOfOrder == \A k \in DOMAIN posted : posted[k].code # "out_of_order"

\* The service never refuses a request id while the requests keep their order.
LEMMA NextRefusesNone ==
  ASSUME TypeOK, RequestsKeepOrder, NoneOutOfOrder, [Next]_vars
  PROVE  NoneOutOfOrder'
<1>1. queue \in Seq(Message) /\ posted \in Seq(Response)
  BY DEF TypeOK
<1>2. CASE posted' = posted
  BY <1>2 DEF NoneOutOfOrder
<1>3. CASE SetTransportOptions
  <2> DEFINE F == Failures(queue)
  <2>1. F \in Seq(Response) /\ \A k \in DOMAIN F : F[k].code = "failed"
    BY <1>1, FailuresType DEF Failures, Reply
  <2>2. posted' = posted \o F
    BY <1>3 DEF SetTransportOptions
  <2> HIDE DEF F
  <2>3. \A k \in DOMAIN (posted \o F) : \/ \E i \in DOMAIN posted : (posted \o F)[k] = posted[i]
                                        \/ \E i \in DOMAIN F : (posted \o F)[k] = F[i]
    <3>1. posted \in Seq(Response) /\ F \in Seq(Response)
      BY <1>1, <2>1
    <3> QED
      BY <3>1, ConcatElements
  <2> QED
    BY <2>1, <2>2, <2>3 DEF NoneOutOfOrder
<1>4. CASE Serve
  <2>1. posted' = posted \/ \E reply : posted' = Append(posted, reply) /\ reply.code # "out_of_order"
    <3>1. CASE ServeFails
      BY <3>1 DEF ServeFails, Answer, Reply
    <3>2. CASE ServeOpen
      BY <3>2 DEF ServeOpen, Answer, Reply
    <3>3. CASE ServePredict
      <4>1. queue # <<>> /\ Head(queue).kind = "predict"
        BY <3>3 DEF ServePredict
      <4>2. 1 \in DOMAIN queue /\ Head(queue) = queue[1] /\ Head(queue) \in Message
        BY <1>1, <4>1, HeadTailProperties, LenProperties
      <4>3. Head(queue).session_id \in DOMAIN service =>
              service[Head(queue).session_id] < Head(queue).request_id
        BY <4>1, <4>2 DEF RequestsKeepOrder, SessionsAreOwned
      <4>4. Head(queue).request_id \in Nat
            /\ (Head(queue).session_id \in DOMAIN service => service[Head(queue).session_id] \in Nat)
        BY <4>1, <4>2 DEF Message, TypeOK
      <4>5. Head(queue).session_id \in DOMAIN service =>
              ~(Head(queue).request_id <= service[Head(queue).session_id])
        BY <4>3, <4>4
      <4>6. \E sid : \E code \in {"ok", "failed", "unknown_session"} :
              posted' = Append(posted, Reply(Head(queue), code, sid))
        BY <3>3, <4>5 DEF ServePredict, Answer
      <4> QED
        BY <4>6 DEF Reply
    <3>4. CASE ServeClose
      BY <3>4 DEF ServeClose
    <3> QED
      BY <1>4, <3>1, <3>2, <3>3, <3>4 DEF Serve
  <2>2. ASSUME NEW reply, posted' = Append(posted, reply), reply.code # "out_of_order"
        PROVE  NoneOutOfOrder'
    <3>1. \A k \in DOMAIN posted' : \/ k \in DOMAIN posted /\ posted'[k] = posted[k]
                                    \/ posted'[k] = reply
      BY <1>1, <2>2, AppendProperties, LenProperties
    <3> QED
      BY <2>2, <3>1 DEF NoneOutOfOrder
  <2> QED
    BY <1>2, <2>1, <2>2
<1>5. CASE Deliver
  <2>1. posted # <<>> /\ posted' = Tail(posted)
    BY <1>5 DEF Deliver, IgnoreReply, SessionOpened, OpenFailed, PredictionArrived, PredictionFailed, Handled
  <2>2. \A k \in DOMAIN Tail(posted) : k + 1 \in DOMAIN posted /\ Tail(posted)[k] = posted[k + 1]
    BY <1>1, <2>1, TailElements
  <2> QED
    BY <2>1, <2>2 DEF NoneOutOfOrder
<1>6. ASSUME NEW c \in Contexts, UserAction(c) PROVE posted' = posted
  BY <1>6 DEF UserAction, Attach, TypeSymbol, CompleteReading, SettleMixedPath, RemoveSegment,
              DeleteNothing, InsertLiteral, MoveCaret, SelectCandidate, CancelSelection, StorePhrase,
              Commit, Reset, Detach, Edit, EditAndRequest, Apply
<1>7. CASE SetConfig \/ ForgetSessions \/ UNCHANGED vars
  BY <1>2, <1>7 DEF SetConfig, ForgetSessions, vars
<1> QED
  BY <1>2, <1>3, <1>4, <1>5, <1>6, <1>7 DEF Next

\* The inductive invariant holds throughout.
LEMMA OrderKept == Spec => [](RequestsKeepOrder /\ NoneOutOfOrder)
<1>1. Init => RequestsKeepOrder /\ NoneOutOfOrder
  BY InitInOrder, EmptySeq DEF Init, NoneOutOfOrder
<1>2. TypeOK /\ TypeOK' /\ RequestsFollowRevisions /\ RequestsKeepOrder /\ NoneOutOfOrder
        /\ [Next]_vars => RequestsKeepOrder' /\ NoneOutOfOrder'
  BY NextInOrder, NextRefusesNone
<1> QED
  BY <1>1, <1>2, TypeCorrect, RequestsDescribeCompositions, PTL DEF Spec

\* The service gets requests as it expects them, whatever the users of all
\* contexts, the configuration and the service itself do in between: request
\* ids of a session only grow on their way to it (it never answers
\* OutOfOrderRequest), and no prediction follows the Close of its session.
THEOREM ServiceIsUsedAsExpected == Spec => []SessionsUsedAsExpected
<1>1. RequestsKeepOrder /\ NoneOutOfOrder => SessionsUsedAsExpected
  BY DEF RequestsKeepOrder, InLine, Before, NoneOutOfOrder, SessionsUsedAsExpected
<1> QED
  BY <1>1, OrderKept, PTL

-----------------------------------------------------------------------------
(* The answers a context acts on *)

\* Only the delivery of a response takes one.
LEMMA OnlyDeliverTakes ==
  ASSUME TypeOK, TakesResponse, [Next]_vars
  PROVE  Deliver
<1>1. posted \in Seq(Response) /\ Len(posted) \in Nat /\ Len(posted') = Len(posted) - 1
  BY HeadTailProperties, LenProperties DEF TypeOK, TakesResponse
<1>2. posted' # posted
  BY <1>1
<1>3. ASSUME NEW c \in Contexts, UserAction(c) PROVE posted' = posted
  BY <1>3 DEF UserAction, Attach, TypeSymbol, CompleteReading, SettleMixedPath, RemoveSegment,
              DeleteNothing, InsertLiteral, MoveCaret, SelectCandidate, CancelSelection, StorePhrase,
              Commit, Reset, Detach, Edit, EditAndRequest, Apply
<1>4. SetConfig \/ ForgetSessions \/ UNCHANGED vars => posted' = posted
  BY DEF SetConfig, ForgetSessions, vars
<1>5. ~SetTransportOptions
  <2> SUFFICES ASSUME posted' = posted \o Failures(queue) PROVE FALSE
    BY DEF SetTransportOptions
  <2> DEFINE F == Failures(queue)
  <2>1. F \in Seq(Response)
    BY FailuresType DEF TypeOK
  <2> HIDE DEF F
  <2>2. Len(posted \o F) = Len(posted) + Len(F) /\ Len(F) \in Nat
    BY <1>1, <2>1, ConcatProperties, LenProperties
  <2> QED
    BY <1>1, <2>2 DEF F
<1>6. ~Serve
  <2>1. ASSUME NEW reply, posted' = Append(posted, reply) PROVE FALSE
    BY <1>1, <2>1
  <2> QED
    BY <1>2, <2>1 DEF Serve, ServeFails, ServeOpen, ServePredict, ServeClose, Answer
<1> QED
  BY <1>2, <1>3, <1>4, <1>5, <1>6 DEF Next

\* What a finished dirty request leaves: another one, or nothing to ask for.
Repeats(p, r) ==
  p.dirty /\ ~r.prediction.pending => completed_segment_indices(r.buffer) = <<>>

\* finish() repeats a dirty request.
LEMMA FinishRepeats ==
  ASSUME NEW c \in Contexts, NEW p \in PredictionState, NEW b \in CompositionBuffer, NEW stored
  PROVE  Repeats(p, Finish(c, p, b, stored))
<1> DEFINE q == clear_pending(p)
           b1 == apply_phrase_override(b, stored)
           p1 == begin(q, b1)
<1>1. q \in PredictionState /\ ~q.pending
  BY ClearedFits
<1> HIDE DEF q, b1
<1>2. completed_segment_indices(b1) # <<>> => p1.pending /\ Begins(q, b1)
  BY <1>1 DEF begin, Begins, PredictionState
<1>3. p1 \in PredictionState => send_prediction(c, p1, b1).prediction.pending = p1.pending
  BY DEF send_prediction, PredictionState
<1>4. b1 \in CompositionBuffer => p1 \in PredictionState
  BY <1>1, BeginType
<1>5. b1 \in CompositionBuffer
  BY PhraseOverrideType DEF b1
<1> HIDE DEF p1
<1>6. LET r == request_prediction(c, q, b, stored)
      IN  r.buffer = b1 /\ (completed_segment_indices(b1) # <<>> => r.prediction.pending)
  BY <1>2, <1>3, <1>4, <1>5 DEF request_prediction, send_prediction, b1, p1
<1> QED
  BY <1>6 DEF Repeats, Finish, q

\* What the delivery of a response does to the contexts: it changes nothing, or
\* the context that awaited it moves on, with a request that is repeated when
\* it was dirty.
LEMMA DeliveredTo ==
  ASSUME TypeOK, RequestsFollowRevisions, RequestsKeepOrder, Deliver
  PROVE  \/ UNCHANGED prediction
         \/ \E c \in Live : /\ Awaited(c, Head(posted).request)
                            /\ \A d \in Live \ {c} : prediction'[d] = prediction[d]
                            /\ Repeats(prediction[c], [buffer |-> buffer'[c], prediction |-> prediction'[c]])
<1> DEFINE h == Head(posted)
           c == h.request.context
           p == prediction[c]
           b == buffer[c]
<1>1. CASE IgnoreReply
  BY <1>1 DEF IgnoreReply
<1> SUFFICES ASSUME ~IgnoreReply
             PROVE  \E d \in Live : /\ Awaited(d, h.request)
                                    /\ \A e \in Live \ {d} : prediction'[e] = prediction[e]
                                    /\ Repeats(prediction[d], [buffer |-> buffer'[d], prediction |-> prediction'[d]])
  BY <1>1
<1>2. posted # <<>> /\ ~Ignored(h)
  BY DEF Deliver, SessionOpened, OpenFailed, PredictionArrived, PredictionFailed
<1>3. /\ c \in Live /\ c \in Contexts /\ p \in PredictionState /\ b \in CompositionBuffer
      /\ h.request \in Messages /\ h \in Response
      /\ Coherent(p) /\ Fits(p, c, h.request)
      /\ p.pending /\ p.generation = h.request.generation
      /\ h.request.kind = "open" => ~session_open(p)
      /\ h.request.kind = "predict" /\ h.code = "ok" => correlates_prediction(p, h.request)
      /\ h.request.kind = "predict" /\ h.code # "ok" => correlates_error(p, h.request)
  BY <1>2, DeliverBase DEF Ignored, Stale, RequestsKeepOrder, StatesFit
<1>4. h.request.kind \in {"open", "predict"}
  BY DEF Deliver, SessionOpened, OpenFailed, PredictionArrived, PredictionFailed
<1>5. Awaited(c, h.request)
  <2>1. CASE h.request.kind = "open"
    BY <1>3, <2>1 DEF Awaited, Coherent
  <2>2. CASE h.request.kind = "predict" /\ h.code = "ok"
    BY <1>3, <2>2 DEF Awaited, correlates_prediction
  <2>3. CASE h.request.kind = "predict" /\ h.code # "ok"
    <3>1. session_open(p) /\ p.inflight_request_id # None
      BY <1>3, <2>3 DEF Fits, Coherent
    <3>2. p.inflight_request_id = h.request.request_id
      BY <1>3, <2>3, <3>1 DEF correlates_error
    <3>3. h.request.session_id = p.session_id /\ h.request.buffer_revision = p.inflight_revision
      BY <1>3, <2>3, <3>2 DEF Fits
    <3> QED
      BY <1>3, <2>3, <3>1, <3>2, <3>3 DEF Awaited
  <2> QED
    BY <1>4, <2>1, <2>2, <2>3
<1>6. PICK r : Handled(c, r) /\ Repeats(p, r)
  <2>1. CASE SessionOpened
    <3> DEFINE q == [p EXCEPT !.session_id = h.session_id]
    <3>1. Handled(c, send_prediction(c, q, b))
      BY <2>1 DEF SessionOpened
    <3>2. send_prediction(c, q, b).prediction.pending
      BY <1>3 DEF send_prediction, PredictionState
    <3> QED
      BY <3>1, <3>2 DEF Repeats
  <2>2. CASE OpenFailed \/ PredictionFailed
    <3>1. PICK q \in {p, WithoutSession(p)} : Handled(c, FallBack(c, q, b, phrases))
      BY <2>2 DEF OpenFailed, PredictionFailed
    <3>2. q \in PredictionState /\ q.dirty = p.dirty
      <4>1. q \in PredictionState
        BY <1>3, <3>1, StateTypes
      <4> QED
        BY <1>3, <3>1, <4>1 DEF WithoutSession, PredictionState
    <3>3. Repeats(q, FallBack(c, q, b, phrases))
      <4>1. apply_phrase_override(apply_fallback_candidates(b, q.segment_indices), phrases) \in CompositionBuffer
        BY <1>3, FallbackType, PhraseOverrideType
      <4> HIDE DEF b
      <4> QED
        BY <1>3, <3>2, <4>1, FinishRepeats DEF FallBack
    <3> QED
      BY <3>1, <3>2, <3>3 DEF Repeats
  <2>3. CASE PredictionArrived
    <3> DEFINE b1 == apply_prediction(b, p.segment_indices, h.request.padding)
               b2 == apply_phrase_override(b1, phrases)
               b3 == apply_phrase_override(apply_fallback_candidates(b, p.segment_indices), phrases)
    <3>1. h.request.kind = "predict"
      BY <2>3 DEF PredictionArrived
    <3>2. CASE matches_composition(p, b, h.request.padding)
      <4>1. Handled(c, Finish(c, p, b2, phrases))
        BY <2>3, <3>2 DEF PredictionArrived
      <4>2. b2 \in CompositionBuffer
        <5>1. h.request.padding \in Seq(PaddingEntry)
          BY <1>3, <3>1 DEF Response, Message
        <5>2. p.segment_indices \in Seq(Nat) /\ Len(h.request.padding) = Len(p.segment_indices)
          BY <1>3, <3>2 DEF PredictionState, matches_composition
        <5> QED
          BY <1>3, <5>1, <5>2, ApplyPredictionType, PhraseOverrideType
      <4> HIDE DEF b2
      <4>3. Repeats(p, Finish(c, p, b2, phrases))
        BY <1>3, <4>2, FinishRepeats
      <4> QED
        BY <4>1, <4>3
    <3>3. CASE ~matches_composition(p, b, h.request.padding)
      <4>1. Handled(c, Finish(c, p, b3, phrases))
        BY <2>3, <3>3 DEF PredictionArrived, FallBack
      <4>2. b3 \in CompositionBuffer
        BY <1>3, FallbackType, PhraseOverrideType
      <4> HIDE DEF b3
      <4>3. Repeats(p, Finish(c, p, b3, phrases))
        BY <1>3, <4>2, FinishRepeats
      <4> QED
        BY <4>1, <4>3
    <3> QED
      BY <3>2, <3>3
  <2> QED
    BY <2>1, <2>2, <2>3 DEF Deliver
<1>7. /\ buffer'[c] = r.buffer /\ prediction'[c] = r.prediction
      /\ \A d \in Contexts \ {c} : prediction'[d] = prediction[d]
  BY <1>3, <1>6 DEF Handled, TypeOK
<1>8. Repeats(p, [buffer |-> buffer'[c], prediction |-> prediction'[c]])
  BY <1>6, <1>7 DEF Repeats
<1>9. Live \subseteq Contexts
  BY DEF Live
<1> HIDE DEF c
<1> QED
  BY <1>3, <1>5, <1>7, <1>8, <1>9

\* A context moves on only with the answer it awaits: neither an answer about
\* an earlier request nor an error of one, which correlates(Error) would accept
\* while no request id is in flight, changes its prediction state.
THEOREM OnlyOwnRepliesCount == Spec => AnsweredByItsOwnReply
<1>1. ASSUME TypeOK, RequestsFollowRevisions, RequestsKeepOrder, [Next]_vars
      PROVE  [\A c \in Live :
                TakesResponse /\ prediction'[c] # prediction[c]
                  => Awaited(c, Head(posted).request)]_vars
  <2> SUFFICES ASSUME NEW c \in Live, TakesResponse, prediction'[c] # prediction[c]
               PROVE  Awaited(c, Head(posted).request)
    OBVIOUS
  <2>1. Deliver
    BY <1>1, OnlyDeliverTakes
  <2> QED
    BY <1>1, <2>1, DeliveredTo
<1> QED
  BY <1>1, OrderKept, TypeCorrect, RequestsDescribeCompositions, PTL DEF Spec, AnsweredByItsOwnReply

\* What changed while a request was on its way is asked for again with its
\* answer: a dirty request that is finished, by candidates, an outdated answer
\* or an error, is pending again unless no completed reading is left.
THEOREM DirtyRequestsAreRepeated == Spec => DirtyIsRepeated
<1>1. ASSUME TypeOK, RequestsFollowRevisions, RequestsKeepOrder, [Next]_vars
      PROVE  [\A c \in Live :
                TakesResponse /\ prediction[c].dirty /\ ~prediction'[c].pending
                  => completed_segment_indices(buffer'[c]) = <<>>]_vars
  <2> SUFFICES ASSUME NEW c \in Live, TakesResponse, prediction[c].dirty, ~prediction'[c].pending
               PROVE  completed_segment_indices(buffer'[c]) = <<>>
    OBVIOUS
  <2>1. Deliver
    BY <1>1, OnlyDeliverTakes
  <2>2. prediction[c].pending
    BY <1>1 DEF Live, Known, RequestsKeepOrder, StatesFit, Coherent
  <2>3. prediction'[c] # prediction[c]
    BY <2>2
  <2> HIDE DEF Live
  <2>4. Repeats(prediction[c], [buffer |-> buffer'[c], prediction |-> prediction'[c]])
    BY <1>1, <2>1, <2>3, DeliveredTo
  <2> QED
    BY <2>4 DEF Repeats
<1> QED
  BY <1>1, OrderKept, TypeCorrect, RequestsDescribeCompositions, PTL DEF Spec, DirtyIsRepeated

-----------------------------------------------------------------------------
(* What a request in flight knows of its composition *)

\* The request m has every completed reading of b, and knows of every choice
\* the user made in b.
Answers(m, b) ==
  LET indices == completed_segment_indices(b)
  IN  /\ Len(m.padding) = Len(indices)
      /\ \A k \in DOMAIN indices : m.padding[k].reading = b.segments[indices[k]].reading
      /\ \A k \in DOMAIN indices :
           b.segments[indices[k]].choice = "manual" => m.padding[k].chosen

\* Whatever answers b answers b2 as well.
Keeps(b, b2) == \A m : Answers(m, b) => Answers(m, b2)

\* Two buffers with the same completed readings, no new choice among them.
LEMMA KeepsReadings ==
  ASSUME NEW b, NEW b2,
         DOMAIN completed_segment_indices(b2) = DOMAIN completed_segment_indices(b),
         Len(completed_segment_indices(b2)) = Len(completed_segment_indices(b)),
         \A k \in DOMAIN completed_segment_indices(b) :
           LET s == b.segments[completed_segment_indices(b)[k]]
               s2 == b2.segments[completed_segment_indices(b2)[k]]
           IN  s2.reading = s.reading /\ (s2.choice = "manual" => s.choice = "manual")
  PROVE  Keeps(b, b2)
BY DEF Keeps, Answers

\* Where InsertAt puts the elements.
LEMMA InsertedElements ==
  ASSUME NEW S, NEW s \in Seq(S), NEW i \in 1..(Len(s) + 1), NEW e \in S
  PROVE  /\ InsertAt(s, i, e) \in Seq(S) /\ Len(InsertAt(s, i, e)) = Len(s) + 1
         /\ InsertAt(s, i, e)[i] = e
         /\ \A j \in 1..Len(s) : InsertAt(s, i, e)[Shifted(j, i)] = s[j]
<1> DEFINE before == SubSeq(s, 1, i - 1)
           after == SubSeq(s, i, Len(s))
           front == before \o <<e>>
<1>1. Len(s) \in Nat /\ i \in Nat /\ i - 1 \in Nat
  BY LenProperties
<1>2. before \in Seq(S) /\ Len(before) = i - 1 /\ \A j \in 1..(i - 1) : before[j] = s[j]
  BY <1>1, SubSeqProperties
<1>3. after \in Seq(S) /\ Len(after) = Len(s) - i + 1
      /\ \A j \in 1..(Len(s) - i + 1) : after[j] = s[i + j - 1]
  BY <1>1, SubSeqProperties
<1>4. <<e>> \in Seq(S) /\ Len(<<e>>) = 1 /\ <<e>>[1] = e
  OBVIOUS
<1> HIDE DEF before, after
<1>5. front \in Seq(S) /\ Len(front) = i /\ front[i] = e /\ \A j \in 1..(i - 1) : front[j] = s[j]
  <2> DEFINE one == <<e>>
  <2> HIDE DEF one
  <2>1. one \in Seq(S) /\ Len(one) = 1 /\ one[1] = e
    BY <1>4 DEF one
  <2>2. /\ before \o one \in Seq(S) /\ Len(before \o one) = Len(before) + Len(one)
        /\ \A j \in 1..(Len(before) + Len(one)) :
             (before \o one)[j] = IF j <= Len(before) THEN before[j] ELSE one[j - Len(before)]
    BY <1>2, <2>1, ConcatProperties
  <2> QED
    BY <1>1, <1>2, <2>1, <2>2 DEF one
<1> HIDE DEF front
<1>6. /\ front \o after \in Seq(S) /\ Len(front \o after) = Len(s) + 1
      /\ \A j \in 1..(Len(s) + 1) :
           (front \o after)[j] = IF j <= i THEN front[j] ELSE after[j - i]
  <2>1. /\ front \o after \in Seq(S) /\ Len(front \o after) = Len(front) + Len(after)
        /\ \A j \in 1..(Len(front) + Len(after)) :
             (front \o after)[j] = IF j <= Len(front) THEN front[j] ELSE after[j - Len(front)]
    BY <1>3, <1>5, ConcatProperties
  <2> QED
    BY <1>1, <1>3, <1>5, <2>1
<1>7. InsertAt(s, i, e) = front \o after
  BY DEF InsertAt, front, before, after
<1>8. (front \o after)[i] = e
  BY <1>1, <1>5, <1>6
<1>9. ASSUME NEW j \in 1..Len(s) PROVE (front \o after)[Shifted(j, i)] = s[j]
  <2>1. CASE j < i
    BY <1>1, <1>5, <1>6, <2>1 DEF Shifted
  <2>2. CASE ~(j < i)
    <3>1. Shifted(j, i) = j + 1 /\ j + 1 \in 1..(Len(s) + 1) /\ ~(j + 1 <= i)
      BY <1>1, <2>2 DEF Shifted
    <3>2. (front \o after)[j + 1] = after[j + 1 - i] /\ j + 1 - i \in 1..(Len(s) - i + 1)
      BY <1>1, <1>6, <2>2, <3>1
    <3>3. after[j + 1 - i] = s[j]
      BY <1>1, <1>3, <3>2
    <3> QED
      BY <3>1, <3>2, <3>3
  <2> QED
    BY <2>1, <2>2
<1> QED
  BY <1>6, <1>7, <1>8, <1>9

\* A literal that is put into the composition moves readings and no more.
LEMMA LiteralKeeps ==
  ASSUME NEW b \in CompositionBuffer, NEW i \in 1..(Len(b.segments) + 1)
  PROVE  Keeps(b, Touched(b, InsertAt(b.segments, i, Literal)))
<1> DEFINE s == b.segments
           t == InsertAt(s, i, Literal)
           n == Len(s)
           S == {j \in 1..n : s[j].kind \in {"complete"}}
           R == {j \in 1..(n + 1) : t[j].kind \in {"complete"}}
           b2 == Touched(b, t)
<1>1. s \in Seq(Segment) /\ n \in Nat
  BY LenProperties DEF CompositionBuffer
<1>2. Literal \in Segment /\ Literal.kind # "complete"
  BY SegmentTypes DEF Literal, Partial
<1>3. Len(t) = n + 1 /\ t[i] = Literal /\ \A j \in 1..n : t[Shifted(j, i)] = s[j]
  BY <1>1, <1>2, InsertedElements
<1>4. b2.segments = t /\ completed_segment_indices(b) = Ascending(S, n)
      /\ completed_segment_indices(b2) = Ascending(R, n + 1)
  BY <1>3 DEF Touched, completed_segment_indices, PositionsOf
<1> HIDE DEF s, t, b2
<1>5. R = {Shifted(j, i) : j \in S}
  <2>1. \A j \in 1..n : Shifted(j, i) \in 1..(n + 1)
    BY <1>1 DEF Shifted
  <2>2. ASSUME NEW k \in R PROVE \E j \in S : k = Shifted(j, i)
    <3>1. k # i /\ k \in 1..(n + 1) /\ i \in 1..(n + 1)
      BY <1>2, <1>3, <2>2 DEF s
    <3>2. PICK j \in 1..n : k = Shifted(j, i)
      <4>1. CASE k < i
        <5>1. k \in 1..n /\ Shifted(k, i) = k
          BY <1>1, <3>1, <4>1 DEF Shifted
        <5> QED
          BY <5>1
      <4>2. CASE ~(k < i)
        <5>1. k - 1 \in 1..n /\ Shifted(k - 1, i) = k
          BY <1>1, <3>1, <4>2 DEF Shifted
        <5> QED
          BY <5>1
      <4> QED
        BY <4>1, <4>2
    <3> QED
      BY <1>3, <2>2, <3>2
  <2>3. \A j \in S : Shifted(j, i) \in R
    BY <1>3, <2>1
  <2> QED
    BY <2>2, <2>3
<1>6. S \in SUBSET (1..n) /\ R \in SUBSET (1..(n + 1)) /\ i \in 1..(n + 1)
  BY DEF s
<1>7. \A k \in 1..Cardinality(S) : Ascending(S, n)[k] \in S
  BY <1>1, <1>6, AscendingPosition
<1> HIDE DEF S, R, n
<1>8. /\ Cardinality(R) = Cardinality(S)
      /\ \A k \in 1..Cardinality(S) : Ascending(R, n + 1)[k] = Shifted(Ascending(S, n)[k], i)
  BY <1>1, <1>5, <1>6, AscendingShifted
<1> DEFINE A == Ascending(S, n)
           B == Ascending(R, n + 1)
<1>9. DOMAIN A = 1..Cardinality(S) /\ DOMAIN B = 1..Cardinality(S)
      /\ Len(A) = Cardinality(S) /\ Len(B) = Cardinality(S)
  <2>1. A \in Seq(1..n) /\ B \in Seq(1..(n + 1)) /\ Cardinality(S) \in Nat
    <3>1. A \in Seq(1..n) /\ Cardinality(S) \in Nat
      BY <1>1, <1>6, AscendingType, Counting
    <3>2. PICK N \in Nat : N = n + 1
      BY <1>1
    <3>3. Ascending(R, N) \in Seq(1..N)
      BY <1>6, <3>2, AscendingType
    <3> QED
      BY <3>1, <3>2, <3>3
  <2>2. DOMAIN A = 1..Cardinality(S) /\ DOMAIN B = 1..Cardinality(R)
    BY DEF Ascending
  <2> HIDE DEF A, B
  <2> QED
    BY <1>8, <2>1, <2>2, LenProperties
<1>10. ASSUME NEW k \in DOMAIN A PROVE t[B[k]] = s[A[k]]
  <2>1. A[k] \in 1..n /\ B[k] = Shifted(A[k], i)
    BY <1>6, <1>7, <1>8, <1>9
  <2> HIDE DEF A, B
  <2> QED
    BY <1>3, <2>1
<1> HIDE DEF A, B
<1>11. Keeps(b, b2)
  <2>1. completed_segment_indices(b) = A /\ completed_segment_indices(b2) = B
    BY <1>4 DEF A, B
  <2> QED
    BY <1>4, <1>9, <1>10, <2>1, KeepsReadings DEF s
<1> QED
  BY <1>11 DEF b2, t, s

\* A stored phrase pins segments, which changes no reading and is no user's choice.
LEMMA PinningKeeps ==
  ASSUME NEW b \in CompositionBuffer, NEW stored
  PROVE  Keeps(b, apply_phrase_override(b, stored))
<1> DEFINE n == Len(b.segments)
           released == Released(b.segments, stored)
           unpinned == [i \in 1..Len(b.segments) |->
                          IF i \in released THEN [b.segments[i] EXCEPT !.choice = "auto"]
                          ELSE b.segments[i]]
           covered == Covered(unpinned, stored)
           pinned == [i \in 1..Len(b.segments) |->
                        IF i \in covered THEN [unpinned[i] EXCEPT !.choice = "pinned"]
                        ELSE unpinned[i]]
           b2 == Touched(b, pinned)
<1> HIDE DEF released, covered
<1>1. n \in Nat /\ \A i \in 1..n : b.segments[i] \in Segment
  BY LenProperties DEF CompositionBuffer
<1>2. \A i \in 1..n : /\ unpinned[i].kind = b.segments[i].kind /\ unpinned[i].reading = b.segments[i].reading
                      /\ unpinned[i].choice = "manual" => b.segments[i].choice = "manual"
                      /\ unpinned[i] \in Segment
  BY <1>1 DEF Segment
<1>3. \A i \in 1..n : /\ pinned[i].kind = b.segments[i].kind /\ pinned[i].reading = b.segments[i].reading
                      /\ pinned[i].choice = "manual" => b.segments[i].choice = "manual"
  <2> HIDE DEF unpinned
  <2> QED
    BY <1>2 DEF Segment
<1>4. Len(pinned) = n
  BY <1>1
<1>5. apply_phrase_override(b, stored) \in {b, b2}
  BY DEF apply_phrase_override, released, covered
<1> HIDE DEF pinned
<1>6. b2.segments = pinned
  BY DEF Touched
<1>7. {i \in 1..Len(pinned) : pinned[i].kind \in {"complete"}}
        = {i \in 1..Len(b.segments) : b.segments[i].kind \in {"complete"}}
  BY <1>3, <1>4
<1>8. completed_segment_indices(b2) = completed_segment_indices(b)
  BY <1>4, <1>6, <1>7 DEF completed_segment_indices, PositionsOf
<1>9. \A k \in DOMAIN completed_segment_indices(b) : completed_segment_indices(b)[k] \in 1..n
  BY CompositionTypes, SMTT(20)
<1> HIDE DEF b2
<1>10. Keeps(b, b2)
  BY <1>3, <1>6, <1>8, <1>9, KeepsReadings
<1>11. Keeps(b, b)
  BY DEF Keeps
<1> QED
  BY <1>5, <1>10, <1>11

\* Moving the caret changes no segment.
LEMMA TouchingKeeps ==
  ASSUME NEW b
  PROVE  Keeps(b, Touched(b, b.segments))
BY DEF Keeps, Answers, Touched, completed_segment_indices

\* A request is answered by what was built from the same buffer.
LEMMA RequestAnswers ==
  ASSUME NEW c, NEW p, NEW b \in CompositionBuffer
  PROVE  Answers(PredictRequest(c, p, b), b)
<1> DEFINE indices == completed_segment_indices(b)
<1>1. Len(padding(b)) = Len(indices)
  BY CompositionTypes
<1>2. \A k \in DOMAIN indices : /\ padding(b)[k].reading = b.segments[indices[k]].reading
                                /\ padding(b)[k].chosen = (b.segments[indices[k]].choice # "auto")
  BY DEF padding
<1>3. PredictRequest(c, p, b).padding = padding(b)
  BY DEF PredictRequest
<1> QED
  BY <1>1, <1>2, <1>3 DEF Answers

\* Whatever awaits an answer without being dirty has just sent a request that
\* knows all of the buffer, or is about to.
Renews(p, r) ==
  LET q == r.prediction
  IN  \/ ~q.pending \/ q.dirty \/ q.inflight_request_id = None
      \/ /\ q.inflight_request_id = p.next_request_id
         /\ \A k \in DOMAIN r.requests :
              r.requests[k].kind = "predict" => Answers(r.requests[k], r.buffer)

\* send_prediction() builds its request from the buffer it leaves behind.
LEMMA SendRenews ==
  ASSUME NEW c \in Contexts, NEW p \in PredictionState, NEW b \in CompositionBuffer
  PROVE  Renews(p, send_prediction(c, p, b))
<1>1. Answers(PredictRequest(c, p, b), b)
  BY RequestAnswers
<1>2. send_prediction(c, p, b).prediction.inflight_request_id = p.next_request_id
  BY DEF send_prediction, PredictionState
<1>3. /\ send_prediction(c, p, b).buffer = b
      /\ send_prediction(c, p, b).requests = <<PredictRequest(c, p, b)>>
  BY DEF send_prediction
<1> QED
  BY <1>1, <1>2, <1>3 DEF Renews

\* request_prediction() asks for all of the buffer, or marks a request in flight dirty.
LEMMA RequestRenews ==
  ASSUME NEW c \in Contexts, NEW p \in PredictionState, NEW b \in CompositionBuffer, NEW stored,
         Coherent(p)
  PROVE  Renews(p, request_prediction(c, p, b, stored))
<1> DEFINE b1 == apply_phrase_override(b, stored)
           p1 == begin(p, b1)
<1>1. b1 \in CompositionBuffer
  BY PhraseOverrideType
<1> HIDE DEF b1
<1>2. p1 \in PredictionState
  BY <1>1, BeginType
<1>3. CASE ~Begins(p, b1)
  <2>1. ~p1.pending \/ p1.dirty
    BY <1>3 DEF begin, Begins, PredictionState
  <2> QED
    BY <1>3, <2>1 DEF Renews, request_prediction, b1
<1>4. CASE Begins(p, b1)
  <2>1. p1.next_request_id = p.next_request_id /\ p1.inflight_request_id = None
    BY <1>4 DEF begin, Begins, Coherent, PredictionState
  <2> HIDE DEF p1
  <2>2. Renews(p1, send_prediction(c, p1, b1))
    BY <1>1, <1>2, SendRenews
  <2>3. Renews(p, send_prediction(c, p1, b1))
    BY <2>1, <2>2 DEF Renews
  <2>4. Renews(p, [buffer |-> b1, prediction |-> p1, requests |-> <<OpenRequest(c, p1)>>])
    BY <2>1 DEF Renews
  <2> QED
    BY <1>4, <2>3, <2>4 DEF request_prediction, b1, p1
<1> QED
  BY <1>3, <1>4

\* finish() is done, or asks again for all of the buffer.
LEMMA FinishRenews ==
  ASSUME NEW c \in Contexts, NEW p \in PredictionState, NEW b \in CompositionBuffer, NEW stored
  PROVE  Renews(p, Finish(c, p, b, stored))
<1> DEFINE q == clear_pending(p)
<1>1. /\ Coherent(q) /\ q \in PredictionState /\ ~q.pending /\ q.next_request_id = p.next_request_id
  BY ClearedFits
<1> HIDE DEF q
<1>2. Renews(q, request_prediction(c, q, b, stored))
  BY <1>1, RequestRenews
<1>3. Renews(p, request_prediction(c, q, b, stored))
  BY <1>1, <1>2 DEF Renews
<1> QED
  BY <1>1, <1>3 DEF Renews, Finish, q

\* What a step that leaves context c with the state q and the buffer b2, and
\* sends more, may do to a request in flight: keep what it answers, end the
\* wait, mark it dirty or send a new one.
Told(c, q, b2, more) ==
  /\ \A k \in DOMAIN more : more[k].kind = "predict" => more[k].context = c
  /\ \/ ~q.pending \/ q.dirty \/ q.inflight_request_id = None
     \/ /\ q.inflight_request_id = prediction[c].next_request_id
        /\ \A k \in DOMAIN more : more[k].kind = "predict" => Answers(more[k], b2)
     \/ /\ prediction[c].pending /\ ~prediction[c].dirty
        /\ q.inflight_request_id = prediction[c].inflight_request_id
        /\ Keeps(buffer[c], b2)
        /\ \A k \in DOMAIN more : more[k].kind # "predict"

\* The property in these terms.
LEMMA EditsMeans ==
  EditsAreRepeated <=>
    \A c \in Live : \A m \in Messages :
      /\ m.kind = "predict" /\ m.context = c /\ m.request_id = prediction[c].inflight_request_id
      /\ prediction[c].pending /\ ~prediction[c].dirty
      => Answers(m, buffer[c])
BY DEF EditsAreRepeated, InFlight, Answers

\* A step that only tells one context something keeps the property.
LEMMA ToldStep ==
  ASSUME TypeOK, TypeOK', RequestsKeepOrder, RequestsKeepOrder', EditsAreRepeated,
         NEW c \in Contexts, \A d \in Live' : d \in Live,
         \A d \in Contexts \ {c} : prediction'[d] = prediction[d] /\ buffer'[d] = buffer[d],
         NEW more \in Seq(Message), queue' = queue \o more, TakesAtMostOne,
         Told(c, prediction'[c], buffer'[c], more)
  PROVE  EditsAreRepeated'
<1> SUFFICES ASSUME NEW d \in Live', NEW m \in Messages',
                    m.kind = "predict", m.context = d, m.request_id = prediction'[d].inflight_request_id,
                    prediction'[d].pending, ~prediction'[d].dirty
             PROVE  Answers(m, buffer'[d])
  BY DEF EditsAreRepeated, InFlight, Answers
<1>1. d \in Live /\ d \in Contexts /\ Known(d) /\ Known(d)'
  BY DEF Live, Known
<1>2. m \in Messages \/ \E k \in DOMAIN more : m = more[k]
  <2>1. \A k \in DOMAIN posted' : posted'[k].request \in Messages
    <3>1. HandsOut({})
      BY DEF HandsOut
    <3> QED
      BY <3>1, RestOfPosted DEF RequestsKeepOrder
  <2>2. \A j \in DOMAIN queue' : \/ \E i \in DOMAIN queue : queue'[j] = queue[i]
                                 \/ \E k \in DOMAIN more : queue'[j] = more[k]
    BY Enqueued
  <2>3. \A n \in Messages' : \/ \E j \in DOMAIN queue' : n = queue'[j]
                            \/ \E k \in DOMAIN posted' : n = posted'[k].request
    BY DEF Messages
  <2>4. \A i \in DOMAIN queue : queue[i] \in Messages
    BY DEF Messages
  <2> QED
    BY <2>1, <2>2, <2>3, <2>4
<1>3. m \in Messages /\ prediction[d].pending /\ ~prediction[d].dirty
      /\ m.request_id = prediction[d].inflight_request_id => Answers(m, buffer[d])
  BY <1>1, EditsMeans
<1>4. CASE d # c
  BY <1>1, <1>2, <1>3, <1>4 DEF Told
<1>5. CASE d = c
  <2>1. m.request_id # None
    BY <1>1 DEF RequestsKeepOrder, StatesFit, Fits
  <2>2. m \in Messages => m.request_id # prediction[c].next_request_id
    <3> SUFFICES ASSUME m \in Messages PROVE m.request_id # prediction[c].next_request_id
      OBVIOUS
    <3>1. m.request_id < prediction[c].next_request_id
      BY <1>1, <1>5 DEF RequestsKeepOrder, StatesFit, Fits
    <3>2. m.request_id \in Nat
      <4>1. m \in Message
        BY MessagesType
      <4> QED
        BY <4>1 DEF Message
    <3> QED
      BY <3>1, <3>2
  <2> QED
    BY <1>2, <1>3, <1>5, <2>1, <2>2 DEF Told, Keeps
<1> QED
  BY <1>4, <1>5

\* A step that sends nothing and changes no state keeps the property ...
LEMMA QuietEdits ==
  ASSUME TypeOK, EditsAreRepeated, NewIsIdle, UNCHANGED <<buffer, prediction>>,
         \A d \in Live' : d \in Live \/ attached[d] = "new", Messages' \subseteq Messages
  PROVE  EditsAreRepeated'
<1>1. \A d \in Live' : d \in Contexts /\ (prediction[d].pending => d \in Live)
  BY DEF NewIsIdle, Live
<1>2. ASSUME NEW d \in Live', NEW m \in Messages', prediction'[d].pending, ~prediction'[d].dirty,
             m.kind = "predict", m.context = d, m.request_id = prediction'[d].inflight_request_id
      PROVE  Answers(m, buffer'[d])
  BY <1>1, <1>2, EditsMeans
<1> QED
  BY <1>2 DEF EditsAreRepeated, InFlight, Answers

\* ... and so does one that ends every wait.
LEMMA IdleEdits ==
  ASSUME \A d \in Live' : ~prediction'[d].pending
  PROVE  EditsAreRepeated'
BY DEF EditsAreRepeated

\* A result that continues and renews tells its context.
LEMMA RenewingTells ==
  ASSUME NEW c, NEW p, p.next_request_id = prediction[c].next_request_id,
         NEW r \in Result, Continues(c, p, r), Renews(p, r)
  PROVE  Told(c, r.prediction, r.buffer, r.requests)
BY DEF Told, Renews, Continues, Sendable

\* A user action on context c that tells it.
LEMMA ApplyTells ==
  ASSUME TypeOK, TypeOK', RequestsKeepOrder, RequestsKeepOrder', EditsAreRepeated,
         NEW c \in Contexts, \A d \in Live' : d \in Live, NEW r \in Result,
         Apply(c, r) \/ Handled(c, r), posted # <<>> \/ Apply(c, r),
         Told(c, r.prediction, r.buffer, r.requests)
  PROVE  EditsAreRepeated'
<1>1. /\ prediction'[c] = r.prediction /\ buffer'[c] = r.buffer
      /\ \A d \in Contexts \ {c} : prediction'[d] = prediction[d] /\ buffer'[d] = buffer[d]
  BY DEF Apply, Handled, TypeOK
<1>2. queue' = queue \o r.requests /\ TakesAtMostOne /\ r.requests \in Seq(Message)
  BY DEF Apply, Handled, TakesAtMostOne, Result
<1> QED
  BY <1>1, <1>2, ToldStep

\* Every action of the user keeps the property.
LEMMA UserActionTells ==
  ASSUME TypeOK, TypeOK', RequestsFollowRevisions, RequestsKeepOrder, RequestsKeepOrder',
         NewIsIdle, EditsAreRepeated, NEW c \in Contexts, UserAction(c)
  PROVE  EditsAreRepeated'
<1> USE DEF Editable
<1>1. ASSUME c \in Live
      PROVE  /\ Known(c) /\ Coherent(prediction[c])
             /\ \A p \in {prediction[c], mark_dirty(prediction[c])} :
                  p \in PredictionState /\ Coherent(p) /\ p.next_request_id = prediction[c].next_request_id
             /\ buffer[c] \in CompositionBuffer
  <2>1. Known(c) /\ Coherent(prediction[c]) /\ prediction[c] \in PredictionState
    BY <1>1, EditBase DEF Known, Live, RequestsKeepOrder, StatesFit
  <2> QED
    BY <2>1, EditBase, MarkedFits
<1>2. ASSUME c \in Live, attached' = attached,
             NEW segs \in Seq(Matching), NEW p \in {prediction[c], mark_dirty(prediction[c])},
             EditAndRequest(c, segs, p)
      PROVE  EditsAreRepeated'
  <2> DEFINE b == Touched(buffer[c], segs)
             r == request_prediction(c, p, b, phrases)
  <2>1. b \in CompositionBuffer /\ p \in PredictionState /\ Coherent(p)
        /\ p.next_request_id = prediction[c].next_request_id
    BY <1>1, <1>2, BufferTypes, MatchingSeq
  <2>2. Apply(c, r)
    BY <1>2 DEF EditAndRequest
  <2> HIDE DEF b
  <2>3. r \in Result /\ Continues(c, p, r) /\ Renews(p, r)
    BY <2>1, RequestType, RequestContinues, RequestRenews
  <2> HIDE DEF r
  <2>4. Told(c, r.prediction, r.buffer, r.requests)
    BY <2>1, <2>3, RenewingTells
  <2>5. \A d \in Live' : d \in Live
    BY <1>2 DEF Live
  <2> QED
    BY <2>2, <2>3, <2>4, <2>5, ApplyTells
<1>3. ASSUME c \in Live, attached' = attached, NEW b \in CompositionBuffer, NEW q \in PredictionState,
             Apply(c, [buffer |-> b, prediction |-> q, requests |-> <<>>]),
             \/ ~q.pending \/ q.dirty
             \/ q = prediction[c] /\ Keeps(buffer[c], b)
      PROVE  EditsAreRepeated'
  <2> DEFINE r == [buffer |-> b, prediction |-> q, requests |-> <<>>]
  <2>1. r \in Result
    BY EmptySeq DEF Result
  <2>2. Told(c, q, b, <<>>)
    BY <1>3, EmptySeq DEF Told
  <2>3. \A d \in Live' : d \in Live
    BY <1>3 DEF Live
  <2> QED
    BY <1>3, <2>1, <2>2, <2>3, ApplyTells
<1>4. mark_dirty(prediction[c]).pending => mark_dirty(prediction[c]).dirty
  <2>1. prediction[c] \in PredictionState
    BY DEF TypeOK
  <2> QED
    BY <2>1 DEF mark_dirty, PredictionState
<1>5. ASSUME c \in Live, attached' = attached, NEW segs \in Seq(Matching),
             NEW p \in {prediction[c], mark_dirty(prediction[c])}, Edit(c, segs, p),
             p = mark_dirty(prediction[c]) \/ Keeps(buffer[c], Touched(buffer[c], segs))
      PROVE  EditsAreRepeated'
  <2>1. Touched(buffer[c], segs) \in CompositionBuffer /\ p \in PredictionState
    BY <1>1, <1>5, BufferTypes, MatchingSeq
  <2> QED
    BY <1>3, <1>4, <1>5, <2>1 DEF Edit
<1>6. CASE Attach(c)
  <2>1. UNCHANGED <<buffer, prediction, queue, posted>> /\ \A d \in Live' : d \in Live \/ attached[d] = "new"
    BY <1>6 DEF Attach, Live, TypeOK
  <2>2. Messages' \subseteq Messages
    BY <2>1 DEF Messages
  <2> QED
    BY <2>1, <2>2, QuietEdits
<1>7. CASE TypeSymbol(c) \/ RemoveSegment(c)
  <2>1. c \in Live /\ attached' = attached
    BY <1>7 DEF TypeSymbol, RemoveSegment
  <2>2. \A i \in 1..(Len(buffer[c].segments) + 1) : InsertAt(buffer[c].segments, i, Partial) \in Seq(Matching)
    BY <2>1, LiveBase, InsertAtType, MatchingTypes
  <2>3. \A i \in 1..Len(buffer[c].segments) : RemoveAt(buffer[c].segments, i) \in Seq(Matching)
    BY <2>1, LiveBase, RemoveAtType
  <2>4. PICK segs \in Seq(Matching) : Edit(c, segs, mark_dirty(prediction[c]))
    BY <1>7, <2>1, <2>2, <2>3, LiveBase DEF TypeSymbol, RemoveSegment, Positions
  <2> QED
    BY <1>5, <2>1, <2>4
<1>8. CASE AsksAgain(c)
  <2>1. c \in Live /\ attached' = attached
    BY <1>8, EditRequestForm
  <2>2. PICK segs \in Seq(Matching), p \in {prediction[c], mark_dirty(prediction[c])} :
          EditAndRequest(c, segs, p)
    BY <1>8, EditRequestForm
  <2> QED
    BY <1>2, <2>1, <2>2
<1>9. CASE InsertLiteral(c)
  <2>1. PICK i \in 1..(Len(buffer[c].segments) + 1), p \in {prediction[c], mark_dirty(prediction[c])} :
          Edit(c, InsertAt(buffer[c].segments, i, Literal), p)
    BY <1>9 DEF InsertLiteral
  <2>2. c \in Live /\ attached' = attached
    BY <1>9 DEF InsertLiteral
  <2>3. InsertAt(buffer[c].segments, i, Literal) \in Seq(Matching)
    BY <2>2, LiveBase, InsertAtType, MatchingTypes
  <2>4. Keeps(buffer[c], Touched(buffer[c], InsertAt(buffer[c].segments, i, Literal)))
    BY <1>1, <2>2, LiteralKeeps
  <2> QED
    BY <1>5, <2>1, <2>2, <2>3, <2>4
<1>10. CASE MoveCaret(c)
  <2>1. c \in Live /\ attached' = attached /\ Edit(c, buffer[c].segments, prediction[c])
    BY <1>10 DEF MoveCaret
  <2>2. buffer[c].segments \in Seq(Matching)
    BY <2>1, LiveBase
  <2> QED
    BY <1>5, <2>1, <2>2, TouchingKeeps
<1>11. CASE DeleteNothing(c)
  <2>1. c \in Live /\ attached' = attached
        /\ Apply(c, [buffer |-> buffer[c], prediction |-> mark_dirty(prediction[c]), requests |-> <<>>])
    BY <1>11 DEF DeleteNothing
  <2> QED
    BY <1>1, <1>3, <1>4, <2>1
<1>12. CASE StorePhrase(c)
  <2> DEFINE b == Touched(buffer[c], buffer[c].segments)
             b2 == apply_phrase_override(b, phrases')
  <2>1. c \in Live /\ attached' = attached
        /\ Apply(c, [buffer |-> b2, prediction |-> prediction[c], requests |-> <<>>])
    BY <1>12 DEF StorePhrase
  <2>2. b \in CompositionBuffer /\ Keeps(buffer[c], b)
    BY <1>1, <2>1, BufferTypes, TouchingKeeps DEF CompositionBuffer
  <2> HIDE DEF b
  <2>3. b2 \in CompositionBuffer /\ Keeps(buffer[c], b2)
    BY <2>2, PhraseOverrideType, PinningKeeps DEF Keeps
  <2> HIDE DEF b2
  <2> QED
    BY <1>1, <1>3, <2>1, <2>3
<1>13. CASE Commit(c) \/ Reset(c)
  <2>1. c \in Live /\ attached' = attached
    BY <1>13 DEF Commit, Reset
  <2>2. PICK q \in {clear_pending(prediction[c]), invalidate(prediction[c])} :
          Apply(c, [buffer |-> clear(buffer[c]), prediction |-> q, requests |-> <<>>])
    BY <1>13 DEF Commit, Reset
  <2>3. q \in PredictionState /\ ~q.pending /\ clear(buffer[c]) \in CompositionBuffer
    BY <1>1, <2>1, <2>2, ClearedFits, BufferTypes
  <2> QED
    BY <1>3, <2>1, <2>2, <2>3
<1>14. CASE Detach(c)
  <2> DEFINE r == [buffer |-> EmptyBuffer, prediction |-> InitialPrediction,
                   requests |-> Closing(prediction[c])]
  <2>1. Apply(c, r) /\ \A d \in Live' : d \in Live
    BY <1>14 DEF Detach, Live, TypeOK
  <2>2. r \in Result
    BY StateTypes, BufferTypes, EditBase, ClosingType DEF Result
  <2>3. Told(c, r.prediction, r.buffer, r.requests)
    BY EmptySeq DEF Told, InitialPrediction, Closing, CloseRequest
  <2> HIDE DEF r
  <2> QED
    BY <2>1, <2>2, <2>3, ApplyTells
<1> QED
  BY <1>6, <1>7, <1>8, <1>9, <1>10, <1>11, <1>12, <1>13, <1>14 DEF UserAction, AsksAgain

\* Whatever response is delivered, what is asked for next knows all edits.
LEMMA DeliverTells ==
  ASSUME TypeOK, TypeOK', RequestsFollowRevisions, RequestsKeepOrder, RequestsKeepOrder',
         NewIsIdle, EditsAreRepeated, Deliver
  PROVE  EditsAreRepeated'
<1> DEFINE h == Head(posted)
           c == h.request.context
           p == prediction[c]
           b == buffer[c]
<1>1. CASE IgnoreReply
  <2>1. posted # <<>> /\ posted' = Tail(posted) /\ UNCHANGED <<attached, buffer, prediction, queue>>
    BY <1>1 DEF IgnoreReply
  <2>2. \A k \in DOMAIN posted' : k + 1 \in DOMAIN posted /\ posted'[k] = posted[k + 1]
    BY <2>1, TailElements DEF TypeOK
  <2>3. Messages' \subseteq Messages
    BY <2>1, <2>2 DEF Messages
  <2>4. \A d \in Live' : d \in Live
    BY <2>1 DEF Live
  <2> QED
    BY <2>1, <2>3, <2>4, QuietEdits
<1>2. ASSUME posted # <<>>, ~Ignored(h)
      PROVE  /\ c \in Contexts /\ p \in PredictionState /\ b \in CompositionBuffer
             /\ p.pending /\ h \in Response /\ Coherent(p)
  BY <1>2, DeliverBase DEF RequestsKeepOrder, StatesFit
<1>3. ASSUME posted # <<>>, c \in Contexts, NEW q, q.next_request_id = p.next_request_id,
             NEW r \in Result, Continues(c, q, r), Renews(q, r), Handled(c, r)
      PROVE  EditsAreRepeated'
  <2>1. Told(c, r.prediction, r.buffer, r.requests)
    BY <1>3, RenewingTells
  <2>2. \A d \in Live' : d \in Live
    BY <1>3 DEF Handled, Live
  <2> HIDE DEF c
  <2> QED
    BY <1>3, <2>1, <2>2, ApplyTells
<1>4. ASSUME posted # <<>>, ~Ignored(h), NEW q \in PredictionState,
             q.next_request_id = p.next_request_id, NEW b2 \in CompositionBuffer,
             Handled(c, Finish(c, q, b2, phrases))
      PROVE  EditsAreRepeated'
  <2>1. c \in Contexts
    BY <1>2, <1>4
  <2> HIDE DEF c
  <2>2. Finish(c, q, b2, phrases) \in Result /\ Continues(c, q, Finish(c, q, b2, phrases))
        /\ Renews(q, Finish(c, q, b2, phrases))
    BY <2>1, FinishType, FinishContinues, FinishRenews
  <2> QED
    BY <1>3, <1>4, <2>1, <2>2
<1>5. CASE SessionOpened
  <2> DEFINE q == [p EXCEPT !.session_id = h.session_id]
             r == send_prediction(c, q, b)
  <2>1. posted # <<>> /\ ~Ignored(h) /\ h.code = "ok" /\ h.request.kind = "open" /\ Handled(c, r)
    BY <1>5 DEF SessionOpened
  <2>2. q \in PredictionState /\ q.pending /\ q.next_request_id = p.next_request_id
        /\ q.session_id = h.session_id
    <3>1. q \in PredictionState
      BY <1>2, <2>1, StateTypes DEF Response
    <3> QED
      BY <1>2, <2>1, <3>1 DEF PredictionState
  <2>3. h.session_id # None
    <3>1. posted[1] = h /\ 1 \in DOMAIN posted
      BY <2>1, HeadTailProperties, LenProperties DEF TypeOK
    <3>2. Opens(1)
      BY <2>1, <3>1 DEF Opens
    <3> QED
      BY <3>1, <3>2 DEF RequestsKeepOrder, OpenedAreFresh, IsFresh, None
  <2> HIDE DEF q
  <2>4. r \in Result /\ Continues(c, q, r) /\ Renews(q, r)
    BY <1>2, <2>1, <2>2, <2>3, SendType, SendContinues, SendRenews DEF session_open
  <2> HIDE DEF r
  <2> QED
    BY <1>2, <1>3, <2>1, <2>2, <2>4
<1>6. CASE OpenFailed \/ PredictionFailed
  <2>1. posted # <<>> /\ ~Ignored(h)
    BY <1>6 DEF OpenFailed, PredictionFailed
  <2>2. PICK q \in {p, WithoutSession(p)} : Handled(c, FallBack(c, q, b, phrases))
    BY <1>6 DEF OpenFailed, PredictionFailed
  <2>3. q \in PredictionState /\ q.next_request_id = p.next_request_id
    <3>1. q \in PredictionState
      BY <1>2, <2>1, <2>2, StateTypes
    <3> QED
      BY <1>2, <2>1, <2>2, <3>1 DEF WithoutSession, PredictionState
  <2>4. apply_phrase_override(apply_fallback_candidates(b, q.segment_indices), phrases) \in CompositionBuffer
    BY <1>2, <2>1, FallbackType, PhraseOverrideType
  <2> QED
    BY <1>4, <2>1, <2>2, <2>3, <2>4 DEF FallBack
<1>7. CASE PredictionArrived
  <2> DEFINE b1 == apply_prediction(b, p.segment_indices, h.request.padding)
             b2 == apply_phrase_override(b1, phrases)
             b3 == apply_phrase_override(apply_fallback_candidates(b, p.segment_indices), phrases)
  <2>1. posted # <<>> /\ ~Ignored(h) /\ h.request.kind = "predict"
    BY <1>7 DEF PredictionArrived
  <2>2. CASE matches_composition(p, b, h.request.padding)
    <3>1. Handled(c, Finish(c, p, b2, phrases))
      BY <1>7, <2>2 DEF PredictionArrived
    <3>2. b2 \in CompositionBuffer
      <4>1. h.request.padding \in Seq(PaddingEntry)
        BY <1>2, <2>1 DEF Response, Message
      <4>2. p.segment_indices \in Seq(Nat) /\ Len(h.request.padding) = Len(p.segment_indices)
        BY <1>2, <2>1, <2>2 DEF PredictionState, matches_composition
      <4> QED
        BY <1>2, <2>1, <4>1, <4>2, ApplyPredictionType, PhraseOverrideType
    <3> HIDE DEF b2
    <3> QED
      BY <1>2, <1>4, <2>1, <3>1, <3>2
  <2>3. CASE ~matches_composition(p, b, h.request.padding)
    <3>1. Handled(c, Finish(c, p, b3, phrases))
      BY <1>7, <2>3 DEF PredictionArrived, FallBack
    <3>2. b3 \in CompositionBuffer
      BY <1>2, <2>1, FallbackType, PhraseOverrideType
    <3> HIDE DEF b3
    <3> QED
      BY <1>2, <1>4, <2>1, <3>1, <3>2
  <2> QED
    BY <2>2, <2>3
<1> QED
  BY <1>1, <1>5, <1>6, <1>7 DEF Deliver

\* Every step keeps the property.
LEMMA NextTells ==
  ASSUME TypeOK, TypeOK', RequestsFollowRevisions, RequestsKeepOrder, RequestsKeepOrder',
         NewIsIdle, EditsAreRepeated, [Next]_vars
  PROVE  EditsAreRepeated'
<1>1. CASE SetConfig \/ SetTransportOptions
  <2>1. ASSUME NEW d \in Live' PROVE ~prediction'[d].pending
    <3>1. d \in Live /\ d \in Contexts
      BY <1>1 DEF SetConfig, SetTransportOptions, Live
    <3>2. prediction'[d] \in {SettledPrediction(prediction[d]), RestartedPrediction(prediction[d])}
      BY <1>1, <3>1 DEF SetConfig, SetTransportOptions
    <3> QED
      BY <3>1, <3>2, EditBase, ClearedState
  <2> QED
    BY <2>1, IdleEdits
<1>2. CASE Serve \/ ForgetSessions \/ UNCHANGED vars
  <2>1. UNCHANGED <<attached, buffer, prediction>> /\ Messages' \subseteq Messages
    BY <1>2, ServeMovesOn DEF ForgetSessions, vars, Messages
  <2> QED
    BY <2>1, QuietEdits DEF Live
<1> QED
  BY <1>1, <1>2, UserActionTells, DeliverTells DEF Next

\* What the user types or picks while a request is on its way is asked for
\* again: a context that waits and is not marked dirty has a request in flight
\* that knows every completed reading and every explicit choice, whatever
\* answers, failures, stored phrases and other contexts' keys came in between.
THEOREM NoEditIsLost == Spec => []EditsAreRepeated
<1>1. ASSUME Init PROVE EditsAreRepeated
  BY <1>1 DEF Init, EditsAreRepeated, Live
<1>2. ASSUME Init PROVE NewIsIdle
  BY <1>2 DEF Init, NewIsIdle, InitialPrediction
<1>3. TypeOK /\ TypeOK' /\ RequestsFollowRevisions /\ RequestsKeepOrder /\ RequestsKeepOrder'
        /\ NewIsIdle /\ EditsAreRepeated /\ [Next]_vars
        => NewIsIdle' /\ EditsAreRepeated'
  BY NextTells, OnlyLiveChange DEF NewIsIdle
<1> QED
  BY <1>1, <1>2, <1>3, OrderKept, TypeCorrect, RequestsDescribeCompositions, PTL DEF Spec

=============================================================================
