---------------------------- MODULE WireProtocol ----------------------------
(***************************************************************************)
(* One request and its answer on the socket between an engine and the      *)
(* service.  The two programs encode and decode frames with code of their  *)
(* own: what the engine writes is written by engine/src/protocol and read  *)
(* by ime-unix-service/src/pipe, and the reverse for answers.              *)
(*                                                                         *)
(* A frame is a sequence of fields <<width in bytes, value>>; reading a    *)
(* field with another width than it was written with yields no value.  The *)
(* units of a text are one field, its value is their number and whether    *)
(* they are valid UTF-16 or UTF-8.  A scalar is its code point.            *)
(***************************************************************************)
EXTENDS Naturals, Sequences, SequencesExt

CONSTANTS
  Requests,        \* what the engine has to send
  CandidateLists,  \* what the model may answer for a padding
  ErrorTexts,      \* texts of exceptions
  Ids              \* of sessions, epochs and commits, with Zero

VARIABLES
  stage,      \* of the engine's worker: "idle", "asked" (it waits for the answer), "over"
  request,    \* the request in the worker's hands
  toService, toEngine,  \* fields written and not yet read
  connection, \* "open", "broken" from outside, or "closed" by one of the two
  dispatched, \* what the service has decoded
  answer,     \* what it has sent
  given       \* what the engine's callback gets

wireVars == <<stage, request, toService, toEngine, connection, dispatched, answer, given>>

Zero == "zero"
Nothing == [kind |-> "none"]
Undecodable == [kind |-> "undecodable"]
Failure == [kind |-> "failure"]   \* fail(): the transport's own answer
EmptyText == [units |-> 0, valid |-> TRUE]

MaxFrame == 1024 * 1024
MaxRepeated == 65536
MaxContext == 65536
MaxBopomofo == 4096
MaxUtf8 == 256 * 1024
MaxCommitContext == 4096
MaxCommit == 1024
MaxReading == 64

\* Texts, the parts of a composition, the characters of a commit, and the requests.
Texts == {t \in [units : Nat, valid : BOOLEAN] : t.units = 0 => t.valid}
Paddings ==
  [chosen : {TRUE}, character : Nat, reading : {EmptyText}] \cup [chosen : {FALSE}, character : {0}, reading : Texts]
CommitEntries == [reading : Texts, character : Nat, manual : BOOLEAN, literal : BOOLEAN]
AllRequests ==
  [kind : {"OpenSession", "Shutdown"}]
  \cup [kind : {"Predict"}, session : Ids, request : Nat, revision : Nat, context : Texts, padding : Seq(Paddings)]
  \cup [kind : {"CloseSession"}, session : Ids]
  \cup [kind : {"Status"}, about : {{}} \cup {{s} : s \in Ids}]
  \cup [kind : {"RecordCommit"}, event : Ids, source : Ids, context : Texts, answer : Texts, entries : Seq(CommitEntries)]
  \cup [kind : {"DiscardCommit"}, event : Ids]

ASSUME WireAssumption ==
  /\ Zero \in Ids
  /\ Requests \subseteq AllRequests
  /\ CandidateLists \subseteq Seq(Seq(Nat))
  /\ ErrorTexts \subseteq Texts

ValidScalar(c) == c <= 1114111 /\ c \notin 55296..57343
Bytes(fields) ==
  LET sum[i \in 0..Len(fields)] == IF i = 0 THEN 0 ELSE sum[i - 1] + fields[i][1] IN sum[Len(fields)]

\* The worker is in one of its states, and every field has a width.
WireTypeOK ==
  /\ stage \in {"idle", "asked", "over"}
  /\ request \in Requests \cup {Nothing}
  /\ \A field \in Range(toService) \cup Range(toEngine) : field[1] \in 1..MaxFrame
  /\ connection \in {"open", "broken", "closed"}

WireInit ==
  /\ stage = "idle" /\ request = Nothing /\ connection = "open"
  /\ toService = <<>> /\ toEngine = <<>>
  /\ dispatched = Nothing /\ answer = Nothing /\ given = Nothing

-----------------------------------------------------------------------------
(* Encoding *)

Flag(b) == <<1, IF b THEN 1 ELSE 0>>
TextFields(t, size) == <<<<4, t.units>>>> \o IF t.units = 0 THEN <<>> ELSE <<<<size * t.units, t>>>>
Sendable(t, limit) == t.valid /\ t.units <= limit
\* A repeated part: the number of items, and the fields of each.
ListFields(items) == <<<<4, Len(items)>>>> \o FlattenSeq(items)

\* A chosen character, or the reading of a segment.
PaddingFields(e) ==
  IF e.chosen THEN <<<<1, 1>>, <<4, e.character>>>> ELSE <<<<1, 0>>>> \o TextFields(e.reading, 2)
SendablePadding(e) ==
  IF e.chosen THEN e.character # 0 /\ ValidScalar(e.character) ELSE Sendable(e.reading, MaxBopomofo)

\* Mutant for FramesAreUnderstood: the last two fields of a commit's character are swapped.
SwappedEntryFields(e) ==
  TextFields(e.reading, 2) \o <<<<4, e.character>>, Flag(e.literal), Flag(e.manual)>>

\* A character of a commit with its reading, or one typed as it is.
EntryFields(e) ==
  TextFields(e.reading, 2) \o <<<<4, e.character>>, Flag(e.manual), Flag(e.literal)>>
SendableEntry(e) ==
  /\ e.literal <=> e.reading.units = 0
  /\ Sendable(e.reading, MaxReading)
  /\ e.character # 0 /\ ValidScalar(e.character)

RequestFields(m) ==
  CASE m.kind = "OpenSession"   -> <<<<1, 1>>, <<1, 0>>>>
    [] m.kind = "Predict"       -> <<<<1, 2>>, <<16, m.session>>, <<8, m.request>>, <<8, m.revision>>>>
                                     \o TextFields(m.context, 2) \o ListFields([i \in DOMAIN m.padding |-> PaddingFields(m.padding[i])])
    [] m.kind = "CloseSession"  -> <<<<1, 4>>, <<1, 0>>, <<16, m.session>>>>
    [] m.kind = "Status"        -> <<<<1, 5>>, <<1, 0>>, Flag(m.about # {})>> \o SetToSeq({<<16, s>> : s \in m.about})
    [] m.kind = "Shutdown"      -> <<<<1, 6>>, <<1, 0>>>>
    [] m.kind = "RecordCommit"  -> <<<<1, 8>>, <<1, 0>>, <<16, m.event>>, <<16, m.source>>>>
                                     \o TextFields(m.context, 2) \o TextFields(m.answer, 2)
                                     \o ListFields([i \in DOMAIN m.entries |-> EntryFields(m.entries[i])])
    [] m.kind = "DiscardCommit" -> <<<<1, 9>>, <<1, 0>>, <<16, m.event>>>>

\* What the engine's encode() does not refuse.
SendableRequest(m) ==
  /\ CASE m.kind = "Predict"      -> /\ m.session # Zero /\ m.request # 0
                                     /\ Sendable(m.context, MaxContext) /\ Len(m.padding) <= MaxRepeated
                                     /\ \A i \in DOMAIN m.padding : SendablePadding(m.padding[i])
       [] m.kind = "CloseSession" -> m.session # Zero
       [] m.kind = "RecordCommit" -> /\ m.event # Zero /\ m.source # Zero
                                     /\ Len(m.entries) \in 1..MaxCommit /\ m.answer.units # 0
                                     /\ Sendable(m.context, MaxCommitContext) /\ Sendable(m.answer, MaxCommit)
                                     /\ \A i \in DOMAIN m.entries : SendableEntry(m.entries[i])
       [] m.kind = "DiscardCommit" -> m.event # Zero
       [] OTHER                    -> TRUE
  /\ Bytes(RequestFields(m)) <= MaxFrame

CandidateFields(list) == ListFields([i \in DOMAIN list |-> <<<<4, list[i]>>>>])

SessionFields(s) ==
  <<<<16, s.session>>, Flag(s.active), Flag(s.closing), Flag(s.loaded), <<8, s.last>>>>

ResponseFields(m) ==
  CASE m.kind = "OpenSession"   -> <<<<1, 1>>, <<1, 1>>, <<16, m.session>>, <<16, m.epoch>>>>
    [] m.kind = "Prediction"    -> <<<<1, 3>>, <<16, m.session>>, <<8, m.request>>, <<8, m.revision>>>>
                                     \o ListFields([i \in DOMAIN m.candidates |-> CandidateFields(m.candidates[i])])
    [] m.kind = "CloseSession"  -> <<<<1, 4>>, <<1, 1>>, <<16, m.session>>, Flag(m.closed)>>
    [] m.kind = "Status"        -> <<<<1, 5>>, <<1, 1>>, <<16, m.epoch>>, Flag(m.stopping), Flag(m.loaded),
                                     <<4, m.sessions>>, <<4, m.limit>>, Flag(m.about # {})>>
                                     \o FlattenSeq(SetToSeq({SessionFields(s) : s \in m.about}))
    [] m.kind = "Shutdown"      -> <<<<1, 6>>, <<1, 1>>, Flag(m.accepted)>>
    [] m.kind = "RecordCommit"  -> <<<<1, 8>>, <<1, 1>>, <<16, m.event>>, Flag(m.stored)>>
    [] m.kind = "DiscardCommit" -> <<<<1, 9>>, <<1, 1>>, <<16, m.event>>, Flag(m.discarded)>>
    [] m.kind = "Error"         -> <<<<1, 7>>, <<1, m.code>>, <<16, m.session>>, <<8, m.request>>, <<8, m.revision>>>>
                                     \o TextFields(m.message, 1)

\* What the service's encode() does not refuse.
SendableResponse(m) ==
  /\ CASE m.kind = "Prediction"    -> /\ m.session # Zero /\ m.request # 0
                                      /\ Len(m.candidates) <= MaxRepeated
                                      /\ \A i \in DOMAIN m.candidates :
                                           /\ Len(m.candidates[i]) <= MaxRepeated
                                           /\ \A c \in Range(m.candidates[i]) : c # 0 /\ ValidScalar(c)
       [] m.kind = "CloseSession"  -> m.session # Zero
       [] m.kind = "DiscardCommit" -> m.event # Zero
       [] m.kind = "Error"         -> m.code \in 1..9 /\ Sendable(m.message, MaxUtf8)
       [] OTHER                    -> TRUE
  /\ Bytes(ResponseFields(m)) <= MaxFrame

Frame(fields) == <<<<4, Bytes(fields)>>>> \o fields

-----------------------------------------------------------------------------
(* Decoding: a reader has what is left of the payload and what it got.      *)

ReaderAt(rest, got) == [rest |-> rest, got |-> got, ok |-> TRUE]
Reader(fields) == ReaderAt(fields, <<>>)
Bad == [rest |-> <<>>, got |-> <<>>, ok |-> FALSE]
Fresh(r) == IF r.ok THEN ReaderAt(r.rest, <<>>) ELSE Bad
Checked(r, ok) == IF r.ok /\ ok THEN r ELSE Bad
\* What q got, once it is all read, is one value for r.
Within(r, q, value) == IF q.ok THEN ReaderAt(q.rest, Append(r.got, value)) ELSE Bad

Read(r, width) ==
  IF r.ok /\ r.rest # <<>> /\ r.rest[1][1] = width
  THEN ReaderAt(Tail(r.rest), Append(r.got, r.rest[1][2]))
  ELSE Bad
\* A session, the number of a request and a revision.
ReadHeader(r) == Read(Read(Read(r, 16), 8), 8)

ReadFlag(r) ==
  LET c == Read(Fresh(r), 1) IN Within(r, c, c.got[1] # 0)

ReadScalar(r) ==
  LET c == Read(r, 4) IN Checked(c, ValidScalar(Last(c.got)))

ReadUtf(r, size, limit) ==
  LET c == Read(Fresh(r), 4)
      count == Checked(c, c.got[1] <= limit /\ c.got[1] <= Bytes(c.rest) \div size)
      text == Read(Fresh(count), size * c.got[1])
  IN  IF count.ok /\ count.got[1] = 0 THEN Within(r, count, EmptyText)
      ELSE Within(r, IF count.ok THEN Checked(text, text.got[1].valid) ELSE count, text.got[1])

\* A count that the bytes left could not hold is refused before anything is
\* reserved for it; smallest is the size of the smallest item, 0 for no such check.
ReadCount(r, smallest, limit) ==
  LET c == Read(Fresh(r), 4)
  IN  Checked(c, c.got[1] <= limit /\ (smallest # 0 => c.got[1] <= Bytes(c.rest) \div smallest))
\* As many items as the count says, as one value for r.
ReadList(r, count, Item(_)) ==
  LET read[i \in 0..count.got[1]] == IF i = 0 THEN Fresh(count) ELSE Item(read[i - 1])
      items == read[count.got[1]]
  IN  IF count.ok THEN Within(r, items, items.got) ELSE Bad

ReadPadding(r) ==
  LET kind == Read(Fresh(r), 1)
      char == ReadScalar(Fresh(kind))
      text == ReadUtf(Fresh(kind), 2, MaxBopomofo)
  IN  IF kind.ok /\ kind.got[1] = 1
      THEN Within(r, Checked(char, char.got[1] # 0), [chosen |-> TRUE, character |-> char.got[1], reading |-> EmptyText])
      ELSE Within(r, Checked(text, kind.got[1] = 0), [chosen |-> FALSE, character |-> 0, reading |-> text.got[1]])

ReadPaddings(r) == ReadList(r, ReadCount(r, 1, MaxRepeated), ReadPadding)

ReadEntry(r) ==
  LET e == Read(Read(ReadScalar(ReadUtf(Fresh(r), 2, MaxReading)), 1), 1)
      reading == e.got[1]
  IN  Within(r, Checked(e, e.got[2] # 0 /\ e.got[3] <= 1 /\ e.got[4] <= 1 /\ (e.got[4] = 1 <=> reading.units = 0)),
             [reading |-> reading, character |-> e.got[2], manual |-> e.got[3] = 1, literal |-> e.got[4] = 1])

ReadEntries(r) == ReadList(r, ReadCount(r, 0, MaxCommit), ReadEntry)

ReadCandidates(r) == ReadList(r, ReadCount(r, 4, MaxRepeated), ReadScalar)
ReadAllCandidates(r) == ReadList(r, ReadCount(r, 4, MaxRepeated), ReadCandidates)

\* An optional part: a flag and the part itself, as a set ("about" in the messages).
ReadOption(r, flag, item) ==
  IF flag.ok /\ flag.got[1] THEN Within(r, item, {item.got[1]}) ELSE Within(r, flag, {})

\* The message, unless something is refused or left over.
Message(r, ok, m) == IF r.ok /\ r.rest = <<>> /\ ok THEN m ELSE Undecodable

\* decode() of the service.
RequestOf(payload) ==
  LET type == Read(Reader(payload), 1)
      kind == Read(Fresh(type), 1)
      is(n) == type.ok /\ type.got[1] = n /\ kind.ok /\ kind.got[1] = 0
      body == Fresh(kind)
      id == Read(body, 16)
      flag == ReadFlag(body)
      option == ReadOption(body, flag, Read(Fresh(flag), 16))
      predict == ReadPaddings(ReadUtf(ReadHeader(Fresh(type)), 2, MaxContext))
      commit == ReadEntries(ReadUtf(ReadUtf(Read(id, 16), 2, MaxCommitContext), 2, MaxCommit))
  IN  CASE type.ok /\ type.got[1] = 2 ->
             Message(predict, predict.got[2] # 0,
                     [kind |-> "Predict", session |-> predict.got[1], request |-> predict.got[2],
                      revision |-> predict.got[3], context |-> predict.got[4], padding |-> predict.got[5]])
        [] is(1) -> Message(body, TRUE, [kind |-> "OpenSession"])
        [] is(4) -> Message(id, id.got[1] # Zero, [kind |-> "CloseSession", session |-> id.got[1]])
        [] is(5) -> Message(option, TRUE, [kind |-> "Status", about |-> option.got[1]])
        [] is(6) -> Message(body, TRUE, [kind |-> "Shutdown"])
        [] is(8) -> Message(commit, /\ commit.got[1] # Zero /\ commit.got[2] # Zero
                                    /\ commit.got[5] # <<>> /\ commit.got[4].units # 0,
                            [kind |-> "RecordCommit", event |-> commit.got[1], source |-> commit.got[2],
                             context |-> commit.got[3], answer |-> commit.got[4], entries |-> commit.got[5]])
        [] is(9) -> Message(id, id.got[1] # Zero, [kind |-> "DiscardCommit", event |-> id.got[1]])
        [] OTHER -> Undecodable

ReadSession(r) ==
  LET s == Read(ReadFlag(ReadFlag(ReadFlag(Read(Fresh(r), 16)))), 8)
  IN  Within(r, s, [session |-> s.got[1], active |-> s.got[2], closing |-> s.got[3], loaded |-> s.got[4], last |-> s.got[5]])

\* decode() of the engine.
ResponseOf(payload) ==
  LET type == Read(Reader(payload), 1)
      kind == Read(Fresh(type), 1)
      is(n) == type.ok /\ type.got[1] = n /\ kind.ok /\ kind.got[1] = 1
      body == Fresh(kind)
      ids == Read(Read(body, 16), 16)
      flag == ReadFlag(body)
      answered == ReadFlag(Read(body, 16))
      prediction == ReadAllCandidates(ReadHeader(Fresh(type)))
      error == ReadUtf(ReadHeader(Read(Fresh(type), 1)), 1, MaxUtf8)
      header == Read(Read(ReadFlag(answered), 4), 4)
      described == ReadFlag(Fresh(header))
      status == ReadOption(header, described, ReadSession(Fresh(described)))
  IN  CASE type.ok /\ type.got[1] = 3 ->
             Message(prediction, prediction.got[2] # 0,
                     [kind |-> "Prediction", session |-> prediction.got[1], request |-> prediction.got[2],
                      revision |-> prediction.got[3], candidates |-> prediction.got[4]])
        [] type.ok /\ type.got[1] = 7 ->
             Message(error, error.got[1] \in 1..9,
                     [kind |-> "Error", code |-> error.got[1], session |-> error.got[2],
                      request |-> error.got[3], revision |-> error.got[4], message |-> error.got[5]])
        [] is(1) -> Message(ids, TRUE, [kind |-> "OpenSession", session |-> ids.got[1], epoch |-> ids.got[2]])
        [] is(4) -> Message(answered, answered.got[1] # Zero,
                            [kind |-> "CloseSession", session |-> answered.got[1], closed |-> answered.got[2]])
        [] is(5) -> Message(status, TRUE,
                            [kind |-> "Status", epoch |-> status.got[1], stopping |-> status.got[2],
                             loaded |-> status.got[3], sessions |-> status.got[4], limit |-> status.got[5],
                             about |-> status.got[6]])
        [] is(6) -> Message(flag, TRUE, [kind |-> "Shutdown", accepted |-> flag.got[1]])
        [] is(8) -> Message(answered, TRUE, [kind |-> "RecordCommit", event |-> answered.got[1], stored |-> answered.got[2]])
        [] is(9) -> Message(answered, answered.got[1] # Zero,
                            [kind |-> "DiscardCommit", event |-> answered.got[1], discarded |-> answered.got[2]])
        [] OTHER -> Undecodable

-----------------------------------------------------------------------------
(* The exchange *)

ErrorsWith(codes, session, number, revision) ==
  {[kind |-> "Error", code |-> c, session |-> session, request |-> number, revision |-> revision, message |-> t]
     : c \in codes, t \in ErrorTexts}

SessionStates(s) ==
  [session : {s}, active : BOOLEAN, closing : BOOLEAN, loaded : BOOLEAN, last : {0, 7}]

\* What dispatch() sends in the end: the answer of the session manager or of the
\* commit store, or an error.
AnswersTo(m) ==
  CASE m.kind = "OpenSession" ->
         [kind : {"OpenSession"}, session : Ids \ {Zero}, epoch : Ids \ {Zero}] \cup ErrorsWith({7, 9}, Zero, 0, 0)
    [] m.kind = "Predict" ->
         {[kind |-> "Prediction", session |-> m.session, request |-> m.request, revision |-> m.revision, candidates |-> c]
            : c \in CandidateLists}
         \cup ErrorsWith({1, 3, 4, 5, 6, 7, 8, 9}, m.session, m.request, m.revision)
    [] m.kind = "CloseSession" ->
         {[kind |-> "CloseSession", session |-> m.session, closed |-> TRUE]} \cup ErrorsWith({1, 4, 9}, m.session, 0, 0)
    [] m.kind = "Status" ->
         [kind : {"Status"}, epoch : Ids \ {Zero}, stopping : BOOLEAN, loaded : BOOLEAN, sessions : {0, 1}, limit : {8},
          about : IF m.about = {} THEN {{}} ELSE UNION {{{t} : t \in SessionStates(s)} : s \in m.about}]
         \cup UNION {ErrorsWith({1, 4}, s, 0, 0) : s \in m.about}
    [] m.kind = "Shutdown" -> {[kind |-> "Shutdown", accepted |-> TRUE]}
    [] m.kind = "RecordCommit" ->
         [kind : {"RecordCommit"}, event : {m.event}, stored : BOOLEAN] \cup ErrorsWith({2, 9}, Zero, 0, 0)
    [] m.kind = "DiscardCommit" ->
         [kind : {"DiscardCommit"}, event : {m.event}, discarded : BOOLEAN] \cup ErrorsWith({2, 9}, Zero, 0, 0)
    [] OTHER -> ErrorsWith({3}, Zero, 0, 0)

\* matches(): any error, or the answer to this very request.
Correlates(m) ==
  \/ m.kind = "Error"
  \/ /\ m.kind = IF request.kind = "Predict" THEN "Prediction" ELSE request.kind
     /\ m.kind \in {"Prediction", "CloseSession"} => m.session = request.session
     /\ m.kind = "Prediction" => m.request = request.request /\ m.revision = request.revision
     /\ m.kind \in {"RecordCommit", "DiscardCommit"} => m.event = request.event

\* recv_frame() and Connection::run() read the header, then as many bytes as it says.
FrameIsIn(stream) == stream # <<>> /\ Bytes(Tail(stream)) >= stream[1][2]
FieldsIn(stream) ==
  CHOOSE n \in 0..(Len(stream) - 1) :
    /\ Bytes(SubSeq(stream, 2, n + 1)) <= stream[1][2]
    /\ n < Len(stream) - 1 => Bytes(SubSeq(stream, 2, n + 2)) > stream[1][2]
Payload(stream) == SubSeq(stream, 2, FieldsIn(stream) + 1)
Unread(stream) == SubSeq(stream, FieldsIn(stream) + 2, Len(stream))

Ask(m) ==
  /\ stage = "idle"
  /\ request' = m
  /\ IF SendableRequest(m)
     THEN stage' = "asked" /\ toService' = Frame(RequestFields(m)) /\ UNCHANGED <<connection, given>>
     ELSE stage' = "over" /\ connection' = "closed" /\ given' = Failure /\ UNCHANGED toService
  /\ UNCHANGED <<toEngine, dispatched, answer>>

\* One of the processes ends, or stop() shuts the socket down: what was written is
\* cut off anywhere.
Break ==
  /\ stage = "asked" /\ connection = "open"
  /\ \E n \in 0..Len(toService) : toService' = SubSeq(toService, 1, n)
  /\ \E n \in 0..Len(toEngine) : toEngine' = SubSeq(toEngine, 1, n)
  /\ connection' = "broken"
  /\ UNCHANGED <<stage, request, dispatched, answer, given>>

Dispatch ==
  /\ dispatched = Nothing /\ FrameIsIn(toService)
  /\ dispatched' = RequestOf(Payload(toService))
  /\ toService' = Unread(toService)
  /\ UNCHANGED <<stage, request, toEngine, connection, answer, given>>

\* Connection::send() closes a connection whose answer cannot be encoded; the engine
\* may have given up by then.
SendAnswer ==
  /\ dispatched # Nothing /\ answer = Nothing
  /\ \E a \in AnswersTo(dispatched) :
       /\ answer' = a
       /\ IF connection = "open" /\ SendableResponse(a)
          THEN toEngine' = Frame(ResponseFields(a)) /\ UNCHANGED connection
          ELSE /\ connection' = IF connection = "open" THEN "closed" ELSE connection
               /\ UNCHANGED toEngine
  /\ UNCHANGED <<stage, request, toService, dispatched, given>>

\* An answer that cannot be decoded costs the connection, one to another request does not.
Receive ==
  /\ stage = "asked" /\ FrameIsIn(toEngine)
  /\ LET m == ResponseOf(Payload(toEngine))
     IN  /\ given' = IF m # Undecodable /\ Correlates(m) THEN m ELSE Failure
         /\ connection' = IF m = Undecodable THEN "closed" ELSE connection
  /\ toEngine' = Unread(toEngine)
  /\ stage' = "over"
  /\ UNCHANGED <<request, toService, dispatched, answer>>

ReceiveFails ==
  /\ stage = "asked" /\ connection # "open" /\ ~FrameIsIn(toEngine)
  /\ given' = Failure /\ stage' = "over"
  /\ UNCHANGED <<request, toService, toEngine, connection, dispatched, answer>>

WireNext == (\E m \in Requests : Ask(m)) \/ Break \/ Dispatch \/ SendAnswer \/ Receive \/ ReceiveFails

WireSpec == WireInit /\ [][WireNext]_wireVars

-----------------------------------------------------------------------------
(* Properties *)

\* What the service acts on is what the engine asked, and what the engine is given is
\* what the service answered, up to the greatest sizes and for every optional part;
\* neither acts on a frame that was cut off.  A request fails only where the
\* connection breaks, or where the one that has to send refuses to.
FramesAreUnderstood ==
  /\ dispatched \in {Nothing, request}
  /\ given \in {Nothing, Failure, answer}
  /\ given = Failure => \/ connection = "broken" \/ ~SendableRequest(request)
                        \/ answer # Nothing /\ ~SendableResponse(answer)
=============================================================================
