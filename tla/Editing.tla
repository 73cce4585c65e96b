------------------------------ MODULE Editing ------------------------------
(***************************************************************************)
(* The editing state of one input context (InputSession) and what the keys *)
(* and clicks do to it (InputProcessor), up to the redraw of the panel     *)
(* (build_render_state).  Texts are abstracted: a segment keeps the length *)
(* of its candidate list, the pending smart-English token its number of    *)
(* keys, and the mixed decoder's answer what its preview ends with and how *)
(* many candidates close the token; dictionaries decide nondeterministi-   *)
(* cally.  Keys that fall through every branch change nothing and are left *)
(* out.                                                                    *)
(***************************************************************************)
EXTENDS Integers, Sequences, SequencesExt

CONSTANTS
  Settings,   \* configurations the user may choose
  RowCounts,  \* lengths of candidate lists
  MenuRows,   \* rows of the two levels of the symbol menu
  MaxLength,  \* bound on the segments and pending keys to which a key adds a segment
  MaxPending, \* bound on the pending keys when there are no segments
  MaxSymbols  \* Bopomofo symbols of an unfinished syllable

\* A page has rows, a finished reading has candidates, and so has each level of the menu.
ASSUME EditingAssumption ==
  /\ \A c \in Settings : c.pageSize \in Nat \ {0}
  /\ MaxSymbols \in Nat \ {0}
  /\ RowCounts \subseteq Nat \ {0}
  /\ MenuRows \in [{"top", "category"} -> Nat \ {0}]

VARIABLES
  session,    \* InputSession
  config      \* Config: the fields the keys consult

editorVars == <<session, config>>

-----------------------------------------------------------------------------
(* The session *)

NoIndex == 0
NoMark == -1   \* no selection anchor

Literal == [kind |-> "literal", size |-> 0, choice |-> 0, manual |-> FALSE]
\* A reading that no tone has finished: size counts its symbols.
Partial(n) == [Literal EXCEPT !.kind = "partial", !.size = n]
\* A finished reading: size counts its candidates, choice is the one shown.
Complete(n) == [Literal EXCEPT !.kind = "complete", !.size = n]
Chosen(segment, i) == [segment EXCEPT !.choice = i, !.manual = TRUE]

\* MixedDecisionState: what the previewed path ends with ("raw" is path 0),
\* whether a Space is held back after it, and the candidates of the best path
\* that closes the token with a syllable (NoIndex without such a path).
NoDecision == [preview |-> "none", boundary |-> FALSE, closing |-> NoIndex]
Decisions == [preview : {"raw", "chinese", "latin"}, boundary : BOOLEAN,
              closing : RowCounts \cup {NoIndex}]

EmptySession ==
  [kind |-> "empty", segments |-> <<>>, caret |-> 0, mark |-> NoMark, pending |-> 0,
   decision |-> NoDecision, menu |-> "closed", page |-> 0, cursor |-> 0,
   expanded |-> FALSE, shown |-> 0, stale |-> FALSE]

Lower(a, b) == IF a < b THEN a ELSE b
Clamped(i, low, high) == IF i < low THEN low ELSE IF i > high THEN high ELSE i

IsComplete(s, i) == i \in 1..Len(s.segments) /\ s.segments[i].kind = "complete"
IsPartial(s, i) == i \in 1..Len(s.segments) /\ s.segments[i].kind = "partial"
Unfinished(s) == \E i \in 1..Len(s.segments) : IsPartial(s, i)
CompositionEmpty(s) == s.segments = <<>> /\ s.pending = 0
Deciding(s) == s.decision # NoDecision
Choosing(s) == s.kind = "choosing"
MenuOpen(s) == s.menu # "closed"
Marked(s) == s.mark \notin {NoMark, s.caret}

\* The segment whose candidates are offered: the one on the configured side of
\* the caret, or else the one on the other side.
Target(s) ==
  LET sides == IF config.after THEN <<s.caret + 1, s.caret>> ELSE <<s.caret, s.caret + 1>>
  IN  CASE IsComplete(s, sides[1]) -> sides[1]
        [] ~IsComplete(s, sides[1]) /\ IsComplete(s, sides[2]) -> sides[2]
        [] OTHER -> NoIndex

Available(s) == IF Target(s) = NoIndex THEN 0 ELSE s.segments[Target(s)].size

\* expand_candidates(): the raw keys, then the closing path's characters, a page at most.
Expanded(s, page) ==
  IF s.decision.closing = NoIndex THEN 1 ELSE Lower(page, s.decision.closing + 1)

MixedEntries(s) == Expanded(s, config.pageSize)

\* candidate_count(): the rows that the keys walk over.
Rows(s) ==
  CASE MenuOpen(s) -> MenuRows[s.menu]
    [] ~MenuOpen(s) /\ ~Choosing(s) -> 0
    [] OTHER -> IF Deciding(s) THEN MixedEntries(s) ELSE Available(s)

\* candidate_list_active(): an open list with something shown.
ListActive(s) == Choosing(s) /\ s.shown # 0

-----------------------------------------------------------------------------
(* CandidateView *)

ResetView(s) == [s EXCEPT !.page = 0, !.cursor = 0, !.expanded = FALSE]
PageLength(s, count) == IF s.expanded /\ count # 0 THEN count ELSE config.pageSize
Offset(s, count) == s.page * PageLength(s, count)

\* clamp(): the cursor inside the list, on the page that holds it.
ClampView(s, count) ==
  LET cursor == Clamped(s.cursor, 0, count - 1)
  IN  [s EXCEPT !.cursor = cursor, !.page = cursor \div PageLength(s, count)]

\* move_cursor(): up or down, wrapping around inside the page.
MovedCursor(s, delta, count) ==
  LET first == Offset(s, count)
      last  == Lower(first + PageLength(s, count), count) - 1
      next  == s.cursor + delta
  IN  IF first > last THEN s
      ELSE [s EXCEPT !.cursor = IF next < first THEN last ELSE IF next > last THEN first ELSE next]

\* page_by(): a page further, keeping the row within the page when asked to.
Paged(s, delta, keepRow, count) ==
  LET size == PageLength(s, count)
      page == Clamped(s.page + delta, 0, (count + size - 1) \div size - 1)
  IN  IF page = s.page THEN s
      ELSE [s EXCEPT !.page = page,
                     !.cursor = IF keepRow THEN Lower(page * size + (s.cursor % size), count - 1) ELSE @]

\* set_cursor(): only a cursor that changes drags its page along.
WithCursor(s, i, count) ==
  LET next == Clamped(i, 0, count - 1)
  IN  IF next = s.cursor THEN s ELSE ClampView([s EXCEPT !.cursor = next], count)

\* The view after one of the keys that walk over a list of count rows.
Walked(s, key, count) ==
  CASE key = "Up"    -> MovedCursor(s, -1, count)
    [] key = "Down"  -> MovedCursor(s, 1, count)
    [] key = "Left"  -> Paged(s, -1, TRUE, count)
    [] key = "Right" -> Paged(s, 1, TRUE, count)
    [] key = "Home"  -> WithCursor(s, 0, count)
    [] key = "End"   -> WithCursor(s, count - 1, count)
WalkKeys == {"Up", "Down", "Left", "Right", "Home", "End"}

PageTurned(s, delta, count) ==
  LET t == Paged(s, delta, FALSE, count)
  IN  IF t = s THEN s ELSE WithCursor(t, Offset(t, count), count)

-----------------------------------------------------------------------------
(* transition_to(), sync_state() and the redraw *)

Become(s, kind) ==
  CASE s.kind = "empty" /\ kind = "choosing" -> s
    [] s.kind = "choosing" /\ kind = "choosing" -> s
    [] s.kind = "inputting" /\ kind = "choosing" ->
         LET t == [ResetView(s) EXCEPT !.kind = kind]
         IN  IF Target(s) = NoIndex THEN t ELSE [t EXCEPT !.cursor = s.segments[Target(s)].choice]
    [] OTHER -> [ResetView(s) EXCEPT !.kind = kind, !.shown = 0]

Settled(s) == Become(s, IF s.segments = <<>> THEN "empty" ELSE "inputting")
Resumed(s) == Become(s, IF CompositionEmpty(s) THEN "empty" ELSE "inputting")

\* Mutant for StateMatchesComposition: the redraw trusts the state it is given.
Unsynced(s) == s

Synced(s) ==
  CASE CompositionEmpty(s) /\ s.kind # "empty" -> Become(s, "empty")
    [] ~CompositionEmpty(s) /\ s.kind = "empty" -> Become(s, "inputting")
    [] OTHER -> s

\* What build_render_state() lists; a marked range shows its hint as a row.
Listed(s) ==
  IF Marked(s) /\ ~Choosing(s) /\ ~MenuOpen(s) THEN 1
  ELSE IF Deciding(s) /\ Choosing(s) THEN MixedEntries(s) ELSE Rows(s)

Redrawn(s) ==
  LET t == [Synced(s) EXCEPT !.stale = FALSE]
      count == Listed(t)
  IN  IF count = 0 THEN ResetView([t EXCEPT !.shown = 0])
      ELSE ClampView([t EXCEPT !.shown = count], count)

-----------------------------------------------------------------------------
(* CompositionBuffer *)

Inserted(s, new) ==
  [s EXCEPT !.segments = SubSeq(@, 1, s.caret) \o new \o SubSeq(@, s.caret + 1, Len(@)),
            !.caret = @ + Len(new), !.mark = IF new = <<>> THEN @ ELSE NoMark]

Literals(n) == [i \in 1..n |-> Literal]

\* Mutant for PartsTypeOK: a removed segment leaves the mark alone.
RemoveUnderMark(s, i) ==
  [s EXCEPT !.segments = RemoveAt(@, i), !.caret = IF @ >= i THEN @ - 1 ELSE @]

RemoveSegment(s, i) ==
  [s EXCEPT !.segments = RemoveAt(@, i), !.caret = IF @ >= i THEN @ - 1 ELSE @, !.mark = NoMark]

\* backspace(): a shown character goes, an unfinished reading loses a symbol.
Backspaced(s) ==
  CASE s.caret = 0 -> [s EXCEPT !.mark = NoMark]
    [] s.caret # 0 /\ IsPartial(s, s.caret) /\ s.segments[s.caret].size > 1 ->
         [s EXCEPT !.segments[s.caret] = Partial(@.size - 1), !.mark = NoMark]
    [] OTHER -> RemoveSegment(s, s.caret)

WithChoice(s, i, row) ==
  [s EXCEPT !.segments[i] = Chosen(@, row), !.mark = NoMark,
            !.caret = IF config.moveCaret THEN i ELSE @]

Unmarked(s) == [s EXCEPT !.caret = s.mark, !.mark = NoMark]

\* The segment whose explicit choice Escape takes back, before the caret first.
ManualAtCaret(s) ==
  LET manual == {i \in {s.caret, s.caret + 1} : IsComplete(s, i) /\ s.segments[i].manual}
  IN  CHOOSE i \in manual \cup {NoIndex} : \A j \in manual : i # NoIndex /\ i <= j

\* The unfinished reading Escape removes: at the caret, or the first one.
UnfinishedAtCaret(s) ==
  LET partial == {i \in 1..Len(s.segments) : IsPartial(s, i)}
  IN  IF s.caret \in partial THEN s.caret
      ELSE IF s.caret + 1 \in partial THEN s.caret + 1
      ELSE CHOOSE i \in partial : \A j \in partial : i <= j

-----------------------------------------------------------------------------
(* Committing and settling the pending token *)

NoPending(s) == [s EXCEPT !.pending = 0, !.decision = NoDecision]

\* commit_current(), commit_composition_with(), reset(): the text leaves.
Cleared(s) ==
  Become([NoPending(s) EXCEPT !.segments = <<>>, !.caret = 0, !.mark = NoMark,
                              !.menu = "closed"], "empty")

SettledAsLiterals(s) == Settled(NoPending(Inserted(s, Literals(s.pending))))

\* apply_mixed_path(): written at the end of a finished composition or not at
\* all, in which case the token stays pending.
Applied(s, path) ==
  IF s.caret # Len(s.segments) \/ IsPartial(s, s.caret) THEN s
  ELSE Redrawn(Become(NoPending(Inserted(s, path)), "inputting"))

\* The shortest path that ends with a syllable, and one with letters after it.
ClosingPath(s, row) == <<Chosen(Complete(s.decision.closing), row)>>
LetterPath == <<Chosen(Complete(1), 0), Literal>>

SettledPreview(s) ==
  CASE s.decision.preview = "chinese" -> Applied(s, ClosingPath(s, 0))
    [] s.decision.preview = "latin"   -> Applied(s, LetterPath)
    [] OTHER -> SettledAsLiterals(s)

\* What the decoder can say of a token: a syllable takes two keys, letters
\* after it a third; Space finishes a syllable of one key too.  The keys themselves
\* are shown for one key already, where it is a tone.
Answers(s, space) ==
  {d \in Decisions :
     /\ d.boundary = space
     /\ space => d.closing # NoIndex
     /\ d.closing # NoIndex => s.pending >= 2 \/ space
     /\ d.preview = "chinese" => d.closing # NoIndex /\ s.pending >= 2
     /\ d.preview = "latin" => s.pending >= 3}

\* rerun_pending_decision(): a preview, no decision, or after a Space the text
\* committed with a blank.
Redecided(s, space) ==
  {Redrawn(Become([s EXCEPT !.decision = d], "inputting")) :
     d \in Answers(s, space) \cup IF space THEN {} ELSE {NoDecision}}
  \cup IF space THEN {Redrawn(Cleared(s))} ELSE {}

\* append_pending_char()
Appended(s) == Become([s EXCEPT !.pending = @ + 1], "inputting")

\* The keys that have no branch of their own while a token is pending settle it
\* first, without a redraw unless a path was applied, and are then handled.
WithoutPending(s) == IF config.smart /\ s.pending > 0 THEN SettledPreview(s) ELSE s

-----------------------------------------------------------------------------
(* Choosing *)

\* The page a choice is looked up in: as long as the list shown, when that is expanded.
OfferedEntries(s) == Expanded(s, PageLength(s, s.shown))

\* select_mixed_candidate_impl(): row 0 is the raw text.
MixedSelected(s, row) ==
  CASE row >= OfferedEntries(s) -> s
    [] row = 0 /\ s.decision.boundary -> Redrawn(Cleared(s))
    [] row = 0 /\ ~s.decision.boundary ->
         Redrawn(Become([s EXCEPT !.decision.preview = "raw"], "inputting"))
    [] OTHER -> Applied(s, ClosingPath(s, row - 1))

\* select_candidate_impl(): from a key or from a click on a shown row.
Selected(s, row) ==
  CASE ~Choosing(s) -> s
    [] Choosing(s) /\ Deciding(s) -> MixedSelected(s, row)
    [] OTHER -> IF row >= Available(s) THEN s
                ELSE Redrawn(Become(WithChoice(s, Target(s), row), "inputting"))

\* close() and the view that went with the menu.
WithoutMenu(s) == ResetView([s EXCEPT !.menu = "closed", !.shown = 0])

\* select_symbol_impl(): a category opens, or a symbol goes into the buffer.
SymbolSelected(s, row) ==
  IF ~MenuOpen(s) \/ row >= Rows(s) THEN {s}
  ELSE {Redrawn(Become(Inserted(WithoutMenu(s), <<Literal>>), "inputting"))}
       \cup IF s.menu = "top" THEN {Redrawn(ResetView([s EXCEPT !.menu = "category"]))} ELSE {}

OpenedMenu(s) ==
  LET t == [s EXCEPT !.menu = "top"]
  IN  Redrawn(IF Choosing(s) THEN Become(t, "inputting") ELSE ResetView([t EXCEPT !.shown = 0]))

\* close_symbol_menu(): back to what the buffer alone calls for.
ClosedMenu(s) == Redrawn(Settled(WithoutMenu(s)))


-----------------------------------------------------------------------------
(* Keys, in the order process_impl() tries them *)

EditingInit == session = EmptySession /\ config \in Settings

Press(results) == session' \in results /\ UNCHANGED config
\* A key that walked nowhere leaves the panel alone.
Drawn(s) == IF s = session THEN s ELSE Redrawn(s)
Typed(s) == Redrawn(Become(Inserted(s, <<Literal>>), "inputting"))

Room == Len(session.segments) + session.pending < MaxLength
PendingRoom == Room \/ (session.segments = <<>> /\ session.pending < MaxPending)
Pending == config.smart /\ session.pending > 0
NoMenu == ~MenuOpen(session)
ListOpen == NoMenu /\ Choosing(session) /\ Rows(session) # 0
AllLiterals == session.segments # <<>>
               /\ \A i \in 1..Len(session.segments) : session.segments[i] = Literal
InsideLiterals == AllLiterals /\ session.caret # Len(session.segments)

\* CapsLock is on and means English.
CapsLockKey == ~config.capsBopomofo /\ Press({Redrawn(Cleared(session))})

MarkArrow(delta) ==
  /\ NoMenu /\ ~ListActive(session)
  /\ session.caret + delta \in 0..Len(session.segments)
  /\ Press({Redrawn([session EXCEPT !.caret = @ + delta,
                       !.mark = IF @ = NoMark THEN session.caret ELSE @])})

ShiftSpaceKey == ~CompositionEmpty(session) /\ Press({Redrawn(Cleared(session))})

MenuWalk(key) == MenuOpen(session) /\ Press({Drawn(Walked(session, key, Rows(session)))})
MenuPage(delta) == MenuOpen(session) /\ Press({Drawn(PageTurned(session, delta, Rows(session)))})
MenuExpand == MenuOpen(session) /\ Press({Redrawn([session EXCEPT !.expanded = ~@])})
MenuBack ==
  /\ session.menu = "category"
  /\ Press({Redrawn(ResetView([session EXCEPT !.menu = "top"]))})
\* Escape and grave anywhere, BackSpace on the first level.
MenuClose == MenuOpen(session) /\ Press({ClosedMenu(session)})
MenuPick(row) ==
  /\ MenuOpen(session) /\ Room
  /\ Press(SymbolSelected(session, Offset(session, Rows(session)) + row)
           \cup SymbolSelected(session, session.cursor))

GraveKey ==
  /\ NoMenu
  /\ \/ Pending /\ Press({OpenedMenu(SettledPreview(session))})
     \/ ~Pending /\ ~Unfinished(session) /\ Press({OpenedMenu(session)})

KeypadKey ==
  /\ NoMenu /\ Room /\ ~CompositionEmpty(session)
  /\ Press({Typed(IF session.pending > 0 THEN SettledPreview(session) ELSE session)})

ListWalk(key) == ListOpen /\ Press({Drawn(Walked(session, key, Rows(session)))})
\* Return; a pending token's list commits its row, whatever it is.
ListReturn ==
  /\ ListOpen
  /\ Press({IF ~Deciding(session) THEN Selected(session, session.cursor)
            ELSE IF session.cursor < OfferedEntries(session) THEN Redrawn(Cleared(session)) ELSE session})
ListPick(row) ==
  /\ ListOpen
  /\ \/ Press({Selected(session, Offset(session, Rows(session)) + row)})
     \/ config.spaceSelects /\ Press({Selected(session, session.cursor)})

\* handle_english_letter(): into the buffer, or out with the composition.
EnglishLetterKey ==
  /\ NoMenu
  /\ \/ /\ config.directLetters /\ Room
        /\ Press({Typed(IF session.pending > 0 THEN SettledPreview(session) ELSE session)})
     \/ /\ ~config.directLetters /\ ~CompositionEmpty(session)
        /\ Press({Redrawn(Cleared(session))})

-----------------------------------------------------------------------------
(* Keys while a smart-English token is pending *)

PendingEscape ==
  LET s == IF session.mark = NoMark THEN session ELSE Unmarked(session)
      t == CASE Deciding(s) /\ Choosing(s) -> s
             [] Deciding(s) /\ ~Choosing(s) /\ s.decision.preview # "raw" ->
                  [s EXCEPT !.decision.preview = "raw", !.decision.boundary = FALSE]
             [] OTHER -> NoPending(s)
  IN  NoMenu /\ Pending /\ Press({Redrawn(Resumed(t))})

PendingBackSpace ==
  LET s == IF Deciding(session) /\ Choosing(session) THEN Become(session, "inputting") ELSE session
      t == Resumed([s EXCEPT !.pending = @ - 1, !.decision = NoDecision])
  IN  /\ NoMenu /\ Pending
      /\ Press(IF s.decision.boundary
               THEN {Redrawn(Become([s EXCEPT !.decision = NoDecision], "inputting"))}
               ELSE IF t.pending = 0 THEN {Redrawn(t)} ELSE Redecided(t, FALSE))

PendingReturn == NoMenu /\ Pending /\ ~ListOpen /\ Press({Redrawn(Cleared(session))})

\* show_mixed_candidates(): the cursor starts on the previewed character.
PendingDown ==
  LET s == Become(session, "choosing")
  IN  /\ NoMenu /\ Pending /\ Deciding(session) /\ ~ListOpen /\ OfferedEntries(session) >= 2
      /\ Press({Redrawn([s EXCEPT !.cursor = IF session.decision.preview = "chinese" THEN 1 ELSE 0])})

\* Space accepts a previewed syllable; a blank after letters commits them, or
\* has the token decoded again with Space as a tone.
PendingSpace ==
  /\ NoMenu /\ Pending /\ ~(ListOpen /\ config.spaceSelects)
  /\ Press(CASE session.decision.preview = "chinese" -> {SettledPreview(session)}
             [] session.decision.preview = "raw" /\ session.decision.boundary -> {Redrawn(Cleared(session))}
             [] session.decision.preview = "none" -> Redecided(session, TRUE)
             [] OTHER -> {Redrawn(Cleared(session))} \cup Redecided(session, TRUE))

PendingPunctuation == NoMenu /\ Pending /\ Room /\ Press({Typed(SettledPreview(session))})

\* A further key of the token; one held-back blank goes in before it.
PendingKey ==
  LET s == CASE ~session.decision.boundary -> session
             [] session.decision.boundary /\ session.decision.preview = "raw" ->
                  Inserted(SettledAsLiterals(session), <<Literal>>)
             [] OTHER -> SettledPreview(session)
  IN  NoMenu /\ Pending /\ PendingRoom /\ Press(Redecided(Appended(s), FALSE))

-----------------------------------------------------------------------------
(* Keys of the composition *)

LiteralKey == NoMenu /\ config.smart /\ session.pending = 0 /\ InsideLiterals /\ Room /\ Press({Typed(session)})

StartPending ==
  /\ NoMenu /\ config.smart /\ session.pending = 0 /\ ~InsideLiterals /\ PendingRoom
  /\ Press(Redecided(Appended(IF ListActive(session) THEN Become(session, "inputting") ELSE session), FALSE))

PunctuationKey ==
  /\ NoMenu /\ ~Pending /\ ~ListOpen /\ ~Unfinished(session) /\ Room
  /\ Press({Typed(session)})

HsuDigitKey ==
  /\ config.hsu /\ NoMenu /\ ~Pending /\ ~ListOpen /\ ~Unfinished(session)
  /\ session.segments # <<>> /\ Room
  /\ Press({Typed(session)})

Offer(s) == IF s.segments # <<>> /\ Target(s) # NoIndex THEN Redrawn(Become(s, "choosing")) ELSE s

SpaceKey ==
  /\ NoMenu /\ ~Pending /\ ~Choosing(session) /\ ~IsPartial(session, session.caret)
  /\ Press({Offer(session)})

DownKey ==
  /\ NoMenu /\ ~ListOpen /\ ~(Pending /\ Deciding(session))
  /\ Press({Offer(WithoutPending(session))})

\* Return stores a marked phrase, when it is one, or commits.
ReturnKey ==
  /\ NoMenu /\ ~Pending /\ ~ListOpen /\ ~CompositionEmpty(session)
  /\ Press(IF Marked(session) THEN {session, Redrawn(Unmarked(session))}
           ELSE {Redrawn(Cleared(session))})

\* handle_escape(): the first of these that applies.
EscapeKey ==
  LET s == session
      t == CASE config.escClears -> Become([s EXCEPT !.segments = <<>>, !.caret = 0], "empty")
             [] ~config.escClears /\ Choosing(s) /\ Available(s) # 0 -> Become(s, "inputting")
             [] ~config.escClears /\ ~(Choosing(s) /\ Available(s) # 0) /\ Unfinished(s) ->
                  Settled(RemoveSegment(s, UnfinishedAtCaret(s)))
             [] OTHER ->
                  Become(IF ManualAtCaret(s) = NoIndex THEN s
                         ELSE [s EXCEPT !.segments[ManualAtCaret(s)] = Complete(@.size)], "inputting")
  IN  /\ NoMenu /\ ~Pending /\ ~CompositionEmpty(session)
      /\ Press({Redrawn(IF s.mark # NoMark THEN Unmarked(s) ELSE t)})

BackSpaceKey ==
  /\ NoMenu /\ ~Pending /\ session.segments # <<>>
  /\ Press({Redrawn(Settled(Backspaced(session)))})

DeleteKey ==
  LET s == WithoutPending(session)
  IN  /\ NoMenu
      /\ Press({IF s.segments = <<>> THEN s
                ELSE Redrawn(Settled(IF s.caret < Len(s.segments) THEN RemoveSegment(s, s.caret + 1) ELSE s))})

\* An arrow drops the mark even where the caret cannot move, without a redraw.
ArrowKey(delta) ==
  LET s == WithoutPending(session)
      t == [s EXCEPT !.mark = NoMark]
  IN  /\ NoMenu /\ ~ListOpen
      /\ Press({IF s.segments = <<>> THEN s
                ELSE IF s.caret + delta \notin 0..Len(s.segments) THEN t
                ELSE Redrawn(Become([t EXCEPT !.caret = @ + delta], "inputting"))})

TabKey ==
  LET s == WithoutPending(session)
  IN  /\ NoMenu
      /\ Press({IF s.segments = <<>> \/ Available(s) = 0 THEN s
                ELSE Redrawn(IF Choosing(s) THEN [s EXCEPT !.expanded = ~@] ELSE Become(s, "choosing"))})

PageKey(delta) ==
  LET s == WithoutPending(session)
      t == PageTurned(s, delta, Rows(s))
  IN  /\ NoMenu
      /\ Press({IF s.segments = <<>> \/ Rows(s) = 0 \/ t = s THEN s ELSE Redrawn(t)})

\* add_bopomofo_key(): a symbol starts or extends the reading before the caret.  Where
\* CapsLock types Bopomofo a capital is one to smart English too, which starts no
\* token with it.
SymbolKey ==
  LET i == session.caret
      results == IF IsPartial(session, i)
                 THEN {[session EXCEPT !.segments[i] = Partial(n), !.mark = NoMark] :
                         n \in {session.segments[i].size, Lower(session.segments[i].size + 1, MaxSymbols)}}
                 ELSE IF Room THEN {Inserted(session, <<Partial(1)>>)} ELSE {}
  IN  /\ NoMenu
      /\ ~config.smart \/ (config.capsBopomofo /\ session.pending = 0 /\ ~InsideLiterals)
      /\ Press({Redrawn(Become(s, "inputting")) : s \in results})

\* A tone or Space finishes it; one the tables do not know is removed.
ToneKey ==
  LET s == Become(session, "inputting")
  IN  /\ NoMenu /\ ~Pending /\ IsPartial(session, session.caret)
      /\ Press({Redrawn([s EXCEPT !.segments[s.caret] = Complete(n), !.mark = NoMark]) : n \in RowCounts}
               \cup {Redrawn(RemoveSegment(s, s.caret))})

-----------------------------------------------------------------------------
(* Clicks, answers, focus and settings *)

\* A click carries only its row; the list may have changed since it was drawn.
ClickCandidate(row) == Press({Selected(session, row)})
ClickSymbol(row) == Room /\ Press(SymbolSelected(session, row))

\* Mutant for KeysWalkTheShownList: an answer replaces the candidates under the open list.
AnswerUndrawn ==
  \E i \in 1..Len(session.segments), n \in RowCounts :
    /\ IsComplete(session, i) /\ ~session.segments[i].manual
    /\ Press({[session EXCEPT !.segments[i] = Complete(n)]})

\* A prediction replaces the candidates of a reading nobody chose for.
Answer ==
  \E i \in 1..Len(session.segments), n \in RowCounts :
    /\ IsComplete(session, i) /\ ~session.segments[i].manual
    /\ Press({Redrawn([session EXCEPT !.segments[i] = Complete(n)])})

\* reset(): focus lost, deactivated, or asked for by the application.
Reset == Press({Redrawn(Cleared(session))})
ActivateEditor == Press({Redrawn(session)})

\* set_config() redraws nothing; only the settings window settles the token.
SetConfig(settle) ==
  /\ config' \in Settings \ {config}
  /\ session' = [IF settle THEN NoPending(Inserted(session, Literals(session.pending))) ELSE session
                 EXCEPT !.stale = TRUE]

\* A digit may count past the page on view.
ListRows == UNION {0..c.pageSize : c \in Settings}

EditingNext ==
  \/ CapsLockKey \/ ShiftSpaceKey \/ GraveKey \/ KeypadKey \/ EnglishLetterKey
  \/ \E delta \in {-1, 1} : MarkArrow(delta) \/ MenuPage(delta) \/ ArrowKey(delta) \/ PageKey(delta)
  \/ \E key \in WalkKeys : MenuWalk(key) \/ ListWalk(key)
  \/ MenuExpand \/ MenuBack \/ MenuClose
  \/ \E row \in ListRows : MenuPick(row) \/ ListPick(row) \/ ClickCandidate(row) \/ ClickSymbol(row)
  \/ ListReturn
  \/ PendingEscape \/ PendingBackSpace \/ PendingReturn \/ PendingDown \/ PendingSpace
  \/ PendingPunctuation \/ PendingKey
  \/ LiteralKey \/ StartPending \/ PunctuationKey \/ HsuDigitKey \/ SpaceKey \/ DownKey
  \/ ReturnKey \/ EscapeKey \/ BackSpaceKey \/ DeleteKey \/ TabKey \/ SymbolKey \/ ToneKey
  \/ Answer \/ Reset \/ ActivateEditor
  \/ \E settle \in BOOLEAN : SetConfig(settle)

EditingSpec == EditingInit /\ [][EditingNext]_editorVars


-----------------------------------------------------------------------------
(* Properties *)

\* Every field has its type, the caret is inside the composition, and the mark
\* is at a position of it.
Segments ==
  {Literal} \cup {Partial(n) : n \in 1..MaxSymbols}
    \cup UNION {{Complete(n)} \cup {Chosen(Complete(n), i) : i \in 0..(n - 1)} : n \in RowCounts \cup {1}}

EditingTypeOK ==
  /\ config \in Settings
  /\ session.kind \in {"empty", "inputting", "choosing"}
  /\ session.segments \in Seq(Segments)
  /\ session.caret \in 0..Len(session.segments)
  /\ session.mark \in {NoMark} \cup 0..Len(session.segments)
  /\ session.pending \in Nat
  /\ session.decision \in Decisions \cup {NoDecision}
  /\ session.menu \in {"closed", "top", "category"}
  /\ session.page \in Nat /\ session.cursor \in Nat /\ session.shown \in Nat
  /\ session.expanded \in BOOLEAN /\ session.stale \in BOOLEAN

CursorIsOnPage ==
  session.shown > 0 /\ ~session.stale =>
    session.cursor \in Offset(session, session.shown)
                       ..(Lower(Offset(session, session.shown) + PageLength(session, session.shown),
                                session.shown) - 1)

\* Unless the settings changed since the panel was drawn, the rows a key walks over and
\* picks from are the rows on it and the cursor is a row of the page on view: turning
\* pages, answers that shorten the list, a mark given up under an open list and views
\* left over from other settings never leave it elsewhere.
KeysWalkTheShownList ==
  /\ (Choosing(session) \/ MenuOpen(session)) /\ ~session.stale => session.shown = Rows(session)
  /\ CursorIsOnPage

\* A decision belongs to the keys it was made for: none outlives its token, and
\* one that previews a syllable has the keys of a syllable.
DecisionHasItsToken ==
  Deciding(session) => /\ session.pending > 0
                       /\ session.decision.preview = "chinese" => session.pending >= 2
                       /\ session.decision.preview = "latin" => session.pending >= 3

\* The state and the decision are those of the composition: unless the settings changed
\* since the last redraw, the state is "empty" exactly when there is nothing composed
\* or pending, and a decision has the token it was made for.
StateMatchesComposition ==
  /\ ~session.stale => (session.kind = "empty" <=> CompositionEmpty(session))
  /\ DecisionHasItsToken
=============================================================================
