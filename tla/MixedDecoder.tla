---------------------------- MODULE MixedDecoder ----------------------------
(***************************************************************************)
(* How a pending smart-English token is read: tokenize_ascii() finds the   *)
(* words, numbers, domains and paths that start at each key, decode() adds *)
(* the Bopomofo syllables and keeps the TopK best paths to every position. *)
(* A key is abstracted to its class; which runs of keys spell a syllable   *)
(* of the tables and which words are known is part of the input.           *)
(***************************************************************************)
EXTENDS Integers, Sequences, FiniteSets, SequencesExt, FiniteSetsExt

CONSTANTS
  Raws,   \* tokens to decode: sequences of key classes
  TopK    \* kTopK

\* kTopK is 8: there is room for the keys as they are and for another reading.
ASSUME TopKAssumption == TopK \in Nat /\ TopK >= 2
ASSUME RawsAssumption == Raws \subseteq Seq(STRING)

VARIABLES
  raw,        \* the keys of the token
  known,      \* words of this length and more are in the dictionary
  syllables,  \* <<begin, end>> of the keys that spell a syllable with a tone key
  closers,    \* begin of the keys that spell one with the Space
  vertex,     \* the position the dynamic program stands at
  buckets,    \* dp: the paths kept for each position
  paths       \* MixedDecodeResult::paths after the raw one

decoderVars == <<raw, known, syllables, closers, vertex, buckets, paths>>

-----------------------------------------------------------------------------
(* ascii_tokenizer.cpp.  Token [b, e) is the keys b + 1 .. e of the input.  *)

Letters == {"a"}
Digits == {"1"}
Alnum == Letters \cup Digits
KeyCount == Len(raw)
KeyAt(i, classes) == i \in 1..KeyCount /\ raw[i] \in classes

\* The end of the longest run of these classes that starts at b.
Scan(b, classes) == Min({e \in b..KeyCount : ~KeyAt(e + 1, classes)})

\* Digits with single dots between them.
ScanNumber(b) ==
  Max({e \in b..KeyCount : \A i \in (b + 1)..e :
         \/ KeyAt(i, Digits)
         \/ KeyAt(i, {"."}) /\ i \in (b + 2)..(e - 1) /\ KeyAt(i - 1, Digits) /\ KeyAt(i + 1, Digits)})

ScanIdentifier(b) == Scan(b, Alnum \cup {"_"})

\* Where the labels of a domain start: after the dot that ends the label before.
LabelStarts(b) ==
  LET starts[p \in b..KeyCount] ==
        \/ p = b
        \/ \E s \in b..(p - 2) : starts[s] /\ KeyAt(s + 1, Alnum) /\ Scan(s, Alnum \cup {"-"}) = p - 1 /\ KeyAt(p, {"."})
  IN  {p \in b..KeyCount : starts[p]}

\* The end of the last later label that begins with two letters, its letters.
ScanDomain(b) ==
  {Scan(s, Letters) : s \in
     LET tld == {s \in LabelStarts(b) \ {b} : Scan(s, Letters) >= s + 2}
     IN  IF tld = {} THEN {} ELSE {Max(tld)}}

ScanEmail(b) ==
  LET at == Scan(b, Alnum \cup {".", "_", "-"})
  IN  IF at > b /\ KeyAt(at + 1, {"@"}) THEN ScanDomain(at + 1) ELSE {}

\* The whole address, its authority, and every prefix before a slash.
ScanUrl(b) ==
  LET scheme == Scan(b, Alnum \cup {"-", "."})
      rest   == scheme + 3
  IN  IF KeyAt(scheme + 1, {":"}) /\ KeyAt(scheme + 2, {"/"}) /\ KeyAt(scheme + 3, {"/"})
      THEN {KeyCount} \cup ScanDomain(rest) \cup {i \in rest..(KeyCount - 1) : KeyAt(i + 1, {"/"})}
      ELSE {}

\* The whole path and every prefix up to a slash; nothing with an empty component.
ScanPath(b) ==
  LET end == Scan(b, Alnum \cup {".", "-", "_", "/"})
  IN  IF end = b + 1 \/ \E i \in (b + 2)..end : KeyAt(i, {"/"}) /\ KeyAt(i - 1, {"/"}) THEN {}
      ELSE {end} \cup {i \in (b + 2)..end : KeyAt(i, {"/"})}

\* The tokens proposed at b, the first proposal of an end being kept.
Proposals(b) ==
  LET letter == KeyAt(b + 1, Letters)
      digit  == KeyAt(b + 1, Digits)
      mixed  == {e \in {Scan(b, Alnum)} : \E i, j \in (b + 1)..e : KeyAt(i, Letters) /\ KeyAt(j, Digits)}
      single == IF letter THEN "LatinWord" ELSE IF digit THEN "Number" ELSE "OperatorOrSymbol"
      When(condition, kind, ends) == [kind |-> kind, ends |-> IF condition THEN ends ELSE {}]
  IN  << When(TRUE, single, {b + 1}),
         When(letter, "LatinWord", {Scan(b, Letters)}),
         When(letter \/ digit, "Alphanumeric", mixed),
         When(letter /\ ScanIdentifier(b) > Scan(b, Letters), "Identifier", {ScanIdentifier(b)}),
         When(letter, "Domain", ScanDomain(b)),
         When(letter, "Email", ScanEmail(b)),
         When(letter, "URL", ScanUrl(b)),
         When(digit, "Number", {ScanNumber(b)}),
         When(KeyAt(b + 1, {"/"}), "FilesystemPath", ScanPath(b)) >>

Tokens(b) ==
  LET all == Proposals(b)
      First(e) == {k \in 1..Len(all) : e \in all[k].ends /\ \A j \in 1..(k - 1) : e \notin all[j].ends}
  IN  UNION {{[kind |-> all[k].kind, begin |-> b, end |-> e] : k \in First(e)} : e \in (b + 1)..KeyCount}

-----------------------------------------------------------------------------
(* mixed_input_decoder.cpp: edges and scores *)

Structured == {"Identifier", "Email", "Domain", "URL", "FilesystemPath"}

\* The segment of a token: what it counts as, and how it ranks by itself.
AsciiEdge(token) ==
  LET word == IF token.end - token.begin >= known THEN 20 ELSE 0
  IN  [begin |-> token.begin, end |-> token.end,
       kind  |-> CASE token.kind = "Number" -> "number"
                   [] token.kind = "OperatorOrSymbol" -> "symbol"
                   [] OTHER -> "latin",
       score |-> CASE token.kind \in Structured -> 60
                   [] token.kind = "LatinWord" -> 10 + word
                   [] token.kind = "Alphanumeric" -> 8 + word
                   [] token.kind = "Number" -> 8
                   [] token.kind = "OperatorOrSymbol" -> 0]

Syllable(b, e, score) == [begin |-> b, end |-> e, kind |-> "bopomofo", score |-> score]

\* A tone key is one of the body's keys, the Space is not; a leftover key
\* closes with the Space only when it is the whole token.
ToneEdges == {Syllable(s[1], s[2], 40 + 6 * (s[2] - s[1] - 1)) : s \in syllables}
SpaceEdges == {Syllable(b, KeyCount, 25 + 6 * (KeyCount - b)) : b \in closers}

Edges(b) == {AsciiEdge(t) : t \in Tokens(b)} \cup {e \in ToneEdges \cup SpaceEdges : e.begin = b}

\* render_segment(): a key for itself, a syllable as the first character of its
\* reading; the two ways to close the same keys read differently.
Keystroke(i) == [begin |-> i - 1, end |-> i, kind |-> "key", score |-> 0]
Rendered(edge) ==
  IF edge.kind = "bopomofo" THEN <<edge>>
  ELSE [i \in 1..(edge.end - edge.begin) |-> Keystroke(edge.begin + i)]

HasSyllable(path) == \E i \in 1..Len(path) : path[i].kind = "bopomofo"

\* A path one edge longer; changing the script and splitting words both cost.
Extended(entry, edge) ==
  LET path == entry.path
      switch == path # <<>> /\ Last(path).kind # edge.kind
      split  == edge.kind = "latin" /\ \E i \in 1..Len(path) : path[i].kind = "latin"
  IN  [path  |-> Append(path, edge),
       rendered |-> entry.rendered \o Rendered(edge),
       score |-> entry.score + edge.score - (IF switch THEN 12 ELSE 0) - (IF split THEN 6 ELSE 0)]

\* Mutant for MixedSurvives: every path competes, whatever it renders.
KeptWithClutter(entries) ==
  {kept \in kSubset(Min({TopK, Cardinality(entries)}), entries) :
     \A e \in kept, f \in entries \ kept : e.score >= f.score}

\* insert_entry(): one entry per text, the best one, and of these the TopK
\* best; ties fall either way.
Kept(entries) ==
  LET SameText(e, f) == e.rendered = f.rendered
      best == {e \in entries : \A f \in entries : SameText(e, f) => f.score <= e.score}
      texts == {e.rendered : e \in best}
  IN  {kept \in kSubset(Min({TopK, Cardinality(texts)}), best) :
         /\ \A e, f \in kept : SameText(e, f) => e = f
         /\ \A e \in kept, f \in best \ kept : e.score >= f.score \/ \E g \in kept : SameText(f, g)}

-----------------------------------------------------------------------------

\* What the tables may say of a token: syllables end in a digit key, the tone,
\* and at most one run of keys (a bound) closes with the Space.
DecodingInit ==
  /\ raw \in Raws
  /\ known \in {2, 9}
  /\ syllables \in SUBSET {s \in (0..(KeyCount - 1)) \X (1..KeyCount) : s[2] >= s[1] + 2 /\ KeyAt(s[2], Digits)}
  /\ closers \in {{}} \cup {{b} : b \in {0} \cup 0..(KeyCount - 2)}
  /\ vertex = 0
  /\ buckets = [v \in 0..KeyCount |-> IF v = 0 THEN {[path |-> <<>>, rendered |-> <<>>, score |-> 0]} ELSE {}]
  /\ paths = {}

Input == <<raw, known, syllables, closers>>

\* The entries of a position, as they are inserted: those of the earlier ones, an edge
\* longer.
Arriving(position) ==
  UNION {{Extended(entry, e) : entry \in buckets[v], e \in {e \in Edges(v) : e.end = position}}
           : v \in 0..(position - 1)}

\* The dynamic program, told from where an edge ends.
Advance ==
  /\ vertex < KeyCount
  /\ \E kept \in Kept(Arriving(vertex + 1)) : buckets' = [buckets EXCEPT ![vertex + 1] = kept]
  /\ vertex' = vertex + 1
  /\ UNCHANGED <<Input, paths>>

\* The raw text is listed first and not again.
Finish ==
  /\ vertex = KeyCount /\ paths = {}
  /\ paths' = {e \in buckets[KeyCount] : HasSyllable(e.path)}
  /\ UNCHANGED <<Input, vertex, buckets>>

DecodingNext == Advance \/ Finish

DecodingSpec == DecodingInit /\ [][DecodingNext]_decoderVars

-----------------------------------------------------------------------------
(* Properties *)

\* Every path kept for a position tiles the keys before it with edges.
DecodingTypeOK ==
  /\ raw \in Raws /\ vertex \in 0..KeyCount
  /\ \A v \in 1..vertex : \A entry \in buckets[v] :
       LET path == entry.path
       IN  /\ path # <<>> /\ path[1].begin = 0 /\ Last(path).end = v
           /\ \A i \in 1..Len(path) : path[i] \in Edges(path[i].begin)
           /\ \A i \in 1..(Len(path) - 1) : path[i].end = path[i + 1].begin
  /\ paths \subseteq buckets[KeyCount]

\* The readings of a token as words and digits, however many and however highly
\* they rank, never push out every reading that holds a syllable: wherever one
\* exists, one is kept.
MixedSurvives ==
  \A v \in 1..vertex :
    \/ \A s \in syllables : s[2] > v
    \/ \E entry \in buckets[v] : HasSyllable(entry.path)
=============================================================================
