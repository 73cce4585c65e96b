------------------------------ MODULE MCParts -------------------------------
(***************************************************************************)
(* The machines that share no state with one another, side by side: a     *)
(* behaviour is one of any single one of them, the others stay where they  *)
(* start, so the state space is the sum of theirs.                         *)
(***************************************************************************)
EXTENDS Naturals, Editing, MixedDecoder, Sampling, ServiceEndpoint, Downloads, PhraseOverrides, WireProtocol

CONSTANTS c1, c2, v1, v2

VARIABLE part

\* One set of choices that only Bopomofo has, and one with smart English.
OnlyBopomofo == [smart |-> FALSE, escClears |-> TRUE, spaceSelects |-> FALSE, moveCaret |-> TRUE,
                 after |-> FALSE, capsBopomofo |-> FALSE, directLetters |-> FALSE, hsu |-> TRUE,
                 pageSize |-> 2]
SmartEnglish == [smart |-> TRUE, escClears |-> FALSE, spaceSelects |-> TRUE, moveCaret |-> FALSE,
                 after |-> TRUE, capsBopomofo |-> TRUE, directLetters |-> TRUE, hsu |-> FALSE,
                 pageSize |-> 3]
TwoSettings == {OnlyBopomofo, SmartEnglish}
ShortAndLong == {1, 3}
ThreeThenOne == [top |-> 3, category |-> 1]

\* Words, numbers, identifiers, a path, a domain, an address and a URL.
SomeRaws == {<<"a", "1">>, <<"a", "a", "1">>, <<"a", "a", "a", "1">>, <<"a", "_", "1">>,
           <<"1", ".", "1">>, <<"/", "a", "/", "1">>, <<"a", ".", "a", "a", "1">>,
           <<"a", "@", "a", ".", "a", "a">>, <<"a", ":", "/", "/", "a", "/", "1">>}

\* Sampling: two widgets, one of them a password's.
TwoWidgets == {c1, c2}
OnePassword == {c2}

\* Downloads
TwoRevisions == {v1, v2}
TwoLibraries == {"libtorch.so", "libc10.so"}

\* PhraseOverrides: two front ends; texts of two and three characters, each of another
\* length than one of the readings they are written beside.
TwoFrontEnds == {"addon", "native"}
TwoWords == {"two", "three"}
WordLengths == [two |-> 2, three |-> 3]
TwoKeys == {"ab", "abc"}
KeyLengths == [ab |-> 2, abc |-> 3]
TwoKeysInOrder == <<"ab", "abc">>

\* ServiceEndpoint: three services that want one socket path.
ThreeServices == 1..3

\* Messages at both sides of every limit that short lists reach: texts by their number
\* of units, scalars below, in and above the surrogates.
TextOf(n) == [units |-> n, valid |-> TRUE]
Unpaired == [units |-> 1, valid |-> FALSE]
Reading(n) == [chosen |-> FALSE, character |-> 0, reading |-> TextOf(n)]
Pinned(c) == [chosen |-> TRUE, character |-> c, reading |-> TextOf(0)]
EntryOf(n, c, manual) == [reading |-> TextOf(n), character |-> c, manual |-> manual, literal |-> n = 0]
Messages ==
  [kind : {"OpenSession", "Shutdown"}]
  \cup [kind : {"Predict"}, session : {"zero", "id1"}, request : {0, 1}, revision : {5},
        context : {TextOf(0), TextOf(65536), TextOf(65537), Unpaired},
        padding : {<<>>, <<Reading(0)>>, <<Reading(4096), Pinned(20320)>>, <<Pinned(0)>>,
                   <<Pinned(20320), Reading(4097)>>}]
  \cup [kind : {"CloseSession"}, session : {"zero", "id1"}]
  \cup [kind : {"Status"}, about : {{}, {"id1"}}]
  \cup [kind : {"RecordCommit"}, event : {"zero", "id1"}, source : {"zero", "id2"},
        context : {TextOf(0), TextOf(4096), TextOf(4097)}, answer : {TextOf(0), TextOf(1024), TextOf(1025), Unpaired},
        entries : {<<>>, <<EntryOf(0, 65, FALSE)>>, <<EntryOf(64, 20320, TRUE), EntryOf(0, 65, FALSE)>>,
                   <<EntryOf(65, 20320, FALSE)>>, <<EntryOf(2, 55296, FALSE)>>}]
  \cup [kind : {"DiscardCommit"}, event : {"zero", "id1"}]
ThreeIds == {"zero", "id1", "id2"}
SomeErrors == {TextOf(0), TextOf(24), Unpaired}
SomeCandidates == {<<>>, <<<<20320>>>>, <<<<20320, 22909>>, <<>>>>, <<<<65>>, <<20320, 22909>>>>}

partsVars == <<part, editorVars, decoderVars, vars, downloadVars, phraseVars, endpointVars, wireVars>>

\* Only the machine that moves starts in each of its initial states.
PartsInit ==
  /\ part \in {"editing", "decoding", "sampling", "fetching", "installing", "pinning", "serving", "exchanging"}
  /\ EditingInit /\ (part = "editing" \/ config = OnlyBopomofo)
  /\ DecodingInit /\ (part = "decoding" \/ <<raw, known, syllables, closers>> = <<<<"a", "1">>, 2, {}, {}>>)
  /\ Init
  /\ DownloadsInit
  /\ PhrasesInit
  /\ EndpointInit
  /\ WireInit
  /\ part \in {"fetching", "installing"} \/ (remote.revision = v1 /\ Removed)

EditorMoves ==
  /\ part = "editing" /\ EditingNext
  /\ UNCHANGED <<part, decoderVars, vars, downloadVars, phraseVars, endpointVars, wireVars>>
DecoderMoves ==
  /\ part = "decoding" /\ DecodingNext
  /\ UNCHANGED <<part, editorVars, vars, downloadVars, phraseVars, endpointVars, wireVars>>
SamplerMoves ==
  /\ part = "sampling" /\ Next
  /\ UNCHANGED <<part, editorVars, decoderVars, downloadVars, phraseVars, endpointVars, wireVars>>
\* The model and the trainer have no file in common, and one job runs at a time.
LoaderMoves ==
  /\ \/ part = "fetching" /\ DownloadsNext /\ job'.kind # "install"
     \/ part = "installing" /\ DownloadsNext /\ job'.kind # "fetch"
  /\ UNCHANGED <<part, editorVars, decoderVars, vars, phraseVars, endpointVars, wireVars>>
StoreMoves ==
  /\ part = "pinning" /\ PhrasesNext
  /\ UNCHANGED <<part, editorVars, decoderVars, vars, downloadVars, endpointVars, wireVars>>
ServerMoves ==
  /\ part = "serving" /\ EndpointNext
  /\ UNCHANGED <<part, editorVars, decoderVars, vars, downloadVars, phraseVars, wireVars>>

WireMoves ==
  /\ part = "exchanging" /\ WireNext
  /\ UNCHANGED <<part, editorVars, decoderVars, vars, downloadVars, phraseVars, endpointVars>>

PartsNext ==
  EditorMoves \/ DecoderMoves \/ SamplerMoves \/ LoaderMoves \/ StoreMoves \/ ServerMoves \/ WireMoves

PartsSpec == PartsInit /\ [][PartsNext]_partsVars

\* The properties of each machine hold also where it has not moved, and the modules state
\* them in full.  Here, every variable of the machine that moves has its type.
PartsTypeOK ==
  CASE part = "editing"  -> EditingTypeOK
    [] part = "decoding" -> DecodingTypeOK
    [] part = "sampling" -> TypeOK
    [] part \in {"fetching", "installing"} -> DownloadsTypeOK
    [] part = "pinning"  -> PhrasesTypeOK
    [] part = "serving"  -> EndpointTypeOK
    [] part = "exchanging" -> WireTypeOK

=============================================================================
