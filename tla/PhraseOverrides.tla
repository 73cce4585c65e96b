--------------------------- MODULE PhraseOverrides --------------------------
(***************************************************************************)
(* The phrases that replace the model's choice, in a text file that the    *)
(* front ends share: each keeps them in memory, reads the file when it is  *)
(* activated or asked to, and writes the whole of it when the user stores  *)
(* a phrase or closes the dialog of the fcitx5 addon, which shows a third  *)
(* copy.  The user may also edit the file with a text editor.  A process   *)
(* may end between any two steps of a save.                                *)
(***************************************************************************)
EXTENDS Positions

CONSTANTS
  FrontEnds,
  Addon,       \* the front end with the dialog
  Words, Keys, \* texts and sequences of readings
  Characters,  \* the number of characters of each word
  Readings,    \* the number of readings of each key; 0: not readings at all
  KeyOrder,    \* the keys as std::map orders them
  Absent,
  MaxLines     \* bound on the lines the user writes with a text editor

\* Every key has its place in the order of std::map.
ASSUME KeyOrderAssumption == KeyOrder \in Seq(Keys) /\ \A k \in Keys : \E i \in DOMAIN KeyOrder : KeyOrder[i] = k
ASSUME FrontEndsAssumption == Addon \in FrontEnds /\ "dialog" \notin FrontEnds
ASSUME LinesAssumption == MaxLines \in Nat
\* An absent value is neither text, nor a front end, nor a list or map of phrases.
ASSUME AbsenceAssumption ==
  Absent \notin FrontEnds \cup Words /\ Absent \notin Seq([word : Words, key : Keys])
  /\ Absent \notin [Keys -> Words \cup {Absent}]

VARIABLES
  file,       \* the lines of phrase_overrides.txt; a missing one has none
  temporary,  \* the lines of the save under way in phrase_overrides.txt.tmp
  memory,     \* phrases_ of each front end, Absent for one that is not running
  saving,     \* who saves, how far it is, what it returns to if that fails, what is stored for good,
              \* and whether it started from a fresh copy
  active,     \* the front end that gets the keys
  dialog,     \* the entries that the dialog shows
  fresh,      \* the copies, those of the front ends and the dialog, that nobody has written the
              \* file behind since they were read from it or written to it
  stored      \* what the user stored and has not taken back

phraseVars == <<file, temporary, memory, saving, active, dialog, fresh, stored>>

Lines == [word : Words, key : Keys]
Phrases == [Keys -> Words \cup {Absent}]
NoPhrases == [k \in Keys |-> Absent]
Idle == [by |-> Absent, pc |-> "idle", previous |-> NoPhrases, meant |-> NoPhrases, sound |-> TRUE]

\* Every variable keeps its type: a file is a list of lines, a front end holds one
\* phrase or none for each reading.
PhrasesTypeOK ==
  /\ file \in Seq(Lines) /\ temporary \in Seq(Lines)
  /\ memory \in [FrontEnds -> Phrases \cup {Absent}]
  /\ saving \in [by : FrontEnds \cup {Absent}, pc : {"idle", "open", "write", "rename"},
                 previous : Phrases, meant : Phrases, sound : BOOLEAN]
  /\ active \in FrontEnds \cup {Absent}
  /\ dialog \in Seq(Lines) \cup {Absent}
  /\ fresh \subseteq FrontEnds \cup {"dialog"}
  /\ stored \in Phrases

-----------------------------------------------------------------------------
\* valid_entry(): one character for each of two to eight readings.
Valid(line) == Readings[line.key] \in 2..8 /\ Characters[line.word] = Readings[line.key]

\* load(): lines that are not valid are skipped, the last one of a key counts.
Loaded(lines) ==
  [k \in Keys |->
     LET at == {i \in DOMAIN lines : lines[i].key = k /\ Valid(lines[i])}
     IN  IF at = {} THEN Absent ELSE lines[CHOOSE i \in at : \A j \in at : j <= i].word]

\* entries(), and what save() writes: one line for each phrase.
Entries(phrases) ==
  LET kept == Keep(KeyOrder, {i \in DOMAIN KeyOrder : phrases[KeyOrder[i]] # Absent})
  IN  [i \in DOMAIN kept |-> [word |-> phrases[kept[i]], key |-> kept[i]]]

Running(e) == memory[e] # Absent

PhrasesInit ==
  /\ file = <<>> /\ temporary = <<>>
  /\ memory = [e \in FrontEnds |-> Absent]
  /\ saving = Idle
  /\ active = Absent /\ dialog = Absent
  /\ fresh = {} /\ stored = NoPhrases

-----------------------------------------------------------------------------
(* Reading                                                                  *)

\* load(): a file that is there but cannot be read leaves the phrases alone.
Load(e, readable) ==
  /\ readable \/ file # <<>>
  /\ memory' = [memory EXCEPT ![e] = IF readable THEN Loaded(file) ELSE IF Running(e) THEN @ ELSE NoPhrases]
  /\ fresh' = IF readable THEN fresh \cup {e} ELSE fresh

\* Loading and saving are done by one thread of the front end.
Ready(e) == Running(e) /\ saving.by # e

StartFrontEnd(e, readable) ==
  /\ ~Running(e)
  /\ Load(e, readable)
  /\ UNCHANGED <<file, temporary, saving, active, dialog, stored>>

\* reloadConfig() of fcitx5; on macOS the button of the settings window and the
\* notice of another model.
ReloadPhrases(e, readable) ==
  /\ Ready(e)
  /\ Load(e, readable)
  /\ UNCHANGED <<file, temporary, saving, active, dialog, stored>>

\* Mutant for StoredPhrasesStay: reload_config() without reload_phrase_overrides().
ActivateWithoutLoad(e, readable) ==
  /\ Ready(e) /\ active # e
  /\ active' = e
  /\ fresh' = IF readable THEN fresh \cup {e} ELSE fresh
  /\ UNCHANGED <<file, temporary, memory, saving, dialog, stored>>

\* reload_config() and reloadConfigFromDisk() "so external edits take effect".
ActivateFrontEnd(e, readable) ==
  /\ Ready(e) /\ active # e
  /\ active' = e
  /\ Load(e, readable)
  /\ UNCHANGED <<file, temporary, saving, dialog, stored>>

\* reloadConfigFromDisk() of macOS returns early where there is neither a
\* configuration nor an installed model, before it has come to the phrases.
ActivateUnconfigured(e) ==
  /\ e # Addon /\ Ready(e) /\ active # e
  /\ active' = e
  /\ UNCHANGED <<file, temporary, memory, saving, dialog, fresh, stored>>

-----------------------------------------------------------------------------
(* Writing: the user does one thing at a time                               *)

\* What is meant to be stored once the file is written, and from which copy.
Save(e, phrases, meant, copy) ==
  /\ memory' = [memory EXCEPT ![e] = phrases]
  /\ saving' = [by |-> e, pc |-> "open", previous |-> memory[e], meant |-> meant, sound |-> copy \in fresh]

\* add(), for the text and the readings of a marked range.
Add(line) ==
  /\ active # Absent /\ saving = Idle /\ Valid(line)
  /\ Save(active, [memory[active] EXCEPT ![line.key] = line.word],
          [stored EXCEPT ![line.key] = line.word], active)
  /\ UNCHANGED <<file, temporary, active, dialog, fresh, stored>>

\* getSubConfig()
OpenDialog ==
  /\ Ready(Addon) /\ dialog = Absent
  /\ dialog' = Entries(memory[Addon])
  /\ fresh' = IF Addon \in fresh THEN fresh \cup {"dialog"} ELSE fresh
  /\ UNCHANGED <<file, temporary, memory, saving, active, stored>>

\* The user removes a row, or fills in one more.
Edited == {Keep(dialog, {i \in DOMAIN dialog : dialog[i].key # k}) : k \in Keys}
          \cup {Append(dialog, l) : l \in Lines}

\* The user's word is only on what the rows have otherwise than the dialog showed it.
Confirmed(rows) ==
  [k \in Keys |-> IF Loaded(rows)[k] = Loaded(dialog)[k] THEN stored[k] ELSE Loaded(rows)[k]]

\* setSubConfig() and replace(): an empty list is ignored, a malformed row skipped.
ApplyDialog(rows) ==
  /\ dialog # Absent /\ saving = Idle
  /\ IF rows = <<>> THEN UNCHANGED <<memory, saving>>
     ELSE Save(Addon, Loaded(rows), Confirmed(rows), "dialog")
  /\ dialog' = Absent /\ fresh' = fresh \ {"dialog"}
  /\ UNCHANGED <<file, temporary, active, stored>>

\* A failed save leaves no temporary file and the phrases as they were.
SaveFails ==
  /\ saving # Idle
  /\ memory' = [memory EXCEPT ![saving.by] = saving.previous]
  /\ temporary' = <<>>
  /\ saving' = Idle
  /\ UNCHANGED <<file, active, dialog, fresh, stored>>

OpenTemporary ==
  /\ saving.pc = "open"
  /\ temporary' = <<>>
  /\ saving' = [saving EXCEPT !.pc = "write"]
  /\ UNCHANGED <<file, memory, active, dialog, fresh, stored>>

\* A part of the lines, and then all of them.
WriteLines ==
  /\ saving.pc = "write"
  /\ LET lines == Entries(memory[saving.by])
     IN  \E n \in 0..Len(lines) :
           /\ temporary' = SubSeq(lines, 1, n)
           /\ saving' = [saving EXCEPT !.pc = IF n = Len(lines) THEN "rename" ELSE "write"]
  /\ UNCHANGED <<file, memory, active, dialog, fresh, stored>>

RenameTemporary ==
  /\ saving.pc = "rename"
  /\ file' = temporary /\ temporary' = <<>>
  /\ fresh' = {saving.by}
  /\ stored' = saving.meant
  /\ saving' = Idle
  /\ UNCHANGED <<memory, active, dialog>>

\* The temporary file that a process leaves behind is truncated by the next save.
Crash(e) ==
  /\ Running(e)
  /\ memory' = [memory EXCEPT ![e] = Absent]
  /\ saving' = IF saving.by = e THEN Idle ELSE saving
  /\ active' = IF active = e THEN Absent ELSE active
  /\ dialog' = IF e = Addon THEN Absent ELSE dialog
  /\ fresh' = fresh \ ({e} \cup IF e = Addon THEN {"dialog"} ELSE {})
  /\ temporary' = (IF saving.by = e THEN <<>> ELSE temporary)
  /\ UNCHANGED <<file, stored>>

-----------------------------------------------------------------------------
EditFile(lines) ==
  /\ saving = Idle /\ file # lines
  /\ file' = lines
  /\ fresh' = {}
  /\ stored' = Loaded(lines)
  /\ UNCHANGED <<temporary, memory, saving, active, dialog>>

UserFiles == UNION {[1..n -> Lines] : n \in 0..MaxLines}

PhrasesNext ==
  \/ \E e \in FrontEnds, readable \in BOOLEAN :
       StartFrontEnd(e, readable) \/ ReloadPhrases(e, readable) \/ ActivateFrontEnd(e, readable)
  \/ \E e \in FrontEnds : ActivateUnconfigured(e)
  \/ \E line \in Lines : Add(line)
  \/ OpenDialog
  \/ dialog # Absent /\ \E rows \in Edited : ApplyDialog(rows)
  \/ SaveFails \/ OpenTemporary \/ WriteLines \/ RenameTemporary
  \/ \E e \in FrontEnds : Crash(e)
  \/ \E lines \in UserFiles : EditFile(lines)

PhrasesSpec == PhrasesInit /\ [][PhrasesNext]_phraseVars

-----------------------------------------------------------------------------
(* Properties                                                               *)

\* What the file has to say for a reading is what the user stored for it last.
IsKept(k) == Loaded(file)[k] = stored[k]

\* A phrase that a front end has reported as stored stays in the file until the user
\* takes it back, and none comes back that was taken back or whose save failed,
\* whichever front end stores the next one and wherever a process ends.  The one
\* exception is a save from a copy that is older than the file: of a front end that
\* could not read the file, or has not been activated and reloaded since another
\* program wrote it (on macOS without a configuration no activation reloads), or of
\* a dialog that was open when the file was written.
StoredPhrasesStay ==
  [][<<file, stored>>' # <<file, stored>>
       => \A k \in Keys : IsKept(k) /\ saving.sound => IsKept(k)']_phraseVars
=============================================================================
