---------------------------- MODULE LoraTraining ----------------------------
(***************************************************************************)
(* `llavon-ime-lora train`: what one training process does to the          *)
(* conversation database and to its run directory, step by step, so that   *)
(* other processes, a failing tool or a signal can come in between.  A run *)
(* directory belongs to one process and has its name.                      *)
(***************************************************************************)
EXTENDS Naturals, Sequences, FiniteSets

CONSTANTS
  Clis,     \* the command-line processes
  Records,  \* ids of commits: an id is never used twice
  None

VARIABLES
  record,   \* of each commit: "absent" before it is stored, then its state column,
            \* "removed" once it is excluded or deleted: it is never pending again
  runs,     \* the table lora_runs
  cli,      \* what each process has got to and holds in memory
  dataset,  \* training.jsonl of each run directory
  model,    \* whether a run directory holds personalized-Q4_K_M.gguf
  selection \* gui-selected-ids.json: one file for whichever training reads it

cliVars == <<record, runs, cli, dataset, model, selection>>

\* Program positions of train(), in order, and the ways a process ends.
Ended == {"exited", "killed"}
\* Inside the try block that removes the dataset when a tool fails.
Trying == {"validate", "train", "export"}
Alive(c) == cli[c].pc \notin Ended \cup {"none"}

NoProcess == [pc |-> "none", selected |-> {}, included |-> {},
              resumed |-> 0, signal |-> FALSE]

\* The part of TypeOK about the training processes.
CliTypeOK ==
  /\ record \in [Records -> {"absent", "pending", "trained", "removed"}]
  /\ runs \in Seq([cli : Clis, ids : SUBSET Records, resumed : Nat])
  /\ cli \in [Clis -> [pc : {"none", "select", "dataset", "writing", "publish"}
                              \cup Trying \cup Ended,
                       selected : SUBSET Records, included : SUBSET Records,
                       resumed : Nat, signal : BOOLEAN]]
  /\ dataset \in [Clis -> {"none", "partial", "full"}]
  /\ model \in [Clis -> BOOLEAN]
  /\ selection \in SUBSET Records

CliInit ==
  /\ record = [r \in Records |-> "absent"]
  /\ runs = <<>>
  /\ cli = [c \in Clis |-> NoProcess]
  /\ dataset = [c \in Clis |-> "none"]
  /\ model = [c \in Clis |-> FALSE]
  /\ selection = {}

\* The options and the parameters of the previous run are checked before the
\* selection is read: what is refused there is a Fail in the first position.
Begin == [NoProcess EXCEPT !.pc = "select"]

Goto(c, pc) == cli' = [cli EXCEPT ![c].pc = pc]
End(c, how) == cli' = [cli EXCEPT ![c] = [NoProcess EXCEPT !.pc = how]]

-----------------------------------------------------------------------------
\* The file with the selection also names the records that were reviewed, at
\* least the selected ones: the others that are still pending are excluded in
\* one transaction.
SelectRecords(c) ==
  /\ cli[c].pc = "select"
  /\ \E reviewed \in {set \in SUBSET Records : selection \subseteq set} :
       record' = [r \in Records |->
                    IF r \in reviewed \ selection /\ record[r] = "pending"
                    THEN "removed" ELSE record[r]]
  /\ cli' = [cli EXCEPT ![c].pc = "dataset", ![c].selected = selection]
  /\ UNCHANGED <<runs, dataset, model, selection>>

\* A row that does not fit the tables or the sequence length is skipped.
Fitting(ids) == SUBSET ids

Includable(c) == {r \in cli[c].selected : record[r] = "pending"}

\* write_numeric_dataset() reads the pending rows and writes the partial file,
OpenDataset(c) ==
  /\ cli[c].pc = "dataset"
  /\ \E ids \in Fitting(Includable(c)) :
       cli' = [cli EXCEPT ![c].pc = "writing", ![c].included = ids]
  /\ dataset' = [dataset EXCEPT ![c] = "partial"]
  /\ UNCHANGED <<record, runs, model, selection>>

\* and renames it, or removes it when nothing can be trained on.
CloseDataset(c) ==
  /\ cli[c].pc = "writing"
  /\ IF cli[c].included # {} /\ dataset[c] = "partial"
     THEN /\ dataset' = [dataset EXCEPT ![c] = "full"]
          /\ Goto(c, "validate")
     ELSE /\ dataset' = [dataset EXCEPT ![c] = "none"]
          /\ End(c, "exited")
  /\ UNCHANGED <<record, runs, model, selection>>

\* Mutant for ReadableWhileRunning: the file stays after the run.
KeepDataset(c) == UNCHANGED dataset

DiscardDataset(c) == dataset' = [dataset EXCEPT ![c] = "none"]

\* The trainer opens the dataset by its name for each of its two commands.
Validate(c) ==
  /\ cli[c].pc = "validate" /\ dataset[c] = "full"
  /\ Goto(c, "train")
  /\ UNCHANGED <<record, runs, dataset, model, selection>>

\* The adapter to continue from is that of the newest run.
Train(c) ==
  /\ cli[c].pc = "train" /\ dataset[c] = "full"
  /\ cli' = [cli EXCEPT ![c].pc = "export", ![c].resumed = Len(runs)]
  /\ UNCHANGED <<record, runs, dataset, model, selection>>

Export(c) ==
  /\ cli[c].pc = "export"
  /\ model' = [model EXCEPT ![c] = TRUE]
  /\ DiscardDataset(c)
  /\ Goto(c, "publish")
  /\ UNCHANGED <<record, runs, selection>>

\* A tool fails, a file is missing: the exception leaves the process.
Fail(c) ==
  /\ Alive(c)
  /\ End(c, "exited")
  /\ IF cli[c].pc \in Trying \cup {"writing"} THEN DiscardDataset(c) ELSE UNCHANGED dataset
  /\ UNCHANGED <<record, runs, model, selection>>

\* publish_run(): one transaction, refused when a record has been deleted or
\* excluded meanwhile.  The parent it notes for the page is left out.
\* Mutant for TrainedByOneRun: one record that is still pending is enough.
SomeStillPending(c) == \E r \in cli[c].included : record[r] = "pending"

AllStillPending(c) == \A r \in cli[c].included : record[r] = "pending"

Publish(c) ==
  /\ cli[c].pc = "publish"
  /\ AllStillPending(c)
  /\ record' = [r \in Records |-> IF r \in cli[c].included THEN "trained" ELSE record[r]]
  /\ runs' = Append(runs, [cli |-> c, ids |-> cli[c].included, resumed |-> cli[c].resumed])
  /\ End(c, "exited")
  /\ UNCHANGED <<dataset, model, selection>>

\* The process does not handle SIGTERM: its files stay as they are.
DieBySignal(c) ==
  /\ Alive(c) /\ cli[c].signal
  /\ End(c, "killed")
  /\ UNCHANGED <<record, runs, dataset, model, selection>>

CliStep(c) ==
  \/ SelectRecords(c) \/ OpenDataset(c) \/ CloseDataset(c) \/ Validate(c) \/ Train(c)
  \/ Export(c) \/ Fail(c) \/ Publish(c) \/ DieBySignal(c)

\* The input method stores a new commit; `exclude` and `delete` of the tool.
StoreRecord(r) ==
  /\ record[r] = "absent"
  /\ record' = [record EXCEPT ![r] = "pending"]
  /\ UNCHANGED <<runs, cli, dataset, model, selection>>

ChangeState(r) ==
  /\ record[r] = "pending"
  /\ record' = [record EXCEPT ![r] = "removed"]
  /\ UNCHANGED <<runs, cli, dataset, model, selection>>

\* Sets of runs that hold i and, with a run, the one its adapter was continued from
\* (0 is none): what is in all of them is the line of runs behind i.
Lineages(i) ==
  {S \in SUBSET (0..Len(runs)) : i \in S /\ \A j \in S \ {0} : runs[j].resumed \in S}

\* What training has taught the adapter of run i: its own records and those of
\* the runs it was continued from.
KnownTo(i) == {r \in Records : \A S \in Lineages(i) : \E j \in S \ {0} : r \in runs[j].ids}
=============================================================================
