-------------------------- MODULE TrainingManager ---------------------------
(***************************************************************************)
(* `llavon-ime-lora-gui`: the window in which the user reviews, trains and *)
(* applies models.  At most one of its processes serves: it holds a lock   *)
(* on gui.lock, whose text names the address, process and build of the     *)
(* holder.  A process of another build takes over from one without a job.  *)
(* The serving process runs one command at a time, in a session of its own *)
(* so that the command outlives it when it crashes.                        *)
(***************************************************************************)
EXTENDS LoraTraining

CONSTANTS
  Managers,
  Build,       \* the build stamp of each process
  MaxCrashes   \* bound on manager processes that crash and leave a job

ASSUME NoneAssumption == None \notin Managers /\ None \notin Clis

ASSUME BuildAssumption == DOMAIN Build = Managers /\ MaxCrashes \in Nat

VARIABLES
  lock,        \* the process that holds the lock
  lockFile,    \* the process that the text of gui.lock names
  manager,     \* position and job of each process
  configured,  \* whether a password protects the conversation data
  active,      \* the run whose model the input method is set to
  crashes      \* processes crashed with a job running, which is then an orphan

mgrVars == <<lock, lockFile, manager, configured, active, crashes>>
vars == <<cliVars, mgrVars>>

NoJob == [running |-> FALSE, pid |-> None]

HoldsLock(m) == manager[m].pc \in {"starting", "serving", "stopping"}

\* With the part of it that gui.lock is there for: one process is past taking it.
TypeOK ==
  /\ CliTypeOK
  /\ lock \in Managers \cup {None} /\ lockFile \in Managers \cup {None}
  /\ manager \in [Managers ->
       [pc : {"none", "refused", "asking", "replacing", "waiting", "starting", "serving",
              "stopping", "gone"},
        job : [running : BOOLEAN, pid : Clis \cup {None}],
        found : Managers \cup {None}, term : BOOLEAN]]
  /\ configured \in BOOLEAN
  /\ active \in Clis \cup {None}
  /\ crashes \in 0..MaxCrashes
  /\ \A m \in Managers : HoldsLock(m) <=> lock = m

NoManager == [pc |-> "none", job |-> NoJob, found |-> None, term |-> FALSE]
Become(m, pc) == manager' = [manager EXCEPT ![m].pc = pc]
Leave(m) == manager' = [manager EXCEPT ![m] = [NoManager EXCEPT !.pc = "gone"]]
Serving(m) == manager[m].pc = "serving" /\ ~manager[m].term

Init ==
  /\ CliInit
  /\ lock = None /\ lockFile = None
  /\ manager = [m \in Managers |-> NoManager]
  /\ configured = FALSE
  /\ active = None
  /\ crashes = 0

-----------------------------------------------------------------------------
(* run(): taking the lock, or taking over from its holder.                  *)

Launch(m) ==
  /\ manager[m].pc = "none"
  /\ IF lock = None THEN lock' = m /\ Become(m, "starting")
                    ELSE UNCHANGED lock /\ Become(m, "refused")
  /\ UNCHANGED <<cliVars, lockFile, configured, active, crashes>>

\* The text may still be that of an earlier holder.  The window of a holder of
\* the same build is opened instead, and there is nothing to open before one
\* has written its address.
ReadLockFile(m) ==
  /\ manager[m].pc = "refused"
  /\ IF lockFile # None /\ Build[lockFile] # Build[m]
     THEN manager' = [manager EXCEPT ![m].pc = "asking", ![m].found = lockFile]
     ELSE Leave(m)
  /\ UNCHANGED <<cliVars, lock, lockFile, configured, active, crashes>>

\* update_job(): collects the process when it has ended.  How it ended is a word
\* on the page.
Updated(m) ==
  LET job == manager[m].job IN
  IF job.pid # None /\ ~Alive(job.pid) THEN NoJob ELSE job

\* GET /api/state of the process named by the text.  One that does not answer
\* in a second, because it has gone or is in a handler, counts as not busy.
Answers(m) == Serving(m) /\ Updated(m).running

AskForJob(m) ==
  /\ manager[m].pc = "asking"
  /\ \/ Answers(manager[m].found) /\ Leave(m)
     \/ Become(m, "replacing")
  /\ UNCHANGED <<cliVars, lock, lockFile, configured, active, crashes>>

Replace(m) ==
  /\ manager[m].pc = "replacing"
  /\ manager' = [manager EXCEPT ![m].pc = "waiting",
                                ![manager[m].found].term = manager[manager[m].found].pc # "gone"]
  /\ UNCHANGED <<cliVars, lock, lockFile, configured, active, crashes>>

\* Mutant for TypeOK: after the wait the lock is taken to be free.
RetryLockAnyway(m) ==
  /\ manager[m].pc = "waiting"
  /\ lock' = m /\ Become(m, "starting")
  /\ UNCHANGED <<cliVars, lockFile, configured, active, crashes>>

RetryLock(m) ==
  /\ manager[m].pc = "waiting"
  /\ \/ lock = None /\ lock' = m /\ Become(m, "starting")
     \/ lock # None /\ UNCHANGED lock /\ Leave(m)
  /\ UNCHANGED <<cliVars, lockFile, configured, active, crashes>>

WriteLockFile(m) ==
  /\ manager[m].pc = "starting"
  /\ lockFile' = m
  /\ Become(m, "serving")
  /\ UNCHANGED <<cliVars, lock, configured, active, crashes>>

-----------------------------------------------------------------------------
(* The job.                                                                 *)

\* start_job() throws while there is a process, and afterwards when the pipe or
\* the process cannot be made: the job then runs without a process.
StartJob(m, c) ==
  \/ /\ Updated(m).pid # None
     /\ UNCHANGED <<manager, cli>>
  \/ /\ Updated(m).pid = None
     /\ \/ /\ manager' = [manager EXCEPT ![m].job =
                            [running |-> TRUE, pid |-> c]]
           /\ cli' = [cli EXCEPT ![c] = Begin]
        \/ /\ manager' = [manager EXCEPT ![m].job =
                            [running |-> TRUE, pid |-> None]]
           /\ UNCHANGED cli

\* The page asks for the pending ids and sends them when the user has confirmed:
\* by then any of them may have another state.  They are written to the one
\* selection file before start_job() refuses a second job.
PageIds == SUBSET {r \in Records : record[r] # "absent"} \ {{}}

StartTraining(m, c) ==
  /\ Serving(m) /\ cli[c].pc = "none"
  /\ selection' \in PageIds
  /\ StartJob(m, c)
  /\ UNCHANGED <<record, runs, dataset, model, lock, lockFile, configured, active, crashes>>

CollectJob(m) ==
  /\ manager[m].pc \in {"serving", "stopping"} /\ Updated(m) # manager[m].job
  /\ manager' = [manager EXCEPT ![m].job = Updated(m)]
  /\ UNCHANGED <<cliVars, lock, lockFile, configured, active, crashes>>

Cancel(m) ==
  /\ Serving(m) /\ Updated(m).pid # None
  /\ cli' = [cli EXCEPT ![manager[m].job.pid].signal = TRUE]
  /\ UNCHANGED <<record, runs, dataset, model, selection, mgrVars>>

-----------------------------------------------------------------------------
(* The conversation data.                                                   *)

NoReadableDatasets == dataset' = [c \in Clis |-> "none"]

\* unlock_review() removes what a killed training may have left readable.
UnlockReview(m) ==
  /\ Serving(m) /\ configured
  /\ NoReadableDatasets
  /\ UNCHANGED <<record, runs, cli, model, selection, mgrVars>>

ConfigurePassword(m) ==
  /\ Serving(m) /\ ~configured
  /\ configured' = TRUE
  /\ NoReadableDatasets
  /\ UNCHANGED <<record, runs, cli, model, selection, lock, lockFile, manager, active, crashes>>

Forgotten == [r \in Records |-> IF record[r] = "absent" THEN "absent" ELSE "removed"]

ForgetConversationData(m) ==
  /\ Serving(m) /\ manager[m].job.pid = None
  /\ record' = Forgotten
  /\ configured' = FALSE
  /\ NoReadableDatasets
  /\ UNCHANGED <<runs, cli, model, selection, lock, lockFile, manager, active, crashes>>

ChangeRecord(m, r) == Serving(m) /\ ChangeState(r) /\ UNCHANGED mgrVars

\* Mutant for ActiveModelExists: every older model goes, whichever was applied.
PrunedAlways(applied) ==
  [c \in Clis |-> model[c] /\ (runs[Len(runs)].cli = c \/ \A i \in DOMAIN runs : runs[i].cli # c)]

\* use_model() and then prune_obsolete_models(): applying the newest model
\* removes those of the older runs.
Pruned(applied) ==
  IF runs # <<>> /\ runs[Len(runs)].cli = applied
  THEN [c \in Clis |-> model[c] /\ (c = applied \/ \A i \in DOMAIN runs : runs[i].cli # c)]
  ELSE model

UseModel(m, i) ==
  /\ Serving(m) /\ Updated(m).pid = None
  /\ i \in DOMAIN runs /\ model[runs[i].cli]
  /\ active' = runs[i].cli
  /\ model' = Pruned(runs[i].cli)
  /\ manager' = [manager EXCEPT ![m].job = Updated(m)]
  /\ UNCHANGED <<record, runs, cli, dataset, selection, lock, lockFile, configured, crashes>>

-----------------------------------------------------------------------------
(* The end of a process.                                                    *)

\* SIGTERM, or no page has asked for anything while there was no job.
StopServing(m) ==
  /\ manager[m].pc = "serving"
  /\ manager[m].term \/ Updated(m).pid = None
  /\ Become(m, "stopping")
  /\ cli' = IF Updated(m).pid = None THEN cli
            ELSE [cli EXCEPT ![manager[m].job.pid].signal = TRUE]
  /\ UNCHANGED <<record, runs, dataset, model, selection, lock, lockFile, configured, active, crashes>>

\* Mutant for NewestKnowsTrained: the job is left to itself.
ExitLeavingJob(m) ==
  /\ manager[m].pc = "stopping"
  /\ Leave(m)
  /\ lock' = None
  /\ UNCHANGED <<cliVars, lockFile, configured, active, crashes>>

\* A job that has not ended two seconds later is killed.
Exit(m) ==
  /\ manager[m].pc = "stopping"
  /\ Leave(m)
  /\ lock' = None
  /\ cli' = IF Updated(m).pid = None THEN cli
            ELSE [cli EXCEPT ![manager[m].job.pid] = [NoProcess EXCEPT !.pc = "killed"]]
  /\ UNCHANGED <<record, runs, dataset, model, selection, lockFile, configured, active, crashes>>

Orphaning(m) == manager[m].job.pid # None

Crash(m) ==
  /\ lock = m
  /\ Orphaning(m) => crashes < MaxCrashes
  /\ Leave(m)
  /\ lock' = None
  /\ crashes' = IF Orphaning(m) THEN crashes + 1 ELSE crashes
  /\ UNCHANGED <<cliVars, lockFile, configured, active>>

-----------------------------------------------------------------------------
ManagerStep(m) ==
  \/ Launch(m) \/ ReadLockFile(m) \/ AskForJob(m) \/ Replace(m) \/ RetryLock(m) \/ WriteLockFile(m)
  \/ \E c \in Clis : StartTraining(m, c)
  \/ CollectJob(m) \/ Cancel(m)
  \/ UnlockReview(m) \/ ConfigurePassword(m) \/ ForgetConversationData(m)
  \/ \E r \in Records : ChangeRecord(m, r)
  \/ \E i \in DOMAIN runs : UseModel(m, i)
  \/ StopServing(m) \/ Exit(m) \/ Crash(m)

Next ==
  \/ \E m \in Managers : ManagerStep(m)
  \/ \E c \in Clis : CliStep(c) /\ UNCHANGED mgrVars
  \/ \E r \in Records : StoreRecord(r) /\ UNCHANGED mgrVars

Spec == Init /\ [][Next]_vars

-----------------------------------------------------------------------------
\* A record is taught by at most one run, and it is marked as trained only when
\* a run did, whatever was deleted, excluded, forgotten or trained meanwhile.
TrainedByOneRun ==
  /\ \A i, j \in DOMAIN runs : i # j => runs[i].ids \cap runs[j].ids = {}
  /\ \A r \in Records : record[r] = "trained" => \E i \in DOMAIN runs : r \in runs[i].ids

\* The model that the input method is set to is a file that exists.
ActiveModelExists == active # None => model[active]

\* Readable text is on the disk only while a training runs or after one was
\* killed, and none of it after a process has ended by itself.
ReadableWhileRunning ==
  \A c \in Clis : dataset[c] # "none" => cli[c].pc \in {"writing", "killed"} \cup Trying

\* Unless a manager has crashed with a job, its job is the only training: the newest
\* adapter knows all that is marked as trained.
NewestKnowsTrained ==
  crashes = 0 =>
    \A r \in Records : record[r] = "trained" => r \in KnownTo(Len(runs))

\* lora_gui.cpp:1338 "A training run only needs its readable dataset while it
\* runs": a training that still needs its dataset has it.
TrainingKeepsItsDataset ==
  \A c \in Clis : cli[c].pc \in {"validate", "train"} => dataset[c] = "full"
=============================================================================
