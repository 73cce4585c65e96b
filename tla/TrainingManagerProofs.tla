------------------------ MODULE TrainingManagerProofs -----------------------
(***************************************************************************)
(* The properties of TrainingManager for any number of windows, trainings, *)
(* records and crashes.                                                    *)
(***************************************************************************)
EXTENDS TrainingManager, PositionsProofs

Pcs == {"none", "select", "dataset", "writing", "publish"} \cup Trying \cup Ended
Process == [pc : Pcs, selected : SUBSET Records, included : SUBSET Records,
            resumed : Nat, signal : BOOLEAN]
Window == [pc : {"none", "refused", "asking", "replacing", "waiting", "starting", "serving",
                 "stopping", "gone"},
           job : [running : BOOLEAN, pid : Clis \cup {None}],
           found : Managers \cup {None}, term : BOOLEAN]
Run == [cli : Clis, ids : SUBSET Records, resumed : Nat]

\* What a run has taught is never pending again, so that no other run can publish it.
PublishedIsSettled ==
  \A i \in DOMAIN runs : \A r \in runs[i].ids : record[r] \in {"trained", "removed"}

\* A window has a process only while it holds the lock.
JobsAreServed ==
  \A m \in Managers : manager[m].job.pid # None => manager[m].pc \in {"serving", "stopping"}

\* Without an orphan, whatever runs is the job of the window that holds the lock.
OneTraining ==
  crashes = 0 =>
    \A c \in Clis : Alive(c) => lock # None /\ manager[lock].job.pid = c

\* Without an orphan, each run was continued from the one before it, and the
\* running training is about to continue the newest.
RunsAreChained ==
  crashes = 0 =>
    /\ \A i \in DOMAIN runs : runs[i].resumed = i - 1
    /\ \A c \in Clis : cli[c].pc \in {"export", "publish"} => cli[c].resumed = Len(runs)

Inv ==
  /\ TypeOK /\ TrainedByOneRun /\ PublishedIsSettled /\ ActiveModelExists /\ ReadableWhileRunning
  /\ JobsAreServed /\ OneTraining /\ RunsAreChained

-----------------------------------------------------------------------------
(* Types *)

LEMMA TypesApart == None \notin Managers /\ None \notin Clis /\ MaxCrashes \in Nat
BY NoneAssumption, BuildAssumption

\* Records of the two kinds that a step puts into cli and manager.
LEMMA NewRecords ==
  /\ NoProcess \in Process /\ Begin \in Process
  /\ \A how \in Pcs : [NoProcess EXCEPT !.pc = how] \in Process
  /\ NoManager \in Window /\ [NoManager EXCEPT !.pc = "gone"] \in Window
  /\ NoJob \in [running : BOOLEAN, pid : Clis \cup {None}]
BY DEF NoProcess, Begin, Process, Pcs, Trying, Ended, NoManager, NoJob, Window

\* A process that goes on, with what it has read.
LEMMA NewPositions ==
  ASSUME NEW p \in Process, NEW pc \in Pcs, NEW ids \in SUBSET Records, NEW n \in Nat
  PROVE  /\ [p EXCEPT !.pc = pc] \in Process
         /\ [p EXCEPT !.pc = pc, !.selected = ids] \in Process
         /\ [p EXCEPT !.pc = pc, !.included = ids] \in Process
         /\ [p EXCEPT !.pc = pc, !.resumed = n] \in Process
         /\ [p EXCEPT !.signal = TRUE] \in Process
BY DEF Process

LEMMA InitInv == Init => Inv
<1> SUFFICES ASSUME Init PROVE Inv
  OBVIOUS
<1> USE DEF Init, CliInit
<1>1. TypeOK
  <2>1. runs \in Seq([cli : Clis, ids : SUBSET Records, resumed : Nat]) /\ crashes \in 0..MaxCrashes
    BY TypesApart
  <2>2. cli \in [Clis -> Process] /\ manager \in [Managers -> Window]
    BY NewRecords
  <2>3. \A m \in Managers : HoldsLock(m) <=> lock = m
    BY TypesApart DEF HoldsLock, NoManager
  <2> HIDE DEF Init, CliInit
  <2>4. CliTypeOK
    BY <2>1, <2>2 DEF Init, CliInit, CliTypeOK, Process, Pcs, Trying, Ended
  <2> QED
    BY <2>1, <2>2, <2>3, <2>4 DEF Init, TypeOK, Window
<1>2. \A c \in Clis : ~Alive(c) /\ cli[c].pc = "none"
  BY DEF Alive, NoProcess
<1> QED
  BY <1>1, <1>2 DEF Inv, TrainedByOneRun, PublishedIsSettled, ActiveModelExists, ReadableWhileRunning,
     JobsAreServed, OneTraining, RunsAreChained, NoManager, NoJob

\* The steps of a training keep its types.
LEMMA CliTypes ==
  ASSUME TypeOK, NEW c \in Clis, CliStep(c), UNCHANGED mgrVars
  PROVE  TypeOK'
<1>1. UNCHANGED <<lock, lockFile, manager, configured, active, crashes>>
  BY DEF mgrVars
<1>2. \A m \in Managers : HoldsLock(m)' <=> lock' = m
  BY <1>1 DEF HoldsLock, TypeOK
<1>3. cli' \in [Clis -> Process]
  <2> cli \in [Clis -> Process] /\ selection \in SUBSET Records /\ runs \in Seq(Run)
    BY DEF TypeOK, CliTypeOK, Process, Pcs, Run
  <2> {"select", "dataset", "writing", "validate", "train", "export", "publish", "exited", "killed"} \subseteq Pcs
    BY DEF Pcs, Trying, Ended
  <2>1. CASE SelectRecords(c)
    BY <2>1, NewPositions DEF SelectRecords
  <2>2. CASE OpenDataset(c)
    <3> PICK ids \in SUBSET Includable(c) : cli' = [cli EXCEPT ![c].pc = "writing", ![c].included = ids]
      BY <2>2 DEF OpenDataset, Fitting
    <3> ids \in SUBSET Records
      BY DEF Includable, Process
    <3> QED BY NewPositions
  <2>3. CASE Train(c)
    <3> Len(runs) \in Nat
      OBVIOUS
    <3> QED BY <2>3, NewPositions DEF Train
  <2>4. CASE CloseDataset(c) \/ Validate(c) \/ Export(c)
    <3>1. ASSUME NEW pc \in Pcs, Goto(c, pc) PROVE cli' \in [Clis -> Process]
      BY <3>1, NewPositions DEF Goto
    <3>2. ASSUME NEW how \in Pcs, End(c, how) PROVE cli' \in [Clis -> Process]
      BY <3>2, NewRecords DEF End
    <3> QED BY <2>4, <3>1, <3>2 DEF CloseDataset, Validate, Export
  <2>5. CASE Fail(c) \/ Publish(c) \/ DieBySignal(c)
    BY <2>5, NewRecords DEF Fail, Publish, DieBySignal, End
  <2> QED
    BY <2>1, <2>2, <2>3, <2>4, <2>5 DEF CliStep
<1>4. record' \in [Records -> {"absent", "pending", "trained", "removed"}]
  BY DEF CliStep, SelectRecords, OpenDataset, CloseDataset, Validate, Train, Export, Fail, Publish, DieBySignal,
     TypeOK, CliTypeOK
<1>5. runs' \in Seq([cli : Clis, ids : SUBSET Records, resumed : Nat])
  <2>1. cli[c].included \in SUBSET Records /\ cli[c].resumed \in Nat
    BY DEF TypeOK, CliTypeOK
  <2>2. [cli |-> c, ids |-> cli[c].included, resumed |-> cli[c].resumed] \in Run
    BY <2>1 DEF Run
  <2>3. runs \in Seq(Run)
    BY DEF TypeOK, CliTypeOK, Run
  <2>4. runs' \in {runs, Append(runs, [cli |-> c, ids |-> cli[c].included, resumed |-> cli[c].resumed])}
    BY DEF CliStep, SelectRecords, OpenDataset, CloseDataset, Validate, Train, Export, Fail, Publish, DieBySignal
  <2>5. runs' \in Seq(Run)
    BY <2>2, <2>3, <2>4
  <2> QED
    BY <2>5 DEF Run
<1>6. dataset' \in [Clis -> {"none", "partial", "full"}] /\ model' \in [Clis -> BOOLEAN]
  BY DEF CliStep, SelectRecords, OpenDataset, CloseDataset, Validate, Train, Export, Fail, Publish, DieBySignal,
     DiscardDataset, TypeOK, CliTypeOK
<1>7. selection' = selection
  BY DEF CliStep, SelectRecords, OpenDataset, CloseDataset, Validate, Train, Export, Fail, Publish, DieBySignal
<1>8. CliTypeOK'
  BY <1>3, <1>4, <1>5, <1>6, <1>7 DEF TypeOK, CliTypeOK, Process, Pcs
<1> QED
  BY <1>1, <1>2, <1>8 DEF TypeOK

\* What a step of a window does to windows.
LEMMA NewWindows ==
  ASSUME NEW w \in Window
  PROVE  /\ \A pc \in {"refused", "asking", "replacing", "waiting", "starting", "serving", "stopping"} :
              /\ [w EXCEPT !.pc = pc] \in Window
              /\ \A n \in Managers \cup {None} : [w EXCEPT !.pc = pc, !.found = n] \in Window
         /\ \A b \in BOOLEAN : [w EXCEPT !.term = b] \in Window
         /\ \A j \in [running : BOOLEAN, pid : Clis \cup {None}] : [w EXCEPT !.job = j] \in Window
BY DEF Window

LEMMA UpdatedType ==
  ASSUME manager \in [Managers -> Window], NEW m \in Managers
  PROVE  Updated(m) \in [running : BOOLEAN, pid : Clis \cup {None}]
BY NewRecords DEF Updated, Window

LEMMA WindowTypes ==
  ASSUME manager \in [Managers -> Window], lockFile \in Managers \cup {None}, NEW m \in Managers, ManagerStep(m)
  PROVE  manager' \in [Managers -> Window]
<1> DEFINE Job == [running : BOOLEAN, pid : Clis \cup {None}]
<1>1. ASSUME NEW pc \in {"refused", "asking", "replacing", "waiting", "starting", "serving", "stopping"}, Become(m, pc)
      PROVE  manager' \in [Managers -> Window]
  BY <1>1, NewWindows DEF Become
<1>2. ASSUME Leave(m) PROVE manager' \in [Managers -> Window]
  BY <1>2, NewRecords DEF Leave
<1>3. ASSUME NEW j \in Job, manager' = [manager EXCEPT ![m].job = j] PROVE manager' \in [Managers -> Window]
  BY <1>3, NewWindows
<1>4. CASE Launch(m) \/ AskForJob(m) \/ RetryLock(m) \/ WriteLockFile(m) \/ StopServing(m) \/ Exit(m) \/ Crash(m)
  BY <1>4, <1>1, <1>2 DEF Launch, AskForJob, RetryLock, WriteLockFile, StopServing, Exit, Crash
<1>5. CASE ReadLockFile(m)
  <2>1. CASE Leave(m)
    BY <2>1, <1>2
  <2>2. CASE lockFile # None /\ manager' = [manager EXCEPT ![m].pc = "asking", ![m].found = lockFile]
    BY <2>2, NewWindows
  <2> QED BY <1>5, <2>1, <2>2 DEF ReadLockFile
<1>6. CASE Replace(m)
  <2> DEFINE w1 == [manager EXCEPT ![m].pc = "waiting"]
             f == manager[m].found
             b == manager[f].pc # "gone"
  <2>1. w1 \in [Managers -> Window]
    BY NewWindows
  <2>2. manager' = [w1 EXCEPT ![f].term = b] /\ b \in BOOLEAN
    BY <1>6 DEF Replace
  <2> HIDE DEF w1, f, b
  <2> QED BY <2>1, <2>2, NewWindows
<1>7. CASE \E c \in Clis : StartTraining(m, c)
  <2> PICK c \in Clis : StartJob(m, c)
    BY <1>7 DEF StartTraining
  <2>1. \A pid \in Clis \cup {None} : [running |-> TRUE, pid |-> pid] \in Job
    OBVIOUS
  <2> QED BY <2>1, <1>3 DEF StartJob
<1>8. CASE CollectJob(m) \/ \E i \in DOMAIN runs : UseModel(m, i)
  BY <1>8, <1>3, UpdatedType DEF CollectJob, UseModel
<1>9. CASE Cancel(m) \/ UnlockReview(m) \/ ConfigurePassword(m) \/ ForgetConversationData(m)
           \/ \E r \in Records : ChangeRecord(m, r)
  BY <1>9 DEF Cancel, UnlockReview, ConfigurePassword, ForgetConversationData, ChangeRecord, mgrVars
<1> QED
  BY <1>4, <1>5, <1>6, <1>7, <1>8, <1>9 DEF ManagerStep

\* The step of a window leaves the position and the job of the others as they are.
LEMMA OthersStay ==
  ASSUME manager \in [Managers -> Window], NEW m \in Managers, ManagerStep(m), NEW n \in Managers \ {m}
  PROVE  manager'[n].pc = manager[n].pc /\ manager'[n].job = manager[n].job
<1>1. CASE Replace(m)
  <2> DEFINE w1 == [manager EXCEPT ![m].pc = "waiting"]
             f == manager[m].found
             b == manager[f].pc # "gone"
  <2>1. w1 \in [Managers -> Window] /\ w1[n] = manager[n]
    BY NewWindows
  <2>2. manager' = [w1 EXCEPT ![f].term = b]
    BY <1>1 DEF Replace
  <2> HIDE DEF w1, f, b
  <2> QED BY <2>1, <2>2 DEF Window
<1>2. CASE ~Replace(m)
  <2>1. manager'[n] = manager[n]
    BY <1>2 DEF ManagerStep, Launch, ReadLockFile, AskForJob, RetryLock, WriteLockFile, StartTraining, StartJob,
       CollectJob, Cancel, UnlockReview, ConfigurePassword, ForgetConversationData, ChangeRecord, UseModel,
       StopServing, Exit, Crash, Become, Leave, mgrVars
  <2> QED BY <2>1
<1> QED BY <1>1, <1>2

\* Who holds the lock, before and after the step of a window.
LEMMA LockHeld ==
  ASSUME TypeOK, NEW m \in Managers, ManagerStep(m)
  PROVE  /\ lock' \in Managers \cup {None}
         /\ \A n \in Managers : HoldsLock(n)' <=> lock' = n
<1>1. manager \in [Managers -> Window] /\ manager' \in [Managers -> Window]
  BY WindowTypes DEF TypeOK, Window
<1>2. \A n \in Managers : HoldsLock(n) <=> lock = n
  BY DEF TypeOK
<1>3. \A n \in Managers \ {m} : manager'[n].pc = manager[n].pc
  BY <1>1, OthersStay
<1>4. (\A pc : Become(m, pc) => manager'[m].pc = pc) /\ (Leave(m) => manager'[m].pc = "gone")
  BY <1>1 DEF Become, Leave, NoManager, Window
<1>5. (lock' = lock /\ (HoldsLock(m)' <=> HoldsLock(m))) \/ (lock = None /\ lock' = m /\ HoldsLock(m)')
        \/ (lock = m /\ lock' = None /\ ~HoldsLock(m)')
  <2>1. CASE Replace(m)
    <3> DEFINE w1 == [manager EXCEPT ![m].pc = "waiting"]
               f == manager[m].found
               b == manager[f].pc # "gone"
    <3>1. w1 \in [Managers -> Window] /\ w1[m].pc = "waiting"
      <4>1. w1 \in [Managers -> Window] /\ w1[m] = [manager[m] EXCEPT !.pc = "waiting"]
        BY <1>1, NewWindows
      <4> HIDE DEF w1
      <4> QED BY <1>1, <4>1 DEF Window
    <3>2. manager' = [w1 EXCEPT ![f].term = b] /\ lock' = lock /\ manager[m].pc = "replacing"
      BY <2>1 DEF Replace
    <3> HIDE DEF w1, f, b
    <3>3. manager'[m].pc = "waiting"
      BY <3>1, <3>2 DEF Window
    <3> QED BY <3>2, <3>3 DEF HoldsLock
  <2>2. CASE Launch(m) \/ RetryLock(m) \/ Exit(m) \/ Crash(m)
    BY <1>2, <1>4, <2>2, TypesApart DEF Launch, RetryLock, Exit, Crash, HoldsLock
  <2>3. CASE ~(Launch(m) \/ RetryLock(m) \/ Exit(m) \/ Crash(m) \/ Replace(m))
    <3>1. CASE ReadLockFile(m)
      <4>1. manager'[m].pc \in {"asking", "gone"}
        <5>1. CASE manager' = [manager EXCEPT ![m].pc = "asking", ![m].found = lockFile]
          <6>1. manager'[m] = [manager[m] EXCEPT !.pc = "asking", !.found = lockFile]
            BY <1>1, <5>1
          <6> QED BY <1>1, <6>1 DEF Window
        <5> QED BY <1>4, <3>1, <5>1 DEF ReadLockFile
      <4> QED BY <3>1, <4>1 DEF ReadLockFile, HoldsLock
    <3>2. CASE AskForJob(m) \/ WriteLockFile(m) \/ StopServing(m)
      BY <1>4, <3>2 DEF AskForJob, WriteLockFile, StopServing, HoldsLock
    <3>3. CASE ~(ReadLockFile(m) \/ AskForJob(m) \/ WriteLockFile(m) \/ StopServing(m))
      <4>1. manager'[m].pc = manager[m].pc /\ lock' = lock
        BY <1>1, <2>3, <3>3 DEF ManagerStep, StartTraining, StartJob,
           CollectJob, Cancel, UnlockReview, ConfigurePassword, ForgetConversationData, ChangeRecord, UseModel, mgrVars, Window
      <4> QED BY <4>1 DEF HoldsLock
    <3> QED BY <3>1, <3>2, <3>3
  <2> QED BY <2>1, <2>2, <2>3
<1> QED
  BY <1>2, <1>3, <1>5, TypesApart DEF HoldsLock, TypeOK

LEMMA ManagerTypes ==
  ASSUME TypeOK, NEW m \in Managers, ManagerStep(m)
  PROVE  TypeOK'
<1>1. manager \in [Managers -> Window] /\ manager' \in [Managers -> Window]
  BY WindowTypes DEF TypeOK, Window
<1>2. cli \in [Clis -> Process] /\ runs \in Seq([cli : Clis, ids : SUBSET Records, resumed : Nat])
  BY DEF TypeOK, CliTypeOK, Process, Pcs
<1>3. cli' \in [Clis -> Process]
  <2>1. ASSUME NEW c \in Clis, cli' = [cli EXCEPT ![c].signal = TRUE] PROVE cli' \in [Clis -> Process]
    <3>1. [cli[c] EXCEPT !.signal = TRUE] \in Process
      BY <1>2 DEF Process
    <3> QED BY <1>2, <2>1, <3>1
  <2>2. ASSUME NEW c \in Clis, NEW p \in Process, cli' = [cli EXCEPT ![c] = p] PROVE cli' \in [Clis -> Process]
    BY <1>2, <2>2
  <2>3. Updated(m).pid # None => manager[m].job.pid \in Clis
    BY <1>1 DEF Updated, NoJob, Window
  <2>4. CASE Cancel(m) \/ StopServing(m)
    BY <1>2, <2>1, <2>3, <2>4 DEF Cancel, StopServing
  <2>5. CASE Exit(m)
    <3> [NoProcess EXCEPT !.pc = "killed"] \in Process
      BY NewRecords DEF Pcs, Ended
    <3> QED BY <1>2, <2>2, <2>3, <2>5 DEF Exit
  <2>6. CASE \E c \in Clis : StartTraining(m, c)
    BY <1>2, <2>2, <2>6, NewRecords DEF StartTraining, StartJob
  <2>7. CASE ~(Cancel(m) \/ StopServing(m) \/ Exit(m) \/ \E c \in Clis : StartTraining(m, c))
    BY <1>2, <2>7 DEF ManagerStep, Launch, ReadLockFile, AskForJob, Replace, RetryLock, WriteLockFile,
       CollectJob, UnlockReview, ConfigurePassword, ForgetConversationData, ChangeRecord, ChangeState, UseModel,
       Crash, cliVars
  <2> QED BY <2>4, <2>5, <2>6, <2>7
<1>4. record' \in [Records -> {"absent", "pending", "trained", "removed"}]
  <2>1. CASE ForgetConversationData(m)
    BY <2>1 DEF ForgetConversationData, Forgotten
  <2>2. CASE \E r \in Records : ChangeRecord(m, r)
    BY <2>2 DEF ChangeRecord, ChangeState, TypeOK, CliTypeOK
  <2>3. CASE ~(ForgetConversationData(m) \/ \E r \in Records : ChangeRecord(m, r))
    BY <2>3 DEF ManagerStep, Launch, ReadLockFile, AskForJob, Replace, RetryLock, WriteLockFile, StartTraining,
       CollectJob, Cancel, UnlockReview, ConfigurePassword, UseModel, StopServing, Exit, Crash, cliVars, TypeOK, CliTypeOK
  <2> QED BY <2>1, <2>2, <2>3
<1>5. runs' = runs
  BY DEF ManagerStep, Launch, ReadLockFile, AskForJob, Replace, RetryLock, WriteLockFile, StartTraining,
     CollectJob, Cancel, UnlockReview, ConfigurePassword, ForgetConversationData, ChangeRecord, ChangeState, UseModel,
     StopServing, Exit, Crash, cliVars
<1>6. dataset' \in [Clis -> {"none", "partial", "full"}] /\ model' \in [Clis -> BOOLEAN]
  <2>1. CASE \E i \in DOMAIN runs : UseModel(m, i)
    BY <2>1 DEF UseModel, Pruned, TypeOK, CliTypeOK
  <2>2. CASE ~\E i \in DOMAIN runs : UseModel(m, i)
    BY <2>2 DEF ManagerStep, Launch, ReadLockFile, AskForJob, Replace, RetryLock, WriteLockFile, StartTraining,
       CollectJob, Cancel, UnlockReview, ConfigurePassword, ForgetConversationData, ChangeRecord, ChangeState,
       StopServing, Exit, Crash, cliVars, NoReadableDatasets, TypeOK, CliTypeOK
  <2> QED BY <2>1, <2>2
<1>7. selection' \in SUBSET Records
  BY DEF ManagerStep, Launch, ReadLockFile, AskForJob, Replace, RetryLock, WriteLockFile, StartTraining, PageIds,
     CollectJob, Cancel, UnlockReview, ConfigurePassword, ForgetConversationData, ChangeRecord, ChangeState, UseModel,
     StopServing, Exit, Crash, cliVars, TypeOK, CliTypeOK
<1>8. /\ lockFile' \in Managers \cup {None} /\ configured' \in BOOLEAN
      /\ active' \in Clis \cup {None} /\ crashes' \in 0..MaxCrashes
  <2>1. \A i \in DOMAIN runs : runs[i].cli \in Clis
    <3>1. runs \in Seq(Run)
      BY <1>2 DEF Run
    <3>2. \A i \in DOMAIN runs : runs[i] \in Run
      BY <3>1
    <3> QED BY <3>2 DEF Run
  <2>2. crashes \in 0..MaxCrashes /\ MaxCrashes \in Nat
    BY BuildAssumption DEF TypeOK
  <2>3. CASE Crash(m)
    BY <2>2, <2>3 DEF Crash, TypeOK
  <2>4. CASE ~Crash(m)
    BY <2>1, <2>4 DEF ManagerStep, Launch, ReadLockFile, AskForJob, Replace, RetryLock, WriteLockFile, StartTraining,
       CollectJob, Cancel, UnlockReview, ConfigurePassword, ForgetConversationData, ChangeRecord, UseModel,
       StopServing, Exit, mgrVars, TypeOK
  <2> QED BY <2>3, <2>4
<1>9. CliTypeOK'
  BY <1>2, <1>3, <1>4, <1>5, <1>6, <1>7 DEF CliTypeOK, Process, Pcs
<1> QED
  BY <1>1, <1>8, <1>9, LockHeld DEF TypeOK, Window

LEMMA NextTypes == TypeOK /\ [Next]_vars => TypeOK'
<1> SUFFICES ASSUME TypeOK, [Next]_vars PROVE TypeOK'
  OBVIOUS
<1>1. ASSUME NEW r \in Records, StoreRecord(r), UNCHANGED mgrVars PROVE TypeOK'
  BY <1>1 DEF StoreRecord, mgrVars, TypeOK, CliTypeOK, HoldsLock
<1>2. CASE UNCHANGED vars
  BY <1>2 DEF vars, cliVars, mgrVars, TypeOK, CliTypeOK, HoldsLock
<1> QED
  BY <1>1, <1>2, CliTypes, ManagerTypes DEF Next

-----------------------------------------------------------------------------
(* Records and runs *)

\* Only publishing adds a run or marks a record as trained, and what is trained or
\* removed stays one of the two.
LEMMA OnlyPublishTeaches ==
  ASSUME TypeOK, [Next]_vars
  PROVE  /\ \A r \in Records : record[r] \in {"trained", "removed"} => record'[r] \in {"trained", "removed"}
         /\ \/ /\ runs' = runs
               /\ \A r \in Records : record'[r] = "trained" => record[r] = "trained"
            \/ \E c \in Clis : Publish(c) /\ UNCHANGED mgrVars
<1> record \in [Records -> {"absent", "pending", "trained", "removed"}]
  BY DEF TypeOK, CliTypeOK
<1>1. ASSUME NEW c \in Clis, CliStep(c), ~Publish(c)
      PROVE  /\ runs' = runs
             /\ \A r \in Records : record'[r] = record[r] \/ (record[r] = "pending" /\ record'[r] = "removed")
  <2>1. CASE SelectRecords(c)
    BY <2>1 DEF SelectRecords
  <2>2. CASE ~SelectRecords(c)
    BY <1>1, <2>2 DEF CliStep, OpenDataset, CloseDataset, Validate, Train, Export, Fail, DieBySignal
  <2> QED BY <2>1, <2>2
<1>2. ASSUME NEW m \in Managers, ManagerStep(m)
      PROVE  /\ runs' = runs
             /\ \A r \in Records : \/ record'[r] = record[r]
                                   \/ record'[r] = "removed"
  <2>1. CASE ForgetConversationData(m)
    BY <2>1 DEF ForgetConversationData, Forgotten
  <2>2. CASE \E r \in Records : ChangeRecord(m, r)
    BY <2>2 DEF ChangeRecord, ChangeState
  <2>3. CASE ~(ForgetConversationData(m) \/ \E r \in Records : ChangeRecord(m, r))
    BY <1>2, <2>3 DEF ManagerStep, Launch, ReadLockFile, AskForJob, Replace, RetryLock, WriteLockFile, StartTraining,
       CollectJob, Cancel, UnlockReview, ConfigurePassword, UseModel, StopServing, Exit, Crash, cliVars
  <2> QED BY <2>1, <2>2, <2>3
<1>3. ASSUME NEW r \in Records, StoreRecord(r)
      PROVE  runs' = runs /\ \A q \in Records : record'[q] = record[q] \/ (record[q] = "absent" /\ record'[q] = "pending")
  BY <1>3 DEF StoreRecord
<1>4. ASSUME NEW c \in Clis, Publish(c)
      PROVE  \A r \in Records : record'[r] \in {record[r], "trained"}
  BY <1>4 DEF Publish
<1>5. CASE UNCHANGED vars
  BY <1>5 DEF vars, cliVars
<1> QED
  BY <1>1, <1>2, <1>3, <1>4, <1>5 DEF Next

LEMMA RunType ==
  ASSUME TypeOK
  PROVE  runs \in Seq(Run) /\ \A i \in DOMAIN runs : runs[i].ids \in SUBSET Records
<1>1. runs \in Seq(Run)
  BY DEF TypeOK, CliTypeOK, Run
<1>2. \A i \in DOMAIN runs : runs[i] \in Run
  BY <1>1
<1> QED
  BY <1>1, <1>2 DEF Run

\* The runs after a publication: those before it, and the new one.
LEMMA RunsAfterPublish ==
  ASSUME TypeOK, NEW c \in Clis, Publish(c)
  PROVE  /\ DOMAIN runs = 1..Len(runs) /\ Len(runs) \in Nat
         /\ Len(runs') = Len(runs) + 1
         /\ DOMAIN runs' = 1..(Len(runs) + 1)
         /\ \A i \in DOMAIN runs : runs'[i] = runs[i]
         /\ runs'[Len(runs) + 1].ids = cli[c].included
         /\ runs'[Len(runs) + 1].resumed = cli[c].resumed
<1> DEFINE new == [cli |-> c, ids |-> cli[c].included, resumed |-> cli[c].resumed]
<1>1. runs' = Append(runs, new) /\ new.ids = cli[c].included /\ new.resumed = cli[c].resumed
  BY DEF Publish
<1>2. runs \in Seq(Run)
  BY RunType
<1>3. new \in Run
  BY DEF Run, TypeOK, CliTypeOK
<1> HIDE DEF new
<1> QED
  BY <1>1, <1>2, <1>3

\* A run is published only with records that are still pending, and none of an
\* earlier run is.
LEMMA TaughtOnce ==
  ASSUME TypeOK, TrainedByOneRun, PublishedIsSettled, [Next]_vars
  PROVE  TrainedByOneRun' /\ PublishedIsSettled'
<1>1. CASE runs' = runs /\ \A r \in Records : record'[r] = "trained" => record[r] = "trained"
  BY <1>1, OnlyPublishTeaches, RunType DEF TrainedByOneRun, PublishedIsSettled
<1>2. ASSUME NEW c \in Clis, Publish(c) PROVE TrainedByOneRun' /\ PublishedIsSettled'
  <2> DEFINE n == Len(runs)
  <2>1. /\ DOMAIN runs = 1..n /\ n \in Nat /\ DOMAIN runs' = 1..(n + 1)
        /\ \A i \in 1..n : runs'[i].ids = runs[i].ids
        /\ runs'[n + 1].ids = cli[c].included
    BY <1>2, RunsAfterPublish
  <2>2. \A r \in cli[c].included : record[r] = "pending" /\ r \in Records /\ record'[r] = "trained"
    BY <1>2 DEF Publish, AllStillPending, TypeOK, CliTypeOK
  <2>3. \A r \in Records \ cli[c].included : record'[r] = record[r]
    BY <1>2 DEF Publish
  <2>4. \A i \in 1..n : runs[i].ids \in SUBSET Records /\ runs[i].ids \cap cli[c].included = {}
    BY <2>1, <2>2, RunType DEF PublishedIsSettled
  <2> HIDE DEF n
  <2>5. PublishedIsSettled'
    BY <2>1, <2>2, <2>3, <2>4 DEF PublishedIsSettled
  <2>6. \A i, j \in DOMAIN runs' : i # j => runs'[i].ids \cap runs'[j].ids = {}
    <3> SUFFICES ASSUME NEW i \in 1..(n + 1), NEW j \in 1..(n + 1), i # j
                 PROVE  runs'[i].ids \cap runs'[j].ids = {}
      BY <2>1
    <3>1. CASE i \in 1..n /\ j \in 1..n
      BY <2>1, <3>1 DEF TrainedByOneRun
    <3>2. CASE i = n + 1 /\ j \in 1..n
      BY <2>1, <2>4, <3>2
    <3>3. CASE j = n + 1 /\ i \in 1..n
      BY <2>1, <2>4, <3>3
    <3> QED BY <2>1, <3>1, <3>2, <3>3
  <2>7. ASSUME NEW r \in Records, record'[r] = "trained" PROVE \E i \in DOMAIN runs' : r \in runs'[i].ids
    <3>1. CASE r \in cli[c].included
      BY <2>1, <3>1
    <3>2. CASE r \notin cli[c].included
      <4> PICK i \in 1..n : r \in runs[i].ids
        BY <2>1, <2>3, <2>7, <3>2 DEF TrainedByOneRun
      <4> i \in 1..(n + 1)
        BY <2>1
      <4> QED BY <2>1
    <3> QED BY <3>1, <3>2
  <2> QED BY <2>5, <2>6, <2>7 DEF TrainedByOneRun
<1> QED
  BY <1>1, <1>2, OnlyPublishTeaches

-----------------------------------------------------------------------------
(* Files *)

\* Pruning spares the model that is being applied, and nothing else removes one.
LEMMA AppliedIsKept ==
  ASSUME TypeOK, ActiveModelExists, [Next]_vars
  PROVE  ActiveModelExists'
<1> active \in Clis \cup {None} /\ model \in [Clis -> BOOLEAN] /\ None \notin Clis
  BY TypesApart DEF TypeOK, CliTypeOK
<1>1. ASSUME NEW m \in Managers, NEW i \in DOMAIN runs, UseModel(m, i) PROVE ActiveModelExists'
  <2>1. model[runs[i].cli] /\ active' = runs[i].cli /\ model' = Pruned(runs[i].cli)
    BY <1>1 DEF UseModel
  <2>2. runs[i].cli \in Clis
    <3>1. runs \in Seq(Run)
      BY RunType
    <3>2. runs[i] \in Run
      BY <3>1
    <3> QED BY <3>2 DEF Run
  <2> QED BY <2>1, <2>2 DEF Pruned, ActiveModelExists
<1>2. ASSUME NEW c \in Clis, CliStep(c), UNCHANGED mgrVars PROVE ActiveModelExists'
  <2>1. active' = active /\ \A d \in Clis : model[d] => model'[d]
    BY <1>2 DEF CliStep, SelectRecords, OpenDataset, CloseDataset, Validate, Train, Export, Fail, Publish, DieBySignal, mgrVars
  <2> QED BY <2>1 DEF ActiveModelExists
<1>3. ASSUME NEW m \in Managers, ManagerStep(m), ~\E i \in DOMAIN runs : UseModel(m, i) PROVE ActiveModelExists'
  <2>1. active' = active /\ model' = model
    BY <1>3 DEF ManagerStep, Launch, ReadLockFile, AskForJob, Replace, RetryLock, WriteLockFile, StartTraining,
       CollectJob, Cancel, UnlockReview, ConfigurePassword, ForgetConversationData, ChangeRecord, ChangeState,
       StopServing, Exit, Crash, cliVars, mgrVars
  <2> QED BY <2>1 DEF ActiveModelExists
<1>4. ASSUME NEW r \in Records, StoreRecord(r), UNCHANGED mgrVars PROVE ActiveModelExists'
  BY <1>4 DEF StoreRecord, mgrVars, ActiveModelExists
<1>5. CASE UNCHANGED vars
  BY <1>5 DEF vars, cliVars, mgrVars, ActiveModelExists
<1> QED
  BY <1>1, <1>2, <1>3, <1>4, <1>5 DEF Next

\* What the step of a window does to the trainings: one of them begins, is killed
\* or is sent a signal.
LEMMA WindowsAndTrainings ==
  ASSUME TypeOK, NEW m \in Managers, ManagerStep(m), NEW c \in Clis
  PROVE  \/ cli'[c].pc = cli[c].pc /\ cli'[c].resumed = cli[c].resumed
         \/ cli[c].pc = "none" /\ StartTraining(m, c) /\ cli'[c] = Begin
         \/ Exit(m) /\ manager[m].job.pid = c /\ cli'[c].pc = "killed"
<1> cli \in [Clis -> Process] /\ manager \in [Managers -> Window]
  BY DEF TypeOK, CliTypeOK, Process, Pcs, Window
<1>1. ASSUME NEW d \in Clis, cli' = [cli EXCEPT ![d].signal = TRUE]
      PROVE  cli'[c].pc = cli[c].pc /\ cli'[c].resumed = cli[c].resumed
  <2>1. cli'[c] \in {cli[c], [cli[c] EXCEPT !.signal = TRUE]}
    BY <1>1
  <2> QED BY <2>1 DEF Process
<1>2. Updated(m).pid # None => manager[m].job.pid \in Clis
  BY DEF Updated, NoJob, Window
<1>3. CASE Cancel(m) \/ StopServing(m)
  BY <1>1, <1>2, <1>3 DEF Cancel, StopServing
<1>4. CASE Exit(m)
  <2>1. CASE cli' = cli
    BY <2>1
  <2>2. CASE cli' = [cli EXCEPT ![manager[m].job.pid] = [NoProcess EXCEPT !.pc = "killed"]]
    BY <1>4, <2>2 DEF NoProcess
  <2> QED BY <1>4, <2>1, <2>2 DEF Exit
<1>5. CASE \E d \in Clis : StartTraining(m, d)
  <2> PICK d \in Clis : StartTraining(m, d)
    BY <1>5
  <2>1. cli[d].pc = "none" /\ (cli' = cli \/ cli' = [cli EXCEPT ![d] = Begin])
    BY DEF StartTraining, StartJob
  <2> QED BY <2>1
<1>6. CASE ~(Cancel(m) \/ StopServing(m) \/ Exit(m) \/ \E d \in Clis : StartTraining(m, d))
  <2>1. cli' = cli
    BY <1>6 DEF ManagerStep, Launch, ReadLockFile, AskForJob, Replace, RetryLock, WriteLockFile,
       CollectJob, UnlockReview, ConfigurePassword, ForgetConversationData, ChangeRecord, ChangeState, UseModel,
       Crash, cliVars
  <2> QED BY <2>1
<1> QED
  BY <1>3, <1>4, <1>5, <1>6

LEMMA DatasetIsRemoved ==
  ASSUME TypeOK, ReadableWhileRunning, [Next]_vars
  PROVE  ReadableWhileRunning'
<1> cli \in [Clis -> Process] /\ dataset \in [Clis -> {"none", "partial", "full"}]
  BY DEF TypeOK, CliTypeOK, Process, Pcs
<1>1. ASSUME NEW c \in Clis, CliStep(c) PROVE ReadableWhileRunning'
  <2>1. \A d \in Clis \ {c} : cli'[d] = cli[d] /\ dataset'[d] = dataset[d]
    BY <1>1 DEF CliStep, SelectRecords, OpenDataset, CloseDataset, Validate, Train, Export, Fail, Publish, DieBySignal,
       Goto, End, DiscardDataset
  <2>2. dataset'[c] # "none" => cli'[c].pc \in {"writing", "killed"} \cup Trying
    <3>1. CASE SelectRecords(c) \/ OpenDataset(c) \/ CloseDataset(c)
      BY <3>1 DEF SelectRecords, OpenDataset, CloseDataset, Goto, End, Process, Trying, ReadableWhileRunning
    <3>2. CASE Validate(c) \/ Train(c) \/ Export(c)
      BY <3>2 DEF Validate, Train, Export, Goto, DiscardDataset, Process, Trying, ReadableWhileRunning
    <3>3. CASE Fail(c) \/ Publish(c) \/ DieBySignal(c)
      BY <3>3 DEF Fail, Publish, DieBySignal, End, NoProcess, DiscardDataset, Alive, Trying, Ended, ReadableWhileRunning
    <3> QED BY <1>1, <3>1, <3>2, <3>3 DEF CliStep
  <2> QED BY <2>1, <2>2 DEF ReadableWhileRunning
<1>2. ASSUME NEW m \in Managers, ManagerStep(m) PROVE ReadableWhileRunning'
  <2>1. dataset' = dataset \/ \A c \in Clis : dataset'[c] = "none"
    BY <1>2 DEF ManagerStep, Launch, ReadLockFile, AskForJob, Replace, RetryLock, WriteLockFile, StartTraining,
       CollectJob, Cancel, UnlockReview, ConfigurePassword, ForgetConversationData, ChangeRecord, ChangeState, UseModel,
       StopServing, Exit, Crash, cliVars, NoReadableDatasets
  <2>2. \A c \in Clis : cli'[c].pc \in {cli[c].pc, "killed"} \/ cli[c].pc = "none"
    BY <1>2, WindowsAndTrainings
  <2> QED BY <2>1, <2>2 DEF ReadableWhileRunning, Trying
<1>3. ASSUME NEW r \in Records, StoreRecord(r) PROVE ReadableWhileRunning'
  BY <1>3 DEF StoreRecord, ReadableWhileRunning
<1>4. CASE UNCHANGED vars
  BY <1>4 DEF vars, cliVars, ReadableWhileRunning
<1> QED
  BY <1>1, <1>2, <1>3, <1>4 DEF Next

-----------------------------------------------------------------------------
(* One training at a time *)

LEMMA JobsStayServed ==
  ASSUME TypeOK, JobsAreServed, [Next]_vars
  PROVE  JobsAreServed'
<1> manager \in [Managers -> Window]
  BY DEF TypeOK, Window
<1>1. ASSUME NEW m \in Managers, ManagerStep(m) PROVE JobsAreServed'
  <2>1. \A n \in Managers \ {m} : manager'[n].pc = manager[n].pc /\ manager'[n].job = manager[n].job
    BY <1>1, OthersStay
  <2>2. manager'[m].job.pid # None => manager'[m].pc \in {"serving", "stopping"}
    <3>1. \A pc \in {"refused", "asking", "replacing", "waiting", "starting", "serving", "stopping"} :
            Become(m, pc) => manager'[m].pc = pc /\ manager'[m].job = manager[m].job
      BY DEF Become, Window
    <3>2. Leave(m) => manager'[m].job.pid = None
      BY DEF Leave, NoManager, NoJob
    <3>3. CASE ReadLockFile(m) \/ Replace(m)
      <4>1. manager[m].job.pid = None
        BY <3>3 DEF ReadLockFile, Replace, JobsAreServed
      <4>2. CASE Leave(m)
        BY <3>2, <4>2
      <4>3. CASE manager' = [manager EXCEPT ![m].pc = "asking", ![m].found = lockFile]
        BY <4>1, <4>3 DEF Window
      <4>4. CASE manager' = [manager EXCEPT ![m].pc = "waiting",
                               ![manager[m].found].term = manager[manager[m].found].pc # "gone"]
        <5> DEFINE w1 == [manager EXCEPT ![m].pc = "waiting"]
                   b == manager[manager[m].found].pc # "gone"
        <5>1. w1 \in [Managers -> Window] /\ w1[m] = [manager[m] EXCEPT !.pc = "waiting"]
          BY NewWindows
        <5>2. manager' = [w1 EXCEPT ![manager[m].found].term = b]
          BY <4>4
        <5> HIDE DEF w1, b
        <5>3. w1[m].job = manager[m].job
          BY <5>1 DEF Window
        <5>4. manager'[m].job = w1[m].job
          BY <5>1, <5>2 DEF Window
        <5> QED BY <4>1, <5>3, <5>4
      <4> QED BY <3>3, <4>2, <4>3, <4>4 DEF ReadLockFile, Replace
    <3>4. CASE Launch(m) \/ AskForJob(m) \/ RetryLock(m) \/ WriteLockFile(m)
      <4>1. manager[m].job.pid = None
        BY <3>4 DEF Launch, AskForJob, RetryLock, WriteLockFile, JobsAreServed
      <4> QED BY <3>1, <3>2, <3>4, <4>1 DEF Launch, AskForJob, RetryLock, WriteLockFile
    <3>5. CASE StopServing(m) \/ Exit(m) \/ Crash(m)
      BY <3>1, <3>2, <3>5 DEF StopServing, Exit, Crash
    <3>6. CASE (\E c \in Clis : StartTraining(m, c)) \/ CollectJob(m) \/ \E i \in DOMAIN runs : UseModel(m, i)
      <4>1. manager[m].pc \in {"serving", "stopping"}
        BY <3>6 DEF StartTraining, CollectJob, UseModel, Serving
      <4>2. manager'[m].pc = manager[m].pc
        BY <3>6 DEF StartTraining, StartJob, CollectJob, UseModel, Window
      <4> QED BY <4>1, <4>2
    <3>7. CASE Cancel(m) \/ UnlockReview(m) \/ ConfigurePassword(m) \/ ForgetConversationData(m)
               \/ \E r \in Records : ChangeRecord(m, r)
      BY <3>7 DEF Cancel, UnlockReview, ConfigurePassword, ForgetConversationData, ChangeRecord, mgrVars, JobsAreServed
    <3> QED BY <1>1, <3>3, <3>4, <3>5, <3>6, <3>7 DEF ManagerStep
  <2> QED BY <2>1, <2>2 DEF JobsAreServed
<1>2. CASE UNCHANGED mgrVars
  BY <1>2 DEF mgrVars, JobsAreServed
<1> QED
  BY <1>1, <1>2 DEF Next, vars

\* Crashes are only counted up.
LEMMA CrashesGrow ==
  ASSUME TypeOK, [Next]_vars, crashes' = 0
  PROVE  crashes = 0
<1> crashes \in Nat
  BY TypesApart DEF TypeOK
<1>1. ASSUME NEW m \in Managers, ManagerStep(m) PROVE crashes' \in {crashes, crashes + 1}
  BY <1>1 DEF ManagerStep, Launch, ReadLockFile, AskForJob, Replace, RetryLock, WriteLockFile, StartTraining,
     CollectJob, Cancel, UnlockReview, ConfigurePassword, ForgetConversationData, ChangeRecord, UseModel,
     StopServing, Exit, Crash, mgrVars
<1>2. UNCHANGED mgrVars => crashes' = crashes
  BY DEF mgrVars
<1> QED
  BY <1>1, <1>2 DEF Next, vars

\* While the window that holds the lock has a job that runs, it starts no other, does
\* not forget it, and leaves only after it was killed.
LEMMA JobIsKept ==
  ASSUME TypeOK, NEW m \in Managers, ManagerStep(m), crashes' = 0,
         lock \in Managers, NEW c \in Clis, manager[lock].job.pid = c, Alive(c), Alive(c)'
  PROVE  lock' = lock /\ manager'[lock].job.pid = c
<1> manager \in [Managers -> Window] /\ crashes \in Nat /\ c # None /\ None \notin Managers
  BY TypesApart DEF TypeOK, Window
<1>1. \A n \in Managers : HoldsLock(n) <=> lock = n
  BY DEF TypeOK
<1>2. CASE m # lock
  <2>1. lock' = lock
    BY <1>1, <1>2 DEF ManagerStep, Launch, ReadLockFile, AskForJob, Replace, RetryLock, WriteLockFile, StartTraining,
       CollectJob, Cancel, UnlockReview, ConfigurePassword, ForgetConversationData, ChangeRecord, UseModel,
       StopServing, Exit, Crash, mgrVars, HoldsLock
  <2> QED BY <1>2, <2>1, OthersStay
<1>3. CASE m = lock
  <2>1. Updated(m) = manager[m].job
    BY <1>3 DEF Updated
  <2>2. ~Launch(m) /\ ~ReadLockFile(m) /\ ~AskForJob(m) /\ ~Replace(m) /\ ~RetryLock(m)
    BY <1>1, <1>3 DEF Launch, ReadLockFile, AskForJob, Replace, RetryLock, HoldsLock
  <2>3. ~CollectJob(m) /\ \A i \in DOMAIN runs : ~UseModel(m, i)
    BY <1>3, <2>1 DEF CollectJob, UseModel
  <2>4. ~Crash(m)
    BY <1>3 DEF Crash, Orphaning
  <2>5. ~Exit(m)
    <3> SUFFICES ASSUME Exit(m) PROVE FALSE
      OBVIOUS
    <3>1. cli' = [cli EXCEPT ![c] = [NoProcess EXCEPT !.pc = "killed"]]
      BY <1>3, <2>1 DEF Exit
    <3>2. cli'[c].pc = "killed"
      BY <3>1 DEF TypeOK, CliTypeOK, NoProcess
    <3> QED BY <3>2 DEF Alive, Ended
  <2>6. ASSUME NEW d \in Clis, StartTraining(m, d) PROVE manager' = manager /\ lock' = lock
    BY <1>3, <2>1, <2>6 DEF StartTraining, StartJob
  <2>7. CASE WriteLockFile(m) \/ StopServing(m)
    BY <1>3, <2>7 DEF WriteLockFile, StopServing, Become, Window
  <2>8. CASE Cancel(m) \/ UnlockReview(m) \/ ConfigurePassword(m) \/ ForgetConversationData(m)
             \/ \E r \in Records : ChangeRecord(m, r)
    BY <1>3, <2>8 DEF Cancel, UnlockReview, ConfigurePassword, ForgetConversationData, ChangeRecord, mgrVars
  <2> QED BY <1>3, <2>2, <2>3, <2>4, <2>5, <2>6, <2>7, <2>8 DEF ManagerStep
<1> QED BY <1>2, <1>3

LEMMA OneTrainingAtATime ==
  ASSUME TypeOK, OneTraining, [Next]_vars
  PROVE  OneTraining'
<1> SUFFICES ASSUME crashes' = 0, NEW c \in Clis, Alive(c)'
             PROVE  lock' # None /\ manager'[lock'].job.pid = c
  BY DEF OneTraining
<1> cli \in [Clis -> Process] /\ manager \in [Managers -> Window] /\ None \notin Managers
  BY TypesApart DEF TypeOK, CliTypeOK, Process, Pcs, Window
<1>1. \A d \in Clis : Alive(d) => lock \in Managers /\ manager[lock].job.pid = d
  BY CrashesGrow DEF OneTraining, TypeOK
<1>2. ASSUME Alive(c), UNCHANGED mgrVars PROVE lock' # None /\ manager'[lock'].job.pid = c
  BY <1>1, <1>2 DEF mgrVars
<1>3. ASSUME NEW d \in Clis, CliStep(d) PROVE Alive(c)
  <2>1. CASE d = c
    BY <1>3, <2>1 DEF CliStep, SelectRecords, OpenDataset, CloseDataset, Validate, Train, Export, Fail, Publish, DieBySignal,
       Alive, Ended
  <2>2. CASE d # c
    BY <1>3, <2>2 DEF CliStep, SelectRecords, OpenDataset, CloseDataset, Validate, Train, Export, Fail, Publish, DieBySignal,
       Goto, End, Alive
  <2> QED BY <2>1, <2>2
<1>4. ASSUME NEW m \in Managers, ManagerStep(m) PROVE lock' # None /\ manager'[lock'].job.pid = c
  <2>1. CASE Alive(c)
    BY <1>1, <1>4, <2>1, JobIsKept
  <2>2. CASE ~Alive(c)
    <3>1. StartTraining(m, c) /\ cli[c].pc = "none" /\ cli'[c] = Begin
      BY <1>4, <2>2, WindowsAndTrainings DEF Alive, Ended
    <3>2. cli' # cli
      BY <3>1 DEF Begin, NoProcess
    <3>3. manager' = [manager EXCEPT ![m].job = [running |-> TRUE, pid |-> c]]
      BY <3>1, <3>2 DEF StartTraining, StartJob
    <3>4. lock = m /\ lock' = lock
      BY <3>1 DEF StartTraining, Serving, TypeOK, HoldsLock
    <3>5. manager'[m].job.pid = c
      BY <3>3 DEF Window
    <3> QED BY <3>4, <3>5
  <2> QED BY <2>1, <2>2
<1>5. ASSUME NEW r \in Records, StoreRecord(r) PROVE Alive(c)
  BY <1>5 DEF StoreRecord, Alive
<1>6. CASE UNCHANGED vars
  BY <1>2, <1>6 DEF vars, cliVars, Alive
<1> QED
  BY <1>2, <1>3, <1>4, <1>5, <1>6 DEF Next

\* A training that publishes was the only one since it looked for the newest run.
LEMMA NextRunContinues ==
  ASSUME TypeOK, OneTraining, RunsAreChained, [Next]_vars
  PROVE  RunsAreChained'
<1> SUFFICES ASSUME crashes' = 0
             PROVE  /\ \A i \in DOMAIN runs' : runs'[i].resumed = i - 1
                    /\ \A c \in Clis : cli'[c].pc \in {"export", "publish"} => cli'[c].resumed = Len(runs')
  BY DEF RunsAreChained
<1> cli \in [Clis -> Process]
  BY DEF TypeOK, CliTypeOK, Process, Pcs
<1>1. /\ \A i \in DOMAIN runs : runs[i].resumed = i - 1
      /\ \A c \in Clis : cli[c].pc \in {"export", "publish"} => cli[c].resumed = Len(runs)
      /\ \A c, d \in Clis : Alive(c) /\ Alive(d) => c = d
  BY CrashesGrow DEF RunsAreChained, OneTraining
<1>2. ASSUME NEW c \in Clis, Publish(c)
      PROVE  /\ \A i \in DOMAIN runs' : runs'[i].resumed = i - 1
             /\ \A d \in Clis : cli'[d].pc \in {"export", "publish"} => cli'[d].resumed = Len(runs')
  <2>1. /\ DOMAIN runs = 1..Len(runs) /\ Len(runs) \in Nat /\ DOMAIN runs' = 1..(Len(runs) + 1)
        /\ \A i \in DOMAIN runs : runs'[i].resumed = runs[i].resumed
        /\ runs'[Len(runs) + 1].resumed = cli[c].resumed
    BY <1>2, RunsAfterPublish
  <2>2. cli[c].pc = "publish" /\ cli[c].resumed = Len(runs) /\ Alive(c)
    BY <1>1, <1>2 DEF Publish, Alive, Ended
  <2>3. \A i \in 1..(Len(runs) + 1) : runs'[i].resumed = i - 1
    <3> SUFFICES ASSUME NEW i \in 1..(Len(runs) + 1) PROVE runs'[i].resumed = i - 1
      OBVIOUS
    <3>1. CASE i \in 1..Len(runs)
      BY <1>1, <2>1, <3>1
    <3>2. CASE i = Len(runs) + 1
      BY <2>1, <2>2, <3>2
    <3> QED BY <2>1, <3>1, <3>2
  <2>4. \A d \in Clis : cli'[d].pc \notin {"export", "publish"}
    <3> SUFFICES ASSUME NEW d \in Clis PROVE cli'[d].pc \notin {"export", "publish"}
      OBVIOUS
    <3>1. CASE d = c
      BY <1>2, <3>1 DEF Publish, End, NoProcess
    <3>2. CASE d # c
      <4>1. ~Alive(d) /\ cli'[d] = cli[d]
        BY <1>1, <1>2, <2>2, <3>2 DEF Publish, End
      <4> QED BY <4>1 DEF Alive, Ended
    <3> QED BY <3>1, <3>2
  <2> QED BY <2>1, <2>3, <2>4
<1>3. ASSUME NEW c \in Clis, CliStep(c), ~Publish(c)
      PROVE  /\ runs' = runs
             /\ \A d \in Clis : cli'[d].pc \in {"export", "publish"} => cli'[d].resumed = Len(runs)
  <2>1. runs' = runs /\ \A d \in Clis \ {c} : cli'[d] = cli[d]
    BY <1>3 DEF CliStep, SelectRecords, OpenDataset, CloseDataset, Validate, Train, Export, Fail, DieBySignal, Goto, End
  <2>2. cli'[c].pc \in {"export", "publish"} => cli'[c].resumed = Len(runs)
    <3>1. CASE SelectRecords(c) \/ OpenDataset(c) \/ CloseDataset(c) \/ Validate(c)
      BY <3>1 DEF SelectRecords, OpenDataset, CloseDataset, Validate, Goto, End, Process, NoProcess
    <3>2. CASE Train(c)
      <4>1. cli'[c] = [cli[c] EXCEPT !.pc = "export", !.resumed = Len(runs)]
        BY <3>2 DEF Train
      <4> QED BY <4>1 DEF Process
    <3>3. CASE Export(c)
      <4>1. cli[c].pc = "export" /\ cli'[c] = [cli[c] EXCEPT !.pc = "publish"]
        BY <3>3 DEF Export, Goto
      <4> QED BY <1>1, <4>1 DEF Process
    <3>4. CASE Fail(c) \/ DieBySignal(c)
      BY <3>4 DEF Fail, DieBySignal, End, NoProcess
    <3> QED BY <1>3, <3>1, <3>2, <3>3, <3>4 DEF CliStep
  <2> QED BY <1>1, <2>1, <2>2
<1>4. ASSUME NEW m \in Managers, ManagerStep(m)
      PROVE  /\ runs' = runs
             /\ \A d \in Clis : cli'[d].pc \in {"export", "publish"} => cli'[d].resumed = Len(runs)
  <2>1. runs' = runs
    BY <1>4 DEF ManagerStep, Launch, ReadLockFile, AskForJob, Replace, RetryLock, WriteLockFile, StartTraining,
       CollectJob, Cancel, UnlockReview, ConfigurePassword, ForgetConversationData, ChangeRecord, ChangeState, UseModel,
       StopServing, Exit, Crash, cliVars
  <2>2. ASSUME NEW d \in Clis, cli'[d].pc \in {"export", "publish"} PROVE cli'[d].resumed = Len(runs)
    <3>1. cli'[d].pc = cli[d].pc /\ cli'[d].resumed = cli[d].resumed
      BY <1>4, <2>2, WindowsAndTrainings DEF Begin, NoProcess
    <3> QED BY <1>1, <2>2, <3>1
  <2> QED BY <2>1, <2>2
<1>5. ASSUME NEW r \in Records, StoreRecord(r) PROVE runs' = runs /\ cli' = cli
  BY <1>5 DEF StoreRecord
<1>6. UNCHANGED vars => runs' = runs /\ cli' = cli
  BY DEF vars, cliVars
<1> QED
  BY <1>1, <1>2, <1>3, <1>4, <1>5, <1>6 DEF Next

\* With every run continued from the one before it, the line of runs behind the newest
\* has them all: going back from it, there is no last run that was left out.
LEMMA ChainIsWhole ==
  ASSUME TypeOK, RunsAreChained, crashes = 0
  PROVE  \A S \in Lineages(Len(runs)) : DOMAIN runs \subseteq S
<1> DEFINE n == Len(runs)
<1>1. n \in Nat /\ DOMAIN runs = 1..n
  BY RunType
<1>2. \A i \in 1..n : runs[i].resumed = i - 1
  BY <1>1 DEF RunsAreChained
<1> SUFFICES ASSUME NEW S \in Lineages(n), NEW k \in 1..n, k \notin S PROVE FALSE
  BY <1>1
<1>3. S \subseteq 0..n /\ n \in S /\ \A j \in S \ {0} : runs[j].resumed \in S
  BY DEF Lineages
<1> HIDE DEF n
\* Counted from the newest run, whose place is 1.
<1> DEFINE Missing == {d \in 1..n : n + 1 - d \notin S}
<1>4. n + 1 - k \in Missing
  BY <1>1
<1>5. PICK d \in Missing : \A e \in Missing : d <= e
  <2>1. Missing \in SUBSET (1..n) /\ Missing # {}
    BY <1>4
  <2> HIDE DEF Missing
  <2> QED BY <1>1, <2>1, LeastPosition
<1>6. d # 1
  BY <1>1, <1>3
<1>7. d - 1 \notin Missing /\ d - 1 \in 1..n
  BY <1>1, <1>5, <1>6
<1>8. n + 2 - d \in S \ {0} /\ n + 2 - d \in 1..n
  BY <1>1, <1>7
<1>9. n + 1 - d \in S
  BY <1>1, <1>2, <1>3, <1>8
<1> QED
  BY <1>9

-----------------------------------------------------------------------------
LEMMA SpecInv == Spec => []Inv
<1>1. Inv /\ [Next]_vars => Inv'
  BY NextTypes, TaughtOnce, AppliedIsKept, DatasetIsRemoved, JobsStayServed, OneTrainingAtATime, NextRunContinues
  DEF Inv
<1> QED BY InitInv, <1>1, PTL DEF Spec

\* Every variable keeps its type, and one window at a time is past taking gui.lock,
\* whoever is launched, replaced or crashes (run() of lora_gui.cpp).
THEOREM TrainingManagerTypes == Spec => []TypeOK
BY SpecInv, PTL DEF Inv

\* A record is taught by one run and marked as trained only by one, whatever several
\* trainings, their windows and the input method do to it meanwhile (publish_run()).
THEOREM RecordsAreTaughtOnce == Spec => []TrainedByOneRun
BY SpecInv, PTL DEF Inv

\* Neither training nor pruning takes away the model the input method is set to
\* (use_model() and prune_obsolete_models()).
THEOREM ActiveModelStays == Spec => []ActiveModelExists
BY SpecInv, PTL DEF Inv

\* A training leaves readable text behind only when it was killed (train() and the
\* cleanup of its try block).
THEOREM TextIsReadableOnlyMeanwhile == Spec => []ReadableWhileRunning
BY SpecInv, PTL DEF Inv

\* As long as no window crashed with a job, the newest adapter knows every record that
\* is marked as trained (start_job(), stop_process() and train()).
THEOREM NewestKnowsAll == Spec => []NewestKnowsTrained
<1>1. Inv => NewestKnowsTrained
  <2> SUFFICES ASSUME Inv, crashes = 0, NEW r \in Records, record[r] = "trained"
               PROVE  r \in KnownTo(Len(runs))
    BY DEF NewestKnowsTrained
  <2>1. PICK i \in DOMAIN runs : r \in runs[i].ids
    BY DEF Inv, TrainedByOneRun
  <2>2. \A S \in Lineages(Len(runs)) : i \in S \ {0}
    <3>1. i # 0
      BY RunType DEF Inv
    <3> QED BY <3>1, ChainIsWhole DEF Inv
  <2> QED BY <2>1, <2>2 DEF KnownTo
<1> QED BY SpecInv, <1>1, PTL
=============================================================================
