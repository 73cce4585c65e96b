------------------------------ MODULE Downloads -----------------------------
(***************************************************************************)
(* The two downloads of `llavon-ime-lora`, started by the window as its    *)
(* one job: fetch-model keeps the revisions of the base model, and         *)
(* install-trainer replaces the LoRA trainer by the release this build is  *)
(* pinned to.  The window cancels a job with a signal that nothing         *)
(* handles, so that a process may end between any two of its steps.        *)
(***************************************************************************)
EXTENDS Naturals, Sequences

CONSTANTS
  Revisions,    \* of the model repository
  Libraries,    \* the native libraries of a trainer release
  MaxAttempts,  \* LLAVON_IME_LORA_RELEASE_ATTEMPTS, 30 unless it is set
  HasCache,     \* whether there is a directory for trainer archives
  NoRevision    \* an absent one

\* A number of attempts below one is refused.
ASSUME AttemptsAssumption == MaxAttempts \in Nat \ {0}

VARIABLES
  remote,   \* the repository's revision, and whether the rolling manifest names our commit
  job,      \* kind and position of the process, what it works on and its .partial file,
            \* which no later process reads
  model,    \* the files of each revision
  current_revision,  \* current.revision
  trainer,  \* the entries of the trainer's directory
  staging,  \* those extracted and not yet moved there
  cache     \* the cached archive

modelVars == <<model, current_revision>>
trainerVars == <<trainer, staging, cache>>
downloadVars == <<remote, job, modelVars, trainerVars>>

Assets == <<"config.json", "ime_vocab.json", "model.safetensors">>
Binary == "llavon-lora"
Stamp == "trainer-release.json"
Release == {Binary, Stamp} \cup Libraries

\* A download is short, or has the size of the file with other bytes, or is the file.
Downloaded == {"cut", "other", "whole"}
NoFiles == [a \in DOMAIN Assets |-> "none"]

NoJob == [kind |-> "none", pc |-> "none", revision |-> NoRevision, asset |-> 1, attempt |-> 1,
          partial |-> "none"]

\* Every variable keeps its type: the state of a file says how much of it is there.
DownloadsTypeOK ==
  /\ remote \in [revision : Revisions, rolling : BOOLEAN]
  /\ job \in [kind : {"none", "fetch", "install"},
              pc : {"none", "manifest", "asset", "download", "verify", "current", "inspect", "restamp",
                    "attempt", "listing", "pinned", "archive", "cache", "extract", "stamp", "remove",
                    "publish"},
              revision : Revisions \cup {NoRevision}, asset : 1..(Len(Assets) + 1),
              attempt : 1..(MaxAttempts + 1), partial : {"none"} \cup Downloaded]
  /\ model \in [Revisions -> [DOMAIN Assets -> {"none"} \cup Downloaded]]
  /\ current_revision \in Revisions \cup {NoRevision}
  /\ trainer \in [Release -> {"none", "old", "unhashed", "cut", "pinned"}]
  /\ staging \subseteq Release
  /\ cache \in {"none", "whole"}

\* What an earlier version may have left: nothing, another release, the pinned
\* one with a stamp that has no hash yet, or only the executable of that.
Installed(kept, content, stamp) ==
  [e \in Release |-> IF e = Stamp THEN stamp ELSE IF e \in kept THEN content ELSE "none"]

DownloadsInit ==
  /\ remote \in [revision : Revisions, rolling : {TRUE}]
  /\ job = NoJob
  /\ model = [r \in Revisions |-> NoFiles]
  /\ current_revision = NoRevision
  /\ trainer \in {Installed({}, "none", "none"), Installed(Release, "old", "old"),
                  Installed(Release, "pinned", "unhashed"), Installed({Binary}, "pinned", "unhashed")}
  /\ staging = {} /\ cache = "none"

At(kind, pc) == job.kind = kind /\ job.pc = pc
Step(pc) == job' = [job EXCEPT !.pc = pc]
End == job' = NoJob

-----------------------------------------------------------------------------
(* fetch-model                                                              *)

\* start_job() refuses a second job.
FetchModel ==
  /\ job = NoJob
  /\ job' = [NoJob EXCEPT !.kind = "fetch", !.pc = "manifest"]
  /\ UNCHANGED <<remote, modelVars, trainerVars>>

ReadManifest ==
  /\ At("fetch", "manifest")
  /\ \/ job' = [job EXCEPT !.pc = "asset", !.revision = remote.revision]
     \/ End
  /\ UNCHANGED <<remote, modelVars, trainerVars>>

\* Mutant for ReadyIsVerified: files without a hash are not even measured.
VerifiedWeights(content, a) == content # "none" /\ (a = Len(Assets) => content = "whole")

\* Every file has the size that the manifest says, and the weights their hash.
Verified(content, a) == content = "whole" \/ (content = "other" /\ a < Len(Assets))

CheckAsset ==
  /\ At("fetch", "asset")
  /\ LET a == job.asset
     IN  \/ a > Len(Assets) /\ Step("current")
         \/ /\ a <= Len(Assets) /\ Verified(model[job.revision][a], a)
            /\ job' = [job EXCEPT !.asset = @ + 1]
         \/ a <= Len(Assets) /\ ~Verified(model[job.revision][a], a) /\ Step("download")
  /\ UNCHANGED <<remote, modelVars, trainerVars>>

\* curl, from its start: of an archive of the trainer as well.
Download ==
  /\ job.pc = "download"
  /\ \E content \in Downloaded : job' = [job EXCEPT !.pc = "verify", !.partial = content]
  /\ UNCHANGED <<remote, modelVars, trainerVars>>

\* Only a verified download gets the name of the file.
KeepAsset ==
  /\ At("fetch", "verify")
  /\ \/ /\ Verified(job.partial, job.asset)
        /\ model' = [model EXCEPT ![job.revision][job.asset] = job.partial]
        /\ job' = [job EXCEPT !.pc = "asset", !.asset = @ + 1, !.partial = "none"]
     \/ ~Verified(job.partial, job.asset) /\ End /\ UNCHANGED model
  /\ UNCHANGED <<remote, current_revision, trainerVars>>

\* The stream is not checked before the rename: on a full disk it is empty.
WriteRevision ==
  /\ At("fetch", "current")
  /\ current_revision' \in {job.revision, NoRevision}
  /\ End
  /\ UNCHANGED <<remote, model, trainerVars>>

-----------------------------------------------------------------------------
(* install-trainer                                                          *)

InstallTrainer ==
  /\ job = NoJob
  /\ job' = [NoJob EXCEPT !.kind = "install", !.pc = "inspect"]
  /\ staging' = {}
  /\ UNCHANGED <<remote, modelVars, trainer, cache>>

\* An exception removes what was downloaded and extracted, and nothing else.
FailInstall ==
  /\ job.kind = "install" /\ job.pc # "inspect"
  /\ staging' = {}
  /\ End
  /\ UNCHANGED <<remote, modelVars, trainer, cache>>

\* has_trainer_libraries(): any one will do.
HasLibraries == \E l \in Libraries : trainer[l] # "none"

Intact ==
  /\ trainer[Stamp] \in {"unhashed", "pinned"} /\ HasLibraries
  /\ trainer[Binary] = "pinned" \/ (trainer[Binary] # "none" /\ trainer[Stamp] = "unhashed")

\* A trainer that cannot be inspected is installed again.
Inspect ==
  /\ At("install", "inspect")
  /\ \/ Intact /\ trainer[Stamp] = "pinned" /\ End /\ UNCHANGED trainer
     \/ /\ Intact /\ trainer[Stamp] = "unhashed"
        /\ Step("restamp") /\ trainer' = [trainer EXCEPT ![Stamp] = "cut"]
     \/ Step("attempt") /\ UNCHANGED trainer
  /\ UNCHANGED <<remote, modelVars, staging, cache>>

Restamp ==
  /\ At("install", "restamp")
  /\ trainer' = [trainer EXCEPT ![Stamp] = "pinned"]
  /\ End
  /\ UNCHANGED <<remote, modelVars, staging, cache>>

\* The rolling manifest, with the listing of releases after some attempts and the last.
NextAttempt == IF job.attempt < MaxAttempts THEN "attempt" ELSE "listing"

TryManifest ==
  /\ At("install", "attempt")
  /\ \/ remote.rolling /\ Step("pinned")
     \/ LET a == job.attempt
        IN  IF a = 1 \/ a % 5 = 0 THEN Step("listing")
            ELSE job' = [job EXCEPT !.pc = NextAttempt, !.attempt = @ + 1]
  /\ UNCHANGED <<remote, modelVars, trainerVars>>

TryListing ==
  /\ At("install", "listing")
  /\ \/ Step("pinned")
     \/ IF job.attempt > MaxAttempts THEN End
        ELSE job' = [job EXCEPT !.pc = NextAttempt, !.attempt = @ + 1]
  /\ UNCHANGED <<remote, modelVars, trainerVars>>

\* The manifest of the release itself decides what to download.
ReadRelease ==
  /\ At("install", "pinned")
  /\ Step("archive")
  /\ UNCHANGED <<remote, modelVars, trainerVars>>

\* A cached archive is verified like a new one.
FindArchive ==
  /\ At("install", "archive")
  /\ Step(IF HasCache /\ cache = "whole" THEN "extract" ELSE "download")
  /\ UNCHANGED <<remote, modelVars, trainerVars>>

VerifyArchive ==
  /\ At("install", "verify") /\ job.partial = "whole"
  /\ Step(IF HasCache THEN "cache" ELSE "extract")
  /\ UNCHANGED <<remote, modelVars, trainerVars>>

\* The copy is renamed when it is complete.
CacheArchive ==
  /\ At("install", "cache")
  /\ cache' = "whole"
  /\ Step("extract")
  /\ UNCHANGED <<remote, modelVars, trainer, staging>>

Extract ==
  /\ At("install", "extract")
  /\ staging' = Release \ {Stamp}
  /\ Step("stamp")
  /\ UNCHANGED <<remote, modelVars, trainer, cache>>

StampRelease ==
  /\ At("install", "stamp")
  /\ staging' = Release
  /\ Step("remove")
  /\ UNCHANGED <<remote, modelVars, trainer, cache>>

\* The entries of a directory come in any order.
RemoveEntry(e) ==
  /\ At("install", "remove") /\ trainer[e] # "none"
  /\ trainer' = [trainer EXCEPT ![e] = "none"]
  /\ UNCHANGED <<remote, job, modelVars, staging, cache>>

Removed == \A e \in Release : trainer[e] = "none"

BeginPublish ==
  /\ At("install", "remove") /\ Removed
  /\ Step("publish")
  /\ UNCHANGED <<remote, modelVars, trainerVars>>

PublishEntry(e) ==
  /\ At("install", "publish") /\ e \in staging
  /\ trainer' = [trainer EXCEPT ![e] = "pinned"]
  /\ staging' = staging \ {e}
  /\ UNCHANGED <<remote, job, modelVars, cache>>

FinishInstall ==
  /\ At("install", "publish") /\ staging = {}
  /\ End
  /\ UNCHANGED <<remote, modelVars, trainerVars>>

-----------------------------------------------------------------------------
\* /api/cancel, or the end of the machine.
Cancel ==
  /\ job # NoJob
  /\ End
  /\ UNCHANGED <<remote, modelVars, trainerVars>>

\* A new revision of the model, a newer release of the trainer.
RemoteMoves ==
  /\ \/ \E r \in Revisions \ {remote.revision} : remote' = [remote EXCEPT !.revision = r]
     \/ remote.rolling /\ remote' = [remote EXCEPT !.rolling = FALSE]
  /\ UNCHANGED <<job, modelVars, trainerVars>>

DownloadsNext ==
  \/ FetchModel \/ ReadManifest \/ CheckAsset \/ Download \/ KeepAsset \/ WriteRevision
  \/ InstallTrainer \/ FailInstall \/ Inspect \/ Restamp \/ TryManifest \/ TryListing \/ ReadRelease
  \/ FindArchive \/ VerifyArchive \/ CacheArchive \/ Extract \/ StampRelease
  \/ \E e \in Release : RemoveEntry(e) \/ PublishEntry(e)
  \/ BeginPublish \/ FinishInstall
  \/ Cancel \/ RemoteMoves

DownloadsSpec == DownloadsInit /\ [][DownloadsNext]_downloadVars

-----------------------------------------------------------------------------
(* Properties                                                               *)

\* What the window shows as ready.
ModelReady == current_revision # NoRevision /\ \A a \in DOMAIN Assets : model[current_revision][a] # "none"
TrainerUsable == trainer[Binary] # "none" /\ trainer[Stamp] \in {"unhashed", "pinned"} /\ HasLibraries

\* Wherever a download was cut off, what is ready can be used: no file of the model
\* is short, its weights are those of the revision, and no entry of the trainer is
\* left of another release.
ReadyIsVerified ==
  /\ ModelReady => \A a \in DOMAIN Assets :
       model[current_revision][a] # "cut" /\ (a = Len(Assets) => model[current_revision][a] = "whole")
  /\ TrainerUsable => \A e \in Release : trainer[e] # "old"

\* lora_cli.cpp:157-159 "The trainer archive is a directory of the executable plus
\* TorchSharp's native libraries. ... every candidate must carry them", once no
\* installation runs.
UsableTrainerIsWhole == job = NoJob /\ TrainerUsable => \A e \in Release : trainer[e] # "none"
=============================================================================
