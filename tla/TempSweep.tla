------------------------------ MODULE TempSweep ------------------------------
(***************************************************************************)
(* The agent's job table (storage.GlobalState.Jobs), its image state.json, *)
(* the download and staging directories of the jobs, and the sweeps that   *)
(* delete what no job of the table protects.                               *)
(*                                                                         *)
(* Requests are the site's tasks: their goroutine creates the entry before *)
(* the directory, and ends with RemoveJob and a sweep of its own.  Offers  *)
(* are remote offers, which download into the same directory but do        *)
(* neither; offline jobs behave like them up to the staging directory,     *)
(* whose name no running sweep matches.                                    *)
(***************************************************************************)
EXTENDS Integers

CONSTANTS
  Requests,     \* site tasks, by jobName
  Offers,       \* remote offers, by jobName
  Hourly,       \* the goroutine of the hourly sweep, {} to leave it out
  MaxDispatch,  \* bound: runs of a job between two starts of the process
  MaxCrashes    \* bound: process deaths

Jobs == Requests \cup Offers
Sweepers == Requests \cup Hourly

ASSUME SweepAssumption ==
  /\ Requests \cap Offers = {}
  /\ Hourly \cap Jobs = {}
  /\ MaxDispatch \in Nat /\ MaxCrashes \in Nat

VARIABLES
  pc,       \* where the goroutine of each job is, "idle" when there is none
  runs,     \* dispatches since the process started
  table,    \* GlobalState.Jobs
  file,     \* state.json
  save,     \* each goroutine's SaveState: "no", "begun" or "write"
  image,    \* what it has marshalled
  content,  \* dl-<job>: "none", "partial" or "full"
  stages,   \* jobs whose stage directory exists
  young,    \* directories modified in the last 30 minutes
  sweep,    \* each sweeper: its phase, the entries it still looks at, and the
            \* one it has decided to remove
  overtaken, \* history: requests dispatched while a sweep was about to remove
             \* the download directory of an earlier run
  crashes

vars == <<pc, runs, table, file, save, image, content, stages, young, sweep, overtaken,
          crashes>>

(* What is kept of the JobState entries: the jobs that have one, those     *)
(* with a DownloadedPath and those with a StagePath.                       *)
Tables == {t \in [entries : SUBSET Jobs, stamped : SUBSET Jobs, staged : SUBSET Jobs] :
             t.stamped \cup t.staged \subseteq t.entries}
EmptyTable == [entries |-> {}, stamped |-> {}, staged |-> {}]

(* Directory entries of the temp directory.                                *)
Dirs == {"dl", "stage"} \X Jobs
Existing == {d \in Dirs : IF d[1] = "dl" THEN content[d[2]] # "none" ELSE d[2] \in stages}

PCs == {"idle", "claimed", "download", "prepare", "staging", "publish",
        "unstaged", "cleanup", "ended", "sweep"}

NotSweeping == [phase |-> "off", left |-> {}, target |-> {}]
SweepStates == [phase : {"off", "read", "delete"}, left : SUBSET Dirs,
                target : SUBSET Dirs]

TypeOK ==
  /\ pc \in [Jobs -> PCs]
  /\ runs \in [Jobs -> 0..MaxDispatch]
  /\ table \in Tables /\ file \in Tables
  /\ save \in [Jobs -> {"no", "begun", "write"}]
  /\ image \in [Jobs -> Tables]
  /\ content \in [Jobs -> {"none", "partial", "full"}]
  /\ stages \subseteq Jobs
  /\ young \subseteq Dirs
  /\ sweep \in [Sweepers -> SweepStates]
  /\ overtaken \subseteq Requests
  /\ crashes \in 0..MaxCrashes

Init ==
  /\ pc = [j \in Jobs |-> "idle"]
  /\ runs = [j \in Jobs |-> 0]
  /\ table = EmptyTable /\ file = EmptyTable
  /\ save = [j \in Jobs |-> "no"]
  /\ image = [j \in Jobs |-> EmptyTable]
  /\ content = [j \in Jobs |-> "none"]
  /\ stages = {} /\ young = {}
  /\ sweep = [s \in Sweepers |-> NotSweeping]
  /\ overtaken = {}
  /\ crashes = 0

-----------------------------------------------------------------------------
(* storage: every change of the table is followed by SaveState, which      *)
(* marshals under the read lock and writes the file outside of it.         *)

Ready(j) == save[j] = "no"
Goto(j, l) == pc' = [pc EXCEPT ![j] = l]

Store(j, t) ==
  /\ table' = t
  /\ save' = [save EXCEPT ![j] = "begun"]
  /\ UNCHANGED image

Marshal(j) ==
  /\ save[j] = "begun"
  /\ image' = [image EXCEPT ![j] = table]
  /\ save' = [save EXCEPT ![j] = "write"]
  /\ UNCHANGED <<pc, runs, table, file, content, stages, young, sweep, overtaken, crashes>>

WriteFile(j) ==
  /\ save[j] = "write"
  /\ file' = image[j]
  /\ image' = [image EXCEPT ![j] = EmptyTable]
  /\ save' = [save EXCEPT ![j] = "no"]
  /\ UNCHANGED <<pc, runs, table, content, stages, young, sweep, overtaken, crashes>>

(* UpdateState creates the entry, and the download loop calls it before    *)
(* UpdateJobMeta; SetJobStagePath writes to an entry only if there is one. *)
WithEntry(j) == [table EXCEPT !.entries = @ \cup {j}]
WithDownload(j) == [WithEntry(j) EXCEPT !.stamped = @ \cup {j}]
WithStage(j) == IF j \in table.entries THEN [table EXCEPT !.staged = @ \cup {j}] ELSE table
WithoutStage(j) == [table EXCEPT !.staged = @ \ {j}]

Without(j) == [entries |-> table.entries \ {j}, stamped |-> table.stamped \ {j},
               staged |-> table.staged \ {j}]

-----------------------------------------------------------------------------
(* The goroutine of a job.                                                 *)

(* A sweep has passed dl-<r> by when it built its keep-set, and has still  *)
(* to remove it.                                                           *)
Condemned(r) ==
  \E s \in Sweepers :
    sweep[s].phase = "delete" /\ <<"dl", r>> \in sweep[s].left \cup sweep[s].target

Overtakes(r) == overtaken' = IF Condemned(r) THEN overtaken \cup {r} ELSE overtaken \ {r}

(* Mutant: no entry is made, as in the offline and offer paths.            *)
DispatchUnlisted(r) ==
  /\ r \in Requests /\ pc[r] = "idle" /\ runs[r] < MaxDispatch
  /\ Overtakes(r)
  /\ runs' = [runs EXCEPT ![r] = @ + 1]
  /\ Goto(r, "claimed")
  /\ UNCHANGED <<table, file, save, image, content, stages, young, sweep, crashes>>

(* processTask begins: UpdateState(jobName, "claimed", ...).               *)
Dispatch(r) ==
  /\ r \in Requests /\ pc[r] = "idle" /\ runs[r] < MaxDispatch
  /\ Overtakes(r)
  /\ runs' = [runs EXCEPT ![r] = @ + 1]
  /\ Store(r, WithEntry(r))
  /\ Goto(r, "claimed")
  /\ UNCHANGED <<file, content, stages, young, sweep, crashes>>

(* Refused lately for want of disk: processTask returns at once.           *)
SkipOversize(r) ==
  /\ r \in Requests /\ pc[r] = "idle" /\ runs[r] < MaxDispatch
  /\ Overtakes(r)
  /\ runs' = [runs EXCEPT ![r] = @ + 1]
  /\ Goto(r, "ended")
  /\ UNCHANGED <<table, file, save, image, content, stages, young, sweep, crashes>>

(* A download of an earlier run that looks usable is taken as it is.       *)
Resume(r) ==
  /\ pc[r] = "claimed" /\ Ready(r)
  /\ r \in table.stamped /\ content[r] # "none"
  /\ Goto(r, "prepare")
  /\ UNCHANGED <<runs, table, file, save, image, content, stages, young, sweep, overtaken, crashes>>

(* MkdirAll and the torrent client.  ValidatePartialDownload refuses some  *)
(* of the directories that are not whole.                                  *)
StartDownload(r) ==
  /\ pc[r] = "claimed" /\ Ready(r)
  /\ r \notin table.stamped \/ content[r] # "full"
  /\ content' = [content EXCEPT ![r] = "partial"]
  /\ young' = young \cup {<<"dl", r>>}
  /\ Goto(r, "download")
  /\ UNCHANGED <<runs, table, file, save, image, stages, sweep, overtaken, crashes>>

(* fulfillOne, downloadRemote: no entry in the table yet.                  *)
AcceptOffer(o) ==
  /\ o \in Offers /\ pc[o] = "idle" /\ runs[o] < MaxDispatch
  /\ runs' = [runs EXCEPT ![o] = @ + 1]
  /\ content' = [content EXCEPT ![o] = "partial"]
  /\ young' = young \cup {<<"dl", o>>}
  /\ Goto(o, "download")
  /\ UNCHANGED <<table, file, save, image, stages, sweep, overtaken, crashes>>

(* The download loop's UpdateState.                                        *)
Progress(j) ==
  /\ pc[j] = "download" /\ Ready(j)
  /\ Store(j, WithEntry(j))
  /\ UNCHANGED <<pc, runs, file, content, stages, young, sweep, overtaken, crashes>>

(* The last piece has arrived, and the directory is still there: the loop  *)
(* records 100% before it returns.  A request stamps DownloadedPath.       *)
DownloadDone(j) ==
  /\ pc[j] = "download" /\ Ready(j) /\ content[j] # "none"
  /\ content' = [content EXCEPT ![j] = "full"]
  /\ IF j \in Requests THEN Store(j, WithDownload(j)) ELSE Store(j, WithEntry(j))
  /\ Goto(j, "prepare")
  /\ UNCHANGED <<runs, file, stages, young, sweep, overtaken, crashes>>

(* An error, a cancellation, or the output is missing: the calls that      *)
(* remove the directory are deferred further down.                         *)
DownloadFail(j) ==
  /\ pc[j] = "download" /\ Ready(j)
  /\ Goto(j, IF j \in Requests THEN "ended" ELSE "idle")
  /\ UNCHANGED <<runs, table, file, save, image, content, stages, young, sweep, overtaken, crashes>>

(* PublishDirectory: MkdirAll(stage-XXX), then SetJobStagePath.            *)
MakeStage(j) ==
  /\ pc[j] = "prepare" /\ Ready(j)
  /\ stages' = stages \cup {j}
  /\ young' = young \cup {<<"stage", j>>}
  /\ Goto(j, "staging")
  /\ UNCHANGED <<runs, table, file, save, image, content, sweep, overtaken, crashes>>

PublishStage(j) ==
  /\ pc[j] = "staging"
  /\ Store(j, WithStage(j))
  /\ Goto(j, "publish")
  /\ UNCHANGED <<runs, file, content, stages, young, sweep, overtaken, crashes>>

(* The stage is uploaded, or something failed: its deferred removal.       *)
RemoveStage(j) ==
  /\ pc[j] = "publish" /\ Ready(j)
  /\ stages' = stages \ {j}
  /\ Goto(j, "unstaged")
  /\ UNCHANGED <<runs, table, file, save, image, content, young, sweep, overtaken, crashes>>

ClearStage(j) ==
  /\ pc[j] = "unstaged"
  /\ Store(j, WithoutStage(j))
  /\ Goto(j, "cleanup")
  /\ UNCHANGED <<runs, file, content, stages, young, sweep, overtaken, crashes>>

(* A failure before the stage directory exists.                            *)
PrepareFail(j) ==
  /\ pc[j] = "prepare" /\ Ready(j)
  /\ Goto(j, "cleanup")
  /\ UNCHANGED <<runs, table, file, save, image, content, stages, young, sweep, overtaken, crashes>>

(* os.RemoveAll(downloadedPath) takes its time.                            *)
RemoveSome(j) ==
  /\ pc[j] = "cleanup" /\ Ready(j) /\ content[j] = "full"
  /\ content' = [content EXCEPT ![j] = "partial"]
  /\ UNCHANGED <<pc, runs, table, file, save, image, stages, young, sweep, overtaken, crashes>>

RemoveRest(j) ==
  /\ pc[j] = "cleanup" /\ Ready(j)
  /\ content' = [content EXCEPT ![j] = "none"]
  /\ Goto(j, IF j \in Requests THEN "ended" ELSE "idle")
  /\ UNCHANGED <<runs, table, file, save, image, stages, young, sweep, overtaken, crashes>>

(* Mutant: the entry stays.                                                *)
KeepJob(r) ==
  /\ pc[r] = "ended"
  /\ Store(r, table)
  /\ Goto(r, "sweep")
  /\ UNCHANGED <<runs, file, content, stages, young, sweep, overtaken, crashes>>

(* RemoveJob, before the sweep that follows the task.                      *)
RemoveJob(r) ==
  /\ pc[r] = "ended"
  /\ Store(r, Without(r))
  /\ Goto(r, "sweep")
  /\ UNCHANGED <<runs, file, content, stages, young, sweep, overtaken, crashes>>

-----------------------------------------------------------------------------
(* sweepWithMinAge: the directory is read first, the keep-set is built     *)
(* from the table later, and the deletions come last.                      *)

Keep(t) == ({"dl"} \X t.entries) \cup ({"stage"} \X t.staged)

SweepRead(s) ==
  /\ sweep[s].phase = "off"
  /\ s \in Requests => pc[s] = "sweep" /\ Ready(s)
  /\ sweep' = [sweep EXCEPT ![s].phase = "read", ![s].left = Existing]
  /\ UNCHANGED <<pc, runs, table, file, save, image, content, stages, young, overtaken, crashes>>

SweepKeep(s) ==
  /\ sweep[s].phase = "read"
  /\ sweep' = [sweep EXCEPT ![s].phase = "delete", ![s].left = @ \ Keep(table)]
  /\ UNCHANGED <<pc, runs, table, file, save, image, content, stages, young, overtaken, crashes>>

(* minAge > 0.  Mutant: the sweep after a task spares young entries too.   *)
SparesYoungAlways(s) == TRUE
SparesYoung(s) == s \in Hourly

(* One entry after the other; the hourly sweep passes over the young ones. *)
(* The size of the tree is added up before it is removed.                  *)
SweepPick(s) ==
  /\ sweep[s].phase = "delete" /\ sweep[s].target = {}
  /\ \E d \in sweep[s].left :
       sweep' = [sweep EXCEPT
         ![s].left = @ \ {d},
         ![s].target = IF SparesYoung(s) /\ d \in young THEN {} ELSE {d}]
  /\ UNCHANGED <<pc, runs, table, file, save, image, content, stages, young, overtaken, crashes>>

SweepRemove(s) ==
  /\ sweep[s].target # {}
  /\ content' = [j \in Jobs |-> IF <<"dl", j>> \in sweep[s].target THEN "none" ELSE content[j]]
  /\ stages' = {j \in stages : <<"stage", j>> \notin sweep[s].target}
  /\ sweep' = [sweep EXCEPT ![s].target = {}]
  /\ UNCHANGED <<pc, runs, table, file, save, image, young, overtaken, crashes>>

(* After a request's own sweep, releaseTask.                               *)
SweepEnd(s) ==
  /\ sweep[s].phase = "delete" /\ sweep[s].left = {} /\ sweep[s].target = {}
  /\ sweep' = [sweep EXCEPT ![s] = NotSweeping]
  /\ pc' = IF s \in Requests THEN [pc EXCEPT ![s] = "idle"] ELSE pc
  /\ UNCHANGED <<runs, table, file, save, image, content, stages, young, overtaken, crashes>>

(* Half an hour passes without a change to the directory itself.           *)
Age ==
  /\ Hourly # {}
  /\ \E d \in young : young' = young \ {d}
  /\ UNCHANGED <<pc, runs, table, file, save, image, content, stages, sweep, overtaken, crashes>>

-----------------------------------------------------------------------------
(* The process dies and is started again: LoadState, then the sweep of the *)
(* boot, before anything runs.  A write of state.json cut short leaves a   *)
(* file that LoadState ignores.                                            *)
Torn == IF \E j \in Jobs : save[j] = "write" THEN {EmptyTable} ELSE {}

Restart ==
  /\ crashes < MaxCrashes
  /\ crashes' = crashes + 1
  /\ \E t \in {file} \cup Torn :
       /\ table' = t /\ file' = t
       /\ content' = [j \in Jobs |-> IF j \in t.entries THEN content[j] ELSE "none"]
       /\ stages' = stages \cap t.staged
  /\ pc' = [j \in Jobs |-> "idle"]
  /\ save' = [j \in Jobs |-> "no"]
  /\ image' = [j \in Jobs |-> EmptyTable]
  /\ runs' = [j \in Jobs |-> 0]
  /\ young' = {}
  /\ sweep' = [s \in Sweepers |-> NotSweeping]
  /\ overtaken' = {}

Job(j) ==
  \/ Marshal(j) \/ WriteFile(j)
  \/ Dispatch(j) \/ SkipOversize(j) \/ Resume(j) \/ StartDownload(j) \/ AcceptOffer(j)
  \/ Progress(j) \/ DownloadDone(j) \/ DownloadFail(j)
  \/ MakeStage(j) \/ PublishStage(j) \/ RemoveStage(j) \/ ClearStage(j)
  \/ PrepareFail(j) \/ RemoveSome(j) \/ RemoveRest(j) \/ RemoveJob(j)

Sweep(s) == SweepRead(s) \/ SweepKeep(s) \/ SweepPick(s) \/ SweepRemove(s) \/ SweepEnd(s)

Next ==
  \/ \E j \in Jobs : Job(j)
  \/ \E s \in Sweepers : Sweep(s)
  \/ Age
  \/ Restart

Spec == Init /\ [][Next]_vars
-----------------------------------------------------------------------------
(* Properties.                                                             *)

(* pcs at which a job's download directory is being used.                  *)
UsesDownload(j) == pc[j] \in {"download", "prepare", "staging", "publish"}

(* No sweep takes the download directory of a running request: its entry   *)
(* precedes the directory, and a sweep reads the directory before the      *)
(* table (sweepWithMinAge, and the call after processTask with minAge 0).  *)
(* Only a sweep that had passed the directory of an earlier run by before  *)
(* the request was dispatched again can: it goes by a table out of date.   *)
DownloadKept ==
  \A r \in Requests : UsesDownload(r) /\ r \notin overtaken => content[r] # "none"

(* "minAge=0 here is safe because the only protected dirs are the ones     *)
(* still in GlobalState (any in-flight task)" (above the sweep of the      *)
(* task's goroutine): no sweep takes a running request's directory at all. *)
DownloadNeverTaken == \A r \in Requests : UsesDownload(r) => content[r] # "none"

(* A request that is over leaves nothing in the temp directory, unless its *)
(* entry was read back from state.json and awaits a resumption.            *)
NothingLeftBehind ==
  \A r \in Requests : pc[r] = "idle" /\ r \notin table.entries =>
    content[r] = "none" /\ r \notin stages

(* A request that has run and is over has left the table, so that no sweep *)
(* protects its directories for ever (the comment above RemoveJob).        *)
EndedUnprotected ==
  \A r \in Requests : pc[r] = "idle" /\ runs[r] > 0 => r \notin table.entries

=============================================================================
