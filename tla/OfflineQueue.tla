---------------------------- MODULE OfflineQueue ----------------------------
(***************************************************************************)
(* The offline pipeline: the watcher queues a job for every entry of a     *)
(* watch folder, one processor goroutine claims the oldest queued job and  *)
(* runs it, and the web interface lets the operator retry and delete jobs  *)
(* at any moment, also from a page that is out of date.  The table         *)
(* offline_jobs outlives the process.                                      *)
(*                                                                         *)
(* A run is the work on a claimed job; its number stands for what it       *)
(* uploads and for the password it draws.                                  *)
(***************************************************************************)
EXTENDS Integers

CONSTANTS
  Sources,      \* entries of the watch folders, by path
  NoSource,
  Folders,      \* release folders of the output directory
  MaxJobs,      \* bound: ids the table hands out
  MaxEvents     \* bound: retries, deletions, process deaths, database errors

ASSUME QueueAssumption ==
  /\ NoSource \notin Sources
  /\ Folders # {}
  /\ MaxJobs \in Nat /\ MaxEvents \in Nat

Ids == 1..MaxJobs
Runs == Nat \ {0}

VARIABLES
  folder,    \* the release folder of each source: its group and its title
  files,     \* sources that are there and quiet
  jobs,      \* offline_jobs
  lastId,    \* the last id handed out
  proc,      \* "up" or "down"
  worker,    \* the processor: where it is, its job, and its run
  runs,      \* runs begun
  nzbs,      \* the run whose NZB a release folder holds, 0 for none or a torn one
  shown,     \* jobs some page offers to retry
  stranded,  \* history: processing jobs the database refused to hand over or mark
  posted,    \* history: sources uploaded, with no reason since to do it again
  events

vars == <<folder, files, jobs, lastId, proc, worker, runs, nzbs, shown, stranded,
          posted, events>>

Statuses == {"none", "queued", "processing", "completed", "failed"}
NoJob == [source |-> NoSource, status |-> "none", error |-> FALSE, nzb |-> FALSE, password |-> 0]
Jobs == [source : Sources \cup {NoSource}, status : Statuses, error : BOOLEAN, nzb : BOOLEAN,
         password : Runs \cup {0}]

Resting == [at |-> "idle", id |-> 0, source |-> NoSource, run |-> 0]
Fetching(i) == [Resting EXCEPT !.at = "fetch", !.id = i]
Workers == [at : {"idle", "fetch", "work", "save", "write", "complete", "fail"},
            id : Ids \cup {0}, source : Sources \cup {NoSource}, run : Runs \cup {0}]

TypeOK ==
  /\ folder \in [Sources -> Folders] /\ files \subseteq Sources
  /\ jobs \in [Ids -> Jobs] /\ lastId \in 0..MaxJobs
  /\ proc \in {"up", "down"} /\ worker \in Workers /\ runs \in Runs \cup {0}
  /\ nzbs \in [Folders -> Runs \cup {0}]
  /\ shown \subseteq Ids /\ stranded \subseteq Ids /\ posted \subseteq Sources
  /\ events \in 0..MaxEvents

Init ==
  /\ folder \in [Sources -> Folders] /\ files = {}
  /\ jobs = [i \in Ids |-> NoJob] /\ lastId = 0
  /\ proc = "up" /\ worker = Resting /\ runs = 0
  /\ nzbs = [f \in Folders |-> 0]
  /\ shown = {} /\ stranded = {} /\ posted = {} /\ events = 0

With(status) == {i \in Ids : jobs[i].status = status}
Existing == {i \in Ids : jobs[i].status # "none"}
Intervene == events < MaxEvents /\ events' = events + 1

-----------------------------------------------------------------------------
(* The watcher.                                                            *)

Appear(s) ==
  /\ s \notin files /\ files' = files \cup {s}
  /\ UNCHANGED <<folder, jobs, lastId, proc, worker, runs, nzbs, shown, stranded, posted, events>>

(* SourcePathExists and CreateOfflineJob: nobody else inserts.  Mutant: a  *)
(* job that is over does not count.                                        *)
KnownUnlessDone(s) == \E i \in Existing : jobs[i].source = s /\ jobs[i].status # "completed"
Known(s) == \E i \in Existing : jobs[i].source = s

(* AUTOINCREMENT: the id of a deleted job is not handed out again.  Mutant: *)
(* a plain primary key, one more than the largest in the table.            *)
ReusedId == IF Existing = {} THEN 1 ELSE 1 + CHOOSE i \in Existing : \A k \in Existing : k <= i
NewId == lastId + 1

New(s) == [source |-> s, status |-> "queued", error |-> FALSE, nzb |-> FALSE, password |-> 0]

Detect(s) ==
  /\ proc = "up" /\ s \in files /\ ~Known(s)
  /\ NewId <= MaxJobs /\ lastId' = NewId
  /\ jobs' = [jobs EXCEPT ![NewId] = New(s)]
  /\ UNCHANGED <<folder, files, proc, worker, runs, nzbs, shown, stranded, posted, events>>

-----------------------------------------------------------------------------
(* The processor.                                                          *)

(* The UPDATE of ClaimNextJob; created_at follows the ids.                 *)
Claimed(j) == [j EXCEPT !.status = "processing"]

ClaimUpdate ==
  /\ worker.at = "idle"
  /\ \E i \in With("queued") :
       /\ \A k \in With("queued") : i <= k
       /\ jobs' = [jobs EXCEPT ![i] = Claimed(@)]
       /\ worker' = Fetching(i)
  /\ UNCHANGED <<runs, nzbs, shown, stranded, posted, events>>

(* The SELECT of the processing job that started last: the one just        *)
(* claimed, unless the operator has reset or deleted it.                   *)
LastStarted ==
  IF worker.id \in With("processing") THEN {worker.id} ELSE With("processing")

ClaimFetch ==
  /\ worker.at = "fetch"
  /\ \/ LastStarted = {} /\ worker' = Resting /\ UNCHANGED runs
     \/ \E i \in LastStarted :
          /\ runs' = runs + 1
          /\ worker' = [at |-> "work", id |-> i, source |-> jobs[i].source, run |-> runs + 1]
  /\ UNCHANGED <<jobs, nzbs, shown, stranded, posted, events>>

At(at) == [worker EXCEPT !.at = at]
Continue(at) == worker' = At(at)

(* processOfflineJob up to UploadDirectory: the group, the content, its    *)
(* staging, PAR2, encryption, the upload.  Any of them may fail, and does  *)
(* when the context is cancelled.                                          *)

Undisturbed == worker.id \in With("processing")

Upload ==
  /\ worker.at = "work"
  /\ Continue("save")
  /\ posted' = IF Undisturbed THEN posted \cup {worker.source} ELSE posted
  /\ UNCHANGED <<jobs, runs, nzbs, shown, stranded, events>>

WorkFails ==
  /\ worker.at = "work"
  /\ Continue("fail")
  /\ UNCHANGED <<jobs, runs, nzbs, shown, stranded, posted, events>>

(* os.WriteFile truncates first; then the sidecars, whose errors are       *)
(* ignored.  What a failed write leaves stays in the folder.               *)
SaveBegin ==
  /\ worker.at = "save"
  /\ nzbs' = [nzbs EXCEPT ![folder[worker.source]] = 0]
  /\ Continue("write")
  /\ UNCHANGED <<jobs, runs, shown, stranded, posted, events>>

SaveEnd ==
  /\ worker.at = "write"
  /\ nzbs' = [nzbs EXCEPT ![folder[worker.source]] = worker.run]
  /\ Continue("complete")
  /\ UNCHANGED <<jobs, runs, shown, stranded, posted, events>>

SaveFails ==
  /\ worker.at \in {"save", "write"}
  /\ Continue("fail")
  /\ UNCHANGED <<jobs, runs, nzbs, shown, stranded, posted, events>>

(* MarkJobCompleted and MarkJobFailed: by id, whatever the status.         *)
Completed(j) == [j EXCEPT !.status = "completed", !.nzb = TRUE, !.password = worker.run]
Failed(j) == [j EXCEPT !.status = "failed", !.error = TRUE]

Mark(at, job) ==
  /\ worker.at = at
  /\ worker' = Resting
  /\ IF worker.id \in Existing
     THEN /\ jobs' = [jobs EXCEPT ![worker.id] = job]
          /\ shown' = shown \cup {worker.id}
     ELSE UNCHANGED <<jobs, shown>>
  /\ UNCHANGED <<runs, nzbs, stranded, posted, events>>

MarkJobCompleted == Mark("complete", Completed(jobs[worker.id]))
MarkJobFailed == Mark("fail", Failed(jobs[worker.id]))

(* The second half of the claim, or the mark, fails: the error is logged   *)
(* at most, and the job stays as it is until the next start.               *)
DatabaseError ==
  /\ worker.at \in {"fetch", "complete", "fail"} /\ Intervene
  /\ worker' = Resting
  /\ stranded' = IF Undisturbed THEN stranded \cup {worker.id} ELSE stranded
  /\ posted' = posted \ {worker.source}
  /\ UNCHANGED <<jobs, runs, nzbs, shown>>

ProcessorStep ==
  /\ proc = "up"
  /\ \/ ClaimUpdate \/ ClaimFetch \/ Upload \/ WorkFails
     \/ SaveBegin \/ SaveEnd \/ SaveFails
     \/ MarkJobCompleted \/ MarkJobFailed \/ DatabaseError
  /\ UNCHANGED <<folder, files, lastId, proc>>

-----------------------------------------------------------------------------
(* The operator.                                                           *)

(* ResetQueuedJob, of any status; the password stays.  Mutant: so does the *)
(* path of the NZB.                                                        *)
ResetStatusOnly(j) == [j EXCEPT !.status = "queued", !.error = FALSE]
Reset(j) == [j EXCEPT !.status = "queued", !.error = FALSE, !.nzb = FALSE]

Retry(i) ==
  /\ proc = "up" /\ Intervene
  /\ i \in shown \cap Existing
  /\ jobs' = [jobs EXCEPT ![i] = Reset(@)]
  /\ stranded' = stranded \ {i} /\ posted' = posted \ {jobs[i].source}
  /\ UNCHANGED <<folder, files, lastId, proc, worker, runs, nzbs, shown>>

(* The entry is still in its folder: the watcher will find it anew.        *)
DeleteJob(i) ==
  /\ proc = "up" /\ Intervene
  /\ i \in Existing
  /\ jobs' = [jobs EXCEPT ![i] = NoJob]
  /\ shown' = shown \ {i}
  /\ stranded' = stranded \ {i} /\ posted' = posted \ {jobs[i].source}
  /\ UNCHANGED <<folder, files, lastId, proc, worker, runs, nzbs>>

-----------------------------------------------------------------------------
(* The process.                                                            *)

(* After a signal the job at hand may fail first (WorkFails, then its      *)
(* mark), as main does not wait for the processor.                         *)
Stop ==
  /\ proc = "up" /\ Intervene
  /\ proc' = "down" /\ worker' = Resting
  /\ posted' = posted \ {worker.source}
  /\ UNCHANGED <<folder, files, jobs, lastId, runs, nzbs, shown, stranded>>

(* RequeueStuckJobs.  Mutant: none is.                                     *)
NoJobs == {}
Stuck == With("processing")
Requeued(j) == [j EXCEPT !.status = "queued"]

Start ==
  /\ proc = "down" /\ proc' = "up"
  /\ jobs' = [i \in Ids |-> IF i \in Stuck THEN Requeued(jobs[i]) ELSE jobs[i]]
  /\ stranded' = {}
  /\ UNCHANGED <<folder, files, lastId, worker, runs, nzbs, shown, posted, events>>

Next ==
  \/ ProcessorStep
  \/ \E s \in Sources : Appear(s) \/ Detect(s)
  \/ \E i \in Ids : Retry(i) \/ DeleteJob(i)
  \/ Stop \/ Start

Spec == Init /\ [][Next]_vars

(* The processor's goroutine runs, its pipeline ends by its own timeouts,  *)
(* and a supervisor starts the process again.                              *)
FairSpec == Spec /\ WF_vars(ProcessorStep) /\ WF_vars(Start)

-----------------------------------------------------------------------------
(* Properties.                                                             *)

Alone(s) == \A t \in Sources \ {s} : folder[t] # folder[s]
HoldsOwnNzb(i) == nzbs[folder[jobs[i].source]] = jobs[i].password

(* The release folder of a completed job holds the NZB of the run whose    *)
(* password the job shows, after retries, deletions in the middle of a run *)
(* and process deaths, if no other source has the same group and title     *)
(* (MarkJobCompleted, and the write of the NZB before it).                 *)
CompletedHasItsNzb ==
  \A i \in With("completed") : Alone(jobs[i].source) => HoldsOwnNzb(i)

(* No source is posted to Usenet a second time unless the operator retried *)
(* or deleted its job, or the process or the database failed before the    *)
(* job was marked (ClaimNextJob, RequeueStuckJobs, SourcePathExists).      *)
NoUnaskedRepost ==
  [][worker.at = "work" /\ worker'.at = "save" /\ Undisturbed
       => worker.source \notin posted]_vars

(* A job shows an error exactly when it failed, and an NZB exactly when it *)
(* is completed, whatever happened to it during its run (ResetQueuedJob).  *)
StatusExplainsJob ==
  \A i \in Ids : /\ jobs[i].error <=> (jobs[i].status = "failed")
                 /\ jobs[i].nzb <=> (jobs[i].status = "completed")

(* A job that waits is brought to an end, over restarts, retries and       *)
(* deletions, unless the database loses track of it until the next start.  *)
JobsEnd ==
  \A i \in Ids : i \in With("queued") \cup With("processing")
                   ~> i \notin With("queued") \cup With("processing") \/ i \in stranded

=============================================================================
