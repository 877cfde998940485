-------------------------- MODULE OfflineQueueProofs --------------------------
(***************************************************************************)
(* The table of offline jobs, the release folders and the uploads stay     *)
(* consistent for any number of watched entries, jobs, retries, deletions  *)
(* and process deaths.                                                     *)
(***************************************************************************)
EXTENDS OfflineQueue, TLAPS

(* A source has at most one job; ids are handed out in order.              *)
Table ==
  /\ \A i \in Ids : jobs[i].status # "none" => jobs[i].source \in Sources /\ i <= lastId
  /\ \A i, k \in Existing : jobs[i].source = jobs[k].source => i = k

Busy == worker.at \in {"work", "save", "write", "complete", "fail"}

(* The processor's job has been handed out, and is the only one of its     *)
(* source, which nobody else can have brought to an end.                   *)
InHand ==
  /\ worker.at = "idle" \/ proc = "down" => worker = Resting
  /\ worker.at # "idle" => worker.id \in Ids /\ worker.id <= lastId
  /\ Busy => worker.source \in Sources /\ worker.run \in Runs
  /\ Busy /\ worker.id \in Existing => jobs[worker.id].source = worker.source
  /\ Busy => \A i \in Existing : jobs[i].source = worker.source
                                   => jobs[i].status \in {"queued", "processing"}
  /\ worker.at = "complete" => nzbs[folder[worker.source]] = worker.run

(* The job of a source that was uploaded is over, or about to be.          *)
AboutToEnd(i) ==
  jobs[i].status = "processing" /\ i = worker.id /\ worker.at \in {"save", "write", "complete", "fail"}
PostedOnce ==
  \A s \in posted : \E i \in Existing :
    jobs[i].source = s /\ (jobs[i].status \in {"completed", "failed"} \/ AboutToEnd(i))

QueueInv == TypeOK /\ Table /\ InHand /\ StatusExplainsJob /\ CompletedHasItsNzb /\ PostedOnce

-----------------------------------------------------------------------------
(* The records the steps make of a job.                                    *)

LEMMA RequeuedRecord ==
  ASSUME NEW j \in Jobs
  PROVE  /\ Reset(j) \in Jobs /\ Reset(j).status = "queued" /\ Reset(j).source = j.source
         /\ Reset(j).error = FALSE /\ Reset(j).nzb = FALSE
         /\ Requeued(j) \in Jobs /\ Requeued(j).status = "queued"
         /\ Requeued(j).source = j.source
         /\ Requeued(j).error = j.error /\ Requeued(j).nzb = j.nzb
  BY DEF Reset, Requeued, Jobs, Statuses

LEMMA ClaimedRecord ==
  ASSUME NEW j \in Jobs
  PROVE  /\ Claimed(j) \in Jobs /\ Claimed(j).status = "processing"
         /\ Claimed(j).source = j.source
         /\ Claimed(j).error = j.error /\ Claimed(j).nzb = j.nzb
  BY DEF Claimed, Jobs, Statuses

LEMMA MarkedRecord ==
  ASSUME NEW j \in Jobs, worker \in Workers
  PROVE  /\ Completed(j) \in Jobs /\ Completed(j).status = "completed"
         /\ Completed(j).source = j.source /\ Completed(j).password = worker.run
         /\ Completed(j).error = j.error /\ Completed(j).nzb = TRUE
         /\ Failed(j) \in Jobs /\ Failed(j).status = "failed" /\ Failed(j).source = j.source
         /\ Failed(j).error = TRUE /\ Failed(j).nzb = j.nzb
<1>1. worker.run \in Runs \cup {0}
  BY DEF Workers
<1> QED BY <1>1 DEF Completed, Failed, Jobs, Statuses

LEMMA NewRecord ==
  ASSUME NEW s \in Sources
  PROVE  /\ New(s) \in Jobs /\ New(s).status = "queued" /\ New(s).source = s
         /\ New(s).error = FALSE /\ New(s).nzb = FALSE
         /\ NoJob \in Jobs /\ NoJob.status = "none" /\ NoJob.error = FALSE /\ NoJob.nzb = FALSE
  BY DEF New, NoJob, Jobs, Statuses, Runs

(* What the steps make of the processor.                                   *)
LEMMA WorkerRecord ==
  ASSUME worker \in Workers
  PROVE  /\ Resting \in Workers
         /\ \A at \in {"save", "write", "complete", "fail"} :
              /\ At(at) \in Workers /\ At(at).at = at /\ At(at).id = worker.id
              /\ At(at).source = worker.source /\ At(at).run = worker.run
         /\ \A i \in Ids : /\ Fetching(i) \in Workers /\ Fetching(i).at = "fetch"
                          /\ Fetching(i).id = i /\ Fetching(i).source = NoSource
<1>1. Resting \in Workers
  BY DEF Workers, Resting
<1>2. ASSUME NEW at \in {"save", "write", "complete", "fail"}
      PROVE  /\ At(at) \in Workers /\ At(at).at = at /\ At(at).id = worker.id
             /\ At(at).source = worker.source /\ At(at).run = worker.run
  BY DEF Workers, At
<1>3. ASSUME NEW i \in Ids
      PROVE  /\ Fetching(i) \in Workers /\ Fetching(i).at = "fetch"
             /\ Fetching(i).id = i /\ Fetching(i).source = NoSource
  BY DEF Workers, Resting, Fetching
<1> QED BY <1>1, <1>2, <1>3

-----------------------------------------------------------------------------
(* Types.                                                                  *)

LEMMA TypesInit == Init => TypeOK
<1> SUFFICES ASSUME Init PROVE TypeOK
  OBVIOUS
<1>1. NoJob \in Jobs /\ Resting \in Workers
  BY DEF NoJob, Jobs, Statuses, Runs, Resting, Workers
<1> QED BY <1>1, QueueAssumption DEF Init, TypeOK, Ids, Runs

LEMMA TypesStep == ASSUME TypeOK, InHand, [Next]_vars PROVE TypeOK'
<1> USE QueueAssumption
<1>0. /\ jobs \in [Ids -> Jobs]
      /\ \A i \in Ids : Reset(jobs[i]) \in Jobs
      /\ \A i \in Ids : Requeued(jobs[i]) \in Jobs
      /\ \A i \in Ids : Claimed(jobs[i]) \in Jobs
  BY RequeuedRecord, ClaimedRecord DEF TypeOK
<1>m. \A i \in Ids : Completed(jobs[i]) \in Jobs /\ Failed(jobs[i]) \in Jobs
  BY MarkedRecord DEF TypeOK
<1>n. /\ \A s \in Sources : New(s) \in Jobs
      /\ NoJob \in Jobs
  <2>1. NoJob \in Jobs
    BY DEF NoJob, Jobs, Statuses, Runs
  <2> QED BY <2>1, NewRecord
<1>w. /\ Resting \in Workers
      /\ \A at \in {"save", "write", "complete", "fail"} : At(at) \in Workers
      /\ \A i \in Ids : Fetching(i) \in Workers
  BY WorkerRecord DEF TypeOK
<1>r. worker.run \in Runs \cup {0}
  BY DEF TypeOK, Workers
<1>1. CASE ProcessorStep
  <2>1. CASE ClaimUpdate
    <3>1. PICK i \in Ids : /\ jobs' = [jobs EXCEPT ![i] = Claimed(jobs[i])]
                           /\ worker' = Fetching(i)
      BY <2>1 DEF ClaimUpdate, With
    <3> QED BY <1>0, <1>w, <1>1, <2>1, <3>1 DEF ProcessorStep, ClaimUpdate, TypeOK
  <2>2. CASE ClaimFetch
    <3>1. \A i \in Ids : [at |-> "work", id |-> i, source |-> jobs[i].source, run |-> runs + 1] \in Workers
      BY DEF TypeOK, Workers, Jobs, Runs
    <3>2. LastStarted \subseteq Ids
      BY DEF LastStarted, With
    <3> QED BY <1>1, <1>w, <2>2, <3>1, <3>2 DEF ProcessorStep, ClaimFetch, TypeOK, Runs
  <2>3. CASE Upload \/ WorkFails
    <3>1. worker.source \in Sources
      BY <2>3 DEF Upload, WorkFails, InHand, Busy
    <3>2. posted' \subseteq Sources
      BY <3>1, <2>3 DEF Upload, WorkFails, TypeOK
    <3> QED BY <1>1, <1>w, <2>3, <3>2 DEF ProcessorStep, Upload, WorkFails, Continue, TypeOK
  <2>4. CASE SaveBegin \/ SaveEnd \/ SaveFails
    BY <1>1, <1>w, <1>r, <2>4 DEF ProcessorStep, SaveBegin, SaveEnd, SaveFails, Continue, TypeOK
  <2>5. CASE MarkJobCompleted \/ MarkJobFailed
    <3>1. jobs' \in [Ids -> Jobs] /\ shown' \subseteq Ids
      BY <1>0, <1>m, <2>5 DEF MarkJobCompleted, MarkJobFailed, Mark, Existing, TypeOK
    <3> QED BY <1>1, <1>w, <2>5, <3>1 DEF ProcessorStep, MarkJobCompleted, MarkJobFailed, Mark, TypeOK
  <2>6. CASE DatabaseError
    BY <1>1, <1>w, <2>6 DEF ProcessorStep, DatabaseError, Intervene, Undisturbed, With, TypeOK
  <2> QED BY <1>1, <2>1, <2>2, <2>3, <2>4, <2>5, <2>6 DEF ProcessorStep
<1>2. ASSUME NEW s \in Sources, Appear(s) \/ Detect(s) PROVE TypeOK'
  <2>1. CASE Appear(s)
    BY <2>1 DEF Appear, TypeOK
  <2>2. CASE Detect(s)
    <3>1. NewId \in Ids /\ lastId' \in 0..MaxJobs
      BY <2>2 DEF Detect, NewId, TypeOK, Ids
    <3> QED BY <1>0, <1>n, <2>2, <3>1 DEF Detect, TypeOK
  <2> QED BY <1>2, <2>1, <2>2
<1>3. ASSUME NEW i \in Ids, Retry(i) \/ DeleteJob(i) PROVE TypeOK'
  BY <1>0, <1>n, <1>3 DEF Retry, DeleteJob, Intervene, TypeOK
<1>4. CASE Stop
  BY <1>w, <1>4 DEF Stop, Intervene, TypeOK
<1>5. CASE Start
  BY <1>0, <1>5 DEF Start, TypeOK
<1>6. CASE UNCHANGED vars
  BY <1>6 DEF vars, TypeOK
<1> QED BY <1>1, <1>2, <1>3, <1>4, <1>5, <1>6 DEF Next

-----------------------------------------------------------------------------
(* The inductive invariant.                                                *)

LEMMA InvInit == Init => QueueInv
<1> SUFFICES ASSUME Init PROVE QueueInv
  OBVIOUS
<1>1. /\ \A i \in Ids : /\ jobs[i].status = "none"
                       /\ jobs[i].error = FALSE /\ jobs[i].nzb = FALSE
      /\ worker = Resting /\ worker.at = "idle" /\ posted = {} /\ proc = "up"
  BY DEF Init, NoJob, Resting
<1>2. TypeOK
  BY TypesInit
<1>3. Table /\ InHand /\ StatusExplainsJob /\ CompletedHasItsNzb /\ PostedOnce
  BY <1>1 DEF Table, InHand, Busy, StatusExplainsJob, CompletedHasItsNzb, PostedOnce, Existing, With
<1> QED BY <1>2, <1>3 DEF QueueInv

LEMMA InvFrame ==
  QueueInv /\ UNCHANGED <<folder, jobs, lastId, proc, worker, nzbs, posted>>
    => (Table /\ InHand /\ StatusExplainsJob /\ CompletedHasItsNzb /\ PostedOnce)'
BY DEF QueueInv, Table, InHand, Busy, StatusExplainsJob, CompletedHasItsNzb, PostedOnce, AboutToEnd,
       Existing, With, Alone, HoldsOwnNzb

(* A step that only moves the processor on with its job.                   *)
LEMMA MovesOn ==
  ASSUME QueueInv, Busy, proc = "up",
         NEW at \in {"save", "write", "complete", "fail"}, worker' = At(at),
         at = "complete" => nzbs'[folder[worker.source]] = worker.run,
         UNCHANGED <<folder, jobs, lastId, proc>>
  PROVE  InHand'
<1>1. /\ worker'.at = at /\ worker'.id = worker.id /\ worker'.source = worker.source
      /\ worker'.run = worker.run
  BY WorkerRecord DEF QueueInv, TypeOK
<1> QED BY <1>1 DEF QueueInv, InHand, Busy, Existing

(* A step that changes the status of one job.                              *)
LEMMA Relabels ==
  ASSUME TypeOK, Table, NEW i \in Existing, NEW r \in Jobs,
         jobs' = [jobs EXCEPT ![i] = r], r.source = jobs[i].source, r.status # "none",
         UNCHANGED lastId
  PROVE  /\ Table' /\ Existing' = Existing
         /\ \A k \in Ids : jobs'[k].source = jobs[k].source
         /\ \A k \in Ids \ {i} : jobs'[k] = jobs[k]
         /\ jobs'[i] = r
<1>1. /\ i \in Ids /\ jobs'[i] = r
      /\ \A k \in Ids \ {i} : jobs'[k] = jobs[k]
  BY DEF TypeOK, Existing
<1>2. \A k \in Ids : jobs'[k].source = jobs[k].source
  BY <1>1
<1>3. Existing' = Existing
  BY <1>1 DEF Existing
<1> QED BY <1>1, <1>2, <1>3 DEF Table, Existing

(* The claim, in its two halves.                                           *)
LEMMA InvClaim ==
  ASSUME QueueInv, proc = "up", ClaimUpdate \/ ClaimFetch, UNCHANGED <<folder, lastId, proc>>
  PROVE  (Table /\ InHand /\ StatusExplainsJob /\ CompletedHasItsNzb /\ PostedOnce)'
<1>0. TypeOK /\ Table /\ InHand /\ StatusExplainsJob /\ CompletedHasItsNzb /\ PostedOnce
  BY DEF QueueInv
<1>1. CASE ClaimUpdate
  <2>1. PICK i \in With("queued") : jobs' = [jobs EXCEPT ![i] = Claimed(jobs[i])] /\ worker' = Fetching(i)
    BY <1>1 DEF ClaimUpdate
  <2>2. i \in Existing /\ i \in Ids /\ jobs[i].status = "queued"
    BY <2>1 DEF With, Existing
  <2>3. /\ Claimed(jobs[i]) \in Jobs /\ Claimed(jobs[i]).status = "processing"
        /\ Claimed(jobs[i]).source = jobs[i].source
        /\ Claimed(jobs[i]).error = jobs[i].error /\ Claimed(jobs[i]).nzb = jobs[i].nzb
    BY <1>0, <2>2, ClaimedRecord DEF TypeOK
  <2>4. /\ Table' /\ Existing' = Existing
        /\ \A k \in Ids : jobs'[k].source = jobs[k].source
        /\ \A k \in Ids \ {i} : jobs'[k] = jobs[k]
        /\ jobs'[i] = Claimed(jobs[i])
    BY <1>0, <2>1, <2>2, <2>3, Relabels
  <2>5. worker'.at = "fetch" /\ worker'.id = i
    BY <1>0, <2>1, <2>2, WorkerRecord DEF TypeOK
  <2>6. InHand'
    BY <1>0, <2>2, <2>5 DEF InHand, Busy, Table
  <2>7. StatusExplainsJob'
    BY <1>0, <2>2, <2>3, <2>4 DEF StatusExplainsJob
  <2>8. CompletedHasItsNzb'
    BY <1>0, <1>1, <2>3, <2>4 DEF CompletedHasItsNzb, With, Alone, HoldsOwnNzb, ClaimUpdate
  <2>9. PostedOnce'
    <3>1. ASSUME NEW s \in posted
          PROVE  \E k \in Existing : jobs[k].source = s /\ jobs[k].status \in {"completed", "failed"} /\ k # i
      BY <1>0, <1>1, <2>2 DEF PostedOnce, AboutToEnd, ClaimUpdate
    <3>2. posted' = posted
      BY <1>1 DEF ClaimUpdate
    <3>3. Existing \subseteq Ids
      BY DEF Existing
    <3> QED BY <2>4, <3>1, <3>2, <3>3 DEF PostedOnce
  <2> QED BY <2>4, <2>6, <2>7, <2>8, <2>9
<1>2. CASE ClaimFetch
  <2>1. Table' /\ StatusExplainsJob' /\ CompletedHasItsNzb'
    BY <1>0, <1>2 DEF Table, Existing, StatusExplainsJob, CompletedHasItsNzb, With, Alone, HoldsOwnNzb, ClaimFetch
  <2>2. PostedOnce'
    BY <1>0, <1>2 DEF PostedOnce, AboutToEnd, Existing, ClaimFetch
  <2>3. InHand'
    <3>1. CASE worker' = Resting
      BY <1>0, <1>2, <3>1 DEF InHand, Busy, Resting
    <3>2. ASSUME NEW i \in LastStarted,
                 worker' = [at |-> "work", id |-> i, source |-> jobs[i].source, run |-> runs + 1]
          PROVE  InHand'
      <4>1. i \in Existing /\ i \in Ids /\ jobs[i].status = "processing"
        BY DEF LastStarted, With, Existing
      <4>2. jobs[i].source \in Sources /\ i <= lastId
        BY <1>0, <4>1 DEF Table
      <4>3. runs + 1 \in Runs
        BY <1>0 DEF TypeOK, Runs
      <4>4. \A k \in Existing : jobs[k].source = jobs[i].source => k = i
        BY <1>0, <4>1 DEF Table
      <4>5. UNCHANGED <<jobs, lastId, proc, nzbs, folder>> /\ Existing' = Existing
        BY <1>2 DEF ClaimFetch, Existing
      <4> QED BY <3>2, <4>1, <4>2, <4>3, <4>4, <4>5 DEF InHand, Busy
    <3> QED BY <1>2, <3>1, <3>2 DEF ClaimFetch
  <2> QED BY <2>1, <2>2, <2>3
<1> QED BY <1>1, <1>2

(* The work on a job.                                                      *)
LEMMA InvWork ==
  ASSUME QueueInv, proc = "up", Upload \/ WorkFails \/ SaveBegin \/ SaveEnd \/ SaveFails,
         UNCHANGED <<folder, lastId, proc>>
  PROVE  (Table /\ InHand /\ StatusExplainsJob /\ CompletedHasItsNzb /\ PostedOnce)'
<1>0. TypeOK /\ Table /\ InHand /\ StatusExplainsJob /\ CompletedHasItsNzb /\ PostedOnce
  BY DEF QueueInv
<1>1. Busy /\ UNCHANGED jobs /\ Existing' = Existing
  BY DEF Upload, WorkFails, SaveBegin, SaveEnd, SaveFails, Busy, Existing
<1>2. Table' /\ StatusExplainsJob'
  BY <1>0, <1>1 DEF Table, StatusExplainsJob
<1>3. PICK at \in {"save", "write", "complete", "fail"} : worker' = At(at)
  BY DEF Upload, WorkFails, SaveBegin, SaveEnd, SaveFails, Continue
<1>4. /\ worker'.at = at /\ worker'.id = worker.id /\ worker'.source = worker.source
      /\ worker'.run = worker.run
  BY <1>0, <1>3, WorkerRecord DEF TypeOK
<1>5. worker.source \in Sources /\ worker.run \in Runs /\ folder[worker.source] \in Folders
  BY <1>0, <1>1 DEF InHand, TypeOK
<1>6. InHand'
  <2>1. at = "complete" => nzbs'[folder[worker.source]] = worker.run
    BY <1>0, <1>4, <1>5, WorkerRecord DEF Upload, WorkFails, SaveBegin, SaveEnd, SaveFails, Continue, TypeOK
  <2> QED BY <1>1, <1>3, <2>1, MovesOn
<1>7. CompletedHasItsNzb'
  <2>1. ASSUME NEW i \in With("completed"), Alone(jobs[i].source)
        PROVE  nzbs'[folder[jobs[i].source]] = nzbs[folder[jobs[i].source]]
    <3>1. i \in Existing /\ jobs[i].status = "completed" /\ jobs[i].source \in Sources
      BY <1>0 DEF With, Existing, Table
    <3>2. jobs[i].source # worker.source
      BY <1>0, <1>1, <3>1 DEF InHand
    <3>3. folder[jobs[i].source] # folder[worker.source]
      BY <1>5, <2>1, <3>2 DEF Alone
    <3> QED BY <1>0, <1>5, <3>1, <3>3 DEF Upload, WorkFails, SaveBegin, SaveEnd, SaveFails, TypeOK
  <2> QED BY <1>0, <1>1, <2>1 DEF CompletedHasItsNzb, With, Alone, HoldsOwnNzb
<1>8. PostedOnce'
  <2>1. ASSUME NEW s \in posted
        PROVE  \E i \in Existing : jobs[i].source = s /\ (jobs[i].status \in {"completed", "failed"} \/ AboutToEnd(i)')
    BY <1>0, <1>1, <1>4 DEF PostedOnce, AboutToEnd
  <2>2. ASSUME Upload, worker.source \in posted' \ posted
        PROVE  \E i \in Existing : jobs[i].source = worker.source /\ AboutToEnd(i)'
    <3>1. worker.id \in With("processing")
      BY <2>2 DEF Upload, Undisturbed
    <3> QED BY <1>0, <1>1, <1>4, <3>1 DEF With, Existing, InHand, AboutToEnd
  <2>3. \/ posted' = posted
        \/ Upload /\ posted' = posted \cup {worker.source}
    BY DEF Upload, WorkFails, SaveBegin, SaveEnd, SaveFails
  <2>4. ASSUME NEW s \in posted'
        PROVE  \E i \in Existing : jobs[i].source = s /\ (jobs[i].status \in {"completed", "failed"} \/ AboutToEnd(i)')
    <3>1. CASE s \in posted
      BY <2>1, <3>1
    <3>2. CASE s \notin posted
      <4>1. Upload /\ s = worker.source
        BY <2>3, <2>4, <3>2
      <4>2. worker.source \in posted' \ posted
        BY <2>4, <3>2, <4>1
      <4> QED BY <2>2, <4>1, <4>2
    <3> QED BY <3>1, <3>2
  <2> QED BY <1>1, <2>4 DEF PostedOnce, AboutToEnd
<1> QED BY <1>2, <1>6, <1>7, <1>8

(* The marks, and the database's errors.                                   *)
LEMMA InvMark ==
  ASSUME QueueInv, proc = "up", MarkJobCompleted \/ MarkJobFailed, UNCHANGED <<folder, lastId, proc>>
  PROVE  (Table /\ InHand /\ StatusExplainsJob /\ CompletedHasItsNzb /\ PostedOnce)'
<1>0. TypeOK /\ Table /\ InHand /\ StatusExplainsJob /\ CompletedHasItsNzb /\ PostedOnce
  BY DEF QueueInv
<1>1. Busy /\ worker' = Resting /\ UNCHANGED <<nzbs, posted>>
  BY DEF MarkJobCompleted, MarkJobFailed, Mark, Busy
<1>2. InHand'
  BY <1>0, <1>1 DEF InHand, Busy, Resting
<1>3. CASE worker.id \notin Existing
  <2>1. UNCHANGED jobs
    BY <1>3 DEF MarkJobCompleted, MarkJobFailed, Mark
  <2>2. Table' /\ StatusExplainsJob' /\ CompletedHasItsNzb'
    BY <1>0, <1>1, <2>1 DEF Table, Existing, StatusExplainsJob, CompletedHasItsNzb, With, Alone, HoldsOwnNzb
  <2>3. PostedOnce'
    BY <1>0, <1>1, <1>3, <2>1 DEF PostedOnce, AboutToEnd, Existing
  <2> QED BY <1>2, <2>2, <2>3
<1>4. CASE worker.id \in Existing
  <2> DEFINE i == worker.id
             r == IF worker.at = "complete" THEN Completed(jobs[i]) ELSE Failed(jobs[i])
  <2>1. i \in Ids /\ jobs[i].source = worker.source /\ jobs[i].status \in {"queued", "processing"}
    BY <1>0, <1>1, <1>4 DEF InHand, Existing
  <2>2. jobs' = [jobs EXCEPT ![i] = r]
    BY <1>4 DEF MarkJobCompleted, MarkJobFailed, Mark
  <2>3. /\ r \in Jobs /\ r.source = jobs[i].source /\ r.status \in {"completed", "failed"}
        /\ r.status = "completed" => worker.at = "complete" /\ r.password = worker.run
    BY <1>0, <2>1, MarkedRecord DEF TypeOK
  <2>e. \/ r.error = jobs[i].error /\ r.nzb = TRUE /\ r.status = "completed"
        \/ r.error = TRUE /\ r.nzb = jobs[i].nzb /\ r.status = "failed"
    BY <1>0, <2>1, MarkedRecord DEF TypeOK
  <2> HIDE DEF r
  <2>4. /\ Table' /\ Existing' = Existing
        /\ \A k \in Ids : jobs'[k].source = jobs[k].source
        /\ \A k \in Ids \ {i} : jobs'[k] = jobs[k]
        /\ jobs'[i] = r
    BY <1>0, <1>4, <2>2, <2>3, Relabels
  <2>5. StatusExplainsJob'
    BY <1>0, <2>1, <2>4, <2>e DEF StatusExplainsJob
  <2>6. CompletedHasItsNzb'
    BY <1>0, <1>1, <2>1, <2>3, <2>4 DEF CompletedHasItsNzb, With, Alone, HoldsOwnNzb, InHand
  <2>7. PostedOnce'
    BY <1>0, <1>1, <1>4, <2>3, <2>4 DEF PostedOnce, AboutToEnd, Existing
  <2> QED BY <1>2, <2>4, <2>5, <2>6, <2>7
<1> QED BY <1>3, <1>4

LEMMA InvError ==
  ASSUME QueueInv, proc = "up", DatabaseError, UNCHANGED <<folder, lastId, proc>>
  PROVE  (Table /\ InHand /\ StatusExplainsJob /\ CompletedHasItsNzb /\ PostedOnce)'
<1>0. TypeOK /\ Table /\ InHand /\ StatusExplainsJob /\ CompletedHasItsNzb /\ PostedOnce
  BY DEF QueueInv
<1>1. worker' = Resting /\ posted' = posted \ {worker.source} /\ UNCHANGED <<jobs, nzbs>>
  BY DEF DatabaseError
<1>2. Table' /\ StatusExplainsJob' /\ CompletedHasItsNzb'
  BY <1>0, <1>1 DEF Table, Existing, StatusExplainsJob, CompletedHasItsNzb, With, Alone, HoldsOwnNzb
<1>3. InHand'
  BY <1>0, <1>1 DEF InHand, Busy, Resting
<1>4. PostedOnce'
  BY <1>0, <1>1 DEF PostedOnce, AboutToEnd, InHand, Busy, Existing
<1> QED BY <1>2, <1>3, <1>4

-----------------------------------------------------------------------------
(* The watcher, the operator, the process.                                 *)

LEMMA InvDetect ==
  ASSUME QueueInv, NEW s \in Sources, Detect(s)
  PROVE  (Table /\ InHand /\ StatusExplainsJob /\ CompletedHasItsNzb /\ PostedOnce)'
<1>0. TypeOK /\ Table /\ InHand /\ StatusExplainsJob /\ CompletedHasItsNzb /\ PostedOnce
  BY DEF QueueInv
<1>1. /\ NewId \in Ids /\ NewId > lastId /\ lastId' = NewId /\ lastId \in Nat
      /\ jobs' = [jobs EXCEPT ![NewId] = New(s)]
      /\ UNCHANGED <<folder, proc, worker, nzbs, posted>>
  BY <1>0, QueueAssumption DEF Detect, NewId, TypeOK, Ids
<1>2. New(s).status = "queued" /\ New(s).source = s /\ New(s).error = FALSE /\ New(s).nzb = FALSE
  BY NewRecord
<1>3. NewId \notin Existing
  BY <1>0, <1>1 DEF Table, Existing, Ids
<1>4. /\ jobs'[NewId] = New(s)
      /\ \A k \in Ids \ {NewId} : jobs'[k] = jobs[k]
  BY <1>0, <1>1 DEF TypeOK
<1>5. Existing' = Existing \cup {NewId}
  BY <1>1, <1>2, <1>4 DEF Existing
<1>6. \A k \in Existing : k \in Ids /\ k # NewId /\ jobs[k].source # s
  BY <1>3 DEF Detect, Known, Existing
<1>7. Table'
  <2>1. ASSUME NEW k \in Ids, jobs'[k].status # "none"
        PROVE  jobs'[k].source \in Sources /\ k <= lastId'
    <3>1. CASE k = NewId
      BY <1>1, <1>2, <1>4, <3>1 DEF Ids
    <3>2. CASE k # NewId
      <4>1. jobs[k].source \in Sources /\ k <= lastId
        BY <1>0, <1>4, <2>1, <3>2 DEF Table
      <4> QED BY <1>1, <1>4, <3>2, <4>1 DEF Ids
    <3> QED BY <3>1, <3>2
  <2>2. ASSUME NEW i \in Existing', NEW k \in Existing', jobs'[i].source = jobs'[k].source
        PROVE  i = k
    BY <1>0, <1>2, <1>4, <1>5, <1>6, <2>2 DEF Table
  <2> QED BY <2>1, <2>2 DEF Table
<1>8. InHand'
  <2>1. worker.at # "idle" => worker.id \in Ids /\ worker.id <= lastId' /\ worker.id # NewId
    BY <1>0, <1>1 DEF InHand, Ids
  <2> QED BY <1>0, <1>1, <1>2, <1>4, <1>5, <1>6, <2>1 DEF InHand, Busy
<1>9. StatusExplainsJob'
  BY <1>0, <1>1, <1>2, <1>4 DEF StatusExplainsJob
<1>10. CompletedHasItsNzb'
  BY <1>0, <1>1, <1>2, <1>4 DEF CompletedHasItsNzb, With, Alone, HoldsOwnNzb
<1>11. PostedOnce'
  BY <1>0, <1>1, <1>4, <1>5, <1>6 DEF PostedOnce, AboutToEnd
<1> QED BY <1>7, <1>8, <1>9, <1>10, <1>11

LEMMA InvOperator ==
  ASSUME QueueInv, NEW i \in Ids, Retry(i) \/ DeleteJob(i)
  PROVE  (Table /\ InHand /\ StatusExplainsJob /\ CompletedHasItsNzb /\ PostedOnce)'
<1>0. TypeOK /\ Table /\ InHand /\ StatusExplainsJob /\ CompletedHasItsNzb /\ PostedOnce
  BY DEF QueueInv
<1>1. /\ i \in Existing /\ posted' = posted \ {jobs[i].source}
      /\ UNCHANGED <<folder, lastId, proc, worker, nzbs>>
  BY DEF Retry, DeleteJob
<1>p. \A s \in posted' : \E k \in Existing \ {i} :
        jobs[k].source = s /\ (jobs[k].status \in {"completed", "failed"} \/ AboutToEnd(k))
  BY <1>0, <1>1 DEF PostedOnce
<1>2. CASE Retry(i)
  <2>1. jobs' = [jobs EXCEPT ![i] = Reset(jobs[i])]
    BY <1>2 DEF Retry
  <2>2. /\ Reset(jobs[i]) \in Jobs /\ Reset(jobs[i]).status = "queued"
        /\ Reset(jobs[i]).source = jobs[i].source
        /\ Reset(jobs[i]).error = FALSE /\ Reset(jobs[i]).nzb = FALSE
    BY <1>0, RequeuedRecord DEF TypeOK
  <2>3. /\ Table' /\ Existing' = Existing
        /\ \A k \in Ids : jobs'[k].source = jobs[k].source
        /\ \A k \in Ids \ {i} : jobs'[k] = jobs[k]
        /\ jobs'[i] = Reset(jobs[i])
    BY <1>0, <1>1, <2>1, <2>2, Relabels
  <2>4. InHand'
    BY <1>0, <1>1, <2>2, <2>3 DEF InHand, Busy, Existing
  <2>5. StatusExplainsJob'
    BY <1>0, <2>2, <2>3 DEF StatusExplainsJob
  <2>6. CompletedHasItsNzb'
    BY <1>0, <1>1, <2>2, <2>3 DEF CompletedHasItsNzb, With, Alone, HoldsOwnNzb
  <2>7. PostedOnce'
    BY <1>1, <1>p, <2>3 DEF PostedOnce, AboutToEnd, Existing
  <2> QED BY <2>3, <2>4, <2>5, <2>6, <2>7
<1>3. CASE DeleteJob(i)
  <2>1. jobs'[i] = NoJob /\ \A k \in Ids \ {i} : jobs'[k] = jobs[k]
    BY <1>0, <1>3 DEF DeleteJob, TypeOK
  <2>2. NoJob.status = "none" /\ NoJob.error = FALSE /\ NoJob.nzb = FALSE
    BY DEF NoJob
  <2>3. Existing' = Existing \ {i}
    BY <2>1, <2>2 DEF Existing
  <2>4. Table'
    BY <1>0, <1>1, <2>1, <2>2, <2>3 DEF Table, Existing
  <2>5. InHand'
    BY <1>0, <1>1, <2>1, <2>3 DEF InHand, Busy, Existing
  <2>6. StatusExplainsJob'
    BY <1>0, <2>1, <2>2 DEF StatusExplainsJob
  <2>7. CompletedHasItsNzb'
    BY <1>0, <1>1, <2>1, <2>2 DEF CompletedHasItsNzb, With, Alone, HoldsOwnNzb
  <2>8. PostedOnce'
    BY <1>1, <1>p, <2>1, <2>3 DEF PostedOnce, AboutToEnd, Existing
  <2> QED BY <2>4, <2>5, <2>6, <2>7, <2>8
<1> QED BY <1>2, <1>3

LEMMA InvProcess ==
  ASSUME QueueInv, Stop \/ Start
  PROVE  (Table /\ InHand /\ StatusExplainsJob /\ CompletedHasItsNzb /\ PostedOnce)'
<1>0. TypeOK /\ Table /\ InHand /\ StatusExplainsJob /\ CompletedHasItsNzb /\ PostedOnce
  BY DEF QueueInv
<1>1. CASE Stop
  <2>1. worker' = Resting /\ posted' = posted \ {worker.source} /\ UNCHANGED <<folder, jobs, lastId, nzbs>>
    BY <1>1 DEF Stop
  <2>2. Table' /\ StatusExplainsJob' /\ CompletedHasItsNzb'
    BY <1>0, <2>1 DEF Table, Existing, StatusExplainsJob, CompletedHasItsNzb, With, Alone, HoldsOwnNzb
  <2>3. InHand'
    BY <2>1 DEF InHand, Busy, Resting
  <2>4. PostedOnce'
    BY <1>0, <2>1 DEF PostedOnce, AboutToEnd, InHand, Busy, Existing
  <2> QED BY <2>2, <2>3, <2>4
<1>2. CASE Start
  <2>1. /\ worker = Resting /\ worker.at = "idle"
        /\ UNCHANGED <<folder, lastId, worker, nzbs, posted>>
    BY <1>0, <1>2 DEF Start, InHand, Resting
  <2>2. \A k \in Ids : jobs'[k] = IF k \in Stuck THEN Requeued(jobs[k]) ELSE jobs[k]
    BY <1>2 DEF Start
  <2>3. \A k \in Ids : /\ Requeued(jobs[k]).status = "queued"
                       /\ Requeued(jobs[k]).source = jobs[k].source
                       /\ Requeued(jobs[k]).error = jobs[k].error
                       /\ Requeued(jobs[k]).nzb = jobs[k].nzb
    BY <1>0, RequeuedRecord DEF TypeOK
  <2>4. \A k \in Ids : /\ jobs'[k].source = jobs[k].source
                       /\ k \notin Stuck => jobs'[k] = jobs[k]
                       /\ k \in Stuck => jobs'[k].status = "queued"
    BY <2>2, <2>3
  <2>5. Existing' = Existing
    BY <2>4 DEF Existing, Stuck, With
  <2>6. Table'
    BY <1>0, <2>1, <2>4, <2>5 DEF Table, Existing, Stuck, With
  <2>7. InHand'
    BY <2>1 DEF InHand, Busy, Resting
  <2>8. StatusExplainsJob'
    BY <1>0, <2>2, <2>3 DEF StatusExplainsJob, Stuck, With
  <2>9. CompletedHasItsNzb'
    BY <1>0, <2>1, <2>4 DEF CompletedHasItsNzb, With, Alone, HoldsOwnNzb
  <2>10. PostedOnce'
    BY <1>0, <2>1, <2>4, <2>5 DEF PostedOnce, AboutToEnd, Existing, Stuck, With
  <2> QED BY <2>6, <2>7, <2>8, <2>9, <2>10
<1> QED BY <1>1, <1>2

LEMMA InvStep == QueueInv /\ [Next]_vars => QueueInv'
<1> SUFFICES ASSUME QueueInv, [Next]_vars PROVE QueueInv'
  OBVIOUS
<1> DEFINE Rest == Table /\ InHand /\ StatusExplainsJob /\ CompletedHasItsNzb /\ PostedOnce
<1>1. TypeOK'
  BY TypesStep DEF QueueInv
<1>2. ASSUME ProcessorStep PROVE Rest'
  <2>1. proc = "up" /\ UNCHANGED <<folder, lastId, proc>>
    BY <1>2 DEF ProcessorStep
  <2> QED BY <1>2, <2>1, InvClaim, InvWork, InvMark, InvError DEF ProcessorStep
<1>3. ASSUME NEW s \in Sources, Appear(s) \/ Detect(s) PROVE Rest'
  <2>1. CASE Appear(s)
    BY <2>1, InvFrame DEF Appear
  <2> QED BY <1>3, <2>1, InvDetect
<1>4. ASSUME NEW i \in Ids, Retry(i) \/ DeleteJob(i) PROVE Rest'
  BY <1>4, InvOperator
<1>5. ASSUME Stop \/ Start PROVE Rest'
  BY <1>5, InvProcess
<1>6. ASSUME UNCHANGED vars PROVE Rest'
  BY <1>6, InvFrame DEF vars
<1>7. Rest'
  BY <1>2, <1>3, <1>4, <1>5, <1>6 DEF Next
<1> QED BY <1>1, <1>7 DEF QueueInv

THEOREM QueueInvariant == Spec => []QueueInv
  BY InvInit, InvStep, PTL DEF Spec

(* Every variable of the queue keeps its type.                             *)
THEOREM QueueTypes == Spec => []TypeOK
<1>1. QueueInv => TypeOK
  BY DEF QueueInv
<1> QED BY <1>1, QueueInvariant, PTL

(* The release folder of a completed job holds the NZB of its own run,     *)
(* unless another source shares the folder.                                *)
THEOREM OwnNzb == Spec => []CompletedHasItsNzb
<1>1. QueueInv => CompletedHasItsNzb
  BY DEF QueueInv
<1> QED BY <1>1, QueueInvariant, PTL

(* A job shows an error exactly when it failed, and an NZB exactly when it *)
(* is completed.                                                           *)
THEOREM StatusTells == Spec => []StatusExplainsJob
<1>1. QueueInv => StatusExplainsJob
  BY DEF QueueInv
<1> QED BY <1>1, QueueInvariant, PTL

(* No source is uploaded twice without a reason.                           *)
THEOREM PostedAtMostOnce == Spec => NoUnaskedRepost
<1> DEFINE A == worker.at = "work" /\ worker'.at = "save" /\ Undisturbed => worker.source \notin posted
<1>1. QueueInv => A
  <2> SUFFICES ASSUME QueueInv, worker.at = "work", Undisturbed, worker.source \in posted PROVE FALSE
    OBVIOUS
  <2>0. QueueInv /\ worker.at = "work" /\ Undisturbed /\ worker.source \in posted
    OBVIOUS
  <2>1. /\ worker.id \in Existing /\ jobs[worker.id].status = "processing"
        /\ jobs[worker.id].source = worker.source
    BY <2>0 DEF Undisturbed, With, Existing, QueueInv, InHand, Busy
  <2>2. PICK k \in Existing : /\ jobs[k].source = worker.source
                              /\ jobs[k].status \in {"completed", "failed"} \/ AboutToEnd(k)
    BY <2>0 DEF QueueInv, PostedOnce
  <2>3. k = worker.id
    <3>1. \A i, j \in Existing : jobs[i].source = jobs[j].source => i = j
      BY <2>0 DEF QueueInv, Table
    <3> QED BY <2>1, <2>2, <3>1
  <2> QED BY <2>0, <2>1, <2>2, <2>3 DEF AboutToEnd
<1>2. QueueInv /\ [Next]_vars => [A]_vars
  BY <1>1
<1> QED BY <1>2, QueueInvariant, PTL DEF Spec, NoUnaskedRepost
====
