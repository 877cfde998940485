--------------------------- MODULE TaskLoopProofs ---------------------------
(***************************************************************************)
(* The poll loop and its tasks, for any sets of requests and goroutines    *)
(* and any limits: no request has two tasks, a finished upload is kept as  *)
(* long as the process runs (SureWrites: and its backup can be written),   *)
(* every task tells the site one verdict, disk rejections are honoured     *)
(* across restarts, and claims stay within the limit.                      *)
(***************************************************************************)
EXTENDS TaskLoop, FiniteSetTheorems, TLAPS

SureWrites == WriteOutcomes = {TRUE}

(* A free slot is idle, a task has a request, and so have the reply at     *)
(* hand and the file that runBackfill has read.                            *)
Shaped ==
  /\ \A s \in Slots : IF Live(s) THEN tasks[s].req \in Requests ELSE tasks[s] = NoTask
  /\ loop = "claim" => offered \in Requests
  /\ backfill.at \in {"submit", "remove"} => backfill.req \in Requests

Typed == TypeOK /\ Shaped

(* Between the test of the capacity and the claim there is room.           *)
Room ==
  /\ IsFiniteSet(active)
  /\ loop # "top" => Cardinality(active) < limit

(* Nothing runs in a dead process.                                         *)
Stopped == proc = "down" => \A s \in Slots : ~Live(s)

(* runBackfill removes the file of a request the site has a release for.   *)
RemovesTaken == backfill.at = "remove" => backfill.req \in fulfilled

(* What a task has told the site follows from where it is.                 *)
ToldBy(t) ==
  /\ t.at \in {"none", "start", "download", "publish", "fail"} => t.told = {}
  /\ t.at \in {"report", "wait"} => t.told \subseteq {"completed"}
  /\ t.at = "mark" => t.told = {"aborted"} /\ t.why \in {"disk", "local"}
  /\ t.at \in {"backup", "seed"} => t.told = {"completed"}
  /\ t.at = "cleanup" => \E v : t.told = {v}
Told == \A s \in Slots : ToldBy(tasks[s])

(* A refused request is saved, and known to the running process, or its    *)
(* task is about to save it.                                               *)
Saving(r) == \E s \in Slots : tasks[s].at = "mark" /\ tasks[s].why = "disk" /\ tasks[s].req = r
Remembered ==
  \A r \in refused :
    \/ Saving(r)
    \/ r \in fresh /\ r \in skipFile /\ (proc = "up" => r \in skip)

-----------------------------------------------------------------------------
(* The shape of the steps.                                                 *)

(* The steps of a task before its release, and its cancellation.           *)
Work(s) ==
  \/ /\ proc = "up"
     /\ \/ Begin(s) \/ Download(s) \/ Publish(s) \/ Fail(s) \/ Mark(s)
        \/ Accepted(s) \/ Rejected(s) \/ Maintenance(s) \/ Waited(s) \/ Backup(s) \/ Seed(s)
  \/ Cancel(s)

(* All of them keep the goroutine, and its request.                        *)
Moves(s) ==
  /\ proc = "up" /\ Live(s)
  /\ \E new \in TaskStates : /\ tasks' = [tasks EXCEPT ![s] = new]
                        /\ new.req = tasks[s].req /\ new.at # "none"
  /\ UNCHANGED <<loopVars, active>>

(* The steps that concern no task.                                         *)
Aside ==
  \/ SkipTurn \/ StartPoll \/ PollNothing \/ (\E r \in Requests : PollTask(r))
  \/ BackfillStep
  \/ Start \/ SetCommand \/ PauseQueue \/ Signal \/ Settle \/ EndPause
  \/ (\E r \in Requests : Expire(r))
  \/ UNCHANGED vars

LEMMA AsideKeepsTasks == ASSUME Aside PROVE UNCHANGED <<tasks, active>>
  BY DEF Aside, SkipTurn, StartPoll, PollNothing, PollTask, BackfillStep, Start, SetCommand,
         PauseQueue, Signal, Settle, EndPause, Expire, vars

(* The records that the steps make of a task.                              *)
LEMMA EndedRecord ==
  ASSUME NEW t \in TaskStates, NEW a \in Places
  PROVE  /\ Ended(t, a) \in TaskStates /\ Ended(t, a).at = a
         /\ Ended(t, a).req = t.req /\ Ended(t, a).told = t.told
  BY DEF Ended, Leaving, TaskStates

LEMMA FailedRecord ==
  ASSUME NEW t \in TaskStates, NEW why \in Reasons
  PROVE  /\ Failed(t, why) \in TaskStates /\ Failed(t, why).at = "fail" /\ Failed(t, why).why = why
         /\ Failed(t, why).req = t.req /\ Failed(t, why).told = t.told
  BY DEF Failed, Leaving, TaskStates, Places

LEMMA TellingRecord ==
  ASSUME NEW t \in TaskStates
  PROVE  /\ Telling(t) \in TaskStates /\ Telling(t).at = t.at /\ Telling(t).req = t.req
         /\ Telling(t).told = t.told \cup {"completed"}
         /\ Waiting(t) \in TaskStates /\ Waiting(t).at = "wait" /\ Waiting(t).req = t.req
         /\ Waiting(t).told = t.told \cup {"completed"}
  BY DEF Telling, Waiting, TaskStates, Places

LEMMA NewTaskRecord ==
  ASSUME NEW r \in Requests
  PROVE  /\ NewTask(r) \in TaskStates /\ NewTask(r).at = "start"
         /\ NewTask(r).req = r /\ NewTask(r).told = {}
  BY DEF NewTask, TaskStates, Places, Reasons

LEMMA WorkMoves ==
  ASSUME Typed, NEW s \in Slots, Work(s)
  PROVE  Moves(s)
<1>0. tasks[s] \in TaskStates /\ tasks \in [Slots -> TaskStates]
  BY DEF Typed, TypeOK
<1> USE DEF Update, Live
<1>a. \A new \in TaskStates : (proc = "up" /\ Live(s) /\ Update(s, new) /\ new.req = tasks[s].req
                          /\ new.at # "none" /\ UNCHANGED <<loopVars, active>>) => Moves(s)
  BY DEF Moves
<1>1. CASE proc = "up" /\ Begin(s)
  <2>a. /\ [tasks[s] EXCEPT !.at = "download"] \in TaskStates /\ [tasks[s] EXCEPT !.at = "download"].at = "download"
        /\ [tasks[s] EXCEPT !.at = "download"].req = tasks[s].req
    BY <1>0 DEF TaskStates, Places
  <2>b. \A why \in Reasons : /\ Failed(tasks[s], why) \in TaskStates /\ Failed(tasks[s], why).at = "fail"
                              /\ Failed(tasks[s], why).req = tasks[s].req
    BY <1>0, FailedRecord
  <2>1. PICK new \in {Failed(tasks[s], "cooldown"), [tasks[s] EXCEPT !.at = "download"]} : Update(s, new)
    BY <1>1 DEF Begin
  <2>2. new \in TaskStates /\ new.req = tasks[s].req /\ new.at # "none"
    BY <2>1, <2>a, <2>b DEF Reasons
  <2> QED BY <1>1, <1>a, <2>1, <2>2 DEF Begin
<1>2. CASE proc = "up" /\ Download(s)
  <2>a. /\ [tasks[s] EXCEPT !.at = "publish"] \in TaskStates /\ [tasks[s] EXCEPT !.at = "publish"].at = "publish"
        /\ [tasks[s] EXCEPT !.at = "publish"].req = tasks[s].req
    BY <1>0 DEF TaskStates, Places
  <2>b. \A why \in Reasons : /\ Failed(tasks[s], why) \in TaskStates /\ Failed(tasks[s], why).at = "fail"
                              /\ Failed(tasks[s], why).req = tasks[s].req
    BY <1>0, FailedRecord
  <2>1. PICK new \in {[tasks[s] EXCEPT !.at = "publish"]} \cup {Failed(tasks[s], why) : why \in Reasons} : Update(s, new)
    BY <1>2 DEF Download, Reasons
  <2>2. new \in TaskStates /\ new.req = tasks[s].req /\ new.at # "none"
    BY <2>1, <2>a, <2>b
  <2> QED BY <1>2, <1>a, <2>1, <2>2 DEF Download
<1>3. CASE proc = "up" /\ Publish(s)
  <2>a. /\ [tasks[s] EXCEPT !.at = "report"] \in TaskStates /\ [tasks[s] EXCEPT !.at = "report"].at = "report"
        /\ [tasks[s] EXCEPT !.at = "report"].req = tasks[s].req
    BY <1>0 DEF TaskStates, Places
  <2>b. \A why \in Reasons : /\ Failed(tasks[s], why) \in TaskStates /\ Failed(tasks[s], why).at = "fail"
                              /\ Failed(tasks[s], why).req = tasks[s].req
    BY <1>0, FailedRecord
  <2>1. PICK new \in {[tasks[s] EXCEPT !.at = "report"]} \cup {Failed(tasks[s], why) : why \in Reasons} : Update(s, new)
    BY <1>3 DEF Publish, PublishFailed, Reasons
  <2>2. new \in TaskStates /\ new.req = tasks[s].req /\ new.at # "none"
    BY <2>1, <2>a, <2>b
  <2> QED BY <1>3, <1>a, <2>1, <2>2 DEF Publish
<1>4. CASE proc = "up" /\ Fail(s)
  <2> DEFINE told == [tasks[s] EXCEPT !.told = @ \cup {Verdict(tasks[s].why)}]
  <2>1. told \in TaskStates /\ told.req = tasks[s].req
    BY <1>0 DEF Verdict, TaskStates
  <2>2. PICK new \in {[told EXCEPT !.at = "mark"], Ended(told, "cleanup")} : Update(s, new)
    BY <1>4 DEF Fail
  <2>a. Ended(told, "cleanup") \in TaskStates /\ Ended(told, "cleanup").at = "cleanup"
        /\ Ended(told, "cleanup").req = told.req
    BY <2>1, EndedRecord DEF Places
  <2> HIDE DEF told
  <2>b. [told EXCEPT !.at = "mark"] \in TaskStates /\ [told EXCEPT !.at = "mark"].at = "mark"
        /\ [told EXCEPT !.at = "mark"].req = told.req
    BY <2>1 DEF TaskStates, Places
  <2>3. new \in TaskStates /\ new.req = tasks[s].req /\ new.at # "none"
    BY <2>1, <2>2, <2>a, <2>b
  <2> QED BY <1>4, <1>a, <2>2, <2>3 DEF Fail
<1>5. CASE proc = "up" /\ Mark(s)
  <2>1. Ended(tasks[s], "cleanup") \in TaskStates /\ Ended(tasks[s], "cleanup").req = tasks[s].req
        /\ Ended(tasks[s], "cleanup").at = "cleanup"
    BY <1>0, TellingRecord, EndedRecord DEF Places
  <2> QED BY <1>5, <1>a, <2>1 DEF Mark
<1>6. CASE proc = "up" /\ Accepted(s)
  <2>1. /\ Ended(Telling(tasks[s]), "seed") \in TaskStates /\ Ended(Telling(tasks[s]), "seed").at = "seed"
        /\ Ended(Telling(tasks[s]), "seed").req = tasks[s].req
    BY <1>0, TellingRecord, EndedRecord DEF Places
  <2> QED BY <1>6, <1>a, <2>1 DEF Accepted
<1>7. CASE proc = "up" /\ Rejected(s)
  <2>1. PICK new \in {Ended(Telling(tasks[s]), "backup"), [Telling(tasks[s]) EXCEPT !.tries = Attempt(tasks[s])]} :
          Update(s, new) /\ (Attempt(tasks[s]) >= 3 => new = Ended(Telling(tasks[s]), "backup"))
    BY <1>7 DEF Rejected
  <2>2. Ended(Telling(tasks[s]), "backup") \in TaskStates /\ Ended(Telling(tasks[s]), "backup").at = "backup"
        /\ Ended(Telling(tasks[s]), "backup").req = tasks[s].req
    BY <1>0, TellingRecord, EndedRecord DEF Places
  <2>3. Telling(tasks[s]) \in TaskStates /\ Telling(tasks[s]).at = "report" /\ Telling(tasks[s]).req = tasks[s].req
    BY <1>0, <1>7, TellingRecord DEF Rejected
  <2>4. new \in TaskStates /\ new.req = tasks[s].req /\ new.at # "none"
    BY <1>0, <2>1, <2>2, <2>3 DEF TaskStates, Attempt
  <2> QED BY <1>7, <1>a, <2>1, <2>4 DEF Rejected
<1>8. CASE proc = "up" /\ Maintenance(s)
  <2>1. PICK new \in {Ended(Telling(tasks[s]), "backup"), Waiting(tasks[s])} : Update(s, new)
    BY <1>8 DEF Maintenance
  <2>2. new \in TaskStates /\ new.req = tasks[s].req /\ new.at # "none"
    BY <1>0, <2>1, TellingRecord, EndedRecord DEF Places
  <2> QED BY <1>8, <1>a, <2>1, <2>2 DEF Maintenance
<1>9. CASE proc = "up" /\ Waited(s)
  <2>1. [tasks[s] EXCEPT !.at = "report"] \in TaskStates /\ [tasks[s] EXCEPT !.at = "report"].req = tasks[s].req
        /\ [tasks[s] EXCEPT !.at = "report"].at = "report"
    BY <1>0 DEF TaskStates, Places
  <2> QED BY <1>9, <1>a, <2>1 DEF Waited
<1>10. CASE proc = "up" /\ Backup(s)
  <2>1. Ended(tasks[s], "cleanup") \in TaskStates /\ Ended(tasks[s], "cleanup").req = tasks[s].req
        /\ Ended(tasks[s], "cleanup").at = "cleanup"
    BY <1>0, TellingRecord, EndedRecord DEF Places
  <2> QED BY <1>10, <1>a, <2>1 DEF Backup
<1>11. CASE proc = "up" /\ Seed(s)
  <2>1. Ended(tasks[s], "cleanup") \in TaskStates /\ Ended(tasks[s], "cleanup").req = tasks[s].req
        /\ Ended(tasks[s], "cleanup").at = "cleanup"
    BY <1>0, TellingRecord, EndedRecord DEF Places
  <2> QED BY <1>11, <1>a, <2>1 DEF Seed
<1>12. CASE Cancel(s)
  <2>1. [tasks[s] EXCEPT !.cancelled = TRUE] \in TaskStates
        /\ [tasks[s] EXCEPT !.cancelled = TRUE].req = tasks[s].req
        /\ [tasks[s] EXCEPT !.cancelled = TRUE].at = tasks[s].at
    BY <1>0 DEF TaskStates
  <2> QED BY <1>12, <1>a, <2>1 DEF Cancel
<1> QED BY <1>1, <1>2, <1>3, <1>4, <1>5, <1>6, <1>7, <1>8, <1>9, <1>10, <1>11, <1>12, Work(s) DEF Work

(* Every step is one of five kinds.                                        *)
LEMMA Kinds ==
  ASSUME [Next]_vars
  PROVE  \/ Aside
         \/ Claim
         \/ PollDrain \/ ExitOnSignal \/ Crash
         \/ \E s \in Slots : Work(s)
         \/ \E s \in Slots : proc = "up" /\ Release(s)
  BY DEF Next, LoopStep, Environment, TaskStep, Aside, Work

-----------------------------------------------------------------------------
(* Type correctness.                                                       *)

LEMMA TypedInit == Init => Typed
<1> SUFFICES ASSUME Init PROVE Typed
  OBVIOUS
<1>1. NoTask \in TaskStates /\ [Asleep EXCEPT !.at = "scan"] \in Backfills
  BY DEF NoTask, TaskStates, Places, Reasons, Asleep, Backfills
<1>2. AbortThreshold \in Nat /\ MaxEvents \in Nat /\ MaxHanded \in Nat
  BY LoopAssumption
<1>3. backfill \in Backfills /\ tasks \in [Slots -> TaskStates]
  BY <1>1 DEF Init
<1>b. {signalled, settled, queuePaused, pausing} \subseteq BOOLEAN
  BY Zenon DEF Init
<1>4. TypeOK
  BY <1>2, <1>3, <1>b DEF Init, TypeOK
<1>5. Shaped
  BY DEF Init, Shaped, Live, NoTask, Asleep
<1> QED BY <1>4, <1>5 DEF Typed

(* What runBackfill makes of its state.                                    *)
LEMMA BackfillTyped ==
  ASSUME Typed, BackfillStep
  PROVE  /\ backfill' \in Backfills /\ backups' \subseteq Requests /\ fulfilled' \subseteq Requests
         /\ backfill'.at \in {"submit", "remove"} => backfill'.req \in Requests
<1>0. /\ backfill \in Backfills /\ backups \subseteq Requests /\ fulfilled \subseteq Requests
      /\ backfill.at \in {"submit", "remove"} => backfill.req \in Requests
  BY DEF Typed, TypeOK, Shaped
<1>1. NextFile \in Backfills /\ NextFile.at = "idle"
  BY <1>0 DEF NextFile, Backfills
<1>2. CASE BackfillScan
  BY <1>0, <1>2 DEF BackfillScan, Backfills, Asleep
<1>3. ASSUME NEW r \in Requests, BackfillRead(r) 
      PROVE /\ backfill' \in Backfills /\ backups' \subseteq Requests /\ fulfilled' \subseteq Requests
            /\ backfill'.at \in {"submit", "remove"} => backfill'.req \in Requests
  BY <1>0, <1>3 DEF BackfillRead, Backfills
<1>4. CASE BackfillSubmit
  BY <1>0, <1>1, <1>4 DEF BackfillSubmit, Backfills
<1>5. CASE BackfillRemove
  BY <1>0, <1>1, <1>5 DEF BackfillRemove
<1> QED BY <1>2, <1>3, <1>4, <1>5 DEF BackfillStep

LEMMA AsideTyped == ASSUME Typed, Aside PROVE Typed'
<1> USE DEF Typed, TypeOK, Shaped, Live
<1>1. CASE SkipTurn
  BY <1>1 DEF SkipTurn, SetLimit, siteVars, abortVars, skipVars, nzbVars, budget
<1>2. CASE StartPoll
  BY <1>2 DEF StartPoll, SetLimit, siteVars, abortVars, skipVars, nzbVars, budget
<1>3. CASE PollNothing
  BY <1>3 DEF PollNothing, siteVars, abortVars, skipVars, nzbVars, budget
<1>4. CASE \E r \in Requests : PollTask(r)
  BY <1>4, LoopAssumption DEF PollTask, siteVars, abortVars, skipVars, nzbVars, budget
<1>5. CASE BackfillStep
  BY <1>5, BackfillTyped DEF BackfillStep, loopVars, abortVars, skipVars, budget
<1>6. CASE Start
  <2>1. backfill' \in Backfills /\ backfill'.at = "scan"
    BY <1>6 DEF Start, Asleep, Backfills
  <2> QED BY <1>6, <2>1 DEF Start, Loaded, siteVars, abortVars, budget
<1>7. CASE SetCommand
  BY <1>7, LoopAssumption DEF SetCommand, Intervene, loopVars, abortVars, skipVars, nzbVars
<1>8. CASE PauseQueue
  BY <1>8, LoopAssumption DEF PauseQueue, Intervene, siteVars, abortVars, skipVars, nzbVars
<1>9. CASE Signal
  BY <1>9, LoopAssumption DEF Signal, Intervene, siteVars, abortVars, skipVars, nzbVars
<1>10. CASE Settle
  BY <1>10 DEF Settle, siteVars, abortVars, skipVars, nzbVars, budget
<1>11. CASE EndPause
  BY <1>11 DEF EndPause, siteVars, loopVars, skipVars, nzbVars, budget
<1>12. CASE \E r \in Requests : Expire(r)
  BY <1>12, LoopAssumption DEF Expire, Intervene, siteVars, loopVars, abortVars, nzbVars
<1>13. CASE UNCHANGED vars
  BY <1>13 DEF vars, siteVars, loopVars, abortVars, skipVars, nzbVars, budget
<1> QED BY <1>1, <1>2, <1>3, <1>4, <1>5, <1>6, <1>7, <1>8, <1>9, <1>10, <1>11, <1>12, <1>13 DEF Aside

LEMMA ClaimTyped == ASSUME Typed, Claim PROVE Typed'
<1> USE DEF Typed, TypeOK, Shaped, Live
<1>1. offered \in Requests
  BY DEF Claim
<1>2. /\ NewTask(offered) \in TaskStates /\ NewTask(offered).at = "start"
      /\ NewTask(offered).req = offered
  BY <1>1, NewTaskRecord
<1>3. \/ UNCHANGED <<tasks, active>>
      \/ /\ active' = active \cup {offered}
         /\ \E s \in Slots : tasks' = [tasks EXCEPT ![s] = NewTask(offered)]
  BY DEF Claim
<1>4. /\ tasks' \in [Slots -> TaskStates] /\ active' \subseteq Requests
      /\ \A s \in Slots : IF Live(s)' THEN tasks'[s].req \in Requests ELSE tasks'[s] = NoTask
  BY <1>1, <1>2, <1>3
<1> QED BY <1>4 DEF Claim, siteVars, abortVars, skipVars, nzbVars, budget

LEMMA DownTyped ==
  ASSUME Typed, Down, events' \in 0..MaxEvents, handed' \in 0..MaxHanded
  PROVE  Typed'
<1> USE DEF Typed, TypeOK, Shaped, Live
<1>1. NoTask \in TaskStates /\ Asleep \in Backfills /\ Asleep.at = "idle" /\ NoTask.at = "none"
  BY DEF NoTask, TaskStates, Places, Reasons, Asleep, Backfills
<1>2. /\ tasks' \in [Slots -> TaskStates]
      /\ \A s \in Slots : ~Live(s)' /\ tasks'[s] = NoTask
  BY <1>1 DEF Down
<1>3. /\ signalled' \in BOOLEAN /\ settled' \in BOOLEAN /\ pausing' \in BOOLEAN
  BY Zenon DEF Down
<1>4. aborts' \in 0..AbortThreshold
  BY LoopAssumption DEF Down
<1> QED BY <1>1, <1>2, <1>3, <1>4 DEF Down, siteVars

LEMMA WorkTyped == ASSUME Typed, NEW s \in Slots, Work(s) PROVE Typed'
<1>1. Moves(s)
  BY WorkMoves
<1>2. /\ tasks' \in [Slots -> TaskStates]
      /\ \A u \in Slots : IF Live(u)' THEN tasks'[u].req \in Requests ELSE tasks'[u] = NoTask
  BY <1>1 DEF Moves, Typed, TypeOK, Shaped, Live
<1>3. tasks[s].req \in Requests
  BY <1>1 DEF Moves, Typed, Shaped, Live
<1>4. /\ fulfilled' \subseteq Requests /\ command' = command
      /\ backups' \subseteq Requests /\ finished' \subseteq Requests /\ backfill' = backfill
  BY <1>3 DEF Typed, TypeOK, Work, Begin, Download, Publish, Fail, Mark, MarkOversize, RecordAbort,
       Accepted, Rejected, Maintenance, Waited, Backup, Seed, Cancel, siteVars, nzbVars
<1>5. /\ skip' \subseteq Requests /\ skipFile' \subseteq Requests
      /\ fresh' \subseteq Requests /\ refused' \subseteq Requests
  BY <1>3 DEF Typed, TypeOK, Work, Begin, Download, Publish, Fail, Mark, MarkOversize, RecordAbort,
       Accepted, Rejected, Maintenance, Waited, Backup, Seed, Cancel, skipVars
<1>6. AbortThreshold \in Nat \ {0} /\ MaxEvents \in Nat
  BY LoopAssumption
<1>7. aborts' \in 0..AbortThreshold
  BY <1>6 DEF Typed, TypeOK, Work, Begin, Download, Publish, Fail, Mark, MarkOversize, RecordAbort,
       Accepted, Rejected, Maintenance, Waited, Backup, Seed, Cancel, abortVars
<1>8. pausing' = pausing \/ pausing' = (pausing \/ aborts' = AbortThreshold)
  BY DEF Work, Begin, Download, Publish, Fail, Mark, MarkOversize, RecordAbort,
       Accepted, Rejected, Maintenance, Waited, Backup, Seed, Cancel, abortVars
<1>9. pausing' \in BOOLEAN
  BY <1>8, Zenon DEF Typed, TypeOK
<1>10. events' \in 0..MaxEvents /\ handed' = handed
  BY <1>6 DEF Typed, TypeOK, Work, Begin, Download, Publish, Fail, Mark, Accepted, Rejected,
       Maintenance, Waited, Backup, Seed, Cancel, Intervene, budget
<1>11. UNCHANGED <<loopVars, active>>
  BY <1>1 DEF Moves
<1> QED BY <1>2, <1>4, <1>5, <1>7, <1>9, <1>10, <1>11 DEF Typed, TypeOK, Shaped, loopVars

LEMMA ReleaseTyped == ASSUME Typed, NEW s \in Slots, Release(s) PROVE Typed'
<1>1. NoTask \in TaskStates /\ NoTask.at = "none"
  BY DEF NoTask, TaskStates, Places, Reasons
<1> QED BY <1>1 DEF Release, Update, Typed, TypeOK, Shaped, Live, siteVars, loopVars, abortVars,
     skipVars, nzbVars, budget

LEMMA TypedStep == ASSUME Typed, [Next]_vars PROVE Typed'
<1>1. CASE Aside
  BY <1>1, AsideTyped
<1>2. CASE Claim
  BY <1>2, ClaimTyped
<1>3. CASE PollDrain \/ ExitOnSignal \/ Crash
  <2>1. MaxEvents \in Nat
    BY LoopAssumption
  <2>2. Down /\ events' \in 0..MaxEvents /\ handed' \in 0..MaxHanded
    BY <1>3, <2>1 DEF PollDrain, ExitOnSignal, Crash, Intervene, budget, Typed, TypeOK
  <2> QED BY <2>2, DownTyped
<1>4. CASE \E s \in Slots : Work(s)
  BY <1>4, WorkTyped
<1>5. CASE \E s \in Slots : Release(s)
  BY <1>5, ReleaseTyped
<1> QED BY <1>1, <1>2, <1>3, <1>4, <1>5, Kinds

(* The types are kept: in particular a task always has a request, and a    *)
(* slot without one is idle.                                               *)
THEOREM LoopTypes == Spec => []TypeOK
<1>1. Init => Typed
  BY TypedInit
<1>2. Typed /\ [Next]_vars => Typed'
  BY TypedStep
<1>3. Typed => TypeOK
  BY DEF Typed
<1> QED BY <1>1, <1>2, <1>3, PTL DEF Spec

-----------------------------------------------------------------------------
(* One task per request.                                                   *)

LEMMA OneTaskStep ==
  ASSUME Typed, OneTaskPerRequest, [Next]_vars
  PROVE  OneTaskPerRequest'
<1>0. tasks \in [Slots -> TaskStates] /\ NoTask.at = "none"
  BY DEF Typed, TypeOK, NoTask
<1>1. CASE Aside
  BY <1>1, AsideKeepsTasks DEF OneTaskPerRequest, Live
<1>2. CASE Claim
  <2>1. CASE offered \in active
    BY <1>2, <2>1 DEF Claim, Claimable, OneTaskPerRequest, Live
  <2>2. CASE offered \notin active
    <3>1. offered \in Requests
      BY <1>2 DEF Claim, Typed, Shaped
    <3>2. PICK s \in Slots : ~Live(s) /\ tasks' = [tasks EXCEPT ![s] = NewTask(offered)]
      BY <1>2, <2>2 DEF Claim, Claimable
    <3>3. /\ \A u \in Slots : u # s => tasks'[u] = tasks[u]
          /\ tasks'[s].at # "none" /\ tasks'[s].req = offered
      BY <1>0, <3>1, <3>2, NewTaskRecord
    <3>4. \A u \in Slots : Live(u) => tasks[u].req # offered
      BY <2>2 DEF OneTaskPerRequest
    <3>5. active' = active \cup {offered}
      BY <1>2, <2>2 DEF Claim, Claimable
    <3> QED BY <3>2, <3>3, <3>4, <3>5 DEF OneTaskPerRequest, Live
  <2> QED BY <2>1, <2>2
<1>3. CASE PollDrain \/ ExitOnSignal \/ Crash
  <2>1. Down
    BY <1>3 DEF PollDrain, ExitOnSignal, Crash
  <2> QED BY <1>0, <2>1 DEF Down, OneTaskPerRequest, Live
<1>4. ASSUME NEW s \in Slots, Work(s) PROVE OneTaskPerRequest'
  <2>1. Moves(s)
    BY <1>4, WorkMoves
  <2>2. \A u \in Slots : (Live(u)' <=> Live(u)) /\ tasks'[u].req = tasks[u].req
    BY <1>0, <2>1 DEF Moves, Live
  <2> QED BY <2>1, <2>2 DEF Moves, OneTaskPerRequest
<1>5. ASSUME NEW s \in Slots, Release(s) PROVE OneTaskPerRequest'
  <2>1. /\ Live(s) /\ ~Live(s)' /\ active' = active \ {tasks[s].req}
        /\ \A u \in Slots : u # s => tasks'[u] = tasks[u]
    BY <1>0, <1>5 DEF Release, Update, Live
  <2> QED BY <2>1 DEF OneTaskPerRequest, Live
<1> QED BY <1>1, <1>2, <1>3, <1>4, <1>5, Kinds

(* For any number of requests, goroutines and restarts no request has two  *)
(* tasks, and activeTasks holds exactly the requests that have one.        *)
THEOREM OneTask == Spec => []OneTaskPerRequest
<1>1. Init => Typed /\ OneTaskPerRequest
  <2>1. Init => OneTaskPerRequest
    BY DEF Init, OneTaskPerRequest, Live, NoTask
  <2> QED BY <2>1, TypedInit
<1>2. (Typed /\ OneTaskPerRequest) /\ [Next]_vars => (Typed /\ OneTaskPerRequest)'
  BY TypedStep, OneTaskStep
<1> QED BY <1>1, <1>2, PTL DEF Spec

-----------------------------------------------------------------------------
(* No finished upload is lost while the process runs.                      *)

(* What runBackfill does is safe: it removes only what the site has.       *)
LEMMA AsideSafe ==
  ASSUME Typed, Aside, RemovesTaken
  PROVE  Safe \subseteq Safe' /\ finished' = finished /\ RemovesTaken'
<1>1. CASE BackfillStep
  <2>1. finished' = finished
    BY <1>1 DEF BackfillStep
  <2>2. CASE BackfillScan
    BY <2>1, <2>2 DEF BackfillScan, Safe, RemovesTaken, Asleep
  <2>3. ASSUME NEW r \in Requests, BackfillRead(r)
        PROVE  Safe \subseteq Safe' /\ finished' = finished /\ RemovesTaken'
    BY <2>1, <2>3 DEF BackfillRead, Safe, RemovesTaken
  <2>4. CASE BackfillSubmit
    <3>1. backfill \in Backfills
      BY DEF Typed, TypeOK
    <3>2. /\ [backfill EXCEPT !.at = "remove"].req = backfill.req
          /\ NextFile.at = "idle"
      BY <3>1 DEF NextFile, Backfills
    <3> QED BY <2>1, <2>4, <3>2 DEF BackfillSubmit, Safe, RemovesTaken
  <2>5. CASE BackfillRemove
    BY <2>1, <2>5 DEF BackfillRemove, NextFile, Safe, RemovesTaken
  <2> QED BY <1>1, <2>2, <2>3, <2>4, <2>5 DEF BackfillStep
<1>2. CASE Start
  BY <1>2 DEF Start, Safe, RemovesTaken, Asleep, siteVars
<1>3. CASE ~BackfillStep /\ ~Start
  <2>1. UNCHANGED <<fulfilled, nzbVars>>
    BY <1>3 DEF Aside, SkipTurn, StartPoll, PollNothing, PollTask, SetCommand, PauseQueue,
         Signal, Settle, EndPause, Expire, vars, siteVars
  <2> QED BY <2>1 DEF nzbVars, Safe, RemovesTaken
<1> QED BY <1>1, <1>2, <1>3

(* What the steps of a task do to the NZBs: a task in whose hands a        *)
(* finished upload is keeps it there, or has put it where it is safe.      *)
Holding == {"report", "wait", "backup"}
LEMMA WorkSafe ==
  ASSUME SureWrites, Typed, NEW s \in Slots, Work(s)
  PROVE  /\ fulfilled \subseteq fulfilled' /\ backups \subseteq backups' /\ backfill' = backfill
         /\ finished' \subseteq finished \cup {tasks[s].req}
         /\ (tasks[s].at \in Holding \/ finished' # finished)
              => tasks'[s].at \in Holding \/ tasks[s].req \in Safe'
<1>0. tasks[s] \in TaskStates /\ tasks \in [Slots -> TaskStates]
  BY DEF Typed, TypeOK
<1>1. CASE Begin(s) \/ Download(s) \/ Fail(s) \/ Mark(s) \/ Seed(s)
  BY <1>1 DEF Begin, Download, Fail, Mark, Seed, siteVars, nzbVars, Holding
<1>2. CASE Publish(s)
  <2>1. [tasks[s] EXCEPT !.at = "report"].at = "report"
    BY <1>0 DEF TaskStates
  <2>2. CASE Update(s, [tasks[s] EXCEPT !.at = "report"]) /\ finished' = finished \cup {tasks[s].req}
    BY <1>0, <1>2, <2>1, <2>2 DEF Publish, Update, siteVars, Holding
  <2>3. CASE finished' = finished
    BY <1>2, <2>3 DEF Publish, siteVars, Holding
  <2> QED BY <1>2, <2>2, <2>3 DEF Publish
<1>3. CASE Accepted(s)
  BY <1>3 DEF Accepted, nzbVars, Safe
<1>4. CASE Rejected(s)
  <2>1. Ended(Telling(tasks[s]), "backup").at = "backup"
    BY <1>0, TellingRecord, EndedRecord DEF Places
  <2>2. [Telling(tasks[s]) EXCEPT !.tries = Attempt(tasks[s])].at = "report"
    BY <1>0, <1>4, TellingRecord DEF Rejected, TaskStates
  <2>3. tasks'[s].at \in Holding
    BY <1>0, <1>4, <2>1, <2>2 DEF Rejected, Update, Holding
  <2> QED BY <1>4, <2>3 DEF Rejected, nzbVars
<1>5. CASE Maintenance(s)
  <2>1. Ended(Telling(tasks[s]), "backup").at = "backup" /\ Waiting(tasks[s]).at = "wait"
    BY <1>0, TellingRecord, EndedRecord DEF Places
  <2>2. tasks'[s].at \in Holding
    BY <1>0, <1>5, <2>1 DEF Maintenance, Update, Holding
  <2> QED BY <1>5, <2>2 DEF Maintenance, siteVars, nzbVars
<1>6. CASE Waited(s)
  <2>1. tasks'[s].at = "report"
    BY <1>0, <1>6 DEF Waited, Update, TaskStates
  <2> QED BY <1>6, <2>1 DEF Waited, siteVars, nzbVars, Holding
<1>7. CASE Backup(s)
  BY <1>7 DEF Backup, SureWrites, Safe, siteVars
<1>8. CASE Cancel(s)
  <2>1. tasks'[s].at = tasks[s].at
    BY <1>0, <1>8 DEF Cancel, Update, TaskStates
  <2> QED BY <1>8, <2>1 DEF Cancel, siteVars, nzbVars
<1> QED BY <1>1, <1>2, <1>3, <1>4, <1>5, <1>6, <1>7, <1>8 DEF Work

LEMMA KeptStep ==
  ASSUME SureWrites, Typed, RemovesTaken, FinishedKept, [Next]_vars
  PROVE  RemovesTaken' /\ FinishedKept'
<1>0. tasks \in [Slots -> TaskStates]
  BY DEF Typed, TypeOK
<1>1. CASE Aside
  BY <1>1, AsideKeepsTasks, AsideSafe DEF FinishedKept, Holders
<1>2. CASE Claim
  <2>1. UNCHANGED <<fulfilled, backups, backfill, finished>>
    BY <1>2 DEF Claim, siteVars, nzbVars
  <2>2. \A u \in Slots : Live(u) => tasks'[u] = tasks[u]
    BY <1>0, <1>2 DEF Claim
  <2>3. \A r : Holders(r) \subseteq Holders(r)'
    BY <2>2 DEF Holders, Live
  <2> QED BY <2>1, <2>3 DEF FinishedKept, RemovesTaken, Safe
<1>3. CASE PollDrain \/ ExitOnSignal \/ Crash
  <2>1. Down
    BY <1>3 DEF PollDrain, ExitOnSignal, Crash
  <2> QED BY <2>1 DEF Down, FinishedKept, RemovesTaken, Safe, Asleep, siteVars
<1>4. ASSUME NEW s \in Slots, Work(s) PROVE RemovesTaken' /\ FinishedKept'
  <2>1. /\ fulfilled \subseteq fulfilled' /\ backups \subseteq backups' /\ backfill' = backfill
        /\ finished' \subseteq finished \cup {tasks[s].req}
        /\ (tasks[s].at \in Holding \/ finished' # finished)
             => tasks'[s].at \in Holding \/ tasks[s].req \in Safe'
    BY <1>4, WorkSafe
  <2>2. /\ \A u \in Slots : u # s => tasks'[u] = tasks[u]
        /\ tasks'[s].req = tasks[s].req
    BY <1>0, <1>4, WorkMoves DEF Moves
  <2>3. Safe \subseteq Safe'
    BY <2>1 DEF Safe
  <2>4. ASSUME NEW r \in finished' PROVE r \in Safe' \/ Holders(r)' # {}
    <3>1. CASE r \notin finished
      <4>1. r = tasks[s].req /\ (tasks'[s].at \in Holding \/ r \in Safe')
        BY <2>1, <2>4, <3>1
      <4> QED BY <2>2, <4>1 DEF Holders, Holding
    <3>2. CASE r \in Safe
      BY <2>3, <3>2
    <3>3. CASE Holders(r) # {}
      <4>1. PICK u \in Slots : tasks[u].req = r /\ tasks[u].at \in Holding
        BY <3>3 DEF Holders, Holding
      <4>2. CASE u = s
        BY <2>1, <2>2, <4>1, <4>2 DEF Holders, Holding
      <4>3. CASE u # s
        BY <2>2, <4>1, <4>3 DEF Holders, Holding
      <4> QED BY <4>2, <4>3
    <3> QED BY <3>1, <3>2, <3>3 DEF FinishedKept
  <2> QED BY <2>1, <2>4 DEF FinishedKept, RemovesTaken
<1>5. ASSUME NEW s \in Slots, Release(s) PROVE RemovesTaken' /\ FinishedKept'
  <2>1. UNCHANGED <<fulfilled, backups, backfill, finished>>
    BY <1>5 DEF Release, siteVars, nzbVars
  <2>2. tasks[s].at = "cleanup" /\ \A u \in Slots : u # s => tasks'[u] = tasks[u]
    BY <1>0, <1>5 DEF Release, Update
  <2>3. \A r : Holders(r) \subseteq Holders(r)'
    BY <2>2 DEF Holders
  <2> QED BY <2>1, <2>3 DEF FinishedKept, RemovesTaken, Safe
<1> QED BY <1>1, <1>2, <1>3, <1>4, <1>5, Kinds

(* If backups can be written, the NZB of a finished upload is at the site, *)
(* in its file or still being reported, as long as the process runs.       *)
THEOREM FinishedUploadsKept == ASSUME SureWrites PROVE Spec => []FinishedKept
<1> DEFINE IInv == Typed /\ RemovesTaken /\ FinishedKept
<1>1. Init => IInv
  <2>1. Init => RemovesTaken /\ FinishedKept
    BY DEF Init, RemovesTaken, FinishedKept, Asleep
  <2> QED BY <2>1, TypedInit
<1>2. IInv /\ [Next]_vars => IInv'
  BY TypedStep, KeptStep
<1> QED BY <1>1, <1>2, PTL DEF Spec

(* An agent told to finish and stop ends with no task and no NZB at stake. *)
THEOREM DrainIsSafe == ASSUME SureWrites PROVE Spec => DrainsFirst
<1> DEFINE IInv == Typed /\ OneTaskPerRequest /\ RemovesTaken /\ FinishedKept
           A == PollDrain => /\ \A s \in Slots : ~Live(s)
                             /\ finished \subseteq Safe
<1>1. Init => IInv
  <2>1. Init => OneTaskPerRequest /\ RemovesTaken /\ FinishedKept
    BY DEF Init, OneTaskPerRequest, Live, NoTask, RemovesTaken, FinishedKept, Asleep
  <2> QED BY <2>1, TypedInit
<1>2. IInv /\ [Next]_vars => IInv'
  BY TypedStep, OneTaskStep, KeptStep
<1>3. IInv /\ [Next]_vars => [A]_vars
  <2>1. ASSUME IInv, PollDrain PROVE \A s \in Slots : ~Live(s)
    BY <2>1 DEF PollDrain, Drained, OneTaskPerRequest
  <2>2. ASSUME IInv, PollDrain PROVE finished \subseteq Safe
    BY <2>1, <2>2 DEF FinishedKept, Holders, Live
  <2> QED BY <2>1, <2>2
<1> QED BY <1>1, <1>2, <1>3, PTL DEF Spec, DrainsFirst

-----------------------------------------------------------------------------
(* One verdict on every lock.                                              *)

LEMMA WorkTold ==
  ASSUME Typed, Told, NEW s \in Slots, Work(s)
  PROVE  ToldBy(tasks'[s])
<1>0. tasks[s] \in TaskStates /\ tasks \in [Slots -> TaskStates] /\ ToldBy(tasks[s])
  BY DEF Typed, TypeOK, Told
<1>r. \A why \in Reasons : /\ Failed(tasks[s], why).at = "fail"
                           /\ Failed(tasks[s], why).told = tasks[s].told
  BY <1>0, FailedRecord
<1>e. /\ Ended(tasks[s], "cleanup").at = "cleanup" /\ Ended(tasks[s], "cleanup").told = tasks[s].told
      /\ \A a \in Places : /\ Ended(Telling(tasks[s]), a).at = a
                           /\ Ended(Telling(tasks[s]), a).told = tasks[s].told \cup {"completed"}
  BY <1>0, EndedRecord, TellingRecord DEF Places
<1> USE DEF Update
<1>1. CASE Begin(s)
  <2>1. /\ [tasks[s] EXCEPT !.at = "download"].at = "download"
        /\ [tasks[s] EXCEPT !.at = "download"].told = tasks[s].told
    BY <1>0 DEF TaskStates
  <2> QED BY <1>0, <1>1, <1>r, <2>1 DEF Begin, ToldBy, Reasons
<1>2. CASE Download(s)
  <2>1. /\ [tasks[s] EXCEPT !.at = "publish"].at = "publish"
        /\ [tasks[s] EXCEPT !.at = "publish"].told = tasks[s].told
    BY <1>0 DEF TaskStates
  <2>2. PICK new \in {[tasks[s] EXCEPT !.at = "publish"]} \cup {Failed(tasks[s], why) : why \in Reasons} :
          tasks'[s] = new
    BY <1>0, <1>2 DEF Download, Reasons
  <2> QED BY <1>0, <1>2, <1>r, <2>1, <2>2 DEF Download, ToldBy
<1>3. CASE Publish(s)
  <2>1. /\ [tasks[s] EXCEPT !.at = "report"].at = "report"
        /\ [tasks[s] EXCEPT !.at = "report"].told = tasks[s].told
    BY <1>0 DEF TaskStates
  <2>2. PICK new \in {[tasks[s] EXCEPT !.at = "report"]} \cup {Failed(tasks[s], why) : why \in Reasons} :
          tasks'[s] = new
    BY <1>0, <1>3 DEF Publish, PublishFailed, Reasons
  <2> QED BY <1>0, <1>3, <1>r, <2>1, <2>2 DEF Publish, ToldBy
<1>4. CASE Fail(s)
  <2> DEFINE t == [tasks[s] EXCEPT !.told = @ \cup {Verdict(tasks[s].why)}]
  <2>1. t \in TaskStates /\ t.told = {Verdict(tasks[s].why)} /\ t.why = tasks[s].why
    BY <1>0, <1>4 DEF TaskStates, Fail, Verdict, ToldBy
  <2>2. tasks'[s] = IF tasks[s].why \in {"disk", "local"} THEN [t EXCEPT !.at = "mark"]
                    ELSE Ended(t, "cleanup")
    BY <1>0, <1>4 DEF Fail
  <2> HIDE DEF t
  <2>3. Ended(t, "cleanup").at = "cleanup" /\ Ended(t, "cleanup").told = t.told
    BY <2>1, EndedRecord DEF Places
  <2>4. /\ [t EXCEPT !.at = "mark"].at = "mark" /\ [t EXCEPT !.at = "mark"].told = t.told
        /\ [t EXCEPT !.at = "mark"].why = t.why
    BY <2>1 DEF TaskStates
  <2> QED BY <2>1, <2>2, <2>3, <2>4 DEF ToldBy, Verdict
<1>5. CASE Mark(s) \/ Backup(s) \/ Seed(s)
  <2>1. tasks'[s] = Ended(tasks[s], "cleanup")
    BY <1>0, <1>5 DEF Mark, Backup, Seed
  <2>2. \E v : tasks[s].told = {v}
    BY <1>0, <1>5 DEF Mark, Backup, Seed, ToldBy
  <2> QED BY <1>e, <2>1, <2>2 DEF ToldBy
<1>6. CASE Accepted(s)
  <2>1. tasks'[s] = Ended(Telling(tasks[s]), "seed")
    BY <1>0, <1>6 DEF Accepted
  <2> QED BY <1>0, <1>6, <1>e, <2>1 DEF Accepted, ToldBy, Places
<1>7. CASE Rejected(s)
  <2>1. /\ [Telling(tasks[s]) EXCEPT !.tries = Attempt(tasks[s])].at = "report"
        /\ [Telling(tasks[s]) EXCEPT !.tries = Attempt(tasks[s])].told = tasks[s].told \cup {"completed"}
    BY <1>0, <1>7, TellingRecord DEF Rejected, TaskStates
  <2>2. tasks'[s] \in {Ended(Telling(tasks[s]), "backup"), [Telling(tasks[s]) EXCEPT !.tries = Attempt(tasks[s])]}
    BY <1>0, <1>7 DEF Rejected
  <2> QED BY <1>0, <1>7, <1>e, <2>1, <2>2 DEF Rejected, ToldBy, Places
<1>8. CASE Maintenance(s)
  <2>1. Waiting(tasks[s]).at = "wait" /\ Waiting(tasks[s]).told = tasks[s].told \cup {"completed"}
    BY <1>0, TellingRecord
  <2>2. tasks'[s] \in {Ended(Telling(tasks[s]), "backup"), Waiting(tasks[s])}
    BY <1>0, <1>8 DEF Maintenance
  <2> QED BY <1>0, <1>8, <1>e, <2>1, <2>2 DEF Maintenance, ToldBy, Places
<1>9. CASE Waited(s)
  <2>1. tasks'[s].at = "report" /\ tasks'[s].told = tasks[s].told
    BY <1>0, <1>9 DEF Waited, TaskStates
  <2> QED BY <1>0, <1>9, <2>1 DEF Waited, ToldBy
<1>10. CASE Cancel(s)
  <2>1. tasks'[s].at = tasks[s].at /\ tasks'[s].told = tasks[s].told /\ tasks'[s].why = tasks[s].why
    BY <1>0, <1>10 DEF Cancel, TaskStates
  <2> QED BY <1>0, <2>1 DEF ToldBy
<1> QED BY <1>1, <1>2, <1>3, <1>4, <1>5, <1>6, <1>7, <1>8, <1>9, <1>10 DEF Work

LEMMA ToldStep ==
  ASSUME Typed, Told, [Next]_vars
  PROVE  Told'
<1>0. tasks \in [Slots -> TaskStates]
  BY DEF Typed, TypeOK
<1>i. ToldBy(NoTask)
  BY DEF ToldBy, NoTask
<1>1. CASE Aside
  BY <1>1, AsideKeepsTasks DEF Told
<1>2. CASE Claim
  <2>1. ToldBy(NewTask(offered))
    BY DEF ToldBy, NewTask
  <2>2. \A u \in Slots : tasks'[u] \in {tasks[u], NewTask(offered)}
    BY <1>0, <1>2 DEF Claim
  <2> QED BY <2>1, <2>2 DEF Told
<1>3. CASE PollDrain \/ ExitOnSignal \/ Crash
  <2>1. \A u \in Slots : tasks'[u] = NoTask
    BY <1>3 DEF PollDrain, ExitOnSignal, Crash, Down
  <2> QED BY <1>i, <2>1 DEF Told
<1>4. ASSUME NEW s \in Slots, Work(s) PROVE Told'
  <2>1. \A u \in Slots : u # s => tasks'[u] = tasks[u]
    BY <1>0, <1>4, WorkMoves DEF Moves
  <2>2. ToldBy(tasks'[s])
    BY <1>4, WorkTold
  <2> QED BY <2>1, <2>2 DEF Told
<1>5. ASSUME NEW s \in Slots, Release(s) PROVE Told'
  <2>1. \A u \in Slots : tasks'[u] \in {tasks[u], NoTask}
    BY <1>0, <1>5 DEF Release, Update
  <2> QED BY <1>i, <2>1 DEF Told
<1> QED BY <1>1, <1>2, <1>3, <1>4, <1>5, Kinds

(* The set told on a lock is empty or a singleton: from Told, case by case *)
(* of the places.                                                          *)
LEMMA ToldIsOneVerdict == ASSUME Typed, Told PROVE OneVerdict
<1> SUFFICES ASSUME NEW s \in Slots
             PROVE  /\ Cardinality(tasks[s].told) <= 1
                    /\ tasks[s].at = "cleanup" => tasks[s].told # {}
  BY DEF OneVerdict
<1>1. ToldBy(tasks[s]) /\ tasks[s].at \in Places
  BY DEF Told, Typed, TypeOK, TaskStates
<1>2. tasks[s].told = {} \/ \E v : tasks[s].told = {v}
  <2>1. CASE tasks[s].at \in {"report", "wait"}
    BY <1>1, <2>1 DEF ToldBy
  <2>2. CASE tasks[s].at \notin {"report", "wait"}
    BY <1>1, <2>2 DEF ToldBy, Places
  <2> QED BY <2>1, <2>2
<1>3. Cardinality(tasks[s].told) <= 1
  <2>1. CASE tasks[s].told = {}
    BY <2>1, FS_EmptySet
  <2>2. CASE \E v : tasks[s].told = {v}
    <3>1. PICK v : tasks[s].told = {v}
      BY <2>2
    <3>2. Cardinality(tasks[s].told) = 1
      BY <3>1, FS_Singleton
    <3> QED BY <3>2
  <2> QED BY <1>2, <2>1, <2>2
<1>4. tasks[s].at = "cleanup" => tasks[s].told # {}
  BY <1>1 DEF ToldBy
<1> QED BY <1>3, <1>4

(* Whatever returns a task takes, and however often it repeats its report, *)
(* the site hears one verdict on a lock, and none ends without one.        *)
THEOREM OneVerdictPerLock == Spec => []OneVerdict
<1>1. Init => Typed /\ Told
  <2>1. Init => Told
    BY DEF Init, Told, ToldBy, NoTask
  <2> QED BY <2>1, TypedInit
<1>2. (Typed /\ Told) /\ [Next]_vars => (Typed /\ Told)'
  BY TypedStep, ToldStep
<1>3. Typed /\ Told => OneVerdict
  BY ToldIsOneVerdict
<1> QED BY <1>1, <1>2, <1>3, PTL DEF Spec

-----------------------------------------------------------------------------
(* Disk rejections are honoured.                                           *)

(* The steps of a task keep what is refused on record.                     *)
LEMMA WorkRemembers ==
  ASSUME Typed, Told, Remembered, NEW s \in Slots, Work(s)
  PROVE  Remembered'
<1>0. tasks[s] \in TaskStates /\ tasks \in [Slots -> TaskStates]
  BY DEF Typed, TypeOK
<1>m. /\ \A u \in Slots : u # s => tasks'[u] = tasks[u]
      /\ tasks'[s].req = tasks[s].req /\ proc = "up" /\ proc' = "up"
  BY <1>0, WorkMoves DEF Moves, loopVars
<1>s. (tasks[s].at = "mark" => tasks'[s].at = "mark" /\ tasks'[s].why = tasks[s].why)
        => \A r : Saving(r) => Saving(r)'
  BY <1>m DEF Saving
<1>1. CASE Begin(s)
  <2>1. /\ tasks[s].at = "start" /\ UNCHANGED <<fresh, refused>>
        /\ skip' = IF tasks[s].req \in fresh THEN skip ELSE skip \ {tasks[s].req}
        /\ skipFile' = IF tasks[s].req \in skip /\ tasks[s].req \notin fresh THEN skip' ELSE skipFile
    BY <1>1 DEF Begin
  <2>2. \A r : r \in fresh /\ r \in skipFile /\ r \in skip => r \in skipFile' /\ r \in skip'
    BY <2>1
  <2> QED BY <1>m, <1>s, <2>1, <2>2 DEF Remembered
<1>2. CASE Fail(s)
  <2> DEFINE t == [tasks[s] EXCEPT !.told = @ \cup {Verdict(tasks[s].why)}]
  <2>1. /\ tasks[s].at = "fail" /\ UNCHANGED <<skip, skipFile, fresh>>
        /\ refused' = IF tasks[s].why = "disk" THEN refused \cup {tasks[s].req} ELSE refused
        /\ tasks[s].why = "disk" => tasks'[s] = [t EXCEPT !.at = "mark"]
    BY <1>0, <1>2 DEF Fail, Update
  <2>2. t \in TaskStates /\ t.why = tasks[s].why
    BY <1>0 DEF TaskStates, Verdict
  <2> HIDE DEF t
  <2>3. [t EXCEPT !.at = "mark"].at = "mark" /\ [t EXCEPT !.at = "mark"].why = t.why
    BY <2>2 DEF TaskStates
  <2>4. tasks[s].why = "disk" => Saving(tasks[s].req)'
    BY <1>m, <2>1, <2>2, <2>3 DEF Saving
  <2> QED BY <1>m, <1>s, <2>1, <2>4 DEF Remembered
<1>3. CASE Mark(s)
  <2>1. CASE tasks[s].why = "disk"
    <3>1. /\ skip' = skip \cup {tasks[s].req} /\ skipFile' = skip'
          /\ fresh' = fresh \cup {tasks[s].req} /\ refused' = refused
      BY <1>3, <2>1 DEF Mark, MarkOversize
    <3>2. \A r : Saving(r) => Saving(r)' \/ r = tasks[s].req
      BY <1>m DEF Saving
    <3> QED BY <1>m, <3>1, <3>2 DEF Remembered
  <2>2. CASE tasks[s].why # "disk"
    <3>1. UNCHANGED <<skip, skipFile, fresh, refused>>
      BY <1>3, <2>2 DEF Mark, RecordAbort, skipVars
    <3>2. \A r : Saving(r) => Saving(r)'
      BY <1>m, <2>2 DEF Saving
    <3> QED BY <1>m, <3>1, <3>2 DEF Remembered
  <2> QED BY <2>1, <2>2
<1>4. CASE ~Begin(s) /\ ~Fail(s) /\ ~Mark(s)
  <2>1. UNCHANGED <<skip, skipFile, fresh, refused>> /\ tasks[s].at # "mark"
    BY <1>4 DEF Work, Download, Publish, Accepted, Rejected, Maintenance, Waited, Backup, Seed,
         Cancel, skipVars
  <2> QED BY <1>m, <1>s, <2>1 DEF Remembered
<1> QED BY <1>1, <1>2, <1>3, <1>4

LEMMA RememberedStep ==
  ASSUME Typed, Told, Remembered, [Next]_vars
  PROVE  Remembered'
<1>0. tasks \in [Slots -> TaskStates]
  BY DEF Typed, TypeOK
<1>1. CASE Aside
  <2>1. \A r : Saving(r)' <=> Saving(r)
    BY <1>1, AsideKeepsTasks DEF Saving
  <2>2. CASE Start
    BY <2>1, <2>2 DEF Start, Loaded, Remembered
  <2>3. ASSUME NEW r \in Requests, Expire(r) PROVE Remembered'
    <3>1. UNCHANGED <<proc, skip, skipFile>>
      BY <2>3 DEF Expire, loopVars
    <3> QED BY <2>1, <2>3, <3>1 DEF Expire, Remembered
  <2>4. CASE ~Start /\ ~(\E r \in Requests : Expire(r))
    <3>1. UNCHANGED <<proc, skipVars>>
      BY <1>1, <2>4 DEF Aside, SkipTurn, StartPoll, PollNothing, PollTask, BackfillStep,
           SetCommand, PauseQueue, Signal, Settle, EndPause, vars, loopVars
    <3> QED BY <2>1, <3>1 DEF skipVars, Remembered
  <2> QED BY <2>2, <2>3, <2>4
<1>2. CASE Claim
  <2>1. UNCHANGED <<proc, skip, skipFile, fresh, refused>>
    BY <1>2 DEF Claim, skipVars
  <2>2. \A u \in Slots : Live(u) => tasks'[u] = tasks[u]
    BY <1>0, <1>2 DEF Claim
  <2>3. \A r : Saving(r) => Saving(r)'
    BY <2>2 DEF Saving, Live
  <2> QED BY <2>1, <2>3 DEF Remembered
<1>3. CASE PollDrain \/ ExitOnSignal \/ Crash
  <2>1. Down
    BY <1>3 DEF PollDrain, ExitOnSignal, Crash
  <2>2. \A r : Saving(r) => r \in Unmarked
    BY DEF Saving, Unmarked
  <2> QED BY <2>1, <2>2 DEF Down, Remembered
<1>4. ASSUME NEW s \in Slots, Work(s) PROVE Remembered'
  BY <1>4, WorkRemembers
<1>5. ASSUME NEW s \in Slots, Release(s) PROVE Remembered'
  <2>1. UNCHANGED <<proc, skip, skipFile, fresh, refused>>
    BY <1>5 DEF Release, skipVars, loopVars
  <2>2. tasks[s].at = "cleanup" /\ \A u \in Slots : u # s => tasks'[u] = tasks[u]
    BY <1>0, <1>5 DEF Release, Update
  <2>3. \A r : Saving(r) => Saving(r)'
    BY <2>2 DEF Saving
  <2> QED BY <2>1, <2>3 DEF Remembered
<1> QED BY <1>1, <1>2, <1>3, <1>4, <1>5, Kinds

(* A refused request is not downloaded before its time is over: the        *)
(* rejection is in the map and in the file, or its own task, which holds   *)
(* the claim, has yet to write it.                                         *)
THEOREM RefusalsHonoured == Spec => CooldownHonoured
<1> DEFINE IInv == Typed /\ OneTaskPerRequest /\ Told /\ Remembered
           A == \A s \in Slots : tasks[s].at = "start" /\ tasks'[s].at = "download"
                                  => tasks[s].req \notin refused
<1>1. Init => IInv
  <2>1. Init => OneTaskPerRequest /\ Told /\ Remembered
    BY DEF Init, OneTaskPerRequest, Live, NoTask, Told, ToldBy, Remembered
  <2> QED BY <2>1, TypedInit
<1>2. IInv /\ [Next]_vars => IInv'
  BY TypedStep, OneTaskStep, ToldStep, RememberedStep
<1>3. IInv /\ [Next]_vars => [A]_vars
  <2> SUFFICES ASSUME IInv, [Next]_vars, NEW s \in Slots,
                      tasks[s].at = "start", tasks'[s].at = "download"
               PROVE  tasks[s].req \notin refused
    OBVIOUS
  <2>0. tasks \in [Slots -> TaskStates] /\ tasks[s] \in TaskStates
    BY DEF Typed, TypeOK
  <2>1. Begin(s) /\ proc = "up"
    <3>1. CASE Aside
      BY <3>1, AsideKeepsTasks
    <3>2. CASE Claim
      BY <2>0, <3>2 DEF Claim, Live, NewTask
    <3>3. CASE PollDrain \/ ExitOnSignal \/ Crash
      BY <3>3 DEF PollDrain, ExitOnSignal, Crash, Down, NoTask
    <3>4. ASSUME NEW u \in Slots, Work(u) PROVE Begin(s) /\ proc = "up"
      <4>1. u = s
        BY <2>0, <3>4, WorkMoves DEF Moves
      <4>2. ~Cancel(s)
        BY <2>0 DEF Cancel
      <4> QED BY <2>0, <3>4, <4>1, <4>2 DEF Work, Download, Publish, Fail, Mark, Accepted,
               Rejected, Maintenance, Waited, Backup, Seed
    <3>5. ASSUME NEW u \in Slots, Release(u) PROVE FALSE
      BY <2>0, <3>5 DEF Release, Update, NoTask
    <3> QED BY <3>1, <3>2, <3>3, <3>4, <3>5, Kinds
  <2>2. ~Cooling(tasks[s].req)
    <3>1. Failed(tasks[s], "cooldown").at = "fail"
      BY <2>0, FailedRecord DEF Reasons
    <3> QED BY <2>0, <2>1, <3>1 DEF Begin, Update
  <2>3. ~Saving(tasks[s].req)
    BY DEF Saving, OneTaskPerRequest, Live
  <2> QED BY <2>1, <2>2, <2>3 DEF Remembered, Cooling
<1> QED BY <1>1, <1>2, <1>3, PTL DEF Spec, CooldownHonoured

-----------------------------------------------------------------------------
(* Claims stay within the limit.                                           *)

LEMMA RoomStep ==
  ASSUME Typed, Room, [Next]_vars
  PROVE  Room'
<1>0. limit \in Nat /\ IsFiniteSet(active) /\ Cardinality(active) \in Nat
  BY LoopAssumption, FS_CardinalityType DEF Typed, TypeOK, Room
<1>1. CASE Aside
  <2>1. active' = active
    BY <1>1, AsideKeepsTasks
  <2>2. CASE StartPoll
    BY <2>1, <2>2 DEF StartPoll, Free, Room
  <2>3. CASE ~StartPoll
    <3>1. \/ loop' = "top"
          \/ limit' = limit /\ loop # "top"
          \/ UNCHANGED <<limit, loop>>
      BY <1>1, <2>3 DEF Aside, SkipTurn, PollNothing, PollTask, BackfillStep, Start,
           SetCommand, PauseQueue, Signal, Settle, EndPause, Expire, vars, loopVars
    <3> QED BY <2>1, <3>1 DEF Room
  <2> QED BY <2>2, <2>3
<1>2. CASE Claim
  <2>1. IsFiniteSet(active') /\ loop' = "top"
    BY <1>0, <1>2, FS_AddElement DEF Claim
  <2> QED BY <2>1 DEF Room
<1>3. CASE PollDrain \/ ExitOnSignal \/ Crash
  <2>1. active' = {} /\ loop' = "top"
    BY <1>3 DEF PollDrain, ExitOnSignal, Crash, Down
  <2> QED BY <2>1, FS_EmptySet DEF Room
<1>4. ASSUME NEW s \in Slots, Work(s) PROVE Room'
  BY <1>4, WorkMoves DEF Moves, loopVars, Room
<1>5. ASSUME NEW s \in Slots, Release(s) PROVE Room'
  <2>1. active' = active \ {tasks[s].req} /\ limit' = limit /\ loop' = loop
    BY <1>5 DEF Release, loopVars
  <2>2. /\ IsFiniteSet(active \ {tasks[s].req})
        /\ Cardinality(active \ {tasks[s].req}) <= Cardinality(active)
    BY <1>0, FS_Subset
  <2>3. Cardinality(active \ {tasks[s].req}) \in Nat
    BY <2>2, FS_CardinalityType
  <2> QED BY <1>0, <2>1, <2>2, <2>3 DEF Room
<1> QED BY <1>1, <1>2, <1>3, <1>4, <1>5, Kinds

(* Only the loop adds tasks, one per poll, and none between its test of    *)
(* the capacity and its claim: no claim exceeds the limit.                 *)
THEOREM ClaimsWithinLimit == Spec => CapacityKept
<1> DEFINE A == ~(active' \subseteq active) => Cardinality(active') <= limit'
<1>1. Init => Typed /\ Room
  <2>1. Init => Room
    BY FS_EmptySet DEF Init, Room
  <2> QED BY <2>1, TypedInit
<1>2. (Typed /\ Room) /\ [Next]_vars => (Typed /\ Room)'
  BY TypedStep, RoomStep
<1>3. (Typed /\ Room) /\ [Next]_vars => [A]_vars
  <2> SUFFICES ASSUME Typed, Room, [Next]_vars, ~(active' \subseteq active)
               PROVE  Cardinality(active') <= limit'
    OBVIOUS
  <2>1. Claim
    <3>1. ~Aside
      BY AsideKeepsTasks
    <3>2. ~(PollDrain \/ ExitOnSignal \/ Crash)
      BY DEF PollDrain, ExitOnSignal, Crash, Down
    <3>3. \A s \in Slots : ~Work(s)
      BY WorkMoves DEF Moves
    <3>4. \A s \in Slots : ~Release(s)
      BY DEF Release
    <3> QED BY <3>1, <3>2, <3>3, <3>4, Kinds
  <2>2. /\ active' = active \cup {offered} /\ offered \notin active
        /\ limit' = limit /\ loop = "claim"
    BY <2>1 DEF Claim
  <2>3. /\ Cardinality(active') = Cardinality(active) + 1
        /\ Cardinality(active) < limit
    BY <2>2, FS_AddElement DEF Room
  <2>4. limit \in Nat /\ Cardinality(active) \in Nat
    BY LoopAssumption, FS_CardinalityType DEF Typed, TypeOK, Room
  <2> QED BY <2>2, <2>3, <2>4
<1> QED BY <1>1, <1>2, <1>3, PTL DEF Spec, CapacityKept
=============================================================================
