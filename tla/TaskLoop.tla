------------------------------ MODULE TaskLoop ------------------------------
(***************************************************************************)
(* The agent's core: the poll loop of main, which claims requests the site *)
(* hands out, the goroutine that processes each of them, what is told to   *)
(* the site at its end, and the restart of the process.                    *)
(*                                                                         *)
(* The site is external: it may hand out any request it has no release     *)
(* for, also one this agent still works on (it reaps locks it finds        *)
(* stale), may answer a report with an error after it has taken it, and    *)
(* may be in maintenance.  Directories and the job table are the business  *)
(* of TempSweep, the disk test that of DiskReserve.                        *)
(***************************************************************************)
EXTENDS Integers, FiniteSets

CONSTANTS
  Requests,
  NoRequest,
  Slots,           \* identities of task goroutines
  Limits,          \* values of max_concurrent the site may configure
  AbortThreshold,  \* abortPauseThreshold
  WriteOutcomes,   \* {TRUE}: writing a backup works; {TRUE, FALSE}: it may fail
  MaxEvents,       \* bound: interventions from outside (commands, pauses of
                   \* the queue, signals, cancellations, crashes) and
                   \* rejections that expire
  MaxHanded        \* bound: tasks the site hands out

ASSUME LoopAssumption ==
  /\ NoRequest \notin Requests
  /\ IsFiniteSet(Slots)
  /\ Limits # {} /\ Limits \subseteq 1..Cardinality(Slots)
  /\ AbortThreshold \in Nat \ {0}
  /\ WriteOutcomes \in {{TRUE}, {TRUE, FALSE}}
  /\ MaxEvents \in Nat /\ MaxHanded \in Nat

VARIABLES
  \* The site.
  fulfilled,    \* requests it has a release for
  command,      \* "drain" while it answers polls with stop_after_current
  \* The poll loop.
  proc,         \* "up" or "down"
  signalled,    \* the root context is cancelled (SIGTERM, SIGINT)
  settled,      \* the process has outlived stopGuardDuration
  loop,         \* "top", "poll" or "claim"
  offered,      \* the request of the reply at hand
  limit,        \* maxDL: of the configuration, then of the site's replies
  queuePaused,  \* GlobalState.QueuePaused, which storage.go does not save
  \* The tasks.
  tasks,        \* the goroutine of each slot
  active,       \* activeTasks
  aborts,       \* consecutiveAborts; more than the threshold make no difference
  pausing,      \* abortPauseUntil lies ahead
  \* The disk rejections.
  skip,         \* oversizeSkip
  skipFile,     \* its file
  fresh,        \* rejections not yet oversizeSkipTTL old
  \* The NZBs the site has not taken.
  backups,      \* requests with a backup-request-<id>.nzb
  backfill,     \* the goroutine of runBackfill
  \* History.
  finished,     \* requests with a complete upload whose NZB did not die with
                \* the process
  refused,      \* requests reported as too large for the disk, until the
                \* time to live of the rejection is over
  events,       \* interventions so far
  handed        \* tasks the site has handed out

siteVars == <<fulfilled, command>>
loopVars == <<proc, signalled, settled, loop, offered, limit, queuePaused>>
abortVars == <<aborts, pausing>>
skipVars == <<skip, skipFile, fresh, refused>>
nzbVars == <<backups, backfill, finished>>
budget == <<events, handed>>
vars == <<siteVars, loopVars, tasks, active, abortVars, skipVars, nzbVars, budget>>

Reasons == {"cooldown", "disk", "local", "torrent", "skipped"}
Places == {"none", "start", "download", "publish", "report", "wait", "backup",
           "seed", "fail", "mark", "cleanup"}

NoTask == [at |-> "none", req |-> NoRequest, why |-> "none", tries |-> 0,
           cancelled |-> FALSE, told |-> {}]
TaskStates == [at : Places, req : Requests \cup {NoRequest}, why : Reasons \cup {"none"},
               tries : 0..2, cancelled : BOOLEAN,
               told : SUBSET {"completed", "failed", "aborted"}]

Asleep == [at |-> "idle", todo |-> {}, req |-> NoRequest]
Backfills == [at : {"idle", "scan", "submit", "remove"}, todo : SUBSET Requests,
              req : Requests \cup {NoRequest}]

TypeOK ==
  /\ fulfilled \subseteq Requests /\ command \in {"run", "drain"}
  /\ proc \in {"up", "down"} /\ signalled \in BOOLEAN /\ settled \in BOOLEAN
  /\ loop \in {"top", "poll", "claim"} /\ offered \in Requests \cup {NoRequest}
  /\ limit \in Limits /\ queuePaused \in BOOLEAN
  /\ tasks \in [Slots -> TaskStates]
  /\ active \subseteq Requests
  /\ aborts \in 0..AbortThreshold /\ pausing \in BOOLEAN
  /\ skip \subseteq Requests /\ skipFile \subseteq Requests
  /\ fresh \subseteq Requests /\ refused \subseteq Requests
  /\ backups \subseteq Requests /\ backfill \in Backfills /\ finished \subseteq Requests
  /\ events \in 0..MaxEvents /\ handed \in 0..MaxHanded

Init ==
  /\ fulfilled = {} /\ command = "run"
  /\ proc = "up" /\ signalled = FALSE /\ settled = FALSE
  /\ loop = "top" /\ offered = NoRequest
  /\ limit \in Limits /\ queuePaused = FALSE
  /\ tasks = [s \in Slots |-> NoTask] /\ active = {}
  /\ aborts = 0 /\ pausing = FALSE
  /\ skip = {} /\ skipFile = {} /\ fresh = {} /\ refused = {}
  /\ backups = {} /\ backfill = [Asleep EXCEPT !.at = "scan"]
  /\ finished = {} /\ events = 0 /\ handed = 0

Live(s) == tasks[s].at # "none"
Holders(r) == {s \in Slots : tasks[s].req = r /\ tasks[s].at \in {"report", "wait", "backup"}}
Safe == fulfilled \cup backups

Intervene == events < MaxEvents /\ events' = events + 1 /\ handed' = handed

-----------------------------------------------------------------------------
(* The poll loop.                                                          *)

(* The remote configuration, in which 0 leaves the limit alone.            *)
SetLimit == limit' \in Limits

(* One turn of the loop that ends in a sleep: the queue is paused, the     *)
(* tasks are at the limit, the processor or the disk is short, the agent   *)
(* pauses after its own errors.                                            *)
SkipTurn ==
  /\ proc = "up" /\ loop = "top" /\ ~signalled
  /\ SetLimit
  /\ UNCHANGED <<siteVars, proc, signalled, settled, loop, offered, queuePaused,
                 tasks, active, abortVars, skipVars, nzbVars, budget>>

(* Room for one more task.  Mutant: one too many.                          *)
FreeByOne(n) == Cardinality(active) <= n
Free(n) == Cardinality(active) < n

StartPoll ==
  /\ proc = "up" /\ loop = "top" /\ ~signalled
  /\ SetLimit
  /\ ~queuePaused /\ Free(limit') /\ ~pausing
  /\ loop' = "poll"
  /\ UNCHANGED <<siteVars, proc, signalled, settled, offered, queuePaused,
                 tasks, active, abortVars, skipVars, nzbVars, budget>>

PollTask(r) ==
  /\ proc = "up" /\ loop = "poll"
  /\ command = "run" /\ r \notin fulfilled
  /\ handed < MaxHanded /\ handed' = handed + 1
  /\ loop' = "claim" /\ offered' = r
  /\ UNCHANGED <<siteVars, proc, signalled, settled, limit, queuePaused,
                 tasks, active, abortVars, skipVars, nzbVars, events>>

(* No task, an error, or the command "stop".                               *)
PollNothing ==
  /\ proc = "up" /\ loop = "poll"
  /\ loop' = "top"
  /\ UNCHANGED <<siteVars, proc, signalled, settled, offered, limit, queuePaused,
                 tasks, active, abortVars, skipVars, nzbVars, budget>>

NewTask(r) == [at |-> "start", req |-> r, why |-> "none", tries |-> 0,
               cancelled |-> FALSE, told |-> {}]

(* claimTask; when it refuses, the reply is dropped.  Mutant: the name is  *)
(* given up before the goroutine has ended.                                *)
ClaimableBeforeCleanup(r) ==
  \A s \in Slots : Live(s) /\ tasks[s].req = r => tasks[s].at \in {"seed", "cleanup"}
Claimable(r) == r \notin active

Claim ==
  /\ proc = "up" /\ loop = "claim"
  /\ loop' = "top" /\ offered' = NoRequest
  /\ IF Claimable(offered)
     THEN /\ active' = active \cup {offered}
          /\ \E s \in Slots : /\ ~Live(s)
                              /\ tasks' = [tasks EXCEPT ![s] = NewTask(offered)]
     ELSE UNCHANGED <<tasks, active>>
  /\ UNCHANGED <<siteVars, proc, signalled, settled, limit, queuePaused,
                 abortVars, skipVars, nzbVars, budget>>

(* The process ends: main returns without waiting for its goroutines.      *)
Unmarked == {tasks[s].req : s \in {u \in Slots : tasks[u].at = "mark" /\ tasks[u].why = "disk"}}
Down ==
  /\ proc' = "down" /\ signalled' = FALSE /\ settled' = FALSE
  /\ loop' = "top" /\ offered' = NoRequest
  /\ limit' \in Limits /\ queuePaused' = FALSE
  /\ tasks' = [s \in Slots |-> NoTask] /\ active' = {}
  /\ aborts' = 0 /\ pausing' = FALSE
  /\ skip' = {} /\ refused' = refused \ Unmarked
  /\ backfill' = Asleep /\ finished' = finished \cap Safe
  /\ UNCHANGED <<siteVars, skipFile, fresh, backups>>

(* The command stop_after_current: the loop goes on until no task is left, *)
(* and for the first minutes of the process, lest a supervisor restart it  *)
(* in a loop.  Mutants: tasks that only seed or clean up do not count; the *)
(* comparison with the window is the wrong way round.                      *)
DrainedButSeeding ==
  settled /\ \A s \in Slots : Live(s) => tasks[s].at \in {"seed", "cleanup"}
DrainedInWindow == active = {} /\ ~settled
Drained == active = {} /\ settled
PollDrain ==
  /\ proc = "up" /\ loop = "poll" /\ command = "drain"
  /\ Drained
  /\ Down /\ UNCHANGED budget

(* A signal is seen at the top of the next turn.                           *)
ExitOnSignal ==
  /\ proc = "up" /\ loop = "top" /\ signalled
  /\ Down /\ UNCHANGED budget

(* A kill, a panic, or the exit of the watchdog when the site is long      *)
(* unreachable.                                                            *)
Crash ==
  /\ proc = "up" /\ Intervene
  /\ Down

(* loadOversizeSkip.  Mutant: the saved rejections are not read.           *)
LoadedNothing == {}
Loaded == skipFile \cap fresh
Start ==
  /\ proc = "down" /\ proc' = "up"
  /\ skip' = Loaded
  /\ backfill' = [Asleep EXCEPT !.at = "scan"]
  /\ UNCHANGED <<siteVars, signalled, settled, loop, offered, limit, queuePaused, tasks,
                 active, abortVars, skipFile, fresh, refused, backups, finished, budget>>

-----------------------------------------------------------------------------
(* processTask.                                                            *)

Update(s, new) == tasks' = [tasks EXCEPT ![s] = new]
Cooling(r) == r \in skip /\ r \in fresh

Verdict(why) == IF why \in {"cooldown", "disk", "local"} THEN "aborted" ELSE "failed"

(* On the way out only what is, and was, told matters.                     *)
Leaving(t, at, why) == [at |-> at, req |-> t.req, why |-> why, tries |-> 0,
                        cancelled |-> FALSE, told |-> t.told]
Ended(t, at) == Leaving(t, at, "none")
Failed(t, why) == Leaving(t, "fail", why)

(* shouldSkipOversize drops an entry whose time is over, and saves.        *)
Begin(s) ==
  LET t == tasks[s]
  IN  /\ t.at = "start"
      /\ IF Cooling(t.req)
         THEN Update(s, Failed(t, "cooldown"))
         ELSE Update(s, [t EXCEPT !.at = "download"])
      /\ skip' = IF t.req \in fresh THEN skip ELSE skip \ {t.req}
      /\ skipFile' = IF t.req \in skip /\ t.req \notin fresh THEN skip' ELSE skipFile
      /\ UNCHANGED <<siteVars, loopVars, active, abortVars, fresh, refused, nzbVars, budget>>

Cancelled(t) == t.cancelled \/ signalled

(* Torrent or watch folder; an interrupted run's download is taken as it   *)
(* is.                                                                     *)
Download(s) ==
  LET t == tasks[s]
  IN  /\ t.at = "download"
      /\ \/ Update(s, [t EXCEPT !.at = "publish"])
         \/ \E why \in {"disk", "local", "torrent"} :
              Update(s, Failed(t, why))
         \/ /\ Cancelled(t)
            /\ Update(s, Failed(t, "skipped"))
      /\ UNCHANGED <<siteVars, loopVars, active, abortVars, skipVars, nzbVars, budget>>

(* Remux, blocklist, the checks before staging and PublishDirectory; a     *)
(* cancelled context makes it return an error like any other.  Mutant: the *)
(* return after the failure is missing.                                    *)
PublishFailedOn(t, why) == [t EXCEPT !.at = "report", !.told = @ \cup {Verdict(why)}]
PublishFailed(t, why) == Failed(t, why)
Publish(s) ==
  LET t == tasks[s]
  IN  /\ t.at = "publish"
      /\ \/ /\ Update(s, [t EXCEPT !.at = "report"])
            /\ finished' = finished \cup {t.req}
         \/ /\ \E why \in {"disk", "local", "torrent"} : Update(s, PublishFailed(t, why))
            /\ UNCHANGED finished
      /\ UNCHANGED <<siteVars, loopVars, active, abortVars, skipVars, backups, backfill, budget>>

(* The Complete of a failure: one attempt, whose error is only logged.     *)
Fail(s) ==
  LET t == tasks[s]
  IN  /\ t.at = "fail"
      /\ LET told == [t EXCEPT !.told = @ \cup {Verdict(t.why)}]
         IN  Update(s, IF t.why \in {"disk", "local"} THEN [told EXCEPT !.at = "mark"]
                       ELSE Ended(told, "cleanup"))
      /\ refused' = IF t.why = "disk" THEN refused \cup {t.req} ELSE refused
      /\ UNCHANGED <<siteVars, loopVars, active, abortVars, skip, skipFile, fresh, nzbVars, budget>>

(* markOversize and recordAbort, which follow the report.                  *)
MarkOversize(r) ==
  /\ skip' = skip \cup {r} /\ skipFile' = skip' /\ fresh' = fresh \cup {r}
  /\ UNCHANGED <<refused, abortVars>>

RecordAbort ==
  /\ aborts' = IF aborts < AbortThreshold THEN aborts + 1 ELSE aborts
  /\ pausing' = (pausing \/ aborts' = AbortThreshold)
  /\ UNCHANGED skipVars

Mark(s) ==
  LET t == tasks[s]
  IN  /\ t.at = "mark"
      /\ IF t.why = "disk" THEN MarkOversize(t.req) ELSE RecordAbort
      /\ Update(s, Ended(t, "cleanup"))
      /\ UNCHANGED <<siteVars, loopVars, active, nzbVars, budget>>

(* The Complete of a success is repeated, in maintenance without end, after *)
(* other errors twice; the site may have taken what it answers with an     *)
(* error.                                                                  *)
Attempt(t) == t.tries + 1
Telling(t) == [t EXCEPT !.told = @ \cup {"completed"}]

Accepted(s) ==
  LET t == tasks[s]
  IN  /\ t.at = "report"
      /\ Update(s, Ended(Telling(t), "seed"))
      /\ fulfilled' = fulfilled \cup {t.req}
      /\ aborts' = 0
      /\ UNCHANGED <<command, loopVars, active, pausing, skipVars, nzbVars, budget>>

Rejected(s) ==
  LET t == tasks[s]
  IN  /\ t.at = "report"
      /\ Update(s, IF Attempt(t) >= 3 THEN Ended(Telling(t), "backup")
                   ELSE [Telling(t) EXCEPT !.tries = Attempt(t)])
      /\ fulfilled' \in {fulfilled, fulfilled \cup {t.req}}
      /\ UNCHANGED <<command, loopVars, active, abortVars, skipVars, nzbVars, budget>>

(* Mutant: an answer of maintenance clears the count of the attempts.      *)
WaitingAnew(t) == [Telling(t) EXCEPT !.at = "wait", !.tries = 0]
Waiting(t) == [Telling(t) EXCEPT !.at = "wait"]

Maintenance(s) ==
  LET t == tasks[s]
  IN  /\ t.at = "report"
      /\ Update(s, IF Cancelled(t) THEN Ended(Telling(t), "backup")
                   ELSE Waiting(t))
      /\ UNCHANGED <<siteVars, loopVars, active, abortVars, skipVars, nzbVars, budget>>

(* The wait ends with its time or with the context: Complete is called     *)
(* once more in either case.                                               *)
Waited(s) ==
  LET t == tasks[s]
  IN  /\ t.at = "wait"
      /\ Update(s, [t EXCEPT !.at = "report"])
      /\ UNCHANGED <<siteVars, loopVars, active, abortVars, skipVars, nzbVars, budget>>

Backup(s) ==
  LET t == tasks[s]
  IN  /\ t.at = "backup"
      /\ \E written \in WriteOutcomes :
           backups' = IF written THEN backups \cup {t.req} ELSE backups
      /\ Update(s, Ended(t, "cleanup"))
      /\ UNCHANGED <<siteVars, loopVars, active, abortVars, skipVars, backfill, finished, budget>>

(* Seeding ends by ratio, time or cancellation; nothing to do without a    *)
(* session.                                                                *)
Seed(s) ==
  LET t == tasks[s]
  IN  /\ t.at = "seed"
      /\ Update(s, Ended(t, "cleanup"))
      /\ UNCHANGED <<siteVars, loopVars, active, abortVars, skipVars, nzbVars, budget>>

(* After RemoveJob and the sweep, releaseTask.                             *)
Release(s) ==
  LET t == tasks[s]
  IN  /\ t.at = "cleanup"
      /\ Update(s, NoTask)
      /\ active' = active \ {t.req}
      /\ UNCHANGED <<siteVars, loopVars, abortVars, skipVars, nzbVars, budget>>

TaskStep(s) ==
  /\ proc = "up"
  /\ \/ Begin(s) \/ Download(s) \/ Publish(s)
     \/ Fail(s) \/ Mark(s)
     \/ Accepted(s) \/ Rejected(s) \/ Maintenance(s) \/ Waited(s) \/ Backup(s)
     \/ Seed(s) \/ Release(s)

(* The site, or the operator, cancels the job of a request (JobCancels);   *)
(* at the other places that changes nothing.                               *)
Cancel(s) ==
  LET t == tasks[s]
  IN  /\ proc = "up" /\ Intervene
      /\ t.at \in {"download", "publish", "report", "wait"} /\ ~t.cancelled
      /\ Update(s, [t EXCEPT !.cancelled = TRUE])
      /\ UNCHANGED <<siteVars, loopVars, active, abortVars, skipVars, nzbVars>>

-----------------------------------------------------------------------------
(* runBackfill, once per start and concurrently with the tasks.            *)

BackfillScan ==
  /\ backfill.at = "scan"
  /\ backfill' = [Asleep EXCEPT !.todo = backups]
  /\ UNCHANGED <<fulfilled, backups>>

BackfillRead(r) ==
  /\ backfill.at = "idle" /\ r \in backfill.todo
  /\ backfill' = [at |-> "submit", todo |-> backfill.todo \ {r}, req |-> r]
  /\ UNCHANGED <<fulfilled, backups>>

(* An error, whether or not the site has taken the NZB, leaves the file.   *)
(* Mutant: the file is removed all the same.                               *)
NextFileAnyway == [backfill EXCEPT !.at = "remove"]
NextFile == [backfill EXCEPT !.at = "idle", !.req = NoRequest]
BackfillSubmit ==
  /\ backfill.at = "submit"
  /\ \/ /\ fulfilled' = fulfilled \cup {backfill.req}
        /\ backfill' = [backfill EXCEPT !.at = "remove"]
     \/ /\ fulfilled' \in {fulfilled, fulfilled \cup {backfill.req}}
        /\ backfill' = NextFile
  /\ UNCHANGED backups

BackfillRemove ==
  /\ backfill.at = "remove"
  /\ backups' \in {backups, backups \ {backfill.req}}
  /\ backfill' = NextFile
  /\ UNCHANGED fulfilled

BackfillStep ==
  /\ proc = "up"
  /\ \/ BackfillScan
     \/ \E r \in Requests : BackfillRead(r)
     \/ BackfillSubmit \/ BackfillRemove
  /\ UNCHANGED <<command, loopVars, tasks, active, abortVars, skipVars, finished, budget>>

-----------------------------------------------------------------------------
(* The operator, the supervisor and the clock.                             *)

SetCommand ==
  /\ Intervene
  /\ command' \in {"run", "drain"} \ {command}
  /\ UNCHANGED <<fulfilled, loopVars, tasks, active, abortVars, skipVars, nzbVars>>

PauseQueue ==
  /\ proc = "up" /\ Intervene /\ queuePaused' = ~queuePaused
  /\ UNCHANGED <<siteVars, proc, signalled, settled, loop, offered, limit,
                 tasks, active, abortVars, skipVars, nzbVars>>

Signal ==
  /\ proc = "up" /\ Intervene /\ signalled' = TRUE
  /\ UNCHANGED <<siteVars, proc, settled, loop, offered, limit, queuePaused,
                 tasks, active, abortVars, skipVars, nzbVars>>

Settle ==
  /\ proc = "up" /\ settled' = TRUE
  /\ UNCHANGED <<siteVars, proc, signalled, loop, offered, limit, queuePaused,
                 tasks, active, abortVars, skipVars, nzbVars, budget>>

EndPause ==
  /\ pausing' = FALSE
  /\ UNCHANGED <<siteVars, loopVars, tasks, active, aborts, skipVars, nzbVars, budget>>

Expire(r) ==
  /\ Intervene
  /\ r \in fresh
  /\ fresh' = fresh \ {r} /\ refused' = refused \ {r}
  /\ UNCHANGED <<siteVars, loopVars, tasks, active, abortVars, skip, skipFile, nzbVars>>

LoopStep == \/ SkipTurn \/ StartPoll \/ PollNothing \/ PollDrain \/ Claim \/ ExitOnSignal
            \/ \E r \in Requests : PollTask(r)
Environment == \/ Crash \/ Start \/ SetCommand \/ PauseQueue \/ Signal \/ Settle \/ EndPause
               \/ \E r \in Requests : Expire(r)
               \/ \E s \in Slots : Cancel(s)

Next == \/ LoopStep \/ BackfillStep \/ Environment
        \/ \E s \in Slots : TaskStep(s)

Spec == Init /\ [][Next]_vars

(* Go runs every ready goroutine; downloads and uploads end by their own    *)
(* timers; the conditions for a poll, and answers of the site other than   *)
(* maintenance and errors, come back again and again.                      *)
Fairness ==
  /\ \A s \in Slots : /\ WF_vars(TaskStep(s))
                      /\ SF_vars(proc = "up" /\ (Accepted(s) \/ Rejected(s)))
  /\ WF_vars(LoopStep)
  /\ SF_vars(StartPoll)
  /\ SF_vars(PollDrain)
  /\ WF_vars(ExitOnSignal)
  /\ WF_vars(Settle) /\ WF_vars(EndPause) /\ WF_vars(Start)

FairSpec == Spec /\ Fairness

-----------------------------------------------------------------------------
(* Properties.                                                             *)

(* No request is processed by two goroutines at once, and activeTasks is   *)
(* exactly the requests that have one (claimTask, and releaseTask deferred *)
(* past the cleanup).                                                      *)
OneTaskPerRequest ==
  /\ \A s, u \in Slots : Live(s) /\ Live(u) /\ tasks[s].req = tasks[u].req => s = u
  /\ active = {tasks[s].req : s \in {u \in Slots : Live(u)}}

(* As long as the process runs, the NZB of a finished upload is at the     *)
(* site, in a backup file, or in the hands of a task that still reports    *)
(* it: whatever the site answers, whoever cancels, and also while          *)
(* runBackfill submits and removes the file of an earlier run.             *)
FinishedKept ==
  \A r \in finished : r \in Safe \/ Holders(r) # {}

(* The site is told one verdict on a lock: never "failed" or "aborted"     *)
(* after "completed", whatever returns a task takes, and no task ends      *)
(* without one (the Complete calls of processTask).                        *)
OneVerdict ==
  \A s \in Slots : /\ Cardinality(tasks[s].told) <= 1
                   /\ tasks[s].at = "cleanup" => tasks[s].told # {}

(* A request the agent has refused for its disk is not downloaded again    *)
(* before its time is over, also after a restart and when the site hands   *)
(* it back at once (oversizeSkip).                                         *)
CooldownHonoured ==
  [][\A s \in Slots : tasks[s].at = "start" /\ tasks'[s].at = "download"
                        => tasks[s].req \notin refused]_vars

(* A claim never takes the tasks above the limit in force, although the    *)
(* poll lies between the test of the capacity and the claim.               *)
CapacityKept ==
  [][~(active' \subseteq active) => Cardinality(active') <= limit']_vars

(* stop_after_current ends the process only when every task, its cleanup   *)
(* included, is over, and every finished upload is safe.                   *)
DrainsFirst ==
  [][PollDrain => /\ \A s \in Slots : ~Live(s)
                  /\ finished \subseteq Safe]_vars

(* SIGTERM, too, loses no finished upload.  The code does not hold to it:  *)
(* main returns at the top of its loop while a task still waits to report. *)
ShutdownKeepsFinished ==
  [][ExitOnSignal => finished \subseteq Safe]_vars

(* Every claimed task ends, so that a slot is never lost: after any mix of *)
(* rejections and maintenance, which is waited out without limit.          *)
TasksEnd ==
  \A s \in Slots : Live(s) ~> ~Live(s)

(* An agent told to finish and stop does so, provided the queue is not     *)
(* paused in its own user interface.                                       *)
DrainHonoured ==
  <>[](command = "drain" /\ ~queuePaused) => []<>(proc = "down")

=============================================================================
