----------------------------- MODULE UploadPool -----------------------------
(***************************************************************************)
(* One call of UploadToUsenet (services/upload_usenet.go): a dispatcher    *)
(* goroutine reads the file chunk by chunk into the bounded channel        *)
(* "jobs", NNTPConnections workers post the chunks and push the segments   *)
(* into the bounded channel "results", a closer closes "results" when all  *)
(* workers are gone, and the caller collects segments until then.          *)
(*                                                                         *)
(* A chunk is its part number.  The news server is external: it keeps the  *)
(* articles it accepted, by Message-ID, and may lose the acknowledgement.  *)
(***************************************************************************)
EXTENDS Integers, Sequences, FiniteSets

CONSTANTS
  Workers,      \* the NNTP worker goroutines (cfg.NNTPConnections of them)
  N,            \* totalChunks, computed from the size when the file is opened
  Readable,     \* chunks the file still yields when it is read (it may shrink)
  QueueCap,     \* capacity of jobs and of results (workerCount*2 in the code)
  MaxRetries,   \* attempts per chunk (3 in the code)
  StaleParts    \* parts an aborted upload left in this file's fileCRCState

Parts == 1..N

ASSUME PoolAssumption ==
  /\ Workers # {}
  /\ N \in Nat \ {0}
  /\ Readable \in 0..N
  /\ QueueCap \in Nat \ {0}
  /\ MaxRetries \in Nat \ {0}
  /\ StaleParts \subseteq Parts

NoPart == 0

(* Message-IDs: a part and the attempt for which the id was drawn.         *)
MessageIDs == Parts \X (0..MaxRetries)
Segments   == [number : Parts, id : MessageIDs]

VARIABLES
  \* the dispatcher goroutine
  dpc,         \* "read", "send", "done" (jobs is closed by its deferred close)
  next,        \* i, the part it reads or sends next
  jobs,        \* channel jobs
  \* the workers
  wpc,         \* where each worker is
  wjob,        \* the part it holds, NoPart when it holds none
  attempt,     \* attempt counter of its retry loop
  conn,        \* whether it has an open NNTP connection
  registered,  \* fileCRCState.parts: parts whose pcrc is recorded
  results,     \* channel results
  resClosed,   \* results closed by the closer goroutine
  \* the caller
  errs,        \* channel errs, capacity 1: "none" or the first fatal error
  segments,    \* segments collected so far, in order of arrival
  ret,         \* "running", or how UploadToUsenet returned
  \* the environment
  cancelled,   \* ctx.Err() # nil
  stored       \* Message-IDs the news server holds

dispVars   == <<dpc, next>>
workerVars == <<wpc, wjob, attempt, conn, registered>>
callVars   == <<resClosed, segments, ret>>
vars == <<dpc, next, jobs, wpc, wjob, attempt, conn, registered, results,
          resClosed, errs, segments, ret, cancelled, stored>>

WorkerPC == {"pull", "encode", "await", "connect", "post", "backoff",
             "deliver", "exited"}
Errors   == {"none", "read", "auth", "chunk"}

TypeOK ==
  /\ dpc \in {"read", "send", "done"}
  /\ next \in 1..(N + 1)
  /\ jobs \in Seq(Parts)
  /\ wpc \in [Workers -> WorkerPC]
  /\ wjob \in [Workers -> 0..N]
  /\ attempt \in [Workers -> 1..MaxRetries]
  /\ conn \in [Workers -> BOOLEAN]
  /\ registered \subseteq Parts
  /\ results \in Seq(Segments)
  /\ resClosed \in BOOLEAN
  /\ errs \in Errors
  /\ segments \in Seq(Segments)
  /\ ret \in {"running", "ok", "failed", "cancelled"}
  /\ cancelled \in BOOLEAN
  /\ stored \subseteq MessageIDs

Init ==
  /\ dpc = "read" /\ next = 1 /\ jobs = <<>>
  /\ wpc = [w \in Workers |-> "pull"]
  /\ wjob = [w \in Workers |-> NoPart]
  /\ attempt = [w \in Workers |-> 1]
  /\ conn = [w \in Workers |-> FALSE]
  /\ registered = StaleParts
  /\ results = <<>> /\ resClosed = FALSE
  /\ errs = "none" /\ segments = <<>> /\ ret = "running"
  /\ cancelled = FALSE /\ stored = {}

(* select { case errs <- e: default: }                                     *)
Report(e) == errs' = IF errs = "none" THEN e ELSE errs

-----------------------------------------------------------------------------
(* The dispatcher.                                                         *)

(* Top of the loop: the next chunk is read.  Once the caller has returned  *)
(* the file is closed, so that a read fails.                               *)
DispatchRead ==
  /\ dpc = "read" /\ next <= N /\ ~cancelled /\ ret = "running"
  /\ next <= Readable
  /\ dpc' = "send"
  /\ UNCHANGED <<next, jobs, workerVars, results, callVars, errs, cancelled, stored>>

DispatchReadError ==
  /\ dpc = "read" /\ next <= N /\ ~cancelled
  /\ Report("read")
  /\ dpc' = "done"
  /\ UNCHANGED <<next, jobs, workerVars, results, callVars, cancelled, stored>>

(* ctx cancelled, all parts sent, or n == 0: the goroutine returns and its *)
(* deferred close closes jobs.                                             *)
DispatchEnd ==
  /\ dpc = "read"
  /\ cancelled \/ next > N \/ next > Readable
  /\ dpc' = "done"
  /\ UNCHANGED <<next, jobs, workerVars, results, callVars, errs, cancelled, stored>>

(* jobs <- UploadJob{...}: blocks while the channel is full, and does not  *)
(* watch ctx.                                                              *)
DispatchSend ==
  /\ dpc = "send" /\ Len(jobs) < QueueCap
  /\ jobs' = Append(jobs, next)
  /\ next' = next + 1
  /\ dpc' = "read"
  /\ UNCHANGED <<workerVars, results, callVars, errs, cancelled, stored>>

Dispatch == DispatchRead \/ DispatchReadError \/ DispatchEnd \/ DispatchSend

-----------------------------------------------------------------------------
(* The workers.                                                            *)

Exit(w)  == wpc' = [wpc EXCEPT ![w] = "exited"]
Close(w) == conn' = [conn EXCEPT ![w] = FALSE]

Pull(w) ==
  /\ wpc[w] = "pull" /\ jobs # <<>>
  /\ wpc' = [wpc EXCEPT ![w] = "encode"]
  /\ wjob' = [wjob EXCEPT ![w] = Head(jobs)]
  /\ jobs' = Tail(jobs)
  /\ UNCHANGED <<dispVars, attempt, conn, registered, results, callVars, errs,
                 cancelled, stored>>

(* ctx.Done(), or jobs closed and drained.                                 *)
Quit(w) ==
  /\ wpc[w] = "pull"
  /\ cancelled \/ (jobs = <<>> /\ dpc = "done")
  /\ Exit(w) /\ Close(w)
  /\ UNCHANGED <<dispVars, jobs, wjob, attempt, registered, results, callVars,
                 errs, cancelled, stored>>

(* The key under which a part is recorded.                                 *)
CrcIndex(w) == wjob[w]

(* yEncodeChunk records the part's pcrc; the final part of a multi-part    *)
(* file goes on to wait for the others, holding no lock.                   *)
Register(w) ==
  /\ wpc[w] = "encode"
  /\ registered' = IF N > 1 THEN registered \cup {CrcIndex(w)} ELSE registered
  /\ wpc' = [wpc EXCEPT ![w] = IF N > 1 /\ wjob[w] = N THEN "await" ELSE "connect"]
  /\ attempt' = [attempt EXCEPT ![w] = 1]
  /\ UNCHANGED <<dispVars, jobs, wjob, conn, results, callVars, errs,
                 cancelled, stored>>

(* len(state.parts) = totalParts: the whole-file CRC is combined and the   *)
(* entry is deleted.                                                       *)
Combine(w) ==
  /\ wpc[w] = "await" /\ registered = Parts
  /\ registered' = {}
  /\ wpc' = [wpc EXCEPT ![w] = "connect"]
  /\ UNCHANGED <<dispVars, jobs, wjob, attempt, conn, results, callVars, errs,
                 cancelled, stored>>

(* Top of the retry loop: ctx is checked before every attempt.             *)
Abandon(w) ==
  /\ wpc[w] = "connect" /\ cancelled
  /\ Exit(w) /\ Close(w)
  /\ UNCHANGED <<dispVars, jobs, wjob, attempt, registered, results, callVars,
                 errs, cancelled, stored>>

Connect(w) ==
  /\ wpc[w] = "connect" /\ ~cancelled
  /\ conn' = [conn EXCEPT ![w] = TRUE]
  /\ wpc' = [wpc EXCEPT ![w] = "post"]
  /\ UNCHANGED <<dispVars, jobs, wjob, attempt, registered, results, callVars,
                 errs, cancelled, stored>>

ConnectFail(w) ==
  /\ wpc[w] = "connect" /\ ~cancelled /\ ~conn[w]
  /\ wpc' = [wpc EXCEPT ![w] = "backoff"]
  /\ UNCHANGED <<dispVars, jobs, wjob, attempt, conn, registered, results,
                 callVars, errs, cancelled, stored>>

ConnectAuthFail(w) ==
  /\ wpc[w] = "connect" /\ ~cancelled /\ ~conn[w]
  /\ Report("auth")
  /\ Exit(w)
  /\ UNCHANGED <<dispVars, jobs, wjob, attempt, conn, registered, results, callVars,
                 cancelled, stored>>

(* Mutant: a Message-ID drawn for every attempt.                           *)
FreshMessageID(part, k) == <<part, k>>

(* The Message-ID is drawn once per job, before the retry loop.            *)
MessageID(part, k) == <<part, 0>>

(* uploadChunk: 240 received.                                              *)
PostOk(w) ==
  /\ wpc[w] = "post"
  /\ stored' = stored \cup {MessageID(wjob[w], attempt[w])}
  /\ wpc' = [wpc EXCEPT ![w] = "deliver"]
  /\ UNCHANGED <<dispVars, jobs, wjob, attempt, conn, registered, results,
                 callVars, errs, cancelled>>

(* Where a failed post leads.                                              *)
AfterFailedPost == "backoff"

(* uploadChunk: a timeout, a broken connection or a refusal; the server    *)
(* may have kept the article.  The connection is closed.                   *)
PostFail(w) ==
  /\ wpc[w] = "post"
  /\ \E kept \in {{}, {MessageID(wjob[w], attempt[w])}} : stored' = stored \cup kept
  /\ wpc' = [wpc EXCEPT ![w] = AfterFailedPost]
  /\ Close(w)
  /\ UNCHANGED <<dispVars, jobs, wjob, attempt, registered, results, callVars,
                 errs, cancelled>>

PostAuthFail(w) ==
  /\ wpc[w] = "post"
  /\ Report("auth")
  /\ Exit(w) /\ Close(w)
  /\ UNCHANGED <<dispVars, jobs, wjob, attempt, registered, results, callVars,
                 cancelled, stored>>

(* attempt <= maxRetries, for the next attempt.                            *)
RetriesLeft(w) == attempt[w] < MaxRetries

(* backoffCtx slept: the next attempt.                                     *)
Retry(w) ==
  /\ wpc[w] = "backoff" /\ RetriesLeft(w)
  /\ attempt' = [attempt EXCEPT ![w] = @ + 1]
  /\ wpc' = [wpc EXCEPT ![w] = "connect"]
  /\ UNCHANGED <<dispVars, jobs, wjob, conn, registered, results, callVars,
                 errs, cancelled, stored>>

(* backoffCtx slept after the last attempt: fatal, the worker exits.       *)
GiveUp(w) ==
  /\ wpc[w] = "backoff" /\ ~RetriesLeft(w)
  /\ Report("chunk")
  /\ Exit(w)
  /\ UNCHANGED <<dispVars, jobs, wjob, attempt, conn, registered, results, callVars,
                 cancelled, stored>>

(* backoffCtx returned FALSE.                                              *)
BackoffCancelled(w) ==
  /\ wpc[w] = "backoff" /\ cancelled
  /\ Exit(w)
  /\ UNCHANGED <<dispVars, jobs, wjob, attempt, conn, registered, results, callVars,
                 errs, cancelled, stored>>

(* results <- NZBSegment{...}: blocks while the channel is full.           *)
Deliver(w) ==
  /\ wpc[w] = "deliver" /\ Len(results) < QueueCap
  /\ results' = Append(results, [number |-> wjob[w],
                                 id |-> MessageID(wjob[w], attempt[w])])
  /\ wjob' = [wjob EXCEPT ![w] = NoPart]
  /\ wpc' = [wpc EXCEPT ![w] = "pull"]
  /\ UNCHANGED <<dispVars, jobs, attempt, conn, registered, callVars, errs,
                 cancelled, stored>>

Worker(w) ==
  \/ Pull(w) \/ Quit(w) \/ Register(w) \/ Combine(w)
  \/ Abandon(w) \/ Connect(w) \/ ConnectFail(w) \/ ConnectAuthFail(w)
  \/ PostOk(w) \/ PostFail(w) \/ PostAuthFail(w)
  \/ Retry(w) \/ GiveUp(w) \/ BackoffCancelled(w) \/ Deliver(w)

-----------------------------------------------------------------------------
(* The closer and the caller.                                              *)

(* wg.Wait().  Mutant: the closer waits for the dispatcher as well.        *)
DispatcherToo == dpc = "done" /\ \A w \in Workers : wpc[w] = "exited"
AllExited == \A w \in Workers : wpc[w] = "exited"

(* wg.Wait(); close(results)                                               *)
CloseResults ==
  /\ ~resClosed /\ AllExited
  /\ resClosed' = TRUE
  /\ UNCHANGED <<dispVars, jobs, workerVars, results, segments, ret, errs,
                 cancelled, stored>>

(* The collector reads on.  Mutant: it stops at the first error.           *)
StopAtError == ret = "running" /\ errs = "none"
Collecting == ret = "running"

(* for seg := range results: dropped once ctx is cancelled.                *)
Collect ==
  /\ Collecting /\ results # <<>>
  /\ segments' = IF cancelled THEN segments ELSE Append(segments, Head(results))
  /\ results' = Tail(results)
  /\ UNCHANGED <<dispVars, jobs, workerVars, resClosed, ret, errs, cancelled, stored>>

(* ctx first, then errs, then success.  Mutant: errs is not consulted.     *)
OutcomeBlind == IF cancelled THEN "cancelled" ELSE "ok"
Outcome == IF cancelled THEN "cancelled" ELSE IF errs # "none" THEN "failed" ELSE "ok"

(* The range loop over results ends.                                       *)
Return ==
  /\ ret = "running" /\ results = <<>> /\ resClosed
  /\ ret' = Outcome
  /\ UNCHANGED <<dispVars, jobs, workerVars, results, resClosed, segments,
                 errs, cancelled, stored>>

(* The request is cancelled, or the agent shuts down.                      *)
Cancel ==
  /\ ~cancelled /\ cancelled' = TRUE
  /\ UNCHANGED <<dispVars, jobs, workerVars, results, callVars, errs, stored>>

Next ==
  \/ Dispatch
  \/ \E w \in Workers : Worker(w)
  \/ CloseResults \/ Collect \/ Return \/ Cancel

Spec == Init /\ [][Next]_vars

(* Every goroutine that can take a step takes one: dials and posts carry   *)
(* deadlines (nntpDialTimeout, nntpOpTimeout) and backoffs end.            *)
Fairness ==
  /\ WF_vars(Dispatch)
  /\ \A w \in Workers : WF_vars(Worker(w))
  /\ WF_vars(CloseResults)
  /\ WF_vars(Collect)
  /\ WF_vars(Return)

FairSpec == Spec /\ Fairness
-----------------------------------------------------------------------------
(* Properties.                                                             *)

Delivered == {segments[i].number : i \in DOMAIN segments}

(* A successful upload returns one segment for every chunk the file        *)
(* yielded, each exactly once: no chunk is lost between the dispatcher,    *)
(* the workers and the two channels, and a worker's failure is never       *)
(* overlooked by the check of errs (UploadToUsenet, the tail).             *)
OkMeansComplete ==
  ret = "ok" => /\ Delivered = 1..Readable
                /\ \A i, j \in DOMAIN segments :
                     segments[i].number = segments[j].number => i = j

(* Every segment handed to the NZB names an article the server accepted    *)
(* (nntpWorker sends a segment only for the Message-ID that was posted).   *)
SegmentsOnServer == \A i \in DOMAIN segments : segments[i].id \in stored

(* A chunk whose acknowledgement was lost is retried under the same        *)
(* Message-ID, so that the group never holds two articles for a part.      *)
OneArticlePerPart == \A a, b \in stored : a[1] = b[1] => a = b

(* The worker of the final part, blocked on the condition variable of      *)
(* fileCRCState without watching ctx, waits only for parts another live    *)
(* worker is about to record: workers never wait for each other in a ring, *)
(* nor for a part still in the channel or in the dispatcher.               *)
FinalPartAwaitsEncoders ==
  \A w \in Workers : wpc[w] = "await" =>
    \A p \in Parts \ registered :
      \E v \in Workers : wpc[v] = "encode" /\ wjob[v] = p

(* The caller releases UploadSlot when UploadToUsenet returns: by then no  *)
(* worker holds an NNTP connection, so the next upload has the whole       *)
(* connection budget.                                                      *)
NoConnectionAfterReturn ==
  ret # "running" => \A w \in Workers : ~conn[w]

(* After the return no worker of this upload posts or connects any more,   *)
(* whatever the dispatcher left in the channel.                            *)
QuietAfterReturn == [][ret # "running" => UNCHANGED <<stored, conn, segments>>]_vars

(* UploadToUsenet returns, whatever the server does and whichever workers  *)
(* die: the collector is never left waiting for a worker.                  *)
Returns == <>(ret # "running")

(* The dispatcher's send, which does not watch ctx, is only ever stuck     *)
(* because no worker is left to receive.                                   *)
DispatcherServed ==
  (dpc = "send") ~> (dpc # "send" \/ AllExited)

ArticlePart(a) == a[1]

(* The pool implements the promise of FileUpload.                          *)
Abs == INSTANCE FileUpload WITH
  PartIds    <- 1..Readable,
  ArticleIds <- MessageIDs,
  PartOf     <- ArticlePart,
  articles   <- stored,
  outcome    <- ret,
  nzb        <- IF ret = "ok" THEN {segments[i].id : i \in DOMAIN segments} ELSE {}

ImplementsFileUpload == Abs!AbsSpec
=============================================================================
