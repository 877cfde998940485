-------------------------- MODULE UploadPoolProofs --------------------------
(***************************************************************************)
(* Safety of the upload pool for any number of workers, parts, channel     *)
(* slots and retries.  The inductive invariant says where every part is:   *)
(* not dispatched yet, in jobs, held by one worker, in results or among    *)
(* the segments, and what a worker or the dispatcher leaves behind when it *)
(* ends.                                                                   *)
(***************************************************************************)
EXTENDS UploadPool, SequenceTheorems, FiniteSetTheorems, TLAPS

(* Names of single guards and values, transparent in every proof below.    *)
USE DEF Collecting, AllExited, CrcIndex, AfterFailedPost, RetriesLeft, Outcome

(* The parts workers have taken from jobs so far are 1..Pulled.            *)
Pulled == next - 1 - Len(jobs)

(* Parts enter and leave jobs in order.                                    *)
JobsInOrder ==
  /\ next <= Readable + 1
  /\ dpc = "send" => next <= Readable
  /\ Pulled >= 0
  /\ \A i \in 1..Len(jobs) : jobs[i] = Pulled + i

(* A part is held by at most one worker.                                   *)
HeldOnce ==
  /\ \A w \in Workers : wjob[w] <= Pulled
  /\ \A w \in Workers : wpc[w] = "pull" => wjob[w] = NoPart
  /\ \A w \in Workers : wpc[w] \notin {"pull", "exited"} => wjob[w] # NoPart
  /\ \A v, w \in Workers : wjob[v] = wjob[w] => v = w \/ wjob[w] = NoPart

(* A part in results or among the segments is there once and nobody holds  *)
(* it any more.                                                            *)
SentOnce ==
  /\ \A i \in 1..Len(results) : results[i].number <= Pulled
  /\ \A i \in 1..Len(segments) : segments[i].number <= Pulled
  /\ \A i \in 1..Len(results), w \in Workers : wjob[w] # results[i].number
  /\ \A i \in 1..Len(segments), w \in Workers : wjob[w] # segments[i].number
  /\ \A i, j \in 1..Len(results) : results[i].number = results[j].number => i = j
  /\ \A i, j \in 1..Len(segments) : segments[i].number = segments[j].number => i = j
  /\ \A i \in 1..Len(results), j \in 1..Len(segments) :
       results[i].number # segments[j].number

(* Without a cancellation no part that was pulled is dropped.              *)
NoneLost ==
  ~cancelled =>
    \A p \in 1..Pulled :
      \/ \E w \in Workers : wjob[w] = p
      \/ \E i \in 1..Len(results) : results[i].number = p
      \/ \E i \in 1..Len(segments) : segments[i].number = p

(* Why the goroutines ended.                                               *)
EndsExplained ==
  /\ \A w \in Workers : wpc[w] = "exited" /\ wjob[w] # NoPart
                          => errs # "none" \/ cancelled
  /\ \A w \in Workers : wpc[w] = "exited" /\ wjob[w] = NoPart
                          => cancelled \/ (jobs = <<>> /\ dpc = "done")
  /\ dpc = "done" => next > Readable \/ errs # "none" \/ cancelled
  /\ resClosed => \A w \in Workers : wpc[w] = "exited"
  /\ ret # "running" => resClosed

(* Segments name stored articles; Message-IDs are drawn once per part.     *)
Stored ==
  /\ \A a \in stored : a[2] = 0
  /\ \A w \in Workers : wpc[w] = "deliver" => MessageID(wjob[w], 0) \in stored
  /\ \A i \in 1..Len(results) :
       results[i].id = MessageID(results[i].number, 0) /\ results[i].id \in stored
  /\ \A i \in 1..Len(segments) :
       segments[i].id = MessageID(segments[i].number, 0) /\ segments[i].id \in stored

(* A worker that exited, or backs off, has closed its connection.          *)
Closed == \A w \in Workers : wpc[w] \in {"backoff", "exited"} => ~conn[w]

(* Until the final part has been combined, a part that was pulled is       *)
(* recorded or about to be.                                                *)
FinalPending ==
  Pulled < N \/ \E w \in Workers : wjob[w] = N /\ wpc[w] \in {"encode", "await"}

CrcInOrder ==
  /\ \A w \in Workers : wpc[w] = "await" => wjob[w] = N /\ N > 1
  /\ N > 1 /\ FinalPending =>
       \A p \in 1..Pulled :
         p \in registered \/ \E v \in Workers : wpc[v] = "encode" /\ wjob[v] = p

IInv ==
  /\ TypeOK
  /\ JobsInOrder
  /\ HeldOnce
  /\ SentOnce
  /\ NoneLost
  /\ EndsExplained
  /\ Stored
  /\ Closed
  /\ CrcInOrder
  /\ OkMeansComplete

-----------------------------------------------------------------------------
(* A worker between a pull and a delivery holds a part.                    *)
LEMMA HolderPart ==
  ASSUME IInv, NEW w \in Workers, wpc[w] \notin {"pull", "exited"}
  PROVE  wjob[w] \in Parts
  BY PoolAssumption DEF IInv, TypeOK, HeldOnce, Parts, NoPart

LEMMA IdType ==
  ASSUME NEW p \in Parts, NEW k PROVE MessageID(p, k) \in MessageIDs
  BY PoolAssumption DEF MessageID, MessageIDs

(* Every step keeps the types.                                             *)
LEMMA TypeStep == ASSUME IInv, [Next]_vars PROVE TypeOK'
  <1>a. \A w \in Workers : wpc[w] \notin {"pull", "exited"} => wjob[w] \in Parts
    BY HolderPart
  <1>b. TypeOK /\ JobsInOrder
    BY DEF IInv
  <1> USE <1>b, PoolAssumption DEF TypeOK, dispVars, workerVars, callVars
  <1>1. CASE DispatchRead \/ DispatchEnd \/ DispatchReadError
    BY <1>1 DEF DispatchRead, DispatchReadError, DispatchEnd, Report, Errors
  <1>2. CASE DispatchSend
    <2>1. next \in Parts
      BY <1>2 DEF DispatchSend, JobsInOrder, Parts
    <2>2. QED BY <1>2, <2>1 DEF DispatchSend, Parts
  <1>3. CASE CloseResults \/ Return \/ Cancel
    BY <1>3 DEF CloseResults, Return, Cancel
  <1>4. CASE Collect
    BY <1>4 DEF Collect
  <1>5. ASSUME NEW w \in Workers, Pull(w) PROVE TypeOK'
    <2>1. Head(jobs) \in Parts /\ Tail(jobs) \in Seq(Parts)
      BY <1>5 DEF Pull
    <2>2. /\ jobs' = Tail(jobs) /\ wjob' = [wjob EXCEPT ![w] = Head(jobs)]
          /\ dpc' = dpc /\ next' = next
      BY <1>5 DEF Pull, dispVars
    <2>3. jobs' \in Seq(Parts) /\ wjob' \in [Workers -> 0..N]
      BY <2>1, <2>2 DEF Parts
    <2>4. QED BY <1>5, <2>1, <2>2, <2>3 DEF Pull, Parts, WorkerPC
  <1>6. ASSUME NEW w \in Workers, Register(w) PROVE TypeOK'
    <2>1. wpc[w] \notin {"pull", "exited"}
      BY <1>6 DEF Register
    <2>2. registered' \subseteq Parts
      BY <1>6, <2>1, <1>a DEF Register
    <2>3. wpc' \in [Workers -> WorkerPC]
      BY <1>6 DEF Register, WorkerPC
    <2>4. attempt' \in [Workers -> 1..MaxRetries]
      BY <1>6 DEF Register
    <2>5. QED BY <1>6, <2>2, <2>3, <2>4 DEF Register
  <1>7. ASSUME NEW w \in Workers, PostOk(w) \/ PostFail(w) PROVE TypeOK'
    <2>1. MessageID(wjob[w], attempt[w]) \in MessageIDs
      BY <1>7, <1>a, IdType DEF PostOk, PostFail
    <2>2. stored' \subseteq MessageIDs
      BY <1>7, <2>1 DEF PostOk, PostFail
    <2>3. QED BY <1>7, <2>2 DEF PostOk, PostFail, Close, WorkerPC
  <1>8. ASSUME NEW w \in Workers, Deliver(w) PROVE TypeOK'
    <2>1. [number |-> wjob[w], id |-> MessageID(wjob[w], attempt[w])] \in Segments
      BY <1>8, <1>a, IdType DEF Deliver, Segments
    <2>2. QED BY <1>8, <2>1 DEF Deliver, WorkerPC, NoPart
  <1>9. ASSUME NEW w \in Workers,
               Quit(w) \/ Combine(w) \/ Abandon(w) \/ Connect(w) \/ ConnectFail(w)
        PROVE  TypeOK'
    BY <1>9 DEF Quit, Combine, Abandon, Connect, ConnectFail, Exit, Close, WorkerPC
  <1>10. ASSUME NEW w \in Workers, Retry(w) PROVE TypeOK'
    BY <1>10 DEF Retry, WorkerPC
  <1>11. ASSUME NEW w \in Workers,
                ConnectAuthFail(w) \/ PostAuthFail(w) \/ GiveUp(w) \/ BackoffCancelled(w)
         PROVE  TypeOK'
    BY <1>11 DEF ConnectAuthFail, PostAuthFail, GiveUp, BackoffCancelled,
                 Exit, Close, Report, WorkerPC, Errors
  <1>12. CASE UNCHANGED vars
    BY <1>12 DEF vars
  <1>13. QED
    BY <1>1, <1>2, <1>3, <1>4, <1>5, <1>6, <1>7, <1>8, <1>9, <1>10, <1>11, <1>12
       DEF Next, Dispatch, Worker

(* Facts about the sequences of the pool that every step needs.            *)
LEMMA QueueFacts ==
  ASSUME TypeOK
  PROVE  /\ Len(jobs) \in Nat /\ Len(results) \in Nat /\ Len(segments) \in Nat
         /\ \A i \in 1..Len(results) : results[i].number \in Parts
         /\ \A i \in 1..Len(segments) : segments[i].number \in Parts
         /\ next \in Nat /\ Pulled \in Int
  <1>1. Len(jobs) \in Nat /\ Len(results) \in Nat /\ Len(segments) \in Nat
    BY DEF TypeOK
  <1>2. next \in Nat
    BY PoolAssumption DEF TypeOK
  <1>3. /\ \A i \in 1..Len(results) : results[i] \in Segments
        /\ \A i \in 1..Len(segments) : segments[i] \in Segments
    BY DEF TypeOK
  <1>4. \A g \in Segments : g.number \in Parts
    BY DEF Segments
  <1>5. QED BY <1>1, <1>2, <1>3, <1>4 DEF Pulled

(* The channel jobs stays in dispatch order.                               *)
LEMMA JobsStep == ASSUME IInv, [Next]_vars PROVE JobsInOrder'
  <1> USE PoolAssumption DEF JobsInOrder, Pulled
  <1>a. TypeOK /\ JobsInOrder
    BY DEF IInv
  <1>b. Len(jobs) \in Nat /\ next \in Nat
    BY <1>a, QueueFacts
  <1>1. CASE DispatchRead
    BY <1>1, <1>a, <1>b DEF DispatchRead
  <1>2. CASE DispatchSend
    <2>1. /\ jobs' = Append(jobs, next) /\ next' = next + 1 /\ dpc' = "read"
          /\ next <= Readable
      BY <1>2, <1>a DEF DispatchSend
    <2>2. /\ Len(jobs') = Len(jobs) + 1
          /\ \A i \in 1..Len(jobs) : jobs'[i] = jobs[i]
          /\ jobs'[Len(jobs) + 1] = next
      BY <2>1, <1>a DEF TypeOK
    <2>3. QED BY <2>1, <2>2, <1>a, <1>b
  <1>3. ASSUME NEW w \in Workers, Pull(w) PROVE JobsInOrder'
    <2>1. /\ Len(jobs') = Len(jobs) - 1
          /\ \A i \in 1..Len(jobs') : jobs'[i] = jobs[i + 1]
          /\ UNCHANGED <<dpc, next>>
      BY <1>3, <1>a DEF Pull, TypeOK, dispVars
    <2>2. QED BY <2>1, <1>a, <1>b
  <1>4. CASE DispatchReadError \/ DispatchEnd
    BY <1>4, <1>a DEF DispatchReadError, DispatchEnd
  <1>5. CASE UNCHANGED <<dpc, next, jobs>>
    BY <1>5, <1>a
  <1>6. QED
    BY <1>1, <1>2, <1>3, <1>4, <1>5
       DEF Next, Dispatch, Worker, vars, dispVars, CloseResults, Collect, Return,
           Cancel, Quit, Register, Combine, Abandon, Connect, ConnectFail,
           ConnectAuthFail, PostOk, PostFail, PostAuthFail, Retry, GiveUp,
           BackoffCancelled, Deliver

(* Head(jobs) is the next part nobody has pulled yet.                      *)
LEMMA PullFresh ==
  ASSUME IInv, NEW w \in Workers, Pull(w)
  PROVE  /\ Pulled' = Pulled + 1
         /\ wjob' = [wjob EXCEPT ![w] = Pulled + 1]
         /\ Pulled + 1 \in Parts
  <1>1. jobs \in Seq(Parts) /\ jobs # <<>> /\ Head(jobs) = jobs[1]
        /\ Len(jobs') = Len(jobs) - 1 /\ next' = next /\ Len(jobs) \in Nat
    BY DEF IInv, TypeOK, Pull, dispVars
  <1>2. 1 \in 1..Len(jobs) /\ jobs[1] = Pulled + 1 /\ jobs[1] \in Parts
    BY <1>1 DEF IInv, JobsInOrder
  <1>3. next \in Nat
    BY QueueFacts DEF IInv
  <1>4. Pulled' = Pulled + 1
    BY <1>1, <1>3 DEF Pulled
  <1>5. wjob' = [wjob EXCEPT ![w] = Head(jobs)]
    BY DEF Pull
  <1>6. QED BY <1>1, <1>2, <1>4, <1>5

(* Apart from a pull, no step moves the boundary of the pulled parts.      *)
LEMMA PulledKept ==
  ASSUME IInv, [Next]_vars
  PROVE  (\E w \in Workers : Pull(w)) \/ Pulled' = Pulled
  <1>1. CASE DispatchSend
    <2>1. Len(jobs') = Len(jobs) + 1 /\ next' = next + 1
      BY <1>1 DEF DispatchSend, IInv, TypeOK
    <2>2. Len(jobs) \in Nat /\ next \in Nat
      BY QueueFacts DEF IInv
    <2>3. QED BY <2>1, <2>2 DEF Pulled
  <1>2. CASE UNCHANGED <<next, jobs>>
    BY <1>2 DEF Pulled
  <1>3. QED
    BY <1>1, <1>2
       DEF Next, Dispatch, DispatchRead, DispatchReadError, DispatchEnd, Worker,
           vars, dispVars, CloseResults, Collect, Return,
           Cancel, Quit, Register, Combine, Abandon, Connect, ConnectFail,
           ConnectAuthFail, PostOk, PostFail, PostAuthFail, Retry, GiveUp,
           BackoffCancelled, Deliver

(* Besides a pull and a delivery, no step changes who holds which part.    *)
LEMMA HoldersKept ==
  ASSUME IInv, [Next]_vars
  PROVE  \/ \E w \in Workers : Pull(w)
         \/ \E w \in Workers : Deliver(w)
         \/ /\ wjob' = wjob
            /\ Pulled' = Pulled
            /\ \A v \in Workers : wpc'[v] = "pull" => wpc[v] = "pull"
            /\ \A v \in Workers : wpc[v] \in {"pull", "exited"}
                                    => wpc'[v] \in {"pull", "exited"}
  <1> DEFINE Kept ==
        /\ wjob' = wjob
        /\ \A v \in Workers : wpc'[v] = "pull" => wpc[v] = "pull"
        /\ \A v \in Workers : wpc[v] \in {"pull", "exited"}
                                => wpc'[v] \in {"pull", "exited"}
  <1>a. wpc \in [Workers -> WorkerPC]
    BY DEF IInv, TypeOK
  <1>1. ASSUME UNCHANGED <<wpc, wjob>> PROVE Kept
    BY <1>1
  <1>2. ASSUME NEW w \in Workers,
               \/ Quit(w) \/ Combine(w) \/ Abandon(w)
               \/ Connect(w) \/ ConnectFail(w) \/ ConnectAuthFail(w)
        PROVE  Kept
    BY <1>2, <1>a DEF Quit, Combine, Abandon, Connect, ConnectFail,
                      ConnectAuthFail, Exit, Close, WorkerPC
  <1>r. ASSUME NEW w \in Workers, Register(w) PROVE Kept
    <2>1. CASE wpc' = [wpc EXCEPT ![w] = "await"]
      BY <1>r, <2>1, <1>a DEF Register
    <2>2. CASE wpc' = [wpc EXCEPT ![w] = "connect"]
      BY <1>r, <2>2, <1>a DEF Register
    <2>3. QED BY <1>r, <2>1, <2>2 DEF Register
  <1>3. ASSUME NEW w \in Workers,
               \/ PostOk(w) \/ PostFail(w) \/ PostAuthFail(w) \/ Retry(w)
               \/ GiveUp(w) \/ BackoffCancelled(w)
        PROVE  Kept
    BY <1>3, <1>a DEF PostOk, PostFail, PostAuthFail, Retry, GiveUp,
                      BackoffCancelled, Exit, Close, WorkerPC
  <1>4. \/ \E w \in Workers : Pull(w)
        \/ \E w \in Workers : Deliver(w)
        \/ Kept
    BY <1>1, <1>2, <1>r, <1>3
       DEF Next, Dispatch, DispatchRead, DispatchReadError, DispatchEnd,
           DispatchSend, Worker, vars, workerVars, CloseResults, Collect,
           Return, Cancel
  <1>5. QED BY <1>4, PulledKept

(* A part is held by at most one worker.                                   *)
LEMMA HeldStep == ASSUME IInv, [Next]_vars PROVE HeldOnce'
  <1>a. /\ wpc \in [Workers -> WorkerPC] /\ wjob \in [Workers -> 0..N]
        /\ HeldOnce /\ Pulled \in Int /\ 0 <= Pulled /\ N \in Nat
    BY QueueFacts, PoolAssumption DEF IInv, TypeOK, JobsInOrder
  <1>1. ASSUME NEW w \in Workers, Pull(w) PROVE HeldOnce'
    <2>1. /\ Pulled' = Pulled + 1 /\ wjob' = [wjob EXCEPT ![w] = Pulled + 1]
          /\ wpc' = [wpc EXCEPT ![w] = "encode"] /\ Pulled + 1 \in Parts
      BY <1>1, PullFresh DEF Pull
    <2>2. \A v \in Workers : wjob[v] \in Int /\ wjob[v] <= Pulled
      BY <1>a DEF HeldOnce
    <2>3. QED BY <1>a, <2>1, <2>2 DEF HeldOnce, NoPart, Parts
  <1>2. ASSUME NEW w \in Workers, Deliver(w) PROVE HeldOnce'
    <2>1. /\ wjob' = [wjob EXCEPT ![w] = 0] /\ wpc' = [wpc EXCEPT ![w] = "pull"]
      BY <1>2 DEF Deliver, NoPart
    <2>2. Pulled' = Pulled
      BY <1>2 DEF Deliver, Pulled, dispVars
    <2>3. QED BY <1>a, <2>1, <2>2 DEF HeldOnce, NoPart
  <1>3. CASE /\ wjob' = wjob
             /\ Pulled' = Pulled
             /\ \A v \in Workers : wpc'[v] = "pull" => wpc[v] = "pull"
             /\ \A v \in Workers : wpc[v] \in {"pull", "exited"}
                                     => wpc'[v] \in {"pull", "exited"}
    BY <1>3, <1>a DEF HeldOnce, NoPart
  <1>4. QED BY <1>1, <1>2, <1>3, HoldersKept

(* The channel results and the segments change by a delivery and a         *)
(* collection only.                                                        *)
LEMMA SentKept ==
  ASSUME [Next]_vars
  PROVE  \/ \E w \in Workers : Deliver(w)
         \/ Collect
         \/ UNCHANGED <<results, segments>>
  BY DEF Next, Dispatch, DispatchRead, DispatchReadError, DispatchEnd,
         DispatchSend, Worker, vars, callVars, CloseResults, Return, Cancel,
         Pull, Quit, Register, Combine, Abandon, Connect, ConnectFail,
         ConnectAuthFail, PostOk, PostFail, PostAuthFail, Retry, GiveUp,
         BackoffCancelled

(* What a delivery does to the channel results.                            *)
LEMMA DeliverEffect ==
  ASSUME IInv, NEW w \in Workers, Deliver(w)
  PROVE  /\ Len(results') = Len(results) + 1
         /\ \A i \in 1..Len(results) : results'[i] = results[i]
         /\ results'[Len(results) + 1].number = wjob[w]
         /\ results'[Len(results) + 1].id = MessageID(wjob[w], 0)
         /\ UNCHANGED <<segments, stored, cancelled>> /\ Pulled' = Pulled
         /\ wjob' = [wjob EXCEPT ![w] = NoPart] /\ wjob[w] \in Parts
  <1> DEFINE g == [number |-> wjob[w], id |-> MessageID(wjob[w], 0)]
  <1>1. results \in Seq(Segments) /\ results' = Append(results, g)
    BY DEF IInv, TypeOK, Deliver, MessageID
  <1>2. wjob[w] \in Parts
    BY HolderPart DEF Deliver
  <1>3. g.number = wjob[w] /\ g.id = MessageID(wjob[w], 0)
    OBVIOUS
  <1>4. Len(results') = Len(results) + 1
        /\ (\A i \in 1..Len(results) : results'[i] = results[i])
        /\ results'[Len(results) + 1] = g
    BY <1>1
  <1>5. UNCHANGED <<segments, stored, cancelled>> /\ Pulled' = Pulled
        /\ wjob' = [wjob EXCEPT ![w] = NoPart]
    BY DEF Deliver, callVars, dispVars, Pulled
  <1>6. QED BY <1>2, <1>3, <1>4, <1>5

(* What a collection does to results and to the segments.                  *)
LEMMA CollectEffect ==
  ASSUME IInv, Collect
  PROVE  /\ Len(results') = Len(results) - 1
         /\ Len(results) \in Nat /\ 1 \in 1..Len(results)
         /\ \A i \in 1..Len(results') : results'[i] = results[i + 1]
         /\ \/ cancelled /\ segments' = segments
            \/ /\ ~cancelled
               /\ Len(segments') = Len(segments) + 1
               /\ \A i \in 1..Len(segments) : segments'[i] = segments[i]
               /\ segments'[Len(segments) + 1] = results[1]
         /\ UNCHANGED <<wjob, wpc, stored, cancelled, jobs, next>>
  <1>1. results \in Seq(Segments) /\ results # <<>> /\ segments \in Seq(Segments)
        /\ cancelled \in BOOLEAN
    BY DEF IInv, TypeOK, Collect
  <1>2. Len(results) \in Nat /\ 1 \in 1..Len(results) /\ Head(results) = results[1]
        /\ Head(results) \in Segments
    BY <1>1
  <1>3. Len(results') = Len(results) - 1
        /\ \A i \in 1..Len(results') : results'[i] = results[i + 1]
    BY <1>1 DEF Collect
  <1>4. segments' = IF cancelled THEN segments ELSE Append(segments, Head(results))
    BY DEF Collect
  <1>5. UNCHANGED <<wjob, wpc, stored, cancelled, jobs, next>>
    BY DEF Collect, workerVars, dispVars
  <1>6. ~cancelled => /\ Len(segments') = Len(segments) + 1
                      /\ \A i \in 1..Len(segments) : segments'[i] = segments[i]
                      /\ segments'[Len(segments) + 1] = results[1]
    BY <1>1, <1>2, <1>4
  <1>7. QED BY <1>1, <1>2, <1>3, <1>4, <1>5, <1>6

(* A part that was sent is sent once, and nobody holds it.                 *)
LEMMA SentStep == ASSUME IInv, [Next]_vars PROVE SentOnce'
  <1>a. /\ SentOnce /\ HeldOnce
        /\ Len(results) \in Nat /\ Len(segments) \in Nat /\ Pulled \in Int
        /\ wjob \in [Workers -> 0..N] /\ N \in Nat
        /\ \A i \in 1..Len(results) : results[i].number \in Parts
        /\ \A i \in 1..Len(segments) : segments[i].number \in Parts
    BY QueueFacts, PoolAssumption DEF IInv, TypeOK
  <1>1. ASSUME NEW w \in Workers, Pull(w) PROVE SentOnce'
    <2>1. /\ Pulled' = Pulled + 1 /\ wjob' = [wjob EXCEPT ![w] = Pulled + 1]
          /\ UNCHANGED <<results, segments>>
      BY <1>1, PullFresh DEF Pull, callVars
    <2>2. /\ \A i \in 1..Len(results) : results[i].number \in Int
          /\ \A i \in 1..Len(segments) : segments[i].number \in Int
      BY <1>a DEF Parts
    <2>3. \A v \in Workers : wjob'[v] = IF v = w THEN Pulled + 1 ELSE wjob[v]
      BY <1>a, <2>1
    <2>4. QED BY <1>a, <2>1, <2>2, <2>3 DEF SentOnce
  <1>2. ASSUME NEW w \in Workers, Deliver(w) PROVE SentOnce'
    <2> DEFINE k == Len(results) + 1
    <2>1. /\ Len(results') = k /\ segments' = segments /\ Pulled' = Pulled
          /\ \A i \in 1..Len(results) : results'[i] = results[i]
          /\ results'[k].number = wjob[w] /\ wjob[w] \in Parts
      BY <1>2, DeliverEffect
    <2>2. \A v \in Workers : wjob'[v] = IF v = w THEN NoPart ELSE wjob[v]
      BY <1>2, <1>a, DeliverEffect
    <2>3. \A i \in 1..k : \/ i \in 1..Len(results) /\ results'[i] = results[i]
                          \/ i = k /\ results'[i].number = wjob[w]
      BY <1>a, <2>1
    <2>4. \A i \in 1..k : results'[i].number \in Parts
                          /\ results'[i].number <= Pulled
      BY <1>a, <2>1, <2>3 DEF SentOnce, HeldOnce
    <2>5. \A i \in 1..k, v \in Workers : wjob'[v] # results'[i].number
      BY <1>a, <2>1, <2>2, <2>3, <2>4 DEF SentOnce, HeldOnce, NoPart, Parts
    <2>6. \A i \in 1..Len(segments), v \in Workers : wjob'[v] # segments[i].number
      BY <1>a, <2>2 DEF SentOnce, NoPart, Parts
    <2>7. \A i, j \in 1..k : results'[i].number = results'[j].number => i = j
      BY <1>a, <2>3 DEF SentOnce
    <2>8. \A i \in 1..k, j \in 1..Len(segments) :
            results'[i].number # segments[j].number
      BY <1>a, <2>3 DEF SentOnce
    <2>9. QED BY <1>a, <2>1, <2>4, <2>5, <2>6, <2>7, <2>8 DEF SentOnce
  <1>3. CASE Collect
    <2>0. /\ Len(results') = Len(results) - 1 /\ 1 \in 1..Len(results)
          /\ \A i \in 1..Len(results') : results'[i] = results[i + 1]
          /\ wjob' = wjob /\ Pulled' = Pulled
      BY <1>3, CollectEffect DEF Pulled
    <2>1. \A i \in 1..Len(results') : /\ i + 1 \in 1..Len(results)
                                      /\ i + 1 # 1
                                      /\ results'[i] = results[i + 1]
      BY <1>a, <2>0
    <2>5. /\ \A i \in 1..Len(results') : results'[i].number <= Pulled
          /\ \A i \in 1..Len(results'), w \in Workers : wjob[w] # results'[i].number
          /\ \A i, j \in 1..Len(results') :
               results'[i].number = results'[j].number => i = j
          /\ \A i \in 1..Len(results'), j \in 1..Len(segments) :
               results'[i].number # segments[j].number
          /\ \A i \in 1..Len(results') : results'[i].number # results[1].number
      <3>1. \A i, j \in 1..Len(results') : i + 1 = j + 1 => i = j
        BY <1>a
      <3>2. \A i \in 1..Len(results') : results'[i].number <= Pulled
        BY <1>a, <2>1 DEF SentOnce
      <3>3. \A i \in 1..Len(results'), w \in Workers : wjob[w] # results'[i].number
        BY <1>a, <2>1 DEF SentOnce
      <3>4. \A i, j \in 1..Len(results') :
              results'[i].number = results'[j].number => i = j
        BY <1>a, <2>1, <3>1 DEF SentOnce
      <3>5. \A i \in 1..Len(results'), j \in 1..Len(segments) :
              results'[i].number # segments[j].number
        BY <1>a, <2>1 DEF SentOnce
      <3>6. \A i \in 1..Len(results') : results'[i].number # results[1].number
        BY <1>a, <2>0, <2>1 DEF SentOnce
      <3>7. QED BY <3>2, <3>3, <3>4, <3>5, <3>6
    <2>2. CASE segments' = segments
      BY <1>a, <2>0, <2>2, <2>5 DEF SentOnce
    <2>3. CASE /\ Len(segments') = Len(segments) + 1
               /\ \A i \in 1..Len(segments) : segments'[i] = segments[i]
               /\ segments'[Len(segments) + 1] = results[1]
      <3>1. \A i \in 1..Len(segments') :
              \/ i \in 1..Len(segments) /\ segments'[i] = segments[i]
              \/ i = Len(segments) + 1 /\ segments'[i] = results[1]
        BY <1>a, <2>3
      <3>2. /\ \A i \in 1..Len(segments') : segments'[i].number <= Pulled
            /\ \A i \in 1..Len(segments'), w \in Workers :
                 wjob[w] # segments'[i].number
        <4>1. /\ \A i \in 1..Len(segments) : segments[i].number <= Pulled
              /\ \A i \in 1..Len(segments), w \in Workers :
                   wjob[w] # segments[i].number
              /\ results[1].number <= Pulled
              /\ \A w \in Workers : wjob[w] # results[1].number
          BY <1>a, <2>0 DEF SentOnce
        <4>2. QED BY <4>1, <3>1
      <3>3. \A i, j \in 1..Len(segments') :
              segments'[i].number = segments'[j].number => i = j
        BY <2>0, <3>1, <1>a DEF SentOnce
      <3>4. \A i \in 1..Len(results'), j \in 1..Len(segments') :
              results'[i].number # segments'[j].number
        BY <2>5, <3>1
      <3>5. QED BY <2>0, <2>5, <3>2, <3>3, <3>4 DEF SentOnce
    <2>4. QED BY <1>3, <2>2, <2>3, CollectEffect
  <1>4. CASE /\ UNCHANGED <<results, segments>>
             /\ wjob' = wjob /\ Pulled' = Pulled
    BY <1>4, <1>a DEF SentOnce
  <1>5. CASE UNCHANGED <<results, segments>>
    <2>1. (\E w \in Workers : Pull(w)) \/ (\E w \in Workers : Deliver(w))
          \/ (wjob' = wjob /\ Pulled' = Pulled)
      BY HoldersKept
    <2>2. QED BY <1>1, <1>2, <1>4, <1>5, <2>1
  <1>6. QED BY <1>2, <1>3, <1>5, SentKept

(* A part that was pulled stays accounted for until ctx is cancelled.      *)
LEMMA LostStep == ASSUME IInv, [Next]_vars PROVE NoneLost'
  <1> DEFINE Somewhere(p) ==
        \/ \E w \in Workers : wjob[w] = p
        \/ \E i \in 1..Len(results) : results[i].number = p
        \/ \E i \in 1..Len(segments) : segments[i].number = p
  <1>a. /\ wjob \in [Workers -> 0..N] /\ Pulled \in Int
        /\ Len(results) \in Nat /\ Len(segments) \in Nat
        /\ (~cancelled => \A p \in 1..Pulled : Somewhere(p))
    BY QueueFacts DEF IInv, TypeOK, NoneLost
  <1>b. ~cancelled' => ~cancelled
    BY DEF Next, Dispatch, DispatchRead, DispatchReadError, DispatchEnd,
         DispatchSend, Worker, vars, CloseResults, Collect, Return, Cancel,
         Pull, Quit, Register, Combine, Abandon, Connect, ConnectFail,
         ConnectAuthFail, PostOk, PostFail, PostAuthFail, Retry, GiveUp,
         BackoffCancelled, Deliver
  <1> SUFFICES ASSUME ~cancelled' PROVE \A p \in 1..Pulled' : Somewhere(p)'
    BY DEF NoneLost
  <1>c. \A p \in 1..Pulled : Somewhere(p)
    BY <1>a, <1>b
  <1>1. ASSUME NEW w \in Workers, Pull(w) PROVE \A p \in 1..Pulled' : Somewhere(p)'
    <2>1. /\ Pulled' = Pulled + 1 /\ wjob' = [wjob EXCEPT ![w] = Pulled + 1]
          /\ UNCHANGED <<results, segments>> /\ wjob[w] = 0
      BY <1>1, PullFresh DEF Pull, callVars, IInv, HeldOnce, NoPart
    <2>2. TAKE p \in 1..Pulled'
    <2>3. CASE p = Pulled + 1
      BY <2>1, <2>3, <1>a
    <2>4. CASE p # Pulled + 1
      <3>1. p \in 1..Pulled /\ p # 0
        BY <1>a, <2>1, <2>2, <2>4
      <3>2. Somewhere(p)
        BY <3>1, <1>c
      <3>3. ASSUME NEW v \in Workers, wjob[v] = p PROVE wjob'[v] = p
        BY <3>1, <3>3, <2>1, <1>a
      <3>4. QED BY <3>2, <3>3, <2>1
    <2>5. QED BY <2>3, <2>4
  <1>2. ASSUME NEW w \in Workers, Deliver(w)
        PROVE  \A p \in 1..Pulled' : Somewhere(p)'
    <2>1. /\ Len(results') = Len(results) + 1 /\ segments' = segments
          /\ Pulled' = Pulled
          /\ \A i \in 1..Len(results) : results'[i] = results[i]
          /\ results'[Len(results) + 1].number = wjob[w]
          /\ wjob' = [wjob EXCEPT ![w] = NoPart]
      BY <1>2, DeliverEffect
    <2>2. TAKE p \in 1..Pulled'
    <2>3. Somewhere(p)
      BY <2>1, <2>2, <1>c
    <2>4. CASE wjob[w] = p
      BY <2>1, <2>4, <1>a
    <2>5. ASSUME NEW v \in Workers, wjob[v] = p, v # w PROVE wjob'[v] = p
      BY <2>1, <2>5, <1>a
    <2>6. ASSUME NEW i \in 1..Len(results), results[i].number = p
          PROVE  i \in 1..Len(results') /\ results'[i].number = p
      BY <2>1, <2>6, <1>a
    <2>7. QED BY <2>1, <2>3, <2>4, <2>5, <2>6
  <1>3. CASE Collect
    <2>1. /\ Len(results') = Len(results) - 1 /\ 1 \in 1..Len(results)
          /\ \A i \in 1..Len(results') : results'[i] = results[i + 1]
          /\ wjob' = wjob /\ Pulled' = Pulled
          /\ Len(segments') = Len(segments) + 1
          /\ \A i \in 1..Len(segments) : segments'[i] = segments[i]
          /\ segments'[Len(segments) + 1] = results[1]
      BY <1>3, <1>b, CollectEffect DEF Pulled
    <2>2. TAKE p \in 1..Pulled'
    <2>3. Somewhere(p)
      BY <2>1, <2>2, <1>c
    <2>4. ASSUME NEW i \in 1..Len(results), results[i].number = p
          PROVE  Somewhere(p)'
      <3>1. CASE i = 1
        BY <2>1, <2>4, <3>1, <1>a
      <3>2. CASE i # 1
        <4>1. i - 1 \in 1..Len(results') /\ results'[i - 1] = results[(i - 1) + 1]
          BY <2>1, <3>2, <1>a
        <4>2. (i - 1) + 1 = i
          OBVIOUS
        <4>3. QED BY <4>1, <4>2, <2>4
      <3>3. QED BY <3>1, <3>2
    <2>5. ASSUME NEW i \in 1..Len(segments), segments[i].number = p
          PROVE  i \in 1..Len(segments') /\ segments'[i].number = p
      BY <2>1, <2>5, <1>a
    <2>6. QED BY <2>1, <2>3, <2>4, <2>5
  <1>4. CASE UNCHANGED <<results, segments>>
    <2>1. (\E w \in Workers : Pull(w)) \/ (\E w \in Workers : Deliver(w))
          \/ (wjob' = wjob /\ Pulled' = Pulled)
      BY HoldersKept
    <2>2. CASE wjob' = wjob /\ Pulled' = Pulled
      BY <1>4, <2>2, <1>c
    <2>3. QED BY <1>1, <1>2, <2>1, <2>2
  <1>5. QED BY <1>2, <1>3, <1>4, SentKept

(* Whoever reports an error leaves errs full.                              *)
LEMMA ReportFills ==
  ASSUME NEW e \in {"read", "auth", "chunk"}, Report(e) PROVE errs' # "none"
  BY DEF Report

(* errs, once full, and ctx, once cancelled, stay so.                      *)
LEMMA SignalsStick ==
  ASSUME IInv, [Next]_vars
  PROVE  (errs # "none" => errs' # "none") /\ (cancelled => cancelled')
  BY DEF IInv, TypeOK, Next, Dispatch, DispatchRead, DispatchReadError, DispatchEnd,
         DispatchSend, Worker, vars, CloseResults, Collect, Return, Cancel,
         Pull, Quit, Register, Combine, Abandon, Connect, ConnectFail,
         ConnectAuthFail, PostOk, PostFail, PostAuthFail, Retry, GiveUp,
         BackoffCancelled, Deliver, Report

(* A worker that exited stays so; a worker exits for a reason.             *)
LEMMA ExitReasons ==
  ASSUME IInv, [Next]_vars, NEW v \in Workers, wpc'[v] = "exited"
  PROVE  /\ wjob'[v] = wjob[v]
         /\ \/ wpc[v] = "exited"
            \/ wpc[v] # "pull" /\ (errs' # "none" \/ cancelled')
            \/ wpc[v] = "pull" /\ wjob[v] = NoPart
               /\ (cancelled \/ (jobs = <<>> /\ dpc = "done"))
               /\ UNCHANGED <<jobs, dpc>>
  <1> DEFINE Reason ==
         /\ wjob'[v] = wjob[v]
         /\ \/ wpc[v] = "exited"
            \/ wpc[v] # "pull" /\ (errs' # "none" \/ cancelled')
            \/ wpc[v] = "pull" /\ wjob[v] = NoPart
               /\ (cancelled \/ (jobs = <<>> /\ dpc = "done"))
               /\ UNCHANGED <<jobs, dpc>>
  <1>a. /\ wpc \in [Workers -> WorkerPC] /\ wjob \in [Workers -> 0..N]
        /\ (wpc[v] = "pull" => wjob[v] = NoPart)
    BY DEF IInv, TypeOK, HeldOnce
  <1>1. ASSUME NEW w \in Workers, Quit(w) PROVE Reason
    BY <1>1, <1>a DEF Quit, Exit, Close, dispVars
  <1>2. ASSUME NEW w \in Workers, Abandon(w) \/ BackoffCancelled(w) PROVE Reason
    BY <1>2, <1>a DEF Abandon, BackoffCancelled, Exit, Close
  <1>3. ASSUME NEW w \in Workers, ConnectAuthFail(w) \/ PostAuthFail(w) \/ GiveUp(w)
        PROVE  Reason
    BY <1>3, <1>a, ReportFills DEF ConnectAuthFail, PostAuthFail, GiveUp, Exit, Close
  <1>4. ASSUME NEW w \in Workers, Pull(w) \/ Deliver(w)
        PROVE  Reason
    BY <1>4, <1>a DEF Pull, Deliver
  <1>5. ASSUME NEW w \in Workers,
               \/ Register(w) \/ Combine(w) \/ Connect(w) \/ ConnectFail(w)
               \/ PostOk(w) \/ PostFail(w) \/ Retry(w)
        PROVE  Reason
    BY <1>5, <1>a DEF Register, Combine, Connect, ConnectFail, PostOk, PostFail,
                      Retry
  <1>6. ASSUME UNCHANGED <<wpc, wjob>> PROVE Reason
    BY <1>6
  <1>7. QED
    BY <1>1, <1>2, <1>3, <1>4, <1>5, <1>6
       DEF Next, Dispatch, DispatchRead, DispatchReadError, DispatchEnd,
           DispatchSend, Worker, vars, workerVars, CloseResults, Collect,
           Return, Cancel

LEMMA ExitedStays ==
  ASSUME IInv, [Next]_vars, NEW v \in Workers, wpc[v] = "exited"
  PROVE  wpc'[v] = "exited"
  <1>a. wpc \in [Workers -> WorkerPC]
    BY DEF IInv, TypeOK
  <1>1. ASSUME NEW w \in Workers, Worker(w) PROVE wpc'[v] = "exited"
    <2>1. w # v /\ \E c \in WorkerPC : wpc' = [wpc EXCEPT ![w] = c]
      BY <1>1 DEF Worker, Pull, Quit, Register, Combine, Abandon, Connect,
         ConnectFail, ConnectAuthFail, PostOk, PostFail, PostAuthFail, Retry,
         GiveUp, BackoffCancelled, Deliver, Exit, Close, WorkerPC
    <2>2. QED BY <2>1, <1>a
  <1>2. CASE UNCHANGED wpc
    BY <1>2
  <1>3. QED
    BY <1>1, <1>2
       DEF Next, Dispatch, DispatchRead, DispatchReadError, DispatchEnd,
           DispatchSend, vars, workerVars, CloseResults, Collect, Return, Cancel

(* Once closed and drained, jobs stays so.                                 *)
LEMMA DrainedStays ==
  ASSUME [Next]_vars, jobs = <<>>, dpc = "done"
  PROVE  jobs' = <<>> /\ dpc' = "done"
  BY DEF Next, Dispatch, DispatchRead, DispatchReadError, DispatchEnd,
         DispatchSend, Worker, vars, dispVars, CloseResults, Collect, Return, Cancel,
         Pull, Quit, Register, Combine, Abandon, Connect, ConnectFail,
         ConnectAuthFail, PostOk, PostFail, PostAuthFail, Retry, GiveUp,
         BackoffCancelled, Deliver

(* Every goroutine that ended did so for a reason that is still visible.   *)
LEMMA EndsStep == ASSUME IInv, [Next]_vars PROVE EndsExplained'
  <1>a. EndsExplained /\ HeldOnce
    BY DEF IInv
  <1>b. (errs # "none" => errs' # "none") /\ (cancelled => cancelled')
    BY SignalsStick
  <1>1. ASSUME NEW v \in Workers, wpc'[v] = "exited", wjob'[v] # NoPart
        PROVE  errs' # "none" \/ cancelled'
    BY <1>1, <1>a, <1>b, ExitReasons DEF EndsExplained
  <1>2. ASSUME NEW v \in Workers, wpc'[v] = "exited", wjob'[v] = NoPart
        PROVE  cancelled' \/ (jobs' = <<>> /\ dpc' = "done")
    <2>1. CASE wpc[v] = "exited"
      BY <1>2, <2>1, <1>a, <1>b, ExitReasons, DrainedStays DEF EndsExplained
    <2>2. CASE wpc[v] = "pull"
      BY <1>2, <2>2, <1>b, ExitReasons, DrainedStays
    <2>3. CASE wpc[v] \notin {"pull", "exited"}
      BY <1>2, <2>3, <1>a, ExitReasons DEF HeldOnce
    <2>4. QED BY <2>1, <2>2, <2>3
  <1>3. dpc' = "done" => next' > Readable \/ errs' # "none" \/ cancelled'
    <2>1. CASE DispatchEnd
      BY <2>1, PoolAssumption, QueueFacts DEF DispatchEnd, IInv
    <2>2. CASE DispatchReadError
      BY <2>2, ReportFills DEF DispatchReadError
    <2>3. CASE DispatchRead \/ DispatchSend
      BY <2>3 DEF DispatchRead, DispatchSend
    <2>4. CASE UNCHANGED <<dpc, next>>
      BY <2>4, <1>a, <1>b DEF EndsExplained
    <2>5. QED
      BY <2>1, <2>2, <2>3, <2>4
         DEF Next, Dispatch, Worker, vars, dispVars, CloseResults, Collect, Return,
             Cancel, Pull, Quit, Register, Combine, Abandon, Connect, ConnectFail,
             ConnectAuthFail, PostOk, PostFail, PostAuthFail, Retry, GiveUp,
             BackoffCancelled, Deliver
  <1>4. (resClosed' => \A w \in Workers : wpc'[w] = "exited")
        /\ (ret' # "running" => resClosed')
    <2>1. CASE CloseResults
      BY <2>1, <1>a DEF CloseResults, workerVars, EndsExplained
    <2>2. CASE Return
      BY <2>2, <1>a DEF Return, workerVars, EndsExplained
    <2>3. CASE UNCHANGED <<resClosed, ret>>
      BY <2>3, <1>a, ExitedStays DEF EndsExplained
    <2>4. QED
      BY <2>1, <2>2, <2>3
         DEF Next, Dispatch, DispatchRead, DispatchReadError, DispatchEnd,
             DispatchSend, Worker, vars, callVars, Collect, Cancel,
             Pull, Quit, Register, Combine, Abandon, Connect, ConnectFail,
             ConnectAuthFail, PostOk, PostFail, PostAuthFail, Retry, GiveUp,
             BackoffCancelled, Deliver
  <1>5. QED BY <1>1, <1>2, <1>3, <1>4 DEF EndsExplained

(* What the server stores and what is sent stay related.                   *)
LEMMA StoredStep == ASSUME IInv, [Next]_vars PROVE Stored'
  <1>a. /\ Stored /\ wpc \in [Workers -> WorkerPC] /\ wjob \in [Workers -> 0..N]
        /\ Len(results) \in Nat /\ Len(segments) \in Nat
    BY QueueFacts DEF IInv, TypeOK
  <1>1. ASSUME NEW w \in Workers, Deliver(w) PROVE Stored'
    <2>1. /\ Len(results') = Len(results) + 1 /\ segments' = segments
          /\ stored' = stored
          /\ \A i \in 1..Len(results) : results'[i] = results[i]
          /\ results'[Len(results) + 1].number = wjob[w]
          /\ results'[Len(results) + 1].id = MessageID(wjob[w], 0)
          /\ MessageID(wjob[w], 0) \in stored
      BY <1>1, <1>a, DeliverEffect DEF Deliver, Stored
    <2>2. \A v \in Workers : wpc'[v] = "deliver" => /\ wpc[v] = "deliver"
                                                    /\ wjob'[v] = wjob[v]
      BY <1>1, <1>a DEF Deliver
    <2>3. \A i \in 1..Len(results') :
            i \in 1..Len(results) \/ i = Len(results) + 1
      BY <2>1, <1>a
    <2>4. QED BY <1>a, <2>1, <2>2, <2>3 DEF Stored
  <1>2. CASE Collect
    <2>1. /\ Len(results') = Len(results) - 1 /\ 1 \in 1..Len(results)
          /\ \A i \in 1..Len(results') : results'[i] = results[i + 1]
          /\ UNCHANGED <<wjob, wpc, stored>>
          /\ \/ segments' = segments
             \/ /\ Len(segments') = Len(segments) + 1
                /\ \A i \in 1..Len(segments) : segments'[i] = segments[i]
                /\ segments'[Len(segments) + 1] = results[1]
      BY <1>2, CollectEffect
    <2>2. \A i \in 1..Len(results') : i + 1 \in 1..Len(results)
      BY <2>1, <1>a
    <2>3. \A i \in 1..Len(segments') :
            \/ i \in 1..Len(segments) /\ segments'[i] = segments[i]
            \/ segments'[i] = results[1]
      BY <2>1, <1>a
    <2>4. QED BY <1>a, <2>1, <2>2, <2>3 DEF Stored
  <1>3. ASSUME NEW w \in Workers, PostOk(w) \/ PostFail(w) PROVE Stored'
    <2>1. /\ UNCHANGED <<wjob, results, segments>>
          /\ stored \subseteq stored'
          /\ \A a \in stored' : a \in stored \/ a = MessageID(wjob[w], attempt[w])
          /\ PostOk(w) => MessageID(wjob[w], attempt[w]) \in stored'
      BY <1>3 DEF PostOk, PostFail, callVars
    <2>2. \A v \in Workers : wpc'[v] = "deliver" =>
            wpc[v] = "deliver" \/ (v = w /\ PostOk(w))
      BY <1>3, <1>a DEF PostOk, PostFail
    <2>3. QED BY <1>a, <2>1, <2>2 DEF Stored, MessageID
  <1>4. CASE /\ UNCHANGED <<results, segments, stored>>
             /\ \A v \in Workers : wpc'[v] = "deliver" => /\ wpc[v] = "deliver"
                                                          /\ wjob'[v] = wjob[v]
    BY <1>4, <1>a DEF Stored
  <1>5. ASSUME NEW w \in Workers,
               \/ Pull(w) \/ Quit(w) \/ Register(w) \/ Combine(w) \/ Abandon(w)
               \/ Connect(w) \/ ConnectFail(w)
        PROVE  Stored'
    <2>1. \E c \in WorkerPC \ {"deliver"} : wpc' = [wpc EXCEPT ![w] = c]
      BY <1>5 DEF Pull, Quit, Register, Combine, Abandon, Connect, ConnectFail,
                  Exit, Close, WorkerPC
    <2>2. \A v \in Workers : v # w => wjob'[v] = wjob[v]
      BY <1>5, <1>a DEF Pull, Quit, Register, Combine, Abandon, Connect, ConnectFail
    <2>3. UNCHANGED <<results, segments, stored>>
      BY <1>5 DEF Pull, Quit, Register, Combine, Abandon, Connect, ConnectFail, callVars
    <2>4. QED BY <1>4, <1>a, <2>1, <2>2, <2>3
  <1>6. ASSUME NEW w \in Workers,
               \/ ConnectAuthFail(w) \/ PostAuthFail(w) \/ Retry(w)
               \/ GiveUp(w) \/ BackoffCancelled(w)
        PROVE  Stored'
    <2>1. \E c \in WorkerPC \ {"deliver"} : wpc' = [wpc EXCEPT ![w] = c]
      BY <1>6 DEF ConnectAuthFail, PostAuthFail, Retry, GiveUp, BackoffCancelled,
                  Exit, Close, WorkerPC
    <2>2. UNCHANGED <<wjob, results, segments, stored>>
      BY <1>6 DEF ConnectAuthFail, PostAuthFail, Retry, GiveUp, BackoffCancelled,
                  callVars
    <2>3. QED BY <1>4, <1>a, <2>1, <2>2
  <1>7. CASE UNCHANGED <<wpc, wjob, results, segments, stored>>
    BY <1>7, <1>a DEF Stored
  <1>8. QED
    BY <1>1, <1>2, <1>3, <1>5, <1>6, <1>7
       DEF Next, Dispatch, DispatchRead, DispatchReadError, DispatchEnd,
           DispatchSend, Worker, vars, workerVars, callVars, CloseResults, Return,
           Cancel

(* A worker closes its connection on every way out.                        *)
LEMMA ClosedStep == ASSUME IInv, [Next]_vars PROVE Closed'
  <1>a. /\ Closed /\ wpc \in [Workers -> WorkerPC] /\ conn \in [Workers -> BOOLEAN]
    BY DEF IInv, TypeOK
  <1>1. ASSUME NEW w \in Workers,
               Quit(w) \/ Abandon(w) \/ PostAuthFail(w) \/ PostFail(w)
        PROVE  Closed'
    BY <1>1, <1>a DEF Quit, Abandon, PostAuthFail, PostFail, Exit, Close, Closed
  <1>2. ASSUME NEW w \in Workers, ConnectFail(w) \/ ConnectAuthFail(w)
        PROVE  Closed'
    BY <1>2, <1>a DEF ConnectFail, ConnectAuthFail, Exit, Closed
  <1>3. ASSUME NEW w \in Workers, GiveUp(w) \/ BackoffCancelled(w)
        PROVE  Closed'
    BY <1>3, <1>a DEF GiveUp, BackoffCancelled, Exit, Closed
  <1>4. ASSUME NEW w \in Workers, Connect(w) PROVE Closed'
    BY <1>4, <1>a DEF Connect, Closed
  <1>5. ASSUME NEW w \in Workers,
               \/ Pull(w) \/ Register(w) \/ Combine(w) \/ PostOk(w)
               \/ Retry(w) \/ Deliver(w)
        PROVE  Closed'
    <2>1. conn' = conn
          /\ \E c \in WorkerPC \ {"backoff", "exited"} : wpc' = [wpc EXCEPT ![w] = c]
      BY <1>5 DEF Pull, Register, Combine, PostOk, Retry, Deliver, WorkerPC
    <2>2. QED BY <2>1, <1>a DEF Closed
  <1>6. CASE UNCHANGED <<wpc, conn>>
    BY <1>6, <1>a DEF Closed
  <1>7. QED
    BY <1>1, <1>2, <1>3, <1>4, <1>5, <1>6
       DEF Next, Dispatch, DispatchRead, DispatchReadError, DispatchEnd,
           DispatchSend, Worker, vars, workerVars, CloseResults, Collect,
           Return, Cancel

(* The final part waits for encoders only.                                 *)
LEMMA CrcStep == ASSUME IInv, [Next]_vars PROVE CrcInOrder'
  <1> DEFINE Recorded(p) ==
        p \in registered \/ \E v \in Workers : wpc[v] = "encode" /\ wjob[v] = p
  <1>a. /\ CrcInOrder /\ HeldOnce
        /\ wpc \in [Workers -> WorkerPC] /\ wjob \in [Workers -> 0..N]
        /\ Pulled \in Int /\ N \in Nat /\ N >= 1
    <2>1. TypeOK /\ CrcInOrder /\ HeldOnce
      BY DEF IInv
    <2>2. QED BY <2>1, QueueFacts, PoolAssumption DEF TypeOK
  <1>1. ASSUME NEW w \in Workers, Pull(w) PROVE CrcInOrder'
    <2>1. /\ Pulled' = Pulled + 1 /\ wjob' = [wjob EXCEPT ![w] = Pulled + 1]
          /\ Pulled + 1 \in Parts /\ wpc[w] = "pull"
          /\ wpc' = [wpc EXCEPT ![w] = "encode"] /\ registered' = registered
      BY <1>1, PullFresh DEF Pull
    <2>2. Pulled < N
      BY <2>1, <1>a DEF Parts
    <2>3. \A v \in Workers : wpc'[v] = "await" => wjob'[v] = N /\ N > 1
      BY <2>1, <1>a DEF CrcInOrder
    <2>4. ASSUME N > 1, NEW p \in 1..Pulled' PROVE Recorded(p)'
      <3>1. CASE p = Pulled + 1
        BY <2>1, <3>1, <1>a
      <3>2. CASE p # Pulled + 1
        <4>1. p \in 1..Pulled
          BY <2>1, <3>2, <1>a
        <4>2. Recorded(p)
          BY <4>1, <2>2, <2>4, <1>a DEF CrcInOrder, FinalPending
        <4>3. QED BY <4>2, <2>1, <1>a
      <3>3. QED BY <3>1, <3>2
    <2>5. QED BY <2>3, <2>4 DEF CrcInOrder
  <1>2. ASSUME NEW w \in Workers, Register(w) PROVE CrcInOrder'
    <2>1. /\ wjob' = wjob /\ Pulled' = Pulled /\ wjob[w] \in Parts
          /\ wpc[w] = "encode"
      BY <1>2, HolderPart DEF Register, dispVars, Pulled
    <2>2. wpc' = [wpc EXCEPT ![w] = IF N > 1 /\ wjob[w] = N THEN "await" ELSE "connect"]
          /\ registered' = IF N > 1 THEN registered \cup {wjob[w]} ELSE registered
      BY <1>2 DEF Register
    <2>3. \A v \in Workers : wpc'[v] = "await" => wjob'[v] = N /\ N > 1
      BY <2>1, <2>2, <1>a DEF CrcInOrder
    <2>4. ASSUME N > 1, FinalPending', NEW p \in 1..Pulled' PROVE Recorded(p)'
      <3>1. FinalPending
        <4>1. CASE Pulled < N
          BY <4>1 DEF FinalPending
        <4>2. ASSUME NEW v \in Workers, wjob'[v] = N, wpc'[v] \in {"encode", "await"}
              PROVE  wjob[v] = N /\ wpc[v] \in {"encode", "await"}
          BY <4>2, <2>1, <2>2, <1>a
        <4>3. QED BY <2>4, <2>1, <4>1, <4>2 DEF FinalPending
      <3>2. Recorded(p)
        BY <2>1, <2>4, <3>1, <1>a DEF CrcInOrder
      <3>3. ASSUME NEW v \in Workers, wpc[v] = "encode", wjob[v] = p
            PROVE  Recorded(p)'
        <4>1. CASE v = w
          BY <3>3, <4>1, <2>2, <2>4
        <4>2. CASE v # w
          BY <3>3, <4>2, <2>1, <2>2, <1>a
        <4>3. QED BY <4>1, <4>2
      <3>4. QED BY <3>2, <3>3, <2>2
    <2>5. QED BY <2>3, <2>4 DEF CrcInOrder
  <1>3. ASSUME NEW w \in Workers, Combine(w) PROVE CrcInOrder'
    <2>1. /\ wjob' = wjob /\ Pulled' = Pulled /\ wpc[w] = "await"
          /\ wpc' = [wpc EXCEPT ![w] = "connect"] /\ wjob[w] = N
      BY <1>3, <1>a DEF Combine, dispVars, Pulled, CrcInOrder
    <2>2. ~FinalPending'
      <3>1. ~(Pulled < N)
        BY <2>1, <1>a DEF HeldOnce
      <3>2. \A v \in Workers : wjob[v] = N => v = w
        BY <2>1, <1>a DEF HeldOnce, NoPart
      <3>3. QED BY <2>1, <3>1, <3>2, <1>a DEF FinalPending
    <2>3. QED BY <2>1, <2>2, <1>a DEF CrcInOrder
  <1>4. ASSUME /\ UNCHANGED registered /\ Pulled' = Pulled
               /\ \A v \in Workers :
                    \/ wpc'[v] = wpc[v] /\ wjob'[v] = wjob[v]
                    \/ /\ wpc[v] \notin {"encode", "await"}
                       /\ wpc'[v] \notin {"encode", "await"}
        PROVE CrcInOrder'
    <2>1. FinalPending' => FinalPending
      BY <1>4 DEF FinalPending
    <2>2. \A p : Recorded(p) => Recorded(p)'
      BY <1>4
    <2>3. QED BY <1>4, <2>1, <2>2, <1>a DEF CrcInOrder
  <1>5. ASSUME NEW w \in Workers,
               \/ Quit(w) \/ Abandon(w) \/ Connect(w) \/ ConnectFail(w)
               \/ ConnectAuthFail(w) \/ PostOk(w) \/ PostFail(w)
        PROVE  CrcInOrder'
    <2>1. /\ registered' = registered /\ Pulled' = Pulled /\ wjob' = wjob
          /\ wpc[w] \notin {"encode", "await"}
          /\ \E c \in WorkerPC \ {"encode", "await"} : wpc' = [wpc EXCEPT ![w] = c]
      BY <1>5 DEF Quit, Abandon, Connect, ConnectFail, ConnectAuthFail, PostOk,
                  PostFail, Exit, Pulled, dispVars, WorkerPC
    <2>2. QED BY <2>1, <1>4, <1>a
  <1>6. ASSUME NEW w \in Workers,
               \/ PostAuthFail(w) \/ Retry(w) \/ GiveUp(w)
               \/ BackoffCancelled(w) \/ Deliver(w)
        PROVE  CrcInOrder'
    <2>1. /\ registered' = registered /\ Pulled' = Pulled
          /\ \A v \in Workers : v # w => wjob'[v] = wjob[v]
          /\ wpc[w] \notin {"encode", "await"}
          /\ \E c \in WorkerPC \ {"encode", "await"} : wpc' = [wpc EXCEPT ![w] = c]
      BY <1>6, <1>a DEF PostAuthFail, Retry, GiveUp, BackoffCancelled, Deliver,
                  Exit, Pulled, dispVars, WorkerPC
    <2>2. QED BY <2>1, <1>4, <1>a
  <1>7. ASSUME UNCHANGED <<wpc, wjob, registered>>, Pulled' = Pulled
        PROVE  CrcInOrder'
    BY <1>7, <1>4
  <1>8. UNCHANGED <<wpc, wjob, registered>> \/ \E w \in Workers : Worker(w)
    BY DEF Next, Dispatch, DispatchRead, DispatchReadError, DispatchEnd,
           DispatchSend, vars, workerVars, CloseResults, Collect,
           Return, Cancel
  <1>9. QED
    BY <1>1, <1>2, <1>3, <1>5, <1>6, <1>7, <1>8, PulledKept DEF Worker

(* When the collector returns without an error, every chunk has arrived.   *)
LEMMA OkStep == ASSUME IInv, [Next]_vars PROVE OkMeansComplete'
  <1>1. CASE Return
    <2>1. SUFFICES ASSUME ret' = "ok" PROVE OkMeansComplete'
      BY DEF OkMeansComplete
    <2>2. /\ ~cancelled /\ errs = "none" /\ results = <<>> /\ resClosed
          /\ segments' = segments
      BY <1>1, <2>1 DEF Return, IInv, TypeOK
    <2>3. \A w \in Workers : wpc[w] = "exited" /\ wjob[w] = NoPart
      BY <2>2 DEF IInv, EndsExplained
    <2>4. jobs = <<>> /\ dpc = "done"
      BY <2>2, <2>3, PoolAssumption DEF IInv, EndsExplained
    <2>5. next > Readable /\ next <= Readable + 1
      BY <2>2, <2>4 DEF IInv, EndsExplained, JobsInOrder
    <2>6. Len(jobs) = 0 /\ Len(results) = 0 /\ next \in Nat
      BY <2>2, <2>4, QueueFacts DEF IInv
    <2>7. Pulled = Readable
      BY <2>5, <2>6, PoolAssumption DEF Pulled
    <2>8. DOMAIN segments = 1..Len(segments) /\ Len(segments) \in Nat
          /\ \A i \in 1..Len(segments) : segments[i].number \in Parts
      BY QueueFacts DEF IInv, TypeOK
    <2>9. Delivered \subseteq 1..Readable
      BY <2>7, <2>8, PoolAssumption DEF Delivered, IInv, SentOnce, Parts
    <2>10. \A p \in 1..Readable : p \in Delivered
      <3>1. TAKE p \in 1..Readable
      <3>2. \/ \E w \in Workers : wjob[w] = p
            \/ \E i \in 1..Len(results) : results[i].number = p
            \/ \E i \in 1..Len(segments) : segments[i].number = p
        BY <2>2, <2>7, <3>1 DEF IInv, NoneLost
      <3>3. p # NoPart /\ 1..Len(results) = {}
        BY <2>6, <3>1, PoolAssumption DEF NoPart
      <3>4. QED BY <2>3, <2>8, <3>2, <3>3 DEF Delivered
    <2>11. \A i, j \in DOMAIN segments :
             segments[i].number = segments[j].number => i = j
      BY <2>8 DEF IInv, SentOnce
    <2>12. QED BY <2>2, <2>9, <2>10, <2>11 DEF OkMeansComplete, Delivered
  <1>2. CASE Collect
    BY <1>2 DEF Collect, OkMeansComplete
  <1>3. CASE UNCHANGED <<ret, segments>>
    BY <1>3 DEF IInv, OkMeansComplete, Delivered
  <1>4. QED
    BY <1>1, <1>2, <1>3
       DEF Next, Dispatch, DispatchRead, DispatchReadError, DispatchEnd,
           DispatchSend, Worker, vars, callVars, CloseResults, Cancel,
           Pull, Quit, Register, Combine, Abandon, Connect, ConnectFail,
           ConnectAuthFail, PostOk, PostFail, PostAuthFail, Retry, GiveUp,
           BackoffCancelled, Deliver

LEMMA InitIInv == Init => IInv
  <1> SUFFICES ASSUME Init PROVE IInv
    OBVIOUS
  <1>1. TypeOK
    <2>1. jobs \in Seq(Parts) /\ results \in Seq(Segments) /\ segments \in Seq(Segments)
      BY DEF Init
    <2>2. /\ wpc \in [Workers -> WorkerPC] /\ wjob \in [Workers -> 0..N]
          /\ attempt \in [Workers -> 1..MaxRetries]
          /\ conn \in [Workers -> BOOLEAN]
      BY PoolAssumption DEF Init, WorkerPC, NoPart
    <2>3. registered \subseteq Parts /\ next \in 1..(N + 1)
      BY PoolAssumption DEF Init
    <2>4. QED BY <2>1, <2>2, <2>3 DEF Init, TypeOK, Errors
  <1>2. Len(jobs) = 0 /\ Len(results) = 0 /\ Len(segments) = 0 /\ Pulled = 0
    <2>1. jobs = <<>> /\ results = <<>> /\ segments = <<>> /\ next = 1
      BY DEF Init
    <2>2. Len(jobs) = 0 /\ Len(results) = 0 /\ Len(segments) = 0
      BY <2>1, EmptySeq
    <2>3. next = 1
      BY DEF Init
    <2>4. Pulled = 0
      BY <2>2, <2>3 DEF Pulled
    <2>5. QED BY <2>2, <2>4
  <1>3. JobsInOrder
    BY <1>2, PoolAssumption DEF Init, JobsInOrder
  <1>4. HeldOnce
    <2>1. \A w \in Workers : wjob[w] = 0 /\ wpc[w] = "pull"
      BY DEF Init, NoPart
    <2>2. QED BY <1>2, <2>1 DEF HeldOnce, NoPart
  <1>9. SentOnce
    <2>1. 1..Len(results) = {} /\ 1..Len(segments) = {}
      BY <1>2
    <2>2. QED BY <2>1 DEF SentOnce
  <1>10. NoneLost
    <2>1. 1..Pulled = {}
      BY <1>2
    <2>2. QED BY <2>1 DEF NoneLost
  <1>5. EndsExplained
    BY DEF Init, EndsExplained
  <1>11. Stored
    BY <1>2 DEF Init, Stored
  <1>12. Closed
    BY DEF Init, Closed
  <1>6. CrcInOrder
    BY <1>2, PoolAssumption DEF Init, CrcInOrder
  <1>7. OkMeansComplete
    BY DEF Init, OkMeansComplete
  <1>8. QED BY <1>1, <1>3, <1>4, <1>5, <1>6, <1>7, <1>9, <1>10, <1>11, <1>12 DEF IInv

(* The invariant holds in every reachable state of the pool.               *)
THEOREM PoolInvariant == Spec => []IInv
  <1>1. IInv /\ [Next]_vars => IInv'
    BY TypeStep, JobsStep, HeldStep, SentStep, LostStep, EndsStep, StoredStep,
       ClosedStep, CrcStep, OkStep DEF IInv
  <1>2. QED BY InitIInv, <1>1, PTL DEF Spec

(* Every variable of the pool keeps its type.                              *)
THEOREM PoolTypes == Spec => []TypeOK
  <1>1. IInv => TypeOK
    BY DEF IInv
  <1>2. QED BY <1>1, PoolInvariant, PTL

(* UploadToUsenet never reports success with a part of the file missing or *)
(* listed twice.                                                           *)
THEOREM UploadComplete == Spec => []OkMeansComplete
  <1>1. IInv => OkMeansComplete
    BY DEF IInv
  <1>2. QED BY <1>1, PoolInvariant, PTL

(* Segments name stored articles, and no part has two of them.             *)
THEOREM ArticlesSound == Spec => [](SegmentsOnServer /\ OneArticlePerPart)
  <1>1. IInv => SegmentsOnServer /\ OneArticlePerPart
    <2> SUFFICES ASSUME IInv PROVE SegmentsOnServer /\ OneArticlePerPart
      OBVIOUS
    <2>1. DOMAIN segments = 1..Len(segments)
      BY DEF IInv, TypeOK
    <2>2. SegmentsOnServer
      BY <2>1 DEF IInv, Stored, SegmentsOnServer
    <2>3. \A a \in stored : a = <<a[1], 0>>
      BY DEF IInv, TypeOK, Stored, MessageIDs
    <2>4. QED BY <2>2, <2>3 DEF OneArticlePerPart
  <1>2. QED BY <1>1, PoolInvariant, PTL

(* The one wait of the pool that does not watch ctx is on workers about to *)
(* record their part.                                                      *)
THEOREM NoRingOfWaiters == Spec => []FinalPartAwaitsEncoders
  <1>1. IInv => FinalPartAwaitsEncoders
    <2> SUFFICES ASSUME IInv, NEW w \in Workers, wpc[w] = "await",
                        NEW p \in Parts \ registered
                 PROVE  \E v \in Workers : wpc[v] = "encode" /\ wjob[v] = p
      BY DEF FinalPartAwaitsEncoders
    <2>1. wjob[w] = N /\ FinalPending
      BY DEF IInv, CrcInOrder, FinalPending
    <2>2. Pulled >= N
      BY <2>1, QueueFacts, PoolAssumption DEF IInv, HeldOnce
    <2>3. N > 1 /\ p \in 1..Pulled
      BY <2>2, QueueFacts, PoolAssumption DEF IInv, CrcInOrder, Parts
    <2>4. QED BY <2>1, <2>3 DEF IInv, CrcInOrder
  <1>2. QED BY <1>1, PoolInvariant, PTL

(* When UploadToUsenet returns every worker is gone and its connection is  *)
(* closed, and nothing is posted or collected afterwards: the caller may   *)
(* hand UploadSlot to the next upload.                                     *)
THEOREM SlotHandover == Spec => []NoConnectionAfterReturn /\ QuietAfterReturn
  <1>1. IInv => NoConnectionAfterReturn
    BY DEF IInv, EndsExplained, Closed, NoConnectionAfterReturn
  <1>2. ASSUME IInv, [Next]_vars, ret # "running"
        PROVE  UNCHANGED <<stored, conn, segments>>
    <2>1. \A w \in Workers : wpc[w] = "exited"
      BY <1>2 DEF IInv, EndsExplained
    <2>2. \A w \in Workers : ~Worker(w)
      BY <2>1 DEF Worker, Pull, Quit, Register, Combine, Abandon, Connect,
         ConnectFail, ConnectAuthFail, PostOk, PostFail, PostAuthFail, Retry,
         GiveUp, BackoffCancelled, Deliver
    <2>3. QED
      BY <1>2, <2>2
         DEF Next, Dispatch, DispatchRead, DispatchReadError, DispatchEnd,
             DispatchSend, vars, workerVars, callVars, CloseResults, Collect,
             Return, Cancel
  <1>3. QED BY <1>1, <1>2, PoolInvariant, PTL DEF Spec, QuietAfterReturn

(* The list handed to the caller, as FileUpload sees it.                   *)
Nzb == IF ret = "ok" THEN {segments[i].id : i \in DOMAIN segments} ELSE {}

(* A post stores a new article for its part, or changes nothing.           *)
LEMMA PostImplements ==
  ASSUME IInv, NEW w \in Workers, PostOk(w) \/ PostFail(w)
  PROVE  Abs!Store \/ UNCHANGED <<stored, ret, Nzb>>
  <1> DEFINE a == MessageID(wjob[w], attempt[w])
  <1>1. ret = "running"
    BY DEF IInv, EndsExplained, PostOk, PostFail
  <1>2. UNCHANGED <<ret, segments>>
    BY DEF PostOk, PostFail, callVars
  <1>3. stored' = stored \/ stored' = stored \cup {a}
    BY DEF PostOk, PostFail
  <1>4. wpc[w] = "post"
    BY DEF PostOk, PostFail
  <1>5. a \in MessageIDs
    BY <1>4, HolderPart, IdType
  <1>6. CASE a \in stored
    BY <1>2, <1>3, <1>6 DEF Nzb
  <1>7. CASE a \notin stored
    <2>1. \A b \in stored : b[2] = 0 /\ b = <<b[1], b[2]>>
      BY DEF IInv, TypeOK, Stored, MessageIDs
    <2>2. a = <<wjob[w], 0>> /\ a[1] = wjob[w]
      BY DEF MessageID
    <2>3. \A b \in stored : b[1] # a[1]
      BY <1>7, <2>1, <2>2
    <2>4. QED BY <1>1, <1>2, <1>3, <1>5, <2>3 DEF Abs!Store, ArticlePart, Nzb
  <1>8. QED BY <1>6, <1>7

(* A return maps to Succeed or to GiveUpFile.                              *)
LEMMA ReturnImplements ==
  ASSUME IInv, OkMeansComplete', Return
  PROVE  Abs!Succeed \/ Abs!GiveUpFile
  <1>1. ret = "running" /\ UNCHANGED <<stored, segments>>
        /\ ret' \in {"ok", "failed", "cancelled"}
    BY DEF Return
  <1>2. CASE ret' # "ok"
    BY <1>1, <1>2 DEF Abs!GiveUpFile
  <1>3. CASE ret' = "ok"
    <2> DEFINE L == {segments[i].id : i \in DOMAIN segments}
    <2>0. DOMAIN segments = 1..Len(segments)
      BY DEF IInv, TypeOK
    <2>1. L \in SUBSET stored
      BY <2>0 DEF IInv, Stored
    <2>2. \A i \in DOMAIN segments : segments[i].id[1] = segments[i].number
      <3>1. \A i \in DOMAIN segments : segments[i].id = <<segments[i].number, 0>>
        BY <2>0 DEF IInv, Stored, MessageID
      <3>2. QED BY <3>1
    <2>3. {ArticlePart(a) : a \in L} = {segments[i].number : i \in DOMAIN segments}
      BY <2>2 DEF ArticlePart
    <2>4. {segments[i].number : i \in DOMAIN segments} = 1..Readable
      BY <1>1, <1>3 DEF OkMeansComplete, Delivered
    <2>5. QED BY <1>1, <1>3, <2>1, <2>3, <2>4 DEF Abs!Succeed
  <1>4. QED BY <1>2, <1>3

(* The worker pool implements FileUpload: whatever the goroutines do, the  *)
(* caller sees one upload that ends once, with a complete list or with     *)
(* none.                                                                   *)
THEOREM PoolImplementsFileUpload == Spec => ImplementsFileUpload
  <1>1. Init => Abs!AbsInit
    BY DEF Init, Abs!AbsInit
  <1>2. ASSUME IInv, IInv', [Next]_vars PROVE [Abs!AbsNext]_(Abs!fvars)
    <2>1. ASSUME NEW w \in Workers, PostOk(w) \/ PostFail(w)
          PROVE  Abs!AbsNext \/ UNCHANGED <<stored, ret, Nzb>>
      BY <1>2, <2>1, PostImplements DEF Abs!AbsNext
    <2>2. CASE Return
      BY <1>2, <2>2, ReturnImplements DEF IInv, Abs!AbsNext
    <2>3. Collect => UNCHANGED <<stored, ret, Nzb>>
      BY DEF Collect, Nzb
    <2>4. UNCHANGED <<stored, ret, segments>> => UNCHANGED <<stored, ret, Nzb>>
      BY DEF Nzb
    <2>5. (\E w \in Workers : PostOk(w) \/ PostFail(w)) \/ Return \/ Collect
          \/ UNCHANGED <<stored, ret, segments>>
      BY <1>2 DEF Next, Dispatch, DispatchRead, DispatchReadError, DispatchEnd,
           DispatchSend, Worker, vars, callVars, CloseResults, Cancel,
           Pull, Quit, Register, Combine, Abandon, Connect, ConnectFail,
           ConnectAuthFail, PostAuthFail, Retry, GiveUp,
           BackoffCancelled, Deliver
    <2>6. QED BY <2>1, <2>2, <2>3, <2>4, <2>5 DEF Abs!fvars, Nzb
  <1>3. QED
    BY <1>1, <1>2, PoolInvariant, PTL DEF Spec, ImplementsFileUpload, Abs!AbsSpec

-----------------------------------------------------------------------------
(* Why the call returns: its work is finite, and somebody can always go on.*)

(* Steps from a part in the channel to its segment at the caller.          *)
Full == 3 * MaxRetries + 5
Tries(w) == MaxRetries - attempt[w] + 1

(* The part that w holds has its k-th step from the end to come.           *)
Ahead(w, k) ==
  \/ wpc[w] = "encode" /\ k <= Full - 1
  \/ wpc[w] = "await" /\ k <= Full - 2
  \/ wpc[w] = "connect" /\ k <= 3 * Tries(w) + 2
  \/ wpc[w] = "post" /\ k <= 3 * Tries(w) + 1
  \/ wpc[w] = "backoff" /\ k <= 3 * Tries(w)
  \/ wpc[w] = "deliver" /\ k <= 2

Due(p, k) ==
  \/ p > Pulled
  \/ \E w \in Workers : wjob[w] = p /\ Ahead(w, k)
  \/ k = 1 /\ \E i \in 1..Len(results) : results[i].number = p

PartWork == {t \in Parts \X (1..Full) : Due(t[1], t[2])}
DispatchWork ==
  {k \in 1..(2 * N + 1) :
     \/ dpc = "read" /\ k <= 2 * (N + 1 - next) + 1
     \/ dpc = "send" /\ k <= 2 * (N + 1 - next)}
Alive == {w \in Workers : wpc[w] # "exited"}
Ends == {x \in {"close", "return", "cancel"} :
           \/ x = "close" /\ ~resClosed
           \/ x = "return" /\ ret = "running"
           \/ x = "cancel" /\ ~cancelled}

Work == <<PartWork, DispatchWork, Alive, Ends>>
WorkLeft ==
  Cardinality(PartWork) + Cardinality(DispatchWork) + Cardinality(Alive) + Cardinality(Ends)

UsesWork ==
  /\ PartWork' \subseteq PartWork /\ DispatchWork' \subseteq DispatchWork
  /\ Alive' \subseteq Alive /\ Ends' \subseteq Ends
  /\ Work' # Work

(* A worker at its part: nobody else moves.                                *)
LEMMA PartGoesOn ==
  ASSUME IInv, NEW w \in Workers, UNCHANGED <<jobs, next, wjob, results>>,
         \A v \in Workers \ {w} : wpc'[v] = wpc[v] /\ attempt'[v] = attempt[v],
         \A k \in 1..Full : Ahead(w, k)' => Ahead(w, k)
  PROVE  /\ PartWork' \subseteq PartWork
         /\ (wpc[w] \notin {"pull", "exited"} /\ \E k \in 1..Full : Ahead(w, k) /\ ~Ahead(w, k)')
              => PartWork' # PartWork
  <1>1. Pulled' = Pulled
    BY DEF Pulled
  <1>2. \A v \in Workers, k \in 1..Full : Ahead(v, k)' => Ahead(v, k)
    <2> TAKE v \in Workers, k \in 1..Full
    <2>1. CASE v = w
      BY <2>1
    <2>2. CASE v # w
      BY <2>2 DEF Ahead, Tries
    <2> QED
      BY <2>1, <2>2
  <1>3. \A p \in Parts, k \in 1..Full : Due(p, k)' => Due(p, k)
    BY <1>1, <1>2 DEF Due
  <1>4. PartWork' \subseteq PartWork
    BY <1>3 DEF PartWork
  <1>5. ASSUME NEW k \in 1..Full, Ahead(w, k), ~Ahead(w, k)', wpc[w] \notin {"pull", "exited"}
        PROVE  PartWork' # PartWork
    <2> DEFINE p == wjob[w]
    <2>1. p \in Parts /\ p # NoPart
      BY <1>5, HolderPart, PoolAssumption DEF NoPart, Parts
    <2>2. ~(p > Pulled)
      BY <2>1, QueueFacts DEF IInv, HeldOnce, Parts
    <2>3. \A v \in Workers : wjob[v] = p => v = w
      BY <2>1 DEF IInv, HeldOnce
    <2>4. \A i \in 1..Len(results) : results[i].number # p
      BY DEF IInv, SentOnce
    <2> HIDE DEF p
    <2>5. Due(p, k) /\ ~Due(p, k)'
      <3>1. Due(p, k)
        BY <1>5 DEF Due, p
      <3>2. ~(p > Pulled)'
        BY <1>1, <2>2 DEF p
      <3>3. ~\E v \in Workers : wjob'[v] = wjob[w] /\ Ahead(v, k)'
        BY <1>5, <2>3 DEF p
      <3>4. ~\E i \in 1..Len(results') : results'[i].number = wjob'[w]
        BY <2>4 DEF p
      <3> QED
        BY <3>1, <3>2, <3>3, <3>4 DEF Due, p
    <2>6. <<p, k>> \in PartWork /\ <<p, k>> \notin PartWork'
      BY <2>1, <2>5 DEF PartWork, p
    <2> QED
      BY <2>6
  <1> QED
    BY <1>4, <1>5

(* Between a pull and a delivery each step, a retry and an exit too, leaves *)
(* fewer to come.                                                          *)
LEMMA StepsCountDown ==
  ASSUME IInv, NEW w \in Workers,
         \/ Register(w) \/ Combine(w) \/ Abandon(w) \/ Connect(w) \/ ConnectFail(w)
         \/ ConnectAuthFail(w) \/ PostOk(w) \/ PostFail(w) \/ PostAuthFail(w)
         \/ Retry(w) \/ GiveUp(w) \/ BackoffCancelled(w)
  PROVE  /\ UNCHANGED <<jobs, next, wjob, results, dpc, resClosed, ret, cancelled>>
         /\ wpc[w] \notin {"pull", "exited"}
         /\ \A v \in Workers \ {w} : wpc'[v] = wpc[v] /\ attempt'[v] = attempt[v]
         /\ \A k \in 1..Full : Ahead(w, k)' => Ahead(w, k)
         /\ \E k \in 1..Full : Ahead(w, k) /\ ~Ahead(w, k)'
  <1> USE DEF dispVars, callVars
  <1>1. /\ wpc \in [Workers -> WorkerPC] /\ attempt \in [Workers -> 1..MaxRetries]
        /\ MaxRetries \in Nat \ {0}
    BY PoolAssumption DEF IInv, TypeOK
  <1>2. attempt[w] \in Nat /\ 1 <= attempt[w] /\ attempt[w] <= MaxRetries
    BY <1>1
  <1>3. Tries(w) \in 1..MaxRetries /\ Full \in Nat /\ 3 * MaxRetries + 5 = Full
    BY <1>1, <1>2 DEF Tries, Full
  <1>4. CASE Register(w)
    <2>1. wpc[w] = "encode" /\ wpc'[w] \in {"await", "connect"} /\ attempt'[w] = 1
      BY <1>1, <1>4 DEF Register
    <2>2. Tries(w)' = MaxRetries
      BY <1>1, <2>1 DEF Tries
    <2>3. \A k \in 1..Full : Ahead(w, k)' => k <= Full - 2
      BY <1>1, <1>3, <2>1, <2>2 DEF Ahead
    <2>4. \A k \in 1..Full : Ahead(w, k) <=> k <= Full - 1
      BY <2>1 DEF Ahead
    <2>5. Full - 1 \in 1..Full /\ Ahead(w, Full - 1) /\ ~Ahead(w, Full - 1)'
      BY <1>1, <1>3, <2>3, <2>4
    <2>6. \A k \in 1..Full : Ahead(w, k)' => Ahead(w, k)
      BY <1>3, <2>3, <2>4
    <2>7. wpc[w] \notin {"pull", "exited"}
      BY <2>1
    <2> QED
      BY <1>1, <1>4, <2>5, <2>6, <2>7 DEF Register
  <1>5. CASE Combine(w)
    <2>1. wpc[w] = "await" /\ wpc'[w] = "connect" /\ attempt' = attempt
      BY <1>1, <1>5 DEF Combine
    <2>2. Tries(w)' = Tries(w)
      BY <2>1 DEF Tries
    <2>3. \A k \in 1..Full : Ahead(w, k)' <=> k <= 3 * Tries(w) + 2
      BY <2>1, <2>2 DEF Ahead
    <2>4. \A k \in 1..Full : Ahead(w, k) <=> k <= Full - 2
      BY <2>1 DEF Ahead
    <2>5. Full - 2 \in 1..Full /\ Ahead(w, Full - 2) /\ ~Ahead(w, Full - 2)'
      BY <1>1, <1>3, <2>3, <2>4
    <2>6. \A k \in 1..Full : Ahead(w, k)' => Ahead(w, k)
      BY <1>1, <1>3, <2>3, <2>4
    <2>7. wpc[w] \notin {"pull", "exited"}
      BY <2>1
    <2> QED
      BY <1>1, <1>5, <2>5, <2>6, <2>7 DEF Combine
  <1>6. CASE Abandon(w) \/ Connect(w) \/ ConnectFail(w) \/ ConnectAuthFail(w)
    <2>1. /\ wpc[w] = "connect" /\ wpc'[w] \in {"post", "backoff", "exited"}
          /\ attempt' = attempt
      BY <1>1, <1>6 DEF Abandon, Connect, ConnectFail, ConnectAuthFail, Exit
    <2>2. Tries(w)' = Tries(w)
      BY <2>1 DEF Tries
    <2>3. \A k \in 1..Full : Ahead(w, k)' => k <= 3 * Tries(w) + 1
      BY <1>1, <1>3, <2>1, <2>2 DEF Ahead
    <2>4. \A k \in 1..Full : Ahead(w, k) <=> k <= 3 * Tries(w) + 2
      BY <2>1 DEF Ahead
    <2>5. PICK d \in 1..Full : d = 3 * Tries(w) + 2
      BY <1>1, <1>3
    <2>6. Ahead(w, d) /\ ~Ahead(w, d)'
      BY <1>3, <2>3, <2>4, <2>5
    <2>7. \A k \in 1..Full : Ahead(w, k)' => Ahead(w, k)
      BY <1>3, <2>3, <2>4
    <2>8. wpc[w] \notin {"pull", "exited"}
      BY <2>1
    <2> QED
      BY <1>1, <1>6, <2>5, <2>6, <2>7, <2>8
         DEF Abandon, Connect, ConnectFail, ConnectAuthFail, Exit
  <1>7. CASE PostOk(w) \/ PostFail(w) \/ PostAuthFail(w)
    <2>1. /\ wpc[w] = "post" /\ wpc'[w] \in {"deliver", "backoff", "exited"}
          /\ attempt' = attempt
      BY <1>1, <1>7 DEF PostOk, PostFail, PostAuthFail, Exit
    <2>2. Tries(w)' = Tries(w)
      BY <2>1 DEF Tries
    <2>3. \A k \in 1..Full : Ahead(w, k)' => k <= 3 * Tries(w)
      BY <1>1, <1>3, <2>1, <2>2 DEF Ahead
    <2>4. \A k \in 1..Full : Ahead(w, k) <=> k <= 3 * Tries(w) + 1
      BY <2>1 DEF Ahead
    <2>5. PICK d \in 1..Full : d = 3 * Tries(w) + 1
      BY <1>1, <1>3
    <2>6. Ahead(w, d) /\ ~Ahead(w, d)'
      BY <1>3, <2>3, <2>4, <2>5
    <2>7. \A k \in 1..Full : Ahead(w, k)' => Ahead(w, k)
      BY <1>3, <2>3, <2>4
    <2>8. wpc[w] \notin {"pull", "exited"}
      BY <2>1
    <2> QED
      BY <1>1, <1>7, <2>5, <2>6, <2>7, <2>8 DEF PostOk, PostFail, PostAuthFail, Exit
  <1>8. CASE Retry(w) \/ GiveUp(w) \/ BackoffCancelled(w)
    <2>1. \/ wpc'[w] = "connect" /\ attempt'[w] = attempt[w] + 1
          \/ wpc'[w] = "exited"
      BY <1>1, <1>8 DEF Retry, GiveUp, BackoffCancelled, Exit
    <2>2. wpc[w] = "backoff"
      BY <1>8 DEF Retry, GiveUp, BackoffCancelled
    <2>3. \A k \in 1..Full : Ahead(w, k)' => k <= 3 * Tries(w) - 1
      BY <1>1, <1>2, <1>3, <2>1 DEF Ahead, Tries
    <2>4. \A k \in 1..Full : Ahead(w, k) <=> k <= 3 * Tries(w)
      BY <2>2 DEF Ahead
    <2>5. PICK d \in 1..Full : d = 3 * Tries(w)
      BY <1>1, <1>3
    <2>6. Ahead(w, d) /\ ~Ahead(w, d)'
      BY <1>3, <2>3, <2>4, <2>5
    <2>7. \A k \in 1..Full : Ahead(w, k)' => Ahead(w, k)
      BY <1>3, <2>3, <2>4
    <2>8. wpc[w] \notin {"pull", "exited"}
      BY <2>2
    <2> QED
      BY <1>1, <1>8, <2>5, <2>6, <2>7, <2>8 DEF Retry, GiveUp, BackoffCancelled, Exit
  <1> QED
    BY <1>4, <1>5, <1>6, <1>7, <1>8

LEMMA JobUsesWork ==
  ASSUME IInv, NEW w \in Workers, Worker(w), ~Pull(w), ~Deliver(w)
  PROVE  UsesWork
  <1>1. CASE Quit(w)
    <2>1. /\ UNCHANGED <<jobs, next, wjob, results, dpc, resClosed, ret, cancelled, attempt>>
          /\ wpc[w] = "pull" /\ wpc' = [wpc EXCEPT ![w] = "exited"]
      BY <1>1 DEF Quit, Exit, dispVars, callVars
    <2>2. wpc \in [Workers -> WorkerPC]
      BY DEF IInv, TypeOK
    <2>3. /\ wpc'[w] = "exited"
          /\ \A v \in Workers \ {w} : wpc'[v] = wpc[v] /\ attempt'[v] = attempt[v]
      BY <2>1, <2>2
    <2>4. \A k \in 1..Full : Ahead(w, k)' => Ahead(w, k)
      BY <2>3 DEF Ahead
    <2>5. PartWork' \subseteq PartWork
      BY <2>1, <2>3, <2>4, PartGoesOn
    <2>6. DispatchWork' = DispatchWork /\ Ends' = Ends
      BY <2>1 DEF DispatchWork, Ends
    <2>7. Alive' \subseteq Alive /\ w \in Alive /\ w \notin Alive'
      BY <2>1, <2>3 DEF Alive
    <2> QED
      BY <2>5, <2>6, <2>7 DEF UsesWork, Work
  <1>2. CASE ~Quit(w)
    <2>1. /\ UNCHANGED <<jobs, next, wjob, results, dpc, resClosed, ret, cancelled>>
          /\ wpc[w] \notin {"pull", "exited"}
          /\ \A v \in Workers \ {w} : wpc'[v] = wpc[v] /\ attempt'[v] = attempt[v]
          /\ \A k \in 1..Full : Ahead(w, k)' => Ahead(w, k)
          /\ \E k \in 1..Full : Ahead(w, k) /\ ~Ahead(w, k)'
      BY <1>2, StepsCountDown DEF Worker
    <2>2. PartWork' \subseteq PartWork /\ PartWork' # PartWork
      BY <2>1, PartGoesOn
    <2>3. DispatchWork' = DispatchWork /\ Ends' = Ends
      BY <2>1 DEF DispatchWork, Ends
    <2>4. Alive' \subseteq Alive
      BY <2>1 DEF Alive
    <2> QED
      BY <2>2, <2>3, <2>4 DEF UsesWork, Work
  <1> QED
    BY <1>1, <1>2

LEMMA PullUsesWork ==
  ASSUME IInv, NEW w \in Workers, Pull(w)
  PROVE  UsesWork
  <1>a. jobs # <<>> /\ jobs \in Seq(Parts)
    BY DEF Pull, IInv, TypeOK
  <1>b. PICK p \in Parts : p = Head(jobs)
    BY <1>a
  <1>1. /\ jobs # <<>> /\ jobs \in Seq(Parts)
        /\ wpc[w] = "pull" /\ wpc' = [wpc EXCEPT ![w] = "encode"]
        /\ wjob' = [wjob EXCEPT ![w] = p] /\ jobs' = Tail(jobs)
        /\ UNCHANGED <<next, attempt, results, dpc, resClosed, ret, cancelled>>
    BY <1>a, <1>b DEF Pull, dispVars, callVars
  <1>2. /\ wpc \in [Workers -> WorkerPC] /\ wjob \in [Workers -> 0..N]
        /\ MaxRetries \in Nat \ {0} /\ N \in Nat
    BY PoolAssumption DEF IInv, TypeOK
  <1>3. Len(jobs') = Len(jobs) - 1 /\ Len(jobs) > 0 /\ Len(jobs) \in Nat
    BY <1>1
  <1>4. p = Pulled + 1
    BY <1>b, <1>1, <1>3, QueueFacts DEF IInv, JobsInOrder
  <1>5. Pulled' = Pulled + 1 /\ Pulled \in Int
    BY <1>1, <1>3, QueueFacts DEF Pulled, IInv
  <1>6. p \in Parts /\ wjob[w] = NoPart
    BY <1>1 DEF IInv, HeldOnce
  <1>7. Full \in Nat /\ Full = 3 * MaxRetries + 5
    BY <1>2 DEF Full
  <1>8. \A k \in 1..Full : Ahead(w, k)' <=> k <= Full - 1
    <2>1. wpc'[w] = "encode"
      BY <1>1, <1>2
    <2> QED
      BY <2>1 DEF Ahead
  <1>9. \A v \in Workers \ {w}, k \in 1..Full :
          wjob'[v] = wjob[v] /\ (Ahead(v, k)' <=> Ahead(v, k))
    <2> TAKE v \in Workers \ {w}, k \in 1..Full
    <2>1. wpc'[v] = wpc[v] /\ attempt'[v] = attempt[v] /\ wjob'[v] = wjob[v]
      BY <1>1, <1>2
    <2> QED
      BY <2>1 DEF Ahead, Tries
  <1>10. ASSUME NEW q \in Parts, NEW k \in 1..Full, Due(q, k)' PROVE Due(q, k)
    <2>1. CASE q = p
      BY <1>4, <1>5, <2>1 DEF Due
    <2>2. CASE q # p
      <3>1. wjob'[w] # q
        BY <1>1, <1>2, <2>2
      <3>2. CASE (q > Pulled)'
        BY <1>5, <3>2, QueueFacts DEF Due, IInv, Parts
      <3>3. CASE \E v \in Workers : wjob'[v] = q /\ Ahead(v, k)'
        BY <1>9, <3>1, <3>3 DEF Due
      <3>4. CASE k = 1 /\ \E i \in 1..Len(results) : results[i].number = q
        BY <3>4 DEF Due
      <3> QED
        BY <1>1, <1>10, <3>2, <3>3, <3>4 DEF Due
    <2> QED
      BY <2>1, <2>2
  <1>11. PartWork' \subseteq PartWork
    BY <1>10 DEF PartWork
  <1>12. PICK k \in 1..Full : k = Full
    BY <1>2, <1>7
  <1>13. Due(p, k)
    BY <1>4, <1>5 DEF Due
  <1>14. ~Due(p, k)'
    <2>1. ~(p > Pulled')
      BY <1>4, <1>5
    <2>2. ~Ahead(w, k)'
      BY <1>7, <1>8, <1>12
    <2>3. \A v \in Workers \ {w} : wjob[v] # p
      <3>1. \A v \in Workers : wjob[v] <= Pulled /\ wjob[v] \in Int
        BY <1>2 DEF IInv, HeldOnce
      <3> QED
        BY <1>4, <1>5, <3>1
    <2>4. \A v \in Workers : ~(wjob'[v] = p /\ Ahead(v, k)')
      BY <1>9, <2>2, <2>3
    <2>5. k # 1
      BY <1>2, <1>7, <1>12
    <2> QED
      BY <2>1, <2>4, <2>5 DEF Due
  <1>15. PartWork' # PartWork
    <2>1. <<p, k>> \in PartWork /\ <<p, k>> \notin PartWork'
      BY <1>13, <1>14 DEF PartWork
    <2> QED
      BY <2>1
  <1>16. DispatchWork' = DispatchWork /\ Ends' = Ends
    BY <1>1 DEF DispatchWork, Ends
  <1>17. Alive' \subseteq Alive
    BY <1>1, <1>2 DEF Alive
  <1> QED
    BY <1>11, <1>15, <1>16, <1>17 DEF UsesWork, Work

LEMMA DeliverUsesWork ==
  ASSUME IInv, NEW w \in Workers, Deliver(w)
  PROVE  UsesWork
  <1>1. /\ wpc[w] = "deliver" /\ wpc' = [wpc EXCEPT ![w] = "pull"]
        /\ wjob' = [wjob EXCEPT ![w] = NoPart]
        /\ results' = Append(results, [number |-> wjob[w], id |-> MessageID(wjob[w], attempt[w])])
        /\ UNCHANGED <<jobs, next, attempt, dpc, resClosed, ret, cancelled>>
    BY DEF Deliver, dispVars, callVars
  <1>2. /\ wpc \in [Workers -> WorkerPC] /\ wjob \in [Workers -> 0..N]
        /\ MaxRetries \in Nat \ {0} /\ N \in Nat /\ results \in Seq(Segments)
    BY PoolAssumption DEF IInv, TypeOK
  <1>3. PICK p \in Parts : p = wjob[w]
    BY <1>1, HolderPart
  <1>4. Pulled' = Pulled
    BY <1>1 DEF Pulled
  <1>5. Full \in Nat /\ Full = 3 * MaxRetries + 5
    BY <1>2 DEF Full
  <1>6. \A i \in 1..Len(results') : results'[i].number = p \/
          (i \in 1..Len(results) /\ results'[i].number = results[i].number)
    <2>1. [number |-> wjob[w], id |-> MessageID(wjob[w], attempt[w])].number = p
      BY <1>3
    <2> QED
      BY <1>1, <1>2, <2>1
  <1>7. \A v \in Workers \ {w}, k \in 1..Full :
          wjob'[v] = wjob[v] /\ (Ahead(v, k)' <=> Ahead(v, k))
    <2> TAKE v \in Workers \ {w}, k \in 1..Full
    <2>1. wpc'[v] = wpc[v] /\ attempt'[v] = attempt[v] /\ wjob'[v] = wjob[v]
      BY <1>1, <1>2
    <2> QED
      BY <2>1 DEF Ahead, Tries
  <1>8. \A k \in 1..Full : ~Ahead(w, k)'
    <2>1. wpc'[w] = "pull"
      BY <1>1, <1>2
    <2> QED
      BY <2>1 DEF Ahead
  <1>9. \A k \in 1..Full : Ahead(w, k) <=> k <= 2
    BY <1>1 DEF Ahead
  <1>10. ASSUME NEW q \in Parts, NEW k \in 1..Full, Due(q, k)' PROVE Due(q, k)
    <2>1. CASE (q > Pulled)'
      BY <1>4, <2>1 DEF Due
    <2>2. CASE \E v \in Workers : wjob'[v] = q /\ Ahead(v, k)'
      BY <1>7, <1>8, <2>2 DEF Due
    <2>3. CASE k = 1 /\ \E i \in 1..Len(results') : results'[i].number = q
      <3>1. CASE q = p
        BY <1>3, <1>9, <2>3, <3>1 DEF Due
      <3>2. CASE q # p
        BY <1>6, <2>3, <3>2 DEF Due
      <3> QED
        BY <3>1, <3>2
    <2> QED
      BY <1>10, <2>1, <2>2, <2>3 DEF Due
  <1>11. PartWork' \subseteq PartWork
    BY <1>10 DEF PartWork
  <1>12. PICK k \in 1..Full : k = 2
    BY <1>2, <1>5
  <1>13. Due(p, k)
    BY <1>3, <1>9, <1>12 DEF Due
  <1>14. ~Due(p, k)'
    <2>1. ~(p > Pulled')
      BY <1>2, <1>3, <1>4, QueueFacts DEF IInv, HeldOnce
    <2>2. \A v \in Workers \ {w} : wjob[v] # p
      BY <1>3, PoolAssumption DEF IInv, HeldOnce, NoPart, Parts
    <2>3. \A v \in Workers : ~(wjob'[v] = p /\ Ahead(v, k)')
      BY <1>7, <1>8, <2>2
    <2>4. k # 1
      BY <1>12
    <2> QED
      BY <2>1, <2>3, <2>4 DEF Due
  <1>15. PartWork' # PartWork
    <2>1. <<p, k>> \in PartWork /\ <<p, k>> \notin PartWork'
      BY <1>13, <1>14 DEF PartWork
    <2> QED
      BY <2>1
  <1>16. DispatchWork' = DispatchWork /\ Ends' = Ends
    BY <1>1 DEF DispatchWork, Ends
  <1>17. Alive' \subseteq Alive
    BY <1>1, <1>2 DEF Alive
  <1> QED
    BY <1>11, <1>15, <1>16, <1>17 DEF UsesWork, Work

LEMMA CollectUsesWork ==
  ASSUME IInv, Collect
  PROVE  UsesWork
  <1>1. /\ results # <<>> /\ results' = Tail(results)
        /\ UNCHANGED <<jobs, next, wpc, wjob, attempt, dpc, resClosed, ret, cancelled>>
    BY DEF Collect, dispVars, workerVars
  <1>2. /\ results \in Seq(Segments) /\ MaxRetries \in Nat \ {0}
        /\ wjob \in [Workers -> 0..N]
    BY PoolAssumption DEF IInv, TypeOK
  <1>3. 1 \in 1..Len(results)
    BY <1>1, <1>2
  <1>4. PICK p \in Parts : p = results[1].number
    BY <1>3, QueueFacts DEF IInv
  <1>5. \A i \in 1..Len(results') : i + 1 \in 1..Len(results) /\ results'[i] = results[i + 1]
    BY <1>1, <1>2
  <1>6. Pulled' = Pulled /\ Full \in Nat /\ Full = 3 * MaxRetries + 5
    BY <1>1, <1>2 DEF Pulled, Full
  <1>7. \A v \in Workers, k \in 1..Full : wjob'[v] = wjob[v] /\ (Ahead(v, k)' <=> Ahead(v, k))
    BY <1>1 DEF Ahead, Tries
  <1>8. ASSUME NEW q \in Parts, NEW k \in 1..Full, Due(q, k)' PROVE Due(q, k)
    <2>1. CASE (q > Pulled)'
      BY <1>6, <2>1 DEF Due
    <2>2. CASE \E v \in Workers : wjob'[v] = q /\ Ahead(v, k)'
      BY <1>7, <2>2 DEF Due
    <2>3. CASE k = 1 /\ \E i \in 1..Len(results') : results'[i].number = q
      BY <1>5, <2>3 DEF Due
    <2> QED
      BY <1>8, <2>1, <2>2, <2>3 DEF Due
  <1>9. PartWork' \subseteq PartWork
    BY <1>8 DEF PartWork
  <1>10. PICK k \in 1..Full : k = 1
    BY <1>2, <1>6
  <1>11. Due(p, k)
    BY <1>3, <1>4, <1>10 DEF Due
  <1>12. ~Due(p, k)'
    <2>0. p <= Pulled
      BY <1>3, <1>4 DEF IInv, SentOnce
    <2>1. ~(p > Pulled')
      BY <1>6, <2>0, QueueFacts DEF IInv, Parts
    <2>2. \A v \in Workers : wjob'[v] # p
      BY <1>1, <1>3, <1>4 DEF IInv, SentOnce
    <2>3. ASSUME NEW i \in 1..Len(results') PROVE results'[i].number # p
      <3>1. i + 1 \in 1..Len(results) /\ results'[i] = results[i + 1] /\ i + 1 # 1
        BY <1>5
      <3>2. results[i + 1].number # results[1].number
        BY <1>3, <3>1 DEF IInv, SentOnce
      <3> QED
        BY <1>4, <3>1, <3>2
    <2> QED
      BY <2>1, <2>2, <2>3 DEF Due
  <1>13. PartWork' # PartWork
    <2>1. <<p, k>> \in PartWork /\ <<p, k>> \notin PartWork'
      BY <1>11, <1>12 DEF PartWork
    <2> QED
      BY <2>1
  <1>14. DispatchWork' = DispatchWork /\ Ends' = Ends /\ Alive' = Alive
    BY <1>1 DEF DispatchWork, Ends, Alive
  <1> QED
    BY <1>9, <1>13, <1>14 DEF UsesWork, Work

LEMMA DispatchUsesWork ==
  ASSUME IInv, Dispatch
  PROVE  UsesWork
  <1>1. /\ wpc' = wpc /\ wjob' = wjob /\ attempt' = attempt /\ results' = results
        /\ resClosed' = resClosed /\ ret' = ret /\ cancelled' = cancelled
    BY DEF Dispatch, DispatchRead, DispatchReadError, DispatchEnd, DispatchSend,
       workerVars, callVars
  <1>2. Pulled' = Pulled
    <2>1. CASE DispatchSend
      <3>1. next' = next + 1 /\ jobs' = Append(jobs, next) /\ jobs \in Seq(Parts) /\ next \in Parts
        BY <2>1, PoolAssumption DEF DispatchSend, IInv, TypeOK, JobsInOrder, Parts
      <3>2. Len(jobs') = Len(jobs) + 1 /\ Len(jobs) \in Nat
        BY <3>1
      <3> QED
        BY <3>1, <3>2 DEF Pulled, Parts
    <2>2. CASE UNCHANGED <<next, jobs>>
      BY <2>2 DEF Pulled
    <2> QED
      BY <2>1, <2>2 DEF Dispatch, DispatchRead, DispatchReadError, DispatchEnd
  <1>3. \A v \in Workers, k \in 1..Full : wjob'[v] = wjob[v] /\ (Ahead(v, k)' <=> Ahead(v, k))
    BY <1>1 DEF Ahead, Tries
  <1>4. PartWork' = PartWork
    <2>1. \A q \in Parts, k \in 1..Full : Due(q, k)' <=> Due(q, k)
      BY <1>1, <1>2, <1>3 DEF Due
    <2> QED
      BY <2>1 DEF PartWork
  <1>5. Alive' = Alive /\ Ends' = Ends
    BY <1>1 DEF Alive, Ends
  <1>6. next \in 1..(N + 1) /\ N \in Nat
    BY PoolAssumption DEF IInv, TypeOK
  <1> DEFINE rest == 2 * (N + 1 - next)
  <1>7. rest \in 0..(2 * N)
    BY <1>6
  <1>8. CASE DispatchRead
    <2>1. dpc = "read" /\ dpc' = "send" /\ next' = next
      BY <1>8 DEF DispatchRead
    <2>2. PICK k \in 1..(2 * N + 1) : k = rest + 1
      BY <1>6, <1>7
    <2>3. k \in DispatchWork /\ k \notin DispatchWork'
      BY <1>7, <2>1, <2>2 DEF DispatchWork
    <2>4. DispatchWork' \subseteq DispatchWork
      BY <1>7, <2>1 DEF DispatchWork
    <2> QED
      BY <1>4, <1>5, <2>3, <2>4 DEF UsesWork, Work
  <1>9. CASE DispatchReadError \/ DispatchEnd
    <2>1. dpc = "read" /\ dpc' = "done"
      BY <1>9 DEF DispatchReadError, DispatchEnd
    <2>2. PICK k \in 1..(2 * N + 1) : k = rest + 1
      BY <1>6, <1>7
    <2>3. k \in DispatchWork /\ DispatchWork' = {}
      BY <1>7, <2>1, <2>2 DEF DispatchWork
    <2> QED
      BY <1>4, <1>5, <2>3 DEF UsesWork, Work
  <1>10. CASE DispatchSend
    <2>1. dpc = "send" /\ dpc' = "read" /\ next' = next + 1
      BY <1>10 DEF DispatchSend
    <2>2. next <= N
      BY <1>6, <2>1, PoolAssumption DEF IInv, JobsInOrder
    <2>3. PICK k \in 1..(2 * N + 1) : k = rest
      BY <1>6, <2>2
    <2>4. k \in DispatchWork /\ k \notin DispatchWork'
      BY <1>6, <2>1, <2>3 DEF DispatchWork
    <2>5. DispatchWork' \subseteq DispatchWork
      BY <1>6, <2>1 DEF DispatchWork
    <2> QED
      BY <1>4, <1>5, <2>4, <2>5 DEF UsesWork, Work
  <1> QED
    BY <1>8, <1>9, <1>10 DEF Dispatch

(* The closer, the return and a cancellation happen once.                  *)
LEMMA EndsUseWork ==
  ASSUME CloseResults \/ Return \/ Cancel
  PROVE  UsesWork
  <1>1. UNCHANGED <<jobs, next, wpc, wjob, attempt, results, dpc>>
    BY DEF CloseResults, Return, Cancel, dispVars, workerVars
  <1>2. Pulled' = Pulled /\ \A v \in Workers, k \in 1..Full : Ahead(v, k)' <=> Ahead(v, k)
    BY <1>1 DEF Pulled, Ahead, Tries
  <1>3. PartWork' = PartWork
    <2>1. \A q \in Parts, k \in 1..Full : Due(q, k)' <=> Due(q, k)
      BY <1>1, <1>2 DEF Due
    <2> QED
      BY <2>1 DEF PartWork
  <1>4. DispatchWork' = DispatchWork /\ Alive' = Alive
    BY <1>1 DEF DispatchWork, Alive
  <1>5. Ends' \subseteq Ends /\ Ends' # Ends
    <2>1. CASE CloseResults
      BY <2>1 DEF CloseResults, Ends
    <2>2. CASE Return
      <3>1. ret = "running" /\ ret' # "running" /\ resClosed' = resClosed /\ cancelled' = cancelled
        BY <2>2 DEF Return
      <3> QED
        BY <3>1 DEF Ends
    <2>3. CASE Cancel
      BY <2>3 DEF Cancel, Ends, callVars
    <2> QED
      BY <2>1, <2>2, <2>3
  <1> QED
    BY <1>3, <1>4, <1>5 DEF UsesWork, Work

(* Every step of the call, whosever, uses up work.                         *)
LEMMA StepUsesWork == ASSUME IInv, Next PROVE UsesWork
  BY DispatchUsesWork, PullUsesWork, DeliverUsesWork, JobUsesWork, CollectUsesWork,
     EndsUseWork DEF Next

LEMMA WorkIsFinite ==
  ASSUME IsFiniteSet(Workers)
  PROVE  /\ IsFiniteSet(PartWork) /\ IsFiniteSet(DispatchWork)
         /\ IsFiniteSet(Alive) /\ IsFiniteSet(Ends)
  <1>1. IsFiniteSet(1..N) /\ IsFiniteSet(1..Full) /\ IsFiniteSet(1..(2 * N + 1))
    BY PoolAssumption, FS_Interval DEF Full
  <1>2. IsFiniteSet(Parts \X (1..Full))
    BY <1>1, FS_Product DEF Parts
  <1>3. IsFiniteSet({"close", "return", "cancel"})
    <2>1. IsFiniteSet({"close"}) /\ IsFiniteSet({"return"}) /\ IsFiniteSet({"cancel"})
      BY FS_Singleton
    <2>2. IsFiniteSet({"close"} \cup {"return"})
      BY <2>1, FS_Union
    <2>3. IsFiniteSet(({"close"} \cup {"return"}) \cup {"cancel"})
      BY <2>1, <2>2, FS_Union
    <2>4. {"close", "return", "cancel"} = ({"close"} \cup {"return"}) \cup {"cancel"}
      OBVIOUS
    <2> QED
      BY <2>3, <2>4
  <1> QED
    BY <1>1, <1>2, <1>3, FS_Subset DEF PartWork, DispatchWork, Alive, Ends

(* A call takes so many steps and no more: a number that each step, of any *)
(* goroutine, the server or the context, makes smaller.                    *)
THEOREM WorkRunsOut ==
  ASSUME IsFiniteSet(Workers)
  PROVE  Spec => [](WorkLeft \in Nat) /\ [][WorkLeft' < WorkLeft]_vars
  <1>1. WorkLeft \in Nat
    BY WorkIsFinite, FS_CardinalityType DEF WorkLeft
  <1>2. ASSUME UsesWork PROVE WorkLeft' < WorkLeft
    <2>1. /\ IsFiniteSet(PartWork) /\ IsFiniteSet(DispatchWork)
          /\ IsFiniteSet(Alive) /\ IsFiniteSet(Ends)
      BY WorkIsFinite
    <2>2. PICK a \in Nat, a1 \in Nat :
            /\ a = Cardinality(PartWork) /\ a1 = Cardinality(PartWork')
            /\ a1 <= a /\ (a1 = a => PartWork' = PartWork)
      BY <1>2, <2>1, FS_Subset, FS_CardinalityType DEF UsesWork
    <2>3. PICK b \in Nat, b1 \in Nat :
            /\ b = Cardinality(DispatchWork) /\ b1 = Cardinality(DispatchWork')
            /\ b1 <= b /\ (b1 = b => DispatchWork' = DispatchWork)
      BY <1>2, <2>1, FS_Subset, FS_CardinalityType DEF UsesWork
    <2>4. PICK c \in Nat, c1 \in Nat :
            /\ c = Cardinality(Alive) /\ c1 = Cardinality(Alive')
            /\ c1 <= c /\ (c1 = c => Alive' = Alive)
      BY <1>2, <2>1, FS_Subset, FS_CardinalityType DEF UsesWork
    <2>5. PICK d \in Nat, d1 \in Nat :
            /\ d = Cardinality(Ends) /\ d1 = Cardinality(Ends')
            /\ d1 <= d /\ (d1 = d => Ends' = Ends)
      BY <1>2, <2>1, FS_Subset, FS_CardinalityType DEF UsesWork
    <2>6. a1 # a \/ b1 # b \/ c1 # c \/ d1 # d
      BY <1>2, <2>2, <2>3, <2>4, <2>5 DEF UsesWork, Work
    <2>7. a1 <= a /\ b1 <= b /\ c1 <= c /\ d1 <= d
      BY <2>2, <2>3, <2>4, <2>5
    <2>8. a1 + b1 + c1 + d1 < a + b + c + d
      BY <2>6, <2>7
    <2> QED
      BY <2>2, <2>3, <2>4, <2>5, <2>8 DEF WorkLeft
  <1>3. IInv /\ [Next]_vars => [WorkLeft' < WorkLeft]_vars
    BY <1>2, StepUsesWork
  <1> QED
    BY <1>1, <1>3, PoolInvariant, PTL DEF Spec

-----------------------------------------------------------------------------
(* What each of them may wait for; everything else it does without waiting *)
(* for another goroutine.                                                  *)
WorkerWaits(w) ==
  \/ wpc[w] = "exited"
  \/ wpc[w] = "pull" /\ jobs = <<>> /\ dpc # "done" /\ ~cancelled
  \/ wpc[w] = "await" /\ registered # Parts
  \/ wpc[w] = "deliver" /\ Len(results) >= QueueCap
DispatcherWaits == dpc = "done" \/ (dpc = "send" /\ Len(jobs) >= QueueCap)
CloserWaits == resClosed \/ ~AllExited
CallerWaits == ret # "running" \/ (results = <<>> /\ ~resClosed)

(* Not all of them at once, before the call has returned.                  *)
SomebodyMoves ==
  ret = "running" =>
    ~(DispatcherWaits /\ CloserWaits /\ CallerWaits /\ \A w \in Workers : WorkerWaits(w))

(* However many workers, chunks and channel slots there are, whichever     *)
(* workers have died and whatever was lost: the bounded channels, the wait *)
(* for the CRCs of the other parts and the wait for the workers never form *)
(* a ring.                                                                 *)
THEOREM NeverStuck == Spec => []SomebodyMoves
  <1>1. ASSUME IInv, FinalPartAwaitsEncoders PROVE SomebodyMoves
    <2> SUFFICES ASSUME ret = "running", DispatcherWaits, CloserWaits, CallerWaits,
                        \A w \in Workers : WorkerWaits(w)
                 PROVE  FALSE
      BY DEF SomebodyMoves
    <2>1. results = <<>> /\ ~resClosed
      BY DEF CallerWaits
    <2>2. PICK w \in Workers : wpc[w] # "exited"
      BY <2>1 DEF CloserWaits
    <2>3. QueueCap > 0 /\ Len(results) = 0
      BY <2>1, PoolAssumption
    <2>4. CASE wpc[w] = "await" /\ registered # Parts
      <3>0. registered \subseteq Parts
        BY <1>1 DEF IInv, TypeOK
      <3>1. PICK p \in Parts : p \notin registered
        BY <2>4, <3>0
      <3>2. PICK v \in Workers : wpc[v] = "encode"
        BY <2>4, <3>1, <1>1 DEF FinalPartAwaitsEncoders
      <3> QED
        BY <3>2 DEF WorkerWaits
    <2>5. CASE wpc[w] = "pull" /\ jobs = <<>> /\ dpc # "done"
      <3>1. Len(jobs) = 0
        BY <2>5
      <3> QED
        BY <2>3, <2>5, <3>1, PoolAssumption DEF DispatcherWaits
    <2>6. ~(wpc[w] = "deliver" /\ Len(results) >= QueueCap)
      BY <2>3, PoolAssumption
    <2> QED
      BY <2>2, <2>4, <2>5, <2>6 DEF WorkerWaits
  <1> QED
    BY <1>1, PoolInvariant, NoRingOfWaiters, PTL
=============================================================================
