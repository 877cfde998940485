--------------------------- MODULE TempSweepProofs ---------------------------
(***************************************************************************)
(* The sweeps spare what is in use and leave nothing behind, for any       *)
(* number of requests, offers, hourly sweepers, process deaths, and runs   *)
(* of a request between two of them.                                       *)
(***************************************************************************)
EXTENDS TempSweep, TLAPS

(* The program counters at which a request has its table entry.            *)
Running == {"claimed", "download", "prepare", "staging", "publish", "unstaged", "cleanup"}

(* A running request is listed: only its own RemoveJob drops its entry.    *)
Listed == \A r \in Requests : pc[r] \in Running => r \in table.entries

(* A sweeper between two sweeps has nothing in hand, and picks an entry    *)
(* only after it has read the table.                                       *)
SweepShape ==
  \A s \in Sweepers :
    /\ sweep[s].phase = "off" => sweep[s].left = {}
    /\ sweep[s].phase # "delete" => sweep[s].target = {}

(* A download directory that a sweep goes on to delete belongs to a        *)
(* request that is over, or was dispatched again meanwhile.                *)
Doomed ==
  \A s \in Sweepers, r \in Requests :
    sweep[s].phase = "delete" /\ <<"dl", r>> \in sweep[s].left \cup sweep[s].target =>
      pc[r] \notin Running \/ r \in overtaken

(* A request sweeps when it is over and has left the table, and its sweep  *)
(* still has in hand what it has left behind.                              *)
OwnSweep ==
  \A r \in Requests :
    /\ sweep[r].phase # "off" => pc[r] = "sweep"
    /\ pc[r] = "sweep" => r \notin table.entries
    /\ sweep[r].phase # "off" /\ content[r] # "none" =>
         <<"dl", r>> \in sweep[r].left \cup sweep[r].target
    /\ sweep[r].phase # "off" /\ r \in stages =>
         <<"stage", r>> \in sweep[r].left \cup sweep[r].target

SweepInv ==
  /\ Listed /\ SweepShape /\ Doomed /\ OwnSweep
  /\ DownloadKept /\ NothingLeftBehind /\ EndedUnprotected

(* Names of single values, transparent in every proof below.               *)
USE DEF Ready, Goto, Store, Jobs, Sweepers

-----------------------------------------------------------------------------
(* Type correctness.                                                       *)

(* What storage's writers make of the table is a table again, and touches  *)
(* no entry but the job's own.                                             *)
LEMMA TableOps ==
  ASSUME table \in Tables, NEW j \in Jobs
  PROVE  /\ WithEntry(j) \in Tables /\ WithEntry(j).entries = table.entries \cup {j}
         /\ WithDownload(j) \in Tables /\ WithDownload(j).entries = table.entries \cup {j}
         /\ WithStage(j) \in Tables /\ WithStage(j).entries = table.entries
         /\ WithoutStage(j) \in Tables /\ WithoutStage(j).entries = table.entries
         /\ Without(j) \in Tables /\ Without(j).entries = table.entries \ {j}
<1>1. PICK e \in SUBSET Jobs, d \in SUBSET Jobs, s \in SUBSET Jobs :
        table = [entries |-> e, stamped |-> d, staged |-> s] /\ d \cup s \subseteq e
  BY DEF Tables
<1>2. WithEntry(j) = [entries |-> e \cup {j}, stamped |-> d, staged |-> s]
  BY <1>1 DEF WithEntry
<1>3. WithDownload(j) = [entries |-> e \cup {j}, stamped |-> d \cup {j}, staged |-> s]
  BY <1>2 DEF WithDownload
<1>4. WithStage(j) = [entries |-> e, stamped |-> d, staged |-> IF j \in e THEN s \cup {j} ELSE s]
  BY <1>1 DEF WithStage
<1>5. WithoutStage(j) = [entries |-> e, stamped |-> d, staged |-> s \ {j}]
  BY <1>1 DEF WithoutStage
<1>6. Without(j) = [entries |-> e \ {j}, stamped |-> d \ {j}, staged |-> s \ {j}]
  BY <1>1 DEF Without
<1> QED BY <1>1, <1>2, <1>3, <1>4, <1>5, <1>6 DEF Tables

LEMMA TypesInit == Init => TypeOK
BY SweepAssumption DEF Init, TypeOK, Tables, EmptyTable, Dirs, PCs, NotSweeping, SweepStates

LEMMA TypesStep == TypeOK /\ [Next]_vars => TypeOK'
<1> SUFFICES ASSUME TypeOK, [Next]_vars PROVE TypeOK'
  OBVIOUS
<1> USE SweepAssumption
<1>1. ASSUME NEW j \in Jobs, Job(j) PROVE TypeOK'
  <2>0. /\ WithEntry(j) \in Tables /\ WithDownload(j) \in Tables /\ WithStage(j) \in Tables
       /\ WithoutStage(j) \in Tables /\ Without(j) \in Tables
    BY TableOps DEF TypeOK
  <2>1. CASE Marshal(j)
    BY <2>1 DEF Marshal, TypeOK
  <2>2. CASE WriteFile(j)
    BY <2>2 DEF WriteFile, TypeOK, Tables, EmptyTable
  <2>3. CASE Dispatch(j)
    BY <2>3, <2>0 DEF Dispatch, Overtakes, TypeOK, PCs
  <2>4. CASE SkipOversize(j)
    BY <2>4 DEF SkipOversize, Overtakes, TypeOK, PCs
  <2>5. CASE Resume(j)
    BY <2>5 DEF Resume, TypeOK, PCs
  <2>6. CASE StartDownload(j)
    BY <2>6 DEF StartDownload, TypeOK, PCs, Dirs
  <2>7. CASE AcceptOffer(j)
    BY <2>7 DEF AcceptOffer, TypeOK, PCs, Dirs
  <2>8. CASE Progress(j)
    BY <2>8, <2>0 DEF Progress, TypeOK
  <2>9. CASE DownloadDone(j)
    BY <2>9, <2>0 DEF DownloadDone, TypeOK, PCs
  <2>10. CASE DownloadFail(j)
    BY <2>10 DEF DownloadFail, TypeOK, PCs
  <2>11. CASE MakeStage(j)
    BY <2>11 DEF MakeStage, TypeOK, PCs, Dirs
  <2>12. CASE PublishStage(j)
    BY <2>12, <2>0 DEF PublishStage, TypeOK, PCs
  <2>13. CASE RemoveStage(j)
    BY <2>13 DEF RemoveStage, TypeOK, PCs
  <2>14. CASE ClearStage(j)
    BY <2>14, <2>0 DEF ClearStage, TypeOK, PCs
  <2>15. CASE PrepareFail(j)
    BY <2>15 DEF PrepareFail, TypeOK, PCs
  <2>16. CASE RemoveSome(j)
    BY <2>16 DEF RemoveSome, TypeOK
  <2>17. CASE RemoveRest(j)
    BY <2>17 DEF RemoveRest, TypeOK, PCs
  <2>18. CASE RemoveJob(j)
    BY <2>18, <2>0 DEF RemoveJob, TypeOK, PCs
  <2> QED
    BY <1>1, <2>1, <2>2, <2>3, <2>4, <2>5, <2>6, <2>7, <2>8, <2>9, <2>10, <2>11, <2>12, <2>13, <2>14, <2>15, <2>16, <2>17, <2>18 DEF Job
<1>2. ASSUME NEW s \in Sweepers, Sweep(s) PROVE TypeOK'
  <2>1. CASE SweepRead(s)
    BY <2>1 DEF SweepRead, TypeOK, SweepStates, Existing
  <2>2. CASE SweepKeep(s)
    BY <2>2 DEF SweepKeep, TypeOK, SweepStates
  <2>3. CASE SweepPick(s)
    BY <2>3 DEF SweepPick, TypeOK, SweepStates
  <2>4. CASE SweepRemove(s)
    BY <2>4 DEF SweepRemove, TypeOK, SweepStates
  <2>5. CASE SweepEnd(s)
    BY <2>5 DEF SweepEnd, TypeOK, SweepStates, NotSweeping, PCs
  <2> QED
    BY <1>2, <2>1, <2>2, <2>3, <2>4, <2>5 DEF Sweep
<1>3. CASE Age
  BY <1>3 DEF Age, TypeOK
<1>4. CASE Restart
  BY <1>4 DEF Restart, Torn, TypeOK, Tables, EmptyTable, NotSweeping, SweepStates, PCs
<1>5. CASE UNCHANGED vars
  BY <1>5 DEF TypeOK, vars
<1> QED
  BY <1>1, <1>2, <1>3, <1>4, <1>5 DEF Next

(* The table, state.json, the directories and the sweeps keep their types  *)
(* whatever the bounds are.                                                *)
THEOREM SweepTypes == Spec => []TypeOK
  BY TypesInit, TypesStep, PTL DEF Spec

-----------------------------------------------------------------------------
(* The inductive invariant.                                                *)

(* Saves, time and stuttering touch nothing it speaks of.                  *)
LEMMA InvFrame ==
  SweepInv /\ UNCHANGED <<pc, runs, table, content, stages, sweep, overtaken>> => SweepInv'
BY DEF SweepInv, Listed, SweepShape, Doomed, OwnSweep,
       DownloadKept, NothingLeftBehind, EndedUnprotected, Running, UsesDownload

LEMMA InvInit == Init => SweepInv
<1> SUFFICES ASSUME Init PROVE SweepInv
  OBVIOUS
<1>1. \A j \in Jobs : pc[j] = "idle" /\ runs[j] = 0 /\ content[j] = "none" /\ j \notin stages
  BY DEF Init
<1>2. \A s \in Sweepers :
        sweep[s].phase = "off" /\ sweep[s].left = {} /\ sweep[s].target = {}
  BY DEF Init, NotSweeping
<1> QED
  BY <1>1, <1>2
  DEF SweepInv, Listed, SweepShape, Doomed, OwnSweep,
      DownloadKept, NothingLeftBehind, EndedUnprotected, Running, UsesDownload

(* The goroutine of a job.                                                 *)
LEMMA InvJob ==
  ASSUME TypeOK, SweepInv, NEW j \in Jobs, Job(j)
  PROVE  SweepInv'
<1> USE SweepAssumption DEF TypeOK, SweepInv, Listed, SweepShape, Doomed, OwnSweep, DownloadKept, NothingLeftBehind, EndedUnprotected, Running, UsesDownload
<1>0. /\ WithEntry(j).entries = table.entries \cup {j}
      /\ WithDownload(j).entries = table.entries \cup {j}
      /\ WithStage(j).entries = table.entries
      /\ WithoutStage(j).entries = table.entries
      /\ Without(j).entries = table.entries \ {j}
  BY TableOps
<1>1. CASE Marshal(j)
  BY <1>1, InvFrame DEF Marshal
<1>2. CASE WriteFile(j)
  BY <1>2, InvFrame DEF WriteFile
<1>3. CASE Dispatch(j)
  BY <1>3, <1>0 DEF Dispatch, Overtakes, Condemned
<1>4. CASE SkipOversize(j)
  BY <1>4 DEF SkipOversize, Overtakes, Condemned
<1>5. CASE Resume(j)
  BY <1>5 DEF Resume
<1>6. CASE StartDownload(j)
  BY <1>6 DEF StartDownload
<1>7. CASE AcceptOffer(j)
  BY <1>7 DEF AcceptOffer
<1>8. CASE Progress(j)
  BY <1>8, <1>0 DEF Progress
<1>9. CASE DownloadDone(j)
  BY <1>9, <1>0 DEF DownloadDone
<1>10. CASE DownloadFail(j)
  BY <1>10 DEF DownloadFail
<1>11. CASE MakeStage(j)
  BY <1>11 DEF MakeStage
<1>12. CASE PublishStage(j)
  BY <1>12, <1>0 DEF PublishStage
<1>13. CASE RemoveStage(j)
  BY <1>13 DEF RemoveStage
<1>14. CASE ClearStage(j)
  BY <1>14, <1>0 DEF ClearStage
<1>15. CASE PrepareFail(j)
  BY <1>15 DEF PrepareFail
<1>16. CASE RemoveSome(j)
  BY <1>16 DEF RemoveSome
<1>17. CASE RemoveRest(j)
  BY <1>17 DEF RemoveRest
<1>18. CASE RemoveJob(j)
  BY <1>18, <1>0 DEF RemoveJob
<1> QED
  BY <1>1, <1>2, <1>3, <1>4, <1>5, <1>6, <1>7, <1>8, <1>9, <1>10, <1>11, <1>12, <1>13, <1>14, <1>15, <1>16, <1>17, <1>18 DEF Job

(* A sweep, by whom it may be.                                             *)
LEMMA InvSweep ==
  ASSUME TypeOK, SweepInv, NEW s \in Sweepers, Sweep(s)
  PROVE  SweepInv'
<1> USE SweepAssumption
<1>0. /\ SweepShape /\ Doomed /\ OwnSweep /\ Listed
      /\ DownloadKept /\ NothingLeftBehind /\ EndedUnprotected
  BY DEF SweepInv
<1>1. CASE SweepRead(s)
  <2>1. /\ UNCHANGED <<pc, runs, table, content, stages, overtaken>>
        /\ \A t \in Sweepers \ {s} : sweep'[t] = sweep[t]
        /\ sweep'[s].phase = "read" /\ sweep'[s].left = Existing /\ sweep'[s].target = {}
    BY <1>1, <1>0 DEF SweepRead, TypeOK, SweepStates, SweepShape
  <2>2. \A r \in Requests : <<"dl", r>> \in Existing <=> content[r] # "none"
    BY DEF Existing, Dirs
  <2>3. \A r \in Requests : <<"stage", r>> \in Existing <=> r \in stages
    BY DEF Existing, Dirs
  <2>4. s \in Requests => pc[s] = "sweep"
    BY <1>1 DEF SweepRead
  <2>5. SweepShape'
    BY <1>0, <2>1 DEF SweepShape, TypeOK
  <2>6. Doomed'
    BY <1>0, <2>1 DEF Doomed, TypeOK
  <2>7. OwnSweep'
    BY <1>0, <2>1, <2>2, <2>3, <2>4 DEF OwnSweep, TypeOK
  <2> QED
    BY <1>0, <2>1, <2>5, <2>6, <2>7
    DEF SweepInv, Listed, DownloadKept, NothingLeftBehind,
        EndedUnprotected, UsesDownload
<1>2. CASE SweepKeep(s)
  <2>1. /\ UNCHANGED <<pc, runs, table, content, stages, overtaken>>
        /\ \A t \in Sweepers \ {s} : sweep'[t] = sweep[t]
        /\ sweep'[s].phase = "delete"
        /\ sweep'[s].left = sweep[s].left \ Keep(table) /\ sweep'[s].target = {}
    BY <1>2, <1>0 DEF SweepKeep, TypeOK, SweepStates, SweepShape
  <2>2. sweep[s].phase = "read" /\ sweep[s].target = {}
    BY <1>2, <1>0 DEF SweepKeep, SweepShape
  <2>3. \A r \in Requests : <<"dl", r>> \in Keep(table) <=> r \in table.entries
    BY DEF Keep
  <2>4. \A r \in Requests : <<"stage", r>> \in Keep(table) => r \in table.entries
    BY DEF Keep, TypeOK, Tables
  <2>5. SweepShape'
    BY <1>0, <2>1 DEF SweepShape, TypeOK
  <2>6. Doomed'
    BY <1>0, <2>1, <2>2, <2>3 DEF Doomed, Listed, TypeOK
  <2>7. OwnSweep'
    BY <1>0, <2>1, <2>2, <2>3, <2>4 DEF OwnSweep, TypeOK
  <2> QED
    BY <1>0, <2>1, <2>5, <2>6, <2>7
    DEF SweepInv, Listed, DownloadKept, NothingLeftBehind,
        EndedUnprotected, UsesDownload
<1>3. CASE SweepPick(s)
  <2>1. PICK d \in sweep[s].left :
          sweep' = [sweep EXCEPT
            ![s].left = @ \ {d},
            ![s].target = IF SparesYoung(s) /\ d \in young THEN {} ELSE {d}]
    BY <1>3 DEF SweepPick
  <2>2. /\ UNCHANGED <<pc, runs, table, content, stages, overtaken>>
        /\ sweep[s].phase = "delete" /\ sweep[s].target = {}
    BY <1>3 DEF SweepPick
  <2>3. /\ \A t \in Sweepers \ {s} : sweep'[t] = sweep[t]
        /\ sweep'[s].phase = "delete"
        /\ sweep'[s].left \cup sweep'[s].target \subseteq sweep[s].left
        /\ s \in Requests => sweep'[s].left \cup sweep'[s].target = sweep[s].left
    BY <2>1, <2>2 DEF TypeOK, SweepStates, SparesYoung
  <2>4. SweepShape'
    BY <1>0, <2>3 DEF SweepShape
  <2>5. Doomed'
    BY <1>0, <2>2, <2>3 DEF Doomed
  <2>6. OwnSweep'
    BY <1>0, <2>2, <2>3 DEF OwnSweep
  <2> QED
    BY <1>0, <2>2, <2>4, <2>5, <2>6
    DEF SweepInv, Listed, DownloadKept, NothingLeftBehind,
        EndedUnprotected, UsesDownload
<1>4. CASE SweepRemove(s)
  <2>1. /\ UNCHANGED <<pc, runs, table, overtaken>>
        /\ stages' \subseteq stages
        /\ \A r \in Requests : <<"stage", r>> \in sweep[s].target => r \notin stages'
        /\ \A r \in Requests : content'[r] =
              IF <<"dl", r>> \in sweep[s].target THEN "none" ELSE content[r]
    BY <1>4 DEF SweepRemove, TypeOK
  <2>2. sweep[s].phase = "delete"
    BY <1>4, <1>0 DEF SweepRemove, SweepShape
  <2>3. /\ \A t \in Sweepers \ {s} : sweep'[t] = sweep[t]
        /\ sweep'[s].phase = sweep[s].phase /\ sweep'[s].left = sweep[s].left
        /\ sweep'[s].target = {}
    BY <1>4 DEF SweepRemove, TypeOK, SweepStates
  <2>4. SweepShape'
    BY <1>0, <2>3 DEF SweepShape
  <2>5. Doomed'
    BY <1>0, <2>1, <2>3 DEF Doomed
  <2>6. OwnSweep'
    BY <1>0, <2>1, <2>3 DEF OwnSweep
  <2>7. DownloadKept'
    BY <1>0, <2>1, <2>2 DEF DownloadKept, UsesDownload, Doomed, Running
  <2>8. NothingLeftBehind' /\ EndedUnprotected'
    BY <1>0, <2>1 DEF NothingLeftBehind, EndedUnprotected
  <2> QED
    BY <1>0, <2>1, <2>4, <2>5, <2>6, <2>7, <2>8 DEF SweepInv, Listed
<1>5. CASE SweepEnd(s)
  <2>1. /\ UNCHANGED <<runs, table, content, stages, overtaken>>
        /\ sweep' = [sweep EXCEPT ![s] = NotSweeping]
        /\ pc' = IF s \in Requests THEN [pc EXCEPT ![s] = "idle"] ELSE pc
        /\ sweep[s].phase = "delete" /\ sweep[s].left = {} /\ sweep[s].target = {}
    BY <1>5 DEF SweepEnd
  <2>2. s \in Requests =>
          pc[s] = "sweep" /\ s \notin table.entries /\ content[s] = "none" /\ s \notin stages
    BY <1>0, <2>1 DEF OwnSweep
  <2>3. \A r \in Requests : pc'[r] = IF r = s THEN "idle" ELSE pc[r]
    BY <2>1 DEF TypeOK
  <2>4. /\ \A t \in Sweepers \ {s} : sweep'[t] = sweep[t]
        /\ sweep'[s].phase = "off" /\ sweep'[s].left = {} /\ sweep'[s].target = {}
    BY <2>1 DEF TypeOK, NotSweeping
  <2>5. Listed' /\ DownloadKept' /\ NothingLeftBehind' /\ EndedUnprotected'
    BY <1>0, <2>1, <2>2, <2>3
    DEF Listed, Running, DownloadKept, UsesDownload, NothingLeftBehind,
        EndedUnprotected
  <2>6. SweepShape'
    BY <1>0, <2>4 DEF SweepShape
  <2>7. Doomed'
    BY <1>0, <2>1, <2>3, <2>4 DEF Doomed, Running
  <2>8. OwnSweep'
    <3>1. \A r \in Requests \ {s} : sweep'[r] = sweep[r] /\ pc'[r] = pc[r]
      BY <2>3, <2>4
    <3>2. s \in Requests => pc'[s] = "idle" /\ sweep'[s].phase = "off"
      BY <2>3, <2>4
    <3> QED
      BY <1>0, <2>1, <3>1, <3>2 DEF OwnSweep
  <2> QED
    BY <2>5, <2>6, <2>7, <2>8 DEF SweepInv
<1> QED
  BY <1>1, <1>2, <1>3, <1>4, <1>5 DEF Sweep

LEMMA InvStep == TypeOK /\ SweepInv /\ [Next]_vars => SweepInv'
<1> SUFFICES ASSUME TypeOK, SweepInv, [Next]_vars PROVE SweepInv'
  OBVIOUS
<1>1. CASE \E j \in Jobs : Job(j)
  BY <1>1, InvJob
<1>2. CASE \E s \in Sweepers : Sweep(s)
  BY <1>2, InvSweep
<1>3. CASE Age
  BY <1>3, InvFrame DEF Age
<1>4. CASE Restart
  <2>1. PICK t \in {file} \cup Torn :
          /\ table' = t
          /\ content' = [j \in Jobs |-> IF j \in t.entries THEN content[j] ELSE "none"]
          /\ stages' = stages \cap t.staged
    BY <1>4 DEF Restart
  <2>2. t.staged \subseteq t.entries
    BY <2>1 DEF TypeOK, Tables, Torn, EmptyTable
  <2>3. /\ \A j \in Jobs : pc'[j] = "idle" /\ runs'[j] = 0
        /\ sweep' = [s \in Sweepers |-> NotSweeping]
    BY <1>4 DEF Restart
  <2>4. Listed' /\ DownloadKept' /\ EndedUnprotected'
    BY <2>3 DEF Listed, DownloadKept, EndedUnprotected, Running, UsesDownload
  <2>5. \A s \in Sweepers : sweep'[s].phase = "off" /\ sweep'[s].left = {} /\ sweep'[s].target = {}
    BY <2>3 DEF NotSweeping
  <2>6. SweepShape' /\ Doomed' /\ OwnSweep'
    BY <2>3, <2>5 DEF SweepShape, Doomed, OwnSweep
  <2>7. NothingLeftBehind'
    BY <2>1, <2>2 DEF NothingLeftBehind
  <2> QED
    BY <2>4, <2>6, <2>7 DEF SweepInv
<1>5. CASE UNCHANGED vars
  BY <1>5, InvFrame DEF vars
<1> QED
  BY <1>1, <1>2, <1>3, <1>4, <1>5 DEF Next

THEOREM InvHolds == Spec => []SweepInv
<1>1. Init => TypeOK /\ SweepInv
  BY TypesInit, InvInit
<1>2. TypeOK /\ SweepInv /\ [Next]_vars => TypeOK' /\ SweepInv'
  BY TypesStep, InvStep
<1> QED BY <1>1, <1>2, PTL DEF Spec

(* No sweep, of the hour or of another task, takes the download directory  *)
(* of a running request it has not been overtaken by, however many runs,   *)
(* sweepers and deaths of the process there are.                           *)
THEOREM DownloadsSpared == Spec => []DownloadKept
<1>1. SweepInv => DownloadKept
  BY DEF SweepInv
<1> QED BY <1>1, InvHolds, PTL

(* A request that is over has left neither a download nor a stage behind,  *)
(* unless a restart has brought back its entry.                            *)
THEOREM NothingStays == Spec => []NothingLeftBehind
<1>1. SweepInv => NothingLeftBehind
  BY DEF SweepInv
<1> QED BY <1>1, InvHolds, PTL

(* No sweep goes on protecting the directories of a request that is over.  *)
THEOREM NoneProtected == Spec => []EndedUnprotected
<1>1. SweepInv => EndedUnprotected
  BY DEF SweepInv
<1> QED BY <1>1, InvHolds, PTL
=============================================================================
