----------------------------- MODULE DiskReserve -----------------------------
(***************************************************************************)
(* Disk reservations (services/disk_reserve_sweep.go) and the admission    *)
(* test of the two download functions (services/network_torrent.go).  The  *)
(* tasks are the goroutines that download: site requests, offline jobs,    *)
(* remote offers; a task is named by its jobName, and runs again and again.*)
(*                                                                         *)
(* The map "reservations" is guarded by a mutex, the counter diskReserved  *)
(* is updated atomically but outside of it, and the test reads the file    *)
(* system first and the counter later.                                     *)
(***************************************************************************)
EXTENDS Integers, FiniteSetsExt

CONSTANTS
  Tasks,        \* jobNames
  TorrentSizes, \* sizes a torrent may have
  DiskSize,     \* what the file system offers the agent
  DiskMaxBytes, \* the operator's cap, 0 for none
  StatErrors    \* whether the file system query may fail

ASSUME DiskAssumption ==
  /\ IsFiniteSet(Tasks)
  /\ TorrentSizes \subseteq Nat \ {0}
  /\ DiskSize \in Nat /\ DiskMaxBytes \in Nat
  /\ StatErrors \in BOOLEAN

VARIABLES
  pc,           \* where each task is
  bytes,        \* torrent size the task has learnt, 0 before
  seen,         \* free space its admission test read, 0 once the test is over
  written,      \* bytes the task's directories hold
  reservations, \* the map, 0 for an absent entry
  delta,        \* what the task still has to add to the counter
  diskReserved, \* the counter
  blind         \* history: tasks admitted without seeing a concurrent claim

diskVars == <<pc, bytes, seen, written, reservations, delta, diskReserved, blind>>

(* int64(float64(b) * 1.3)                                                 *)
Reserve(b) == (13 * b) \div 10
Sizes == TorrentSizes \cup {0}

(* A sum is a count of bytes, each named by its task and its number.       *)
Numbered(f, S) == UNION {{t} \X (1 .. f[t]) : t \in S}
Sum(f, S) == Cardinality(Numbered(f, S))

DiskInit ==
  /\ pc = [t \in Tasks |-> "idle"]
  /\ bytes = [t \in Tasks |-> 0]
  /\ seen = [t \in Tasks |-> 0]
  /\ written = [t \in Tasks |-> 0]
  /\ reservations = [t \in Tasks |-> 0]
  /\ delta = [t \in Tasks |-> 0]
  /\ diskReserved = 0
  /\ blind = {}

Goto(t, l) == pc' = [pc EXCEPT ![t] = l]

-----------------------------------------------------------------------------
(* The admission test.                                                     *)

(* The torrent's metadata is there: its size is known.                     *)
Metadata(t) ==
  /\ pc[t] = "idle"
  /\ \E b \in TorrentSizes : bytes' = [bytes EXCEPT ![t] = b]
  /\ Goto(t, "stat")
  /\ UNCHANGED <<seen, written, reservations, delta, diskReserved, blind>>

(* FreeDiskSpace, capped by what is left of the operator's budget.         *)
Used == Sum(written, Tasks)
Budget == IF DiskMaxBytes > 0 THEN Min({DiskMaxBytes, DiskSize}) ELSE DiskSize
FreeSpace == Max({0, Budget - Used})

Stat(t) ==
  /\ pc[t] = "stat"
  /\ seen' = [seen EXCEPT ![t] = FreeSpace]
  /\ Goto(t, "test")
  /\ UNCHANGED <<bytes, written, reservations, delta, diskReserved, blind>>

(* The query failed: a warning, and the download goes ahead.               *)
StatError(t) ==
  /\ StatErrors /\ pc[t] = "stat"
  /\ blind' = blind \cup {t}
  /\ Goto(t, "claim")
  /\ UNCHANGED <<bytes, seen, written, reservations, delta, diskReserved>>

(* Free space less the reservations.  Mutant: the counter is ignored.      *)
EffectiveIgnoringOthers(t) == seen[t]
Effective(t) == IF diskReserved <= 0 THEN seen[t] ELSE Max({0, seen[t] - diskReserved})

(* A claim the counter does not show yet.                                  *)
Uncounted == {u \in Tasks : pc[u] \in {"claim", "count"}}

Admit(t) ==
  /\ pc[t] = "test" /\ Effective(t) >= Reserve(bytes[t])
  /\ blind' = IF Uncounted = {} THEN blind ELSE blind \cup {t}
  /\ seen' = [seen EXCEPT ![t] = 0]
  /\ Goto(t, "claim")
  /\ UNCHANGED <<bytes, written, reservations, delta, diskReserved>>

(* DiskShortfallError: the task fails, its deferred release is a no-op.    *)
Refuse(t) ==
  /\ pc[t] = "test" /\ Effective(t) < Reserve(bytes[t])
  /\ seen' = [seen EXCEPT ![t] = 0]
  /\ Goto(t, "release")
  /\ UNCHANGED <<bytes, written, reservations, delta, diskReserved, blind>>

-----------------------------------------------------------------------------
(* ReserveDisk and ReleaseDisk, the map and the counter apart.             *)

(* What the counter gains.                                                 *)
ReserveDelta(t) == Reserve(bytes[t]) - reservations[t]

ReserveDisk(t) ==
  /\ pc[t] = "claim"
  /\ reservations' = [reservations EXCEPT ![t] = Reserve(bytes[t])]
  /\ delta' = [delta EXCEPT ![t] = ReserveDelta(t)]
  /\ Goto(t, "count")
  /\ UNCHANGED <<bytes, seen, written, diskReserved, blind>>

Count(t) ==
  /\ pc[t] = "count"
  /\ diskReserved' = diskReserved + delta[t]
  /\ delta' = [delta EXCEPT ![t] = 0]
  /\ Goto(t, "download")
  /\ UNCHANGED <<bytes, seen, written, reservations, blind>>

(* Mutant: what is released is computed from the torrent's size again,     *)
(* whether or not the job holds a reservation.                             *)
ReleasedFromSize(t) == Reserve(bytes[t])
Released(t) == reservations[t]

ReleaseDisk(t) ==
  /\ pc[t] = "release"
  /\ delta' = [delta EXCEPT ![t] = -Released(t)]
  /\ reservations' = [reservations EXCEPT ![t] = 0]
  /\ Goto(t, "uncount")
  /\ UNCHANGED <<bytes, seen, written, diskReserved, blind>>

Uncount(t) ==
  /\ pc[t] = "uncount"
  /\ diskReserved' = diskReserved + delta[t]
  /\ delta' = [delta EXCEPT ![t] = 0]
  /\ Goto(t, "sweep")
  /\ UNCHANGED <<bytes, seen, written, reservations, blind>>

-----------------------------------------------------------------------------
(* The rest of the task, as far as it touches the disk.                    *)

(* The torrent's bytes arrive, and later the PAR2 and working files the    *)
(* multiplier is meant to cover (in one piece each).                       *)
Write(t) ==
  /\ pc[t] = "download"
  /\ \E n \in {bytes[t], Reserve(bytes[t])} :
       /\ written[t] < n /\ n - written[t] <= FreeSpace
       /\ written' = [written EXCEPT ![t] = n]
  /\ UNCHANGED <<pc, bytes, seen, reservations, delta, diskReserved, blind>>

(* The download fails or is cancelled: no session, so that the directory   *)
(* is left to the sweep.                                                   *)
DownloadFails(t) ==
  /\ pc[t] = "download"
  /\ Goto(t, "release")
  /\ UNCHANGED <<bytes, seen, written, reservations, delta, diskReserved, blind>>

(* The download is done; whatever follows, the task reaches its deferred   *)
(* calls.                                                                  *)
Downloaded(t) ==
  /\ pc[t] = "download" /\ written[t] >= bytes[t]
  /\ Goto(t, "remove")
  /\ UNCHANGED <<bytes, seen, written, reservations, delta, diskReserved, blind>>

(* Deferred calls run last in, first out: the files go before the claim.   *)
Remove(t) ==
  /\ pc[t] = "remove"
  /\ written' = [written EXCEPT ![t] = 0]
  /\ Goto(t, "release")
  /\ UNCHANGED <<bytes, seen, reservations, delta, diskReserved, blind>>

(* SweepOrphanDownloads after the task.                                    *)
Sweep(t) ==
  /\ pc[t] = "sweep"
  /\ written' = [written EXCEPT ![t] = 0]
  /\ bytes' = [bytes EXCEPT ![t] = 0]
  /\ blind' = blind \ {t}
  /\ Goto(t, "idle")
  /\ UNCHANGED <<seen, reservations, delta, diskReserved>>

Step(t) ==
  \/ Metadata(t) \/ Stat(t) \/ StatError(t) \/ Admit(t) \/ Refuse(t)
  \/ ReserveDisk(t) \/ Count(t) \/ Write(t) \/ DownloadFails(t) \/ Downloaded(t)
  \/ Remove(t) \/ ReleaseDisk(t) \/ Uncount(t) \/ Sweep(t)

DiskNext == \E t \in Tasks : Step(t)

DiskSpec == DiskInit /\ [][DiskNext]_diskVars
-----------------------------------------------------------------------------
(* Properties.                                                             *)

(* Every variable has its type.                                            *)
DiskTypeOK ==
  /\ pc \in [Tasks -> {"idle", "stat", "test", "claim", "count", "download",
                       "remove", "release", "uncount", "sweep"}]
  /\ bytes \in [Tasks -> Sizes]
  /\ seen \in [Tasks -> Nat] /\ written \in [Tasks -> Nat]
  /\ reservations \in [Tasks -> Nat] /\ delta \in [Tasks -> Int]
  /\ diskReserved \in Nat
  /\ blind \subseteq Tasks

(* Nothing is reserved when nothing runs: no phantom bytes build up from   *)
(* double claims, refusals or failures (the comment above ReserveDisk).    *)
NoPhantomBytes ==
  (\A t \in Tasks : pc[t] = "idle") => diskReserved = 0

(* Tasks that saw each other's claims fit the disk together, however much  *)
(* of it they have written, and whichever finish, fail or are refused      *)
(* between the two reads of an admission test (FreeDiskAfterReservations). *)
(* Of all tasks this is false: two may pass the test before either claims. *)
SightedTasksFit == Sum(reservations, Tasks \ blind) <= Budget
=============================================================================
