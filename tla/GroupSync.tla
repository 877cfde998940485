----------------------------- MODULE GroupSync -----------------------------
(***************************************************************************)
(* The posting groups: the site's catalog is polled into the groups table, *)
(* whose rows the operator edits on the groups page at the same time.  A   *)
(* sync reads a row and writes it in two statements, and the page does not *)
(* wait for it.  Ids are never reused, so the id a sync has read points to *)
(* a row that may be renamed or deleted meanwhile: it is kept here as the  *)
(* name its row has now.                                                   *)
(***************************************************************************)
EXTENDS Integers

CONSTANTS
  Names,       \* of groups
  NoRow,       \* no group of that name
  MaxVersion   \* versions the site publishes

Rows == [source : {"local", "site"}, data : 0 .. MaxVersion]

ASSUME GroupAssumption == MaxVersion \in Nat /\ NoRow \notin Names \cup Rows

VARIABLES
  rows,        \* the table: who owns each group, and whose data it holds
  catalog,     \* the site's: the version of each group, 0 for none
  version,     \* the newest of them
  lastVersion, doFullSync,
  syncAt,      \* idle, read, insert, update, delete
  got,         \* the response: names and versions, ...
  gotMax,      \* ... and max_version
  todo,        \* groups of it that have not been looked at
  now,         \* the group at hand
  ids,         \* existingID, or the ids left to delete
  late,        \* groups the operator has taken over since the sync last read
  excused      \* groups the operator, a withdrawal or an error keeps from the sync

groupVars == <<rows, catalog, version, lastVersion, doFullSync, syncAt, got,
               gotMax, todo, now, ids, late, excused>>

site == <<catalog, version>>

SiteRow(v) == [source |-> "site", data |-> v]
LocalRow == [source |-> "local", data |-> 0]

Has(n, who) == rows[n] # NoRow /\ rows[n].source = who

GroupTypeOK ==
  /\ rows \in [Names -> Rows \cup {NoRow}]
  /\ catalog \in [Names -> 0 .. MaxVersion]
  /\ {version, lastVersion, gotMax} \subseteq 0 .. MaxVersion
  /\ doFullSync \in BOOLEAN
  /\ syncAt \in {"idle", "read", "insert", "update", "delete"}
  /\ got \in [Names -> 0 .. MaxVersion]
  /\ now \in Names \cup {NoRow}
  /\ todo \subseteq Names /\ ids \subseteq Names
  /\ late \subseteq Names /\ excused \subseteq Names

Nothing == [n \in Names |-> 0]

GroupInit ==
  /\ rows = [n \in Names |-> NoRow]
  /\ catalog = Nothing /\ version = 0
  /\ lastVersion = 0 /\ doFullSync = TRUE
  /\ syncAt = "idle"
  /\ got = Nothing /\ gotMax = 0 /\ todo = {} /\ now = NoRow /\ ids = {}
  /\ late = {} /\ excused = {}

-----------------------------------------------------------------------------
(* The sync.  A fetch that fails changes nothing: the next tick tries.     *)

Since == IF doFullSync THEN 0 ELSE lastVersion

Received(response, max) ==
  /\ syncAt = "idle" /\ syncAt' = "read"
  /\ got' = response /\ gotMax' = max
  /\ todo' = {n \in Names : response[n] > 0}
  /\ excused' = IF doFullSync THEN {} ELSE excused \ todo'
  /\ UNCHANGED <<rows, site, lastVersion, doFullSync, now, ids, late>>

FetchAgentGroups ==
  Received([n \in Names |-> IF catalog[n] > Since THEN catalog[n] ELSE 0], version)

(* A site without the endpoint answers 404, which is an empty catalog.     *)
FetchMissing == Received(Nothing, 0)

(* Mutant: an override is taken for a row of the site.                     *)
OverriddenNever(n) == FALSE
Overridden(n) == Has(n, "local")

Taken(n) == rows[n] # NoRow /\ ~Overridden(n)

(* UpsertSiteGroup looks for the name first.                               *)
ReadGroup ==
  /\ syncAt = "read"
  /\ \E n \in todo :
       /\ todo' = todo \ {n}
       /\ \/ Overridden(n) /\ UNCHANGED <<now, ids, syncAt>>
          \/ rows[n] = NoRow /\ now' = n /\ ids' = {} /\ syncAt' = "insert"
          \/ Taken(n) /\ now' = n /\ ids' = {n} /\ syncAt' = "update"
  /\ late' = {}
  /\ UNCHANGED <<rows, site, lastVersion, doFullSync, got, gotMax, excused>>

WriteDone ==
  /\ syncAt' = "read" /\ now' = NoRow /\ ids' = {} /\ late' = {}
  /\ UNCHANGED <<site, lastVersion, doFullSync, got, gotMax, todo>>

InsertGroup ==
  /\ syncAt = "insert" /\ rows[now] = NoRow
  /\ rows' = [rows EXCEPT ![now] = SiteRow(got[now])]
  /\ WriteDone
  /\ UNCHANGED excused

(* The update is by id and leaves the name and the source alone; when the  *)
(* row is gone it changes nothing, and that is no error.                   *)
UpdateSeen ==
  /\ syncAt = "update"
  /\ rows' = [n \in Names |-> IF n \in ids THEN [rows[n] EXCEPT !.data = got[now]]
                                           ELSE rows[n]]
  /\ WriteDone
  /\ UNCHANGED excused

(* The name is taken by now, or the database in error: the group is passed *)
(* over.                                                                   *)
UpsertFails ==
  /\ syncAt \in {"insert", "update"}
  /\ excused' = excused \cup {now}
  /\ WriteDone
  /\ UNCHANGED rows

(* ReconcileSiteGroups, after a full fetch.                                *)
ListSiteGroups ==
  /\ syncAt = "read" /\ todo = {} /\ doFullSync
  /\ ids' = {n \in Names : Has(n, "site") /\ got[n] = 0}
  /\ late' = {}
  /\ syncAt' = "delete"
  /\ UNCHANGED <<rows, site, lastVersion, doFullSync, got, gotMax, todo, now, excused>>

DeleteStale ==
  /\ syncAt = "delete"
  /\ \E n \in ids :
       /\ rows' = [rows EXCEPT ![n] = NoRow]
       /\ ids' = ids \ {n}
  /\ UNCHANGED <<site, lastVersion, doFullSync, syncAt, got, gotMax, todo, now, late, excused>>

(* An error ends the reconciliation; the next fetch is no full one.        *)
ReconcileFails ==
  /\ syncAt = "delete" /\ ids # {}
  /\ ids' = {}
  /\ excused' = excused \cup ids
  /\ UNCHANGED <<rows, site, lastVersion, doFullSync, syncAt, got, gotMax, todo, now, late>>

SyncEnded ==
  \/ syncAt = "read" /\ todo = {} /\ ~doFullSync
  \/ syncAt = "delete" /\ ids = {}

SyncDone(v) ==
  /\ SyncEnded
  /\ lastVersion' = v /\ doFullSync' = FALSE
  /\ syncAt' = "idle"
  /\ got' = Nothing /\ gotMax' = 0 /\ late' = {}
  /\ UNCHANGED <<rows, site, todo, now, ids, excused>>

(* Mutant: the newest version the site has by now, not the response's.     *)
AdvanceFar == SyncDone(version)

Advance == SyncDone(IF gotMax > lastVersion THEN gotMax ELSE lastVersion)

Sync ==
  \/ FetchAgentGroups \/ FetchMissing
  \/ ReadGroup \/ InsertGroup \/ UpdateSeen \/ UpsertFails
  \/ ListSiteGroups \/ DeleteStale \/ ReconcileFails
  \/ Advance

-----------------------------------------------------------------------------
(* The groups page: what it saves becomes the operator's.                  *)

Touched(ns) ==
  /\ excused' = excused \cup ns
  /\ UNCHANGED <<site, lastVersion, doFullSync, syncAt, got, gotMax, todo, now>>

CreateGroup(n) ==
  /\ rows[n] = NoRow
  /\ rows' = [rows EXCEPT ![n] = LocalRow]
  /\ Touched({n})
  /\ UNCHANGED <<ids, late>>

Unused(n) == rows[n] = NoRow

(* UpdateGroup, which may rename: an id follows its row.                   *)
UpdateGroup(n, m) ==
  /\ ~Unused(n) /\ (Unused(m) \/ m = n)
  /\ rows' = [[rows EXCEPT ![n] = NoRow] EXCEPT ![m] = LocalRow]
  /\ ids' = IF n \in ids THEN (ids \ {n}) \cup {m} ELSE ids
  /\ late' = IF n \in ids THEN (late \ {n}) \cup {m} ELSE late
  /\ Touched({n, m})

DeleteGroup(n) ==
  /\ ~Unused(n)
  /\ rows' = [rows EXCEPT ![n] = NoRow]
  /\ ids' = ids \ {n} /\ late' = late \ {n}
  /\ Touched({n})

-----------------------------------------------------------------------------
(* The site's administrator.                                               *)
PublishGroup(n) ==
  /\ version < MaxVersion
  /\ version' = version + 1
  /\ catalog' = [catalog EXCEPT ![n] = version + 1]
  /\ UNCHANGED <<rows, lastVersion, doFullSync, syncAt, got, gotMax, todo, now, ids, late, excused>>

Withdraw(n) ==
  /\ catalog[n] > 0
  /\ catalog' = [catalog EXCEPT ![n] = 0]
  /\ excused' = excused \cup {n}
  /\ UNCHANGED <<rows, version, lastVersion, doFullSync, syncAt, got, gotMax, todo, now, ids, late>>

RestartSync ==
  /\ lastVersion' = 0 /\ doFullSync' = TRUE
  /\ syncAt' = "idle"
  /\ got' = Nothing /\ gotMax' = 0 /\ todo' = {} /\ now' = NoRow /\ ids' = {}
  /\ late' = {}
  /\ UNCHANGED <<rows, site, excused>>

GroupNext ==
  \/ Sync
  \/ \E n \in Names : CreateGroup(n) \/ DeleteGroup(n) \/ PublishGroup(n) \/ Withdraw(n)
  \/ \E n, m \in Names : UpdateGroup(n, m)
  \/ RestartSync

GroupSpec == GroupInit /\ [][GroupNext]_groupVars

-----------------------------------------------------------------------------
(* A sync changes a group of the operator's only when the operator took it *)
(* over after the statement that read its row: an older override is safe.  *)
OverrideKept ==
  [][Sync => \A n \in Names : Has(n, "local") /\ n \notin late => rows'[n] = rows[n]]_groupVars

(* No publication is lost: between two syncs every group up to the version *)
(* the next poll starts from is in the table as the site has it, and what  *)
(* the site withdrew is not, unless the operator, an error, or a           *)
(* withdrawal after the last full fetch has come between.                  *)
CaughtUp ==
  syncAt = "idle" /\ ~doFullSync =>
    \A n \in Names \ excused :
      /\ catalog[n] \in 1 .. lastVersion => rows[n] = SiteRow(catalog[n]) \/ Has(n, "local")
      /\ catalog[n] = 0 => ~Has(n, "site")
=============================================================================
