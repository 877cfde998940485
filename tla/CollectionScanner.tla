------------------------- MODULE CollectionScanner -------------------------
(***************************************************************************)
(* The collection page: one snapshot of the operator's library in memory,  *)
(* mirrored in collection.json.  A scan replaces it; the handlers of the   *)
(* page edit it.  Handlers hold the mutex while they save it, a scan only  *)
(* while it swaps the snapshot in, and both write the same temporary file. *)
(*                                                                         *)
(* Marshalling the snapshot of a scan while a handler edits it is a data   *)
(* race: what the image holds is that of before or after the edit, and the *)
(* runtime may stop the program, which is a Restart like any other.        *)
(***************************************************************************)
EXTENDS Integers

CONSTANTS
  Paths,       \* the video files that come and go under the scan root
  Parent,      \* FolderOf each
  Dirs,        \* folders of the tree
  NoSnapshot,  \* neither in memory, nor a file
  Torn,        \* a file cut short, or a mix of two
  MaxChanges   \* scans that end and edits, in a run of TLC

Snapshots ==
  [items : SUBSET Paths, selected : SUBSET (Paths \cup Dirs),
   edited : SUBSET (Paths \cup Dirs), queued : SUBSET Paths]

ASSUME CollectionAssumption ==
  /\ Parent \in [Paths -> Dirs]
  /\ Paths \cap Dirs = {}
  /\ NoSnapshot # Torn /\ {NoSnapshot, Torn} \cap Snapshots = {}
  /\ MaxChanges \in Nat

VARIABLES
  snap,        \* cs.snap
  file, tmp,   \* collection.json and collection.json.tmp
  at,          \* how far each of the two kinds of writer is
  image,       \* what it has marshalled
  fd,          \* the name its open file has now
  alone,       \* writers that have met no other since they began
  trust,       \* what is known of the file: exact, behind, raced
  changes      \* to the snapshot in memory, so far

collectionVars == <<snap, file, tmp, at, image, fd, alone, trust, changes>>

Writers == {"scan", "edit"}
Other(w) == IF w = "scan" THEN "edit" ELSE "scan"
Saving == {"marshal", "open", "write", "rename"}

CollectionTypeOK ==
  /\ snap \in Snapshots \cup {NoSnapshot}
  /\ file \in Snapshots \cup {NoSnapshot, Torn}
  /\ tmp \in Snapshots \cup {NoSnapshot, Torn}
  /\ at \in [Writers -> {"idle", "walk"} \cup Saving]
  /\ image \in [Writers -> Snapshots \cup {NoSnapshot}]
  /\ fd \in [Writers -> {"none", "tmp", "file"}]
  /\ alone \subseteq Writers
  /\ trust \in {"exact", "behind", "raced"}
  /\ changes \in 0 .. MaxChanges

CollectionInit ==
  /\ snap = NoSnapshot /\ file = NoSnapshot /\ tmp = NoSnapshot
  /\ at = [w \in Writers |-> "idle"]
  /\ image = [w \in Writers |-> NoSnapshot]
  /\ fd = [w \in Writers |-> "none"]
  /\ alone = {} /\ trust = "exact" /\ changes = 0

-----------------------------------------------------------------------------
Writing(w) == at[w] \in Saving

(* The mutex: a handler holds it from its edit to the end of its save.     *)
Unlocked == at["edit"] = "idle"

(* One more change to the snapshot in memory.                              *)
Change(s) ==
  /\ Unlocked /\ changes < MaxChanges
  /\ snap' = s
  /\ changes' = changes + 1

(* Writers that are at work at the same time both lose their solitude.     *)
Joins(w) == IF Writing(Other(w)) THEN alone \ Writers ELSE alone \cup {w}

(* Scan: the flag lets one in at a time.                                   *)
Scan ==
  /\ at["scan"] = "idle"
  /\ at' = [at EXCEPT !["scan"] = "walk"]
  /\ UNCHANGED <<snap, file, tmp, image, fd, alone, trust, changes>>

ScanFails ==
  /\ at["scan"] = "walk"
  /\ at' = [at EXCEPT !["scan"] = "idle"]
  /\ UNCHANGED <<snap, file, tmp, image, fd, alone, trust, changes>>

(* The new snapshot has the files of the walk and nothing the operator has *)
(* set on the old one.                                                     *)
SwapSnapshot ==
  /\ at["scan"] = "walk"
  /\ \E items \in SUBSET Paths :
       Change([items |-> items, selected |-> {}, edited |-> {}, queued |-> {}])
  /\ at' = [at EXCEPT !["scan"] = "marshal"]
  /\ alone' = Joins("scan")
  /\ UNCHANGED <<file, tmp, image, fd, trust>>

Marshal ==
  /\ at["scan"] = "marshal"
  /\ image' = [image EXCEPT !["scan"] = snap]
  /\ at' = [at EXCEPT !["scan"] = "open"]
  /\ UNCHANGED <<snap, file, tmp, fd, alone, trust, changes>>

-----------------------------------------------------------------------------
(* The handlers.                                                           *)

(* Mutant: the page is told the edit is saved, and it is in memory only.   *)
EditInMemory(s) ==
  /\ Change(s)
  /\ UNCHANGED <<file, tmp, at, image, fd, alone, trust>>

Edit(s) ==
  /\ Change(s)
  /\ image' = [image EXCEPT !["edit"] = s]
  /\ at' = [at EXCEPT !["edit"] = "open"]
  /\ alone' = Joins("edit")
  /\ UNCHANGED <<file, tmp, fd, trust>>

(* A row that a scan has superseded is an error.                           *)
UpdateOverrides(p) ==
  /\ snap # NoSnapshot /\ p \in snap.items
  /\ \E e \in {snap.edited \cup {p}, snap.edited \ {p}} : Edit([snap EXCEPT !.edited = e])

SetSelected(p) ==
  /\ snap # NoSnapshot /\ p \in snap.items
  /\ \E s \in {snap.selected \cup {p}, snap.selected \ {p}} : Edit([snap EXCEPT !.selected = s])

SetFolderOverride(d) ==
  /\ snap # NoSnapshot
  /\ \E e \in {snap.edited \cup {d}, snap.edited \ {d}} : Edit([snap EXCEPT !.edited = e])

SelectFolder(d) ==
  /\ snap # NoSnapshot
  /\ \E s \in {snap.selected \cup {d}, snap.selected \ {d}} : Edit([snap EXCEPT !.selected = s])

Picked(s) == {p \in s.items : p \in s.selected \/ Parent[p] \in s.selected}

QueueSelectedUploads ==
  /\ snap # NoSnapshot /\ Picked(snap) # {}
  /\ Edit([snap EXCEPT !.selected = {}, !.queued = @ \cup Picked(snap)])

(* Without a row to queue, the folders are unticked in memory only.        *)
NothingSelected ==
  /\ snap # NoSnapshot /\ Picked(snap) = {} /\ snap.selected # {}
  /\ Change([snap EXCEPT !.selected = @ \ Dirs])
  /\ alone' = {}
  /\ trust' = IF trust = "exact" THEN "behind" ELSE trust
  /\ UNCHANGED <<file, tmp, at, image, fd>>

-----------------------------------------------------------------------------
(* persistSnapshot.                                                        *)

(* Mutant: the file itself is opened, without a temporary one.             *)
OpenFile(w) ==
  /\ at[w] = "open"
  /\ file' = Torn
  /\ fd' = [fd EXCEPT ![w] = "file"]
  /\ at' = [at EXCEPT ![w] = "write"]
  /\ UNCHANGED <<snap, tmp, image, alone, trust, changes>>

(* os.WriteFile opens the temporary file, and so empties it, ...           *)
OpenTmp(w) ==
  /\ at[w] = "open"
  /\ tmp' = Torn
  /\ fd' = [fd EXCEPT ![w] = "tmp"]
  /\ at' = [at EXCEPT ![w] = "write"]
  /\ UNCHANGED <<snap, file, image, alone, trust, changes>>

(* ... and writes the image into it, whatever its name is by now; two that *)
(* have it open may leave a mix.                                           *)
WriteImage(w) ==
  /\ at[w] = "write"
  /\ \E new \in {image[w]} \cup (IF fd[Other(w)] = fd[w] THEN {Torn} ELSE {}) :
       \/ fd[w] = "tmp" /\ tmp' = new /\ UNCHANGED file
       \/ fd[w] = "file" /\ file' = new /\ UNCHANGED tmp
       \/ fd[w] = "none" /\ UNCHANGED <<file, tmp>>
  /\ fd' = [fd EXCEPT ![w] = "none"]
  /\ at' = [at EXCEPT ![w] = "rename"]
  /\ image' = [image EXCEPT ![w] = NoSnapshot]
  /\ UNCHANGED <<snap, alone, trust, changes>>

Renamed(n) == IF n = "tmp" THEN "file" ELSE "none"

Rename(w) ==
  /\ at[w] = "rename" /\ tmp # NoSnapshot
  /\ file' = tmp
  /\ tmp' = NoSnapshot
  /\ fd' = [v \in Writers |-> Renamed(fd[v])]
  /\ at' = [at EXCEPT ![w] = "idle"]
  /\ alone' = alone \ {w}
  /\ trust' = IF w \in alone THEN "exact" ELSE "raced"
  /\ UNCHANGED <<snap, image, changes>>

(* Any of the calls may fail, as Rename does when the other writer has     *)
(* renamed the file; the handler says so, the change stays in memory.      *)
SaveFails(w) ==
  /\ Writing(w)
  /\ at' = [at EXCEPT ![w] = "idle"]
  /\ fd' = [fd EXCEPT ![w] = "none"]
  /\ image' = [image EXCEPT ![w] = NoSnapshot]
  /\ alone' = alone \ {w}
  /\ trust' = IF w \in alone /\ trust # "raced" THEN "behind" ELSE "raced"
  /\ UNCHANGED <<snap, file, tmp, changes>>

(* loadSnapshot ignores a file it cannot parse.                            *)
RestartScanner ==
  /\ snap' = IF file = Torn THEN NoSnapshot ELSE file
  /\ at' = [w \in Writers |-> "idle"]
  /\ image' = [w \in Writers |-> NoSnapshot]
  /\ fd' = [w \in Writers |-> "none"]
  /\ alone' = {}
  /\ trust' = IF file = Torn THEN "raced" ELSE "exact"
  /\ UNCHANGED <<file, tmp, changes>>

Save(w) == OpenTmp(w) \/ WriteImage(w) \/ Rename(w) \/ SaveFails(w)

Handler ==
  \/ \E p \in Paths : UpdateOverrides(p) \/ SetSelected(p)
  \/ \E d \in Dirs : SetFolderOverride(d) \/ SelectFolder(d)
  \/ QueueSelectedUploads \/ NothingSelected

CollectionNext ==
  \/ Scan \/ ScanFails \/ SwapSnapshot \/ Marshal
  \/ Handler
  \/ \E w \in Writers : Save(w)
  \/ RestartScanner

CollectionSpec == CollectionInit /\ [][CollectionNext]_collectionVars

-----------------------------------------------------------------------------
(* A crash in the middle of a save leaves the last snapshot that was saved *)
(* complete, unless a scan and a handler have been saving at the same time *)
(* (they share the temporary file) and nobody has saved alone since.       *)
FileWhole == trust # "raced" => file # Torn

(* Nothing is lost by a restart: when nobody is at work the file is the    *)
(* snapshot in memory, unless a save has failed, the last click on Upload  *)
(* found no row, or a scan and a handler have been saving together, and    *)
(* nobody has saved since.                                                 *)
FileCurrent == trust = "exact" /\ (\A w \in Writers : ~Writing(w)) => file = snap
=============================================================================
