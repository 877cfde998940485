----------------------------- MODULE Inventory -----------------------------
(***************************************************************************)
(* The inventory of one root.  A walk gathers the files of the library and *)
(* ships them in batches of one generation; the last batch closes it, and  *)
(* the site then drops what the generation does not hold.  A prober takes  *)
(* files the site has not described and reports what it sees in them, nil  *)
(* for a file it cannot read.  The library changes at any time.            *)
(*                                                                         *)
(* Files are numbered in the order of the walk.  A batch holds one file.   *)
(***************************************************************************)
EXTENDS Integers, FiniteSets

CONSTANTS
  Last,        \* the files are 1 .. Last
  MaxFiles,    \* INVENTORY_MAX_FILES, 0 for no limit
  ProbeBatch,  \* INVENTORY_PROBE_BATCH
  MaxMoves     \* changes of the disk in a run of TLC

ASSUME InventoryAssumption ==
  Last \in Nat /\ MaxFiles \in Nat /\ ProbeBatch \in Nat \ {0} /\ MaxMoves \in Nat

Files == 1 .. Last

VARIABLES
  library,     \* files on the disk
  unreadable,  \* files in a directory of which an error is all one gets
  moves,       \* changes of the two so far
  walkAt,      \* idle, walk, ship
  place,       \* the file the walk comes to next
  found,       \* res.Files; while shipping, those not sent
  truncated,   \* res.Truncated
  passed,      \* places where the walk has looked and found no file
  barred,      \* places where it has met an error
  listed,      \* the site's inventory
  generation,  \* files of the generation that is open
  media,       \* what the site knows of each: unknown, described, blank
  probing,     \* files of the batch the prober has not come to
  entries,     \* what it has to report
  hand,        \* the file it is probing, or 0
  looked,      \* files it could not make out when it last looked
  killed,      \* files it was probing when a shutdown came
  cancelled    \* the shutdown of the agent has begun

walkVars == <<walkAt, place, found, truncated, passed, barred>>
probeVars == <<probing, entries, hand, looked>>
inventoryVars == <<library, unreadable, moves, walkVars, listed, generation, media, probeVars, killed, cancelled>>

InventoryTypeOK ==
  /\ library \subseteq Files /\ unreadable \subseteq Files
  /\ moves \in 0 .. MaxMoves
  /\ walkAt \in {"idle", "walk", "ship"}
  /\ place \in 1 .. Last + 1
  /\ found \subseteq Files /\ truncated \in BOOLEAN
  /\ passed \subseteq Files /\ barred \subseteq Files
  /\ listed \subseteq Files /\ generation \subseteq Files
  /\ media \in [Files -> {"unknown", "described", "blank"}]
  /\ probing \subseteq Files
  /\ entries \in [Files -> {"none", "described", "blank"}]
  /\ hand \in 0 .. Last
  /\ looked \subseteq Files /\ killed \subseteq Files /\ cancelled \in BOOLEAN

NoEntries == [f \in Files |-> "none"]

InventoryInit ==
  /\ library \in SUBSET Files /\ unreadable \in SUBSET library /\ moves = 0
  /\ walkAt = "idle" /\ place = 1 /\ found = {} /\ truncated = FALSE
  /\ passed = {} /\ barred = {}
  /\ listed = {} /\ generation = {}
  /\ media = [f \in Files |-> "unknown"]
  /\ probing = {} /\ entries = NoEntries /\ hand = 0
  /\ looked = {} /\ killed = {} /\ cancelled = FALSE

-----------------------------------------------------------------------------
(* ScanInventory.  A root that is not there ends the walk before it began. *)
StartWalk ==
  /\ walkAt = "idle" /\ ~cancelled
  /\ walkAt' = "walk"
  /\ UNCHANGED <<library, unreadable, moves, place, found, truncated, passed, barred, listed,
                 generation, media, probeVars, killed, cancelled>>

MaxReached == MaxFiles > 0 /\ Cardinality(found) >= MaxFiles

(* One more file: an error is counted and passed over, the limit ends the  *)
(* walk at the first file beyond it.                                       *)
Visit ==
  /\ walkAt = "walk" /\ place <= Last /\ ~truncated
  /\ truncated' = (place \in library \ unreadable /\ MaxReached)
  /\ found' = IF place \in library \ unreadable /\ ~MaxReached THEN found \cup {place} ELSE found
  /\ barred' = IF place \in library \cap unreadable THEN barred \cup {place} ELSE barred
  /\ passed' = IF place \in library THEN passed ELSE passed \cup {place}
  /\ place' = place + 1
  /\ UNCHANGED <<library, unreadable, moves, walkAt, listed, generation, media, probeVars, killed, cancelled>>

Reset ==
  /\ walkAt' = "idle" /\ place' = 1 /\ found' = {} /\ truncated' = FALSE
  /\ passed' = {} /\ barred' = {} /\ generation' = {}

(* A walk that found nothing looks like a mount that is gone: the          *)
(* generation is not closed.                                               *)
WalkEnds ==
  /\ walkAt = "walk" /\ (place > Last \/ truncated)
  /\ \/ found = {} /\ Reset
     \/ found # {} /\ walkAt' = "ship" /\ place' = 1 /\ UNCHANGED <<found, truncated, passed, barred, generation>>
  /\ UNCHANGED <<library, unreadable, moves, listed, media, probeVars, killed, cancelled>>

(* What the site does with a batch (external).                             *)
SiteTakes(f, final) ==
  /\ listed' = IF final THEN generation \cup {f} ELSE listed \cup {f}
  /\ media' = [g \in Files |-> IF g \in listed' THEN media[g] ELSE "unknown"]

Foremost(f) == f \in found /\ \A g \in found : f <= g

(* Mutant: a truncated walk closes its generation too.                     *)
FinalAlways(f) == found = {f}

(* The last batch closes the generation unless the walk was truncated.     *)
Final(f) == found = {f} /\ ~truncated

(* OfferInventory; the answer to a batch may be lost, and then the walk is *)
(* given up whether or not the site has taken it.                          *)
OfferInventory ==
  /\ walkAt = "ship" /\ ~cancelled
  /\ \E f \in found :
       /\ Foremost(f)
       /\ SiteTakes(f, Final(f))
       /\ \/ found = {f} /\ Reset
          \/ /\ found # {f}
             /\ found' = found \ {f} /\ generation' = generation \cup {f}
             /\ UNCHANGED <<walkAt, place, truncated, passed, barred>>
          \/ Reset
  /\ UNCHANGED <<library, unreadable, moves, probeVars, killed, cancelled>>

(* An error, or the shutdown, leaves the generation open.                  *)
Abandon ==
  /\ walkAt = "ship"
  /\ Reset
  /\ UNCHANGED <<library, unreadable, moves, listed, media, probeVars, killed, cancelled>>

-----------------------------------------------------------------------------
(* The prober.                                                             *)

Pending == {f \in listed : media[f] = "unknown"}

InventoryPending ==
  /\ probing = {} /\ hand = 0 /\ entries = NoEntries /\ ~cancelled
  /\ \E batch \in SUBSET Pending :
       /\ batch # {}
       /\ batch = Pending \/ Cardinality(batch) = ProbeBatch
       /\ Cardinality(batch) <= ProbeBatch
       /\ probing' = batch
  /\ UNCHANGED <<library, unreadable, moves, walkVars, listed, generation, media, entries, hand,
                 looked, killed, cancelled>>

(* Mutant: the context is not looked at between two files.                 *)
ProbeOn(f) ==
  /\ hand = 0 /\ hand' = f
  /\ probing' = probing \ {f}
  /\ UNCHANGED <<library, unreadable, moves, walkVars, listed, generation, media, entries, looked,
                 killed, cancelled>>

ProbeNext(f) ==
  /\ hand = 0 /\ ~cancelled /\ hand' = f
  /\ probing' = probing \ {f}
  /\ UNCHANGED <<library, unreadable, moves, walkVars, listed, generation, media, entries, looked,
                 killed, cancelled>>

(* A file that no root holds, or that ffprobe cannot make out, has a nil   *)
(* entry, as has one whose ffprobe the shutdown kills.                     *)
ProbeVideo ==
  /\ hand > 0
  /\ \/ /\ hand \in library \ unreadable
        /\ entries' = [entries EXCEPT ![hand] = "described"]
        /\ looked' = looked \ {hand}
     \/ /\ cancelled /\ entries' = [entries EXCEPT ![hand] = "blank"]
        /\ UNCHANGED looked
     \/ /\ entries' = [entries EXCEPT ![hand] = "blank"]
        /\ looked' = looked \cup {hand}
  /\ hand' = 0
  /\ UNCHANGED <<library, unreadable, moves, walkVars, listed, generation, media, probing, killed, cancelled>>

StopProbing ==
  /\ cancelled /\ probing # {} /\ hand = 0
  /\ probing' = {}
  /\ UNCHANGED <<library, unreadable, moves, walkVars, listed, generation, media, entries, hand,
                 looked, killed, cancelled>>

(* The report; when it fails the site may have taken it all the same.      *)
InventoryReportMedia ==
  /\ probing = {} /\ hand = 0 /\ entries # NoEntries
  /\ \/ UNCHANGED media
     \/ media' = [f \in Files |-> IF f \in listed /\ entries[f] # "none" THEN entries[f]
                                                                      ELSE media[f]]
  /\ entries' = NoEntries
  /\ UNCHANGED <<library, unreadable, moves, walkVars, listed, generation, probing, hand, looked,
                 killed, cancelled>>

-----------------------------------------------------------------------------
(* The operator's disk.                                                    *)
DiskChanges ==
  /\ moves < MaxMoves /\ moves' = moves + 1
  /\ \E f \in Files :
       \/ library' = library \cup {f} /\ f \notin library /\ UNCHANGED unreadable
       \/ library' = library \ {f} /\ f \in library /\ unreadable' = unreadable \ {f}
       \/ /\ f \in library /\ UNCHANGED library
          /\ unreadable' = IF f \in unreadable THEN unreadable \ {f} ELSE unreadable \cup {f}
  /\ UNCHANGED <<walkVars, listed, generation, media, probeVars, killed, cancelled>>

Shutdown ==
  /\ ~cancelled /\ cancelled' = TRUE
  /\ killed' = IF hand = 0 THEN killed ELSE killed \cup {hand}
  /\ UNCHANGED <<library, unreadable, moves, walkVars, listed, generation, media, probeVars>>

RestartInventory ==
  /\ Reset
  /\ probing' = {} /\ entries' = NoEntries /\ hand' = 0 /\ cancelled' = FALSE
  /\ UNCHANGED <<library, unreadable, moves, listed, media, looked, killed>>

InventoryNext ==
  \/ StartWalk \/ Visit \/ WalkEnds \/ OfferInventory \/ Abandon
  \/ InventoryPending \/ \E f \in probing : ProbeNext(f)
  \/ ProbeVideo \/ StopProbing \/ InventoryReportMedia
  \/ DiskChanges \/ Shutdown \/ RestartInventory

InventorySpec == InventoryInit /\ [][InventoryNext]_inventoryVars

-----------------------------------------------------------------------------
(* What a walk has not reached is not dropped: the site loses a file only  *)
(* when the walk that closes the generation came to its place, and found   *)
(* nothing there or an error.                                              *)
UnvisitedKept == [][\A f \in listed \ listed' : f \in passed \cup barred]_inventoryVars

(* The site takes a file for undescribable only when the prober has looked *)
(* at it in vain, or was at it when a shutdown came.                       *)
BlankWasLooked ==
  \A f \in Files : media[f] = "blank" => f \in looked \cup killed

(* Nothing is dropped on the basis of not having looked.                   *)
UnreachedKept == [][\A f \in listed \ listed' : f \in passed]_inventoryVars
=============================================================================
