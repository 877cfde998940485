--------------------------- MODULE ServicesProofs ---------------------------
(* Theorems about the services beside the tasks: the collection page, the  *)
(* group synchronisation, the inventory, the offer synchronisation and the *)
(* disk reservations, for any library, catalog, feed, disk and limits.     *)
EXTENDS CollectionScanner, GroupSync, Inventory, OfferSync, DiskReserve,
        FiniteSetTheorems, SequenceTheorems, TLAPS

-----------------------------------------------------------------------------
(* The inventory.                                                          *)

Reached == found \cup generation \cup passed \cup barred

(* Nothing the walk has come by is forgotten, as long as it was not cut.   *)
WalkInv ==
  /\ walkAt = "idle" => place = 1 /\ Reached = {}
  /\ walkAt = "walk" /\ ~truncated => \A f \in Files : f < place => f \in Reached
  /\ walkAt = "walk" => generation = {}
  /\ walkAt = "ship" /\ ~truncated => Files \subseteq Reached

(* A file in the prober's hands is one the site has no word about.         *)
ProbeInv ==
  /\ \A f \in Files : f \in probing \/ f = hand => media[f] # "blank"
  /\ \A f \in Files : entries[f] = "blank" => f \in looked \cup killed
  /\ cancelled /\ hand > 0 => hand \in killed

InventoryInv == InventoryTypeOK /\ WalkInv /\ ProbeInv /\ BlankWasLooked

InventoryCounts == moves \in 0 .. MaxMoves /\ place \in 1 .. Last + 1 /\ hand \in 0 .. Last

LEMMA Counted == InventoryTypeOK => InventoryCounts
BY DEF InventoryTypeOK, InventoryCounts

LEMMA InventoryStarts == InventoryInit => InventoryInv
<1> SUFFICES ASSUME InventoryInit PROVE InventoryInv
  OBVIOUS
<1>1. InventoryTypeOK
  <2>1. InventoryCounts
    BY InventoryAssumption DEF InventoryInit, InventoryCounts
  <2>2. library \subseteq Files /\ unreadable \subseteq Files
    BY DEF InventoryInit
  <2> QED
    BY <2>1, <2>2 DEF InventoryInit, InventoryCounts, InventoryTypeOK, NoEntries
<1>2. WalkInv
  BY DEF InventoryInit, WalkInv, Reached
<1>3. ProbeInv /\ BlankWasLooked
  BY DEF InventoryInit, ProbeInv, BlankWasLooked, NoEntries
<1> QED
  BY <1>1, <1>2, <1>3 DEF InventoryInv

LEMMA HandInFiles ==
  ASSUME InventoryTypeOK, hand # 0
  PROVE  hand \in Files
BY InventoryAssumption, Counted DEF InventoryCounts, Files

LEMMA NoneBefore == 0 \notin Files /\ \A f \in Files : ~(f < 1)
BY InventoryAssumption DEF Files

LEMMA ResetCounts ==
  ASSUME InventoryTypeOK, Reset, UNCHANGED <<moves, hand>>
  PROVE  InventoryCounts'
BY InventoryAssumption, Counted DEF Reset, InventoryCounts

LEMMA ResetWalks == Reset => WalkInv'
BY DEF Reset, WalkInv, Reached

LEMMA WalkSteps ==
  ASSUME InventoryInv, StartWalk \/ Visit \/ WalkEnds \/ Abandon
  PROVE  InventoryInv'
<1> USE DEF probeVars
<1>1. CASE StartWalk
  <2>1. InventoryTypeOK'
    BY <1>1 DEF StartWalk, InventoryInv, InventoryTypeOK
  <2>2. Reached' = Reached
    BY <1>1 DEF StartWalk, Reached
  <2>3. WalkInv'
    BY <1>1, <2>2, NoneBefore DEF StartWalk, Reached, InventoryInv, WalkInv
  <2>4. ProbeInv' /\ BlankWasLooked'
    BY <1>1 DEF StartWalk, InventoryInv, ProbeInv, BlankWasLooked
  <2> QED
    BY <2>1, <2>3, <2>4 DEF InventoryInv
<1>2. CASE Visit
  <2>1. MaxReached \in BOOLEAN
    BY DEF MaxReached
  <2>2. InventoryTypeOK'
    <3>1. place \in Files /\ place + 1 \in 1 .. Last + 1
      BY InventoryAssumption, <1>2, Counted DEF Visit, Files, InventoryInv, InventoryCounts
    <3>2. found' \subseteq Files /\ barred' \subseteq Files /\ passed' \subseteq Files
      BY <1>2, <3>1 DEF Visit, InventoryInv, InventoryTypeOK
    <3>3. truncated' \in BOOLEAN
      BY <1>2, <2>1 DEF Visit
    <3> QED
      BY <1>2, <3>1, <3>2, <3>3 DEF Visit, InventoryInv, InventoryTypeOK
  <2>3. WalkInv'
    <3>1. CASE truncated'
      BY <1>2, <3>1 DEF Visit, InventoryInv, InventoryTypeOK, WalkInv
    <3>2. CASE ~truncated'
      <4>1. place \in Reached'
        BY <1>2, <3>2 DEF Visit, Reached, InventoryInv, InventoryTypeOK
      <4>2. Reached \subseteq Reached'
        BY <1>2 DEF Visit, Reached
      <4>3. \A f \in Files : f < place' => f < place \/ f = place
        BY <1>2 DEF Visit, Files, InventoryInv, InventoryTypeOK
      <4> QED
        BY <1>2, <4>1, <4>2, <4>3 DEF Visit, InventoryInv, WalkInv
    <3> QED
      BY <3>1, <3>2
  <2>4. ProbeInv' /\ BlankWasLooked'
    BY <1>2 DEF Visit, InventoryInv, ProbeInv, BlankWasLooked
  <2> QED
    BY <2>2, <2>3, <2>4 DEF InventoryInv
<1>3. CASE WalkEnds
  <2>1. ProbeInv' /\ BlankWasLooked'
    BY <1>3 DEF WalkEnds, InventoryInv, ProbeInv, BlankWasLooked
  <2>2. CASE found = {} /\ Reset
    <3>1. InventoryTypeOK'
      BY <1>3, <2>2, ResetCounts DEF WalkEnds, Reset, InventoryInv, InventoryCounts, InventoryTypeOK
    <3>2. WalkInv'
      BY <2>2, ResetWalks
    <3> QED
      BY <2>1, <3>1, <3>2 DEF InventoryInv
  <2>3. CASE found # {} /\ walkAt' = "ship" /\ place' = 1
              /\ UNCHANGED <<found, truncated, passed, barred, generation>>
    <3>1. ~truncated => Files \subseteq Reached
      <4>1. ~truncated => \A f \in Files : f < place
        BY InventoryAssumption, <1>3, Counted DEF WalkEnds, Files, InventoryInv, InventoryCounts
      <4> QED
        BY <1>3, <4>1 DEF WalkEnds, InventoryInv, WalkInv
    <3>2. Reached' = Reached
      BY <2>3 DEF Reached
    <3>3. WalkInv'
      BY <2>3, <3>1, <3>2 DEF WalkInv
    <3>4. 1 \in 1 .. Last + 1
      BY InventoryAssumption
    <3>5. InventoryTypeOK'
      BY <1>3, <2>3, <3>4 DEF WalkEnds, InventoryInv, InventoryTypeOK
    <3> QED
      BY <2>1, <3>3, <3>5 DEF InventoryInv
  <2> QED
    BY <1>3, <2>2, <2>3 DEF WalkEnds
<1>4. CASE Abandon
  <2>1. InventoryTypeOK'
    BY <1>4, ResetCounts DEF Abandon, Reset, InventoryInv, InventoryCounts, InventoryTypeOK
  <2>2. ProbeInv' /\ BlankWasLooked'
    BY <1>4 DEF Abandon, InventoryInv, ProbeInv, BlankWasLooked
  <2> QED
    BY <1>4, <2>1, <2>2, ResetWalks DEF Abandon, InventoryInv
<1> QED
  BY <1>1, <1>2, <1>3, <1>4

(* The site drops a file only when the walk has come by it.                *)
LEMMA BatchDrops ==
  ASSUME InventoryInv, OfferInventory
  PROVE  \A f \in listed \ listed' : f \in passed \cup barred
<1>1. PICK f \in found : SiteTakes(f, Final(f)) /\ walkAt = "ship"
  BY DEF OfferInventory
<1>2. CASE Final(f)
  <2>1. listed' = generation \cup {f} /\ found = {f} /\ ~truncated
    BY <1>1, <1>2 DEF SiteTakes, Final
  <2>2. Files \subseteq Reached /\ listed \subseteq Files
    BY <1>1, <2>1 DEF InventoryInv, InventoryTypeOK, WalkInv
  <2> QED
    BY <2>1, <2>2 DEF Reached
<1>3. CASE ~Final(f)
  BY <1>1, <1>3 DEF SiteTakes
<1> QED
  BY <1>2, <1>3

LEMMA BatchStep ==
  ASSUME InventoryInv, OfferInventory
  PROVE  InventoryInv'
<1> USE DEF probeVars
<1>1. PICK f \in found :
        /\ SiteTakes(f, Final(f))
        /\ \/ found = {f} /\ Reset
           \/ /\ found # {f}
              /\ found' = found \ {f} /\ generation' = generation \cup {f}
              /\ UNCHANGED <<walkAt, place, truncated, passed, barred>>
           \/ Reset
  BY DEF OfferInventory
<1>2. f \in Files /\ found \subseteq Files /\ generation \subseteq Files
  BY <1>1 DEF InventoryInv, InventoryTypeOK
<1>3. listed' \subseteq Files /\ media' \in [Files -> {"unknown", "described", "blank"}]
      /\ \A g \in Files : media'[g] = "blank" => media[g] = "blank"
  <2>1. listed' \subseteq Files
    BY <1>1, <1>2 DEF SiteTakes, InventoryInv, InventoryTypeOK
  <2> QED
    BY <1>1, <2>1 DEF SiteTakes, InventoryInv, InventoryTypeOK
<1>4. ProbeInv' /\ BlankWasLooked'
  BY <1>3 DEF OfferInventory, InventoryInv, ProbeInv, BlankWasLooked
<1>5. CASE Reset
  <2>1. InventoryTypeOK'
    BY <1>3, <1>5, ResetCounts DEF OfferInventory, Reset, InventoryInv, InventoryCounts, InventoryTypeOK
  <2> QED
    BY <1>4, <1>5, <2>1, ResetWalks DEF InventoryInv
<1>6. CASE /\ found' = found \ {f} /\ generation' = generation \cup {f}
           /\ UNCHANGED <<walkAt, place, truncated, passed, barred>>
  <2>1. Reached' = Reached
    BY <1>6 DEF Reached
  <2>2. WalkInv'
    BY <1>6, <2>1 DEF OfferInventory, InventoryInv, WalkInv
  <2>3. found' \subseteq Files /\ generation' \subseteq Files
    BY <1>2, <1>6
  <2>4. InventoryTypeOK'
    BY <1>3, <1>6, <2>3 DEF OfferInventory, InventoryInv, InventoryTypeOK
  <2> QED
    BY <1>4, <2>2, <2>4 DEF InventoryInv
<1> QED
  BY <1>1, <1>5, <1>6

LEMMA ProbeSteps ==
  ASSUME InventoryInv,
         InventoryPending \/ (\E f \in probing : ProbeNext(f)) \/ ProbeVideo \/ StopProbing
           \/ InventoryReportMedia
  PROVE  InventoryInv'
<1> USE DEF NoEntries
<1>1. CASE InventoryPending
  <2>1. PICK batch \in SUBSET Pending : probing' = batch
    BY <1>1 DEF InventoryPending
  <2>2. UNCHANGED <<walkVars, generation>>
    BY <1>1 DEF InventoryPending
  <2>3. WalkInv'
    BY <2>2 DEF walkVars, WalkInv, Reached, InventoryInv
  <2> QED
    BY <1>1, <2>1, <2>3
    DEF InventoryPending, Pending, walkVars, InventoryInv, InventoryTypeOK, ProbeInv, BlankWasLooked
<1>2. ASSUME NEW f \in probing, ProbeNext(f) PROVE InventoryInv'
  <2>1. WalkInv'
    BY <1>2 DEF ProbeNext, walkVars, WalkInv, Reached, InventoryInv
  <2>2. f \in Files /\ f \in 0 .. Last
    BY <1>2 DEF InventoryInv, InventoryTypeOK, Files
  <2>3. InventoryTypeOK'
    BY <1>2, <2>2 DEF ProbeNext, walkVars, InventoryInv, InventoryTypeOK
  <2>4. ProbeInv' /\ BlankWasLooked'
    BY <1>2, <2>2 DEF ProbeNext, InventoryInv, ProbeInv, BlankWasLooked
  <2> QED
    BY <2>1, <2>3, <2>4 DEF InventoryInv
<1>3. CASE ProbeVideo
  <2>1. WalkInv'
    BY <1>3 DEF ProbeVideo, walkVars, WalkInv, Reached, InventoryInv
  <2>2. hand \in Files
    BY <1>3, HandInFiles DEF ProbeVideo, InventoryInv
  <2>3. media[hand] # "blank"
    BY <2>2 DEF InventoryInv, ProbeInv
  <2>4. InventoryTypeOK'
    <3>1. 0 \in 0 .. Last
      BY InventoryAssumption
    <3>2. looked' \subseteq Files
      BY <1>3, <2>2 DEF ProbeVideo, InventoryInv, InventoryTypeOK
    <3>3. entries' \in [Files -> {"none", "described", "blank"}]
      BY <1>3 DEF ProbeVideo, InventoryInv, InventoryTypeOK
    <3> QED
      BY <1>3, <3>1, <3>2, <3>3 DEF ProbeVideo, walkVars, InventoryInv, InventoryTypeOK
  <2>5. ProbeInv'
    <3>1. \A f \in Files : f \in probing' \/ f = hand' => f \in probing
      BY <1>3, NoneBefore DEF ProbeVideo
    <3>2. \A f \in Files \ {hand} : entries'[f] = entries[f] /\ (f \in looked' <=> f \in looked)
      BY <1>3 DEF ProbeVideo, InventoryInv, InventoryTypeOK
    <3>3. entries'[hand] = "blank" => hand \in looked' \cup killed'
      BY <1>3, <2>2 DEF ProbeVideo, InventoryInv, InventoryTypeOK, ProbeInv
    <3>4. killed' = killed /\ media' = media /\ hand' = 0
      BY <1>3 DEF ProbeVideo
    <3> QED
      BY <3>1, <3>2, <3>3, <3>4 DEF InventoryInv, ProbeInv
  <2>6. BlankWasLooked'
    BY <1>3, <2>2, <2>3 DEF ProbeVideo, InventoryInv, BlankWasLooked
  <2> QED
    BY <2>1, <2>4, <2>5, <2>6 DEF InventoryInv
<1>4. CASE StopProbing
  <2>1. WalkInv'
    BY <1>4 DEF StopProbing, walkVars, WalkInv, Reached, InventoryInv
  <2> QED
    BY <1>4, <2>1 DEF StopProbing, walkVars, InventoryInv, InventoryTypeOK, ProbeInv, BlankWasLooked
<1>5. CASE InventoryReportMedia
  <2>1. WalkInv'
    BY <1>5 DEF InventoryReportMedia, walkVars, WalkInv, Reached, InventoryInv
  <2>2. /\ media' \in [Files -> {"unknown", "described", "blank"}]
        /\ \A f \in Files : media'[f] = "blank" => media[f] = "blank" \/ entries[f] = "blank"
    BY <1>5 DEF InventoryReportMedia, InventoryInv, InventoryTypeOK
  <2>3. BlankWasLooked'
    BY <1>5, <2>2 DEF InventoryReportMedia, InventoryInv, ProbeInv, BlankWasLooked
  <2>4. ProbeInv'
    BY <1>5, NoneBefore DEF InventoryReportMedia, InventoryInv, ProbeInv
  <2>5. InventoryTypeOK'
    BY <1>5, <2>2 DEF InventoryReportMedia, walkVars, InventoryInv, InventoryTypeOK
  <2> QED
    BY <2>1, <2>3, <2>4, <2>5 DEF InventoryInv
<1> QED
  BY <1>1, <1>2, <1>3, <1>4, <1>5

LEMMA MovesOn ==
  ASSUME InventoryInv, DiskChanges
  PROVE  moves' \in 0 .. MaxMoves
BY InventoryAssumption, Counted DEF DiskChanges, InventoryInv, InventoryCounts

LEMMA InventoryEnvironment ==
  ASSUME InventoryInv, DiskChanges \/ Shutdown \/ RestartInventory
  PROVE  InventoryInv'
<1> USE DEF walkVars, probeVars
<1>1. CASE DiskChanges
  BY <1>1, MovesOn DEF DiskChanges, InventoryInv, InventoryTypeOK, WalkInv, Reached, ProbeInv, BlankWasLooked
<1>2. CASE Shutdown
  BY <1>2, HandInFiles DEF Shutdown, InventoryInv, InventoryTypeOK, WalkInv, Reached, ProbeInv, BlankWasLooked
<1>3. CASE RestartInventory
  <2>1. InventoryTypeOK'
    <3>1. InventoryCounts'
      BY InventoryAssumption, <1>3, Counted DEF RestartInventory, Reset, InventoryInv, InventoryCounts
    <3> QED
      BY <1>3, <3>1
      DEF RestartInventory, Reset, NoEntries, InventoryInv, InventoryCounts, InventoryTypeOK
  <2>2. ProbeInv' /\ BlankWasLooked'
    BY <1>3 DEF RestartInventory, NoEntries, Files, InventoryInv, ProbeInv, BlankWasLooked
  <2> QED
    BY <1>3, <2>1, <2>2, ResetWalks DEF RestartInventory, InventoryInv
<1> QED
  BY <1>1, <1>2, <1>3

LEMMA InventoryStep == InventoryInv /\ [InventoryNext]_inventoryVars => InventoryInv'
<1> SUFFICES ASSUME InventoryInv, [InventoryNext]_inventoryVars PROVE InventoryInv'
  OBVIOUS
<1>1. CASE InventoryNext
  BY <1>1, WalkSteps, BatchStep, ProbeSteps, InventoryEnvironment DEF InventoryNext
<1>2. CASE UNCHANGED inventoryVars
  BY <1>2 DEF inventoryVars, walkVars, probeVars, InventoryInv, InventoryTypeOK, WalkInv, Reached,
              ProbeInv, BlankWasLooked
<1> QED
  BY <1>1, <1>2

(* Every variable of the inventory keeps its type.                         *)
THEOREM InventoryTypes == InventorySpec => []InventoryTypeOK
<1>1. InventoryInv => InventoryTypeOK
  BY DEF InventoryInv
<1> QED
  BY InventoryStarts, InventoryStep, <1>1, PTL DEF InventorySpec

(* The site takes a file for undescribable only when the prober has looked *)
(* at it in vain, or was at it when a shutdown came.                       *)
THEOREM BlanksLookedAt == InventorySpec => []BlankWasLooked
<1>1. InventoryInv => BlankWasLooked
  BY DEF InventoryInv
<1> QED
  BY InventoryStarts, InventoryStep, <1>1, PTL DEF InventorySpec

(* What a walk has not reached is not dropped, for any library, limit and  *)
(* size of the batches of the prober.                                      *)
THEOREM UnvisitedStay == InventorySpec => UnvisitedKept
<1>1. InventoryInv /\ [InventoryNext]_inventoryVars =>
        [\A f \in listed \ listed' : f \in passed \cup barred]_inventoryVars
  <2> SUFFICES ASSUME InventoryInv, InventoryNext
               PROVE  \A f \in listed \ listed' : f \in passed \cup barred
    OBVIOUS
  <2>1. CASE OfferInventory
    BY <2>1, BatchDrops
  <2>2. CASE ~OfferInventory
    <3>1. listed' = listed
      BY <2>2 DEF InventoryNext, StartWalk, Visit, WalkEnds, Abandon, InventoryPending, ProbeNext,
        ProbeVideo, StopProbing, InventoryReportMedia, DiskChanges, Shutdown, RestartInventory
    <3> QED
      BY <3>1
  <2> QED
    BY <2>1, <2>2
<1> QED
  BY InventoryStarts, InventoryStep, <1>1, PTL DEF InventorySpec, UnvisitedKept

(* While every file can be read, a walk meets no error.                    *)
LEMMA NoneBarred ==
  ASSUME unreadable = {}, barred = {}, [InventoryNext]_inventoryVars
  PROVE  barred' = {}
<1>1. CASE Visit
  BY <1>1 DEF Visit
<1>2. CASE ~Visit
  BY <1>2 DEF InventoryNext, StartWalk, WalkEnds, OfferInventory, Abandon, Reset, InventoryPending,
    ProbeNext, ProbeVideo, StopProbing, InventoryReportMedia, DiskChanges, Shutdown,
    RestartInventory, inventoryVars, walkVars
<1> QED
  BY <1>1, <1>2

(* Where every file can be read, nothing is dropped on the basis of not    *)
(* having looked: the files that cannot be are the only ones that break    *)
(* what the site is told, not the limit, a stop or a file that moves.      *)
THEOREM ReadableKept == InventorySpec /\ [](unreadable = {}) => UnreachedKept
<1>1. InventoryInit => barred = {}
  BY DEF InventoryInit
<1>2. unreadable = {} /\ barred = {} /\ [InventoryNext]_inventoryVars => (barred = {})'
  BY NoneBarred
<1>3. InventorySpec /\ [](unreadable = {}) => [](barred = {})
  BY <1>1, <1>2, PTL DEF InventorySpec
<1>4. barred = {} /\ [\A f \in listed \ listed' : f \in passed \cup barred]_inventoryVars =>
        [\A f \in listed \ listed' : f \in passed]_inventoryVars
  OBVIOUS
<1> QED
  BY <1>3, <1>4, UnvisitedStay, PTL DEF UnvisitedKept, UnreachedKept

-----------------------------------------------------------------------------
(* The offer synchronisation.                                              *)

Routes == SUBSET {"local", "remote"}
Kinds == {"none", "have", "can_get"}

(* What is noted and not registered has its route, and work is of the kind *)
(* its source registers.                                                   *)
NotedInv ==
  /\ offering \in {"idle", "scrape"} => entry = NoEntry
  /\ offering = "idle" => work = {}
  /\ offering = "folder" => work \subseteq Buckets
  /\ offering \in {"scrape", "tracker"} => work \subseteq Items
  /\ offering = "folder" /\ entry # NoEntry /\ entry \notin unnoted => "local" \in routes[entry]
  /\ offering = "tracker" /\ entry # NoEntry /\ entry \notin unnoted =>
       routes[entry] # {} /\ (entry \in localIndex => "local" \in routes[entry])

(* What the tracker has before the cursor, and before a walk, was fetched  *)
(* in this pass, unless it is new or had slipped.                          *)
Met == scraped \cup landed \cup slipped

FetchedInv == offering = "scrape" => \A k \in 1 .. Len(feed) : k <= offset => feed[k] \in Met
CursorInv == \A k \in 1 .. Len(feed) : k <= cursor => feed[k] \in Met

OffersInv == OfferSyncTypeOK /\ NotedInv /\ FetchedInv /\ CursorInv /\ OffersRouted

OfferPositions == cursor \in Nat /\ start \in Nat /\ offset \in Nat /\ Len(feed) \in Nat

LEMMA Positioned == OfferSyncTypeOK => OfferPositions
BY LenProperties DEF OfferSyncTypeOK, OfferPositions

LEMMA NoItems == 0 \in Nat /\ \A n : \A k \in 1 .. n : ~(k <= 0)
OBVIOUS

LEMMA OnePage == \A m, n \in Nat : m < n => m + 1 \in 1 .. n /\ m + 1 \in Nat
OBVIOUS

(* A feed with an item more at its head, or one less.                      *)
LEMMA AtHead ==
  ASSUME NEW S, NEW s \in Seq(S), NEW i \in S
  PROVE  /\ <<i>> \o s \in Seq(S)
         /\ Len(<<i>> \o s) = Len(s) + 1
         /\ (<<i>> \o s)[1] = i
         /\ \A k \in 1 .. Len(s) : (<<i>> \o s)[k + 1] = s[k]
<1>1. <<i>> \in Seq(S) /\ Len(<<i>>) = 1 /\ <<i>>[1] = i
  OBVIOUS
<1>2. Len(s) \in Nat
  BY LenProperties
<1>3. /\ <<i>> \o s \in Seq(S)
      /\ Len(<<i>> \o s) = 1 + Len(s)
      /\ \A k \in 1 .. 1 + Len(s) :
           (<<i>> \o s)[k] = IF k <= 1 THEN <<i>>[k] ELSE s[k - 1]
  BY <1>1, ConcatProperties
<1> HIDE <1>1
<1>4. 1 \in 1 .. 1 + Len(s) /\ \A k \in 1 .. Len(s) : k + 1 \in 1 .. 1 + Len(s) /\ ~(k + 1 <= 1) /\ (k + 1) - 1 = k
  BY <1>2
<1> QED
  BY <1>1, <1>2, <1>3, <1>4

Shorter(t, s, p) ==
  /\ Len(t) = Len(s) - 1
  /\ \A k \in 1 .. Len(t) : (k < p => t[k] = s[k]) /\ (~(k < p) => t[k] = s[k + 1])

LEMMA Without ==
  ASSUME NEW S, NEW s \in Seq(S), NEW p \in 1 .. Len(s), NEW t,
         t = SubSeq(s, 1, p - 1) \o SubSeq(s, p + 1, Len(s))
  PROVE  t \in Seq(S) /\ Shorter(t, s, p)
<1> DEFINE before == SubSeq(s, 1, p - 1)
           after == SubSeq(s, p + 1, Len(s))
<1>1. Len(s) \in Nat /\ p \in Nat /\ 1 <= p /\ p <= Len(s) /\ \A k \in 1 .. Len(s) : s[k] \in S
  BY LenProperties, ElementOfSeq
<1>2. /\ before \in Seq(S)
      /\ Len(before) = p - 1
      /\ \A k \in 1 .. p - 1 : before[k] = s[k]
  <2>1. p - 1 \in Int /\ \A k \in 1 .. p - 1 : s[k] \in S
    BY <1>1
  <2>2. /\ before \in Seq(S)
        /\ Len(before) = IF 1 <= p - 1 THEN (p - 1) - 1 + 1 ELSE 0
        /\ \A k \in 1 .. (p - 1) - 1 + 1 : before[k] = s[1 + k - 1]
    BY <2>1, SubSeqProperties
  <2> HIDE DEF before
  <2>3. (p - 1) - 1 + 1 = p - 1 /\ (~(1 <= p - 1) => p - 1 = 0) /\ \A k \in Nat : 1 + k - 1 = k
    BY <1>1
  <2> QED
    BY <1>1, <2>2, <2>3
<1>3. /\ after \in Seq(S)
      /\ Len(after) = Len(s) - p
      /\ \A k \in 1 .. Len(s) - p : after[k] = s[p + k]
  <2>1. p + 1 \in Int /\ Len(s) \in Int /\ \A k \in p + 1 .. Len(s) : s[k] \in S
    BY <1>1
  <2>2. /\ after \in Seq(S)
        /\ Len(after) = IF p + 1 <= Len(s) THEN Len(s) - (p + 1) + 1 ELSE 0
        /\ \A k \in 1 .. Len(s) - (p + 1) + 1 : after[k] = s[(p + 1) + k - 1]
    BY <2>1, SubSeqProperties
  <2> HIDE DEF after
  <2>3. /\ Len(s) - (p + 1) + 1 = Len(s) - p
        /\ (~(p + 1 <= Len(s)) => Len(s) - p = 0)
    BY <1>1
  <2>4. after \in Seq(S) /\ Len(after) = Len(s) - p
    BY <2>2, <2>3
  <2>5. ASSUME NEW k \in 1 .. Len(s) - p PROVE after[k] = s[p + k]
    <3>1. (p + 1) + k - 1 = p + k
      BY <1>1
    <3>2. after[k] = s[(p + 1) + k - 1]
      BY <2>2, <2>3
    <3> QED
      BY <3>1, <3>2
  <2> QED
    BY <2>4, <2>5
<1>4. t = before \o after
  OBVIOUS
<1> HIDE DEF before, after
<1>5. /\ t \in Seq(S)
      /\ Len(t) = Len(before) + Len(after)
      /\ \A k \in 1 .. Len(before) + Len(after) :
           t[k] = IF k <= Len(before) THEN before[k] ELSE after[k - Len(before)]
  <2>1. before \in Seq(S) /\ after \in Seq(S)
    BY <1>2, <1>3
  <2>2. /\ before \o after \in Seq(S)
        /\ Len(before \o after) = Len(before) + Len(after)
        /\ \A k \in 1 .. Len(before) + Len(after) :
             (before \o after)[k] = IF k <= Len(before) THEN before[k] ELSE after[k - Len(before)]
    BY <2>1, ConcatProperties
  <2> QED
    BY <1>4, <2>2
<1>6. Len(t) = Len(s) - 1
  <2>1. Len(t) = (p - 1) + (Len(s) - p)
    BY <1>2, <1>3, <1>5
  <2>2. Len(s) \in Nat /\ p \in Nat
    BY <1>1
  <2>3. \A m, n \in Nat : (n - 1) + (m - n) = m - 1
    OBVIOUS
  <2>4. (p - 1) + (Len(s) - p) = Len(s) - 1
    BY <2>2, <2>3
  <2> QED
    BY <2>1, <2>4
<1>7. ASSUME NEW k \in 1 .. Len(t) PROVE (k < p => t[k] = s[k]) /\ (~(k < p) => t[k] = s[k + 1])
  <2>1. k \in 1 .. Len(before) + Len(after) /\ k \in Nat /\ k <= Len(s) - 1 /\ 1 <= k
    <3>1. k \in 1 .. Len(before) + Len(after)
      BY <1>5
    <3>2. k \in 1 .. Len(s) - 1
      BY <1>6
    <3> QED
      BY <1>1, <3>1, <3>2
  <2>2. CASE k < p
    <3>1. k <= Len(before) /\ k \in 1 .. p - 1
      BY <1>1, <1>2, <2>1, <2>2
    <3> QED
      BY <1>2, <1>5, <2>1, <2>2, <3>1
  <2>3. CASE ~(k < p)
    <3>1. ~(k <= Len(before)) /\ k - Len(before) = k - p + 1 /\ k - p + 1 \in 1 .. Len(s) - p
      BY <1>1, <1>2, <2>1, <2>3
    <3>2. t[k] = after[k - p + 1]
      BY <1>5, <2>1, <3>1
    <3>3. after[k - p + 1] = s[p + (k - p + 1)]
      BY <1>3, <3>1
    <3>4. p + (k - p + 1) = k + 1
      BY <1>1, <2>1
    <3> QED
      BY <2>3, <3>2, <3>3, <3>4
  <2> QED
    BY <2>2, <2>3
<1> QED
  BY <1>5, <1>6, <1>7 DEF Shorter

(* A release that lands, or drops, leaves what is before an offset met.    *)
LEMMA LandMeets ==
  ASSUME OfferSyncTypeOK, Land, NEW n \in Nat,
         \A k \in 1 .. Len(feed) : k <= n => feed[k] \in Met
  PROVE  \A k \in 1 .. Len(feed') : k <= n => feed'[k] \in Met'
<1>1. PICK i \in Items : feed' = <<i>> \o feed /\ landed' = landed \cup {i}
  BY DEF Land
<1>2. feed \in Seq(Items) /\ Len(feed) \in Nat
  BY LenProperties DEF OfferSyncTypeOK
<1>3. /\ Len(feed') = Len(feed) + 1
      /\ feed'[1] = i
      /\ \A k \in 1 .. Len(feed) : feed'[k + 1] = feed[k]
  BY <1>1, <1>2, AtHead
<1>4. Met \subseteq Met' /\ i \in Met'
  BY <1>1 DEF Land, Met
<1> SUFFICES ASSUME NEW k \in 1 .. Len(feed'), k <= n PROVE feed'[k] \in Met'
  OBVIOUS
<1>5. CASE k = 1
  BY <1>3, <1>4, <1>5
<1>6. CASE k # 1
  <2>1. k - 1 \in 1 .. Len(feed) /\ k - 1 <= n /\ (k - 1) + 1 = k
    BY <1>2, <1>3, <1>6
  <2>2. feed'[k] = feed[k - 1]
    BY <1>3, <2>1
  <2> QED
    BY <1>4, <2>1, <2>2
<1> QED
  BY <1>5, <1>6

LEMMA DropMeets ==
  ASSUME OfferSyncTypeOK, NEW p \in 1 .. Len(feed), NEW n \in Nat,
         feed' = SubSeq(feed, 1, p - 1) \o SubSeq(feed, p + 1, Len(feed)),
         Met \cup Slips(p, n) \subseteq Met',
         \A k \in 1 .. Len(feed) : k <= n => feed[k] \in Met
  PROVE  \A k \in 1 .. Len(feed') : k <= n => feed'[k] \in Met'
<1>1. feed \in Seq(Items) /\ Len(feed) \in Nat /\ p \in Nat
  BY LenProperties DEF OfferSyncTypeOK
<1>2. /\ Len(feed') = Len(feed) - 1
      /\ \A k \in 1 .. Len(feed') :
           (k < p => feed'[k] = feed[k]) /\ (~(k < p) => feed'[k] = feed[k + 1])
  <2>1. feed' = SubSeq(feed, 1, p - 1) \o SubSeq(feed, p + 1, Len(feed))
    OBVIOUS
  <2>2. Shorter(feed', feed, p)
    BY <1>1, <2>1, Without
  <2> QED
    BY <2>2 DEF Shorter
<1> SUFFICES ASSUME NEW k \in 1 .. Len(feed'), k <= n PROVE feed'[k] \in Met'
  OBVIOUS
<1>3. k \in Nat /\ k \in 1 .. Len(feed) /\ k + 1 \in 1 .. Len(feed) /\ (k < n => k + 1 <= n)
  <2>1. k \in 1 .. Len(feed) - 1
    BY <1>2
  <2> QED
    BY <1>1, <2>1
<1>4. CASE k < p
  BY <1>2, <1>3, <1>4
<1>5. CASE ~(k < p) /\ k < n
  BY <1>2, <1>3, <1>5
<1>6. CASE ~(k < p) /\ ~(k < n)
  <2>1. k = n /\ p <= n /\ n < Len(feed)
    BY <1>1, <1>3, <1>6
  <2>2. Slips(p, n) = {feed[n + 1]}
    BY <2>1 DEF Slips
  <2> QED
    BY <1>2, <1>6, <2>1, <2>2
<1> QED
  BY <1>4, <1>5, <1>6

LEMMA OffersStart == OfferSyncInit => OffersInv
<1> SUFFICES ASSUME OfferSyncInit PROVE OffersInv
  OBVIOUS
<1>1. OfferSyncTypeOK
  BY OfferSyncAssumption, NoItems DEF OfferSyncInit, OfferSyncTypeOK
<1>2. NotedInv /\ FetchedInv /\ OffersRouted
  BY DEF OfferSyncInit, NotedInv, FetchedInv, OffersRouted, Routed
<1>3. CursorInv
  BY NoItems DEF OfferSyncInit, CursorInv
<1> QED
  BY <1>1, <1>2, <1>3 DEF OffersInv

(* A source that is given up or over, and a restart, leave what is shared. *)
LEMMA IdleStep ==
  ASSUME OffersInv, Idle, UNCHANGED <<routes, feed, offers, passVars, unnoted>>,
         files' \subseteq Buckets, cursor' \in Nat, CursorInv'
  PROVE  OffersInv'
<1>1. OfferSyncTypeOK'
  BY NoItems DEF Idle, OffersInv, OfferSyncTypeOK, passVars
<1>2. NotedInv' /\ FetchedInv'
  BY DEF Idle, NotedInv, FetchedInv, passVars, Met
<1>3. OffersRouted'
  BY DEF OffersInv, OffersRouted, Routed
<1> QED
  BY <1>1, <1>2, <1>3 DEF OffersInv

(* Noting a route adds to what was known.                                  *)
LEMMA NoteStep ==
  ASSUME OffersInv, NEW b \in Buckets, NEW learned \in Routes, Note(b, learned)
  PROVE  /\ routes' \in [Buckets -> Routes] /\ unnoted' \subseteq Buckets
         /\ \A c \in Buckets : routes[c] \subseteq routes'[c]
         /\ unnoted \subseteq unnoted'
         /\ b \notin unnoted' => learned # {} /\ learned \subseteq routes'[b]
<1>1. CASE learned # {} /\ routes' = [routes EXCEPT ![b] = Upserted(b, learned)] /\ unnoted' = unnoted
  BY <1>1 DEF Upserted, Routes, OffersInv, OfferSyncTypeOK, passVars
<1>2. CASE UNCHANGED routes /\ unnoted' = unnoted \cup {b}
  BY <1>2 DEF Routes, OffersInv, OfferSyncTypeOK, passVars
<1> QED
  BY <1>1, <1>2 DEF Note

LEMMA RoutedStays ==
  ASSUME OffersRouted, UNCHANGED offers, unnoted \subseteq unnoted',
         \A c \in Buckets : routes[c] \subseteq routes'[c]
  PROVE  OffersRouted'
<1> SUFFICES ASSUME NEW c \in Buckets \ unnoted' PROVE (Routed("folder", c) /\ Routed("tracker", c))'
  BY DEF OffersRouted
<1>1. Routed("folder", c) /\ Routed("tracker", c)
  BY DEF OffersRouted
<1>2. routes[c] \subseteq routes'[c]
  OBVIOUS
<1> QED
  BY <1>1, <1>2 DEF Routed

LEMMA RegisterStep ==
  ASSUME OffersInv, NEW s \in {"folder", "tracker"}, NEW b \in Buckets, NEW k \in {"have", "can_get"},
         Register(s, b, k), UNCHANGED <<routes, unnoted>>,
         b \notin unnoted => routes[b] # {} /\ (k = "have" => "local" \in routes[b])
  PROVE  OffersRouted' /\ offers' \in [{"folder", "tracker"} -> [Buckets -> Kinds]]
<1>1. offers \in [{"folder", "tracker"} -> [Buckets -> Kinds]]
  BY DEF OffersInv, OfferSyncTypeOK, Kinds, passVars
<1>2. /\ offers' \in [{"folder", "tracker"} -> [Buckets -> Kinds]]
      /\ offers'[s][b] = k
      /\ \A z \in {"folder", "tracker"}, c \in Buckets :
           ~(z = s /\ c = b) => offers'[z][c] = offers[z][c]
  BY <1>1 DEF Register, Kinds
<1>3. ASSUME NEW z \in {"folder", "tracker"}, NEW c \in Buckets \ unnoted' PROVE Routed(z, c)'
  <2>1. CASE z = s /\ c = b
    BY <1>2, <2>1 DEF Routed
  <2>2. CASE ~(z = s /\ c = b)
    <3>1. offers'[z][c] = offers[z][c]
      BY <1>2, <2>2
    <3>2. Routed(z, c)
      BY DEF OffersInv, OffersRouted
    <3> QED
      BY <3>1, <3>2 DEF Routed
  <2> QED
    BY <2>1, <2>2
<1> QED
  BY <1>2, <1>3 DEF OffersRouted

LEMMA FolderSteps ==
  ASSUME OffersInv, ScanFolder \/ NotePath \/ RegisterHave \/ SourceFails \/ SourceEnds
  PROVE  OffersInv'
<1>1. CASE ScanFolder
  <2>1. OfferSyncTypeOK'
    BY <1>1 DEF ScanFolder, OffersInv, OfferSyncTypeOK, passVars
  <2>2. NotedInv' /\ FetchedInv' /\ CursorInv'
    BY <1>1 DEF ScanFolder, OffersInv, OfferSyncTypeOK, NotedInv, FetchedInv, CursorInv, passVars, Met
  <2>3. OffersRouted'
    BY <1>1 DEF ScanFolder, OffersInv, OffersRouted, Routed
  <2> QED
    BY <2>1, <2>2, <2>3 DEF OffersInv
<1>2. CASE NotePath
  <2>1. PICK b \in work : Note(b, {"local"}) /\ entry' = b /\ work' = work \ {b}
    BY <1>2 DEF NotePath
  <2>2. b \in Buckets /\ work \subseteq Buckets /\ offering = "folder"
    BY <1>2, <2>1 DEF NotePath, OffersInv, NotedInv
  <2>3. /\ routes' \in [Buckets -> Routes] /\ unnoted' \subseteq Buckets
        /\ \A c \in Buckets : routes[c] \subseteq routes'[c]
        /\ unnoted \subseteq unnoted'
        /\ b \notin unnoted' => "local" \in routes'[b]
    BY <2>1, <2>2, NoteStep DEF Routes
  <2>4. OfferSyncTypeOK'
    BY <1>2, <2>1, <2>2, <2>3 DEF NotePath, Routes, OffersInv, OfferSyncTypeOK, passVars
  <2>5. NotedInv' /\ FetchedInv' /\ CursorInv'
    BY <1>2, <2>1, <2>2, <2>3 DEF NotePath, OffersInv, NotedInv, FetchedInv, CursorInv, passVars, Met
  <2>6. OffersRouted'
    BY <1>2, <2>3, RoutedStays DEF NotePath, OffersInv
  <2> QED
    BY <2>4, <2>5, <2>6 DEF OffersInv
<1>3. CASE RegisterHave
  <2>1. entry \in Buckets /\ (entry \notin unnoted => "local" \in routes[entry])
    BY <1>3 DEF RegisterHave, OffersInv, OfferSyncTypeOK, NotedInv, passVars
  <2>2. OffersRouted' /\ offers' \in [{"folder", "tracker"} -> [Buckets -> Kinds]]
    BY <1>3, <2>1, RegisterStep DEF RegisterHave
  <2>3. OfferSyncTypeOK'
    BY <1>3, <2>2 DEF RegisterHave, Kinds, OffersInv, OfferSyncTypeOK, passVars
  <2>4. NotedInv' /\ FetchedInv' /\ CursorInv'
    BY <1>3 DEF RegisterHave, OffersInv, NotedInv, FetchedInv, CursorInv, passVars, Met
  <2> QED
    BY <2>2, <2>3, <2>4 DEF OffersInv
<1>4. CASE SourceFails \/ SourceEnds
  <2>1. Idle /\ UNCHANGED <<files, routes, feed, cursor, offers, passVars, unnoted>>
    BY <1>4 DEF SourceFails, SourceEnds
  <2>2. files' \subseteq Buckets /\ cursor' \in Nat
    BY <2>1 DEF OffersInv, OfferSyncTypeOK, passVars
  <2>3. CursorInv'
    BY <2>1 DEF OffersInv, CursorInv, passVars, Met
  <2> QED
    BY <2>1, <2>2, <2>3, IdleStep
<1> QED
  BY <1>1, <1>2, <1>3, <1>4

(* The end of a walk: the cursor is parked where all before it is fetched. *)
LEMMA ScanEndsStep ==
  ASSUME OffersInv, NEW next \in Nat, ScanEnds(next),
         \A k \in 1 .. Len(feed) : k <= next => feed[k] \in Met
  PROVE  OffersInv'
<1>1. CursorInv' /\ cursor' \in Nat
  BY DEF ScanEnds, Park, OffersInv, OfferSyncTypeOK, CursorInv, passVars, Met
<1>2. CASE Idle
  <2>1. files' \subseteq Buckets /\ UNCHANGED <<routes, feed, offers, passVars, unnoted>>
    BY DEF ScanEnds, OffersInv, OfferSyncTypeOK, passVars
  <2> QED
    BY <1>1, <1>2, <2>1, IdleStep
<1>3. CASE /\ offering' = "tracker" /\ localIndex' = files /\ start' = 0 /\ offset' = 0
           /\ UNCHANGED <<work, entry>>
  <2>1. offering = "scrape" /\ UNCHANGED <<files, routes, feed, offers, passVars, unnoted>>
    BY DEF ScanEnds
  <2>2. OfferSyncTypeOK'
    BY <1>1, <1>3, <2>1, NoItems DEF OffersInv, OfferSyncTypeOK, passVars
  <2>3. NotedInv' /\ FetchedInv'
    BY <1>3, <2>1 DEF OffersInv, NotedInv, FetchedInv, passVars, Met
  <2>4. OffersRouted'
    BY <2>1 DEF OffersInv, OffersRouted, Routed
  <2> QED
    BY <1>1, <2>2, <2>3, <2>4 DEF OffersInv
<1> QED
  BY <1>2, <1>3 DEF ScanEnds

LEMMA ScrapeSteps ==
  ASSUME OffersInv, StartScrape \/ FetchPage \/ FeedEnds \/ LimitReached \/ PageFails
  PROVE  OffersInv'
<1>1. CASE StartScrape
  <2>1. start' \in Nat /\ offset' = start' /\ cursor' = cursor
    BY <1>1, NoItems DEF StartScrape, OffersInv, OfferSyncTypeOK, passVars
  <2>2. scraped' \subseteq Items /\ landed' \subseteq Items /\ slipped' \subseteq Items /\ feed' = feed
    BY <1>1 DEF StartScrape, OffersInv, OfferSyncTypeOK, passVars
  <2>3. OfferSyncTypeOK'
    BY <1>1, <2>1, <2>2 DEF StartScrape, OffersInv, OfferSyncTypeOK
  <2>4. CursorInv'
    <3>1. CASE cursor = 0
      BY <2>1, <2>2, <3>1, NoItems DEF CursorInv
    <3>2. CASE cursor # 0
      BY <1>1, <2>1, <2>2, <3>2 DEF StartScrape, OffersInv, CursorInv, Met, passVars
    <3> QED
      BY <3>1, <3>2
  <2>5. FetchedInv'
    <3>1. CASE start' = 0
      BY <2>1, <2>2, <3>1, NoItems DEF FetchedInv
    <3>2. CASE start' = cursor
      BY <2>1, <2>2, <2>4, <3>2 DEF FetchedInv, CursorInv
    <3> QED
      BY <1>1, <3>1, <3>2 DEF StartScrape
  <2>6. NotedInv'
    BY <1>1 DEF StartScrape, OffersInv, NotedInv
  <2>7. OffersRouted'
    BY <1>1 DEF StartScrape, OffersInv, OffersRouted, Routed
  <2> QED
    BY <2>3, <2>4, <2>5, <2>6, <2>7 DEF OffersInv
<1>2. CASE FetchPage
  <2>1. feed \in Seq(Items) /\ Len(feed) \in Nat /\ offset \in Nat /\ offset < Len(feed)
    BY <1>2, LenProperties DEF FetchPage, OffersInv, OfferSyncTypeOK
  <2>2. offset + 1 \in Nat /\ offset + 1 \in 1 .. Len(feed)
    BY <2>1, OnePage
  <2>3. feed[offset + 1] \in Items
    BY <2>1, <2>2, ElementOfSeq
  <2>4. OfferSyncTypeOK'
    BY <1>2, <2>2, <2>3 DEF FetchPage, OffersInv, OfferSyncTypeOK
  <2>5. NotedInv'
    BY <1>2, <2>3 DEF FetchPage, OffersInv, NotedInv
  <2>6. Met' = Met \cup {feed[offset + 1]} /\ feed' = feed /\ cursor' = cursor /\ offset' = offset + 1
    BY <1>2 DEF FetchPage, Met
  <2>7. CursorInv'
    BY <2>6 DEF OffersInv, CursorInv
  <2>8. FetchedInv'
    <3>1. \A k \in 1 .. Len(feed) : k <= offset + 1 => k <= offset \/ k = offset + 1
      BY <2>1
    <3> QED
      BY <1>2, <2>6, <3>1 DEF FetchPage, OffersInv, FetchedInv
  <2>9. OffersRouted'
    BY <1>2 DEF FetchPage, OffersInv, OffersRouted, Routed
  <2> QED
    BY <2>4, <2>5, <2>7, <2>8, <2>9 DEF OffersInv
<1>3. CASE FeedEnds
  BY <1>3, NoItems, ScanEndsStep DEF FeedEnds
<1>4. CASE LimitReached \/ PageFails
  <2>1. ScanEnds(offset) /\ offering = "scrape"
    BY <1>4 DEF LimitReached, PageFails, ScanEnds
  <2>2. offset \in Nat /\ \A k \in 1 .. Len(feed) : k <= offset => feed[k] \in Met
    BY <2>1 DEF OffersInv, OfferSyncTypeOK, FetchedInv, passVars, Met
  <2> QED
    BY <2>1, <2>2, ScanEndsStep
<1> QED
  BY <1>1, <1>2, <1>3, <1>4

LEMMA TrackerSteps ==
  ASSUME OffersInv, NoteSource \/ RegisterScraped \/ FilesChange \/ RestartOffers
  PROVE  OffersInv'
<1>1. CASE NoteSource
  <2>1. PICK i \in work : Note(BucketOf[i], Learned(i)) /\ entry' = BucketOf[i] /\ work' = work \ {i}
    BY <1>1 DEF NoteSource
  <2>2. work \subseteq Items /\ offering = "tracker"
    BY <1>1 DEF NoteSource, OffersInv, NotedInv
  <2>3. i \in Items /\ BucketOf[i] \in Buckets
    BY <2>1, <2>2, OfferSyncAssumption
  <2>4. Learned(i) \in Routes /\ (BucketOf[i] \in localIndex => "local" \in Learned(i))
    BY DEF Learned, Routes
  <2>5. /\ routes' \in [Buckets -> Routes] /\ unnoted' \subseteq Buckets
        /\ \A c \in Buckets : routes[c] \subseteq routes'[c]
        /\ unnoted \subseteq unnoted'
        /\ BucketOf[i] \notin unnoted' => Learned(i) # {} /\ Learned(i) \subseteq routes'[BucketOf[i]]
    BY <2>1, <2>3, <2>4, NoteStep
  <2>6. OfferSyncTypeOK'
    BY <1>1, <2>1, <2>3, <2>5 DEF NoteSource, Routes, OffersInv, OfferSyncTypeOK, passVars
  <2>7. NotedInv'
    <3>1. offering' = "tracker" /\ localIndex' = localIndex
      BY <1>1, <2>2 DEF NoteSource
    <3> QED
      BY <2>1, <2>2, <2>4, <2>5, <3>1 DEF NotedInv
  <2>8. FetchedInv' /\ CursorInv'
    BY <1>1, <2>2 DEF NoteSource, OffersInv, FetchedInv, CursorInv, passVars, Met
  <2>9. OffersRouted'
    BY <1>1, <2>5, RoutedStays DEF NoteSource, OffersInv
  <2> QED
    BY <2>6, <2>7, <2>8, <2>9 DEF OffersInv
<1>2. CASE RegisterScraped
  <2>1. entry \in Buckets
    BY <1>2 DEF RegisterScraped, OffersInv, OfferSyncTypeOK, passVars
  <2>2. entry \notin unnoted =>
          routes[entry] # {} /\ (entry \in localIndex => "local" \in routes[entry])
    BY <1>2 DEF RegisterScraped, OffersInv, NotedInv
  <2>3. OffersRouted' /\ offers' \in [{"folder", "tracker"} -> [Buckets -> Kinds]]
    <3>1. CASE entry \in localIndex
      BY <1>2, <2>1, <2>2, <3>1, RegisterStep DEF RegisterScraped
    <3>2. CASE entry \notin localIndex
      BY <1>2, <2>1, <2>2, <3>2, RegisterStep DEF RegisterScraped
    <3> QED
      BY <3>1, <3>2
  <2>4. OfferSyncTypeOK'
    BY <1>2, <2>3 DEF RegisterScraped, Kinds, OffersInv, OfferSyncTypeOK, passVars
  <2>5. NotedInv' /\ FetchedInv' /\ CursorInv'
    BY <1>2 DEF RegisterScraped, OffersInv, NotedInv, FetchedInv, CursorInv, passVars, Met
  <2> QED
    BY <2>3, <2>4, <2>5 DEF OffersInv
<1>3. CASE FilesChange
  <2>1. files' \subseteq Buckets
    BY <1>3 DEF FilesChange, OffersInv, OfferSyncTypeOK, passVars
  <2>2. OfferSyncTypeOK'
    BY <1>3, <2>1 DEF FilesChange, OffersInv, OfferSyncTypeOK, passVars
  <2>3. NotedInv' /\ FetchedInv' /\ CursorInv'
    BY <1>3 DEF FilesChange, OffersInv, NotedInv, FetchedInv, CursorInv, passVars, Met
  <2>4. OffersRouted'
    BY <1>3 DEF FilesChange, OffersInv, OffersRouted, Routed
  <2> QED
    BY <2>2, <2>3, <2>4 DEF OffersInv
<1>4. CASE RestartOffers
  <2>1. files' \subseteq Buckets /\ cursor' \in Nat
    BY <1>4 DEF RestartOffers, OffersInv, OfferSyncTypeOK, passVars
  <2>2. CursorInv'
    BY <1>4 DEF RestartOffers, OffersInv, CursorInv, passVars, Met
  <2> QED
    BY <1>4, <2>1, <2>2, IdleStep DEF RestartOffers
<1> QED
  BY <1>1, <1>2, <1>3, <1>4

(* The list of the tracker moves.                                          *)
LEMMA FeedSteps ==
  ASSUME OffersInv, Land \/ Drop
  PROVE  OffersInv'
<1> DEFINE Still == /\ UNCHANGED <<files, routes, cursor, offers, offering, work, entry, start,
                                   offset, localIndex, unnoted>>
                    /\ feed' \in Seq(Items) /\ landed' \subseteq Items /\ slipped' \subseteq Items
                    /\ scraped' = scraped
<1>1. OfferSyncTypeOK /\ cursor \in Nat /\ offset \in Nat
  BY DEF OffersInv, OfferSyncTypeOK
<1>2. feed \in Seq(Items) /\ Len(feed) \in Nat
  BY <1>1, LenProperties DEF OfferSyncTypeOK
<1>3. CASE Land
  <2>1. PICK i \in Items : feed' = <<i>> \o feed /\ landed' = landed \cup {i}
    BY <1>3 DEF Land
  <2>2. Still
    BY <1>1, <1>2, <1>3, <2>1, AtHead DEF Land, OfferSyncTypeOK
  <2>3. CursorInv'
    BY <1>1, <1>3, <2>2, LandMeets DEF OffersInv, CursorInv
  <2>4. FetchedInv'
    BY <1>1, <1>3, <2>2, LandMeets DEF OffersInv, FetchedInv
  <2> QED
    BY <2>2, <2>3, <2>4 DEF OffersInv, OfferSyncTypeOK, NotedInv, OffersRouted, Routed
<1>4. CASE Drop
  <2>1. PICK p \in 1 .. Len(feed) :
          /\ feed' = SubSeq(feed, 1, p - 1) \o SubSeq(feed, p + 1, Len(feed))
          /\ slipped' = slipped \cup Slips(p, cursor)
                                \cup (IF offering = "scrape" THEN Slips(p, offset) ELSE {})
    BY <1>4 DEF Drop
  <2>2. ASSUME NEW n \in Nat PROVE Slips(p, n) \subseteq Items
    <3>1. CASE n < Len(feed)
      BY <1>2, <3>1, OnePage, ElementOfSeq DEF Slips
    <3>2. CASE ~(n < Len(feed))
      BY <3>2 DEF Slips
    <3> QED
      BY <3>1, <3>2
  <2>3. Slips(p, cursor) \subseteq Items /\ Slips(p, offset) \subseteq Items
    BY <1>1, <2>2
  <2>4. feed' \in Seq(Items)
    BY <1>2, <2>1, Without
  <2>5. Still
    BY <1>1, <1>4, <2>1, <2>3, <2>4 DEF Drop, OfferSyncTypeOK
  <2>6. CursorInv'
    <3>1. Met \cup Slips(p, cursor) \subseteq Met'
      BY <1>4, <2>1 DEF Drop, Met
    <3>2. \A k \in 1 .. Len(feed') : k <= cursor => feed'[k] \in Met'
      BY <1>1, <2>1, <3>1, DropMeets DEF OffersInv, CursorInv
    <3> QED
      BY <2>5, <3>2 DEF CursorInv
  <2>7. FetchedInv'
    <3> SUFFICES ASSUME offering = "scrape"
                 PROVE  \A k \in 1 .. Len(feed') : k <= offset => feed'[k] \in Met'
      BY <2>5 DEF FetchedInv
    <3>1. Met \cup Slips(p, offset) \subseteq Met'
      BY <1>4, <2>1 DEF Drop, Met
    <3> QED
      BY <1>1, <2>1, <3>1, DropMeets DEF OffersInv, FetchedInv
  <2> QED
    BY <2>5, <2>6, <2>7 DEF OffersInv, OfferSyncTypeOK, NotedInv, OffersRouted, Routed
<1> QED
  BY <1>3, <1>4

LEMMA OffersStep == OffersInv /\ [OfferSyncNext]_offerSyncVars => OffersInv'
<1> SUFFICES ASSUME OffersInv, [OfferSyncNext]_offerSyncVars PROVE OffersInv'
  OBVIOUS
<1>1. CASE OfferSyncNext
  BY <1>1, FolderSteps, ScrapeSteps, TrackerSteps, FeedSteps DEF OfferSyncNext
<1>2. CASE UNCHANGED offerSyncVars
  <2>1. OfferSyncTypeOK'
    BY <1>2 DEF offerSyncVars, OffersInv, OfferSyncTypeOK, passVars
  <2>2. NotedInv' /\ FetchedInv' /\ CursorInv'
    BY <1>2 DEF offerSyncVars, OffersInv, NotedInv, FetchedInv, CursorInv, passVars, Met
  <2>3. OffersRouted'
    BY <1>2 DEF offerSyncVars, OffersInv, OffersRouted, Routed
  <2> QED
    BY <2>1, <2>2, <2>3 DEF OffersInv
<1> QED
  BY <1>1, <1>2

(* Every variable of the offer synchronisation keeps its type.             *)
THEOREM OfferSyncTypes == OfferSyncSpec => []OfferSyncTypeOK
<1>1. OffersInv => OfferSyncTypeOK
  BY DEF OffersInv
<1> QED
  BY OffersStart, OffersStep, <1>1, PTL DEF OfferSyncSpec

(* The site offers only what the agent has a route to, across crashes and  *)
(* whichever source wrote last, for any feed and folder.                   *)
THEOREM OffersHaveRoutes == OfferSyncSpec => []OffersRouted
<1>1. OffersInv => OffersRouted
  BY DEF OffersInv
<1> QED
  BY OffersStart, OffersStep, <1>1, PTL DEF OfferSyncSpec

(* A pass over the feed goes past nothing but what slips when an item in   *)
(* front of it is dropped, for any list and however it moves meanwhile,    *)
(* any limit of pages, and across failed pages, failed saves and restarts. *)
THEOREM PassMissesNothing == OfferSyncSpec => PassCovers
<1>1. OffersInv /\ [OfferSyncNext]_offerSyncVars =>
        [FeedEnds => \A k \in 1 .. Len(feed) : feed[k] \in scraped \cup landed \cup slipped]_offerSyncVars
  <2> SUFFICES ASSUME OffersInv, FeedEnds, NEW k \in 1 .. Len(feed)
               PROVE  feed[k] \in scraped \cup landed \cup slipped
    OBVIOUS
  <2>1. offering = "scrape" /\ offset >= Len(feed) /\ offset \in Nat /\ Len(feed) \in Nat
    BY Positioned DEF FeedEnds, ScanEnds, OffersInv, OfferPositions
  <2>2. k <= offset
    BY <2>1
  <2> QED
    BY <2>1, <2>2 DEF OffersInv, FetchedInv, Met
<1> QED
  BY OffersStart, OffersStep, <1>1, PTL DEF OfferSyncSpec, PassCovers

-----------------------------------------------------------------------------
(* The collection page.                                                    *)

(* A writer that has met no other has its file to itself, and carries the  *)
(* snapshot in memory to it.                                               *)
LoneInv ==
  \A w \in alone :
    /\ Writing(w) /\ ~Writing(Other(w))
    /\ at[w] \in {"open", "write"} => image[w] = snap
    /\ at[w] = "write" => fd[w] = "tmp"
    /\ at[w] = "rename" => tmp = snap

(* A file is open only while it is written, and has the name of the other  *)
(* only after two have been saving together.                               *)
OpenInv ==
  \A w \in Writers : /\ fd[w] # "none" => at[w] = "write"
                     /\ fd[w] = "file" => trust = "raced"

(* What is being saved is a snapshot.                                      *)
ImageInv ==
  /\ \A w \in Writers : Writing(w) => snap \in Snapshots
  /\ \A w \in Writers : at[w] \in {"open", "write"} => image[w] \in Snapshots
  /\ at["edit"] \notin {"walk", "marshal"}

CollectionInv ==
  CollectionTypeOK /\ LoneInv /\ OpenInv /\ ImageInv /\ FileWhole /\ FileCurrent

LEMMA NoMark == NoSnapshot \notin Snapshots /\ Torn \notin Snapshots
BY CollectionAssumption

LEMMA Others == \A w \in Writers : Other(w) \in Writers /\ Other(w) # w /\ Other(Other(w)) = w
                                   /\ Writers = {w, Other(w)}
BY DEF Writers, Other

LEMMA CollectionStarts == CollectionInit => CollectionInv
<1> SUFFICES ASSUME CollectionInit PROVE CollectionInv
  OBVIOUS
<1>1. CollectionTypeOK
  <2>1. changes \in 0 .. MaxChanges
    BY CollectionAssumption DEF CollectionInit
  <2> QED
    BY <2>1 DEF CollectionInit, CollectionTypeOK
<1>2. LoneInv /\ OpenInv /\ ImageInv
  BY DEF CollectionInit, LoneInv, OpenInv, ImageInv, Writing, Saving, Writers
<1>3. FileWhole /\ FileCurrent
  BY CollectionAssumption DEF CollectionInit, FileWhole, FileCurrent
<1> QED
  BY <1>1, <1>2, <1>3 DEF CollectionInv

LEMMA ChangeCounts ==
  ASSUME CollectionTypeOK, NEW s, Change(s)
  PROVE  changes' \in 0 .. MaxChanges
<1>1. changes \in 0 .. MaxChanges
  BY DEF CollectionTypeOK
<1> QED
  BY <1>1, CollectionAssumption DEF Change

LEMMA WalkStarts ==
  ASSUME CollectionInv, Scan \/ ScanFails
  PROVE  CollectionInv'
<1>1. /\ UNCHANGED <<snap, file, tmp, image, fd, alone, trust, changes>>
      /\ at["scan"] \in {"idle", "walk"} /\ \E l \in {"idle", "walk"} : at' = [at EXCEPT !["scan"] = l]
  BY DEF Scan, ScanFails
<1>2. CollectionTypeOK'
  BY <1>1 DEF CollectionInv, CollectionTypeOK, Writers
<1>3. \A w \in Writers : /\ at'[w] = at[w] \/ {at'[w], at[w]} \subseteq {"idle", "walk"}
                         /\ at'["edit"] = at["edit"]
  BY <1>1 DEF CollectionInv, CollectionTypeOK, Writers
<1>4. \A w \in Writers : Writing(w)' <=> Writing(w)
  BY <1>3 DEF Writing, Saving
<1>5. alone \subseteq Writers
  BY DEF CollectionInv, CollectionTypeOK
<1>6. LoneInv'
  BY <1>1, <1>3, <1>4, <1>5, Others DEF CollectionInv, LoneInv
<1>7. OpenInv' /\ ImageInv'
  BY <1>1, <1>3, <1>4 DEF CollectionInv, OpenInv, ImageInv
<1>8. FileWhole' /\ FileCurrent'
  BY <1>1, <1>4 DEF CollectionInv, FileWhole, FileCurrent
<1> QED
  BY <1>2, <1>6, <1>7, <1>8 DEF CollectionInv

(* A change that one writer then carries to the file.                      *)
LEMMA ChangeStep ==
  ASSUME CollectionInv, NEW w \in Writers, NEW s \in Snapshots, NEW l \in {"marshal", "open"},
         Change(s), ~Writing(w),
         at' = [at EXCEPT ![w] = l], alone' = Joins(w),
         l = "marshal" => w = "scan" /\ image' = image,
         l = "open" => image' = [image EXCEPT ![w] = s],
         w = "scan" => l = "marshal",
         UNCHANGED <<file, tmp, fd, trust>>
  PROVE  CollectionInv'
<1>1. snap' = s /\ ~Writing("edit")
  BY DEF Change, Unlocked, Writing, Saving
<1>2. at'[w] = l /\ at'[Other(w)] = at[Other(w)]
  BY Others DEF CollectionInv, CollectionTypeOK
<1>3. image'[Other(w)] = image[Other(w)] /\ (l = "open" => image'[w] = s)
  BY Others DEF CollectionInv, CollectionTypeOK
<1>4. image' \in [Writers -> Snapshots \cup {NoSnapshot}]
  BY DEF CollectionInv, CollectionTypeOK
<1>5. CollectionTypeOK'
  <2>1. at' \in [Writers -> {"idle", "walk"} \cup Saving]
    BY DEF CollectionInv, CollectionTypeOK, Saving
  <2>2. alone' \subseteq Writers
    BY DEF Joins, CollectionInv, CollectionTypeOK
  <2>3. changes' \in 0 .. MaxChanges
    BY ChangeCounts DEF CollectionInv
  <2> QED
    BY <1>1, <1>4, <2>1, <2>2, <2>3 DEF CollectionInv, CollectionTypeOK
<1>6. Writing(w)' /\ (Writing(Other(w))' <=> Writing(Other(w)))
  BY <1>2 DEF Writing, Saving
<1>7. fd[w] = "none"
  BY DEF CollectionInv, OpenInv, Writing, Saving
<1>8. LoneInv'
  <2>1. CASE Writing(Other(w))
    <3>1. alone' = {}
      BY <2>1 DEF Joins, CollectionInv, CollectionTypeOK
    <3> QED
      BY <3>1 DEF LoneInv
  <2>2. CASE ~Writing(Other(w))
    <3>1. alone \subseteq {}
      BY <2>2, Others DEF CollectionInv, CollectionTypeOK, LoneInv
    <3>2. alone' = {w}
      BY <2>2, <3>1 DEF Joins
    <3> QED
      BY <1>1, <1>2, <1>3, <1>6, <2>2, <3>2 DEF LoneInv
  <2> QED
    BY <2>1, <2>2
<1>9. OpenInv'
  BY <1>2, <1>7, Others DEF CollectionInv, OpenInv
<1>10. ImageInv'
  <2>1. snap' \in Snapshots
    BY <1>1
  <2>2. \A v \in Writers : at'[v] \in {"open", "write"} => image'[v] \in Snapshots
    BY <1>2, <1>3, Others DEF CollectionInv, ImageInv
  <2>3. at'["edit"] \notin {"walk", "marshal"}
    BY <1>2, Others DEF CollectionInv, ImageInv
  <2> QED
    BY <2>1, <2>2, <2>3 DEF ImageInv
<1>11. FileWhole' /\ FileCurrent'
  BY <1>6 DEF CollectionInv, FileWhole, FileCurrent
<1> QED
  BY <1>5, <1>8, <1>9, <1>10, <1>11 DEF CollectionInv

LEMMA EditStep ==
  ASSUME CollectionInv, NEW s \in Snapshots, Edit(s)
  PROVE  CollectionInv'
<1>1. ~Writing("edit")
  BY DEF Edit, Change, Unlocked, Writing, Saving
<1> QED
  BY <1>1, ChangeStep DEF Edit, Writers

LEMMA HandlerSteps ==
  ASSUME CollectionInv, Handler
  PROVE  CollectionInv'
<1>1. snap # NoSnapshot => snap \in Snapshots
  BY DEF CollectionInv, CollectionTypeOK
<1>2. ASSUME NEW p \in Paths, UpdateOverrides(p) PROVE CollectionInv'
  <2>1. PICK e \in {snap.edited \cup {p}, snap.edited \ {p}} : Edit([snap EXCEPT !.edited = e])
    BY <1>2 DEF UpdateOverrides
  <2>2. [snap EXCEPT !.edited = e] \in Snapshots
    BY <1>1, <1>2 DEF UpdateOverrides, Snapshots
  <2> QED
    BY <2>1, <2>2, EditStep
<1>3. ASSUME NEW p \in Paths, SetSelected(p) PROVE CollectionInv'
  <2>1. PICK e \in {snap.selected \cup {p}, snap.selected \ {p}} : Edit([snap EXCEPT !.selected = e])
    BY <1>3 DEF SetSelected
  <2>2. [snap EXCEPT !.selected = e] \in Snapshots
    BY <1>1, <1>3 DEF SetSelected, Snapshots
  <2> QED
    BY <2>1, <2>2, EditStep
<1>4. ASSUME NEW d \in Dirs, SetFolderOverride(d) PROVE CollectionInv'
  <2>1. PICK e \in {snap.edited \cup {d}, snap.edited \ {d}} : Edit([snap EXCEPT !.edited = e])
    BY <1>4 DEF SetFolderOverride
  <2>2. [snap EXCEPT !.edited = e] \in Snapshots
    BY <1>1, <1>4 DEF SetFolderOverride, Snapshots
  <2> QED
    BY <2>1, <2>2, EditStep
<1>5. ASSUME NEW d \in Dirs, SelectFolder(d) PROVE CollectionInv'
  <2>1. PICK e \in {snap.selected \cup {d}, snap.selected \ {d}} : Edit([snap EXCEPT !.selected = e])
    BY <1>5 DEF SelectFolder
  <2>2. [snap EXCEPT !.selected = e] \in Snapshots
    BY <1>1, <1>5 DEF SelectFolder, Snapshots
  <2> QED
    BY <2>1, <2>2, EditStep
<1>6. CASE QueueSelectedUploads
  <2>1. Edit([snap EXCEPT !.selected = {}, !.queued = @ \cup Picked(snap)]) /\ snap \in Snapshots
    BY <1>1, <1>6 DEF QueueSelectedUploads
  <2>2. Picked(snap) \subseteq Paths
    BY <2>1 DEF Picked, Snapshots
  <2>3. [snap EXCEPT !.selected = {}, !.queued = @ \cup Picked(snap)] \in Snapshots
    BY <2>1, <2>2 DEF Snapshots
  <2> QED
    BY <2>1, <2>3, EditStep
<1>7. CASE NothingSelected
  <2>1. Change([snap EXCEPT !.selected = @ \ Dirs]) /\ snap \in Snapshots
    BY <1>1, <1>7 DEF NothingSelected
  <2>2. snap' \in Snapshots
    BY <2>1 DEF Change, Snapshots
  <2>3. changes' \in 0 .. MaxChanges
    BY <2>1, ChangeCounts DEF CollectionInv
  <2>4. alone' = {} /\ UNCHANGED <<file, tmp, at, image, fd>>
    BY <1>7 DEF NothingSelected
  <2>5. /\ trust' \in {"behind", "raced"} /\ (trust' = "raced" <=> trust = "raced")
    BY <1>7 DEF NothingSelected, CollectionInv, CollectionTypeOK
  <2>6. CollectionTypeOK'
    BY <2>2, <2>3, <2>4, <2>5 DEF CollectionInv, CollectionTypeOK
  <2>7. LoneInv' /\ OpenInv'
    BY <2>4, <2>5 DEF CollectionInv, LoneInv, OpenInv
  <2>8. ImageInv'
    BY <2>2, <2>4 DEF CollectionInv, ImageInv
  <2>9. FileWhole' /\ FileCurrent'
    BY <2>4, <2>5 DEF CollectionInv, FileWhole, FileCurrent
  <2> QED
    BY <2>6, <2>7, <2>8, <2>9 DEF CollectionInv
<1> QED
  BY <1>2, <1>3, <1>4, <1>5, <1>6, <1>7 DEF Handler

LEMMA ScanSaves ==
  ASSUME CollectionInv, SwapSnapshot \/ Marshal
  PROVE  CollectionInv'
<1>1. CASE SwapSnapshot
  <2>1. PICK items \in SUBSET Paths :
          Change([items |-> items, selected |-> {}, edited |-> {}, queued |-> {}])
    BY <1>1 DEF SwapSnapshot
  <2>2. [items |-> items, selected |-> {}, edited |-> {}, queued |-> {}] \in Snapshots
    BY DEF Snapshots
  <2>3. ~Writing("scan") /\ "scan" \in Writers
    BY <1>1 DEF SwapSnapshot, Writing, Saving, Writers
  <2> QED
    BY <1>1, <2>1, <2>2, <2>3, ChangeStep DEF SwapSnapshot
<1>2. CASE Marshal
  <2>1. "scan" \in Writers /\ snap \in Snapshots
    BY <1>2 DEF Marshal, CollectionInv, ImageInv, Writing, Saving, Writers
  <2>2. /\ at' \in [Writers -> {"idle", "walk"} \cup Saving]
        /\ at'["scan"] = "open" /\ at'["edit"] = at["edit"] /\ at["scan"] = "marshal"
    BY <1>2 DEF Marshal, CollectionInv, CollectionTypeOK, Writers, Saving
  <2>3. /\ image' \in [Writers -> Snapshots \cup {NoSnapshot}]
        /\ image'["scan"] = snap /\ image'["edit"] = image["edit"]
    BY <1>2, <2>1 DEF Marshal, CollectionInv, CollectionTypeOK, Writers
  <2>4. UNCHANGED <<snap, file, tmp, fd, alone, trust, changes>>
    BY <1>2 DEF Marshal
  <2>5. CollectionTypeOK'
    BY <2>2, <2>3, <2>4 DEF CollectionInv, CollectionTypeOK
  <2>6. \A w \in Writers : Writing(w)' <=> Writing(w)
    BY <2>2 DEF Writing, Saving, Writers
  <2>7. LoneInv'
    <3>1. alone \subseteq Writers
      BY DEF CollectionInv, CollectionTypeOK
    <3> QED
      BY <2>2, <2>3, <2>4, <2>6, <3>1, Others DEF CollectionInv, LoneInv, Writers
  <2>8. OpenInv' /\ ImageInv'
    BY <2>1, <2>2, <2>3, <2>4 DEF CollectionInv, OpenInv, ImageInv, Writers
  <2>9. FileWhole' /\ FileCurrent'
    BY <2>4, <2>6 DEF CollectionInv, FileWhole, FileCurrent
  <2> QED
    BY <2>5, <2>7, <2>8, <2>9 DEF CollectionInv
<1> QED
  BY <1>1, <1>2

(* While one that has met no other writes, nobody else does.               *)
LEMMA LoneAlone ==
  ASSUME CollectionInv, NEW w \in alone
  PROVE  /\ w \in Writers /\ Writing(w)
         /\ \A v \in Writers : v # w => ~Writing(v) /\ fd[v] = "none" /\ v \notin alone
<1>1. w \in Writers /\ Writing(w) /\ ~Writing(Other(w)) /\ alone \subseteq Writers
  BY DEF CollectionInv, CollectionTypeOK, LoneInv
<1>2. \A v \in Writers : v # w => v = Other(w)
  BY <1>1, Others
<1>3. \A v \in Writers : ~Writing(v) => fd[v] = "none" /\ v \notin alone
  BY DEF CollectionInv, OpenInv, LoneInv, Writing, Saving
<1> QED
  BY <1>1, <1>2, <1>3

LEMMA EditWrites == "edit" \in Writers
BY DEF Writers

LEMMA OpenStep ==
  ASSUME CollectionInv, NEW w \in Writers, OpenTmp(w)
  PROVE  CollectionInv'
<1>1. /\ at[w] = "open" /\ at'[w] = "write" /\ fd'[w] = "tmp" /\ tmp' = Torn
      /\ \A v \in Writers : v # w => at'[v] = at[v] /\ fd'[v] = fd[v]
      /\ UNCHANGED <<snap, file, image, alone, trust, changes>>
  BY DEF OpenTmp, CollectionInv, CollectionTypeOK
<1>2. CollectionTypeOK'
  BY <1>1 DEF OpenTmp, CollectionInv, CollectionTypeOK, Saving
<1>3. \A v \in Writers : Writing(v)' <=> Writing(v)
  BY <1>1 DEF Writing, Saving
<1>4. LoneInv'
  <2> SUFFICES ASSUME NEW v \in alone
               PROVE  /\ Writing(v)' /\ ~Writing(Other(v))'
                      /\ at'[v] \in {"open", "write"} => image'[v] = snap'
                      /\ at'[v] = "write" => fd'[v] = "tmp"
                      /\ at'[v] = "rename" => tmp' = snap'
    BY <1>1 DEF LoneInv
  <2>1. v = w
    BY <1>1, LoneAlone DEF Writing, Saving
  <2> QED
    BY <1>1, <1>3, <2>1, Others DEF CollectionInv, LoneInv
<1>5. OpenInv' /\ ImageInv'
  <2>1. at'["edit"] = at["edit"] \/ at'["edit"] = "write"
    BY <1>1, EditWrites
  <2> QED
    BY <1>1, <1>3, <2>1 DEF CollectionInv, OpenInv, ImageInv
<1>6. FileWhole' /\ FileCurrent'
  BY <1>1, <1>3 DEF CollectionInv, FileWhole, FileCurrent
<1> QED
  BY <1>2, <1>4, <1>5, <1>6 DEF CollectionInv

LEMMA WriteStep ==
  ASSUME CollectionInv, NEW w \in Writers, WriteImage(w)
  PROVE  CollectionInv'
<1>1. /\ at[w] = "write" /\ at'[w] = "rename" /\ fd'[w] = "none"
      /\ \A v \in Writers : v # w => at'[v] = at[v] /\ fd'[v] = fd[v] /\ image'[v] = image[v]
      /\ UNCHANGED <<snap, alone, trust, changes>>
  BY DEF WriteImage, CollectionInv, CollectionTypeOK
<1>2. PICK new \in {image[w]} \cup (IF fd[Other(w)] = fd[w] THEN {Torn} ELSE {}) :
        \/ fd[w] = "tmp" /\ tmp' = new /\ UNCHANGED file
        \/ fd[w] = "file" /\ file' = new /\ UNCHANGED tmp
        \/ fd[w] = "none" /\ UNCHANGED <<file, tmp>>
  BY DEF WriteImage
<1>3. new \in Snapshots \cup {Torn} /\ image[w] \in Snapshots
  BY <1>1, <1>2 DEF CollectionInv, ImageInv
<1>4. CollectionTypeOK'
  <2>1. file' \in Snapshots \cup {NoSnapshot, Torn} /\ tmp' \in Snapshots \cup {NoSnapshot, Torn}
    BY <1>2, <1>3 DEF CollectionInv, CollectionTypeOK
  <2> QED
    BY <1>1, <2>1 DEF WriteImage, CollectionInv, CollectionTypeOK, Saving
<1>5. \A v \in Writers : Writing(v)' <=> Writing(v)
  BY <1>1 DEF Writing, Saving
<1>6. file' = file \/ trust = "raced"
  BY <1>2 DEF CollectionInv, OpenInv
<1>7. LoneInv'
  <2> SUFFICES ASSUME NEW v \in alone
               PROVE  /\ Writing(v)' /\ ~Writing(Other(v))'
                      /\ at'[v] \in {"open", "write"} => image'[v] = snap'
                      /\ at'[v] = "write" => fd'[v] = "tmp"
                      /\ at'[v] = "rename" => tmp' = snap'
    BY <1>1 DEF LoneInv
  <2>1. v = w
    BY <1>1, LoneAlone DEF Writing, Saving
  <2>2. fd[w] = "tmp" /\ image[w] = snap
    BY <1>1, <2>1 DEF CollectionInv, LoneInv
  <2>3. fd[Other(w)] = "none"
    BY <2>1, Others, LoneAlone
  <2>4. tmp' = snap
    BY <1>2, <2>2, <2>3
  <2> QED
    BY <1>1, <1>5, <2>1, <2>4, Others, LoneAlone
<1>8. OpenInv'
  BY <1>1 DEF CollectionInv, OpenInv
<1>9. ImageInv'
  <2>1. at'["edit"] = at["edit"] \/ at'["edit"] = "rename"
    BY <1>1, EditWrites
  <2> QED
    BY <1>1, <1>5, <2>1 DEF CollectionInv, ImageInv
<1>10. FileWhole' /\ FileCurrent'
  BY <1>1, <1>5, <1>6 DEF CollectionInv, FileWhole, FileCurrent
<1> QED
  BY <1>4, <1>7, <1>8, <1>9, <1>10 DEF CollectionInv

LEMMA RenameStep ==
  ASSUME CollectionInv, NEW w \in Writers, Rename(w)
  PROVE  CollectionInv'
<1>1. /\ at[w] = "rename" /\ at'[w] = "idle" /\ file' = tmp /\ tmp' = NoSnapshot
      /\ \A v \in Writers : v # w => at'[v] = at[v]
      /\ \A v \in Writers : fd'[v] = Renamed(fd[v])
      /\ alone' = alone \ {w}
      /\ UNCHANGED <<snap, image, changes>>
  BY DEF Rename, CollectionInv, CollectionTypeOK
<1>2. trust' = IF w \in alone THEN "exact" ELSE "raced"
  BY DEF Rename
<1>3. CollectionTypeOK'
  BY <1>1, <1>2 DEF Rename, Renamed, CollectionInv, CollectionTypeOK, Saving
<1>4. \A v \in Writers : v # w => (Writing(v)' <=> Writing(v))
  BY <1>1 DEF Writing, Saving
<1>5. alone' = {}
  BY <1>1, LoneAlone DEF CollectionInv, CollectionTypeOK, Writing, Saving
<1>6. LoneInv'
  BY <1>5 DEF LoneInv
<1>7. OpenInv'
  <2>1. ASSUME NEW v \in Writers
        PROVE  /\ fd'[v] # "none" => at'[v] = "write"
               /\ fd'[v] = "file" => trust' = "raced"
    <3>1. fd'[v] # "none" => fd[v] = "tmp" /\ at[v] = "write"
      BY <1>1 DEF Renamed, CollectionInv, OpenInv
    <3>2. fd'[v] # "none" => v # w
      BY <1>1, <3>1
    <3>3. fd'[v] # "none" => w \notin alone
      BY <3>1, <3>2, LoneAlone
    <3> QED
      BY <1>1, <1>2, <3>1, <3>2, <3>3
  <2> QED
    BY <2>1 DEF OpenInv
<1>8. ImageInv'
  <2>1. at'["edit"] = at["edit"] \/ at'["edit"] = "idle"
    BY <1>1, EditWrites
  <2>2. ~Writing(w)'
    BY <1>1 DEF Writing, Saving
  <2> QED
    BY <1>1, <1>4, <2>1, <2>2 DEF CollectionInv, ImageInv
<1>9. FileWhole' /\ FileCurrent'
  <2>1. CASE w \in alone
    <3>1. tmp = snap /\ snap \in Snapshots
      BY <1>1, <2>1 DEF CollectionInv, LoneInv, ImageInv, Writing, Saving
    <3> QED
      BY <1>1, <3>1, NoMark DEF FileWhole, FileCurrent
  <2>2. CASE w \notin alone
    BY <1>2, <2>2 DEF FileWhole, FileCurrent
  <2> QED
    BY <2>1, <2>2
<1> QED
  BY <1>3, <1>6, <1>7, <1>8, <1>9 DEF CollectionInv

LEMMA SaveFailsStep ==
  ASSUME CollectionInv, NEW w \in Writers, SaveFails(w)
  PROVE  CollectionInv'
<1>1. /\ at'[w] = "idle" /\ fd'[w] = "none" /\ alone' = alone \ {w} /\ Writing(w)
      /\ \A v \in Writers : v # w => at'[v] = at[v] /\ fd'[v] = fd[v] /\ image'[v] = image[v]
      /\ UNCHANGED <<snap, file, tmp, changes>>
  BY DEF SaveFails, CollectionInv, CollectionTypeOK
<1>2. /\ trust' \in {"behind", "raced"}
      /\ trust = "raced" => trust' = "raced"
  BY DEF SaveFails
<1>3. CollectionTypeOK'
  BY <1>1, <1>2 DEF SaveFails, CollectionInv, CollectionTypeOK, Saving
<1>4. \A v \in Writers : v # w => (Writing(v)' <=> Writing(v))
  BY <1>1 DEF Writing, Saving
<1>5. LoneInv'
  <2>1. alone' = {}
    BY <1>1, LoneAlone DEF CollectionInv, CollectionTypeOK
  <2> QED
    BY <2>1 DEF LoneInv
<1>6. OpenInv'
  BY <1>1, <1>2 DEF CollectionInv, OpenInv
<1>7. ImageInv'
  <2>1. at'["edit"] = at["edit"] \/ at'["edit"] = "idle"
    BY <1>1, EditWrites
  <2>2. ~Writing(w)'
    BY <1>1 DEF Writing, Saving
  <2> QED
    BY <1>1, <1>4, <2>1, <2>2 DEF CollectionInv, ImageInv
<1>8. FileWhole' /\ FileCurrent'
  BY <1>1, <1>2 DEF CollectionInv, FileWhole, FileCurrent
<1> QED
  BY <1>3, <1>5, <1>6, <1>7, <1>8 DEF CollectionInv

LEMMA RestartScannerStep ==
  ASSUME CollectionInv, RestartScanner
  PROVE  CollectionInv'
<1>1. CollectionTypeOK'
  BY DEF RestartScanner, CollectionInv, CollectionTypeOK
<1>2. LoneInv' /\ OpenInv' /\ ImageInv'
  BY DEF RestartScanner, LoneInv, OpenInv, ImageInv, Writing, Saving, Writers
<1>3. FileWhole' /\ FileCurrent'
  BY DEF RestartScanner, FileWhole, FileCurrent
<1> QED
  BY <1>1, <1>2, <1>3 DEF CollectionInv

LEMMA CollectionStep == CollectionInv /\ [CollectionNext]_collectionVars => CollectionInv'
<1> SUFFICES ASSUME CollectionInv, [CollectionNext]_collectionVars PROVE CollectionInv'
  OBVIOUS
<1>1. CASE CollectionNext
  BY <1>1, WalkStarts, ScanSaves, HandlerSteps, OpenStep, WriteStep, RenameStep, SaveFailsStep,
     RestartScannerStep DEF CollectionNext, Save
<1>2. CASE UNCHANGED collectionVars
  <2>1. CollectionTypeOK'
    BY <1>2 DEF collectionVars, CollectionInv, CollectionTypeOK
  <2>2. LoneInv' /\ OpenInv' /\ ImageInv'
    BY <1>2 DEF collectionVars, CollectionInv, LoneInv, OpenInv, ImageInv, Writing
  <2>3. FileWhole' /\ FileCurrent'
    BY <1>2 DEF collectionVars, CollectionInv, FileWhole, FileCurrent, Writing
  <2> QED
    BY <2>1, <2>2, <2>3 DEF CollectionInv
<1> QED
  BY <1>1, <1>2

(* Every variable of the collection page keeps its type.                   *)
THEOREM CollectionTypes == CollectionSpec => []CollectionTypeOK
<1>1. CollectionInv => CollectionTypeOK
  BY DEF CollectionInv
<1> QED
  BY CollectionStarts, CollectionStep, <1>1, PTL DEF CollectionSpec

(* A crash in the middle of a save leaves collection.json whole, unless a  *)
(* scan and a handler have been saving together.                           *)
THEOREM CollectionWhole == CollectionSpec => []FileWhole
<1>1. CollectionInv => FileWhole
  BY DEF CollectionInv
<1> QED
  BY CollectionStarts, CollectionStep, <1>1, PTL DEF CollectionSpec

(* When nobody saves the file is the snapshot in memory, with the          *)
(* exceptions FileCurrent names.                                           *)
THEOREM CollectionCurrent == CollectionSpec => []FileCurrent
<1>1. CollectionInv => FileCurrent
  BY DEF CollectionInv
<1> QED
  BY CollectionStarts, CollectionStep, <1>1, PTL DEF CollectionSpec

-----------------------------------------------------------------------------
(* The group synchronisation.                                              *)

Versions == 0 .. MaxVersion
Top == IF gotMax > lastVersion THEN gotMax ELSE lastVersion

Known(n, v) ==
  catalog[n] > 0 /\ catalog[n] <= v => rows[n] = SiteRow(catalog[n]) \/ Has(n, "local")
Gone(n) == catalog[n] = 0 => ~Has(n, "site")

VersionInv ==
  /\ \A n \in Names : catalog[n] <= version
  /\ lastVersion <= version /\ gotMax <= version
  /\ doFullSync => lastVersion = 0

PlaceInv ==
  /\ syncAt = "idle" => todo = {}
  /\ syncAt \in {"idle", "read", "insert"} => ids = {}
  /\ syncAt \in {"insert", "update"} <=> now \in Names
  /\ now \notin todo
  /\ syncAt = "delete" => todo = {} /\ doFullSync

(* What a sync is about to write or delete is there, and the site's unless *)
(* the operator has taken it over since it was read.                       *)
HandInv(n) == n \in ids => rows[n] # NoRow /\ (Has(n, "local") => n \in late)

(* What is true of a group in the middle of a sync, and what the sync owes *)
(* it, if nothing excuses it.                                              *)
DutyInv(n) ==
  /\ n \in todo \cup {now} => got[n] > 0 /\ (catalog[n] = got[n] \/ catalog[n] > Top)
  /\ n \notin todo \cup {now} => Known(n, Top)
  /\ ~doFullSync => Gone(n)
  /\ doFullSync /\ got[n] = 0 => catalog[n] = 0 \/ catalog[n] > Top
  /\ catalog[n] = 0 => got[n] = 0
  /\ syncAt = "delete" /\ catalog[n] = 0 /\ Has(n, "site") => n \in ids
  /\ n \in ids => /\ Has(n, "site")
                  /\ syncAt = "update" => n = now
                  /\ syncAt = "delete" => got[n] = 0
  /\ syncAt = "update" /\ n = now => n \in ids

RestInv(n) == ~doFullSync => Known(n, lastVersion) /\ Gone(n)

GroupInv ==
  /\ GroupTypeOK /\ VersionInv /\ PlaceInv
  /\ \A n \in Names : HandInv(n)
  /\ \A n \in Names \ excused : IF syncAt = "idle" THEN RestInv(n) ELSE DutyInv(n)

(* Rows.                                                                   *)

LEMMA RowFacts ==
  /\ \A v \in Versions : SiteRow(v) \in Rows /\ SiteRow(v).source = "site"
  /\ LocalRow \in Rows /\ LocalRow.source = "local"
  /\ NoRow \notin Rows /\ NoRow \notin Names
  /\ \A r \in Rows, v \in Versions :
       /\ [r EXCEPT !.data = v] \in Rows
       /\ [r EXCEPT !.data = v].source = r.source
       /\ r.source = "site" => [r EXCEPT !.data = v] = SiteRow(v)
  /\ \A r \in Rows : r.source \in {"local", "site"}
BY GroupAssumption DEF Rows, Versions, SiteRow, LocalRow

LEMMA Numbers ==
  /\ Versions \subseteq Nat /\ 0 \in Versions
  /\ \A v \in Versions : v >= 0 /\ v <= MaxVersion
  /\ \A v \in Versions : v < MaxVersion => v + 1 \in Versions
BY GroupAssumption DEF Versions

LEMMA VersionTypes ==
  ASSUME GroupTypeOK
  PROVE  /\ version \in Versions /\ lastVersion \in Versions /\ gotMax \in Versions
         /\ catalog \in [Names -> Versions] /\ got \in [Names -> Versions]
         /\ Top \in Versions /\ rows \in [Names -> Rows \cup {NoRow}]
BY DEF GroupTypeOK, Versions, Top

(* A row that stays has the owner it had.                                  *)
LEMMA SameRow ==
  ASSUME NEW n, rows'[n] = rows[n]
  PROVE  \A who : Has(n, who)' <=> Has(n, who)
BY DEF Has

LEMMA CaughtUpHolds == GroupInv => CaughtUp
<1> SUFFICES ASSUME GroupInv, syncAt = "idle", ~doFullSync, NEW n \in Names \ excused
             PROVE  /\ catalog[n] \in 1 .. lastVersion => rows[n] = SiteRow(catalog[n]) \/ Has(n, "local")
                    /\ catalog[n] = 0 => ~Has(n, "site")
  BY DEF CaughtUp
<1>1. Known(n, lastVersion) /\ Gone(n)
  BY DEF GroupInv, RestInv
<1>2. catalog[n] \in 1 .. lastVersion => catalog[n] > 0 /\ catalog[n] <= lastVersion
  BY VersionTypes, Numbers DEF GroupInv
<1> QED
  BY <1>1, <1>2 DEF Known, Gone

LEMMA GroupStarts == GroupInit => GroupInv
<1> SUFFICES ASSUME GroupInit PROVE GroupInv
  OBVIOUS
<1>1. GroupTypeOK
  BY GroupAssumption DEF GroupInit, GroupTypeOK, Nothing
<1>2. VersionInv
  BY DEF GroupInit, VersionInv, Nothing
<1>3. PlaceInv
  BY GroupAssumption DEF GroupInit, PlaceInv
<1>4. \A n \in Names : HandInv(n) /\ RestInv(n)
  BY DEF GroupInit, HandInv, RestInv
<1> QED
  BY <1>1, <1>2, <1>3, <1>4 DEF GroupInit, GroupInv

-----------------------------------------------------------------------------
(* The steps of a sync.                                                    *)

LEMMA ReceivedTypes ==
  ASSUME GroupInv, NEW response \in [Names -> Versions], NEW max \in Versions, max <= version,
         Received(response, max)
  PROVE  /\ GroupTypeOK' /\ VersionInv' /\ PlaceInv' /\ \A n \in Names : HandInv(n)'
         /\ now = NoRow /\ ids = {} /\ Top' = IF max > lastVersion THEN max ELSE lastVersion
<1>1. now = NoRow /\ ids = {}
  BY DEF Received, GroupInv, GroupTypeOK, PlaceInv
<1>2. todo' \subseteq Names /\ excused' \subseteq Names
  BY DEF Received, GroupInv, GroupTypeOK
<1>3. GroupTypeOK'
  BY <1>2 DEF Received, site, Versions, GroupInv, GroupTypeOK
<1>4. VersionInv'
  BY DEF Received, site, GroupInv, VersionInv
<1>5. PlaceInv'
  BY <1>1, GroupAssumption DEF Received, PlaceInv
<1>6. \A n \in Names : HandInv(n)'
  BY <1>1 DEF Received, HandInv
<1> QED
  BY <1>1, <1>3, <1>4, <1>5, <1>6 DEF Received, Top

LEMMA FetchStep ==
  ASSUME GroupInv, FetchAgentGroups
  PROVE  GroupInv'
<1> DEFINE response == [n \in Names |-> IF catalog[n] > Since THEN catalog[n] ELSE 0]
<1>1. Received(response, version) /\ response \in [Names -> Versions] /\ version \in Versions
      /\ version <= version
  <2>1. catalog \in [Names -> Versions] /\ version \in Versions
    BY VersionTypes DEF GroupInv
  <2>2. response \in [Names -> Versions]
    BY <2>1, Numbers
  <2>3. version <= version
    BY <2>1, Numbers
  <2> QED
    BY <2>1, <2>2, <2>3 DEF FetchAgentGroups
<1>2. /\ GroupTypeOK' /\ VersionInv' /\ PlaceInv' /\ \A n \in Names : HandInv(n)'
      /\ now = NoRow /\ ids = {} /\ Top' = IF version > lastVersion THEN version ELSE lastVersion
  BY <1>1, ReceivedTypes
<1>3. /\ syncAt = "idle" /\ syncAt' = "read" /\ got' = response
      /\ todo' = {n \in Names : response[n] > 0}
      /\ excused' = IF doFullSync THEN {} ELSE excused \ todo'
      /\ UNCHANGED <<rows, catalog, version, lastVersion, doFullSync, now, ids>>
  BY <1>1 DEF Received, site
<1>4. ASSUME NEW n \in Names \ excused' PROVE DutyInv(n)'
  <2>1. got'[n] = (IF catalog[n] > Since THEN catalog[n] ELSE 0) /\ catalog'[n] = catalog[n]
        /\ (n \in todo' <=> got'[n] > 0)
    BY <1>3
  <2>2. catalog[n] \in Versions /\ catalog[n] <= version /\ lastVersion \in Versions /\ version \in Versions
    BY VersionTypes DEF GroupInv, VersionInv
  <2>3. \A who : Has(n, who)' <=> Has(n, who)
    BY <1>3, SameRow
  <2>4. /\ n # now' /\ ids' = {} /\ syncAt' = "read" /\ doFullSync' = doFullSync
        /\ rows'[n] = rows[n]
    BY <1>2, <1>3, GroupAssumption
  <2>5. Top' \in Nat /\ version <= Top' /\ catalog[n] \in Nat /\ lastVersion \in Nat /\ version \in Nat
    <3>1. catalog[n] \in Nat /\ lastVersion \in Nat /\ version \in Nat
      BY <2>2, Numbers
    <3> QED
      BY <1>2, <3>1
  <2>6. CASE doFullSync
    <3>1. Since = 0
      BY <2>6 DEF Since
    <3>2. got'[n] = catalog[n]
      BY <2>1, <2>5, <3>1
    <3>3. n \notin todo' => Known(n, Top)'
      BY <2>1, <3>2 DEF Known
    <3> QED
      BY <2>1, <2>6, <2>4, <2>5, <3>2, <3>3 DEF DutyInv
  <2>7. CASE ~doFullSync
    <3>1. Since = lastVersion
      BY <2>7 DEF Since
    <3>2. n \notin todo' => n \notin excused
      BY <1>3, <2>7
    <3>3. n \notin todo' => Known(n, lastVersion) /\ Gone(n)
      BY <1>3, <2>7, <3>2 DEF GroupInv, RestInv
    <3>4. n \notin todo' => Known(n, Top)' /\ Gone(n)'
      <4>1. n \notin todo' => catalog[n] <= lastVersion
        BY <2>1, <2>5, <3>1
      <4> QED
        BY <2>1, <2>3, <2>4, <3>3, <4>1 DEF Known, Gone
    <3>5. n \in todo' => Gone(n)'
      BY <2>1, <2>5, <3>1 DEF Gone
    <3>6. (n \in todo' => got'[n] = catalog[n]) /\ (catalog[n] = 0 => got'[n] = 0)
      BY <2>1, <2>5
    <3> QED
      BY <2>1, <2>7, <2>4, <3>4, <3>5, <3>6 DEF DutyInv
  <2> QED
    BY <2>6, <2>7
<1> QED
  BY <1>2, <1>3, <1>4 DEF GroupInv

LEMMA FetchMissingStep ==
  ASSUME GroupInv, FetchMissing
  PROVE  GroupInv'
<1>1. Received(Nothing, 0) /\ Nothing \in [Names -> Versions] /\ 0 \in Versions /\ 0 <= version
  BY VersionTypes, Numbers DEF FetchMissing, Nothing, GroupInv
<1>2. /\ GroupTypeOK' /\ VersionInv' /\ PlaceInv' /\ \A n \in Names : HandInv(n)'
      /\ now = NoRow /\ ids = {} /\ Top' = IF 0 > lastVersion THEN 0 ELSE lastVersion
  BY <1>1, ReceivedTypes
<1>3. /\ syncAt = "idle" /\ syncAt' = "read" /\ got' = Nothing
      /\ todo' = {}
      /\ excused' = IF doFullSync THEN {} ELSE excused
      /\ UNCHANGED <<rows, catalog, version, lastVersion, doFullSync, now, ids>>
  BY <1>1 DEF Received, site, Nothing
<1>4. ASSUME NEW n \in Names \ excused' PROVE DutyInv(n)'
  <2>1. got'[n] = 0 /\ catalog'[n] = catalog[n] /\ Top' = lastVersion /\ rows'[n] = rows[n]
    <3>1. lastVersion \in Nat
      BY VersionTypes, Numbers DEF GroupInv
    <3>2. Top' = lastVersion
      BY <1>2, <3>1
    <3> QED
      BY <1>3, <3>2 DEF Nothing
  <2>2. catalog[n] \in Versions /\ lastVersion \in Versions /\ (doFullSync => lastVersion = 0)
    BY VersionTypes DEF GroupInv, VersionInv
  <2>3. Known(n, Top)'
    <3>1. CASE doFullSync
      <4>1. catalog'[n] \in Nat /\ Top' = 0
        BY <2>1, <2>2, <3>1, Numbers
      <4>2. ~(catalog'[n] > 0 /\ catalog'[n] <= Top')
        BY <4>1
      <4> QED
        BY <4>2 DEF Known
    <3>2. CASE ~doFullSync
      BY <1>3, <2>1, <3>2, SameRow DEF GroupInv, RestInv, Known
    <3> QED
      BY <3>1, <3>2
  <2>4. ~doFullSync' => Gone(n)'
    BY <1>3, <2>1, SameRow DEF GroupInv, RestInv, Gone
  <2>5. n # now' /\ ids' = {} /\ todo' = {} /\ syncAt' = "read" /\ doFullSync' = doFullSync
    BY <1>2, <1>3, GroupAssumption
  <2>6. doFullSync => catalog[n] = 0 \/ catalog[n] > Top'
    <3>1. catalog[n] \in Nat
      BY <2>2, Numbers
    <3>2. doFullSync => Top' = 0
      BY <2>1, <2>2
    <3> QED
      BY <3>1, <3>2
  <2> QED
    BY <2>1, <2>3, <2>4, <2>5, <2>6 DEF DutyInv
<1> QED
  BY <1>2, <1>3, <1>4 DEF GroupInv

LEMMA ReadStep ==
  ASSUME GroupInv, ReadGroup
  PROVE  GroupInv'
<1>1. PICK n \in todo :
        /\ todo' = todo \ {n}
        /\ \/ Overridden(n) /\ UNCHANGED <<now, ids, syncAt>>
           \/ rows[n] = NoRow /\ now' = n /\ ids' = {} /\ syncAt' = "insert"
           \/ Taken(n) /\ now' = n /\ ids' = {n} /\ syncAt' = "update"
  BY DEF ReadGroup
<1>2. /\ syncAt = "read" /\ late' = {}
      /\ UNCHANGED <<rows, catalog, version, lastVersion, doFullSync, got, gotMax, excused>>
  BY DEF ReadGroup, site
<1>3. n \in Names /\ todo \subseteq Names /\ now = NoRow /\ ids = {} /\ NoRow \notin Names
  BY <1>2, GroupAssumption DEF GroupInv, GroupTypeOK, PlaceInv
<1>4. Taken(n) => Has(n, "site") /\ ~Has(n, "local") /\ rows[n] # NoRow
  BY <1>3, VersionTypes, RowFacts DEF Taken, Overridden, Has, GroupInv
<1>5. GroupTypeOK'
  BY <1>1, <1>2, <1>3 DEF GroupInv, GroupTypeOK
<1>6. VersionInv'
  BY <1>2 DEF GroupInv, VersionInv
<1>7. PlaceInv'
  BY <1>1, <1>2, <1>3 DEF GroupInv, PlaceInv
<1>8. \A m \in Names : HandInv(m)'
  BY <1>1, <1>2, <1>3, <1>4 DEF HandInv, Has
<1>9. ASSUME NEW m \in Names \ excused' PROVE DutyInv(m)'
  <2>1. DutyInv(m) /\ Top' = Top
    BY <1>2 DEF GroupInv, Top
  <2>2. \A who : Has(m, who)' <=> Has(m, who)
    BY <1>2, SameRow
  <2>3. (Known(m, Top)' <=> Known(m, Top)) /\ (Gone(m)' <=> Gone(m))
    BY <1>2, <2>1, <2>2 DEF Known, Gone
  <2>4. Overridden(n) => Known(n, Top)
    BY DEF Overridden, Known
  <2> QED
    BY <1>1, <1>2, <1>3, <1>4, <2>1, <2>2, <2>3, <2>4 DEF DutyInv
<1>10. syncAt' # "idle"
  BY <1>1, <1>2
<1> QED
  BY <1>5, <1>6, <1>7, <1>8, <1>9, <1>10 DEF GroupInv

(* A group is written, or passed over with an excuse.                      *)
LEMMA WrittenStep ==
  ASSUME GroupInv, syncAt \in {"insert", "update"}, WriteDone,
         rows' \in [Names -> Rows \cup {NoRow}], excused' \subseteq Names, excused \subseteq excused',
         \A m \in Names \ excused' : m # now => rows'[m] = rows[m],
         now \notin excused' => rows'[now] = SiteRow(got[now])
  PROVE  GroupInv'
<1>1. /\ syncAt' = "read" /\ now' = NoRow /\ ids' = {} /\ late' = {}
      /\ UNCHANGED <<catalog, version, lastVersion, doFullSync, got, gotMax, todo>>
  BY DEF WriteDone, site
<1>2. now \in Names /\ NoRow \notin Names /\ todo \subseteq Names /\ now \notin todo
  BY GroupAssumption DEF GroupInv, GroupTypeOK, PlaceInv
<1>3. GroupTypeOK'
  BY <1>1 DEF GroupInv, GroupTypeOK
<1>4. VersionInv' /\ PlaceInv'
  BY <1>1, <1>2 DEF GroupInv, VersionInv, PlaceInv
<1>5. \A m \in Names : HandInv(m)'
  BY <1>1 DEF HandInv
<1>6. ASSUME NEW m \in Names \ excused' PROVE DutyInv(m)'
  <2>1. DutyInv(m) /\ Top' = Top
    BY <1>1 DEF GroupInv, Top
  <2>2. CASE m # now
    <3>1. \A who : Has(m, who)' <=> Has(m, who)
      BY <2>2, SameRow
    <3>2. (Known(m, Top)' <=> Known(m, Top)) /\ (Gone(m)' <=> Gone(m))
      BY <1>1, <2>1, <2>2, <3>1 DEF Known, Gone
    <3> QED
      BY <1>1, <1>2, <2>1, <2>2, <3>1, <3>2 DEF DutyInv
  <2>3. CASE m = now
    <3>1. got[m] > 0 /\ (catalog[m] = got[m] \/ catalog[m] > Top)
      BY <2>1, <2>3 DEF DutyInv
    <3>2. catalog[m] \in Versions /\ got[m] \in Versions /\ Top \in Versions
      BY VersionTypes DEF GroupInv
    <3>3. Known(m, Top)'
      <4>1. rows'[m] = SiteRow(got[m]) /\ catalog'[m] = catalog[m] /\ Top' = Top
        BY <1>1, <2>1, <2>3
      <4>2. catalog[m] > Top => ~(catalog[m] <= Top)
        BY <3>2, Numbers
      <4>3. catalog[m] <= Top => rows'[m] = SiteRow(catalog[m])
        BY <3>1, <4>1, <4>2
      <4> QED
        BY <4>1, <4>3 DEF Known
    <3>4. catalog[m] # 0
      BY <3>1, <3>2, Numbers
    <3> QED
      BY <1>1, <1>2, <2>1, <2>3, <3>1, <3>3, <3>4 DEF DutyInv, Gone
  <2> QED
    BY <2>2, <2>3
<1> QED
  BY <1>1, <1>3, <1>4, <1>5, <1>6 DEF GroupInv

LEMMA UpsertSteps ==
  ASSUME GroupInv, InsertGroup \/ UpdateSeen \/ UpsertFails
  PROVE  GroupInv'
<1> USE DEF GroupInv
<1>1. now \in Names \cup {NoRow} /\ rows \in [Names -> Rows \cup {NoRow}] /\ excused \subseteq Names
      /\ got \in [Names -> Versions]
  BY VersionTypes DEF GroupTypeOK
<1>2. syncAt \in {"insert", "update"} => now \in Names /\ SiteRow(got[now]) \in Rows
  BY <1>1, RowFacts DEF PlaceInv
<1>3. CASE InsertGroup
  <2>1. /\ rows' \in [Names -> Rows \cup {NoRow}] /\ rows'[now] = SiteRow(got[now])
        /\ \A m \in Names : m # now => rows'[m] = rows[m]
    BY <1>1, <1>2, <1>3 DEF InsertGroup
  <2> QED
    BY <1>1, <1>3, <2>1, WrittenStep DEF InsertGroup
<1>4. CASE UpdateSeen
  <2>1. \A m \in Names : rows'[m] = IF m \in ids THEN [rows[m] EXCEPT !.data = got[now]] ELSE rows[m]
    BY <1>4 DEF UpdateSeen
  <2>2. syncAt = "update" /\ now \in Names /\ got[now] \in Versions
    BY <1>1, <1>2, <1>4 DEF UpdateSeen
  <2>3. \A m \in Names : m \in ids => rows[m] \in Rows
    BY <1>1 DEF HandInv
  <2>4. rows' \in [Names -> Rows \cup {NoRow}]
    <3>1. \A m \in Names : m \in ids => [rows[m] EXCEPT !.data = got[now]] \in Rows
      BY <2>2, <2>3, RowFacts
    <3> QED
      BY <1>1, <1>4, <3>1 DEF UpdateSeen
  <2>5. ASSUME NEW m \in Names \ excused, m # now PROVE rows'[m] = rows[m]
    BY <2>1, <2>2, <2>5 DEF DutyInv
  <2>6. now \notin excused => now \in ids /\ Has(now, "site")
    BY <2>2 DEF DutyInv
  <2>7. now \notin excused => rows'[now] = SiteRow(got[now])
    BY <2>1, <2>2, <2>3, <2>6, RowFacts DEF Has
  <2> QED
    BY <1>1, <1>4, <2>2, <2>4, <2>5, <2>7, WrittenStep DEF UpdateSeen
<1>5. CASE UpsertFails
  BY <1>1, <1>2, <1>5, WrittenStep DEF UpsertFails
<1> QED
  BY <1>3, <1>4, <1>5

LEMMA ListStep ==
  ASSUME GroupInv, ListSiteGroups
  PROVE  GroupInv'
<1>1. /\ syncAt = "read" /\ todo = {} /\ doFullSync /\ syncAt' = "delete" /\ late' = {}
      /\ ids' = {n \in Names : Has(n, "site") /\ got[n] = 0}
      /\ UNCHANGED <<rows, catalog, version, lastVersion, doFullSync, got, gotMax, todo, now, excused>>
  BY DEF ListSiteGroups, site
<1>2. GroupTypeOK'
  BY <1>1 DEF GroupInv, GroupTypeOK
<1>3. now = NoRow /\ NoRow \notin Names
  BY <1>1, GroupAssumption DEF GroupInv, GroupTypeOK, PlaceInv
<1>4. VersionInv' /\ PlaceInv'
  BY <1>1, <1>3 DEF GroupInv, VersionInv, PlaceInv
<1>5. \A n \in Names : HandInv(n)'
  BY <1>1 DEF HandInv, Has
<1>6. ASSUME NEW n \in Names \ excused' PROVE DutyInv(n)'
  <2>1. DutyInv(n) /\ Top' = Top
    BY <1>1 DEF GroupInv, Top
  <2>2. \A who : Has(n, who)' <=> Has(n, who)
    BY <1>1, SameRow
  <2>3. (Known(n, Top)' <=> Known(n, Top)) /\ (Gone(n)' <=> Gone(n))
    BY <1>1, <2>1, <2>2 DEF Known, Gone
  <2> QED
    BY <1>1, <1>3, <2>1, <2>2, <2>3 DEF DutyInv
<1> QED
  BY <1>1, <1>2, <1>4, <1>5, <1>6 DEF GroupInv

LEMMA DeleteStep ==
  ASSUME GroupInv, DeleteStale
  PROVE  GroupInv'
<1>1. PICK n \in ids : rows' = [rows EXCEPT ![n] = NoRow] /\ ids' = ids \ {n}
  BY DEF DeleteStale
<1>2. /\ syncAt = "delete"
      /\ UNCHANGED <<catalog, version, lastVersion, doFullSync, syncAt, got, gotMax, todo, now, late, excused>>
  BY DEF DeleteStale, site
<1>3. n \in Names /\ rows \in [Names -> Rows \cup {NoRow}] /\ now = NoRow /\ NoRow \notin Names
      /\ todo = {} /\ doFullSync
  BY <1>2, GroupAssumption DEF GroupInv, GroupTypeOK, PlaceInv
<1>4. rows'[n] = NoRow /\ \A m \in Names : m # n => rows'[m] = rows[m]
  BY <1>1, <1>3
<1>5. GroupTypeOK'
  BY <1>1, <1>2, <1>3 DEF GroupInv, GroupTypeOK
<1>6. VersionInv' /\ PlaceInv'
  BY <1>1, <1>2, <1>3 DEF GroupInv, VersionInv, PlaceInv
<1>7. \A m \in Names : HandInv(m)'
  BY <1>1, <1>2, <1>4 DEF GroupInv, HandInv, Has
<1>8. ASSUME NEW m \in Names \ excused' PROVE DutyInv(m)'
  <2>1. DutyInv(m) /\ Top' = Top
    BY <1>2 DEF GroupInv, Top
  <2>2. CASE m = n
    <3>1. got[m] = 0 /\ (catalog[m] = 0 \/ catalog[m] > Top) /\ ~Has(m, "site")'
      BY <1>1, <1>2, <1>3, <1>4, <2>1, <2>2 DEF DutyInv, Has
    <3>2. catalog[m] \in Versions /\ Top \in Versions
      BY VersionTypes DEF GroupInv
    <3>3. catalog[m] \in Nat /\ Top \in Nat
      BY <3>2, Numbers
    <3>4. ~(catalog[m] > 0 /\ catalog[m] <= Top)
      BY <3>1, <3>3
    <3>5. Known(m, Top)' /\ Gone(m)'
      BY <1>2, <2>1, <3>1, <3>4 DEF Known, Gone
    <3> QED
      BY <1>1, <1>2, <1>3, <2>1, <2>2, <3>1, <3>5 DEF DutyInv
  <2>3. CASE m # n
    <3>1. \A who : Has(m, who)' <=> Has(m, who)
      BY <1>4, <2>3, SameRow
    <3>2. (Known(m, Top)' <=> Known(m, Top)) /\ (Gone(m)' <=> Gone(m))
      BY <1>2, <1>4, <2>1, <2>3, <3>1 DEF Known, Gone
    <3> QED
      BY <1>1, <1>2, <1>3, <2>1, <2>3, <3>1, <3>2 DEF DutyInv
  <2> QED
    BY <2>2, <2>3
<1> QED
  BY <1>2, <1>5, <1>6, <1>7, <1>8 DEF GroupInv

LEMMA ReconcileFailsStep ==
  ASSUME GroupInv, ReconcileFails
  PROVE  GroupInv'
<1>1. /\ syncAt = "delete" /\ ids' = {} /\ excused' = excused \cup ids
      /\ UNCHANGED <<rows, catalog, version, lastVersion, doFullSync, syncAt, got, gotMax, todo, now, late>>
  BY DEF ReconcileFails, site
<1>2. GroupTypeOK'
  BY <1>1 DEF GroupInv, GroupTypeOK
<1>3. VersionInv' /\ PlaceInv'
  BY <1>1 DEF GroupInv, VersionInv, PlaceInv
<1>4. \A n \in Names : HandInv(n)'
  BY <1>1 DEF HandInv
<1>5. ASSUME NEW n \in Names \ excused' PROVE DutyInv(n)'
  <2>1. DutyInv(n) /\ n \notin ids /\ Top' = Top
    BY <1>1 DEF GroupInv, Top
  <2>2. \A who : Has(n, who)' <=> Has(n, who)
    BY <1>1, SameRow
  <2>3. (Known(n, Top)' <=> Known(n, Top)) /\ (Gone(n)' <=> Gone(n))
    BY <1>1, <2>1, <2>2 DEF Known, Gone
  <2> QED
    BY <1>1, <2>1, <2>2, <2>3 DEF DutyInv
<1> QED
  BY <1>1, <1>2, <1>3, <1>4, <1>5 DEF GroupInv

(* The end of a sync: every debt is paid.                                  *)
LEMMA AdvanceStep ==
  ASSUME GroupInv, Advance
  PROVE  GroupInv'
<1>1. /\ SyncEnded /\ lastVersion' = Top /\ doFullSync' = FALSE /\ syncAt' = "idle"
      /\ got' = Nothing /\ gotMax' = 0 /\ late' = {}
      /\ UNCHANGED <<rows, catalog, version, todo, now, ids, excused>>
  BY DEF Advance, SyncDone, site, Top
<1>2. todo = {} /\ ids = {} /\ now = NoRow /\ NoRow \notin Names
  BY <1>1, GroupAssumption DEF SyncEnded, GroupInv, GroupTypeOK, PlaceInv
<1>3. Top \in Versions /\ Nothing \in [Names -> Versions] /\ 0 \in Versions /\ Top <= version
  BY VersionTypes, Numbers DEF GroupInv, Nothing, VersionInv, Top
<1>4. GroupTypeOK'
  BY <1>1, <1>3 DEF GroupInv, GroupTypeOK, Versions
<1>5. VersionInv'
  BY <1>1, <1>3, VersionTypes, Numbers DEF GroupInv, VersionInv
<1>6. PlaceInv'
  BY <1>1, <1>2 DEF PlaceInv
<1>7. \A n \in Names : HandInv(n)'
  BY <1>1, <1>2 DEF HandInv
<1>8. ASSUME NEW n \in Names \ excused' PROVE RestInv(n)'
  <2>1. DutyInv(n)
    BY <1>1 DEF SyncEnded, GroupInv
  <2>2. Known(n, Top) /\ Gone(n)
    BY <1>1, <1>2, <2>1 DEF SyncEnded, DutyInv, Gone
  <2>3. \A who : Has(n, who)' <=> Has(n, who)
    BY <1>1, SameRow
  <2> QED
    BY <1>1, <2>2, <2>3 DEF RestInv, Known, Gone
<1> QED
  BY <1>1, <1>4, <1>5, <1>6, <1>7, <1>8 DEF GroupInv

-----------------------------------------------------------------------------
(* The operator and the site's administrator.                              *)

(* A row that changes hands is excused; a sync in its middle knows the row *)
(* by its id.                                                              *)
LEMMA TouchedStep ==
  ASSUME GroupInv, NEW ns \in SUBSET Names, Touched(ns),
         rows' \in [Names -> Rows \cup {NoRow}], ids' \subseteq Names, late' \subseteq Names,
         \A n \in Names \ ns : /\ rows'[n] = rows[n]
                               /\ n \in ids' <=> n \in ids
                               /\ n \in late' <=> n \in late,
         ids = {} => ids' = {},
         \A n \in ns : HandInv(n)'
  PROVE  GroupInv'
<1>1. /\ excused' = excused \cup ns
      /\ UNCHANGED <<catalog, version, lastVersion, doFullSync, syncAt, got, gotMax, todo, now>>
  BY DEF Touched, site
<1>2. GroupTypeOK'
  BY <1>1 DEF GroupInv, GroupTypeOK
<1>3. VersionInv' /\ PlaceInv'
  BY <1>1 DEF GroupInv, VersionInv, PlaceInv
<1>4. \A n \in Names : HandInv(n)'
  BY SameRow DEF GroupInv, HandInv
<1>5. ASSUME NEW n \in Names \ excused' PROVE IF syncAt' = "idle" THEN RestInv(n)' ELSE DutyInv(n)'
  <2>1. n \in Names \ ns /\ n \notin excused /\ Top' = Top
    BY <1>1 DEF Top
  <2>2. IF syncAt = "idle" THEN RestInv(n) ELSE DutyInv(n)
    BY <2>1 DEF GroupInv
  <2>3. rows'[n] = rows[n] /\ (n \in ids' <=> n \in ids)
    BY <2>1
  <2>4. \A who : Has(n, who)' <=> Has(n, who)
    BY <2>3, SameRow
  <2>5. /\ (Known(n, Top)' <=> Known(n, Top)) /\ (Gone(n)' <=> Gone(n))
        /\ (Known(n, lastVersion)' <=> Known(n, lastVersion))
    BY <1>1, <2>1, <2>3, <2>4 DEF Known, Gone
  <2>6. RestInv(n) => RestInv(n)'
    BY <1>1, <2>5 DEF RestInv
  <2>7. DutyInv(n) => DutyInv(n)'
    BY <1>1, <2>1, <2>3, <2>4, <2>5 DEF DutyInv
  <2> QED
    BY <1>1, <2>2, <2>6, <2>7
<1> QED
  BY <1>2, <1>3, <1>4, <1>5 DEF GroupInv

LEMMA PageSteps ==
  ASSUME GroupInv,
         NEW n \in Names, NEW m \in Names, CreateGroup(n) \/ UpdateGroup(n, m) \/ DeleteGroup(n)
  PROVE  GroupInv'
<1>1. rows \in [Names -> Rows \cup {NoRow}] /\ ids \subseteq Names /\ late \subseteq Names
  BY DEF GroupInv, GroupTypeOK, Rows
<1>2. LocalRow \in Rows /\ NoRow \notin Rows
  BY RowFacts
<1>3. \A k \in Names : rows[k] = NoRow => k \notin ids
  BY DEF GroupInv, HandInv
<1>4. CASE CreateGroup(n)
  <2>1. rows[n] = NoRow /\ Touched({n}) /\ UNCHANGED <<ids, late>>
        /\ rows' = [rows EXCEPT ![n] = LocalRow]
    BY <1>4 DEF CreateGroup
  <2>2. rows' \in [Names -> Rows \cup {NoRow}] /\ \A k \in Names \ {n} : rows'[k] = rows[k]
    BY <1>1, <1>2, <2>1
  <2>3. HandInv(n)'
    BY <1>3, <2>1 DEF HandInv
  <2> QED
    BY <1>1, <2>1, <2>2, <2>3, TouchedStep
<1>5. CASE UpdateGroup(n, m)
  <2>1. /\ rows[n] # NoRow /\ (rows[m] = NoRow \/ m = n) /\ Touched({n, m})
        /\ rows' = [[rows EXCEPT ![n] = NoRow] EXCEPT ![m] = LocalRow]
        /\ ids' = IF n \in ids THEN (ids \ {n}) \cup {m} ELSE ids
        /\ late' = IF n \in ids THEN (late \ {n}) \cup {m} ELSE late
    BY <1>5 DEF UpdateGroup, Unused
  <2>2. /\ rows' \in [Names -> Rows \cup {NoRow}]
        /\ rows'[m] = LocalRow
        /\ \A k \in Names \ {n, m} : rows'[k] = rows[k]
    BY <1>1, <1>2, <2>1
  <2>3. ids' \subseteq Names /\ late' \subseteq Names /\ (ids = {} => ids' = {})
    BY <1>1, <2>1
  <2>4. \A k \in Names \ {n, m} : (k \in ids' <=> k \in ids) /\ (k \in late' <=> k \in late)
    BY <2>1
  <2>5. HandInv(m)'
    BY <1>2, <1>3, <2>1, <2>2 DEF HandInv
  <2>6. n # m => n \notin ids'
    BY <2>1
  <2>7. HandInv(n)'
    BY <2>5, <2>6 DEF HandInv
  <2> QED
    BY <2>1, <2>2, <2>3, <2>4, <2>5, <2>7, TouchedStep
<1>6. CASE DeleteGroup(n)
  <2>1. /\ Touched({n}) /\ ids' = ids \ {n} /\ late' = late \ {n}
        /\ rows' = [rows EXCEPT ![n] = NoRow]
    BY <1>6 DEF DeleteGroup
  <2>2. rows' \in [Names -> Rows \cup {NoRow}] /\ \A k \in Names \ {n} : rows'[k] = rows[k]
    BY <1>1, <2>1
  <2>3. HandInv(n)'
    BY <2>1 DEF HandInv
  <2> QED
    BY <1>1, <2>1, <2>2, <2>3, TouchedStep
<1> QED
  BY <1>4, <1>5, <1>6

LEMMA PublishStep ==
  ASSUME GroupInv, NEW n \in Names, PublishGroup(n)
  PROVE  GroupInv'
<1>1. /\ version < MaxVersion /\ version' = version + 1
      /\ catalog' = [catalog EXCEPT ![n] = version + 1]
      /\ UNCHANGED <<rows, lastVersion, doFullSync, syncAt, got, gotMax, todo, now, ids, late, excused>>
  BY DEF PublishGroup
<1>2. /\ version \in Versions /\ version + 1 \in Versions /\ catalog \in [Names -> Versions]
      /\ Top \in Versions /\ lastVersion \in Versions /\ gotMax \in Versions
  BY <1>1, VersionTypes, Numbers DEF GroupInv
<1>3. GroupTypeOK'
  BY <1>1, <1>2 DEF GroupInv, GroupTypeOK, Versions
<1>4. catalog'[n] = version + 1 /\ \A m \in Names : m # n => catalog'[m] = catalog[m]
  BY <1>1, <1>2
<1>5. VersionInv'
  <2>1. version \in Nat /\ lastVersion \in Nat /\ gotMax \in Nat /\ \A m \in Names : catalog[m] \in Nat
    BY <1>2, Numbers
  <2> QED
    BY <1>1, <1>4, <2>1 DEF GroupInv, VersionInv
<1>6. PlaceInv'
  BY <1>1 DEF GroupInv, PlaceInv
<1>7. \A m \in Names : HandInv(m)'
  BY <1>1 DEF GroupInv, HandInv, Has
<1>8. Top' = Top /\ catalog'[n] > Top /\ catalog'[n] > lastVersion /\ catalog'[n] # 0
  BY <1>1, <1>2, <1>4, Numbers DEF GroupInv, VersionInv, Top
<1>9. ASSUME NEW m \in Names \ excused' PROVE IF syncAt' = "idle" THEN RestInv(m)' ELSE DutyInv(m)'
  <2>1. IF syncAt = "idle" THEN RestInv(m) ELSE DutyInv(m)
    BY <1>1 DEF GroupInv
  <2>2. \A who : Has(m, who)' <=> Has(m, who)
    BY <1>1, SameRow
  <2>3. CASE m = n
    <3>1. Known(m, Top)' /\ Known(m, lastVersion)' /\ Gone(m)'
      BY <1>1, <1>2, <1>8, <2>3, Numbers DEF Known, Gone
    <3>2. RestInv(m)'
      BY <3>1 DEF RestInv
    <3>3. DutyInv(m) => DutyInv(m)'
      BY <1>1, <1>8, <2>2, <2>3, <3>1 DEF DutyInv
    <3> QED
      BY <1>1, <2>1, <3>2, <3>3
  <2>4. CASE m # n
    <3>1. /\ (Known(m, Top)' <=> Known(m, Top)) /\ (Gone(m)' <=> Gone(m))
          /\ (Known(m, lastVersion)' <=> Known(m, lastVersion))
      BY <1>1, <1>4, <1>8, <2>2, <2>4 DEF Known, Gone
    <3>2. RestInv(m) => RestInv(m)'
      BY <1>1, <3>1 DEF RestInv
    <3>3. DutyInv(m) => DutyInv(m)'
      BY <1>1, <1>4, <1>8, <2>2, <2>4, <3>1 DEF DutyInv
    <3> QED
      BY <1>1, <2>1, <3>2, <3>3
  <2> QED
    BY <2>3, <2>4
<1> QED
  BY <1>3, <1>5, <1>6, <1>7, <1>9 DEF GroupInv

LEMMA WithdrawStep ==
  ASSUME GroupInv, NEW n \in Names, Withdraw(n)
  PROVE  GroupInv'
<1>1. /\ catalog' = [catalog EXCEPT ![n] = 0] /\ excused' = excused \cup {n}
      /\ UNCHANGED <<rows, version, lastVersion, doFullSync, syncAt, got, gotMax, todo, now, ids, late>>
  BY DEF Withdraw
<1>2. catalog \in [Names -> Versions] /\ version \in Versions /\ 0 \in Versions
  BY VersionTypes, Numbers DEF GroupInv
<1>3. GroupTypeOK'
  BY <1>1, <1>2 DEF GroupInv, GroupTypeOK, Versions
<1>4. catalog'[n] = 0 /\ \A m \in Names : m # n => catalog'[m] = catalog[m]
  BY <1>1, <1>2
<1>5. VersionInv'
  BY <1>1, <1>2, <1>4, Numbers DEF GroupInv, VersionInv
<1>6. PlaceInv' /\ \A m \in Names : HandInv(m)'
  BY <1>1 DEF GroupInv, PlaceInv, HandInv, Has
<1>7. ASSUME NEW m \in Names \ excused' PROVE IF syncAt' = "idle" THEN RestInv(m)' ELSE DutyInv(m)'
  <2>1. m # n /\ IF syncAt = "idle" THEN RestInv(m) ELSE DutyInv(m)
    BY <1>1 DEF GroupInv
  <2>2. \A who : Has(m, who)' <=> Has(m, who)
    BY <1>1, SameRow
  <2>3. /\ Top' = Top /\ (Known(m, Top)' <=> Known(m, Top)) /\ (Gone(m)' <=> Gone(m))
        /\ (Known(m, lastVersion)' <=> Known(m, lastVersion))
    BY <1>1, <1>4, <2>1, <2>2 DEF Known, Gone, Top
  <2>4. RestInv(m) => RestInv(m)'
    BY <1>1, <2>3 DEF RestInv
  <2>5. DutyInv(m) => DutyInv(m)'
    BY <1>1, <1>4, <2>1, <2>2, <2>3 DEF DutyInv
  <2> QED
    BY <1>1, <2>1, <2>4, <2>5
<1> QED
  BY <1>3, <1>5, <1>6, <1>7 DEF GroupInv

LEMMA RestartSyncStep ==
  ASSUME GroupInv, RestartSync
  PROVE  GroupInv'
<1>1. /\ lastVersion' = 0 /\ doFullSync' = TRUE /\ syncAt' = "idle" /\ got' = Nothing /\ gotMax' = 0
      /\ todo' = {} /\ now' = NoRow /\ ids' = {} /\ late' = {}
      /\ UNCHANGED <<rows, catalog, version, excused>>
  BY DEF RestartSync, site
<1>2. 0 \in Versions /\ Nothing \in [Names -> Versions]
  BY Numbers DEF Nothing
<1>3. GroupTypeOK'
  BY <1>1, <1>2 DEF GroupInv, GroupTypeOK, Versions
<1>4. VersionInv'
  BY <1>1, VersionTypes, Numbers DEF GroupInv, VersionInv
<1>5. PlaceInv' /\ \A n \in Names : HandInv(n)' /\ RestInv(n)'
  BY <1>1, GroupAssumption DEF PlaceInv, HandInv, RestInv
<1> QED
  BY <1>1, <1>3, <1>4, <1>5 DEF GroupInv

LEMMA SyncStep ==
  ASSUME GroupInv, Sync
  PROVE  GroupInv'
BY FetchStep, FetchMissingStep, ReadStep, UpsertSteps, ListStep, DeleteStep, ReconcileFailsStep,
   AdvanceStep DEF Sync

LEMMA GroupStep == GroupInv /\ [GroupNext]_groupVars => GroupInv'
<1> SUFFICES ASSUME GroupInv, [GroupNext]_groupVars PROVE GroupInv'
  OBVIOUS
<1>1. CASE GroupNext
  BY <1>1, SyncStep, PageSteps, PublishStep, WithdrawStep, RestartSyncStep DEF GroupNext
<1>2. CASE UNCHANGED groupVars
  <2>1. GroupTypeOK'
    BY <1>2 DEF groupVars, GroupInv, GroupTypeOK
  <2>2. VersionInv' /\ PlaceInv' /\ \A n \in Names : HandInv(n)'
    BY <1>2 DEF groupVars, GroupInv, VersionInv, PlaceInv, HandInv, Has
  <2>3. \A n \in Names : (RestInv(n) => RestInv(n)') /\ (DutyInv(n) => DutyInv(n)')
    BY <1>2 DEF groupVars, RestInv, DutyInv, Known, Gone, Has, Top
  <2> QED
    BY <1>2, <2>1, <2>2, <2>3 DEF groupVars, GroupInv
<1> QED
  BY <1>1, <1>2

(* An override is written by a sync only if it is newer than the read.     *)
LEMMA SyncSpares ==
  ASSUME GroupInv, Sync, NEW n \in Names, Has(n, "local"), n \notin late
  PROVE  rows'[n] = rows[n]
<1>1. n \notin ids /\ rows[n] # NoRow
  BY DEF GroupInv, HandInv, Has
<1>2. CASE InsertGroup
  BY <1>1, <1>2 DEF InsertGroup, GroupInv, GroupTypeOK
<1>3. CASE UpdateSeen
  BY <1>1, <1>3 DEF UpdateSeen
<1>4. CASE DeleteStale
  BY <1>1, <1>4 DEF DeleteStale, GroupInv, GroupTypeOK
<1>5. CASE ~(InsertGroup \/ UpdateSeen \/ DeleteStale)
  BY <1>5 DEF Sync, FetchAgentGroups, FetchMissing, Received, ReadGroup, UpsertFails, ListSiteGroups,
     ReconcileFails, Advance, SyncDone
<1> QED
  BY <1>2, <1>3, <1>4, <1>5

(* Every variable of the synchronisation keeps its type.                   *)
THEOREM GroupTypes == GroupSpec => []GroupTypeOK
<1>1. GroupInv => GroupTypeOK
  BY DEF GroupInv
<1> QED
  BY GroupStarts, GroupStep, <1>1, PTL DEF GroupSpec

(* No publication and no withdrawal of a group is lost, for any number of  *)
(* groups and versions.                                                    *)
THEOREM SyncCatchesUp == GroupSpec => []CaughtUp
BY GroupStarts, GroupStep, CaughtUpHolds, PTL DEF GroupSpec

(* A sync does not write over an override that is older than its read.     *)
THEOREM OverridesStay == GroupSpec => OverrideKept
<1>1. GroupInv /\ [GroupNext]_groupVars =>
        [Sync => \A n \in Names : Has(n, "local") /\ n \notin late => rows'[n] = rows[n]]_groupVars
  BY SyncSpares
<1> QED
  BY GroupStarts, GroupStep, <1>1, PTL DEF GroupSpec, OverrideKept

-----------------------------------------------------------------------------
(* The disk reservations.                                                  *)

(* What each task has in the counter, and what it was promised: from its   *)
(* admission on, not only from its claim on.                               *)
Credited == [t \in Tasks |-> reservations[t] - delta[t]]
Promised ==
  [t \in Tasks |-> IF pc[t] = "claim" THEN Reserve(bytes[t]) ELSE reservations[t]]

DiskStage(t) ==
  /\ pc[t] \in {"idle", "stat", "test", "claim", "uncount", "sweep"}
       => reservations[t] = 0
  /\ pc[t] \notin {"count", "uncount"} => delta[t] = 0
  /\ pc[t] = "count" => delta[t] = reservations[t]
  /\ pc[t] = "uncount" => delta[t] <= 0
  /\ pc[t] \in {"stat", "test"} => bytes[t] \in TorrentSizes
  /\ seen[t] <= Budget

DiskStages == \A t \in Tasks : DiskStage(t)
CounterInv == diskReserved = Sum(Credited, Tasks)
PromiseInv == Sum(Promised, Tasks \ blind) <= Budget

DiskInv == DiskTypeOK /\ DiskStages /\ CounterInv /\ PromiseInv

(* About sums.                                                             *)

LEMMA InNumbered ==
  ASSUME NEW f, NEW S, NEW x
  PROVE  x \in Numbered(f, S) <=> \E t \in S : x \in {t} \X (1 .. f[t])
BY DEF Numbered

LEMMA NumberedFinite ==
  ASSUME NEW f \in [Tasks -> Nat], NEW S \in SUBSET Tasks
  PROVE  IsFiniteSet(Numbered(f, S)) /\ Sum(f, S) \in Nat
<1> DEFINE Boxes == {{t} \X (1 .. f[t]) : t \in S}
<1> DEFINE box == [t \in S |-> {t} \X (1 .. f[t])]
<1>1. IsFiniteSet(S)
  BY DiskAssumption, FS_Subset
<1>2. box \in Surjection(S, Boxes)
  BY DEF Surjection
<1>3. IsFiniteSet(Boxes)
  <2> HIDE DEF Boxes, box
  <2> QED
    BY <1>1, <1>2, FS_Surjection
<1>4. \A t \in S : IsFiniteSet({t} \X (1 .. f[t]))
  <2> TAKE t \in S
  <2>1. f[t] \in Int
    OBVIOUS
  <2>2. IsFiniteSet(1 .. f[t])
    BY <2>1, FS_Interval
  <2> QED
    BY <2>2, FS_Singleton, FS_Product
<1>5. \A B \in Boxes : IsFiniteSet(B)
  BY <1>4
<1>6. IsFiniteSet(Numbered(f, S))
  <2>1. Numbered(f, S) = UNION Boxes
    BY DEF Numbered
  <2> HIDE DEF Boxes
  <2> QED
    BY <1>3, <1>5, <2>1, FS_UNION
<1> QED
  BY <1>6, FS_CardinalityType DEF Sum

LEMMA SumMonotone ==
  ASSUME NEW f \in [Tasks -> Nat], NEW g \in [Tasks -> Nat],
         NEW S \in SUBSET Tasks, NEW T \in SUBSET Tasks,
         \A t \in S : f[t] = 0 \/ (t \in T /\ f[t] <= g[t])
  PROVE  Sum(f, S) <= Sum(g, T)
<1>1. Numbered(f, S) \subseteq Numbered(g, T)
  <2> SUFFICES ASSUME NEW x \in Numbered(f, S) PROVE x \in Numbered(g, T)
    OBVIOUS
  <2>1. PICK t \in S : x \in {t} \X (1 .. f[t])
    BY InNumbered
  <2>2. f[t] \in Nat /\ g[t] \in Nat /\ 1 .. f[t] # {}
    BY <2>1
  <2>3. f[t] # 0
    BY <2>2
  <2>4. t \in T /\ f[t] <= g[t]
    BY <2>3
  <2>5. 1 .. f[t] \subseteq 1 .. g[t]
    BY <2>2, <2>4
  <2>6. x \in {t} \X (1 .. g[t])
    BY <2>1, <2>5
  <2> QED
    BY <2>4, <2>6, InNumbered
<1> QED
  BY <1>1, NumberedFinite, FS_Subset DEF Sum

LEMMA SumSplit ==
  ASSUME NEW f \in [Tasks -> Nat], NEW S \in SUBSET Tasks, NEW t \in S
  PROVE  Sum(f, S) = Sum(f, S \ {t}) + f[t]
<1> DEFINE rest == Numbered(f, S \ {t})
<1> DEFINE own == {t} \X (1 .. f[t])
<1>1. Numbered(f, S) = rest \cup own
  BY DEF Numbered
<1>2. rest \cap own = {}
  BY InNumbered
<1>3. IsFiniteSet(rest)
  BY NumberedFinite
<1>4. IsFiniteSet(own) /\ Cardinality(own) = f[t]
  <2>1. f[t] \in Nat
    OBVIOUS
  <2>2. IsFiniteSet(1 .. f[t]) /\ Cardinality(1 .. f[t]) = f[t]
    BY <2>1, FS_Interval
  <2>3. IsFiniteSet({t}) /\ Cardinality({t}) = 1
    BY FS_Singleton
  <2>4. Cardinality(own) = 1 * f[t] /\ IsFiniteSet(own)
    BY <2>2, <2>3, FS_Product
  <2> QED
    BY <2>1, <2>4
<1> HIDE DEF rest, own
<1>5. Cardinality(rest \cup own) = Cardinality(rest) + Cardinality(own) - Cardinality({})
  BY <1>2, <1>3, <1>4, FS_Union
<1>6. Cardinality(rest) \in Nat /\ Cardinality({}) = 0 /\ f[t] \in Nat
  BY <1>3, FS_CardinalityType, FS_EmptySet
<1>7. Sum(f, S) = Cardinality(rest \cup own) /\ Sum(f, S \ {t}) = Cardinality(rest)
  BY <1>1 DEF Sum, rest
<1> QED
  BY <1>4, <1>5, <1>6, <1>7

LEMMA SumChange ==
  ASSUME NEW f \in [Tasks -> Nat], NEW g \in [Tasks -> Nat],
         NEW S \in SUBSET Tasks, NEW t \in S,
         \A u \in S \ {t} : g[u] = f[u]
  PROVE  Sum(g, S) = Sum(f, S) - f[t] + g[t]
<1>1. Sum(f, S \ {t}) = Sum(g, S \ {t})
  BY DEF Sum, Numbered
<1>2. Sum(f, S) = Sum(f, S \ {t}) + f[t] /\ Sum(g, S) = Sum(g, S \ {t}) + g[t]
  BY SumSplit
<1>3. Sum(f, S \ {t}) \in Nat /\ f[t] \in Nat /\ g[t] \in Nat
  BY NumberedFinite
<1> QED
  BY <1>1, <1>2, <1>3

LEMMA SumNothing ==
  ASSUME NEW f, NEW S, \A t \in S : f[t] = 0
  PROVE  Sum(f, S) = 0
<1>1. Numbered(f, S) = {}
  <2> SUFFICES ASSUME NEW x \in Numbered(f, S) PROVE FALSE
    OBVIOUS
  <2>1. PICK t \in S : x \in {t} \X (1 .. f[t])
    BY InNumbered
  <2>2. f[t] = 0
    OBVIOUS
  <2> QED
    BY <2>1, <2>2
<1> QED
  BY <1>1, FS_EmptySet DEF Sum

LEMMA Bounds ==
  /\ \A b \in Sizes : b \in Nat /\ Reserve(b) \in Nat
  /\ \A b \in TorrentSizes : b \in Sizes /\ Reserve(b) >= 1
  /\ Budget \in Nat
<1>1. ASSUME NEW b \in Nat PROVE Reserve(b) \in Nat /\ (b >= 1 => Reserve(b) >= 1)
  BY DEF Reserve
<1>2. \A b \in TorrentSizes : b \in Nat /\ b >= 1
  BY DiskAssumption
<1>3. \A b \in Sizes : b \in Nat
  BY <1>2 DEF Sizes
<1>4. Budget \in Nat
  <2>1. DiskMaxBytes <= DiskSize => Min({DiskMaxBytes, DiskSize}) \in Nat
    BY DiskAssumption DEF Min
  <2>2. DiskMaxBytes >= DiskSize => Min({DiskMaxBytes, DiskSize}) \in Nat
    BY DiskAssumption DEF Min
  <2> QED
    BY <2>1, <2>2, DiskAssumption DEF Budget
<1> QED
  BY <1>1, <1>2, <1>3, <1>4 DEF Sizes

LEMMA MaxIsOne ==
  ASSUME NEW i \in Int
  PROVE  Max({0, i}) \in Nat /\ (Max({0, i}) = 0 \/ Max({0, i}) = i)
<1>1. \E m \in {0, i} : \A y \in {0, i} : m >= y
  <2>1. CASE i <= 0
    BY <2>1
  <2>2. CASE i > 0
    BY <2>2
  <2> QED
    BY <2>1, <2>2
<1> QED
  BY <1>1 DEF Max

LEMMA FreeIsWithin ==
  ASSUME DiskTypeOK
  PROVE  FreeSpace \in Nat /\ FreeSpace <= Budget
<1>1. Used \in Nat
  BY NumberedFinite DEF Used, DiskTypeOK
<1>2. Budget \in Nat
  BY Bounds
<1> QED
  BY <1>1, <1>2, MaxIsOne DEF FreeSpace

DiskShares == Credited \in [Tasks -> Nat] /\ Promised \in [Tasks -> Nat]

LEMMA SharesAreNat == DiskTypeOK /\ DiskStages => DiskShares
<1> SUFFICES ASSUME DiskTypeOK, DiskStages PROVE DiskShares
  OBVIOUS
<1>1. ASSUME NEW t \in Tasks
      PROVE  reservations[t] \in Nat /\ reservations[t] - delta[t] \in Nat
  <2>1. reservations[t] \in Nat /\ delta[t] \in Int
    BY DEF DiskTypeOK
  <2>2. delta[t] <= 0 \/ delta[t] = reservations[t]
    BY <2>1 DEF DiskStages, DiskStage
  <2> QED
    BY <2>1, <2>2
<1>2. \A t \in Tasks : Reserve(bytes[t]) \in Nat
  BY Bounds DEF DiskTypeOK
<1> QED
  BY <1>1, <1>2 DEF DiskShares, Credited, Promised

LEMMA SharesStayNat == DiskTypeOK' /\ DiskStages' => DiskShares'
BY SharesAreNat, PTL

LEMMA DiskStarts == DiskInit => DiskInv
<1> SUFFICES ASSUME DiskInit PROVE DiskInv
  OBVIOUS
<1>1. DiskTypeOK
  BY DEF DiskInit, DiskTypeOK, Sizes
<1>2. DiskStages
  BY Bounds DEF DiskInit, DiskStages, DiskStage
<1>3. CounterInv
  <2>1. \A t \in Tasks : Credited[t] = 0
    BY DEF Credited, DiskInit
  <2> QED
    BY <2>1, SumNothing DEF CounterInv, DiskInit
<1>4. PromiseInv
  <2>1. \A t \in Tasks \ blind : Promised[t] = 0
    BY DEF Promised, DiskInit
  <2>2. Sum(Promised, Tasks \ blind) = 0
    BY <2>1, SumNothing
  <2> QED
    BY <2>2, Bounds DEF PromiseInv
<1> QED
  BY <1>1, <1>2, <1>3, <1>4 DEF DiskInv

(* The two ways the counter follows the shares, and the one way promises   *)
(* are kept without a test.                                                *)
LEMMA CounterStays ==
  ASSUME DiskInv, diskReserved' = diskReserved,
         \A t \in Tasks : reservations'[t] - delta'[t] = reservations[t] - delta[t]
  PROVE  CounterInv'
<1>1. Credited' = Credited
  BY DEF Credited
<1> QED
  BY <1>1 DEF DiskInv, CounterInv

LEMMA CounterSettles ==
  ASSUME DiskInv, NEW t \in Tasks,
         diskReserved' = diskReserved + delta[t],
         delta' = [delta EXCEPT ![t] = 0], reservations' = reservations
  PROVE  CounterInv' /\ diskReserved' \in Nat
<1>1. Credited \in [Tasks -> Nat] /\ delta[t] \in Int /\ reservations[t] \in Nat
  BY SharesAreNat DEF DiskInv, DiskShares, DiskTypeOK
<1>2. \A u \in Tasks \ {t} : Credited'[u] = Credited[u]
  BY DEF Credited, DiskInv, DiskTypeOK
<1>3. Credited[t] = reservations[t] - delta[t] /\ Credited'[t] = reservations[t]
  BY <1>1 DEF Credited, DiskInv, DiskTypeOK
<1>4. Credited' \in [Tasks -> Nat]
  <2>1. \A u \in Tasks : Credited'[u] \in Nat
    BY <1>1, <1>2, <1>3
  <2> QED
    BY <2>1 DEF Credited
<1>5. Sum(Credited', Tasks) = Sum(Credited, Tasks) - Credited[t] + Credited'[t]
  <2> DEFINE new == Credited'
  <2>1. new \in [Tasks -> Nat] /\ \A u \in Tasks \ {t} : new[u] = Credited[u]
    BY <1>2, <1>4
  <2> HIDE DEF new
  <2>2. Sum(new, Tasks) = Sum(Credited, Tasks) - Credited[t] + new[t]
    BY <1>1, <2>1, SumChange
  <2> QED
    BY <2>2 DEF new
<1>6. diskReserved = Sum(Credited, Tasks) /\ diskReserved \in Nat
  BY DEF DiskInv, CounterInv, DiskTypeOK
<1>7. diskReserved' = Sum(Credited', Tasks)
  BY <1>1, <1>3, <1>5, <1>6
<1> QED
  BY <1>4, <1>7, NumberedFinite DEF CounterInv

LEMMA PromisesShrink ==
  ASSUME DiskInv, DiskTypeOK', DiskStages',
         \A t \in Tasks \ blind' :
           Promised'[t] = 0 \/ (t \notin blind /\ Promised'[t] <= Promised[t])
  PROVE  PromiseInv'
<1> DEFINE new == Promised'
<1>1. Promised \in [Tasks -> Nat]
  BY SharesAreNat DEF DiskInv, DiskShares
<1>2. new \in [Tasks -> Nat]
  BY SharesStayNat DEF DiskShares
<1>3. \A t \in Tasks \ blind' : new[t] = 0 \/ (t \in Tasks \ blind /\ new[t] <= Promised[t])
  OBVIOUS
<1> HIDE DEF new
<1>4. Sum(new, Tasks \ blind') <= Sum(Promised, Tasks \ blind)
  BY <1>1, <1>2, <1>3, SumMonotone
<1>5. Sum(Promised, Tasks \ blind) <= Budget
  BY DEF DiskInv, PromiseInv
<1>6. Sum(new, Tasks \ blind') \in Nat /\ Sum(Promised, Tasks \ blind) \in Nat /\ Budget \in Nat
  BY <1>1, <1>2, NumberedFinite, Bounds
<1>7. Sum(new, Tasks \ blind') <= Budget
  BY <1>4, <1>5, <1>6
<1> QED
  BY <1>7 DEF PromiseInv, new

(* The steps.                                                              *)

LEMMA DiskStepTypes ==
  ASSUME DiskInv, NEW t \in Tasks, Step(t)
  PROVE  DiskTypeOK'
<1> USE DEF DiskInv, DiskTypeOK, Goto
<1>1. ASSUME Metadata(t) PROVE DiskTypeOK'
  BY <1>1 DEF Metadata, Sizes
<1>2. ASSUME Stat(t) PROVE DiskTypeOK'
  BY <1>2, FreeIsWithin DEF Stat
<1>3. ASSUME StatError(t) PROVE DiskTypeOK'
  BY <1>3 DEF StatError
<1>4. ASSUME Admit(t) PROVE DiskTypeOK'
  BY <1>4 DEF Admit
<1>5. ASSUME Refuse(t) PROVE DiskTypeOK'
  BY <1>5 DEF Refuse
<1>6. ASSUME ReserveDisk(t) PROVE DiskTypeOK'
  <2>1. Reserve(bytes[t]) \in Nat /\ reservations[t] \in Nat
    BY Bounds
  <2>2. ReserveDelta(t) \in Int
    BY <2>1 DEF ReserveDelta
  <2> QED
    BY <1>6, <2>1, <2>2 DEF ReserveDisk
<1>7. ASSUME Count(t) PROVE DiskTypeOK'
  <2>1. diskReserved' \in Nat
    BY <1>7, CounterSettles DEF Count
  <2> QED
    BY <1>7, <2>1 DEF Count
<1>8. ASSUME Write(t) PROVE DiskTypeOK'
  <2>1. bytes[t] \in Nat /\ Reserve(bytes[t]) \in Nat
    BY Bounds
  <2>2. PICK n \in {bytes[t], Reserve(bytes[t])} : written' = [written EXCEPT ![t] = n]
    BY <1>8 DEF Write
  <2>3. n \in Nat
    BY <2>1, <2>2
  <2> QED
    BY <1>8, <2>2, <2>3 DEF Write
<1>9. ASSUME DownloadFails(t) \/ Downloaded(t) \/ Remove(t) PROVE DiskTypeOK'
  BY <1>9 DEF DownloadFails, Downloaded, Remove
<1>10. ASSUME ReleaseDisk(t) PROVE DiskTypeOK'
  <2>1. -Released(t) \in Int
    BY DEF Released
  <2> QED
    BY <1>10, <2>1 DEF ReleaseDisk
<1>11. ASSUME Uncount(t) PROVE DiskTypeOK'
  <2>1. diskReserved' \in Nat
    BY <1>11, CounterSettles DEF Uncount
  <2> QED
    BY <1>11, <2>1 DEF Uncount
<1>12. ASSUME Sweep(t) PROVE DiskTypeOK'
  BY <1>12 DEF Sweep, Sizes
<1> HIDE DEF DiskInv, DiskTypeOK, Goto
<1> QED
  BY <1>1, <1>2, <1>3, <1>4, <1>5, <1>6, <1>7, <1>8, <1>9, <1>10, <1>11, <1>12 DEF Step

(* Nobody's stage but the task's own changes.                              *)
LEMMA OtherStages ==
  ASSUME DiskInv, NEW t \in Tasks, Step(t), NEW u \in Tasks, u # t
  PROVE  /\ pc'[u] = pc[u] /\ bytes'[u] = bytes[u] /\ seen'[u] = seen[u]
         /\ reservations'[u] = reservations[u] /\ delta'[u] = delta[u]
BY DEF DiskInv, DiskTypeOK, Step, Goto, Metadata, Stat, StatError, Admit, Refuse, ReserveDisk,
       Count, Write, DownloadFails, Downloaded, Remove, ReleaseDisk, Uncount, Sweep

LEMMA DiskStepStages ==
  ASSUME DiskInv, NEW t \in Tasks, Step(t)
  PROVE  DiskStages'
<1>1. \A u \in Tasks \ {t} : DiskStage(u)'
  BY OtherStages DEF DiskInv, DiskStages, DiskStage
<1>2. DiskTypeOK /\ DiskStage(t) /\ Budget \in Nat
  BY Bounds DEF DiskInv, DiskStages
<1> USE DEF DiskStage, DiskTypeOK, Goto
<1>3. ASSUME Metadata(t) PROVE DiskStage(t)'
  BY <1>2, <1>3 DEF Metadata
<1>4. ASSUME Stat(t) PROVE DiskStage(t)'
  BY <1>2, <1>4, FreeIsWithin DEF Stat
<1>5. ASSUME StatError(t) \/ Admit(t) \/ Refuse(t) PROVE DiskStage(t)'
  BY <1>2, <1>5 DEF StatError, Admit, Refuse
<1>6. ASSUME ReserveDisk(t) PROVE DiskStage(t)'
  <2>1. Reserve(bytes[t]) \in Nat
    BY <1>2, Bounds
  <2>2. ReserveDelta(t) = Reserve(bytes[t])
    BY <1>2, <1>6, <2>1 DEF ReserveDelta, ReserveDisk
  <2> QED
    BY <1>2, <1>6, <2>1, <2>2 DEF ReserveDisk
<1>7. ASSUME Count(t) \/ Uncount(t) PROVE DiskStage(t)'
  BY <1>2, <1>7 DEF Count, Uncount
<1>8. ASSUME Write(t) \/ DownloadFails(t) \/ Downloaded(t) \/ Remove(t) PROVE DiskStage(t)'
  BY <1>2, <1>8 DEF Write, DownloadFails, Downloaded, Remove
<1>9. ASSUME ReleaseDisk(t) PROVE DiskStage(t)'
  BY <1>2, <1>9 DEF ReleaseDisk, Released
<1>10. ASSUME Sweep(t) PROVE DiskStage(t)'
  BY <1>2, <1>10 DEF Sweep
<1> HIDE DEF DiskStage, DiskTypeOK, Goto
<1>11. DiskStage(t)'
  BY <1>3, <1>4, <1>5, <1>6, <1>7, <1>8, <1>9, <1>10 DEF Step
<1> QED
  BY <1>1, <1>11 DEF DiskStages

LEMMA DiskStepCounter ==
  ASSUME DiskInv, NEW t \in Tasks, Step(t)
  PROVE  CounterInv'
<1>1. DiskTypeOK /\ DiskStage(t)
  BY DEF DiskInv, DiskStages
<1>2. ASSUME UNCHANGED <<reservations, delta, diskReserved>> PROVE CounterInv'
  BY <1>2, CounterStays
<1>3. ASSUME ReserveDisk(t) PROVE CounterInv'
  <2>1. Reserve(bytes[t]) \in Nat /\ reservations[t] = 0 /\ delta[t] = 0
    BY <1>1, <1>3, Bounds DEF ReserveDisk, DiskTypeOK, DiskStage
  <2>2. reservations'[t] = Reserve(bytes[t]) /\ delta'[t] = Reserve(bytes[t])
    BY <1>1, <1>3, <2>1 DEF ReserveDisk, ReserveDelta, DiskTypeOK
  <2>3. reservations'[t] - delta'[t] = reservations[t] - delta[t]
    BY <2>1, <2>2
  <2>4. diskReserved' = diskReserved
    BY <1>3 DEF ReserveDisk
  <2>5. \A u \in Tasks : reservations'[u] - delta'[u] = reservations[u] - delta[u]
    BY <2>3, OtherStages
  <2> QED
    BY <2>4, <2>5, CounterStays
<1>4. ASSUME ReleaseDisk(t) PROVE CounterInv'
  <2>1. reservations[t] \in Nat /\ delta[t] = 0
    BY <1>1, <1>4 DEF ReleaseDisk, DiskTypeOK, DiskStage
  <2>2. reservations'[t] = 0 /\ delta'[t] = -reservations[t]
    BY <1>1, <1>4, <2>1 DEF ReleaseDisk, Released, DiskTypeOK
  <2>3. reservations'[t] - delta'[t] = reservations[t] - delta[t]
    BY <2>1, <2>2
  <2>4. diskReserved' = diskReserved
    BY <1>4 DEF ReleaseDisk
  <2>5. \A u \in Tasks : reservations'[u] - delta'[u] = reservations[u] - delta[u]
    BY <2>3, OtherStages
  <2> QED
    BY <2>4, <2>5, CounterStays
<1>5. ASSUME Count(t) \/ Uncount(t) PROVE CounterInv'
  BY <1>5, CounterSettles DEF Count, Uncount
<1> QED
  BY <1>2, <1>3, <1>4, <1>5 DEF Step, Metadata, Stat, StatError, Admit, Refuse,
     Write, DownloadFails, Downloaded, Remove, Sweep

(* An admission that sees every claim: what the counter shows is at least  *)
(* what the others were promised.                                          *)
LEMMA AdmittedFits ==
  ASSUME DiskInv, NEW t \in Tasks, Admit(t), Uncounted = {},
         DiskTypeOK', DiskStages'
  PROVE  PromiseInv'
<1> DEFINE S == Tasks \ blind
<1> DEFINE new == Promised'
<1>1. Credited \in [Tasks -> Nat] /\ Promised \in [Tasks -> Nat]
  BY SharesAreNat DEF DiskInv, DiskShares
<1>2. new \in [Tasks -> Nat]
  BY SharesStayNat DEF DiskShares
<1>3. Sum(Promised, S) <= diskReserved
  <2>1. ASSUME NEW u \in Tasks PROVE Promised[u] <= Credited[u]
    <3>1. pc[u] # "claim" /\ pc[u] # "count"
      BY DEF Uncounted
    <3>2. reservations[u] \in Nat /\ delta[u] \in Int /\ delta[u] <= 0
      BY <3>1 DEF DiskInv, DiskTypeOK, DiskStages, DiskStage
    <3>3. Promised[u] = reservations[u] /\ Credited[u] = reservations[u] - delta[u]
      BY <3>1 DEF Promised, Credited
    <3> QED
      BY <3>2, <3>3
  <2> HIDE DEF S
  <2>2. Sum(Promised, S) <= Sum(Credited, Tasks)
    <3>1. S \subseteq Tasks
      BY DEF S
    <3> QED
      BY <1>1, <2>1, <3>1, SumMonotone
  <2> QED
    BY <2>2 DEF DiskInv, CounterInv
<1>4. blind' = blind /\ \A u \in Tasks \ {t} : new[u] = Promised[u]
  <2>1. blind' = blind
    BY DEF Admit
  <2>2. \A u \in Tasks \ {t} : new[u] = Promised[u]
    BY OtherStages DEF Step, Promised
  <2> QED
    BY <2>1, <2>2
<1>5. new[t] = Reserve(bytes[t]) /\ new[t] >= 1
  <2>1. pc'[t] = "claim" /\ bytes'[t] = bytes[t] /\ pc[t] = "test"
    BY DEF Admit, Goto, DiskInv, DiskTypeOK
  <2>2. new[t] = Reserve(bytes[t])
    BY <2>1 DEF Promised
  <2>3. bytes[t] \in TorrentSizes
    BY <2>1 DEF DiskInv, DiskStages, DiskStage
  <2> QED
    BY <2>2, <2>3, Bounds
<1>6. Promised[t] \in Nat /\ new[t] \in Nat /\ diskReserved \in Nat /\ Budget \in Nat
      /\ seen[t] \in Nat
  BY <1>1, <1>2, Bounds DEF DiskInv, DiskTypeOK
<1>7. Effective(t) >= new[t] /\ seen[t] <= Budget
  BY <1>5 DEF Admit, DiskInv, DiskStages, DiskStage
<1>8. new[t] + diskReserved <= Budget
  <2>1. CASE diskReserved <= 0
    BY <1>6, <1>7, <2>1 DEF Effective
  <2>2. CASE diskReserved > 0
    <3>1. Effective(t) = Max({0, seen[t] - diskReserved})
      BY <1>6, <2>2 DEF Effective
    <3>2. Effective(t) = 0 \/ Effective(t) = seen[t] - diskReserved
      BY <1>6, <3>1, MaxIsOne
    <3> QED
      BY <1>5, <1>6, <1>7, <3>2
  <2> QED
    BY <1>6, <2>1, <2>2
<1> HIDE DEF new, S
<1>9. S \subseteq Tasks /\ Sum(Promised, S) \in Nat
  BY <1>1, NumberedFinite DEF S
<1>10. CASE t \in S
  <2>1. Sum(new, S) = Sum(Promised, S) - Promised[t] + new[t]
    BY <1>1, <1>2, <1>4, <1>9, <1>10, SumChange
  <2>2. Sum(new, S) <= Budget
    BY <1>3, <1>6, <1>8, <1>9, <2>1
  <2> QED
    BY <1>4, <2>2 DEF PromiseInv, new, S
<1>11. CASE t \notin S
  <2>1. \A u \in S : new[u] = Promised[u]
    BY <1>4, <1>9, <1>11
  <2>2. Sum(new, S) = Sum(Promised, S)
    BY <2>1 DEF Sum, Numbered
  <2>3. Sum(new, S) <= Budget
    BY <2>2 DEF DiskInv, PromiseInv, S
  <2> QED
    BY <1>4, <2>3 DEF PromiseInv, new, S
<1> QED
  BY <1>10, <1>11

LEMMA DiskStepPromises ==
  ASSUME DiskInv, NEW t \in Tasks, Step(t), DiskTypeOK', DiskStages'
  PROVE  PromiseInv'
<1>1. DiskTypeOK /\ DiskStage(t) /\ DiskStage(t)' /\ Promised[t] \in Nat
  BY SharesAreNat DEF DiskInv, DiskStages, DiskShares
<1>2. \A u \in Tasks \ {t} : Promised'[u] = Promised[u] /\ Promised[u] <= Promised[u]
  <2>1. \A u \in Tasks \ {t} : Promised'[u] = Promised[u]
    BY OtherStages DEF Promised
  <2>2. \A u \in Tasks : Promised[u] \in Nat
    BY SharesAreNat DEF DiskInv, DiskShares
  <2> QED
    BY <2>1, <2>2
<1>3. ASSUME blind' \in {blind, blind \cup {t}},
             Promised'[t] = 0 \/ Promised'[t] = Promised[t] \/ t \in blind'
      PROVE  PromiseInv'
  <2>1. \A u \in Tasks \ blind' :
          Promised'[u] = 0 \/ (u \notin blind /\ Promised'[u] <= Promised[u])
    BY <1>1, <1>2, <1>3
  <2> QED
    BY <2>1, PromisesShrink
<1>4. ASSUME pc[t] # "claim", pc'[t] # "claim", reservations' = reservations,
             blind' = blind
      PROVE  PromiseInv'
  <2>1. Promised'[t] = Promised[t]
    BY <1>4 DEF Promised
  <2> QED
    BY <1>3, <1>4, <2>1
<1>5. ASSUME Metadata(t) \/ Stat(t) \/ Refuse(t) \/ Count(t) \/ Write(t)
             \/ DownloadFails(t) \/ Downloaded(t) \/ Remove(t) \/ Uncount(t)
      PROVE  PromiseInv'
  BY <1>1, <1>4, <1>5 DEF Metadata, Stat, Refuse, Count, Write, DownloadFails,
     Downloaded, Remove, Uncount, Goto, DiskTypeOK
<1>6. ASSUME StatError(t) PROVE PromiseInv'
  BY <1>3, <1>6 DEF StatError
<1>7. ASSUME Admit(t) PROVE PromiseInv'
  <2>1. CASE Uncounted = {}
    BY <1>7, <2>1, AdmittedFits
  <2>2. CASE Uncounted # {}
    BY <1>3, <1>7, <2>2 DEF Admit
  <2> QED
    BY <2>1, <2>2
<1>8. ASSUME ReserveDisk(t) PROVE PromiseInv'
  <2>1. Promised[t] = Reserve(bytes[t])
    BY <1>8 DEF Promised, ReserveDisk
  <2>2. reservations'[t] = Reserve(bytes[t]) /\ pc'[t] = "count"
    BY <1>1, <1>8 DEF ReserveDisk, Goto, DiskTypeOK
  <2>3. Promised'[t] = Promised[t]
    BY <2>1, <2>2 DEF Promised
  <2> QED
    BY <1>3, <1>8, <2>3 DEF ReserveDisk
<1>9. ASSUME ReleaseDisk(t) PROVE PromiseInv'
  <2>1. reservations'[t] = 0 /\ pc'[t] = "uncount"
    BY <1>1, <1>9 DEF ReleaseDisk, Goto, DiskTypeOK
  <2>2. Promised'[t] = 0
    BY <2>1 DEF Promised
  <2> QED
    BY <1>3, <1>9, <2>2 DEF ReleaseDisk
<1>10. ASSUME Sweep(t) PROVE PromiseInv'
  <2>1. pc'[t] = "idle" /\ blind' = blind \ {t}
    BY <1>1, <1>10 DEF Sweep, Goto, DiskTypeOK
  <2>2. Promised'[t] = 0
    BY <1>1, <2>1 DEF Promised, DiskStage
  <2>3. \A u \in Tasks \ blind' :
          Promised'[u] = 0 \/ (u \notin blind /\ Promised'[u] <= Promised[u])
    BY <1>2, <2>1, <2>2
  <2> QED
    BY <2>3, PromisesShrink
<1> QED
  BY <1>5, <1>6, <1>7, <1>8, <1>9, <1>10 DEF Step

LEMMA DiskInvHolds == DiskSpec => []DiskInv
<1>1. DiskInv /\ [DiskNext]_diskVars => DiskInv'
  <2> SUFFICES ASSUME DiskInv, [DiskNext]_diskVars PROVE DiskInv'
    OBVIOUS
  <2>1. ASSUME NEW t \in Tasks, Step(t) PROVE DiskInv'
    BY <2>1, DiskStepTypes, DiskStepStages, DiskStepCounter, DiskStepPromises DEF DiskInv
  <2>2. ASSUME UNCHANGED diskVars PROVE DiskInv'
    BY <2>2 DEF diskVars, DiskInv, DiskTypeOK, DiskStages, DiskStage, CounterInv, Credited,
       PromiseInv, Promised
  <2> QED
    BY <2>1, <2>2 DEF DiskNext
<1> QED
  BY <1>1, DiskStarts, PTL DEF DiskSpec

(* Every variable keeps its type (the counter never goes negative).        *)
THEOREM DiskTypes == DiskSpec => []DiskTypeOK
<1>1. DiskInv => DiskTypeOK
  BY DEF DiskInv
<1> QED
  BY <1>1, DiskInvHolds, PTL

(* When no task runs the counter is back at zero, for any number of tasks, *)
(* torrent sizes and disk: ReserveDisk and ReleaseDisk leave nothing over. *)
THEOREM NoPhantoms == DiskSpec => []NoPhantomBytes
<1>1. DiskInv => NoPhantomBytes
  <2> SUFFICES ASSUME DiskInv, \A t \in Tasks : pc[t] = "idle" PROVE diskReserved = 0
    BY DEF NoPhantomBytes
  <2>1. \A t \in Tasks : Credited[t] = 0
    BY DEF Credited, DiskInv, DiskStages, DiskStage
  <2> QED
    BY <2>1, SumNothing DEF DiskInv, CounterInv
<1> QED
  BY <1>1, DiskInvHolds, PTL

(* The tasks whose admission saw every other claim fit the disk together,  *)
(* for any number of tasks, torrent sizes and disk                         *)
(* (FreeDiskAfterReservations).                                            *)
THEOREM SightedFit == DiskSpec => []SightedTasksFit
<1>1. DiskInv => SightedTasksFit
  <2> SUFFICES ASSUME DiskInv PROVE Sum(reservations, Tasks \ blind) <= Budget
    BY DEF SightedTasksFit
  <2>1. reservations \in [Tasks -> Nat] /\ Promised \in [Tasks -> Nat]
    BY SharesAreNat DEF DiskInv, DiskShares, DiskTypeOK
  <2>2. \A t \in Tasks : reservations[t] = 0 \/ reservations[t] = Promised[t]
    BY DEF DiskInv, DiskStages, DiskStage, Promised
  <2>3. \A t \in Tasks \ blind :
          reservations[t] = 0 \/ (t \in Tasks \ blind /\ reservations[t] <= Promised[t])
    BY <2>1, <2>2
  <2>4. Sum(reservations, Tasks \ blind) <= Sum(Promised, Tasks \ blind)
    BY <2>1, <2>3, SumMonotone
  <2>5. Sum(Promised, Tasks \ blind) <= Budget
    BY DEF DiskInv, PromiseInv
  <2>6. Sum(reservations, Tasks \ blind) \in Nat /\ Sum(Promised, Tasks \ blind) \in Nat
        /\ Budget \in Nat
    BY <2>1, NumberedFinite, Bounds
  <2> QED
    BY <2>4, <2>5, <2>6
<1> QED
  BY <1>1, DiskInvHolds, PTL
=============================================================================
