------------------------------ MODULE MCParts ------------------------------
(* The task loop, the disk reservations, and the services beside them, on  *)
(* small instances.  As they are modelled they share nothing, so that each *)
(* is explored by itself: the initial state chooses which one moves.       *)
EXTENDS CollectionScanner, GroupSync, Inventory, OfferSync, DiskReserve, TaskLoop, TLC

VARIABLE part

CONSTANTS season, episode, anime, manga, film, series, web, remux, pack

MCParent == episode :> season
MCBucketOf == web :> film @@ remux :> film @@ pack :> series
MCFeed == <<web, pack>>

TaskSymmetry == Permutations(Requests) \cup Permutations(Slots)

partsVars == <<part, collectionVars, groupVars, inventoryVars, offerSyncVars, diskVars, vars>>

PartsInit ==
  /\ part \in {"collection", "groups", "inventory", "offers", "walk", "disk", "loop"}
  /\ CollectionInit /\ GroupInit
  /\ InventoryInit /\ (part # "inventory" => library = {})
  /\ OfferSyncInit /\ (part # "offers" => files = {})
  /\ DiskInit
  /\ Init /\ (part # "loop" => limit = 1)

CollectionMoves ==
  /\ part = "collection" /\ CollectionNext
  /\ UNCHANGED <<part, groupVars, inventoryVars, offerSyncVars, diskVars, vars>>

GroupsMove ==
  /\ part = "groups" /\ GroupNext
  /\ UNCHANGED <<part, collectionVars, inventoryVars, offerSyncVars, diskVars, vars>>

InventoryMoves ==
  /\ part = "inventory" /\ InventoryNext
  /\ UNCHANGED <<part, collectionVars, groupVars, offerSyncVars, diskVars, vars>>

(* The offers beside a tracker that stands still, and the walk beside one  *)
(* that moves: it reads nothing of the folder or of what was registered.   *)
OffersMove ==
  /\ part = "offers" /\ UNCHANGED feed /\ OfferSyncNext
  /\ UNCHANGED <<part, collectionVars, groupVars, inventoryVars, diskVars, vars>>

WalkMoves ==
  /\ part = "walk" /\ UNCHANGED <<files, routes, offers, unnoted>> /\ OfferSyncNext
  /\ UNCHANGED <<part, collectionVars, groupVars, inventoryVars, diskVars, vars>>

DiskMoves ==
  /\ part = "disk" /\ DiskNext
  /\ UNCHANGED <<part, collectionVars, groupVars, inventoryVars, offerSyncVars, vars>>

LoopMoves ==
  /\ part = "loop" /\ Next
  /\ UNCHANGED <<part, collectionVars, groupVars, inventoryVars, offerSyncVars, diskVars>>

PartsNext ==
  \/ CollectionMoves \/ GroupsMove \/ InventoryMoves \/ OffersMove \/ WalkMoves
  \/ DiskMoves \/ LoopMoves

PartsSpec == PartsInit /\ [][PartsNext]_partsVars
=============================================================================
