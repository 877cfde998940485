----------------------------- MODULE OfferSync -----------------------------
(***************************************************************************)
(* The offers: every tick the agent walks the operator's folder and some   *)
(* pages of a tracker's feed, notes for each bucket how it could be        *)
(* delivered, and registers it with the site.  Buckets stand for the       *)
(* hashes of title, season, episode and quality; a title the site cannot   *)
(* resolve has none and is left out.  A page and a batch are one release.  *)
(* The feed is the tracker's: releases land at its head and drop out of it *)
(* at any time, between the pages of a walk and between the ticks.         *)
(***************************************************************************)
EXTENDS Integers, Sequences

CONSTANTS
  Buckets,
  Items,       \* the releases a tracker may have
  BucketOf,
  FirstFeed,   \* what it has at first, newest first
  Linked,      \* items that carry the URL of a .torrent
  MaxPages,    \* of a tick
  NoEntry

ASSUME OfferSyncAssumption ==
  /\ BucketOf \in [Items -> Buckets] /\ FirstFeed \in Seq(Items) /\ Linked \subseteq Items
  /\ MaxPages \in Nat \ {0}
  /\ NoEntry \notin Buckets

VARIABLES
  files,       \* buckets of which the folder has a file
  routes,      \* the offer_paths table: the routes to a bucket
  feed,        \* the tracker's list, newest first
  cursor,      \* the scrape_cursors table: items consumed
  offers,      \* the site's: what each source has a bucket down as
  offering,    \* idle, folder, scrape, tracker
  work,        \* buckets of the folder, or items, still to register
  entry,       \* the bucket that is noted and not registered
  start,       \* the offset the walk of the feed began at
  offset,      \* of the next page
  localIndex,  \* buckets of which the scrape has found a file
  scraped,     \* items fetched in this pass, which began at the newest
  landed,      \* items that are new since it began
  slipped,     \* items it went past, because one before them was dropped
  unnoted      \* buckets a route to which could not be noted

passVars == <<scraped, landed, slipped>>

offerSyncVars == <<files, routes, feed, cursor, offers, offering, work, entry, start, offset,
                   localIndex, passVars, unnoted>>

OfferSyncTypeOK ==
  /\ files \subseteq Buckets
  /\ routes \in [Buckets -> SUBSET {"local", "remote"}]
  /\ feed \in Seq(Items)
  /\ cursor \in Nat
  /\ offers \in [{"folder", "tracker"} -> [Buckets -> {"none", "have", "can_get"}]]
  /\ offering \in {"idle", "folder", "scrape", "tracker"}
  /\ work \subseteq Buckets \cup Items
  /\ entry \in Buckets \cup {NoEntry}
  /\ start \in Nat /\ offset \in Nat
  /\ localIndex \subseteq Buckets
  /\ scraped \subseteq Items /\ landed \subseteq Items /\ slipped \subseteq Items
  /\ unnoted \subseteq Buckets

OfferSyncInit ==
  /\ files \in SUBSET Buckets
  /\ routes = [b \in Buckets |-> {}]
  /\ feed = FirstFeed /\ cursor = 0
  /\ offers = [s \in {"folder", "tracker"} |-> [b \in Buckets |-> "none"]]
  /\ offering = "idle" /\ work = {} /\ entry = NoEntry /\ start = 0 /\ offset = 0
  /\ localIndex = {} /\ unnoted = {}
  /\ scraped = {} /\ landed = {} /\ slipped = {}

-----------------------------------------------------------------------------
(* UpsertOfferSource: what has not been learned leaves the row alone.      *)

(* Mutant: the row is overwritten.                                         *)
Overwritten(b, learned) == learned

Upserted(b, learned) == routes[b] \cup learned

(* An error of the database is logged, and the bucket registered even so;  *)
(* a release without any route is not noted at all.                        *)
Note(b, learned) ==
  \/ /\ learned # {}
     /\ routes' = [routes EXCEPT ![b] = Upserted(b, learned)]
     /\ unnoted' = unnoted
  \/ UNCHANGED routes /\ unnoted' = unnoted \cup {b}

Register(source, b, kind) ==
  offers' = [offers EXCEPT ![source] = [@ EXCEPT ![b] = kind]]

Idle ==
  /\ offering' = "idle" /\ work' = {} /\ entry' = NoEntry
  /\ start' = 0 /\ offset' = 0 /\ localIndex' = {}

(* syncFolder: an empty walk leaves at once.                               *)
ScanFolder ==
  /\ offering = "idle"
  /\ offering' = "folder" /\ work' = files
  /\ UNCHANGED <<files, routes, feed, cursor, offers, entry, start, offset, localIndex, passVars, unnoted>>

(* The path is noted before the bucket is registered.                      *)
NotePath ==
  /\ offering = "folder" /\ entry = NoEntry
  /\ \E b \in work :
       /\ Note(b, {"local"})
       /\ entry' = b /\ work' = work \ {b}
  /\ UNCHANGED <<files, feed, cursor, offers, offering, start, offset, localIndex, passVars>>

(* An answer may be lost: the bucket is registered and the source given up.*)
RegisterHave ==
  /\ offering = "folder" /\ entry # NoEntry
  /\ Register("folder", entry, "have")
  /\ entry' = NoEntry
  /\ UNCHANGED <<files, routes, feed, cursor, offering, work, start, offset, localIndex, passVars, unnoted>>

(* The titles are not resolved, or the site answers no.                    *)
SourceFails ==
  /\ offering \in {"folder", "tracker"}
  /\ Idle
  /\ UNCHANGED <<files, routes, feed, cursor, offers, passVars, unnoted>>

SourceEnds ==
  /\ offering \in {"folder", "tracker"} /\ work = {} /\ entry = NoEntry
  /\ Idle
  /\ UNCHANGED <<files, routes, feed, cursor, offers, passVars, unnoted>>

-----------------------------------------------------------------------------
(* syncScraper.  When the cursor cannot be read the walk begins at the     *)
(* newest.                                                                 *)
StartScrape ==
  /\ offering = "idle"
  /\ offering' = "scrape"
  /\ start' \in {cursor, 0} /\ offset' = start'
  /\ IF cursor = 0 THEN scraped' = {} /\ landed' = {} /\ slipped' = {}
                   ELSE UNCHANGED passVars
  /\ UNCHANGED <<files, routes, feed, cursor, offers, work, entry, localIndex, unnoted>>

(* A page is what the list has at the offset when it is asked for.         *)
FetchPage ==
  /\ offering = "scrape" /\ offset < Len(feed) /\ offset < start + MaxPages
  /\ offset' = offset + 1
  /\ work' = work \cup {feed[offset + 1]}
  /\ scraped' = scraped \cup {feed[offset + 1]}
  /\ UNCHANGED <<files, routes, feed, cursor, offers, offering, entry, start, localIndex,
                 landed, slipped, unnoted>>

Park(next) == cursor' = next \/ UNCHANGED cursor

(* A walk that the end of the feed, the limit, or a failed page after a    *)
(* good one has ended parks the cursor; the save may fail, and is logged.  *)
ScanEnds(next) ==
  /\ offering = "scrape"
  /\ Park(next)
  /\ \/ work = {} /\ Idle
     \/ /\ work # {}
        /\ offering' = "tracker" /\ localIndex' = files /\ start' = 0 /\ offset' = 0
        /\ UNCHANGED <<work, entry>>
  /\ UNCHANGED <<files, routes, feed, offers, passVars, unnoted>>

(* An empty page: the list may by now be shorter than the offset.          *)
FeedEnds == offset >= Len(feed) /\ offset < start + MaxPages /\ ScanEnds(0)

LimitReached == offset = start + MaxPages /\ ScanEnds(offset)

(* Mutant: the page that failed is not asked for again.                    *)
PageSkipped == offset < Len(feed) /\ offset < start + MaxPages /\ ScanEnds(offset + 1)

(* On the first page it is an error, and the cursor stays.                 *)
PageFails == offset < start + MaxPages /\ ScanEnds(offset)

Learned(i) ==
  {r \in {"local", "remote"} : \/ r = "local" /\ BucketOf[i] \in localIndex
                               \/ r = "remote" /\ i \in Linked}

NoteSource ==
  /\ offering = "tracker" /\ entry = NoEntry
  /\ \E i \in work :
       /\ Note(BucketOf[i], Learned(i))
       /\ entry' = BucketOf[i] /\ work' = work \ {i}
  /\ UNCHANGED <<files, feed, cursor, offers, offering, start, offset, localIndex, passVars>>

RegisterScraped ==
  /\ offering = "tracker" /\ entry # NoEntry
  /\ Register("tracker", entry, IF entry \in localIndex THEN "have" ELSE "can_get")
  /\ entry' = NoEntry
  /\ UNCHANGED <<files, routes, feed, cursor, offering, work, start, offset, localIndex, passVars, unnoted>>

-----------------------------------------------------------------------------
(* A release comes to the tracker.                                         *)
Land ==
  /\ \E i \in Items :
       /\ \A k \in 1 .. Len(feed) : feed[k] # i
       /\ feed' = <<i>> \o feed
       /\ landed' = landed \cup {i}
  /\ UNCHANGED <<files, routes, cursor, offers, offering, work, entry, start, offset, localIndex,
                 scraped, slipped, unnoted>>

(* The item that a drop at p moves from behind the first n of the feed to  *)
(* among them.                                                             *)
Slips(p, n) == IF p <= n /\ n < Len(feed) THEN {feed[n + 1]} ELSE {}

(* A release goes from the tracker: what follows it moves up by one.       *)
Drop ==
  /\ \E p \in 1 .. Len(feed) :
       /\ feed' = SubSeq(feed, 1, p - 1) \o SubSeq(feed, p + 1, Len(feed))
       /\ slipped' = slipped \cup Slips(p, cursor)
                             \cup (IF offering = "scrape" THEN Slips(p, offset) ELSE {})
  /\ UNCHANGED <<files, routes, cursor, offers, offering, work, entry, start, offset, localIndex,
                 scraped, landed, unnoted>>

FilesChange ==
  /\ offering # "idle"
  /\ \E b \in Buckets : files' = IF b \in files THEN files \ {b} ELSE files \cup {b}
  /\ UNCHANGED <<routes, feed, cursor, offers, offering, work, entry, start, offset, localIndex, passVars, unnoted>>

RestartOffers ==
  /\ offering # "idle"
  /\ Idle
  /\ UNCHANGED <<files, routes, feed, cursor, offers, passVars, unnoted>>

OfferSyncNext ==
  \/ ScanFolder \/ NotePath \/ RegisterHave \/ SourceFails \/ SourceEnds
  \/ StartScrape \/ FetchPage \/ FeedEnds \/ LimitReached \/ PageFails
  \/ NoteSource \/ RegisterScraped
  \/ Land \/ Drop \/ FilesChange \/ RestartOffers

OfferSyncSpec == OfferSyncInit /\ [][OfferSyncNext]_offerSyncVars

-----------------------------------------------------------------------------
(* An offer the site shows has a route the agent knows, across crashes and *)
(* whichever source wrote last: a local one when it says the agent has the *)
(* file.  Only an error of the database, or a release that came without a  *)
(* link and without a file, makes an exception.                            *)
Routed(s, b) ==
  /\ offers[s][b] = "have" => "local" \in routes[b]
  /\ offers[s][b] = "can_get" => routes[b] # {}

OffersRouted == \A b \in Buckets \ unnoted : Routed("folder", b) /\ Routed("tracker", b)

(* A pass over the feed, however many ticks, failed pages, failed saves    *)
(* and restarts it takes, goes past nothing of its own accord: when it     *)
(* comes to the end, each item the tracker then has was fetched, or is new *)
(* since the pass began, or had slipped for the only reason an offset into *)
(* a moving list lets one: an item dropped in front of it.  The histories  *)
(* begin anew with each pass, so that what slips one pass the next one     *)
(* fetches, unless it slips again.                                         *)
PassCovers ==
  [][FeedEnds => \A k \in 1 .. Len(feed) : feed[k] \in scraped \cup landed \cup slipped]_offerSyncVars
=============================================================================
