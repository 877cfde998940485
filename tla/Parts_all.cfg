\* One folder with one video; two groups and three publications; three files,
\* of which a walk takes two; two buckets, the first item without a link; three
\* tasks under a cap below the size of the disk: three small torrents fit, or a
\* small and a large one (5 units with the multiplier); two requests, two task
\* goroutines, and a limit the site changes between one and two.
CONSTANTS
  season = season
  episode = episode
  Paths = {episode}
  Dirs = {season}
  Parent <- MCParent
  NoSnapshot = NoSnapshot
  Torn = Torn
  MaxChanges = 4
  anime = anime
  manga = manga
  Names = {anime, manga}
  NoRow = NoRow
  MaxVersion = 3
  Last = 3
  MaxFiles = 2
  ProbeBatch = 2
  MaxMoves = 1
  film = film
  series = series
  Buckets = {film, series}
  web = web
  remux = remux
  pack = pack
  Items = {web, remux, pack}
  BucketOf <- MCBucketOf
  FirstFeed <- MCFeed
  Linked = {remux, pack}
  MaxPages = 2
  NoEntry = NoEntry
  Tasks = {t1, t2, t3}
  TorrentSizes = {2, 4}
  DiskSize = 10
  DiskMaxBytes = 8
  StatErrors = TRUE
  Requests = {r1, r2}
  NoRequest = none
  Slots = {s1, s2}
  Limits = {1, 2}
  AbortThreshold = 2
  WriteOutcomes = {TRUE}
  MaxEvents = 2
  MaxHanded = 3
SYMMETRY TaskSymmetry
SPECIFICATION PartsSpec
INVARIANT OneTaskPerRequest
INVARIANT FinishedKept
INVARIANT OneVerdict
INVARIANT NoPhantomBytes
INVARIANT SightedTasksFit
INVARIANT FileWhole
INVARIANT FileCurrent
INVARIANT CaughtUp
INVARIANT BlankWasLooked
INVARIANT OffersRouted
PROPERTY OverrideKept
PROPERTY UnvisitedKept
PROPERTY PassCovers
PROPERTY CooldownHonoured
PROPERTY CapacityKept
PROPERTY DrainsFirst
