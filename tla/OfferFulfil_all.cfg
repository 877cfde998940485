SPECIFICATION MCSpec
CONSTANTS
  collector = collector
  leecher = leecher
  film = film
  season = season
  mkv = mkv
  srt = srt
  e1 = e1
  e2 = e2
  e3 = e3
  Agents = {collector, leecher}
  NoAgent = NoAgent
  Requests = {film, season}
  NoRequest = NoRequest
  Holds <- MCHolds
  Library <- MCLibrary
  Folders <- MCFolders
  FileFilter <- MCFileFilter
  Torrents <- MCTorrents
  RemoteOn = {leecher}
  Uploadable = {mkv, srt, e1, e2, e3}
  MaxOpen = 1
INVARIANTS
  ClaimKept
  DeliveredScope
PROPERTY ClaimsEnd
