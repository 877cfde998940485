SPECIFICATION FairSpec
CONSTANTS
  task = task
  offer = offer
  video = video
  archive = archive
  stray = stray
  episode = episode
  shot = shot
  parity = parity
  sealed = sealed
  NoJob = NoJob
  Jobs = {task, offer}
  Tasks = {task}
  Encrypting = {task}
  Obfuscating = {}
  SameDevice = {task, offer}
  Release <- MCRelease
  Sidecars = {shot}
  Inside <- MCInside
  Kind <- MCKind
  Stale <- MCStale
  Uploadable <- MCUploadable
  Videos <- MCVideos
  Recovery = parity
  Sealed = sealed
INVARIANTS
  WholeRelease
PROPERTIES
  ImplementsPublication
  StageSpared
  Ends
CHECK_DEADLOCK FALSE
