SPECIFICATION Spec
CONSTANTS
  task = task
  offer = offer
  video = video
  archive = archive
  stray = stray
  episode = episode
  shot = shot
  parity = parity
  sealed = sealed
  NoJob = NoJob
  Jobs = {task}
  Tasks = {task}
  Encrypting = {}
  Obfuscating = {}
  SameDevice = {task}
  Release <- MCRelease
  Sidecars = {shot}
  Inside <- MCInsideAgain
  Kind <- MCZip
  Stale <- MCStale
  Uploadable <- MCUploadable
  Videos <- MCVideos
  Recovery = parity
  Sealed = sealed
INVARIANTS
  SourceUntouched
CHECK_DEADLOCK FALSE
