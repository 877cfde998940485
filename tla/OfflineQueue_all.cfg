\* Two sources whose folders may be the same, three ids, two interventions.
CONSTANTS
  Sources = {a, b}
  NoSource = none
  Folders = {f, g}
  MaxJobs = 3
  MaxEvents = 2
SPECIFICATION FairSpec
INVARIANT CompletedHasItsNzb
INVARIANT StatusExplainsJob
PROPERTY NoUnaskedRepost
PROPERTY JobsEnd
CHECK_DEADLOCK FALSE
