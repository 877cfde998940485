\* One goroutine and one request, fairly scheduled.
CONSTANTS
  Requests = {r1}
  NoRequest = none
  Slots = {s1}
  Limits = {1}
  AbortThreshold = 2
  WriteOutcomes = {TRUE, FALSE}
  MaxEvents = 3
  MaxHanded = 3
SPECIFICATION FairSpec
PROPERTY TasksEnd
PROPERTY DrainHonoured
