\* One task, and a signal.
CONSTANTS
  Requests = {r1}
  NoRequest = none
  Slots = {s1}
  Limits = {1}
  AbortThreshold = 2
  WriteOutcomes = {TRUE}
  MaxEvents = 1
  MaxHanded = 1
SPECIFICATION Spec
PROPERTY ShutdownKeepsFinished
