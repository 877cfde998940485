\* Two requests beside the hourly sweep, one of them run again without it; one
\* request, an offer and the hourly sweep in a process that dies once, at any
\* step and also in the middle of a write of state.json; two requests in a
\* process that dies once; one request run twice beside the hourly sweep.
CONSTANTS
  Requests = {r1, r2}
  Offers = {o1}
  Hourly = {hourly}
  MaxDispatch = 2
  MaxCrashes = 1
SYMMETRY RequestSymmetry
CONSTRAINT Company
SPECIFICATION Spec
INVARIANT DownloadKept
INVARIANT NothingLeftBehind
INVARIANT EndedUnprotected
CHECK_DEADLOCK FALSE
