\* Two requests, each dispatched again after its own sweep.
CONSTANTS
  Requests = {r1, r2}
  Offers = {}
  Hourly = {}
  MaxDispatch = 2
  MaxCrashes = 0
SYMMETRY RequestSymmetry
SPECIFICATION Spec
INVARIANT DownloadNeverTaken
CHECK_DEADLOCK FALSE
