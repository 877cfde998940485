\* Two workers and channels of one slot: more chunks than the workers and the
\* two channels hold together, so that the dispatcher can be blocked when the
\* workers die.  An aborted upload of the same file left part 1 in the CRC
\* state.
CONSTANTS
  Workers = {w1, w2}
  N = 5
  Readable = 5
  QueueCap = 1
  MaxRetries = 2
  StaleParts = {1}
SPECIFICATION FairSpec
INVARIANT OkMeansComplete
PROPERTY ImplementsFileUpload
PROPERTY Returns
PROPERTY DispatcherServed
CHECK_DEADLOCK FALSE
