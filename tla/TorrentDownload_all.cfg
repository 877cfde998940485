\* Six kinds of download: every caller, both ways, every rule.
CONSTANTS
  Settings <- AllSettings
  Limit <- Limits
  Total = 6
  NearlyDone = 5
  SlowBelow = 2
  LowPeers = 0
  MaxPeers = 1
  RecoveryTicks = 2
  FullGate = 2
  Ratio = 2
  MaxUploaded = 2
  SeedHours = 5
  DefaultSeedHours = 6
  SeedIdleLimit = 2
  MaxFailures = 1
SPECIFICATION FairSpec
INVARIANT PoorNeverLasts
PROPERTY CompleteNeverRejected
PROPERTY Ends
PROPERTY NoWaiterLeft
CHECK_DEADLOCK FALSE
