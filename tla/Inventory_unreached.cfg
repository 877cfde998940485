\* Three files, of which a walk takes two, and one change of the disk.
CONSTANTS
  Last = 3
  MaxFiles = 2
  ProbeBatch = 2
  MaxMoves = 1
SPECIFICATION InventorySpec
PROPERTY UnreachedKept
