SPECIFICATION FairSpec
CONSTANTS
  Sectors = 9
  PerSlice = 5
  DevUnits = {1, 8}
  Cache = 3
  MaxRead = 5
  Lsns = {0, 3}
  Rings <- MCRings
  MaxTake = 2
  Files <- MCFiles
INVARIANTS ReadExact FileExact StreamInOrder
PROPERTIES CallsEnd
