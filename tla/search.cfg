SPECIFICATION FairSpec
CONSTANTS
  Threads = {1, 2}
  FileNames = {"F", "G", "D", "S", "A", "M.N", "B", "H", "X", ".."}
  Requests <- AnyRequests
  Disc <- Disc2
  SectorLen = 6
  Root <- RootOf
  PathTable <- PathTableOf
  PathTableLen <- PathTableLenOf
  LayerBreak = 6
  Dotted = {"M.N"}
  Banned = {"G"}
INVARIANTS SearchIsLookup BufferMine ListingExact
PROPERTIES SearchesReturn
CHECK_DEADLOCK FALSE
