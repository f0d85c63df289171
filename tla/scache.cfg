SPECIFICATION CacheSpec
CONSTANTS
  CacheSize = 2
  NBlocks = 3
  IndexLimit = 2
  Clusters <- WholeBlocks
  MaxTax = 4
  MaxVersion = 1
INVARIANTS CacheCoherent
PROPERTIES IsSectorStore FlushIsDurable
