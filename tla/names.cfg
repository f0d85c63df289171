SPECIFICATION DirSpec
CONSTANTS
  na = na
  nb = nb
  np = np
  nd = nd
  base = base
  Cluster = {1}
  Root = Root
  EntryCount = 4
  MaskBits = 4
  Name <- Names3
  Parts <- TwoParts
  Base <- SameBase
  MaxSeq = 2
  Dot = Dot
  DotDot = DotDot
  DirPath <- Directory
  FilePath <- Files3
  AtMount <- AsFound
  Handle = {h1}
  MaxClusters = 2
  MaxSize = 1
  None = None
INVARIANTS NamesLeadBack ListedOnce
PROPERTIES IsNameTree
