SPECIFICATION Spec
CONSTANTS
  LastCluster = 6
  ClusterSize = 2
  BufSize = 3
  NumHints = 2
  StackSize = 2
  File = {a, b}
  Roots = {0, 2}
  MaxRoot = 2
  WriteSize = {3}
  MaxSize = 8
INVARIANTS ChainsSound InPlace
SYMMETRY Symmetry
