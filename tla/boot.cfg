SPECIFICATION Spec
CONSTANTS
  Half = 8
  Rom <- MCRom
  Own <- MCOwn
  Discs <- MCDiscs
  Align = 2
  ScanRange = 4
  ListSize = 6
  ConfFile = {"IOPBTCONF", "EXTRA", "MISSING"}
  Modules <- MCModules
  Bases = {28}
  NoDir = 99
  None = None
  GameArgs <- MCGameArgs
  Mode3 = {TRUE, FALSE}
INVARIANTS ListIsExpansion ImagesIntact RelocationsRight ResetKeepsCore
CHECK_DEADLOCK FALSE
