SPECIFICATION FairSpec
CONSTANTS
  Ep = {e1, e2}
  GenTd = {t1, t2, t3, t4}
  IsoTd = {}
  Req = {r1, r2}
  Xfer = {x1, x2}
  None = None
  Types = {"control", "bulk"}
  DataStages = {FALSE}
  MaxSent = 1
  Removable = {}
  QuietBus = FALSE
PROPERTIES EveryTransferEnds
