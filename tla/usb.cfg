SPECIFICATION Spec
CONSTANTS
  Ep = {e1, e2}
  GenTd = {t1, t2, t3, t4}
  IsoTd = {i1, i2}
  Req = {r1, r2}
  Xfer = {x1, x2}
  None = None
  Types = {"control", "bulk", "iso"}
  DataStages = {FALSE, TRUE}
  MaxSent = 2
  Removable = {e1, e2}
  QuietBus = FALSE
INVARIANTS OneOwner
PROPERTIES CallbackInOrder
SYMMETRY Symmetry
