CONSTANTS
  Dev = {d1, d2}
  NumSlots = 2
  NumDrives = 2
  NumRecs = 2
  MaxParts = 2
  Thread = {t1, t2}
  Name = {"a"}
  FileOf <- Plain
  ListedAs <- Plain
  None = None
SPECIFICATION Spec
INVARIANTS SlotPerDevice MountsLive 
CHECK_DEADLOCK FALSE
SYMMETRY Symmetry
