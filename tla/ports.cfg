SPECIFICATION FairSpec
CONSTANTS
  NumPorts = 2
  Ep = {e1, e2, e3}
  Kind = {"good", "dead", "large"}
  Hub = Hub
  Late = Late
  ResetDelay = 3
  AddressDelay = 1
  PeekDelay = 2
  KillDelay = 2
  MaxTries = 1
  MaxPlugs = 3
  None = None
INVARIANTS OneReset NoEndpointLost ListSound
PROPERTIES GoodServed
CHECK_DEADLOCK FALSE
