SPECIFICATION FairSpec
CONSTANTS
  Nodes = {1, 2}
  Devices <- MCDevices
  Requests <- MCRequests
  Keys = {"S0", "S2"}
  MaxInclusions = 2
INVARIANTS
  AskedOnce
  S2GetsEncrypted
  
PROPERTIES
  PolicyAfterInterview
  SetupFinishes
