SPECIFICATION Spec
CONSTANTS
  MaxEntropy = 5
  MaxDraws = 3
  MaxInFlight = 2
  MaxQueue = 2
  MaxBinds = 2
INVARIANTS
  FreshNonces
  Lockstep
  WaitingIsAnswered
  SkippedIsStored
