SPECIFICATION Spec
CONSTANTS
  Dongles = {d1, d2}
  None = None
  MaxPlugs = 1
  QUEUE_DRAIN_BATCH = 2
  CAPTURE_CHUNK_BYTES = 2
  MaxWrites = 2
  Instances = {p1, p2}
  ClassCount = 2
  NoKey = NoKey
  Torn = Torn
  MaxFaults = 1
  MaxCrashes = 1
CHECK_DEADLOCK FALSE
INVARIANTS
  LogComplete
  StatusFollowsDongle
PROPERTIES
  TermStops
  KeysKept
