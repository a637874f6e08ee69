SPECIFICATION Spec
CONSTANTS
  Garbage = Garbage
  NullOpt = NullOpt
  Pending = Pending
  MaxPayload = 15
  MaxMembers = 2
  MaxLines = 4
INVARIANTS
  DecodedIsReceived
  ReadBack
  
\* One call is the whole behaviour.
CHECK_DEADLOCK FALSE
