SPECIFICATION FairSpec
CONSTANTS
    MAX_FRAME_SIZE = 255
    MAX_SEND_RETRIES = 2
    READ_CHUNK_SIZE = 64
    Checksum <- XorFold
    Transmissions <- AllFrames
    MaxRequests = 1
INVARIANTS LinkInv LosslessWhileIdle DispatchedInOrder
CHECK_DEADLOCK FALSE
PROPERTIES SendReturns
