SPECIFICATION Spec
CONSTANTS
    Networks = {"A", "B"}
    Members = {1}
    Products = {"P", "Q"}
    PolicyValues <- MCPolicyValues
    SupportSets <- MCSupportSets
    Absent = Absent
    MaxPolicyWrites = 3
    MaxPolicyJoins = 3
    SceneNetworks = {"A", "B"}
    SceneIds = {"s", "t"}
    Presses <- MCPresses
    ActionLists <- MCActionLists
    Missing = Missing
    ByteMax = 3
    MaxSceneEdits = 4
    MaxPresses = 3
    ClimateNetworks = {1, 2}
    Rooms <- MCRooms
    Supports <- MCSupports
    Readings = {1, 2}
    MaxRetags = 3
    MaxReports = 3
    Peers = {1}
    NonceIds = {1, 2}
    BadNonce = BadNonce
    MaxSecureSends = 2
    MaxRadioFaults = 1
    DatagramSizes <- MCDatagramSizes
    SEGMENT_PAYLOAD_MAX = 2
    SessionIds = 3
    MaxSegmentRepeats = 2
    HomeIds = {"A", "B"}
    Sleepers = {3}
    Unbound = Unbound
    MaxSessions = 3
    MaxQueued = 3
    MaxValues = 1
    MaxDbFailures = 1
INVARIANTS
    GroupCacheCurrent
    SecureCommandsOnce QueueIsAwaited
    
    NetworksApart 
PROPERTIES AppliedIsMerge 
CHECK_DEADLOCK FALSE
