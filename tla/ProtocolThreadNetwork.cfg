SPECIFICATION Spec
CONSTANTS
    n1 = n1
    n2 = n2
    None = None
    Controller = controller
    Nodes = {n1}
    Secure = {}
    Joined = {n1}
    Commands <- NetworkChanges
    MaxFaults = 0
    MaxUnplugs = 1
    MaxQueue = 2
INVARIANTS IncludedInItsSession RegistryCoversNetwork
