SPECIFICATION FairSpec
CONSTANTS
    n1 = n1
    n2 = n2
    None = None
    Controller = controller
    Nodes = {n1, n2}
    Secure = {n2}
    Joined = {n1}
    Commands <- TwoSends
    MaxFaults = 0
    MaxUnplugs = 1
    MaxQueue = 2
PROPERTIES ReopensOnHotplug
