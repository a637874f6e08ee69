SPECIFICATION Spec
CONSTANTS
    Homes = {h1, h2}
    Nodes = {n1}
    Values = {0, 1}
    Unset = 0
    None = None
INVARIANTS ScenesReady
