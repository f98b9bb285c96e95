\* Two processes of the CLI, one laboratory that wants a login.
SPECIFICATION Spec
CONSTANTS
    Process = {p1, p2}
    Lab = {l1, l2}
    AADLab = {l1}
    MaxRequests = 1
    None = None
    Missing = Missing
    Empty = Empty
    Garbled = Garbled
INVARIANTS
    LastConnectStays
