\* Two processes of the CLI; two laboratories that want a login and one that does
\* not.
SPECIFICATION Spec
CONSTANTS
    Process = {p1, p2}
    Lab = {l1, l2, l3}
    AADLab = {l1, l2}
    MaxRequests = 2
    None = None
    Missing = Missing
    Empty = Empty
    Garbled = Garbled
INVARIANTS
    TypeOK
    AccountFitsLab
    FileHoldsConnection
