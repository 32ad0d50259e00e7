\* Every dependency relation over four nodes, one of them handled inline.
SPECIFICATION FairSpec
CONSTANTS
    None = None
    Node = {n1, n2, n3, n4}
    Process = {n1, n2, n3}
    Jobs = 2
    Graphs <- AllGraphs
INVARIANTS
    SlotsAgree
    NoOrphans
    StallMeansCycle
    WorkConserving
PROPERTIES
    ImplementsBuildOrder
    Terminates
