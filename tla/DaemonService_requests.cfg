\* Two clients, three kinds of request, edits, crashes, killed clients.
SPECIFICATION Spec
CONSTANTS
    c1 = c1
    c2 = c2
    w1 = w1
    w2 = w2
    l1 = l1
    None = None
    Client = {c1, c2}
    Workspace = {w1, w2}
    Label = {l1}
    Requests <- Asking
    MaxEdits = 1
    MaxAsks = 3
INVARIANTS
    RightAnswer
    UnavailableMeansUnbuilt
PROPERTIES
    AllAnswered
CHECK_DEADLOCK FALSE
