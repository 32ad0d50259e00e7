\* One builder that may be killed in the middle of a store, two platforms, one edit.
SPECIFICATION Spec
CONSTANTS
    b1 = b1
    b2 = b2
    l1 = l1
    l2 = l2
    c1 = c1
    c2 = c2
    main = main
    own1 = own1
    own2 = own2
    None = None
    Builder = {b1}
    Label = {l1}
    Choice = {c1, c2}
    Authored = {main, own1, own2}
    Visits <- MCVisits
    Provider = {1}
    Troubles = {"kill"}
    MaxEdits = 1
    MaxBuilds = 3
INVARIANT PartialIsMiss
CHECK_DEADLOCK FALSE
