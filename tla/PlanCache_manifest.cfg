\* One builder whose replacement of a file may fail, two platforms.
SPECIFICATION Spec
CONSTANTS
    b1 = b1
    b2 = b2
    l1 = l1
    l2 = l2
    c1 = c1
    c2 = c2
    main = main
    own1 = own1
    own2 = own2
    None = None
    Builder = {b1}
    Label = {l1}
    Choice = {c1, c2}
    Authored = {main, own1, own2}
    Visits <- MCVisits
    Provider = {1}
    Troubles = {"write-error"}
    MaxEdits = 0
    MaxBuilds = 3
INVARIANT MissAfterFailedManifest
CHECK_DEADLOCK FALSE
