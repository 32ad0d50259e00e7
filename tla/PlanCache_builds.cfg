\* Two builders, two labels, two platforms, and everything that goes wrong but edits during a build.
SPECIFICATION Spec
CONSTANTS
    b1 = b1
    b2 = b2
    l1 = l1
    l2 = l2
    c1 = c1
    c2 = c2
    main = main
    own1 = own1
    own2 = own2
    None = None
    Builder = {b1, b2}
    Label = {l1, l2}
    Choice = {c1, c2}
    Authored = {main, own1, own2}
    Visits <- MCVisits
    Provider = {1}
    Troubles = {"kill", "write-error", "remove"}
    MaxEdits = 2
    MaxBuilds = 4
SYMMETRY Symmetry
INVARIANTS
    HitIsRight
    StoredIsFound
CHECK_DEADLOCK FALSE
