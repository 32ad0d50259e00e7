\* Two commands over two pids, with crashes, kills and leftovers.
SPECIFICATION Spec
CONSTANTS
    c1 = c1
    c2 = c2
    p1 = p1
    p2 = p2
    None = None
    OwnerOnly = FALSE
    Command = {c1, c2}
    Pid = {p1, p2}
    Offered = {"start", "stop", "serve"}
SYMMETRY Symmetry
INVARIANTS
    OneKnownDaemon
PROPERTIES
    StaleNeverBlocks
    StrangersLive
