\* One command after the other, while the system gives free pids to other processes.
SPECIFICATION Spec
CONSTANTS
    c1 = c1
    c2 = c2
    p1 = p1
    p2 = p2
    None = None
    OwnerOnly = FALSE
    Command = {c1}
    Pid = {p1, p2}
    Offered = {"start", "stop"}
PROPERTY OnlyTheDaemonEnds
