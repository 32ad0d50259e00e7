\* The local executor and the Ninja backend over the same graphs.
SPECIFICATION Spec
CONSTANTS
    Targets = {"r", "x", "l", "o", "i", "u"}
    Genrules = {"g", "h"}
    Stages = {"s"}
    Kind <- MCKind
    Authored <- MCAuthored
    Listed <- MCListed
    BatchSize = 2
    Roots = {"u", "r", "g", "i"}
INVARIANTS
    NamedFirst
    ProducersFirst
    NinjaNamesReads
    SameVerdict
    SameActions
