\* Daemon builds of parts while options revert and outputs and depfiles are deleted.
CONSTANTS
    s1 = s1
    s2 = s2
    h1 = h1
    h2 = h2
    c1 = c1
    c2 = c2
    exe = exe
    debug = debug
    release = release
    None = None
    File = {s1, h1}
    Compile = {c1}
    Final = {exe}
    SourceOf <- MCSourceOf
    Static <- MCStatic
    Includes <- MCIncludes
    Option = {debug, release}
    OptionMoves <- AllMoves
    Goals = {{c1}, {c1, exe}}
    Frontends = {"daemon"}
    Hazards = {"delete-output", "delete-depfile", "daemon-restart"}
    MaxEdits = 3
    MaxBuilds = 4
SPECIFICATION Spec
INVARIANTS
    NoRework
CHECK_DEADLOCK FALSE
