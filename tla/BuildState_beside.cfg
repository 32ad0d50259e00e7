\* Builds through the daemon and beside it, of one program whose options go back and forth.
CONSTANTS
    s1 = s1
    s2 = s2
    h1 = h1
    h2 = h2
    c1 = c1
    c2 = c2
    exe = exe
    debug = debug
    release = release
    None = None
    File = {s1, h1}
    Compile = {c1}
    Final = {exe}
    SourceOf <- MCSourceOf
    Static <- MCStatic
    Includes <- MCIncludes
    Option = {debug, release}
    OptionMoves <- AllMoves
    Goals = {{c1, exe}}
    Frontends = {"cli", "daemon"}
    Hazards = {}
    MaxEdits = 3
    MaxBuilds = 4
SPECIFICATION Spec
INVARIANT
    BuiltIsFresh
CHECK_DEADLOCK FALSE
