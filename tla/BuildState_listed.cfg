\* One source whose target lists a header that the source does not include.
CONSTANTS
    s1 = s1
    s2 = s2
    h1 = h1
    h2 = h2
    c1 = c1
    c2 = c2
    exe = exe
    debug = debug
    release = release
    None = None
    File = {s1, h1, h2}
    Compile = {c1}
    Final = {}
    SourceOf <- MCSourceOf
    Static <- MCStaticListed
    Includes <- MCIncludesOne
    Option = {debug}
    OptionMoves <- NoMoves
    Goals = {{c1}}
    Frontends = {"cli"}
    Hazards = {}
    MaxEdits = 3
    MaxBuilds = 4
SPECIFICATION Spec
INVARIANT
    NoRework
CHECK_DEADLOCK FALSE
