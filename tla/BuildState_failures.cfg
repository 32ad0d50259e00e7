\* A two-source program: files change and vanish, processes fail, builder killed, databases unwritable.
CONSTANTS
    s1 = s1
    s2 = s2
    h1 = h1
    h2 = h2
    c1 = c1
    c2 = c2
    exe = exe
    debug = debug
    release = release
    None = None
    File = {s1, s2, h1}
    Compile = {c1, c2}
    Final = {exe}
    SourceOf <- MCSourceOf
    Static <- MCStatic
    Includes <- MCIncludes
    Option = {debug}
    OptionMoves <- NoMoves
    Goals = {{c1, c2, exe}}
    Frontends = {"cli"}
    Hazards = {"bad-exit", "kill", "io-error", "remove-file"}
    MaxEdits = 2
    MaxBuilds = 3
SPECIFICATION Spec
INVARIANTS
    BuiltIsFresh
    RecordsVouch
CHECK_DEADLOCK FALSE
