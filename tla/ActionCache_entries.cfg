\* Edits, cleans, damage and crashes around the entries of one action.
SPECIFICATION Spec
CONSTANTS
    src = src
    hdr = hdr
    sub = sub
    x = x
    y = y
    Absent = Absent
    Broken = Broken
    File = {src, hdr, sub}
    Content = {x, y}
    Static <- MCStatic
    DepsOf <- MCDepsOf
    Starts <- MCStarts
    Kinds = {"compile", "generate"}
    MaxEdits = 2
INVARIANTS
    BuiltIsFresh
    StoredIsFound
PROPERTIES
    EntriesKept
CHECK_DEADLOCK FALSE
