CONSTANTS
    Names = {a, b, c}
    Commits = {c0, c1}
    None = None
    MaxHistory = 3
    MaxDisturbances = 1
SYMMETRY Symmetry
CHECK_DEADLOCK FALSE
SPECIFICATION MCSpec
INVARIANTS
    InductiveInv
    HistoryTracksRef
    HeadResolves
    SessionStartIsKept
PROPERTIES
    HeadComesBack
    OnlyMutableColumnsChange
    ImplementsTimelines
