CONSTANTS
    main = main
    topic = topic
    main2 = main2
    Names <- MCNames
    Changes = {0, 1, 2, 3, 4}
    Edited = 0
    None = None
    Launches <- MCLaunches
    Sizes <- MCSizes
    RevCount = 2
    MaxOps = 2
    MaxResizes = 1
CHECK_DEADLOCK FALSE
SPECIFICATION MCSpec
INVARIANTS
    InductiveInv
    ColumnsMirrorGit
    SelectionIsLive
    SelectionsFitTheirStates
    AbortsOnlyUnderASkip
PROPERTIES
    ReadOnlyRefsStay
    UndoRedoSelects
