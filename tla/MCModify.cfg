SPECIFICATION MCSpec
CONSTANTS
    main = main
    feature = feature
    tag = tag
    Refs = {main, feature, tag}
    ReadOnly = {tag}
    Changes = {"a", "b", "c", "d", "edited"}
    Edited = "edited"
    None = None
    Start <- Histories
    Height = 8
    MaxOps = 2
    MaxLength = 4
    MaxLengthLater = 3
INVARIANTS InductiveInv AssertionsHold NopMovesChangeNothing
PROPERTIES ResultIsWhatWasAsked OperationsEnd
CHECK_DEADLOCK FALSE
