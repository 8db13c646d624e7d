SPECIFICATION Spec
CONSTANTS
    main = main
    feature = feature
    tag = tag
    Refs = {main, feature}
    ReadOnly = {}
    Changes = {"a", "b", "c", "d", "edited"}
    Edited = "edited"
    None = None
    Start <- Truncated
    Height = 1
    MaxOps = 1
    MaxLength = 5
    MaxLengthLater = 5
PROPERTY CommitsBelowStay
CHECK_DEADLOCK FALSE
