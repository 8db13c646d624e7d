SPECIFICATION Spec
CONSTANTS
    None = None
    Originals <- ZoneOriginals
    Authors <- MCAuthors
    Dates <- MCDates
    Messages <- MCMessages
    MaxEdits = 2
INVARIANT UntouchedIsANop
CHECK_DEADLOCK FALSE
