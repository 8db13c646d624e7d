SPECIFICATION Spec
CONSTANTS
    None = None
    Originals <- MCOriginals
    Authors <- MCAuthors
    Dates <- MCDates
    Messages <- MCMessages
    MaxEdits = 2
INVARIANTS
    UntouchedStays
    OthersStay
    WrittenDateIsTaken
CHECK_DEADLOCK FALSE
