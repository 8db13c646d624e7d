CONSTANTS
    n = n
    w = w
    Codepoints <- MCCodepoints
    BytesOf <- MCBytesOf
    Names <- MCNames
    Suffix <- MCSuffix
    Width = 3
    MaxBytes = 6
CONSTRAINT NotSlipped
CHECK_DEADLOCK FALSE
SPECIFICATION FieldSpec
INVARIANTS
    FieldInv
    WholeCodepoints
PROPERTIES
    KeysActAtTheCursor
    MouseActsWhereItPoints
