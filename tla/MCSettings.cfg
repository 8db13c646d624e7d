CONSTANTS
    old = old
    new = new
    setter = setter
    Nobody = Nobody
    Sessions <- MCSessions
    Setters <- MCSetters
    Version <- MCVersion
    Choice <- MCChoice
CHECK_DEADLOCK FALSE
SPECIFICATION Spec
INVARIANTS
    ExecutableIsKept
PROPERTIES
    NothingIsTakenBack
    WaitsEnd
