SPECIFICATION Spec
CONSTANTS
    None = None
    Merges <- AllMerges
    Texts <- ByHand
    Hashes = {"h1", "h2", "h3"}
INVARIANTS
    InductiveInv
    ResultIsWhatWasPicked
    RemovedIffOneSideLacksIt
    NoMarkerIsStored
    RenderedParsesBack
PROPERTIES
    ButtonGivesWhatItShows
CHECK_DEADLOCK FALSE
