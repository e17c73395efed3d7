\* A fetch by any of the callers, whose chunks end anywhere but between CR and LF, or a web
\* request and another fetch of its node.
SPECIFICATION MCSpec
CONSTANTS
    Fetches = {x, y}
    Other = y
    Pieces = {"b1", "b2"}
    RequestBodies <- OnePiece
    ResponseBodies <- NoneOrTwoPieces
    Retries = 1
    Addresses = 2
    SplitCRLF = FALSE
    MayFail = TRUE
ACTION_CONSTRAINT Bounded
INVARIANTS
    TypeOK
    HeadIntact
    EndMeansWhole
    WebEndsWhole
PROPERTIES
    FetchSettles
    WebAnswered
CHECK_DEADLOCK FALSE
