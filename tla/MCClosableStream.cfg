\* Two ends of a stream that may break; one sends two values or closes it, the other may break off.
SPECIFICATION FairSpec
CONSTANTS
    dialer = dialer
    listener = listener
    Ends = {dialer, listener}
    MaxData <- DialerSends
    Leavers = {listener}
    Closers = {dialer}
    MayBreak = TRUE
INVARIANTS
    TypeOK
    DataInOrder
    EndMeansAll
PROPERTIES
    CloseReadTold
    BothFinishedEnds
CHECK_DEADLOCK FALSE
