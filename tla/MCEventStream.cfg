\* An EventSource of a followed node and two watchers, one of which may be dropped.
SPECIFICATION FairSpec
CONSTANTS
    follow1 = follow1
    links1 = links1
    any1 = any1
    Sources = {follow1}
    Watchers = {links1, any1}
    Listens <- ListensTo
    Wanted <- Wants
    Throws <- ThrowsFor
    MaxEvents = 2
    MaxRetries = 1
    MergedReads = FALSE
    MayFail = TRUE
INVARIANTS
    TypeOK
    ReadMeansGot
PROPERTIES
    EventChannelSpec
    StoppedIsSilent
    EventTold
    StopEndsSources
    FollowEnds
CHECK_DEADLOCK FALSE
