\* A chunk may hold the end of one event and the beginning of the next.
SPECIFICATION Spec
CONSTANTS
    follow1 = follow1
    links1 = links1
    any1 = any1
    Sources = {follow1}
    Watchers = {links1}
    Listens <- ListensTo
    Wanted <- Wants
    Throws <- ThrowsFor
    MaxEvents = 2
    MaxRetries = 0
    MergedReads = TRUE
    MayFail = FALSE
INVARIANT ReadMeansGot
CHECK_DEADLOCK FALSE
