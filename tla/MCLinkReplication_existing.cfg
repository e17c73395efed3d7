\* A link put between the list response and the subscription is not found.
SPECIFICATION Spec
CONSTANTS
    Owner = owner
    Coops = {owner}
    None = None
    Slots = {s1}
    Values = {v1}
    MaxTime = 1
    MaxEvents = 1
    MaxStreams = 1
    MaxRead = 1
INVARIANT ExistingFound
CHECK_DEADLOCK FALSE
