\* Two slots, two follows, three changes that may share a second.
SPECIFICATION Spec
CONSTANTS
    Owner = owner
    Coops = {owner}
    None = None
    Slots = {s1, s2}
    Values = {v1}
    MaxTime = 2
    MaxEvents = 3
    MaxStreams = 2
    MaxRead = 1
SYMMETRY SlotSymmetry
INVARIANTS
    TypeOK
    ReplicaIsHistory
    DrainedAgrees
    VersionNamesTable
    EventsOrdered
    EventsReplay
PROPERTIES
    NeverRegress
    StaleReplicaSpec
CHECK_DEADLOCK FALSE
