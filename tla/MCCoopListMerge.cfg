\* Two owners of two slots, four versions of each, up to four facts.
SPECIFICATION MergeSpec
CONSTANTS
    Coops = {a, b}
    Slots = {s1, s2}
    Values = {v1}
    None = None
    MaxTime = 2
    MaxClock = 1
    MaxReceived = 4
INVARIANTS
    MergeTypeOK
    LastWriterWins
