\* Three calls, about one content.
SPECIFICATION Spec
CONSTANTS
    a = a
    b = b
    c = c
    Nodes = {a, b, c}
    Follows <- Line
    Uris = {u}
    Types = {t1}
    None = None
    Callers <- SomeCallers
    MaxCalls = 3
INVARIANTS
    TypeOK
    OnlySharedSpreads
PROPERTIES
    ShareSpreads
    EchoEnds
CHECK_DEADLOCK FALSE
