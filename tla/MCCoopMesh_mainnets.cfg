\* A node of a named mainnet connects to one of none.
SPECIFICATION Spec
CONSTANTS
    a = a
    b = b
    c = c
    k1 = k1
    k2 = k2
    net = net
    Nodes = {a, b}
    Keys = {k1}
    Unnamed = Unnamed
    Mainnet <- NamedA
    InitialKeys <- NoKeys
    LateKeys <- NoLateKeys
    GoneKeys <- NobodyLeaves
    Contacts <- PairContacts
    MaxExpiries = 0
    MayFail = FALSE
INVARIANT MainnetsApart
CHECK_DEADLOCK FALSE
