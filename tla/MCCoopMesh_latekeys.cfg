\* Two nodes of a mainnet add the key one after the other.
SPECIFICATION FairSpec
CONSTANTS
    a = a
    b = b
    c = c
    k1 = k1
    k2 = k2
    net = net
    Nodes = {a, b}
    Keys = {k1}
    Unnamed = Unnamed
    Mainnet <- NoMainnet
    InitialKeys <- NoKeys
    LateKeys <- PairAddsK1
    GoneKeys <- NobodyLeaves
    Contacts <- PairContacts
    MaxExpiries = 0
    MayFail = FALSE
PROPERTY FollowIsMutual
CHECK_DEADLOCK FALSE
