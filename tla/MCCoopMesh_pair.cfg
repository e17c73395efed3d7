\* b adds two keys, one of them of a, while requests fail, connections drop and the cache expires.
SPECIFICATION Spec
CONSTANTS
    a = a
    b = b
    c = c
    k1 = k1
    k2 = k2
    net = net
    Nodes = {a, b}
    Keys = {k1, k2}
    Unnamed = Unnamed
    Mainnet <- NoMainnet
    InitialKeys <- AHasK1
    LateKeys <- BAddsBoth
    GoneKeys <- ARemovesK1
    Contacts <- PairContacts
    MaxExpiries = 1
    MayFail = TRUE
INVARIANTS
    TypeOK
    FollowSharesKey
    FollowLeavesMainnet
    FollowHasStream
CHECK_DEADLOCK FALSE
