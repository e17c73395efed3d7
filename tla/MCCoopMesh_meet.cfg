\* a and c have the key and meet b, which has it too or is a node of the mainnet.
SPECIFICATION FairSpec
CONSTANTS
    a = a
    b = b
    c = c
    k1 = k1
    k2 = k2
    net = net
    Nodes = {a, b, c}
    Keys = {k1}
    Unnamed = Unnamed
    Mainnet <- NoMainnet
    InitialKeys <- AllOrEndsHaveK1
    LateKeys <- NoLateKeys
    GoneKeys <- NobodyLeaves
    Contacts <- StarContacts
    MaxExpiries = 0
    MayFail = FALSE
PROPERTIES
    FollowIsMutual
    Introduced
    MainnetIntroduces
    ChecksEnd
CHECK_DEADLOCK FALSE
