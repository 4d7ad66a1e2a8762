SPECIFICATION Spec
CONSTANTS
    None = None
    g = g
    a = a
    b = b
    c = c
    x = x
    d1 = d1
    d2 = d2
    d3 = d3
    d4 = d4
    room = room
    hall = hall
    read = read
    write = write
    admin = admin
    Dids <- MCDids
    Digests <- MCDigests
    Scopes <- MCScopes
    Actions <- MCActions
    SubSeconds = 2
    MaxChainDepth = 3
    Chains <- MCChains
    Requests <- MCRequests
INVARIANTS
    TypeOK
    NeverMoreThanConferred
    GrantorHoldsIt
    SurvivesTheWire
    DepthLoopIsForBareLinks
PROPERTY
    ImplementsDecision
