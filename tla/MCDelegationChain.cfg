SPECIFICATION Spec
CONSTANTS
    None = None
    p = p
    a = a
    b = b
    c = c
    x = x
    d1 = d1
    d2 = d2
    d3 = d3
    d4 = d4
    sign = sign
    pay = pay
    vote = vote
    Dids <- MCDids
    Digests <- MCDigests
    Acts <- MCActs
    SubSeconds = 2
    MaxChainDepth = 3
    Chains <- MCChains
    Requests <- MCRequests
INVARIANTS
    TypeOK
    NeverMoreThanAppointed
    DelegatorWasAppointed
PROPERTY
    ImplementsDecision
