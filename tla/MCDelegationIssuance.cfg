SPECIFICATION Spec
CONSTANTS
    None = None
    Null = Null
    Garbled = Garbled
    p = p
    a = a
    sign = sign
    pay = pay
    Dids <- MCDids
    Digests <- MCDigests
    Acts <- MCActs
    SubSeconds = 2
    MaxChainDepth = 3
    Principals <- MCPrincipals
    Delegates <- MCDelegates
    ScopeLists <- MCScopeLists
    Windows <- MCWindows
    Budgets = {None, 1, 2}
    Received <- MCReceived
    MaxVdcs = 3
INVARIANTS
    TypeOK
    BuiltChainsAppoint
    HalvesStayApart
    ConsentEndsWithEveryGrant
