SPECIFICATION Spec
CONSTANTS
    None = None
    g = g
    a = a
    read = read
    write = write
    Dids <- MCDids
    Digests <- MCDigests
    Scopes <- MCScopes
    Actions <- MCActions
    SubSeconds = 2
    MaxChainDepth = 3
    MaxVacs = 3
    Windows <- Nested
    Limits = {None, 0, 1}
    Spellings = {"ours"}
SYMMETRY SameActions
INVARIANTS
    TypeOK
    BuiltChainsVerify
