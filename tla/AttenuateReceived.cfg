SPECIFICATION Spec
CONSTANTS
    None = None
    g = g
    a = a
    read = read
    write = write
    Dids <- MCDids
    Digests <- MCDigests
    Scopes <- MCScopes
    Actions <- MCActions
    SubSeconds = 2
    MaxChainDepth = 3
    MaxVacs = 2
    Windows <- Disjoint
    Limits = {None, 0, 1}
    Spellings = {"ours", "v1"}
INVARIANT VerifierRecomputesTheNamedDigest
