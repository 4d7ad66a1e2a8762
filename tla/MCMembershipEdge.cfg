SPECIFICATION Spec
CONSTANTS
    None = None
    c = c
    m = m
    Dids <- MCDids
    Digests = {}
    SubSeconds = 2
    Refs <- MCRefs
    Pairs <- MCPairs
    Windows <- MCWindows
    MaxDocuments = 4
INVARIANTS
    TypeOK
    EdgeIsMutual
    AnswersComplete
    AnswerEndsWithGrant
    HalvesStayApart
