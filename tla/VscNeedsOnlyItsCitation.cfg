SPECIFICATION Spec
CONSTANTS
    None = None
    Dids = {}
    Digests = {}
    SubSeconds = 2
    Me = "a"
    Other = "b"
    Windows <- MCWindows
    Predicates <- MCPredicates
    Objects <- MCObjects
    Credentials <- MCCredentials
    Sessions <- MCSessions
    Foreign <- MCForeign
    Lists <- MCLists
    MaxCalls = 3
INVARIANT VscNeedsOnlyItsCitation
