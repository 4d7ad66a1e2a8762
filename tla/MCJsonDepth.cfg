SPECIFICATION Spec
CONSTANTS
    Key <- MCKey
    MaxJsonDepth = 5
    ClosedDepth = 5
    TopMembers = {"issuer", "credentialSubject"}
    StatementMembers = {"object"}
    Documents <- MCDocuments
INVARIANTS
    TypeOK
    DecidesDepth
    PendingApart
PROPERTIES
    VisitsOnce
    Answers
CHECK_DEADLOCK FALSE
