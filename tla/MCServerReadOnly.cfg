SPECIFICATION Spec
CONSTANTS
    None = None
    Null = Null
    NameOrder <- MCNames
    Fold <- MCFold
    NulNames = {"nul"}
    NumberOf <- MCNumberOf
    Dangling = {"esc"}
    Blank = Blank
    Oversize = Oversize
    Malformed = Malformed
    Huge = Huge
    MaxConditions = 3
    MaxTables = 3
    MaxPairs = 2
    MaxU32 = 20
    DefaultPageSize = 2
    MaxPageSize = 2
    QueryTimeoutSecs = 5
    Host <- MCHost
    Sources <- OneSource
    Databases <- MCReadOnly
    Requests <- MCReadOnlyRequests
    Edits = {}
    Budget = 0
INVARIANTS
    ReferencesArePresent
