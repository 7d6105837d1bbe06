SPECIFICATION Spec
CONSTANTS
    None = None
    main = main
    other = other
    s = s
    v = v
    Sources = {main, other}
    DefaultSource = main
    DefaultSchema <- MCDefaultSchema
    Scopes <- MCScopes
    Views = {v}
    Ttls = {1, 2}
    MaxFetches = 5
    MaxCalls = 3
    MaxTime = 2
INVARIANTS
    StandsForTheSame
    UsedOnce
PROPERTIES
    AheadIsFresh
CHECK_DEADLOCK FALSE
