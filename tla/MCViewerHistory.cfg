SPECIFICATION MCSpec
CONSTANTS
    s1 = s1
    s2 = s2
    c1 = c1
    c2 = c2
    t1 = t1
    t2 = t2
    NoName = NoName
    Sources = {s1}
    Schemas = {c1}
    Tables = {t1, t2}
    SchemasOf <- OneSchema
    TablesIn <- MCTables
    DefaultSource = s1
    DefaultSchema <- MCDefault
    Fallible = {"data", "filter"}
    ViewTransitions = TRUE
    Opening <- Links
    MaxPage = 1
    MaxActs = 4
    Ticks = FALSE
    EarlyActs = FALSE
VIEW MCView
INVARIANTS
    LastAskWins
PROPERTIES
    StepsAreEntries
    RestoresAddNothing
CHECK_DEADLOCK FALSE
