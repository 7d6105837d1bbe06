SPECIFICATION MCSpec
CONSTANTS
    s1 = s1
    s2 = s2
    c1 = c1
    c2 = c2
    t1 = t1
    t2 = t2
    NoName = NoName
    Sources = {s1, s2}
    Schemas = {c1, c2}
    Tables = {t1, t2}
    SchemasOf <- TwoSources
    TablesIn <- MCTables
    DefaultSource = s1
    DefaultSchema <- MCDefault
    Fallible = {}
    ViewTransitions = FALSE
    Opening <- FirstVisit
    MaxPage = 1
    MaxActs = 4
    Ticks = FALSE
    EarlyActs = TRUE
VIEW MCView
INVARIANTS
    ChipsMatchScope
CHECK_DEADLOCK FALSE
