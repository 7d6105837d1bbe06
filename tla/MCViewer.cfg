SPECIFICATION MCFairSpec
CONSTANTS
    s1 = s1
    s2 = s2
    c1 = c1
    c2 = c2
    t1 = t1
    t2 = t2
    NoName = NoName
    Sources = {s1}
    Schemas = {c1, c2}
    Tables = {t1, t2}
    SchemasOf <- TwoSchemas
    TablesIn <- MCTables
    DefaultSource = s1
    DefaultSchema <- MCDefault
    Fallible = {"data", "filter"}
    ViewTransitions = FALSE
    Opening <- FirstVisit
    MaxPage = 1
    MaxActs = 4
    Ticks = TRUE
    EarlyActs = TRUE
INVARIANTS
    TypeOK
    RowsMatchScope
    StaleGridInert
    ChipsMatchScope
    SettledAgrees
    NoDeadEnd
PROPERTIES
    GridComesBack
CHECK_DEADLOCK FALSE
