---------------------------- MODULE ViewerProofs ----------------------------
(* What holds of Viewer for any sources, schemas, tables, faults and       *)
(* openings.  First its types: each helper's results, then each action.    *)
(* Then the two that say most: rows are only ever shown as the ones of the *)
(* scope and table they were asked for, and without view transitions an    *)
(* outdated grid takes no clicks.  Neither is inductive; ViewerInv carries *)
(* the first: what a current load was asked for is what the page is in, as *)
(* long as every change of scope or view comes with a new token or is one  *)
(* that /sources or /schemas makes under it (LoadsOfNow).                  *)
(* Last, what holds once the page has come to rest, under an invariant of  *)
(* its own, SettleInv.                                                     *)
EXTENDS Viewer, TLAPS

USE ViewerAssumption, OpeningAssumption DEF ViewerAssumption, OpeningAssumption

Opts == [next: BOOLEAN, auto: BOOLEAN, replace: BOOLEAN, boot: BOOLEAN]
Grids == [drawn: BOOLEAN, inert: BOOLEAN, pager: BOOLEAN,
          key: SourceNames \X SchemaNames \X Views, place: Places, query: Queries]
Histories == {h \in [entries: Seq(Entries), at: Nat] : h.at \in 1..Len(h.entries)}

-----------------------------------------------------------------------------
(* The helpers return what their users expect.                             *)
LEMMA ServerTypes ==
  ASSUME NEW s \in SourceNames, NEW c \in SchemaNames
  PROVE  /\ SourceAt(s) \in Sources
         /\ SchemaAt(s, c) \in Schemas
         /\ Place(s, c) \in Places
         /\ TablesAt(s, c) \subseteq Tables
<1>1. SourceAt(s) \in Sources
  BY DEF SourceAt, SourceNames
<1>2. DefaultSchema[SourceAt(s)] \in Schemas
  BY <1>1
<1>3. SchemaAt(s, c) \in Schemas
  BY <1>2 DEF SchemaAt, SchemaNames
<1>4. TablesAt(s, c) \subseteq Tables
  <2>1. TablesIn[SourceAt(s)] \in [Schemas -> SUBSET Tables]
    BY <1>1
  <2>2. TablesIn[SourceAt(s)][SchemaAt(s, c)] \in SUBSET Tables
    BY <2>1, <1>3
  <2> QED BY <2>2 DEF TablesAt
<1> QED BY <1>1, <1>3, <1>4 DEF Place, Places, SourceNames, SchemaNames

LEMMA FirstOfType ==
  ASSUME NEW S, S \subseteq Tables
  PROVE  FirstOf(S) \in Views
<1>1. CASE S = {}
  BY <1>1 DEF FirstOf, Views
<1>2. CASE S # {}
  <2>1. (CHOOSE t \in S : TRUE) \in S
    BY <1>2
  <2> QED BY <1>2, <2>1 DEF FirstOf, Views
<1> QED BY <1>1, <1>2

LEMMA OptsTypes == ByUser \in Opts /\ Restore \in Opts
  BY DEF ByUser, Restore, Opts

LEMMA KeyType ==
  ASSUME NEW sc \in Scopes, NEW q \in Queries
  PROVE  KeyOf(sc, q) \in SourceNames \X SchemaNames \X Views
  BY DEF KeyOf, Scopes, Queries

LEMMA RequestTypes ==
  ASSUME NEW t \in Tables
  PROVE  tableRequest(t) \in Queries /\ seededRequest(t) \in Queries
<1>1. 0 \in 0..MaxPage
  OBVIOUS
<1>2. tableRequest(t) \in Queries
  BY <1>1 DEF tableRequest, Queries, Views
<1> QED BY <1>2 DEF seededRequest, Queries

LEMMA NoViewType == NoView \in Queries
  BY DEF NoView, Queries, Views

LEMMA ScopeTypes ==
  ASSUME TypeOK, NEW sc \in Scopes, NEW c \in SchemaNames, NEW s \in SourceNames
  PROVE  withSchema(sc, c) \in Scopes /\ scopeOnSource(s, c) \in Scopes
<1>1. withSchema(sc, c) \in Scopes
  BY DEF withSchema, Scope, Scopes, SourceNames
<1>2. s # NoName => remembered[s] \in SchemaNames
  BY DEF TypeOK, SourceNames
<1>3. scopeOnSource(s, c) \in Scopes
  BY <1>2 DEF scopeOnSource, Scope, Scopes
<1> QED BY <1>1, <1>3

LEMMA LockType ==
  ASSUME TypeOK, scope' \in Scopes, query' \in Queries, syncGridLock
  PROVE  /\ grid' \in Grids
         /\ grid'.drawn = grid.drawn /\ grid'.key = grid.key
         /\ grid'.place = grid.place /\ grid'.query = grid.query
<1>1. grid \in Grids
  BY DEF TypeOK, Grids
<1> DEFINE stale == grid.key # KeyOf(scope', query')
<1>2. grid' = IF grid.drawn
              THEN [grid EXCEPT !.inert = stale, !.pager = grid.pager /\ ~stale]
              ELSE grid
  BY DEF syncGridLock
<1>3. stale \in BOOLEAN
  OBVIOUS
<1> HIDE DEF stale
<1> QED BY <1>1, <1>2, <1>3 DEF Grids

LEMMA RunLoadType ==
  ASSUME TypeOK, scope' \in Scopes, query' \in Queries,
         NEW q \in Queries, NEW o \in Opts, NEW others, others \subseteq Loads,
         runLoad(q, o, others)
  PROVE  /\ loads' \subseteq Loads /\ loadToken' \in Nat
         /\ failed' \in BOOLEAN /\ grid' \in Grids
<1>1. grid' \in Grids
  BY LockType DEF runLoad
<1>2. failed' \in BOOLEAN
  BY DEF runLoad, TypeOK
<1>3. loadToken' \in Nat
  BY DEF runLoad, TypeOK
<1>4. Load(loadToken + 1, q, o) \in Loads
  BY DEF Load, Loads, TypeOK, Scopes, Opts
<1>5. loads' \subseteq Loads
  BY <1>4 DEF runLoad
<1> QED BY <1>1, <1>2, <1>3, <1>5

LEMMA LoadTablesType ==
  ASSUME TypeOK, scope' \in Scopes, query' \in Queries,
         NEW q \in Queries, NEW o \in Opts, loadTables(q, o)
  PROVE  lists' \subseteq ListCalls /\ listToken' \in Nat /\ grid' \in Grids
<1>1. grid' \in Grids
  BY LockType DEF loadTables
<1>2. listToken' \in Nat
  BY DEF loadTables, TypeOK
<1>3. lists' \subseteq ListCalls
  BY DEF loadTables, ListCalls, TypeOK, Scopes, Opts
<1> QED BY <1>1, <1>2, <1>3

LEMMA LoadSchemasType ==
  ASSUME TypeOK, scope' \in Scopes, query' \in Queries,
         NEW o \in Opts, loadSchemas(o)
  PROVE  schemasCalls' \subseteq SchemasCalls /\ schemasToken' \in Nat /\ grid' \in Grids
<1>1. grid' \in Grids
  BY LockType DEF loadSchemas
<1>2. schemasToken' \in Nat
  BY DEF loadSchemas, TypeOK
<1>3. schemasCalls' \subseteq SchemasCalls
  BY DEF loadSchemas, SchemasCalls, TypeOK, Scopes, Opts
<1> QED BY <1>1, <1>2, <1>3

LEMMA EndBootType ==
  ASSUME TypeOK, NEW over, NEW w \in [settled: BOOLEAN, entry: Entries],
         At(history') \in Entries, EndBoot(over, w)
  PROVE  /\ written' \in [settled: BOOLEAN, entry: Entries]
         /\ boot' \in {"sources", "chain", "done"}
         /\ boot' # "sources" \/ boot = "sources"
         /\ boot' = "sources" \/ boot # "sources"
<1>1. [settled |-> TRUE, entry |-> At(history')] \in [settled: BOOLEAN, entry: Entries]
  OBVIOUS
<1>2. boot \in {"sources", "chain", "done"}
  BY DEF TypeOK
<1>3. CASE over /\ boot = "chain"
  BY <1>1, <1>3 DEF EndBoot
<1>4. CASE ~(over /\ boot = "chain")
  BY <1>2, <1>4 DEF EndBoot
<1> QED BY <1>3, <1>4

LEMMA AtType ==
  ASSUME TypeOK
  PROVE  history \in Histories /\ At(history) \in Entries
<1>1. /\ history \in [entries: Seq(Entries), at: Nat]
      /\ history.at \in DOMAIN history.entries
  BY DEF TypeOK
<1>2. DOMAIN history.entries = 1..Len(history.entries)
  BY <1>1
<1> QED BY <1>1, <1>2 DEF At, Histories

LEMMA HistoryType ==
  ASSUME NEW h \in Histories
  PROVE  h \in [entries: Seq(Entries), at: Nat] /\ h.at \in DOMAIN h.entries /\ At(h) \in Entries
  BY DEF Histories, At

LEMMA SyncUrlType ==
  ASSUME TypeOK, NEW replace, NEW entry \in Entries, syncUrl(replace, entry)
  PROVE  history' \in Histories
<1> DEFINE at == history.at
           old == history.entries
<1>1. old \in Seq(Entries) /\ at \in 1..Len(old) /\ history \in Histories
  BY AtType DEF Histories
<1>2. CASE replace \/ entry = At(history)
  <2>1. history' = [history EXCEPT !.entries = [old EXCEPT ![at] = entry]]
    BY <1>2 DEF syncUrl
  <2>2. [old EXCEPT ![at] = entry] \in Seq(Entries) /\ Len([old EXCEPT ![at] = entry]) = Len(old)
    BY <1>1
  <2> QED BY <1>1, <2>1, <2>2 DEF Histories
<1>3. CASE ~(replace \/ entry = At(history))
  <2>1. SubSeq(old, 1, at) \in Seq(Entries) /\ Len(SubSeq(old, 1, at)) = at
    BY <1>1
  <2>2. Append(SubSeq(old, 1, at), entry) \in Seq(Entries)
        /\ Len(Append(SubSeq(old, 1, at), entry)) = at + 1
    BY <2>1
  <2>3. at + 1 \in Nat /\ at + 1 \in 1..(at + 1)
    BY <1>1
  <2> QED BY <1>3, <2>2, <2>3 DEF syncUrl, Histories
<1> QED BY <1>2, <1>3

LEMMA CurrentEntryType ==
  ASSUME scope \in Scopes, many \in [sources: BOOLEAN, schemas: BOOLEAN], query \in Queries
  PROVE  CurrentEntry \in Entries
  BY DEF CurrentEntry, Entries, Scopes, SourceNames, SchemaNames

-----------------------------------------------------------------------------
(* Types, action by action.                                                *)
LEMMA InitType == Init => TypeOK
<1> SUFFICES ASSUME NEW e \in Opening, Init, history = [entries |-> <<e>>, at |-> 1],
                    query = e.query, filterRisk = e.query.filter,
                    scope = Scope("loading", e.source, e.schema),
                    written = [settled |-> FALSE, entry |-> e],
                    aim = [by |-> "boot", query |-> e.query]
             PROVE  TypeOK
  BY DEF Init
<1>1. e \in Entries
  OBVIOUS
<1>2. e.query \in Queries /\ e.source \in SourceNames /\ e.schema \in SchemaNames
      /\ e.query.filter \in BOOLEAN
  BY <1>1 DEF Entries, Queries
<1>3. scope \in Scopes
  BY <1>2 DEF Scopes, Scope
<1>4. history \in [entries: Seq(Entries), at: Nat] /\ history.at \in DOMAIN history.entries
  BY <1>1
<1>5. grid \in Grids
  BY NoViewType DEF Init, Grids, SourceNames, SchemaNames, Views, Places
<1>6. /\ many \in [sources: BOOLEAN, schemas: BOOLEAN]
      /\ remembered \in [Sources -> SchemaNames]
      /\ menu \in [source: SourceNames, shows: SchemaNames]
      /\ loads = {} /\ loadToken = 0 /\ lists = {} /\ listToken = 0
      /\ schemasCalls = {} /\ schemasToken = 0
      /\ chips \in [listed: BOOLEAN, source: SourceNames, schema: SchemaNames, asked: Places]
      /\ failed = FALSE /\ boot = "sources"
  BY DEF Init, SourceNames, SchemaNames, Places
<1> QED BY <1>1, <1>2, <1>3, <1>4, <1>5, <1>6 DEF TypeOK, Grids

LEMMA LoadSourcesType == TypeOK /\ loadSources => TypeOK'
<1> SUFFICES ASSUME TypeOK, loadSources PROVE TypeOK'
  OBVIOUS
<1>1. scope' \in Scopes
  BY DEF loadSources, TypeOK, Scopes, Scope, SourceNames
<1>2. many' \in [sources: BOOLEAN, schemas: BOOLEAN]
  BY DEF loadSources, TypeOK, Several
<1>3. query' \in Queries
  BY DEF loadSources, TypeOK
<1>4. [Restore EXCEPT !.boot = TRUE] \in Opts
  BY DEF Restore, ByUser, Opts
<1>5. schemasCalls' \subseteq SchemasCalls /\ schemasToken' \in Nat /\ grid' \in Grids
  BY <1>1, <1>3, <1>4, LoadSchemasType DEF loadSources
<1> QED BY <1>1, <1>2, <1>3, <1>5 DEF loadSources, TypeOK, Grids

(* The answers that are dropped or only reported change little.            *)
LEMMA QuietType ==
  ASSUME TypeOK, loads' \subseteq loads, lists' \subseteq lists,
         schemasCalls' \subseteq schemasCalls, history' = history,
         NEW over, EndBoot(over, written), failed' \in BOOLEAN,
         UNCHANGED <<scope, many, query, filterRisk, remembered, menu, loadToken,
                     listToken, schemasToken, chips, grid, aim>>
  PROVE  TypeOK'
<1>1. written \in [settled: BOOLEAN, entry: Entries] /\ At(history') \in Entries
  BY AtType DEF TypeOK, At
<1>2. /\ written' \in [settled: BOOLEAN, entry: Entries]
      /\ boot' \in {"sources", "chain", "done"}
  BY <1>1, EndBootType
<1> QED BY <1>2 DEF TypeOK

LEMMA SchemasStaleType ==
  ASSUME TypeOK, NEW c \in schemasCalls, SchemasStale(c) PROVE TypeOK'
<1> QED BY QuietType DEF SchemasStale, TypeOK

LEMMA TablesStaleType ==
  ASSUME TypeOK, NEW l \in lists, TablesStale(l) PROVE TypeOK'
<1> QED BY QuietType DEF TablesStale, TypeOK

LEMMA TablesFailType ==
  ASSUME TypeOK, NEW l \in lists, TablesFail(l) PROVE TypeOK'
<1> QED BY QuietType DEF TablesFail, TypeOK

LEMMA DataStaleType ==
  ASSUME TypeOK, NEW l \in loads, DataStale(l) PROVE TypeOK'
<1> QED BY QuietType DEF DataStale, TypeOK

LEMMA DataFailType ==
  ASSUME TypeOK, NEW l \in loads, DataFail(l) PROVE TypeOK'
<1> QED BY QuietType DEF DataFail, TypeOK

LEMMA SchemasCurrentType ==
  ASSUME TypeOK, NEW c \in schemasCalls, SchemasCurrent(c) PROVE TypeOK'
<1> DEFINE s == SourceAt(c.source)
           chosen == IF scope.schema \in SchemasOf[s] THEN scope.schema ELSE DefaultSchema[s]
           o == [ByUser EXCEPT !.replace = c.replace, !.boot = c.boot]
<1>1. c \in SchemasCalls /\ c.source \in SourceNames /\ c.replace \in BOOLEAN /\ c.boot \in BOOLEAN
  BY DEF TypeOK, SchemasCalls
<1>2. s \in Sources /\ s \in SourceNames
  BY <1>1, ServerTypes DEF SourceNames, SchemaNames
<1>3. chosen \in SchemaNames
  BY <1>2 DEF SchemaNames
<1>4. scope \in Scopes /\ scope.source \in SourceNames
  BY DEF TypeOK, Scopes
<1> HIDE DEF chosen, s
<1>5. \/ /\ scope' = withSchema(scope, chosen)
         /\ many' = [many EXCEPT !.schemas = Several(SchemasOf[s])]
         /\ menu' = [source |-> s, shows |-> chosen]
      \/ /\ scope' = Scope("failed", scope.source, NoName)
         /\ many' = [many EXCEPT !.schemas = FALSE]
         /\ menu' = menu
  BY DEF SchemasCurrent, chosen, s
<1>6. scope' \in Scopes
  <2>1. withSchema(scope, chosen) \in Scopes
    BY <1>2, <1>3, <1>4, ScopeTypes
  <2>2. Scope("failed", scope.source, NoName) \in Scopes
    BY <1>4 DEF Scope, Scopes, SchemaNames
  <2> QED BY <1>5, <2>1, <2>2
<1>7. /\ many' \in [sources: BOOLEAN, schemas: BOOLEAN]
      /\ menu' \in [source: SourceNames, shows: SchemaNames]
  <2>1. Several(SchemasOf[s]) \in BOOLEAN
    BY DEF Several
  <2>2. many \in [sources: BOOLEAN, schemas: BOOLEAN]
        /\ menu \in [source: SourceNames, shows: SchemaNames]
    BY DEF TypeOK
  <2> DEFINE several == Several(SchemasOf[s])
  <2> HIDE DEF several
  <2>3. many' \in [sources: BOOLEAN, schemas: BOOLEAN]
    <3>1. many' = [many EXCEPT !.schemas = several] \/ many' = [many EXCEPT !.schemas = FALSE]
      BY <1>5 DEF several
    <3>2. several \in BOOLEAN
      BY <2>1 DEF several
    <3> QED BY <2>2, <3>1, <3>2
  <2>4. menu' \in [source: SourceNames, shows: SchemaNames]
    BY <1>2, <1>3, <1>5, <2>2
  <2> QED BY <2>3, <2>4
<1>8. query \in Queries /\ query' = query
  BY DEF SchemasCurrent, TypeOK
<1>9. o \in Opts
  BY <1>1 DEF ByUser, Opts
<1>10. loadTables(query, o)
  BY DEF SchemasCurrent
<1> HIDE DEF o
<1>11. lists' \subseteq ListCalls /\ listToken' \in Nat /\ grid' \in Grids
  BY <1>6, <1>8, <1>9, <1>10, LoadTablesType
<1> QED BY <1>6, <1>7, <1>8, <1>11 DEF SchemasCurrent, TypeOK, Grids

LEMMA TablesCurrentType ==
  ASSUME TypeOK, NEW l \in lists, TablesCurrent(l) PROVE TypeOK'
<1> DEFINE listed == TablesAt(l.source, l.schema)
           wanted == IF l.next THEN l.query.view ELSE query.view
           fellBack == wanted \notin listed
           fallback == [query EXCEPT !.view = FirstOf(listed), !.filter = FALSE]
           o == [ByUser EXCEPT !.replace = l.replace, !.boot = l.boot, !.next = l.next /\ ~fellBack]
           q == IF o.next THEN l.query ELSE query'
<1>1. /\ l \in ListCalls /\ l.source \in SourceNames /\ l.schema \in SchemaNames
      /\ l.query \in Queries /\ l.next \in BOOLEAN /\ l.replace \in BOOLEAN /\ l.boot \in BOOLEAN
  BY DEF TypeOK, ListCalls
<1>2. listed \subseteq Tables /\ Place(l.source, l.schema) \in Places
  BY <1>1, ServerTypes
<1>3. fallback \in Queries
  <2>1. FirstOf(listed) \in Views
    BY <1>2, FirstOfType
  <2> HIDE DEF listed
  <2> QED BY <2>1 DEF TypeOK, Queries
<1>4. fellBack \in BOOLEAN
  OBVIOUS
<1>5. o \in Opts
  <2> HIDE DEF fellBack
  <2> QED BY <1>1, <1>4 DEF ByUser, Opts
<1>6. query' \in Queries
  <2>1. query' = IF fellBack THEN fallback ELSE query
    BY DEF TablesCurrent
  <2> HIDE DEF fellBack, fallback
  <2> QED BY <2>1, <1>3 DEF TypeOK
<1>7. filterRisk' \in BOOLEAN
  <2>1. filterRisk' = (filterRisk /\ ~fellBack)
    BY DEF TablesCurrent
  <2> HIDE DEF fellBack
  <2> QED BY <2>1, <1>4 DEF TypeOK
<1>8. runLoad(q, o, loads)
  BY DEF TablesCurrent
<1>9. scope' = scope /\ history' = history
  BY DEF TablesCurrent
<1>10. q \in Queries
  BY <1>1, <1>6
<1>11. loads' \subseteq Loads /\ loadToken' \in Nat /\ failed' \in BOOLEAN /\ grid' \in Grids
  <2> HIDE DEF q, o
  <2>1. scope' \in Scopes /\ loads \subseteq Loads
    BY <1>9 DEF TypeOK
  <2> QED BY <1>5, <1>6, <1>8, <1>10, <2>1, RunLoadType
<1>12. chips' \in [listed: BOOLEAN, source: SourceNames, schema: SchemaNames, asked: Places]
  <2>1. chips' = [listed |-> TRUE, source |-> scope.source, schema |-> scope.schema,
                  asked |-> Place(l.source, l.schema)]
    BY DEF TablesCurrent
  <2> QED BY <2>1, <1>2 DEF TypeOK, Scopes
<1>13. aim' \in [by: {"boot", "history", "user"}, query: Queries]
  <2>1. aim' = [aim EXCEPT !.query = query'] \/ aim' = aim
    BY DEF TablesCurrent
  <2> QED BY <2>1, <1>6 DEF TypeOK
<1>14. /\ written' \in [settled: BOOLEAN, entry: Entries]
       /\ boot' \in {"sources", "chain", "done"}
  <2>1. EndBoot(l.boot /\ query'.view = NoName, written)
    BY DEF TablesCurrent
  <2>2. written \in [settled: BOOLEAN, entry: Entries] /\ At(history') \in Entries
    BY <1>9, AtType DEF TypeOK, At
  <2> QED BY <2>1, <2>2, EndBootType
<1>15. lists' = lists \ {l} /\ UNCHANGED <<many, remembered, menu, listToken, schemasCalls, schemasToken>>
  BY DEF TablesCurrent
<1> QED BY <1>6, <1>7, <1>9, <1>11, <1>12, <1>13, <1>14, <1>15 DEF TypeOK, Grids

LEMMA DrawnType ==
  ASSUME TypeOK, NEW l \in loads, scope' \in Scopes, query' \in Queries
  PROVE  Drawn(l) \in Grids
<1>1. l.source \in SourceNames /\ l.schema \in SchemaNames /\ l.query \in Queries
  BY DEF TypeOK, Loads
<1>2. Place(l.source, l.schema) \in Places
  BY <1>1, ServerTypes
<1>3. KeyOf(scope', query') \in SourceNames \X SchemaNames \X Views
  BY KeyType
<1> QED BY <1>1, <1>2, <1>3 DEF Drawn, Grids

LEMMA CommitType ==
  ASSUME TypeOK, NEW l \in loads, Commit(l) PROVE TypeOK'
<1>1. l \in Loads /\ l.query \in Queries
  BY DEF TypeOK, Loads
<1>2. scope' = scope /\ many' = many /\ scope' \in Scopes
  BY DEF Commit, TypeOK
<1>3. query' \in Queries
  BY <1>1 DEF Commit, commitRequest, TypeOK
<1>4. CurrentEntry' \in Entries
  BY <1>2, <1>3 DEF CurrentEntry, Entries, Scopes, SourceNames, SchemaNames, TypeOK
<1>5. history' \in Histories
  BY <1>4, SyncUrlType DEF Commit
<1>6. loads' \subseteq Loads
  <2>1. [l EXCEPT !.stage = "drawing"] \in Loads
    BY <1>1 DEF Loads
  <2>2. loads \subseteq Loads
    BY DEF TypeOK
  <2>3. \/ loads' = (loads \ {l}) \cup {[l EXCEPT !.stage = "drawing"]}
        \/ loads' = loads \ {l}
    BY DEF Commit
  <2> QED BY <2>1, <2>2, <2>3
<1>7. grid' \in Grids
  <2>1. grid \in Grids
    BY DEF TypeOK, Grids
  <2>2. Drawn(l) \in Grids
    BY <1>2, <1>3, DrawnType
  <2>3. grid' = grid \/ grid' = Drawn(l)
    BY DEF Commit
  <2> QED BY <2>1, <2>2, <2>3
<1>8. /\ written' \in [settled: BOOLEAN, entry: Entries]
      /\ boot' \in {"sources", "chain", "done"}
  <2>1. EndBoot(l.boot /\ ~ViewTransitions, [settled |-> TRUE, entry |-> CurrentEntry'])
    BY DEF Commit
  <2>2. [settled |-> TRUE, entry |-> CurrentEntry'] \in [settled: BOOLEAN, entry: Entries]
        /\ At(history') \in Entries
    BY <1>4, <1>5, HistoryType
  <2> QED BY <2>1, <2>2, EndBootType
<1>9. /\ filterRisk' = FALSE
      /\ UNCHANGED <<remembered, menu, loadToken, lists, listToken, schemasCalls,
                     schemasToken, chips, failed, aim>>
  BY DEF Commit
<1>10. history' \in [entries: Seq(Entries), at: Nat] /\ history'.at \in DOMAIN history'.entries
  BY <1>5, HistoryType
<1> QED BY <1>2, <1>3, <1>6, <1>7, <1>8, <1>9, <1>10 DEF TypeOK, Grids

LEMMA DrawType ==
  ASSUME TypeOK, NEW l \in loads, Draw(l) PROVE TypeOK'
<1>1. scope' \in Scopes /\ query' \in Queries
  BY DEF Draw, TypeOK
<1>2. grid' \in Grids
  <2>1. grid \in Grids
    BY DEF TypeOK, Grids
  <2> QED BY <2>1, <1>1, DrawnType DEF Draw
<1>3. /\ written' \in [settled: BOOLEAN, entry: Entries]
      /\ boot' \in {"sources", "chain", "done"}
  <2>1. written \in [settled: BOOLEAN, entry: Entries] /\ At(history') \in Entries
    BY AtType DEF TypeOK, At, Draw
  <2> QED BY <2>1, EndBootType DEF Draw
<1> QED BY <1>2, <1>3 DEF Draw, TypeOK, Grids

LEMMA DropFilterType ==
  ASSUME TypeOK, NEW l \in loads, DropFilter(l) PROVE TypeOK'
<1> DEFINE o == [ByUser EXCEPT !.replace = l.replace, !.boot = l.boot]
<1>1. l.replace \in BOOLEAN /\ l.boot \in BOOLEAN
  BY DEF TypeOK, Loads
<1>2. o \in Opts
  BY <1>1 DEF ByUser, Opts
<1>3. scope' \in Scopes /\ query' \in Queries
  BY DEF DropFilter, TypeOK, Queries
<1>4. runLoad(query', o, loads \ {l})
  BY DEF DropFilter
<1> HIDE DEF o
<1>5. loads' \subseteq Loads /\ loadToken' \in Nat /\ failed' \in BOOLEAN /\ grid' \in Grids
  <2>1. loads \ {l} \subseteq Loads
    BY DEF TypeOK
  <2> QED BY <1>2, <1>3, <1>4, <2>1, RunLoadType
<1>6. aim' \in [by: {"boot", "history", "user"}, query: Queries]
  <2>1. aim' = [aim EXCEPT !.query = query'] \/ aim' = aim
    BY DEF DropFilter
  <2> QED BY <2>1, <1>3 DEF TypeOK
<1> QED BY <1>3, <1>5, <1>6 DEF DropFilter, TypeOK, Grids

LEMMA UserLoadType ==
  ASSUME TypeOK, NEW q \in Queries, NEW o \in Opts,
         query' \in Queries, filterRisk' \in BOOLEAN, userLoad(q, o)
  PROVE  TypeOK'
<1>1. scope' \in Scopes /\ loads \subseteq Loads
  BY DEF userLoad, TypeOK
<1>2. loads' \subseteq Loads /\ loadToken' \in Nat /\ failed' \in BOOLEAN /\ grid' \in Grids
  BY <1>1, RunLoadType DEF userLoad
<1>3. aim' \in [by: {"boot", "history", "user"}, query: Queries]
  BY DEF userLoad, AimAt
<1>4. UNCHANGED <<scope, many, remembered, menu, lists, listToken, schemasCalls,
                  schemasToken, chips, history, written, boot>>
  BY DEF userLoad
<1> QED BY <1>2, <1>3, <1>4 DEF TypeOK, Grids

LEMMA SameQueryTypes ==
  ASSUME TypeOK
  PROVE  /\ query \in Queries /\ filterRisk \in BOOLEAN
         /\ ByUser \in Opts /\ [ByUser EXCEPT !.next = TRUE] \in Opts
         /\ [ByUser EXCEPT !.auto = TRUE] \in Opts
  BY DEF TypeOK, ByUser, Opts

LEMMA ClickChipType ==
  ASSUME TypeOK, NEW t \in Tables, ClickChip(t) PROVE TypeOK'
<1> QED BY RequestTypes, SameQueryTypes, UserLoadType DEF ClickChip

LEMMA FollowKeyType ==
  ASSUME TypeOK, NEW t \in Tables, FollowKey(t) PROVE TypeOK'
<1> QED BY RequestTypes, SameQueryTypes, UserLoadType DEF FollowKey

LEMMA RefreshType == TypeOK /\ Refresh => TypeOK'
  BY SameQueryTypes, UserLoadType DEF Refresh

LEMMA PageType ==
  ASSUME TypeOK, NEW p \in 0..MaxPage, Page(p) PROVE TypeOK'
<1>1. query' \in Queries
  BY SameQueryTypes DEF Page, Queries
<1> QED BY <1>1, SameQueryTypes, UserLoadType DEF Page

LEMMA NextPageType == TypeOK /\ NextPage => TypeOK'
<1> SUFFICES ASSUME TypeOK, NextPage PROVE TypeOK'
  OBVIOUS
<1>1. query.page \in 0..MaxPage
  BY DEF TypeOK, Queries
<1>2. query.page + 1 \in 0..MaxPage /\ Page(query.page + 1)
  BY <1>1 DEF NextPage
<1> QED BY <1>2, PageType

LEMMA PrevPageType == TypeOK /\ PrevPage => TypeOK'
<1> SUFFICES ASSUME TypeOK, PrevPage PROVE TypeOK'
  OBVIOUS
<1> DEFINE p == IF query.page = 0 THEN 0 ELSE query.page - 1
<1>1. query.page \in 0..MaxPage
  BY DEF TypeOK, Queries
<1>2. p \in 0..MaxPage
  <2>1. \A n \in 0..MaxPage : n # 0 => n - 1 \in 0..MaxPage
    BY MaxPage \in Nat
  <2>2. query.page # 0 => query.page - 1 \in 0..MaxPage
    BY <1>1, <2>1, Zenon
  <2> QED BY <1>1, <2>2, Zenon
<1>3. Page(p)
  BY DEF PrevPage
<1> QED BY <1>2, <1>3, PageType

LEMMA SubmitFilterType ==
  ASSUME TypeOK, NEW f \in BOOLEAN, submitFilter(f) PROVE TypeOK'
<1>1. 0 \in 0..MaxPage
  OBVIOUS
<1>2. query' \in Queries /\ filterRisk' \in BOOLEAN
  BY <1>1, SameQueryTypes DEF submitFilter, Queries
<1> QED BY <1>2, SameQueryTypes, UserLoadType DEF submitFilter

LEMMA TickType == TypeOK /\ Tick => TypeOK'
<1> SUFFICES ASSUME TypeOK, Tick PROVE TypeOK'
  OBVIOUS
<1>1. scope' \in Scopes /\ query' \in Queries /\ loads \subseteq Loads
  BY DEF Tick, TypeOK
<1>2. loads' \subseteq Loads /\ loadToken' \in Nat /\ failed' \in BOOLEAN /\ grid' \in Grids
  BY <1>1, SameQueryTypes, RunLoadType DEF Tick
<1> QED BY <1>2 DEF Tick, TypeOK, Grids

LEMMA SetSchemaType ==
  ASSUME TypeOK, NEW c \in Schemas, setSchema(c)
  PROVE  /\ scope' \in Scopes
         /\ menu' \in [source: SourceNames, shows: SchemaNames]
         /\ remembered' \in [Sources -> SchemaNames]
<1>1. c \in SchemaNames /\ scope \in Scopes /\ NoName \in SourceNames
  BY DEF TypeOK, SchemaNames, SourceNames
<1>2. scope' \in Scopes
  BY <1>1, ScopeTypes DEF setSchema
<1>3. menu' \in [source: SourceNames, shows: SchemaNames]
  BY <1>1 DEF setSchema, TypeOK
<1>4. remembered' \in [Sources -> SchemaNames]
  BY <1>1 DEF setSchema, TypeOK
<1> QED BY <1>2, <1>3, <1>4

LEMMA FollowKeyAcrossType ==
  ASSUME TypeOK, NEW t \in Tables, NEW c \in Schemas, FollowKeyAcross(t, c) PROVE TypeOK'
<1>1. /\ scope' \in Scopes
      /\ menu' \in [source: SourceNames, shows: SchemaNames]
      /\ remembered' \in [Sources -> SchemaNames]
  BY SetSchemaType DEF FollowKeyAcross
<1>2. query' \in Queries /\ filterRisk' = FALSE
  BY RequestTypes DEF FollowKeyAcross
<1>3. lists' \subseteq ListCalls /\ listToken' \in Nat /\ grid' \in Grids
  BY <1>1, <1>2, RequestTypes, SameQueryTypes, LoadTablesType DEF FollowKeyAcross
<1>4. aim' \in [by: {"boot", "history", "user"}, query: Queries]
  BY RequestTypes DEF FollowKeyAcross, AimAt
<1>5. loads' = loads /\ loadToken' \in Nat
  BY DEF FollowKeyAcross, supersedeLoads, TypeOK
<1>6. UNCHANGED <<many, schemasCalls, schemasToken, chips, history, written, failed, boot>>
  BY DEF FollowKeyAcross
<1> QED BY <1>1, <1>2, <1>3, <1>4, <1>5, <1>6 DEF TypeOK, Grids

LEMMA SwitchSourceType ==
  ASSUME TypeOK, NEW s \in Sources, switchSource(s) PROVE TypeOK'
<1>1. scope' \in Scopes
  <2>1. scope \in Scopes /\ s \in SourceNames /\ NoName \in SchemaNames
    BY DEF TypeOK, SourceNames, SchemaNames
  <2> QED BY <2>1, ScopeTypes DEF switchSource
<1>2. query' \in Queries /\ filterRisk' = FALSE
  BY NoViewType DEF switchSource
<1>3. schemasCalls' \subseteq SchemasCalls /\ schemasToken' \in Nat /\ grid' \in Grids
  BY <1>1, <1>2, OptsTypes, LoadSchemasType DEF switchSource
<1>4. aim' \in [by: {"boot", "history", "user"}, query: Queries]
  BY NoViewType DEF switchSource, AimAt
<1>5. loads' = loads /\ loadToken' \in Nat
  BY DEF switchSource, supersedeLoads, TypeOK
<1>6. UNCHANGED <<many, remembered, menu, lists, listToken, chips, history, written, failed, boot>>
  BY DEF switchSource
<1> QED BY <1>1, <1>2, <1>3, <1>4, <1>5, <1>6 DEF TypeOK, Grids

LEMMA SwitchSchemaType ==
  ASSUME TypeOK, NEW c \in Schemas, switchSchema(c) PROVE TypeOK'
<1>1. /\ scope' \in Scopes
      /\ menu' \in [source: SourceNames, shows: SchemaNames]
      /\ remembered' \in [Sources -> SchemaNames]
  BY SetSchemaType DEF switchSchema
<1>2. query' \in Queries /\ filterRisk' = FALSE
  BY NoViewType DEF switchSchema
<1>3. lists' \subseteq ListCalls /\ listToken' \in Nat /\ grid' \in Grids
  BY <1>1, <1>2, NoViewType, OptsTypes, LoadTablesType DEF switchSchema
<1>4. aim' \in [by: {"boot", "history", "user"}, query: Queries]
  BY NoViewType DEF switchSchema, AimAt
<1>5. loads' = loads /\ loadToken' \in Nat
  BY DEF switchSchema, supersedeLoads, TypeOK
<1>6. UNCHANGED <<many, schemasCalls, schemasToken, chips, history, written, failed, boot>>
  BY DEF switchSchema
<1> QED BY <1>1, <1>2, <1>3, <1>4, <1>5, <1>6 DEF TypeOK, Grids

LEMMA ApplyUrlType ==
  ASSUME TypeOK, NEW e \in Entries, applyUrlExact(e)
  PROVE  scope' \in Scopes /\ query' \in Queries /\ filterRisk' \in BOOLEAN
<1> DEFINE s == IF e.source = NoName THEN scope.source ELSE e.source
<1>1. /\ e.source \in SourceNames /\ e.schema \in SchemaNames /\ e.query \in Queries
      /\ e.query.filter \in BOOLEAN /\ scope \in Scopes /\ scope.source \in SourceNames
  BY DEF Entries, TypeOK, Scopes, Queries
<1>2. s \in SourceNames
  BY <1>1
<1>3. \/ scope' = scopeOnSource(s, e.schema)
      \/ scope' = withSchema(scope, e.schema)
      \/ scope' = scope
  BY DEF applyUrlExact
<1> HIDE DEF s
<1>4. scope' \in Scopes
  BY <1>1, <1>2, <1>3, ScopeTypes
<1> QED BY <1>1, <1>4 DEF applyUrlExact

LEMMA RestoreRequestsType ==
  ASSUME TypeOK, scope' \in Scopes, query' \in Queries, RestoreRequests
  PROVE  /\ loads' \subseteq Loads /\ loadToken' \in Nat
         /\ lists' \subseteq ListCalls /\ listToken' \in Nat
         /\ schemasCalls' \subseteq SchemasCalls /\ schemasToken' \in Nat
         /\ failed' \in BOOLEAN /\ grid' \in Grids
<1>1. \/ /\ supersedeLoads /\ loadSchemas(Restore)
         /\ UNCHANGED <<lists, listToken, failed>>
      \/ /\ runLoad(query', Restore, loads)
         /\ UNCHANGED <<lists, listToken, schemasCalls, schemasToken>>
      \/ /\ supersedeLoads /\ loadTables(NoView, Restore)
         /\ UNCHANGED <<schemasCalls, schemasToken, failed>>
  BY DEF RestoreRequests
<1>2. /\ loads \subseteq Loads /\ loadToken \in Nat
      /\ lists \subseteq ListCalls /\ listToken \in Nat
      /\ schemasCalls \subseteq SchemasCalls /\ schemasToken \in Nat
      /\ failed \in BOOLEAN
  BY DEF TypeOK
<1>3. CASE supersedeLoads /\ loadSchemas(Restore) /\ UNCHANGED <<lists, listToken, failed>>
  BY <1>2, <1>3, OptsTypes, LoadSchemasType DEF supersedeLoads
<1>4. CASE runLoad(query', Restore, loads)
           /\ UNCHANGED <<lists, listToken, schemasCalls, schemasToken>>
  BY <1>2, <1>4, OptsTypes, RunLoadType
<1>5. CASE supersedeLoads /\ loadTables(NoView, Restore)
           /\ UNCHANGED <<schemasCalls, schemasToken, failed>>
  BY <1>2, <1>5, OptsTypes, NoViewType, LoadTablesType DEF supersedeLoads
<1> QED BY <1>1, <1>3, <1>4, <1>5

LEMMA PopstateType ==
  ASSUME TypeOK, NEW i \in DOMAIN history.entries, Popstate(i) PROVE TypeOK'
<1> DEFINE e == history.entries[i]
<1>1. /\ history \in [entries: Seq(Entries), at: Nat]
      /\ DOMAIN history.entries = 1..Len(history.entries)
  BY DEF TypeOK
<1>2. e \in Entries
  BY <1>1
<1>3. history' \in [entries: Seq(Entries), at: Nat] /\ history'.at \in DOMAIN history'.entries
  <2>1. history' = [history EXCEPT !.at = i]
    BY DEF Popstate
  <2>2. i \in Nat
    BY <1>1
  <2> QED BY <1>1, <2>1, <2>2
<1>4. CASE e = written.entry
  BY <1>3, <1>4 DEF Popstate, requests, TypeOK
<1>5. CASE e # written.entry
  <2>1. /\ written' = [settled |-> TRUE, entry |-> e]
        /\ applyUrlExact(e)
        /\ menu' = [menu EXCEPT !.shows = scope'.schema]
        /\ RestoreRequests
        /\ aim' = [by |-> "history", query |-> e.query]
        /\ UNCHANGED <<many, remembered, chips, boot>>
    BY <1>5 DEF Popstate, AimAt
  <2> HIDE DEF e
  <2>2. scope' \in Scopes /\ query' \in Queries /\ filterRisk' \in BOOLEAN
    BY <1>2, <2>1, ApplyUrlType
  <2>3. /\ loads' \subseteq Loads /\ loadToken' \in Nat
        /\ lists' \subseteq ListCalls /\ listToken' \in Nat
        /\ schemasCalls' \subseteq SchemasCalls /\ schemasToken' \in Nat
        /\ failed' \in BOOLEAN /\ grid' \in Grids
    BY <2>1, <2>2, RestoreRequestsType
  <2>4. menu' \in [source: SourceNames, shows: SchemaNames]
    BY <2>1, <2>2 DEF TypeOK, Scopes
  <2>5. /\ written' \in [settled: BOOLEAN, entry: Entries]
        /\ aim' \in [by: {"boot", "history", "user"}, query: Queries]
    BY <1>2, <2>1 DEF Entries
  <2> QED BY <1>3, <2>1, <2>2, <2>3, <2>4, <2>5 DEF TypeOK, Grids
<1> QED BY <1>4, <1>5

LEMMA NextType == TypeOK /\ [Next]_vars => TypeOK'
<1> SUFFICES ASSUME TypeOK, [Next]_vars PROVE TypeOK'
  OBVIOUS
<1>1. CASE Answers
  <2>1. CASE loadSources
    BY <2>1, LoadSourcesType
  <2>2. CASE \E c \in schemasCalls : SchemasStale(c) \/ SchemasCurrent(c)
    BY <2>2, SchemasStaleType, SchemasCurrentType
  <2>3. CASE \E l \in lists : TablesStale(l) \/ TablesCurrent(l) \/ TablesFail(l)
    BY <2>3, TablesStaleType, TablesCurrentType, TablesFailType
  <2>4. CASE \E l \in loads : \/ DataStale(l) \/ Commit(l) \/ Draw(l)
                              \/ DataFail(l) \/ DropFilter(l)
    BY <2>4, DataStaleType, CommitType, DrawType, DataFailType, DropFilterType
  <2> QED BY <1>1, <2>1, <2>2, <2>3, <2>4 DEF Answers
<1>2. CASE InPlace
  BY <1>2, NextPageType, PrevPageType, SubmitFilterType, RefreshType DEF InPlace
<1>3. CASE Switches
  BY <1>3, ClickChipType, FollowKeyType, FollowKeyAcrossType, SwitchSourceType,
     SwitchSchemaType DEF Switches
<1>4. CASE Traversals
  BY <1>4, PopstateType DEF Traversals
<1>5. CASE Tick
  BY <1>5, TickType
<1>6. CASE UNCHANGED vars
  BY <1>6 DEF vars, requests, TypeOK
<1> QED BY <1>1, <1>2, <1>3, <1>4, <1>5, <1>6 DEF Next

(* Tokens are numbers, pages stay within bounds, entries are entries: the  *)
(* previous-page button never leaves page 0, whatever is drawn (main.ts).  *)
THEOREM ViewerTypesHold == Spec => []TypeOK
  BY InitType, NextType, PTL DEF Spec

-----------------------------------------------------------------------------
(* A load's answer is of the scope, the table and the page it was for.     *)

LoadTokens ==
    /\ \A l \in loads : l.token <= loadToken
    /\ \A l, m \in loads : l.token = m.token => l = m

SchemasTokens ==
    /\ \A c \in schemasCalls : c.token <= schemasToken
    /\ \A c, d \in schemasCalls : c.token = d.token => c = d

LEMMA TokensParts == (Tokens <=> LoadTokens /\ SchemasTokens)
  BY DEF Tokens, LoadTokens, SchemasTokens

LEMMA InvTypes ==
  ASSUME ViewerInv
  PROVE  /\ TypeOK /\ LoadTokens /\ SchemasTokens
         /\ scope \in Scopes /\ scope.source \in SourceNames /\ scope.schema \in SchemaNames
         /\ query \in Queries /\ loadToken \in Nat /\ schemasToken \in Nat
         /\ loads \subseteq Loads /\ schemasCalls \subseteq SchemasCalls
         /\ \A l \in loads : /\ l.token \in Nat
                             /\ l.source \in SourceNames /\ l.schema \in SchemaNames
         /\ \A c \in schemasCalls : c.token \in Nat /\ c.source \in SourceNames
<1>1. TypeOK /\ LoadTokens /\ SchemasTokens
  BY TokensParts DEF ViewerInv
<1>2. loads \subseteq Loads /\ schemasCalls \subseteq SchemasCalls
      /\ scope \in Scopes /\ query \in Queries /\ loadToken \in Nat /\ schemasToken \in Nat
  BY <1>1 DEF TypeOK
<1>3. scope.source \in SourceNames /\ scope.schema \in SchemaNames
  BY <1>2 DEF Scopes
<1>4. \A l \in loads : /\ l.token \in Nat
                      /\ l.source \in SourceNames /\ l.schema \in SchemaNames
  BY <1>2 DEF Loads
<1>5. \A c \in schemasCalls : c.token \in Nat /\ c.source \in SourceNames
  BY <1>2 DEF SchemasCalls
<1> QED BY <1>1, <1>2, <1>3, <1>4, <1>5

-----------------------------------------------------------------------------
(* What the steps are made of.                                             *)
LEMMA LockKeeps ==
  ASSUME ViewerInv, scope' \in Scopes, query' \in Queries, syncGridLock
  PROVE  GridOfItsKey'
  BY InvTypes, LockType DEF ViewerInv, GridOfItsKey

(* A new load is the only current one, and asks in the scope of now.       *)
LEMMA NewLoad ==
  ASSUME ViewerInv, scope' \in Scopes, query' \in Queries,
         NEW q \in Queries, NEW o \in Opts, NEW others, others \subseteq loads,
         runLoad(q, o, others),
         schemasCalls' = schemasCalls, schemasToken' = schemasToken,
         boot' = "sources" => boot = "sources",
         o.next \/ q.view = query'.view,
         q.view = NoName => /\ scope'.source = scope.source
                            /\ scope'.schema = scope.schema
                            /\ query'.view \in {query.view, NoName}
  PROVE  Tokens' /\ LoadsOfNow' /\ GridOfItsKey'
<1>1. GridOfItsKey'
  BY LockKeeps DEF runLoad
<1>2. SchemasTokens'
  BY InvTypes DEF SchemasTokens
<1>3. CASE q.view = NoName
  <2>1. loads' = others /\ loadToken' = loadToken
    BY <1>3 DEF runLoad
  <2>2. LoadTokens'
    BY <2>1, InvTypes DEF LoadTokens
  <2>3. Unsettled' => Unsettled
    BY <1>3 DEF Unsettled, isCurrentSchemas
  <2>4. LoadsOfNow'
    <3> SUFFICES ASSUME NEW l \in loads'
                 PROVE  /\ isCurrentLoad(l)' => LoadOfNow(l)'
                        /\ l.stage = "drawing" => Readable(l)
      BY DEF LoadsOfNow
    <3>1. (isCurrentLoad(l) => LoadOfNow(l)) /\ (l.stage = "drawing" => Readable(l))
      BY <2>1 DEF ViewerInv, LoadsOfNow
    <3>2. isCurrentLoad(l)' = isCurrentLoad(l)
      BY <2>1 DEF isCurrentLoad
    <3>3. LoadOfNow(l) => LoadOfNow(l)'
      BY <1>3, <2>3 DEF LoadOfNow
    <3> QED BY <3>1, <3>2, <3>3
  <2> QED BY <1>1, <1>2, <2>2, <2>4, TokensParts DEF Tokens, LoadTokens, SchemasTokens
<1>4. CASE q.view # NoName
  <2> DEFINE new == Load(loadToken + 1, q, o)
  <2>1. loads' = others \cup {new} /\ loadToken' = loadToken + 1
    BY <1>4 DEF runLoad
  <2>2. /\ new.token = loadToken + 1 /\ new.query = q /\ new.next = o.next
        /\ new.source = scope'.source /\ new.schema = scope'.schema
        /\ new.stage = "fetching"
    BY DEF Load
  <2> HIDE DEF new
  <2>3. \A l \in others : l.token \in Nat /\ l.token <= loadToken /\ l.token # loadToken'
    BY <2>1, InvTypes DEF LoadTokens
  <2>4. LoadTokens'
    BY <2>1, <2>2, <2>3, InvTypes DEF LoadTokens
  <2>5. LoadsOfNow'
    <3> SUFFICES ASSUME NEW l \in loads'
                 PROVE  /\ isCurrentLoad(l)' => LoadOfNow(l)'
                        /\ l.stage = "drawing" => Readable(l)
      BY DEF LoadsOfNow
    <3>1. CASE l \in others
      BY <2>3, <3>1 DEF ViewerInv, LoadsOfNow, isCurrentLoad
    <3>2. CASE l = new
      <4>1. (l.next /\ l.stage = "fetching") \/ query'.view \in {NoName, l.query.view}
        BY <2>2, <3>2
      <4>2. NoName \notin {scope'.source, scope'.schema} =>
              Place(l.source, l.schema) = <<scope'.source, scope'.schema>>
        BY <2>2, <3>2 DEF Place, SourceAt, SchemaAt
      <4>3. LoadOfNow(l)'
        BY <2>2, <3>2, <4>1, <4>2 DEF LoadOfNow
      <4> QED BY <2>2, <3>2, <4>3
    <3> QED BY <2>1, <3>1, <3>2
  <2> QED BY <1>1, <1>2, <2>4, <2>5 DEF Tokens, LoadTokens, SchemasTokens
<1> QED BY <1>3, <1>4

(* After supersedeLoads no load is current.                                *)
LEMMA Superseded ==
  ASSUME ViewerInv, supersedeLoads
  PROVE  LoadTokens' /\ LoadsOfNow'
<1>1. loads' = loads /\ loadToken' = loadToken + 1
  BY DEF supersedeLoads
<1>2. \A l \in loads : l.token \in Nat /\ l.token <= loadToken /\ l.token # loadToken'
  BY <1>1, InvTypes DEF LoadTokens
<1>3. LoadTokens'
  BY <1>1, <1>2, InvTypes DEF LoadTokens
<1>4. LoadsOfNow'
  BY <1>1, <1>2 DEF LoadsOfNow, ViewerInv, isCurrentLoad
<1> QED BY <1>3, <1>4

(* Calls that end, in a scope and view that stay.                          *)
LEMMA LoadsEnd ==
  ASSUME ViewerInv, loads' \subseteq loads, loadToken' = loadToken,
         scope' = scope, query' = query,
         schemasCalls' \subseteq schemasCalls, schemasToken' = schemasToken,
         boot' = "sources" => boot = "sources"
  PROVE  Tokens' /\ LoadsOfNow'
<1>1. LoadTokens' /\ SchemasTokens'
  BY InvTypes DEF LoadTokens, SchemasTokens
<1>2. Unsettled' => Unsettled
  BY DEF Unsettled, isCurrentSchemas
<1>3. LoadsOfNow'
  <2> SUFFICES ASSUME NEW l \in loads'
               PROVE  /\ isCurrentLoad(l)' => LoadOfNow(l)'
                      /\ l.stage = "drawing" => Readable(l)
    BY DEF LoadsOfNow
  <2>1. (isCurrentLoad(l) => LoadOfNow(l)) /\ (l.stage = "drawing" => Readable(l))
    BY DEF ViewerInv, LoadsOfNow
  <2>2. isCurrentLoad(l)' = isCurrentLoad(l)
    BY DEF isCurrentLoad
  <2>3. LoadOfNow(l) => LoadOfNow(l)'
    BY <1>2 DEF LoadOfNow
  <2> QED BY <2>1, <2>2, <2>3
<1> QED BY <1>1, <1>3 DEF Tokens, LoadTokens, SchemasTokens

(* A new /schemas call is for the source of now, and the only current one. *)
LEMMA NewSchemas ==
  ASSUME ViewerInv, NEW o, loadSchemas(o)
  PROVE  /\ SchemasTokens'
         /\ \A c \in schemasCalls' : c.token = schemasToken' => c.source = scope'.source
<1> DEFINE new == [token |-> schemasToken + 1, source |-> scope'.source,
                   replace |-> o.replace, boot |-> o.boot]
<1>1. schemasCalls' = schemasCalls \cup {new} /\ schemasToken' = schemasToken + 1
  BY DEF loadSchemas
<1>2. new.token = schemasToken + 1 /\ new.source = scope'.source
  OBVIOUS
<1> HIDE DEF new
<1>3. \A c \in schemasCalls : c.token \in Nat /\ c.token <= schemasToken /\ c.token # schemasToken'
  BY <1>1, InvTypes DEF SchemasTokens
<1>4. SchemasTokens'
  BY <1>1, <1>2, <1>3, InvTypes DEF SchemasTokens
<1> QED BY <1>1, <1>2, <1>3, <1>4

LEMMA SourceKept ==
  ASSUME ViewerInv, scope'.source = scope.source, many'.sources = many.sources,
         schemasCalls' \subseteq schemasCalls, schemasToken' = schemasToken,
         boot' = "sources" => boot = "sources", history'.entries = history.entries
  PROVE  SourceStays'
  BY DEF ViewerInv, SourceStays, isCurrentSchemas

LEMMA EndBootKeeps ==
  ASSUME NEW over, NEW w, EndBoot(over, w)
  PROVE  boot' = "sources" => boot = "sources"
  BY DEF EndBoot

-----------------------------------------------------------------------------
(* The invariant, action by action.                                        *)
LEMMA InitInv == Init => ViewerInv
<1> SUFFICES ASSUME Init PROVE ViewerInv
  OBVIOUS
<1>1. TypeOK
  BY InitType
<1>2. loads = {} /\ schemasCalls = {} /\ ~grid.drawn /\ ~many.sources
  BY DEF Init
<1>3. \A i \in DOMAIN history.entries : history.entries[i].source \in {NoName, scope.source}
  BY DEF Init, Scope
<1> QED BY <1>1, <1>2, <1>3
        DEF ViewerInv, Tokens, SourceStays, LoadsOfNow, GridOfItsKey

LEMMA LoadSourcesInv ==
  ASSUME ViewerInv, loadSources, TypeOK' PROVE ViewerInv'
<1> DEFINE s == IF scope.source \in Sources THEN scope.source ELSE DefaultSource
<1>1. /\ boot = "sources" /\ boot' = "chain" /\ query' = query
      /\ loads' = loads /\ loadToken' = loadToken
      /\ loadSchemas([Restore EXCEPT !.boot = TRUE]) /\ syncGridLock
      /\ \/ scope' = Scope("loading", s, scope.schema)
         \/ scope' = Scope("failed", NoName, scope.schema)
  BY DEF loadSources, loadSchemas
<1>2. scope' \in Scopes /\ query' \in Queries
  BY DEF TypeOK
<1>3. s = SourceAt(scope.source) /\ s \in Sources /\ s # NoName
  BY InvTypes DEF SourceAt, SourceNames
<1> HIDE DEF s
<1>4. GridOfItsKey'
  BY <1>1, <1>2, LockKeeps
<1>5. /\ SchemasTokens'
      /\ \A c \in schemasCalls' : c.token = schemasToken' => c.source = scope'.source
  BY <1>1, NewSchemas
<1>6. SourceStays'
  BY <1>1, <1>5 DEF SourceStays, isCurrentSchemas
<1>7. LoadTokens'
  BY <1>1, InvTypes DEF LoadTokens
<1>8. LoadsOfNow'
  <2> SUFFICES ASSUME NEW l \in loads
               PROVE  /\ isCurrentLoad(l)' => LoadOfNow(l)'
                      /\ l.stage = "drawing" => Readable(l)
    BY <1>1 DEF LoadsOfNow
  <2>1. l.stage = "drawing" => Readable(l)
    BY DEF ViewerInv, LoadsOfNow
  <2>2. SUFFICES ASSUME isCurrentLoad(l) PROVE LoadOfNow(l)'
    BY <1>1, <2>1 DEF isCurrentLoad
  <2>3. /\ SourceAt(l.source) = SourceAt(scope.source) /\ l.schema = scope.schema
        /\ (l.next /\ l.stage = "fetching") \/ query.view \in {NoName, l.query.view}
    BY <1>1, <2>2 DEF ViewerInv, LoadsOfNow, LoadOfNow, Unsettled
  <2>4. CASE scope' = Scope("loading", s, scope.schema)
    <3>1. scope'.source = s /\ scope'.schema = scope.schema
      BY <2>4 DEF Scope
    <3>2. SourceAt(scope'.source) = s
      BY <1>3, <3>1 DEF SourceAt
    <3>3. scope'.schema # NoName => Place(l.source, l.schema) = <<s, scope'.schema>>
      BY <1>3, <2>3, <3>1 DEF Place, SchemaAt
    <3> QED BY <1>1, <1>3, <2>3, <3>1, <3>2, <3>3 DEF LoadOfNow
  <2>5. CASE scope' = Scope("failed", NoName, scope.schema)
    <3>1. scope'.source = NoName
      BY <2>5 DEF Scope
    <3> QED BY <1>1, <2>3, <3>1 DEF LoadOfNow, Unsettled
  <2> QED BY <1>1, <2>4, <2>5
<1> QED BY <1>4, <1>5, <1>6, <1>7, <1>8 DEF ViewerInv, Tokens, LoadTokens, SchemasTokens

(* Answers that are dropped or only reported.                              *)
LEMMA QuietInv ==
  ASSUME ViewerInv, TypeOK', loads' \subseteq loads, schemasCalls' \subseteq schemasCalls,
         history' = history, NEW over, EndBoot(over, written),
         UNCHANGED <<scope, many, query, loadToken, schemasToken, grid>>
  PROVE  ViewerInv'
<1>1. boot' = "sources" => boot = "sources"
  BY EndBootKeeps
<1>2. Tokens' /\ LoadsOfNow'
  BY <1>1, LoadsEnd
<1>3. SourceStays'
  BY <1>1, SourceKept
<1>4. GridOfItsKey'
  BY DEF ViewerInv, GridOfItsKey
<1> QED BY <1>2, <1>3, <1>4 DEF ViewerInv

LEMMA StaleAnswersInv ==
  ASSUME ViewerInv, TypeOK',
         \/ \E c \in schemasCalls : SchemasStale(c)
         \/ \E l \in lists : TablesStale(l) \/ TablesFail(l)
         \/ \E l \in loads : DataStale(l) \/ DataFail(l)
  PROVE  ViewerInv'
<1>1. CASE \E c \in schemasCalls : SchemasStale(c)
  BY <1>1, QuietInv DEF SchemasStale
<1>2. CASE \E l \in lists : TablesStale(l)
  BY <1>2, QuietInv DEF TablesStale
<1>3. CASE \E l \in lists : TablesFail(l)
  BY <1>3, QuietInv DEF TablesFail
<1>4. CASE \E l \in loads : DataStale(l)
  BY <1>4, QuietInv DEF DataStale
<1>5. CASE \E l \in loads : DataFail(l)
  BY <1>5, QuietInv DEF DataFail
<1> QED BY <1>1, <1>2, <1>3, <1>4, <1>5

LEMMA SchemasCurrentInv ==
  ASSUME ViewerInv, NEW c \in schemasCalls, SchemasCurrent(c), TypeOK' PROVE ViewerInv'
<1> DEFINE listed == SchemasOf[SourceAt(c.source)]
           default == DefaultSchema[SourceAt(c.source)]
           chosen == IF scope.schema \in listed THEN scope.schema ELSE default
<1>1. /\ isCurrentSchemas(c) /\ c.source = scope.source /\ boot # "sources"
  BY DEF SchemasCurrent, ViewerInv, SourceStays
<1>2. /\ schemasCalls' = schemasCalls \ {c} /\ schemasToken' = schemasToken
      /\ loads' = loads /\ loadToken' = loadToken
      /\ query' = query /\ boot' = boot /\ history' = history
      /\ many'.sources = many.sources
      /\ syncGridLock
      /\ \/ scope' = withSchema(scope, chosen)
         \/ scope' = Scope("failed", scope.source, NoName)
  BY DEF SchemasCurrent, loadTables, ViewerInv, TypeOK
<1>3. scope' \in Scopes /\ query' \in Queries
  BY DEF TypeOK
<1>4. GridOfItsKey'
  BY <1>2, <1>3, LockKeeps
<1>5. scope'.source = scope.source
  BY <1>2 DEF withSchema, Scope
<1>6. LoadTokens' /\ SchemasTokens'
  BY <1>2, InvTypes DEF LoadTokens, SchemasTokens
<1>7. SourceStays'
  BY <1>2, <1>5, SourceKept
<1>8. ~Unsettled'
  <2>1. \A d \in schemasCalls' : d.token # schemasToken'
    BY <1>1, <1>2, InvTypes DEF SchemasTokens, isCurrentSchemas
  <2> QED BY <1>1, <1>2, <2>1 DEF Unsettled, isCurrentSchemas
<1>9. LoadsOfNow'
  <2> SUFFICES ASSUME NEW l \in loads
               PROVE  /\ isCurrentLoad(l)' => LoadOfNow(l)'
                      /\ l.stage = "drawing" => Readable(l)
    BY <1>2 DEF LoadsOfNow
  <2>1. l.stage = "drawing" => Readable(l)
    BY DEF ViewerInv, LoadsOfNow
  <2>2. SUFFICES ASSUME isCurrentLoad(l) PROVE LoadOfNow(l)'
    BY <1>2, <2>1 DEF isCurrentLoad
  <2>3. LoadOfNow(l)
    BY <2>2 DEF ViewerInv, LoadsOfNow
  <2>4. (l.next /\ l.stage = "fetching") \/ query'.view \in {NoName, l.query.view}
    BY <1>2, <2>3 DEF LoadOfNow
  <2>5. SUFFICES ASSUME NoName \notin {scope'.source, scope'.schema}
                 PROVE  \/ Place(l.source, l.schema) = <<scope'.source, scope'.schema>>
                        \/ ~Readable(l)
    BY <1>8, <2>4 DEF LoadOfNow
  <2>6. scope'.schema = chosen /\ scope.source # NoName
    BY <1>2, <1>5, <2>5 DEF withSchema, Scope
  <2>7. SourceAt(l.source) = scope.source /\ l.schema = scope.schema
    BY <1>1, <2>3, <2>6 DEF LoadOfNow, Unsettled, SourceAt
  <2>8. SourceAt(c.source) = scope.source
    BY <1>1, <2>6 DEF SourceAt
  <2>9. scope.source \in Sources
    BY <2>6, InvTypes DEF SourceNames
  <2>10. CASE scope.schema \in listed
    <3>1. scope.schema # NoName
      BY <2>8, <2>9, <2>10
    <3> QED BY <1>5, <2>6, <2>7, <2>10, <3>1 DEF Place, SchemaAt
  <2>11. CASE scope.schema = NoName
    <3>1. chosen = DefaultSchema[scope.source]
      BY <2>8, <2>9, <2>11
    <3> QED BY <1>5, <2>6, <2>7, <2>11, <3>1 DEF Place, SchemaAt
  <2>12. CASE scope.schema \notin listed /\ scope.schema # NoName
    BY <2>7, <2>8, <2>12 DEF Readable, TablesAt, ScopeExists, SchemaAt
  <2> QED BY <2>10, <2>11, <2>12
<1> QED BY <1>4, <1>6, <1>7, <1>9 DEF ViewerInv, Tokens, LoadTokens, SchemasTokens

LEMMA TablesCurrentInv ==
  ASSUME ViewerInv, NEW l \in lists, TablesCurrent(l), TypeOK' PROVE ViewerInv'
<1> DEFINE listed == TablesAt(l.source, l.schema)
           wanted == IF l.next THEN l.query.view ELSE query.view
           fellBack == wanted \notin listed
           o == [ByUser EXCEPT !.replace = l.replace, !.boot = l.boot, !.next = l.next /\ ~fellBack]
           q == IF o.next THEN l.query ELSE query'
<1>1. /\ l.query \in Queries /\ l.next \in BOOLEAN /\ l.replace \in BOOLEAN /\ l.boot \in BOOLEAN
      /\ l.source \in SourceNames /\ l.schema \in SchemaNames
  BY InvTypes DEF TypeOK, ListCalls
<1>2. /\ runLoad(q, o, loads) /\ scope' = scope /\ history' = history
      /\ EndBoot(l.boot /\ query'.view = NoName, written)
      /\ schemasCalls' = schemasCalls /\ schemasToken' = schemasToken
      /\ many' = many
  BY DEF TablesCurrent
<1>3. scope' \in Scopes /\ query' \in Queries
  BY DEF TypeOK
<1>4. q \in Queries
  BY <1>1, <1>3
<1>5. fellBack \in BOOLEAN
  OBVIOUS
<1>6. o \in Opts /\ (o.next => l.next /\ ~fellBack)
  <2> HIDE DEF fellBack
  <2> QED BY <1>1, <1>5 DEF ByUser, Opts
<1>7. o.next \/ q.view = query'.view
  OBVIOUS
<1>8. q.view = NoName => query'.view \in {query.view, NoName}
  <2>1. CASE o.next
    <3>1. l.query.view \in Tables
      BY <1>1, <1>6, <2>1, ServerTypes
    <3> QED BY <2>1, <3>1
  <2>2. CASE ~o.next
    BY <2>2
  <2> QED BY <2>1, <2>2
<1>9. boot' = "sources" => boot = "sources"
  BY <1>2, EndBootKeeps
<1> HIDE DEF q, o
<1>10. Tokens' /\ LoadsOfNow' /\ GridOfItsKey'
  BY <1>2, <1>3, <1>4, <1>6, <1>7, <1>8, <1>9, NewLoad
<1>11. SourceStays'
  BY <1>2, <1>9, SourceKept
<1> QED BY <1>10, <1>11 DEF ViewerInv

(* What Commit and Draw put in the grid.                                   *)
LEMMA DrawnKeeps ==
  ASSUME ViewerInv, NEW l \in loads, scope' = scope, LoadOfNow(l), Readable(l),
         query'.view \in {NoName, l.query.view}, grid' = Drawn(l)
  PROVE  GridOfItsKey'
<1>1. /\ grid'.place = Place(l.source, l.schema) /\ grid'.query = l.query
      /\ grid'.key[1] = scope.source /\ grid'.key[2] = scope.schema /\ grid'.key[3] = query'.view
  BY DEF Drawn, KeyOf
<1>2. NoName \notin {scope.source, scope.schema} =>
        Place(l.source, l.schema) = <<scope.source, scope.schema>>
  BY DEF LoadOfNow
<1> QED BY <1>1, <1>2 DEF GridOfItsKey

LEMMA CommitInv ==
  ASSUME ViewerInv, NEW l \in loads, Commit(l), TypeOK' PROVE ViewerInv'
<1> DEFINE frame == [l EXCEPT !.stage = "drawing"]
<1>1. /\ l.stage = "fetching" /\ isCurrentLoad(l) /\ Readable(l)
      /\ scope' = scope /\ many' = many /\ query' = commitRequest(l)
      /\ syncUrl(l.replace \/ l.auto, CurrentEntry')
      /\ \/ loads' = (loads \ {l}) \cup {frame} /\ grid' = grid
         \/ loads' = loads \ {l} /\ grid' = Drawn(l)
      /\ EndBoot(l.boot /\ ~ViewTransitions, [settled |-> TRUE, entry |-> CurrentEntry'])
      /\ UNCHANGED <<loadToken, schemasCalls, schemasToken>>
  BY DEF Commit
<1>2. /\ LoadOfNow(l) /\ l.token = loadToken /\ l \in Loads
  BY <1>1, InvTypes DEF ViewerInv, LoadsOfNow, isCurrentLoad
<1>3. query'.view \in {NoName, l.query.view}
  BY <1>1, <1>2 DEF commitRequest, LoadOfNow
<1>4. boot' = "sources" => boot = "sources"
  BY <1>1, EndBootKeeps
<1>5. /\ frame.token = l.token /\ frame.query = l.query /\ frame.next = l.next
      /\ frame.source = l.source /\ frame.schema = l.schema /\ frame.stage = "drawing"
  BY <1>2 DEF Loads
<1> HIDE DEF frame
<1>6. \A m \in loads \ {l} : m.token # loadToken
  BY <1>2, InvTypes DEF LoadTokens
<1>7. LoadTokens' /\ SchemasTokens'
  BY <1>1, <1>2, <1>5, <1>6, InvTypes DEF LoadTokens, SchemasTokens
<1>8. LoadsOfNow'
  <2> SUFFICES ASSUME NEW m \in loads'
               PROVE  /\ isCurrentLoad(m)' => LoadOfNow(m)'
                      /\ m.stage = "drawing" => Readable(m)
    BY DEF LoadsOfNow
  <2>1. CASE m \in loads \ {l}
    <3>1. m.stage = "drawing" => Readable(m)
      BY <2>1 DEF ViewerInv, LoadsOfNow
    <3> QED BY <1>1, <1>6, <2>1, <3>1 DEF isCurrentLoad
  <2>2. CASE m = frame
    <3>1. Readable(m)
      BY <1>1, <1>5, <2>2 DEF Readable
    <3>2. Unsettled' => Unsettled
      BY <1>1, <1>4 DEF Unsettled, isCurrentSchemas
    <3>3. NoName \notin {scope.source, scope.schema} =>
            Place(m.source, m.schema) = <<scope.source, scope.schema>>
      BY <1>1, <1>2, <1>5, <2>2 DEF LoadOfNow
    <3>4. LoadOfNow(m)'
      BY <1>1, <1>2, <1>3, <1>5, <2>2, <3>2, <3>3 DEF LoadOfNow
    <3> QED BY <3>1, <3>4
  <2> QED BY <1>1, <2>1, <2>2
<1>9. GridOfItsKey'
  <2>1. CASE grid' = grid
    BY <2>1 DEF ViewerInv, GridOfItsKey
  <2>2. CASE grid' = Drawn(l)
    BY <1>1, <1>2, <1>3, <2>2, DrawnKeeps
  <2> QED BY <1>1, <2>1, <2>2
<1>10. SourceStays'
  <2> DEFINE entry == CurrentEntry'
             old == history.entries
  <2>1. CASE boot # "sources"
    BY <1>1, <1>4, <2>1 DEF ViewerInv, SourceStays, isCurrentSchemas
  <2>2. CASE boot = "sources"
    <3>1. /\ schemasCalls = {} /\ ~many.sources
          /\ \A i \in DOMAIN old : old[i].source \in {NoName, scope.source}
      BY <2>2 DEF ViewerInv, SourceStays
    <3>2. entry.source = NoName
      BY <1>1, <3>1 DEF CurrentEntry
    <3>3. old \in Seq(Entries) /\ history.at \in 1..Len(old) /\ history \in Histories
      BY InvTypes, AtType DEF Histories
    <3> HIDE DEF entry
    <3>4. \A i \in DOMAIN history'.entries : history'.entries[i].source \in {NoName, scope.source}
      <4>1. CASE history' = [history EXCEPT !.entries[history.at] = entry]
        BY <3>1, <3>2, <3>3, <4>1 DEF Histories
      <4>2. CASE history'.entries = Append(SubSeq(old, 1, history.at), entry)
        <5>1. /\ SubSeq(old, 1, history.at) \in Seq(Entries)
              /\ Len(SubSeq(old, 1, history.at)) = history.at
              /\ \A i \in 1..history.at : SubSeq(old, 1, history.at)[i] = old[i]
          BY <3>3
        <5>2. entry \in Entries
          BY DEF entry, CurrentEntry, Entries, Scopes, SourceNames, SchemaNames, TypeOK
        <5>3. /\ DOMAIN history'.entries = 1..(history.at + 1)
              /\ \A i \in 1..history.at : history'.entries[i] = old[i]
              /\ history'.entries[history.at + 1] = entry
          BY <3>3, <4>2, <5>1, <5>2
        <5>4. \A i \in 1..(history.at + 1) : i = history.at + 1 \/ i \in 1..history.at
          BY <3>3
        <5>5. \A i \in 1..history.at : i \in DOMAIN old
          BY <3>3
        <5> QED BY <3>1, <3>2, <5>3, <5>4, <5>5
      <4> QED BY <1>1, <4>1, <4>2 DEF syncUrl, entry
    <3> QED BY <1>1, <3>1, <3>4 DEF SourceStays
  <2> QED BY <2>1, <2>2
<1> QED BY <1>7, <1>8, <1>9, <1>10 DEF ViewerInv, Tokens, LoadTokens, SchemasTokens

LEMMA DrawInv ==
  ASSUME ViewerInv, NEW l \in loads, Draw(l), TypeOK' PROVE ViewerInv'
<1>1. /\ l.stage = "drawing" /\ loads' = loads \ {l}
      /\ scope' = scope /\ query' = query /\ history' = history
      /\ grid' = (IF isCurrentLoad(l) THEN Drawn(l) ELSE grid)
      /\ EndBoot(l.boot, written)
      /\ UNCHANGED <<many, loadToken, schemasCalls, schemasToken>>
  BY DEF Draw
<1>2. boot' = "sources" => boot = "sources"
  BY <1>1, EndBootKeeps
<1>3. Tokens' /\ LoadsOfNow'
  BY <1>1, <1>2, LoadsEnd
<1>4. SourceStays'
  BY <1>1, <1>2, SourceKept
<1>5. GridOfItsKey'
  <2>1. CASE isCurrentLoad(l)
    <3>1. LoadOfNow(l) /\ Readable(l)
      BY <1>1, <2>1 DEF ViewerInv, LoadsOfNow
    <3>2. query'.view \in {NoName, l.query.view}
      BY <1>1, <3>1 DEF LoadOfNow
    <3> QED BY <1>1, <2>1, <3>1, <3>2, DrawnKeeps
  <2>2. CASE ~isCurrentLoad(l)
    BY <1>1, <2>2 DEF ViewerInv, GridOfItsKey
  <2> QED BY <2>1, <2>2
<1> QED BY <1>3, <1>4, <1>5 DEF ViewerInv

LEMMA DropFilterInv ==
  ASSUME ViewerInv, NEW l \in loads, DropFilter(l), TypeOK' PROVE ViewerInv'
<1> DEFINE o == [ByUser EXCEPT !.replace = l.replace, !.boot = l.boot]
<1>1. l.replace \in BOOLEAN /\ l.boot \in BOOLEAN
  BY InvTypes DEF Loads
<1>2. o \in Opts
  BY <1>1 DEF ByUser, Opts
<1>3. /\ runLoad(query', o, loads \ {l}) /\ scope' = scope /\ query'.view = query.view
      /\ history' = history /\ boot' = boot
      /\ UNCHANGED <<many, schemasCalls, schemasToken>>
  BY InvTypes DEF DropFilter, Queries
<1>4. scope' \in Scopes /\ query' \in Queries
  BY DEF TypeOK
<1> HIDE DEF o
<1>5. Tokens' /\ LoadsOfNow' /\ GridOfItsKey'
  BY <1>2, <1>3, <1>4, NewLoad
<1>6. SourceStays'
  BY <1>3, SourceKept
<1> QED BY <1>5, <1>6 DEF ViewerInv

LEMMA UserLoadInv ==
  ASSUME ViewerInv, TypeOK', NEW q \in Queries, NEW o \in Opts, userLoad(q, o),
         o.next \/ q.view = query'.view,
         q.view = NoName => query'.view \in {query.view, NoName}
  PROVE  ViewerInv'
<1>1. /\ runLoad(q, o, loads) /\ scope' = scope /\ boot' = boot /\ history' = history
      /\ UNCHANGED <<many, schemasCalls, schemasToken>>
  BY DEF userLoad
<1>2. scope' \in Scopes /\ query' \in Queries
  BY DEF TypeOK
<1>3. Tokens' /\ LoadsOfNow' /\ GridOfItsKey'
  BY <1>1, <1>2, NewLoad
<1>4. SourceStays'
  BY <1>1, SourceKept
<1> QED BY <1>3, <1>4 DEF ViewerInv

LEMMA OptsNext == [ByUser EXCEPT !.next = TRUE] \in Opts /\ [ByUser EXCEPT !.next = TRUE].next
  BY DEF ByUser, Opts

LEMMA ClickChipInv ==
  ASSUME ViewerInv, TypeOK', NEW t \in Tables, ClickChip(t) PROVE ViewerInv'
<1>1. tableRequest(t) \in Queries /\ tableRequest(t).view # NoName
  BY RequestTypes DEF tableRequest
<1> QED BY <1>1, OptsNext, UserLoadInv DEF ClickChip

LEMMA FollowKeyInv ==
  ASSUME ViewerInv, TypeOK', NEW t \in Tables, FollowKey(t) PROVE ViewerInv'
<1>1. seededRequest(t) \in Queries /\ seededRequest(t).view # NoName
  BY RequestTypes DEF tableRequest, seededRequest
<1> QED BY <1>1, OptsNext, UserLoadInv DEF FollowKey

(* The pager, the filter and Refresh stay in the view they are in.         *)
LEMMA InPlaceInv ==
  ASSUME ViewerInv, TypeOK', InPlace PROVE ViewerInv'
<1>1. userLoad(query', ByUser) /\ query'.view = query.view
  BY InvTypes DEF InPlace, NextPage, PrevPage, Page, submitFilter, Refresh, Queries
<1>2. query' \in Queries
  BY DEF TypeOK
<1> QED BY <1>1, <1>2, OptsTypes, UserLoadInv

LEMMA TickInv ==
  ASSUME ViewerInv, TypeOK', Tick PROVE ViewerInv'
<1>1. /\ runLoad(query, [ByUser EXCEPT !.auto = TRUE], loads)
      /\ scope' = scope /\ query' = query /\ boot' = boot /\ history' = history
      /\ UNCHANGED <<many, schemasCalls, schemasToken>>
  BY DEF Tick
<1>2. scope' \in Scopes /\ query' \in Queries
  BY DEF TypeOK
<1>3. Tokens' /\ LoadsOfNow' /\ GridOfItsKey'
  BY <1>1, <1>2, InvTypes, SameQueryTypes, NewLoad
<1>4. SourceStays'
  BY <1>1, SourceKept
<1> QED BY <1>3, <1>4 DEF ViewerInv

(* Switches within a source supersede and ask for a table list.            *)
LEMMA ListSwitchInv ==
  ASSUME ViewerInv, TypeOK', supersedeLoads, NEW q, NEW o, loadTables(q, o),
         scope'.source = scope.source, history'.entries = history.entries,
         UNCHANGED <<many, schemasCalls, schemasToken, boot>>
  PROVE  ViewerInv'
<1>1. scope' \in Scopes /\ query' \in Queries
  BY DEF TypeOK
<1>2. GridOfItsKey'
  BY <1>1, LockKeeps DEF loadTables
<1>3. LoadTokens' /\ LoadsOfNow'
  BY Superseded
<1>4. SchemasTokens'
  BY InvTypes DEF SchemasTokens
<1>5. SourceStays'
  BY SourceKept
<1> QED BY <1>2, <1>3, <1>4, <1>5 DEF ViewerInv, Tokens, LoadTokens, SchemasTokens

LEMMA SchemaSwitchesInv ==
  ASSUME ViewerInv, TypeOK',
         \/ \E t \in Tables, c \in Schemas : FollowKeyAcross(t, c)
         \/ \E c \in Schemas : switchSchema(c)
  PROVE  ViewerInv'
<1>1. ASSUME NEW c \in Schemas, setSchema(c) PROVE scope'.source = scope.source
  BY <1>1 DEF setSchema, withSchema, Scope
<1>2. CASE \E t \in Tables, c \in Schemas : FollowKeyAcross(t, c)
  BY <1>1, <1>2, ListSwitchInv DEF FollowKeyAcross
<1>3. CASE \E c \in Schemas : switchSchema(c)
  BY <1>1, <1>3, ListSwitchInv DEF switchSchema
<1> QED BY <1>2, <1>3

(* Switches to another source supersede and ask for its schemas.           *)
LEMMA SourceSwitchInv ==
  ASSUME ViewerInv, TypeOK', supersedeLoads, NEW o, loadSchemas(o), boot' # "sources"
  PROVE  ViewerInv'
<1>1. scope' \in Scopes /\ query' \in Queries
  BY DEF TypeOK
<1>2. GridOfItsKey'
  BY <1>1, LockKeeps DEF loadSchemas
<1>3. LoadTokens' /\ LoadsOfNow'
  BY Superseded
<1>4. SchemasTokens' /\ SourceStays'
  BY NewSchemas DEF SourceStays, isCurrentSchemas
<1> QED BY <1>2, <1>3, <1>4 DEF ViewerInv, Tokens, LoadTokens, SchemasTokens

LEMMA SwitchSourceInv ==
  ASSUME ViewerInv, TypeOK', NEW s \in Sources, switchSource(s) PROVE ViewerInv'
<1>1. boot' = boot /\ boot # "sources"
  BY DEF switchSource, ViewerInv, SourceStays
<1> QED BY <1>1, SourceSwitchInv DEF switchSource

LEMMA PopstateInv ==
  ASSUME ViewerInv, TypeOK', NEW i \in DOMAIN history.entries, Popstate(i) PROVE ViewerInv'
<1> DEFINE e == history.entries[i]
           s == IF e.source = NoName THEN scope.source ELSE e.source
<1>1. history'.entries = history.entries
  BY InvTypes DEF Popstate, TypeOK
<1>2. CASE e = written.entry
  <2>1. UNCHANGED <<scope, many, query, requests, grid, boot>>
    BY <1>2 DEF Popstate
  <2>2. Tokens' /\ LoadsOfNow'
    BY <2>1, LoadsEnd DEF requests
  <2>3. SourceStays'
    BY <1>1, <2>1, SourceKept DEF requests
  <2>4. GridOfItsKey'
    BY <2>1 DEF ViewerInv, GridOfItsKey
  <2> QED BY <2>2, <2>3, <2>4 DEF ViewerInv
<1>3. CASE e # written.entry
  <2>1. applyUrlExact(e) /\ RestoreRequests /\ many' = many /\ boot' = boot
    BY <1>3 DEF Popstate
  <2>2. \/ scope' = scopeOnSource(s, e.schema) /\ s # scope.source
        \/ scope' = withSchema(scope, e.schema)
        \/ scope' = scope
    BY <2>1 DEF applyUrlExact
  <2>3. scope'.source # scope.source => scope'.source = s /\ s # scope.source
    BY <2>2 DEF scopeOnSource, withSchema, Scope
  <2>4. boot = "sources" => s = scope.source
    BY DEF ViewerInv, SourceStays
  <2>5. CASE scope'.source # scope.source
    <3>1. supersedeLoads /\ loadSchemas(Restore)
      BY <2>1, <2>5 DEF RestoreRequests
    <3>2. boot' # "sources"
      BY <2>1, <2>3, <2>4, <2>5
    <3> QED BY <3>1, <3>2, SourceSwitchInv
  <2>6. CASE scope'.source = scope.source /\ scope'.schema = scope.schema
             /\ ChipsList(scope', query'.view)
    <3>1. /\ runLoad(query', Restore, loads)
          /\ UNCHANGED <<lists, listToken, schemasCalls, schemasToken>>
      BY <2>1, <2>6 DEF RestoreRequests
    <3>2. query' \in Queries /\ scope' \in Scopes
      BY DEF TypeOK
    <3>3. Tokens' /\ LoadsOfNow' /\ GridOfItsKey'
      BY <2>1, <2>6, <3>1, <3>2, OptsTypes, NewLoad
    <3>4. SourceStays'
      BY <1>1, <2>1, <2>6, <3>1, SourceKept
    <3> QED BY <3>3, <3>4 DEF ViewerInv
  <2>7. CASE scope'.source = scope.source
             /\ ~(scope'.schema = scope.schema /\ ChipsList(scope', query'.view))
    <3>1. supersedeLoads /\ loadTables(NoView, Restore) /\ UNCHANGED <<schemasCalls, schemasToken>>
      BY <2>1, <2>7 DEF RestoreRequests
    <3> QED BY <1>1, <2>1, <2>7, <3>1, ListSwitchInv
  <2> QED BY <2>5, <2>6, <2>7
<1> QED BY <1>2, <1>3

LEMMA NextInv == ViewerInv /\ [Next]_vars => ViewerInv'
<1> SUFFICES ASSUME ViewerInv, [Next]_vars PROVE ViewerInv'
  OBVIOUS
<1>1. TypeOK'
  BY NextType DEF ViewerInv
<1>2. CASE Answers
  <2>1. CASE loadSources
    BY <1>1, <2>1, LoadSourcesInv
  <2>2. CASE \E c \in schemasCalls : SchemasStale(c) \/ SchemasCurrent(c)
    BY <1>1, <2>2, StaleAnswersInv, SchemasCurrentInv
  <2>3. CASE \E l \in lists : TablesStale(l) \/ TablesCurrent(l) \/ TablesFail(l)
    BY <1>1, <2>3, StaleAnswersInv, TablesCurrentInv
  <2>4. CASE \E l \in loads : \/ DataStale(l) \/ Commit(l) \/ Draw(l)
                              \/ DataFail(l) \/ DropFilter(l)
    BY <1>1, <2>4, StaleAnswersInv, CommitInv, DrawInv, DropFilterInv
  <2> QED BY <1>2, <2>1, <2>2, <2>3, <2>4 DEF Answers
<1>3. CASE InPlace
  BY <1>1, <1>3, InPlaceInv
<1>4. CASE Switches
  BY <1>1, <1>4, ClickChipInv, FollowKeyInv, SchemaSwitchesInv, SwitchSourceInv DEF Switches
<1>5. CASE Traversals
  BY <1>1, <1>5, PopstateInv DEF Traversals
<1>6. CASE Tick
  BY <1>1, <1>6, TickInv
<1>7. CASE UNCHANGED vars
  <2>1. UNCHANGED <<scope, many, query, requests, grid, history, boot>>
    BY <1>7 DEF vars
  <2>2. Tokens' /\ LoadsOfNow'
    BY <2>1, LoadsEnd DEF requests
  <2>3. SourceStays'
    BY <2>1, SourceKept DEF requests
  <2>4. GridOfItsKey'
    BY <2>1 DEF ViewerInv, GridOfItsKey
  <2> QED BY <1>1, <2>2, <2>3, <2>4 DEF ViewerInv
<1> QED BY <1>2, <1>3, <1>4, <1>5, <1>6, <1>7 DEF Next

(* Every current load belongs to the scope and view of now, and the grid   *)
(* holds the rows its key names, in every behaviour of the page.           *)
THEOREM ViewerSafe == Spec => []ViewerInv
  BY InitInv, NextInv, PTL DEF Spec

(* Whatever order answers, failures, frames, clicks and steps through the  *)
(* history come in, rows are never on screen as those of a source, schema  *)
(* or table they were not asked for.                                       *)
THEOREM RowsAreOfTheScope == Spec => []RowsMatchScope
<1>1. ViewerInv => RowsMatchScope
  BY DEF ViewerInv, GridOfItsKey, RowsMatchScope, StateKey, KeyOf
<1> QED BY <1>1, ViewerSafe, PTL

-----------------------------------------------------------------------------
(* The lock.  Without view transitions every step that moves the scope or  *)
(* the view looks at the lock, or draws the grid for where it moved to.    *)
LEMMA LockIsExact ==
  ASSUME TypeOK, TypeOK', syncGridLock PROVE StaleGridInert'
<1>1. grid \in Grids
  BY DEF TypeOK, Grids
<1>2. CASE ~grid.drawn
  BY <1>2 DEF syncGridLock, StaleGridInert
<1>3. CASE grid.drawn
  <2> DEFINE stale == grid.key # KeyOf(scope', query')
  <2>1. grid' = [grid EXCEPT !.inert = stale, !.pager = grid.pager /\ ~stale]
    BY <1>3 DEF syncGridLock
  <2>2. grid'.key = grid.key /\ grid'.inert = stale
    BY <1>1, <2>1 DEF Grids
  <2> QED BY <2>2 DEF StaleGridInert, StateKey, KeyOf
<1> QED BY <1>2, <1>3

LEMMA DrawnIsOfNow ==
  ASSUME NEW l, grid' = Drawn(l) PROVE StaleGridInert'
  BY DEF Drawn, StaleGridInert, StateKey, KeyOf

LEMMA LockNext ==
  ASSUME ~ViewTransitions, TypeOK, TypeOK', StaleGridInert, [Next]_vars
  PROVE  StaleGridInert'
<1>1. syncGridLock => StaleGridInert'
  BY LockIsExact
<1>2. UNCHANGED <<scope, query, grid>> => StaleGridInert'
  BY DEF StaleGridInert, StateKey, KeyOf
<1>3. CASE Answers
  <2>1. CASE loadSources \/ \E c \in schemasCalls : SchemasStale(c) \/ SchemasCurrent(c)
    BY <1>1, <1>2, <2>1 DEF loadSources, SchemasStale, SchemasCurrent, loadSchemas, loadTables
  <2>2. CASE \E l \in lists : TablesStale(l) \/ TablesCurrent(l) \/ TablesFail(l)
    BY <1>1, <1>2, <2>2 DEF TablesStale, TablesCurrent, TablesFail, runLoad
  <2>3. CASE \E l \in loads : DataStale(l) \/ DataFail(l) \/ DropFilter(l)
    BY <1>1, <1>2, <2>3 DEF DataStale, DataFail, DropFilter, runLoad
  <2>4. CASE \E l \in loads : Commit(l)
    BY <2>4, DrawnIsOfNow DEF Commit
  <2>5. CASE \E l \in loads : Draw(l)
    BY <1>2, <2>5, DrawnIsOfNow DEF Draw
  <2> QED BY <1>3, <2>1, <2>2, <2>3, <2>4, <2>5 DEF Answers
<1>4. CASE InPlace
  BY <1>1, <1>4 DEF InPlace, NextPage, PrevPage, Page, submitFilter, Refresh, userLoad, runLoad
<1>5. CASE Switches
  BY <1>1, <1>5 DEF Switches, ClickChip, FollowKey, FollowKeyAcross, switchSource, switchSchema,
                    userLoad, runLoad, loadTables, loadSchemas
<1>6. CASE Traversals
  BY <1>1, <1>2, <1>6 DEF Traversals, Popstate, RestoreRequests, runLoad, loadTables, loadSchemas
<1>7. CASE Tick
  BY <1>1, <1>7 DEF Tick, runLoad
<1>8. CASE UNCHANGED vars
  BY <1>2, <1>8 DEF vars
<1> QED BY <1>3, <1>4, <1>5, <1>6, <1>7, <1>8 DEF Next

(* In a browser without startViewTransition no control of the grid ever    *)
(* acts on a view the grid does not show.                                  *)
THEOREM OutdatedGridIsInert == ~ViewTransitions => (Spec => []StaleGridInert)
<1> SUFFICES ASSUME ~ViewTransitions PROVE Spec => []StaleGridInert
  OBVIOUS
<1>1. Init => StaleGridInert
  BY DEF Init, StaleGridInert
<1>2. TypeOK /\ TypeOK' /\ StaleGridInert /\ [Next]_vars => StaleGridInert'
  BY LockNext
<1> QED BY <1>1, <1>2, ViewerTypesHold, PTL DEF Spec

-----------------------------------------------------------------------------
(* At rest.  When the page has come to rest, what is drawn, the state, the *)
(* URL, the chips and the selectors agree.  Each of these holds only at    *)
(* rest or in one scope; SettleInv, SelectorFollows, ListsInv, ViewInv,    *)
(* RestoreInv and AskInv say what holds on the way there, under ViewerInv. *)

LEMMA CallTypes ==
  ASSUME ViewerInv
  PROVE  /\ lists \subseteq ListCalls /\ listToken \in Nat
         /\ \A l \in lists : /\ l.token \in Nat /\ l.query \in Queries
                             /\ l.source \in SourceNames /\ l.schema \in SchemaNames
                             /\ l.next \in BOOLEAN /\ l.replace \in BOOLEAN /\ l.boot \in BOOLEAN
         /\ \A l \in loads : /\ l.query \in Queries /\ l.stage \in {"fetching", "drawing"}
                             /\ l.replace \in BOOLEAN /\ l.boot \in BOOLEAN /\ l.next \in BOOLEAN
<1>1. lists \subseteq ListCalls /\ listToken \in Nat /\ loads \subseteq Loads
  BY DEF ViewerInv, TypeOK
<1> QED BY <1>1 DEF ListCalls, Loads

(* loadTables and loadSchemas leave a current call behind.                 *)
LEMMA ListUnderWay ==
  ASSUME NEW q, NEW o, loadTables(q, o)
  PROVE  CurrentList' /\ Moving'
<1> DEFINE new == [token |-> listToken + 1, source |-> scope'.source, schema |-> scope'.schema,
                   query |-> q, next |-> o.next, replace |-> o.replace, boot |-> o.boot]
<1>1. new \in lists' /\ listToken' = listToken + 1 /\ new.token = listToken + 1
  BY DEF loadTables
<1> QED BY <1>1 DEF CurrentList, Moving, isCurrentList

LEMMA SchemasUnderWay ==
  ASSUME NEW o, loadSchemas(o)
  PROVE  CurrentSchemas' /\ Moving'
<1> DEFINE new == [token |-> schemasToken + 1, source |-> scope'.source,
                   replace |-> o.replace, boot |-> o.boot]
<1>1. new \in schemasCalls' /\ schemasToken' = schemasToken + 1 /\ new.token = schemasToken + 1
  BY DEF loadSchemas
<1> QED BY <1>1 DEF CurrentSchemas, Moving, isCurrentSchemas

(* So does runLoad, unless there is nothing in view.                       *)
LEMMA LoadUnderWay ==
  ASSUME NEW q, NEW o, NEW others, runLoad(q, o, others),
         (o.next /\ q.view # NoName) \/ q = query'
  PROVE  query'.view = NoName \/ Coming'
<1> DEFINE new == Load(loadToken + 1, q, o)
<1>1. CASE q.view = NoName
  BY <1>1
<1>2. CASE q.view # NoName
  <2>1. new \in loads' /\ loadToken' = loadToken + 1
    BY <1>2 DEF runLoad
  <2>2. new.token = loadToken + 1 /\ new.stage = "fetching" /\ new.query = q /\ new.next = o.next
    BY DEF Load
  <2>3. PICK n \in loads' : /\ n.token = loadToken' /\ n.stage = "fetching"
                            /\ n.query = q /\ n.next = o.next
    BY <2>1, <2>2
  <2>4. isCurrentLoad(n)' /\ LoadAgrees(n)'
    BY <2>3 DEF isCurrentLoad, LoadAgrees
  <2> QED BY <2>3, <2>4 DEF Coming
<1> QED BY <1>1, <1>2

LEMMA OneCurrentLoad ==
  ASSUME ViewerInv, NEW l \in loads, isCurrentLoad(l)
  PROVE  \A m \in loads : isCurrentLoad(m) => m = l
  BY InvTypes DEF LoadTokens, isCurrentLoad

-----------------------------------------------------------------------------
(* The history after syncUrl: the entry is where the page is, and every    *)
(* other entry was there before.                                           *)
LEMMA SyncedEntries ==
  ASSUME TypeOK, NEW replace, NEW entry \in Entries, syncUrl(replace, entry)
  PROVE  /\ At(history') = entry
         /\ \A i \in DOMAIN history'.entries :
               \/ history'.entries[i] = entry
               \/ \E j \in DOMAIN history.entries : history'.entries[i] = history.entries[j]
<1> DEFINE at == history.at
           old == history.entries
<1>1. old \in Seq(Entries) /\ at \in 1..Len(old) /\ history \in Histories
  BY AtType DEF Histories
<1>2. CASE replace \/ entry = At(history)
  <2>1. history' = [history EXCEPT !.entries = [old EXCEPT ![at] = entry]]
    BY <1>2 DEF syncUrl
  <2>2. history'.at = at /\ history'.entries = [old EXCEPT ![at] = entry]
    BY <1>1, <2>1 DEF Histories
  <2>3. DOMAIN history'.entries = DOMAIN old /\ history'.entries[at] = entry
        /\ \A i \in DOMAIN old : i # at => history'.entries[i] = old[i]
    BY <1>1, <2>2
  <2> QED BY <2>2, <2>3 DEF At
<1>3. CASE ~(replace \/ entry = At(history))
  <2>1. history'.at = at + 1 /\ history'.entries = Append(SubSeq(old, 1, at), entry)
    BY <1>3 DEF syncUrl
  <2>2. /\ SubSeq(old, 1, at) \in Seq(Entries) /\ Len(SubSeq(old, 1, at)) = at
        /\ \A i \in 1..at : SubSeq(old, 1, at)[i] = old[i]
    BY <1>1
  <2>3. /\ DOMAIN history'.entries = 1..(at + 1) /\ history'.entries[at + 1] = entry
        /\ \A i \in 1..at : history'.entries[i] = old[i]
    BY <1>1, <2>1, <2>2
  <2>4. \A i \in 1..(at + 1) : i = at + 1 \/ i \in 1..at
    BY <1>1
  <2>5. \A i \in 1..at : i \in DOMAIN old
    BY <1>1
  <2> QED BY <2>1, <2>3, <2>4, <2>5 DEF At
<1> QED BY <1>2, <1>3

(* What a commit leaves in the URL is the entry of now.                    *)
LEMMA CommitRecords ==
  ASSUME ViewerInv, ViewerInv', NEW l \in loads, Commit(l)
  PROVE  Recorded'
<1>1. CurrentEntry' \in Entries
  BY CurrentEntryType DEF ViewerInv, TypeOK, CurrentEntry, Entries, Scopes, SourceNames, SchemaNames
<1>2. At(history') = CurrentEntry'
  BY <1>1, SyncedEntries DEF Commit, ViewerInv
<1>3. written' = [settled |-> TRUE, entry |-> CurrentEntry']
  BY DEF Commit, EndBoot
<1> QED BY <1>2, <1>3 DEF Recorded, At

-----------------------------------------------------------------------------
(* SettleInv, step by step.                                                *)
Lists == \A l \in lists : l.next => l.query.view # NoName

Settling == Moving \/ failed \/ query.view = NoName \/ Coming \/ AtRest

LEMMA SettleParts == (SettleInv <=> Lists /\ Settling)
  BY DEF SettleInv, Lists, Settling

(* What a step that moves nothing but the calls it ends leaves as it was.  *)
LEMMA MovingStays ==
  ASSUME Moving, boot = "sources" => boot' = "sources",
         listToken' = listToken, schemasToken' = schemasToken,
         \A l \in lists : isCurrentList(l) => l \in lists',
         \A c \in schemasCalls : isCurrentSchemas(c) => c \in schemasCalls'
  PROVE  Moving'
<1>1. CASE boot = "sources"
  BY <1>1 DEF Moving
<1>2. CASE CurrentSchemas
  <2>1. PICK c \in schemasCalls : isCurrentSchemas(c)
    BY <1>2 DEF CurrentSchemas
  <2> QED BY <2>1 DEF Moving, CurrentSchemas, isCurrentSchemas
<1>3. CASE CurrentList
  <2>1. PICK l \in lists : isCurrentList(l)
    BY <1>3 DEF CurrentList
  <2> QED BY <2>1 DEF Moving, CurrentList, isCurrentList
<1> QED BY <1>1, <1>2, <1>3 DEF Moving

LEMMA EndBootWritten ==
  ASSUME NEW over, EndBoot(over, written)
  PROVE  /\ boot = "sources" => boot' = "sources"
         /\ written.settled => written' = written
  BY DEF EndBoot

LEMMA RecordedStays ==
  ASSUME Recorded, UNCHANGED <<scope, many, query, history>>,
         written.settled => written' = written
  PROVE  Recorded'
<1>1. written' = written
  BY DEF Recorded
<1> QED BY <1>1 DEF Recorded, CurrentEntry, At

LEMMA NothingMoves ==
  ASSUME Settling, UNCHANGED <<scope, many, query, grid, history, loadToken>>,
         boot = "sources" => boot' = "sources", written.settled => written' = written,
         failed => failed',
         listToken' = listToken, schemasToken' = schemasToken,
         \A l \in lists : isCurrentList(l) => l \in lists',
         \A c \in schemasCalls : isCurrentSchemas(c) => c \in schemasCalls',
         loads' \subseteq loads, \A l \in loads : isCurrentLoad(l) => l \in loads'
  PROVE  Settling'
<1>1. CASE Moving
  BY <1>1, MovingStays DEF Settling
<1>2. CASE failed \/ query.view = NoName
  BY <1>2 DEF Settling
<1>3. CASE Coming
  <2>1. PICK l \in loads : isCurrentLoad(l) /\ LoadAgrees(l)
    BY <1>3 DEF Coming
  <2>2. isCurrentLoad(l)'
    BY <2>1 DEF isCurrentLoad
  <2>3. LoadAgrees(l)'
    BY <2>1, RecordedStays DEF LoadAgrees
  <2> QED BY <2>1, <2>2, <2>3 DEF Settling, Coming
<1>4. CASE AtRest
  <2>1. Recorded'
    BY <1>4, RecordedStays DEF AtRest
  <2> QED BY <1>4, <2>1 DEF Settling, AtRest, StateKey, KeyOf, isCurrentLoad
<1> QED BY <1>1, <1>2, <1>3, <1>4 DEF Settling

LEMMA SettleInit == Init => SettleInv
  BY DEF Init, SettleInv, Moving

(* An answer that is dropped, or reported.                                 *)
LEMMA StaleSettles ==
  ASSUME ViewerInv, SettleInv,
         \/ \E c \in schemasCalls : SchemasStale(c)
         \/ \E l \in lists : TablesStale(l)
         \/ \E l \in loads : DataStale(l)
  PROVE  SettleInv'
<1>1. Lists /\ Settling
  BY SettleParts
<1>2. CASE \E c \in schemasCalls : SchemasStale(c)
  <2>1. PICK c \in schemasCalls : SchemasStale(c)
    BY <1>2
  <2>2. Settling'
    BY <1>1, <2>1, EndBootWritten, NothingMoves DEF SchemasStale
  <2> QED BY <1>1, <2>1, <2>2, SettleParts DEF SchemasStale, Lists, SettleInv, Settling
<1>3. CASE \E l \in lists : TablesStale(l)
  <2>1. PICK l \in lists : TablesStale(l)
    BY <1>3
  <2>2. Settling'
    BY <1>1, <2>1, EndBootWritten, NothingMoves DEF TablesStale
  <2> QED BY <1>1, <2>1, <2>2 DEF TablesStale, Lists, SettleInv, Settling
<1>4. CASE \E l \in loads : DataStale(l)
  <2>1. PICK l \in loads : DataStale(l)
    BY <1>4
  <2>2. Settling'
    BY <1>1, <2>1, EndBootWritten, NothingMoves DEF DataStale
  <2> QED BY <1>1, <2>1, <2>2 DEF DataStale, Lists, SettleInv, Settling
<1> QED BY <1>2, <1>3, <1>4

LEMMA FailureSettles ==
  ASSUME SettleInv,
         \/ \E l \in lists : TablesFail(l)
         \/ \E l \in loads : DataFail(l)
  PROVE  SettleInv'
  BY DEF TablesFail, DataFail, SettleInv

LEMMA ListAsked ==
  ASSUME SettleInv, NEW q, NEW o, loadTables(q, o), o.next => q.view # NoName
  PROVE  SettleInv'
<1>1. Moving'
  BY ListUnderWay
<1>2. Lists'
  BY DEF loadTables, SettleInv, Lists
<1> QED BY <1>1, <1>2 DEF SettleInv, Lists

LEMMA SchemasAsked ==
  ASSUME SettleInv, NEW o, loadSchemas(o), lists' = lists
  PROVE  SettleInv'
  BY SchemasUnderWay DEF SettleInv

LEMMA RowsAsked ==
  ASSUME SettleInv, NEW q, NEW o, NEW others, runLoad(q, o, others),
         (o.next /\ q.view # NoName) \/ q = query', lists' \subseteq lists
  PROVE  SettleInv'
  BY LoadUnderWay DEF SettleInv

LEMMA ByUserNext ==
  /\ ~ByUser.next /\ ~Restore.next
  /\ [ByUser EXCEPT !.next = TRUE].next
  BY DEF ByUser, Restore

LEMMA TablesCurrentSettles ==
  ASSUME ViewerInv, SettleInv, NEW l \in lists, TablesCurrent(l)
  PROVE  SettleInv'
<1> DEFINE listed == TablesAt(l.source, l.schema)
           wanted == IF l.next THEN l.query.view ELSE query.view
           fellBack == wanted \notin listed
           o == [ByUser EXCEPT !.replace = l.replace, !.boot = l.boot, !.next = l.next /\ ~fellBack]
           q == IF o.next THEN l.query ELSE query'
<1>1. runLoad(q, o, loads) /\ lists' \subseteq lists
  BY DEF TablesCurrent
<1>2. o.next => l.next
  BY CallTypes DEF ByUser
<1>3. (o.next /\ q.view # NoName) \/ q = query'
  BY <1>2 DEF SettleInv
<1> HIDE DEF o, q
<1> QED BY <1>1, <1>3, RowsAsked

LEMMA CommitSettles ==
  ASSUME ViewerInv, ViewerInv', SettleInv, NEW l \in loads, Commit(l)
  PROVE  SettleInv'
<1>1. /\ isCurrentLoad(l) /\ l.stage = "fetching" /\ l \in Loads
      /\ scope' = scope /\ many' = many /\ query' = commitRequest(l) /\ failed' = failed
      /\ UNCHANGED <<loadToken, lists, listToken, schemasCalls, schemasToken>>
      /\ boot = "sources" => boot' = "sources"
  BY InvTypes DEF Commit, EndBoot
<1>2. Recorded'
  BY CommitRecords
<1>3. Lists' /\ Settling
  BY <1>1 DEF SettleInv, Lists, Settling
<1>4. CASE Moving
  <2>1. Moving'
    BY <1>1, <1>4, MovingStays
  <2> QED BY <1>3, <2>1 DEF SettleInv, Lists
<1>5. CASE failed
  BY <1>1, <1>3, <1>5 DEF SettleInv, Lists
<1>6. CASE query'.view = NoName
  BY <1>3, <1>6 DEF SettleInv, Lists
<1>7. CASE query' = l.query
  <2>1. CASE ViewTransitions
    <3>1. PICK frame : frame = [l EXCEPT !.stage = "drawing"]
      OBVIOUS
    <3>2. frame \in loads' /\ frame.token = l.token /\ frame.query = l.query /\ frame.stage = "drawing"
      BY <1>1, <2>1, <3>1 DEF Commit, Loads
    <3>3. isCurrentLoad(frame)' /\ LoadAgrees(frame)'
      BY <1>1, <1>2, <1>7, <3>2 DEF isCurrentLoad, LoadAgrees
    <3> QED BY <1>3, <3>2, <3>3 DEF SettleInv, Lists, Coming
  <2>2. CASE ~ViewTransitions
    <3>1. loads' = loads \ {l} /\ grid' = Drawn(l)
      BY <2>2 DEF Commit
    <3>2. \A m \in loads' : ~isCurrentLoad(m)'
      BY <1>1, <3>1, OneCurrentLoad DEF isCurrentLoad
    <3>3. grid'.key = StateKey' /\ ~grid'.inert /\ grid'.query = query'
      BY <1>1, <1>7, <3>1 DEF Drawn, StateKey, KeyOf
    <3> QED BY <1>2, <1>3, <3>2, <3>3 DEF SettleInv, Lists, AtRest
  <2> QED BY <2>1, <2>2
<1>8. CASE query.view = NoName
  BY <1>1, <1>6, <1>7, <1>8 DEF commitRequest
<1>9. CASE Coming
  <2>1. LoadAgrees(l)
    BY <1>1, <1>9, OneCurrentLoad DEF Coming
  <2> QED BY <1>1, <1>7, <2>1 DEF LoadAgrees, commitRequest
<1>10. ~AtRest
  BY <1>1 DEF AtRest
<1> QED BY <1>3, <1>4, <1>5, <1>8, <1>9, <1>10 DEF Settling

LEMMA DrawSettles ==
  ASSUME ViewerInv, SettleInv, NEW l \in loads, Draw(l)
  PROVE  SettleInv'
<1>1. /\ l.stage = "drawing" /\ loads' = loads \ {l} /\ EndBoot(l.boot, written)
      /\ UNCHANGED <<scope, many, query, history, failed>>
      /\ UNCHANGED <<loadToken, lists, listToken, schemasCalls, schemasToken>>
  BY DEF Draw
<1>2. Lists' /\ Settling
  BY <1>1 DEF SettleInv, Lists, Settling
<1>3. (boot = "sources" => boot' = "sources") /\ (written.settled => written' = written)
  BY <1>1, EndBootWritten
<1>4. CASE ~isCurrentLoad(l)
  <2>1. grid' = grid
    BY <1>4 DEF Draw
  <2>2. Settling'
    BY <1>1, <1>2, <1>3, <1>4, <2>1, NothingMoves
  <2> QED BY <1>2, <2>2 DEF SettleInv, Lists, Settling
<1>5. CASE isCurrentLoad(l) /\ Coming
  <2>1. LoadAgrees(l)
    BY <1>5, OneCurrentLoad DEF Coming
  <2>2. l.query = query /\ Recorded'
    BY <1>1, <1>3, <2>1, RecordedStays DEF LoadAgrees
  <2>3. grid' = Drawn(l)
    BY <1>5 DEF Draw
  <2>4. grid'.key = StateKey' /\ ~grid'.inert /\ grid'.query = query'
    BY <1>1, <2>2, <2>3 DEF Drawn, StateKey, KeyOf
  <2>5. \A m \in loads' : ~isCurrentLoad(m)'
    BY <1>1, <1>5, OneCurrentLoad DEF isCurrentLoad
  <2> QED BY <1>2, <2>2, <2>4, <2>5 DEF SettleInv, Lists, AtRest
<1>6. CASE isCurrentLoad(l) /\ ~Coming
  <2>1. Moving \/ failed \/ query.view = NoName
    BY <1>2, <1>6 DEF Settling, AtRest
  <2>2. Moving => Moving'
    BY <1>1, <1>3, MovingStays
  <2> QED BY <1>1, <1>2, <2>1, <2>2 DEF SettleInv, Lists
<1> QED BY <1>4, <1>5, <1>6

LEMMA UserLoadSettles ==
  ASSUME SettleInv, NEW q, NEW o, userLoad(q, o), (o.next /\ q.view # NoName) \/ q = query'
  PROVE  SettleInv'
  BY RowsAsked DEF userLoad

LEMMA SwitchesSettle ==
  ASSUME SettleInv, InPlace \/ Switches
  PROVE  SettleInv'
<1>1. CASE InPlace
  <2>1. userLoad(query', ByUser)
    BY <1>1 DEF InPlace, NextPage, PrevPage, Page, submitFilter, Refresh
  <2> QED BY <2>1, UserLoadSettles
<1>2. ASSUME NEW t \in Tables PROVE tableRequest(t).view # NoName /\ seededRequest(t).view # NoName
  BY DEF tableRequest, seededRequest
<1>3. ASSUME NEW t \in Tables, ClickChip(t) \/ FollowKey(t) PROVE SettleInv'
  BY <1>2, <1>3, ByUserNext, UserLoadSettles DEF ClickChip, FollowKey
<1>4. ASSUME NEW t \in Tables, NEW c \in Schemas, FollowKeyAcross(t, c) PROVE SettleInv'
  BY <1>2, <1>4, ByUserNext, ListAsked DEF FollowKeyAcross
<1>5. ASSUME NEW s \in Sources, switchSource(s) PROVE SettleInv'
  BY <1>5, SchemasAsked DEF switchSource
<1>6. ASSUME NEW c \in Schemas, switchSchema(c) PROVE SettleInv'
  BY <1>6, ByUserNext, ListAsked DEF switchSchema
<1> QED BY <1>1, <1>3, <1>4, <1>5, <1>6 DEF Switches

LEMMA PopstateSettles ==
  ASSUME ViewerInv, SettleInv, NEW i \in DOMAIN history.entries, Popstate(i)
  PROVE  SettleInv'
<1> DEFINE e == history.entries[i]
<1>1. CASE e = written.entry
  <2>1. /\ UNCHANGED <<scope, many, query, requests, grid, written, failed, boot>>
        /\ history' = [history EXCEPT !.at = i]
    BY <1>1 DEF Popstate
  <2>2. UNCHANGED <<loads, loadToken, lists, listToken, schemasCalls, schemasToken>>
    BY <2>1 DEF requests
  <2>3. At(history') = e
    BY <2>1, InvTypes DEF At, TypeOK
  <2>4. Recorded => Recorded'
    BY <1>1, <2>1, <2>3 DEF Recorded, CurrentEntry, At
  <2>5. Moving => Moving'
    BY <2>1, <2>2, MovingStays
  <2>6. Coming => Coming'
    BY <2>1, <2>2, <2>4 DEF Coming, LoadAgrees, isCurrentLoad
  <2>7. AtRest => AtRest'
    BY <2>1, <2>2, <2>4 DEF AtRest, isCurrentLoad, StateKey, KeyOf
  <2> QED BY <2>1, <2>2, <2>5, <2>6, <2>7 DEF SettleInv
<1>2. CASE e # written.entry
  <2>1. RestoreRequests
    BY <1>2 DEF Popstate
  <2>2. CASE loadSchemas(Restore) /\ UNCHANGED <<lists, listToken, failed>>
    BY <2>2, SchemasAsked
  <2>3. CASE runLoad(query', Restore, loads) /\ UNCHANGED <<lists, listToken>>
    BY <2>3, RowsAsked
  <2>4. CASE loadTables(NoView, Restore)
    BY <2>4, ByUserNext, ListAsked
  <2> QED BY <2>1, <2>2, <2>3, <2>4 DEF RestoreRequests
<1> QED BY <1>1, <1>2

LEMMA SettleNext ==
  ASSUME ViewerInv, ViewerInv', SettleInv, [Next]_vars
  PROVE  SettleInv'
<1>1. CASE Answers
  <2>1. CASE loadSources
    BY <2>1, SchemasAsked DEF loadSources
  <2>2. ASSUME NEW c \in schemasCalls, SchemasCurrent(c) PROVE SettleInv'
    <3>1. loadTables(query, [ByUser EXCEPT !.replace = c.replace, !.boot = c.boot])
      BY <2>2 DEF SchemasCurrent
    <3> QED BY <3>1, ListAsked DEF ByUser
  <2>3. ASSUME NEW l \in loads, DropFilter(l) PROVE SettleInv'
    BY <2>3, RowsAsked DEF DropFilter
  <2> QED BY <1>1, <2>1, <2>2, <2>3, StaleSettles, FailureSettles, TablesCurrentSettles,
             CommitSettles, DrawSettles DEF Answers
<1>2. CASE InPlace \/ Switches
  BY <1>2, SwitchesSettle
<1>3. CASE Traversals
  BY <1>3, PopstateSettles DEF Traversals
<1>4. CASE Tick
  BY <1>4, RowsAsked DEF Tick
<1>5. CASE UNCHANGED vars
  BY <1>5 DEF vars, requests, SettleInv, Moving, CurrentList, CurrentSchemas, Coming, AtRest,
              LoadAgrees, Recorded, isCurrentList, isCurrentSchemas, isCurrentLoad,
              CurrentEntry, StateKey, KeyOf, At
<1> QED BY <1>1, <1>2, <1>3, <1>4, <1>5 DEF Next

(* In every reachable state somebody is on the way to make grid, state and *)
(* URL agree, or they do, or nothing is in view, or an error is up.        *)
THEOREM SomethingIsComing == Spec => []SettleInv
  BY SettleInit, SettleNext, ViewerSafe, PTL DEF Spec

(* So when the last answer and the last frame have come and no error is    *)
(* up, what is drawn is what the state and the URL say, and it takes       *)
(* clicks, for any sources, faults and openings, with view transitions or  *)
(* without.                                                                *)
THEOREM RestAgrees == Spec => []SettledAgrees
<1>1. SettleInv => SettledAgrees
  BY DEF SettleInv, SettledAgrees, Quiet, Moving, CurrentList, CurrentSchemas, Coming, AtRest,
         Recorded
<1> QED BY <1>1, SomethingIsComing, PTL

-----------------------------------------------------------------------------
(* The schema selector.                                                    *)
LEMMA SelectorKept ==
  ASSUME SelectorFollows, many'.schemas = many.schemas, menu'.source = menu.source,
         scope'.source = scope.source, schemasToken' = schemasToken,
         \A c \in schemasCalls : isCurrentSchemas(c) => c \in schemasCalls'
  PROVE  SelectorFollows'
  BY DEF SelectorFollows, CurrentSchemas, isCurrentSchemas, SourceAt

LEMMA SelectorAnswered ==
  ASSUME ViewerInv, NEW c \in schemasCalls, SchemasCurrent(c)
  PROVE  SelectorFollows'
<1>1. c.source = scope.source
  BY DEF SchemasCurrent, ViewerInv, SourceStays
<1>2. CASE many' = [many EXCEPT !.schemas = FALSE]
  BY <1>2 DEF ViewerInv, TypeOK, SelectorFollows
<1>3. CASE \E x \in SchemaNames : /\ scope' = withSchema(scope, x)
                                  /\ menu' = [source |-> SourceAt(c.source), shows |-> x]
  <2>1. scope'.source = scope.source
    BY <1>3 DEF withSchema, Scope
  <2>2. menu'.source = SourceAt(c.source)
    BY <1>3
  <2> QED BY <1>1, <2>1, <2>2 DEF SelectorFollows, SourceAt
<1> DEFINE s == SourceAt(c.source)
           chosen == IF scope.schema \in SchemasOf[s] THEN scope.schema ELSE DefaultSchema[s]
<1>4. chosen \in SchemaNames
  <2>1. s \in Sources
    BY InvTypes, ServerTypes DEF SchemaNames
  <2> QED BY <2>1, InvTypes DEF SchemaNames
<1>5. \/ scope' = withSchema(scope, chosen) /\ menu' = [source |-> s, shows |-> chosen]
      \/ many' = [many EXCEPT !.schemas = FALSE]
  BY DEF SchemasCurrent
<1> HIDE DEF chosen
<1> QED BY <1>2, <1>3, <1>4, <1>5

LEMMA SetSchemaKeeps ==
  ASSUME ViewerInv, NEW c, setSchema(c)
  PROVE  scope'.source = scope.source /\ scope'.schema = c /\ menu'.source = menu.source
<1>1. menu \in [source: SourceNames, shows: SchemaNames]
  BY DEF ViewerInv, TypeOK
<1> QED BY <1>1 DEF setSchema, withSchema, Scope

LEMMA SelectorNext ==
  ASSUME ViewerInv, SelectorFollows, [Next]_vars
  PROVE  SelectorFollows'
<1> USE DEF SelectorFollows
<1>1. CASE Answers
  <2>1. CASE loadSources
    BY <2>1, SchemasUnderWay DEF loadSources
  <2>2. ASSUME NEW c \in schemasCalls, SchemasStale(c) PROVE SelectorFollows'
    BY <2>2, SelectorKept DEF SchemasStale
  <2>3. ASSUME NEW l \in lists, TablesStale(l) \/ TablesCurrent(l) \/ TablesFail(l)
        PROVE  SelectorFollows'
    BY <2>3, SelectorKept DEF TablesStale, TablesCurrent, TablesFail
  <2>4. ASSUME NEW l \in loads, DataStale(l) \/ Commit(l) \/ Draw(l) \/ DataFail(l) \/ DropFilter(l)
        PROVE  SelectorFollows'
    BY <2>4, SelectorKept DEF DataStale, Commit, Draw, DataFail, DropFilter
  <2> QED BY <1>1, <2>1, <2>2, <2>3, <2>4, SelectorAnswered DEF Answers
<1>2. ASSUME NEW q, NEW o, userLoad(q, o) PROVE SelectorFollows'
  BY <1>2, SelectorKept DEF userLoad
<1>3. CASE InPlace
  BY <1>2, <1>3 DEF InPlace, NextPage, PrevPage, Page, submitFilter, Refresh
<1>4. CASE Switches
  <2>1. ASSUME NEW t \in Tables, ClickChip(t) \/ FollowKey(t) PROVE SelectorFollows'
    BY <1>2, <2>1 DEF ClickChip, FollowKey
  <2>2. ASSUME NEW t \in Tables, NEW c \in Schemas, FollowKeyAcross(t, c) PROVE SelectorFollows'
    BY <2>2, SetSchemaKeeps, SelectorKept DEF FollowKeyAcross
  <2>3. ASSUME NEW s \in Sources, switchSource(s) PROVE SelectorFollows'
    BY <2>3, SchemasUnderWay DEF switchSource
  <2>4. ASSUME NEW c \in Schemas, switchSchema(c) PROVE SelectorFollows'
    BY <2>4, SetSchemaKeeps, SelectorKept DEF switchSchema
  <2> QED BY <1>4, <2>1, <2>2, <2>3, <2>4 DEF Switches
<1>5. ASSUME NEW i \in DOMAIN history.entries, Popstate(i) PROVE SelectorFollows'
  <2>1. CASE history.entries[i] = written.entry
    BY <1>5, <2>1, SelectorKept DEF Popstate, requests
  <2>2. CASE history.entries[i] # written.entry
    <3>1. RestoreRequests /\ many' = many /\ menu' = [menu EXCEPT !.shows = scope'.schema]
      BY <1>5, <2>2 DEF Popstate
    <3>2. menu'.source = menu.source
      BY <3>1 DEF ViewerInv, TypeOK
    <3>3. CASE scope'.source # scope.source
      BY <3>1, <3>3, SchemasUnderWay DEF RestoreRequests
    <3>4. CASE scope'.source = scope.source
      <4>1. UNCHANGED <<schemasCalls, schemasToken>>
        BY <3>1, <3>4 DEF RestoreRequests
      <4> QED BY <3>1, <3>2, <3>4, <4>1, SelectorKept
    <3> QED BY <3>3, <3>4
  <2> QED BY <2>1, <2>2
<1>6. CASE Traversals
  BY <1>5, <1>6 DEF Traversals
<1>7. CASE Tick
  BY <1>7, SelectorKept DEF Tick
<1>8. CASE UNCHANGED vars
  BY <1>8, SelectorKept DEF vars, requests
<1> QED BY <1>1, <1>3, <1>4, <1>6, <1>7, <1>8 DEF Next

(* Whatever order the answers of /schemas come in, and whatever the user   *)
(* and the history do meanwhile, a selector at rest offers the schemas of  *)
(* the source in view.                                                     *)
THEOREM SelectorIsOfTheSource == Spec => []SelectorMatchesSource
<1>1. Init => SelectorFollows
  BY DEF Init, SelectorFollows
<1>2. SelectorFollows => SelectorMatchesSource
  BY DEF SelectorFollows, SelectorMatchesSource, CurrentSchemas
<1> QED BY <1>1, <1>2, SelectorNext, ViewerSafe, PTL DEF Spec

-----------------------------------------------------------------------------
(* The chips and their list, where the source never moves: then a place is *)
(* its schema.                                                             *)
LEMMA OneSource ==
  ASSUME SourceNeverMoves, NEW s \in SourceNames, NEW r \in SourceNames, NEW c \in SchemaNames
  PROVE  /\ SourceAt(s) = SourceAt(r) /\ SchemaAt(s, c) = SchemaAt(r, c)
         /\ Place(s, c) = Place(r, c)
<1>1. SourceAt(s) = SourceAt(r)
  BY DEF SourceNeverMoves, SourceAt, SourceNames
<1> QED BY <1>1 DEF SchemaAt, Place

LEMMA SamePlace ==
  ASSUME NEW s, NEW c, NEW r, NEW d, Place(s, c) = Place(r, d)
  PROVE  TablesAt(s, c) = TablesAt(r, d) /\ ScopeExists(s, c) = ScopeExists(r, d)
<1>1. SourceAt(s) = SourceAt(r) /\ SchemaAt(s, c) = SchemaAt(r, d)
  BY DEF Place
<1> QED BY <1>1 DEF TablesAt, ScopeExists

LEMMA SourcesKept ==
  ASSUME EntrySources, scope'.source = scope.source, many'.sources = many.sources,
         history'.entries = history.entries
  PROVE  EntrySources'
  BY DEF EntrySources

LEMMA EntrySourcesInit == SourceNeverMoves /\ Init => EntrySources
<1> SUFFICES ASSUME SourceNeverMoves, Init,
                    NEW e \in Opening, scope = Scope("loading", e.source, e.schema),
                    many = [sources |-> FALSE, schemas |-> FALSE],
                    history = [entries |-> <<e>>, at |-> 1]
             PROVE  EntrySources
  BY DEF Init
<1>1. "sources" \in Fallible => e.source = NoName
  BY DEF SourceNeverMoves
<1> QED BY <1>1 DEF EntrySources, Scope

LEMMA LoadSourcesSources ==
  ASSUME ViewerInv, SourceNeverMoves, EntrySources, loadSources
  PROVE  EntrySources' /\ scope'.schema = scope.schema
<1> DEFINE s == IF scope.source \in Sources THEN scope.source ELSE DefaultSource
<1>1. history' = history /\ many \in [sources: BOOLEAN, schemas: BOOLEAN]
  BY DEF loadSources, ViewerInv, TypeOK
<1>2. CASE scope' = Scope("loading", s, scope.schema)
           /\ many' = [many EXCEPT !.sources = Several(Sources)]
  <2>1. ~many'.sources
    BY <1>1, <1>2 DEF Several, SourceNeverMoves
  <2>2. \A i \in DOMAIN history.entries : history.entries[i].source \in {NoName, s}
    BY InvTypes DEF EntrySources, SourceNames
  <2> QED BY <1>1, <1>2, <2>1, <2>2 DEF EntrySources, Scope
<1>3. CASE "sources" \in Fallible /\ scope' = Scope("failed", NoName, scope.schema)
           /\ many' = [many EXCEPT !.sources = FALSE]
  BY <1>1, <1>3 DEF EntrySources, Scope
<1> QED BY <1>2, <1>3 DEF loadSources

(* Under EntrySources only /sources moves the source.                      *)
LEMMA PopstateSource ==
  ASSUME ViewerInv, EntrySources, NEW i \in DOMAIN history.entries, Popstate(i)
  PROVE  scope'.source = scope.source /\ EntrySources'
<1> DEFINE e == history.entries[i]
           s == IF e.source = NoName THEN scope.source ELSE e.source
<1>1. s = scope.source
  BY DEF EntrySources
<1>2. scope'.source = scope.source
  <2>1. scope' = scope \/ scope' = withSchema(scope, e.schema)
    BY <1>1 DEF Popstate, applyUrlExact
  <2> QED BY <2>1 DEF withSchema, Scope
<1>3. history'.entries = history.entries /\ many' = many
  BY InvTypes DEF Popstate, TypeOK
<1> QED BY <1>2, <1>3, SourcesKept

LEMMA CommitSources ==
  ASSUME ViewerInv, ViewerInv', EntrySources, NEW l \in loads, Commit(l)
  PROVE  EntrySources'
<1>1. scope' = scope /\ many' = many /\ syncUrl(l.replace \/ l.auto, CurrentEntry')
  BY DEF Commit
<1>2. CurrentEntry' \in Entries
  BY CurrentEntryType DEF ViewerInv, TypeOK, CurrentEntry, Entries, Scopes, SourceNames, SchemaNames
<1>3. \A i \in DOMAIN history'.entries :
         \/ history'.entries[i] = CurrentEntry'
         \/ \E j \in DOMAIN history.entries : history'.entries[i] = history.entries[j]
  BY <1>1, <1>2, SyncedEntries DEF ViewerInv
<1>4. CurrentEntry'.source = NoName
  BY <1>1 DEF CurrentEntry, EntrySources
<1> QED BY <1>1, <1>3, <1>4 DEF EntrySources

LEMMA SchemasCurrentSource ==
  ASSUME ViewerInv, NEW c \in schemasCalls, SchemasCurrent(c)
  PROVE  /\ scope'.source = scope.source /\ many'.sources = many.sources
         /\ query' = query /\ history' = history
  BY DEF SchemasCurrent, withSchema, Scope, ViewerInv, TypeOK

LEMMA NewList ==
  ASSUME ViewerInv, ListTokens, ListOfNow, NEW q, NEW o, loadTables(q, o), chips' = chips
  PROVE  /\ ListTokens' /\ ListOfNow'
         /\ \A l \in lists' : isCurrentList(l)' => l.next = o.next
<1> DEFINE new == [token |-> listToken + 1, source |-> scope'.source, schema |-> scope'.schema,
                   query |-> q, next |-> o.next, replace |-> o.replace, boot |-> o.boot]
<1>1. lists' = lists \cup {new} /\ listToken' = listToken + 1
  BY DEF loadTables
<1>2. /\ new.token = listToken + 1 /\ new.next = o.next
      /\ new.source = scope'.source /\ new.schema = scope'.schema
  OBVIOUS
<1>3. PICK n : /\ lists' = lists \cup {n} /\ n.token = listToken + 1 /\ n.next = o.next
               /\ n.source = scope'.source /\ n.schema = scope'.schema
  BY <1>1, <1>2
<1>4. \A l \in lists : l.token \in Nat /\ l.token <= listToken /\ l.token # listToken'
  BY <1>1, CallTypes DEF ListTokens
<1>5. ListTokens'
  BY <1>1, <1>3, <1>4, CallTypes DEF ListTokens
<1>6. \A l \in lists' : isCurrentList(l)' => l = n
  BY <1>3, <1>4 DEF isCurrentList
<1>7. ListOfNow'
  BY <1>3, <1>6 DEF ListOfNow, Place, SourceAt, SchemaAt
<1> QED BY <1>3, <1>5, <1>6, <1>7

LEMMA ListsKept ==
  ASSUME ViewerInv, ViewerInv', SourceNeverMoves, ListTokens, ListOfNow,
         lists' \subseteq lists, listToken' = listToken, chips' = chips,
         scope'.schema = scope.schema
  PROVE  ListTokens' /\ ListOfNow'
<1>1. scope'.source \in SourceNames /\ scope.source \in SourceNames /\ scope.schema \in SchemaNames
  BY InvTypes DEF ViewerInv, TypeOK, Scopes
<1>2. Place(scope'.source, scope'.schema) = Place(scope.source, scope.schema)
  BY <1>1, OneSource
<1>3. ListTokens'
  BY DEF ListTokens
<1>4. ListOfNow'
  BY <1>2 DEF ListOfNow, isCurrentList, Place, SourceAt, SchemaAt
<1> QED BY <1>3, <1>4

LEMMA TablesCurrentLists ==
  ASSUME ViewerInv, ListsInv, NEW l \in lists, TablesCurrent(l)
  PROVE  ListsInv'
<1>1. /\ isCurrentList(l) /\ scope' = scope /\ history' = history /\ many' = many
      /\ lists' = lists \ {l} /\ listToken' = listToken
      /\ chips' = [listed |-> TRUE, source |-> scope.source, schema |-> scope.schema,
                   asked |-> Place(l.source, l.schema)]
  BY DEF TablesCurrent
<1>2. Place(l.source, l.schema) = Place(scope.source, scope.schema)
  BY <1>1 DEF ListsInv, ListOfNow
<1>3. chips'.asked = Place(chips'.source, chips'.schema)
  BY <1>1, <1>2
<1>4. ListOfNow'
  BY <1>1, <1>3 DEF ListsInv, ListOfNow, isCurrentList, Place, SourceAt, SchemaAt
<1>5. ListTokens'
  BY <1>1 DEF ListsInv, ListTokens
<1> QED BY <1>1, <1>4, <1>5, SourcesKept DEF ListsInv

LEMMA ListsNext ==
  ASSUME ViewerInv, ViewerInv', SourceNeverMoves, ListsInv, [Next]_vars
  PROVE  ListsInv'
<1> USE DEF ListsInv
<1>1. ASSUME lists' \subseteq lists, listToken' = listToken, chips' = chips,
             scope' = scope, many' = many, history' = history
      PROVE  ListsInv'
  BY <1>1, ListsKept, SourcesKept
<1>2. CASE Answers
  <2>1. CASE loadSources
    BY <2>1, LoadSourcesSources, ListsKept DEF loadSources
  <2>2. ASSUME NEW c \in schemasCalls, SchemasStale(c) PROVE ListsInv'
    BY <1>1, <2>2 DEF SchemasStale
  <2>3. ASSUME NEW c \in schemasCalls, SchemasCurrent(c) PROVE ListsInv'
    <3>1. EntrySources'
      BY <2>3, SchemasCurrentSource, SourcesKept
    <3> QED BY <2>3, <3>1, NewList DEF SchemasCurrent
  <2>4. ASSUME NEW l \in lists, TablesStale(l) \/ TablesFail(l) PROVE ListsInv'
    BY <1>1, <2>4 DEF TablesStale, TablesFail
  <2>5. ASSUME NEW l \in loads, DataStale(l) \/ Draw(l) \/ DataFail(l) \/ DropFilter(l)
        PROVE  ListsInv'
    BY <1>1, <2>5 DEF DataStale, Draw, DataFail, DropFilter
  <2>6. ASSUME NEW l \in loads, Commit(l) PROVE ListsInv'
    BY <2>6, CommitSources, ListsKept DEF Commit
  <2> QED BY <1>2, <2>1, <2>2, <2>3, <2>4, <2>5, <2>6, TablesCurrentLists DEF Answers
<1>3. ASSUME NEW q, NEW o, userLoad(q, o) PROVE ListsInv'
  BY <1>1, <1>3 DEF userLoad
<1>4. CASE InPlace
  BY <1>3, <1>4 DEF InPlace, NextPage, PrevPage, Page, submitFilter, Refresh
<1>5. CASE Switches
  <2>1. ASSUME NEW t \in Tables, ClickChip(t) \/ FollowKey(t) PROVE ListsInv'
    BY <1>3, <2>1 DEF ClickChip, FollowKey
  <2>2. ASSUME NEW q, NEW o, NEW c, setSchema(c), loadTables(q, o),
               UNCHANGED <<many, chips, history>>
        PROVE  ListsInv'
    BY <2>2, SetSchemaKeeps, SourcesKept, NewList
  <2>3. ASSUME NEW s \in Sources PROVE ~switchSource(s)
    BY DEF EntrySources, switchSource
  <2>4. ASSUME NEW t \in Tables, NEW c \in Schemas, FollowKeyAcross(t, c) PROVE ListsInv'
    BY <2>2, <2>4 DEF FollowKeyAcross
  <2>5. ASSUME NEW c \in Schemas, switchSchema(c) PROVE ListsInv'
    BY <2>2, <2>5 DEF switchSchema
  <2> QED BY <1>5, <2>1, <2>3, <2>4, <2>5 DEF Switches
<1>6. ASSUME NEW i \in DOMAIN history.entries, Popstate(i) PROVE ListsInv'
  <2>1. scope'.source = scope.source /\ EntrySources'
    BY <1>6, PopstateSource
  <2>2. chips' = chips
    BY <1>6 DEF Popstate
  <2>3. CASE history.entries[i] = written.entry
    BY <1>6, <2>1, <2>2, <2>3, ListsKept DEF Popstate, requests
  <2>4. CASE history.entries[i] # written.entry
    <3>1. RestoreRequests
      BY <1>6, <2>4 DEF Popstate
    <3>2. \/ loadTables(NoView, Restore)
          \/ scope'.schema = scope.schema /\ UNCHANGED <<lists, listToken>>
      BY <2>1, <3>1 DEF RestoreRequests
    <3> QED BY <2>1, <2>2, <3>2, NewList, ListsKept
  <2> QED BY <2>3, <2>4
<1>7. CASE Traversals
  BY <1>6, <1>7 DEF Traversals
<1>8. CASE Tick
  BY <1>1, <1>8 DEF Tick
<1>9. CASE UNCHANGED vars
  BY <1>1, <1>9 DEF vars, requests
<1> QED BY <1>2, <1>4, <1>5, <1>7, <1>8, <1>9 DEF Next

LEMMA ListsHold == SourceNeverMoves => (Spec => []ListsInv)
<1> SUFFICES ASSUME SourceNeverMoves PROVE Spec => []ListsInv
  OBVIOUS
<1>1. Init => ListsInv
  <2>1. Init => lists = {} /\ ~chips.listed
    BY DEF Init
  <2> QED BY <2>1, EntrySourcesInit DEF ListsInv, ListTokens, ListOfNow
<1>2. ViewerInv /\ ViewerInv' /\ ListsInv /\ [Next]_vars => ListsInv'
  BY ListsNext
<1> QED BY <1>1, <1>2, ViewerSafe, PTL DEF Spec

(* Where one source is served, chips that are said to list the scope in    *)
(* view were asked for that scope, so Back may rely on them, for any       *)
(* schemas, faults and order of answers.  With two sources the claim is    *)
(* false.                                                                  *)
THEOREM ChipsAreOfTheScope == SourceNeverMoves => (Spec => []ChipsMatchScope)
<1> SUFFICES ASSUME SourceNeverMoves PROVE Spec => []ChipsMatchScope
  OBVIOUS
<1>1. ListsInv => ChipsMatchScope
  BY DEF ListsInv, ListOfNow, ChipsMatchScope
<1> QED BY <1>1, ListsHold, PTL

-----------------------------------------------------------------------------
(* ViewInv, step by step.                                                  *)
LoadsName == \A l \in loads : l.query.view # NoName

NextIsInView == \A l \in lists : isCurrentList(l) /\ l.next => query.view # NoName

Bare == TablesAt(scope.source, scope.schema) = {}

WayOn == Moving \/ query.view # NoName \/ Bare

LEMMA ViewParts == (ViewInv <=> LoadsName /\ NextIsInView /\ WayOn)
  BY DEF ViewInv, LoadsName, NextIsInView, WayOn, Bare

(* The chips name tables.                                                  *)
LEMMA ListedAreTables ==
  ASSUME ViewerInv, ListsInv PROVE listedTableNames \subseteq Tables
<1>1. chips.listed => chips.asked = <<SourceAt(chips.source), SchemaAt(chips.source, chips.schema)>>
  BY DEF ListsInv, ListOfNow, Place
<1>2. SourceAt(chips.source) \in Sources /\ SchemaAt(chips.source, chips.schema) \in Schemas
  BY ServerTypes DEF ViewerInv, TypeOK
<1>3. CASE chips.listed
  <2>1. TablesIn[chips.asked[1]] \in [Schemas -> SUBSET Tables]
    BY <1>1, <1>2, <1>3
  <2> QED BY <1>1, <1>2, <1>3, <2>1 DEF listedTableNames
<1>4. CASE ~chips.listed
  BY <1>4 DEF listedTableNames
<1> QED BY <1>3, <1>4

(* A list call that does not carry its request, or whose view is in the    *)
(* state by now.                                                           *)
LEMMA ListKeepsView ==
  ASSUME ViewerInv, ListsInv, ViewInv, NEW q, NEW o, loadTables(q, o), chips' = chips,
         loads' = loads, o.next => query'.view # NoName
  PROVE  ViewInv'
<1>1. Moving'
  BY ListUnderWay
<1>2. \A l \in lists' : isCurrentList(l)' => l.next = o.next
  BY NewList DEF ListsInv
<1> QED BY <1>1, <1>2 DEF ViewInv

LEMMA LoadKeepsView ==
  ASSUME ViewInv, NEW q, NEW o, NEW others, runLoad(q, o, others), others \subseteq loads,
         UNCHANGED <<lists, listToken, schemasCalls, schemasToken, boot>>,
         query.view # NoName => query'.view # NoName,
         scope' = scope \/ query'.view # NoName
  PROVE  ViewInv'
<1>1. LoadsName'
  <2>1. CASE q.view = NoName
    BY <2>1 DEF runLoad, ViewInv, LoadsName
  <2>2. CASE q.view # NoName
    <3> DEFINE new == Load(loadToken + 1, q, o)
    <3>1. loads' = others \cup {new} /\ new.query = q
      BY <2>2 DEF runLoad, Load
    <3> HIDE DEF new
    <3> QED BY <2>2, <3>1 DEF ViewInv, LoadsName
  <2> QED BY <2>1, <2>2
<1>2. NextIsInView'
  BY DEF ViewInv, NextIsInView, isCurrentList
<1>3. WayOn'
  BY DEF ViewInv, WayOn, Bare, Moving, CurrentList, CurrentSchemas, isCurrentList,
         isCurrentSchemas, TablesAt, ScopeExists, SourceAt, SchemaAt
<1> QED BY <1>1, <1>2, <1>3, ViewParts DEF ViewInv, LoadsName, NextIsInView, WayOn, Bare

(* An answer that ends a call and moves nothing.                           *)
LEMMA EndKeepsView ==
  ASSUME ViewInv, loads' \subseteq loads, lists' \subseteq lists, scope' = scope, query' = query,
         listToken' = listToken, schemasToken' = schemasToken,
         boot = "sources" => boot' = "sources",
         \/ Bare
         \/ /\ \A l \in lists : isCurrentList(l) => l \in lists'
            /\ \A c \in schemasCalls : isCurrentSchemas(c) => c \in schemasCalls'
  PROVE  ViewInv'
<1>1. LoadsName' /\ NextIsInView'
  BY DEF ViewInv, LoadsName, NextIsInView, isCurrentList
<1>2. WayOn'
  <2>1. CASE Bare \/ query.view # NoName
    BY <2>1 DEF WayOn, Bare, TablesAt, ScopeExists, SourceAt, SchemaAt
  <2>2. CASE ~Bare /\ Moving
    <3>1. Moving'
      BY <2>2, MovingStays
    <3> QED BY <3>1 DEF WayOn
  <2> QED BY <2>1, <2>2 DEF ViewInv, Bare
<1> QED BY <1>1, <1>2 DEF ViewInv, LoadsName, NextIsInView, WayOn, Bare

LEMMA FirstIsOne ==
  ASSUME NEW S, S \subseteq Tables, S # {}
  PROVE  FirstOf(S) # NoName
<1>1. (CHOOSE t \in S : TRUE) \in S
  OBVIOUS
<1> QED BY <1>1 DEF FirstOf

LEMMA TablesCurrentView ==
  ASSUME ViewerInv, ListsInv, ViewInv, NEW l \in lists, TablesCurrent(l)
  PROVE  ViewInv'
<1> DEFINE listed == TablesAt(l.source, l.schema)
           wanted == IF l.next THEN l.query.view ELSE query.view
           fellBack == wanted \notin listed
           o == [ByUser EXCEPT !.replace = l.replace, !.boot = l.boot, !.next = l.next /\ ~fellBack]
           q == IF o.next THEN l.query ELSE query'
<1>1. /\ isCurrentList(l) /\ lists' = lists \ {l} /\ listToken' = listToken
      /\ runLoad(q, o, loads) /\ scope' = scope
      /\ query' = IF fellBack THEN [query EXCEPT !.view = FirstOf(listed), !.filter = FALSE]
                  ELSE query
  BY DEF TablesCurrent
<1>2. listed \subseteq Tables /\ query \in Queries
  BY CallTypes, InvTypes, ServerTypes
<1>3. listed = TablesAt(scope.source, scope.schema)
  BY <1>1, SamePlace DEF ListsInv, ListOfNow
<1>4. \A m \in lists' : ~isCurrentList(m)'
  BY <1>1 DEF ListsInv, ListTokens, isCurrentList
<1>5. query'.view # NoName \/ Bare
  <2>1. CASE fellBack /\ listed # {}
    <3>1. query'.view = FirstOf(listed)
      BY <1>1, <1>2, <2>1 DEF Queries
    <3> QED BY <1>2, <2>1, <3>1, FirstIsOne
  <2>2. CASE listed = {}
    BY <1>3, <2>2 DEF Bare
  <2>3. CASE ~fellBack
    <3>1. wanted # NoName
      BY <1>2, <2>3
    <3> QED BY <1>1, <2>3, <3>1 DEF ViewInv
  <2> QED BY <2>1, <2>2, <2>3
<1>6. LoadsName'
  <2> HIDE DEF q, o
  <2>1. CASE q.view = NoName
    BY <1>1, <2>1 DEF runLoad, ViewInv, LoadsName
  <2>2. CASE q.view # NoName
    <3> DEFINE new == Load(loadToken + 1, q, o)
    <3>1. loads' = loads \cup {new} /\ new.query = q
      BY <1>1, <2>2 DEF runLoad, Load
    <3> HIDE DEF new
    <3> QED BY <2>2, <3>1 DEF ViewInv, LoadsName
  <2> QED BY <2>1, <2>2
<1>7. WayOn'
  BY <1>1, <1>5 DEF WayOn, Bare, TablesAt, ScopeExists, SourceAt, SchemaAt
<1> QED BY <1>4, <1>6, <1>7 DEF ViewInv, LoadsName, WayOn, Bare

LEMMA CommitView ==
  ASSUME ViewerInv, ViewInv, NEW l \in loads, Commit(l)
  PROVE  ViewInv'
<1>1. /\ l \in Loads /\ scope' = scope /\ query' = commitRequest(l)
      /\ UNCHANGED <<lists, listToken, schemasCalls, schemasToken>>
      /\ boot = "sources" => boot' = "sources"
      /\ \/ loads' = (loads \ {l}) \cup {[l EXCEPT !.stage = "drawing"]}
         \/ loads' = loads \ {l}
  BY InvTypes DEF Commit, EndBoot
<1>2. query'.view = NoName => query.view = NoName
  BY <1>1 DEF commitRequest, ViewInv
<1>3. LoadsName'
  <2>1. [l EXCEPT !.stage = "drawing"].query = l.query
    BY <1>1 DEF Loads
  <2> QED BY <1>1, <2>1 DEF ViewInv, LoadsName
<1>4. NextIsInView'
  BY <1>1, <1>2 DEF ViewInv, NextIsInView, isCurrentList
<1>5. Moving => Moving'
  BY <1>1, MovingStays
<1>6. WayOn'
  BY <1>1, <1>2, <1>5 DEF ViewInv, WayOn, Bare, TablesAt, ScopeExists, SourceAt, SchemaAt
<1> QED BY <1>3, <1>4, <1>6 DEF ViewInv, LoadsName, NextIsInView, WayOn, Bare

LEMMA PopstateView ==
  ASSUME ViewerInv, ListsInv, ViewInv, NEW i \in DOMAIN history.entries, Popstate(i)
  PROVE  ViewInv'
<1>1. scope'.source = scope.source
  BY PopstateSource DEF ListsInv
<1>2. CASE history.entries[i] = written.entry
  BY <1>2, EndKeepsView DEF Popstate, requests
<1>3. CASE history.entries[i] # written.entry
  <2>1. RestoreRequests /\ chips' = chips /\ boot' = boot
    BY <1>3 DEF Popstate
  <2>2. CASE scope'.schema = scope.schema /\ ChipsList(scope', query'.view)
    <3>1. /\ runLoad(query', Restore, loads)
          /\ UNCHANGED <<lists, listToken, schemasCalls, schemasToken>>
      BY <1>1, <2>1, <2>2 DEF RestoreRequests
    <3>2. query'.view # NoName
      BY <2>2, ListedAreTables DEF ChipsList
    <3> QED BY <2>1, <3>1, <3>2, LoadKeepsView
  <2>3. CASE ~(scope'.schema = scope.schema /\ ChipsList(scope', query'.view))
    <3>1. supersedeLoads /\ loadTables(NoView, Restore)
      BY <1>1, <2>1, <2>3 DEF RestoreRequests
    <3> QED BY <2>1, <3>1, ByUserNext, ListKeepsView DEF supersedeLoads
  <2> QED BY <2>2, <2>3
<1> QED BY <1>2, <1>3

LEMMA ViewNext ==
  ASSUME ViewerInv, ViewerInv', SourceNeverMoves, "tables" \notin Fallible,
         ListsInv, ViewInv, [Next]_vars
  PROVE  ViewInv'
<1>1. CASE Answers
  <2>1. CASE loadSources
    <3>1. Moving'
      BY <2>1, SchemasUnderWay DEF loadSources
    <3>2. UNCHANGED <<loads, query, lists, listToken>>
      BY <2>1 DEF loadSources
    <3> QED BY <3>1, <3>2 DEF ViewInv, isCurrentList
  <2>2. ASSUME NEW c \in schemasCalls, SchemasStale(c) PROVE ViewInv'
    BY <2>2, EndBootWritten, EndKeepsView DEF SchemasStale
  <2>3. ASSUME NEW c \in schemasCalls, SchemasCurrent(c) PROVE ViewInv'
    <3> DEFINE o == [ByUser EXCEPT !.replace = c.replace, !.boot = c.boot]
    <3>1. loadTables(query, o) /\ loads' = loads /\ chips' = chips /\ ~o.next
      BY <2>3 DEF SchemasCurrent, ByUser
    <3> HIDE DEF o
    <3> QED BY <3>1, ListKeepsView
  <2>4. ASSUME NEW l \in lists, TablesStale(l) PROVE ViewInv'
    BY <2>4, EndBootWritten, EndKeepsView DEF TablesStale
  <2>5. ASSUME NEW l \in lists, TablesFail(l) PROVE ViewInv'
    <3>1. ~ScopeExists(l.source, l.schema)
      BY <2>5 DEF TablesFail
    <3>2. isCurrentList(l) => Bare
      <4> SUFFICES ASSUME isCurrentList(l) PROVE Bare
        OBVIOUS
      <4>1. ~ScopeExists(scope.source, scope.schema)
        BY <3>1, SamePlace DEF ListsInv, ListOfNow
      <4> QED BY <4>1 DEF Bare, TablesAt
    <3> QED BY <2>5, <3>2, EndBootWritten, EndKeepsView DEF TablesFail
  <2>6. ASSUME NEW l \in loads, DataStale(l) \/ Draw(l) \/ DataFail(l) PROVE ViewInv'
    BY <2>6, EndBootWritten, EndKeepsView DEF DataStale, Draw, DataFail
  <2>7. ASSUME NEW l \in loads, DropFilter(l) PROVE ViewInv'
    <3>1. query'.view = query.view
      BY <2>7, InvTypes DEF DropFilter, Queries
    <3> QED BY <2>7, <3>1, LoadKeepsView DEF DropFilter
  <2> QED BY <1>1, <2>1, <2>2, <2>3, <2>4, <2>5, <2>6, <2>7, TablesCurrentView, CommitView
          DEF Answers
<1>2. ASSUME NEW q, NEW o, userLoad(q, o), query'.view = query.view PROVE ViewInv'
  BY <1>2, LoadKeepsView DEF userLoad
<1>3. CASE InPlace
  <2>1. userLoad(query', ByUser) /\ query'.view = query.view
    BY <1>3, InvTypes DEF InPlace, NextPage, PrevPage, Page, submitFilter, Refresh, Queries
  <2> QED BY <1>2, <2>1
<1>4. CASE Switches
  <2>1. ASSUME NEW t \in Tables, ClickChip(t) \/ FollowKey(t) PROVE ViewInv'
    BY <1>2, <2>1 DEF ClickChip, FollowKey
  <2>2. ASSUME NEW t \in Tables, NEW c \in Schemas, FollowKeyAcross(t, c) PROVE ViewInv'
    <3>1. query'.view # NoName
      BY <2>2 DEF FollowKeyAcross, tableRequest
    <3> QED BY <2>2, <3>1, ListKeepsView DEF FollowKeyAcross, supersedeLoads
  <2>3. ASSUME NEW s \in Sources PROVE ~switchSource(s)
    BY DEF ListsInv, EntrySources, switchSource
  <2>4. ASSUME NEW c \in Schemas, switchSchema(c) PROVE ViewInv'
    BY <2>4, ByUserNext, ListKeepsView DEF switchSchema, supersedeLoads
  <2> QED BY <1>4, <2>1, <2>2, <2>3, <2>4 DEF Switches
<1>5. CASE Traversals
  BY <1>5, PopstateView DEF Traversals
<1>6. CASE Tick
  BY <1>6, LoadKeepsView DEF Tick
<1>7. CASE UNCHANGED vars
  BY <1>7, EndKeepsView DEF vars, requests
<1> QED BY <1>1, <1>3, <1>4, <1>5, <1>6, <1>7 DEF Next

(* Where one source is served and no table list fails, a page that has     *)
(* come to rest shows a table, whatever was asked for and in whatever      *)
(* order it was answered, unless the schema has none (or the page says     *)
(* what went wrong).                                                       *)
THEOREM ThereIsAWayOn ==
  SourceNeverMoves /\ "tables" \notin Fallible => (Spec => []NoDeadEnd)
<1> SUFFICES ASSUME SourceNeverMoves, "tables" \notin Fallible
             PROVE  Spec => []NoDeadEnd
  OBVIOUS
<1>1. Init => ViewInv
  BY DEF Init, ViewInv, Moving
<1>2. ViewerInv /\ ViewerInv' /\ ListsInv /\ ViewInv /\ [Next]_vars => ViewInv'
  BY ViewNext
<1>3. ViewInv => NoDeadEnd
  BY DEF ViewInv, NoDeadEnd, Quiet, Moving, CurrentList, CurrentSchemas
<1>4. Spec => []ListsInv
  BY ListsHold
<1> QED BY <1>1, <1>2, <1>3, <1>4, ViewerSafe, PTL DEF Spec

-----------------------------------------------------------------------------
(* Restores, where one source and one schema are served.                   *)
Names == SchemasOf[DefaultSource] \cup {NoName}

(* The conjuncts of RestoreInv, as the steps disturb them.                 *)
NamesStay ==
    /\ ~many.schemas
    /\ scope.schema \in Names
    /\ \A i \in DOMAIN history.entries : history.entries[i].schema \in Names

ChipsName ==
    chips.listed => /\ chips.schema \in {NoName, scope.schema}
                    /\ boot = "sources" => chips.source = scope.source

AddingLoads ==
    \A l \in loads : isCurrentLoad(l) /\ l.stage = "fetching" /\ ~l.replace /\ ~l.auto
                        => aim.by = "user"

AddingLists == \A l \in lists : isCurrentList(l) /\ ~l.replace => aim.by = "user" /\ ~ChipsHere

SchemasReplace == \A c \in schemasCalls : c.replace

LEMMA RestoreParts ==
  /\ (RestoreInv <=> NamesStay /\ ChipsName /\ AddingLoads /\ AddingLists /\ SchemasReplace)
  /\ (RestoreInv' <=>
         NamesStay' /\ ChipsName' /\ AddingLoads' /\ AddingLists' /\ SchemasReplace')
  BY DEF RestoreInv, OneSchemaNamed, AddsForUser, NamesStay, Names, ChipsName, AddingLoads,
         AddingLists, SchemasReplace

LEMMA NamesKept ==
  ASSUME NamesStay, many'.schemas = many.schemas, scope'.schema = scope.schema,
         history'.entries = history.entries
  PROVE  NamesStay'
  BY DEF NamesStay, Names

LEMMA ChipsKept ==
  ASSUME ChipsName, chips' = chips, UNCHANGED scope, boot' = "sources" => boot = "sources"
  PROVE  ChipsName'
  BY DEF ChipsName

LEMMA ListsStay ==
  ASSUME AddingLists, lists' \subseteq lists, listToken' = listToken, chips' = chips,
         UNCHANGED scope, aim'.by = "user" \/ aim'.by = aim.by
  PROVE  AddingLists'
  BY DEF AddingLists, isCurrentList, ChipsHere

(* A load that runLoad sends on its way, and one that it does not.         *)
LEMMA NewAddingLoad ==
  ASSUME ViewerInv, AddingLoads, NEW q, NEW o, NEW others, others \subseteq loads,
         runLoad(q, o, others),
         o.replace \/ o.auto \/ aim'.by = "user",
         q.view = NoName => aim'.by \in {"user", aim.by}
  PROVE  AddingLoads'
<1>1. CASE q.view = NoName
  BY <1>1 DEF runLoad, AddingLoads, isCurrentLoad
<1>2. CASE q.view # NoName
  <2> DEFINE new == Load(loadToken + 1, q, o)
  <2>1. loads' = others \cup {new} /\ loadToken' = loadToken + 1
    BY <1>2 DEF runLoad
  <2>2. new.replace = o.replace /\ new.auto = o.auto
    BY DEF Load
  <2> HIDE DEF new
  <2>3. \A l \in others : l.token # loadToken'
    BY <2>1, InvTypes DEF LoadTokens
  <2> QED BY <2>1, <2>2, <2>3 DEF AddingLoads, isCurrentLoad
<1> QED BY <1>1, <1>2

LEMMA SupersededAdds ==
  ASSUME ViewerInv, supersedeLoads
  PROVE  AddingLoads'
<1>1. loads' = loads /\ loadToken' = loadToken + 1
  BY DEF supersedeLoads
<1>2. \A l \in loads : l.token # loadToken'
  BY <1>1, InvTypes DEF LoadTokens
<1> QED BY <1>1, <1>2 DEF AddingLoads, isCurrentLoad

LEMMA NewAddingList ==
  ASSUME ViewerInv, ListsInv, NEW q, NEW o, loadTables(q, o),
         o.replace \/ (aim'.by = "user" /\ ~ChipsHere')
  PROVE  AddingLists'
<1>1. PICK n : n.replace = o.replace /\ lists' = lists \cup {n} /\ listToken' = listToken + 1
  BY DEF loadTables
<1>2. \A l \in lists : l.token # listToken'
  BY <1>1, CallTypes DEF ListsInv, ListTokens
<1> QED BY <1>1, <1>2 DEF AddingLists, isCurrentList

LEMMA EntrySchema ==
  ASSUME NamesStay
  PROVE  CurrentEntry.schema = NoName
  BY DEF NamesStay, CurrentEntry

LEMMA RestoreInit == OneSchemaServed /\ Init => RestoreInv
<1> SUFFICES ASSUME OneSchemaServed, Init,
                    NEW e \in Opening, scope = Scope("loading", e.source, e.schema),
                    many = [sources |-> FALSE, schemas |-> FALSE],
                    history = [entries |-> <<e>>, at |-> 1]
             PROVE  RestoreInv
  BY DEF Init
<1>1. NamesStay
  BY DEF NamesStay, Names, Scope, OneSchemaServed
<1>2. loads = {} /\ lists = {} /\ schemasCalls = {} /\ ~chips.listed
  BY DEF Init
<1> QED BY <1>1, <1>2, RestoreParts DEF ChipsName, AddingLoads, AddingLists, SchemasReplace

LEMMA LoadSourcesRestore ==
  ASSUME ViewerInv, SourceNeverMoves, ListsInv, RestoreInv, loadSources
  PROVE  RestoreInv'
<1> USE RestoreParts
<1>1. /\ boot = "sources" /\ boot' = "chain" /\ scope'.schema = scope.schema
      /\ UNCHANGED <<loads, loadToken, lists, listToken, chips, history, aim>>
      /\ many'.schemas = many.schemas
  BY LoadSourcesSources DEF loadSources, ListsInv, ViewerInv, TypeOK
<1>2. NamesStay' /\ ChipsName' /\ AddingLoads'
  BY <1>1 DEF NamesStay, Names, ChipsName, AddingLoads, isCurrentLoad
<1>3. SchemasReplace'
  <2> DEFINE o == [Restore EXCEPT !.boot = TRUE]
  <2>1. o.replace
    BY DEF Restore, ByUser
  <2>2. loadSchemas(o)
    BY DEF loadSources
  <2> HIDE DEF o
  <2> QED BY <2>1, <2>2 DEF SchemasReplace, loadSchemas
<1>4. AddingLists'
  <2>1. ChipsHere' => ChipsHere
    BY <1>1 DEF ChipsHere, ChipsName
  <2> QED BY <1>1, <2>1 DEF AddingLists, isCurrentList
<1> QED BY <1>2, <1>3, <1>4

LEMMA SchemasCurrentRestore ==
  ASSUME ViewerInv, SourceNeverMoves, OneSchemaServed, ListsInv, RestoreInv,
         NEW c \in schemasCalls, SchemasCurrent(c)
  PROVE  RestoreInv'
<1> USE RestoreParts
<1> DEFINE s == SourceAt(c.source)
           listed == SchemasOf[s]
           chosen == IF scope.schema \in listed THEN scope.schema ELSE DefaultSchema[s]
           o == [ByUser EXCEPT !.replace = c.replace, !.boot = c.boot]
<1>1. s = DefaultSource /\ s \in Sources
  <2>1. s \in Sources
    BY InvTypes, ServerTypes DEF SchemaNames
  <2> QED BY <2>1 DEF SourceNeverMoves
<1>2. /\ scope' = withSchema(scope, chosen)
      /\ many' = [many EXCEPT !.schemas = Several(listed)]
      /\ loadTables(query, o)
      /\ schemasCalls' = schemasCalls \ {c}
      /\ UNCHANGED <<loads, loadToken, chips, history, boot, aim>>
  BY DEF SchemasCurrent, OneSchemaServed
<1>3. chosen \in listed /\ (scope.schema # NoName => chosen = scope.schema)
  BY <1>1 DEF NamesStay, Names
<1>4. ~many'.schemas
  <2>1. ~Several(listed)
    BY <1>1 DEF Several, OneSchemaServed
  <2> QED BY <1>2, <2>1 DEF ViewerInv, TypeOK
<1>5. scope'.schema = chosen /\ scope'.source = scope.source
  BY <1>2 DEF withSchema, Scope
<1>6. NamesStay'
  <2> HIDE DEF chosen
  <2> QED BY <1>1, <1>2, <1>3, <1>4, <1>5 DEF NamesStay, Names
<1>7. ChipsName'
  <2> HIDE DEF chosen
  <2> QED BY <1>2, <1>3, <1>5 DEF ChipsName
<1>8. o.replace
  BY DEF SchemasReplace, ByUser
<1> HIDE DEF o, chosen
<1>9. AddingLists'
  BY <1>2, <1>8, NewAddingList
<1>10. AddingLoads' /\ SchemasReplace'
  BY <1>2 DEF AddingLoads, SchemasReplace, isCurrentLoad
<1> QED BY <1>6, <1>7, <1>9, <1>10

LEMMA TablesCurrentRestore ==
  ASSUME ViewerInv, ListsInv, RestoreInv, NEW l \in lists, TablesCurrent(l)
  PROVE  RestoreInv'
<1> USE RestoreParts
<1> DEFINE listed == TablesAt(l.source, l.schema)
           wanted == IF l.next THEN l.query.view ELSE query.view
           fellBack == wanted \notin listed
           o == [ByUser EXCEPT !.replace = l.replace, !.boot = l.boot, !.next = l.next /\ ~fellBack]
           q == IF o.next THEN l.query ELSE query'
<1>1. /\ isCurrentList(l) /\ scope' = scope /\ history' = history /\ many' = many
      /\ lists' = lists \ {l} /\ listToken' = listToken /\ runLoad(q, o, loads)
      /\ schemasCalls' = schemasCalls
      /\ chips' = [listed |-> TRUE, source |-> scope.source, schema |-> scope.schema,
                   asked |-> Place(l.source, l.schema)]
      /\ aim' = aim \/ aim' = [aim EXCEPT !.query = query']
  BY DEF TablesCurrent
<1>2. aim'.by = aim.by
  BY <1>1 DEF ViewerInv, TypeOK
<1>3. o.replace \/ aim.by = "user"
  BY <1>1 DEF AddingLists, ByUser
<1> HIDE DEF q, o
<1>4. AddingLoads'
  BY <1>1, <1>2, <1>3, NewAddingLoad
<1>5. \A m \in lists' : ~isCurrentList(m)'
  BY <1>1 DEF ListsInv, ListTokens, isCurrentList
<1>6. ChipsName'
  BY <1>1 DEF ChipsName
<1> QED BY <1>1, <1>4, <1>5, <1>6, NamesKept DEF AddingLists, SchemasReplace

LEMMA CommitRestore ==
  ASSUME ViewerInv, ViewerInv', RestoreInv, NEW l \in loads, Commit(l)
  PROVE  RestoreInv'
<1> USE RestoreParts
<1>1. /\ l \in Loads /\ scope' = scope /\ many' = many /\ syncUrl(l.replace \/ l.auto, CurrentEntry')
      /\ UNCHANGED <<lists, listToken, loadToken, schemasCalls, chips, aim>>
      /\ boot' = "sources" => boot = "sources"
      /\ \/ loads' = (loads \ {l}) \cup {[l EXCEPT !.stage = "drawing"]}
         \/ loads' = loads \ {l}
  BY InvTypes DEF Commit, EndBoot
<1>2. CurrentEntry' \in Entries
  BY CurrentEntryType DEF ViewerInv, TypeOK, CurrentEntry, Entries, Scopes, SourceNames, SchemaNames
<1>3. \A i \in DOMAIN history'.entries :
         \/ history'.entries[i] = CurrentEntry'
         \/ \E j \in DOMAIN history.entries : history'.entries[i] = history.entries[j]
  BY <1>1, <1>2, SyncedEntries DEF ViewerInv
<1>4. CurrentEntry'.schema = NoName
  BY <1>1 DEF CurrentEntry, NamesStay
<1>5. NamesStay'
  BY <1>1, <1>3, <1>4 DEF NamesStay, Names
<1>6. AddingLoads'
  <2>1. [l EXCEPT !.stage = "drawing"].stage = "drawing"
    BY <1>1 DEF Loads
  <2> QED BY <1>1, <2>1 DEF AddingLoads, isCurrentLoad
<1> QED BY <1>1, <1>5, <1>6, ChipsKept, ListsStay DEF SchemasReplace

(* Answers that end a call, in a scope that stays.                         *)
LEMMA EndRestore ==
  ASSUME RestoreInv, loads' \subseteq loads, lists' \subseteq lists,
         schemasCalls' \subseteq schemasCalls, boot' = "sources" => boot = "sources",
         UNCHANGED <<scope, many, history, loadToken, listToken, chips, aim>>
  PROVE  RestoreInv'
<1> USE RestoreParts
<1>1. NamesStay' /\ ChipsName' /\ AddingLists'
  BY NamesKept, ChipsKept, ListsStay
<1>2. AddingLoads' /\ SchemasReplace'
  BY DEF AddingLoads, SchemasReplace, isCurrentLoad
<1> QED BY <1>1, <1>2

(* Loads of the user's, and ticks.                                         *)
LEMMA LoadRestore ==
  ASSUME ViewerInv, RestoreInv, NEW q, NEW o, NEW others, runLoad(q, o, others),
         others \subseteq loads,
         UNCHANGED <<scope, many, history, lists, listToken, schemasCalls, chips, boot>>,
         aim'.by = "user" \/ aim'.by = aim.by,
         o.replace \/ o.auto \/ aim'.by = "user"
  PROVE  RestoreInv'
<1> USE RestoreParts
<1>1. NamesStay' /\ ChipsName' /\ AddingLists'
  BY NamesKept, ChipsKept, ListsStay
<1>2. AddingLoads'
  BY NewAddingLoad
<1> QED BY <1>1, <1>2 DEF SchemasReplace

LEMMA DropFilterRestore ==
  ASSUME ViewerInv, RestoreInv, NEW l \in loads, DropFilter(l)
  PROVE  RestoreInv'
<1> DEFINE o == [ByUser EXCEPT !.replace = l.replace, !.boot = l.boot]
<1>1. /\ runLoad(query', o, loads \ {l}) /\ isCurrentLoad(l) /\ l.stage = "fetching" /\ ~l.auto
      /\ UNCHANGED <<scope, many, history, lists, listToken, schemasCalls, chips, boot>>
      /\ aim' = aim \/ aim' = [aim EXCEPT !.query = query']
  BY DEF DropFilter
<1>2. aim'.by = aim.by
  BY <1>1 DEF ViewerInv, TypeOK
<1>3. o.replace \/ aim.by = "user"
  BY <1>1, RestoreParts DEF AddingLoads, ByUser
<1> HIDE DEF o
<1> QED BY <1>1, <1>2, <1>3, LoadRestore

(* The only switch left is a foreign key followed before /schemas answers. *)
LEMMA FollowKeyAcrossRestore ==
  ASSUME ViewerInv, SourceNeverMoves, OneSchemaServed, ListsInv, RestoreInv,
         NEW t \in Tables, NEW c \in Schemas, FollowKeyAcross(t, c)
  PROVE  RestoreInv'
<1> USE RestoreParts
<1>1. /\ c \in SchemasOf[SourceAt(scope.source)] /\ c # scope.schema
      /\ supersedeLoads /\ setSchema(c) /\ aim'.by = "user"
      /\ loadTables(seededRequest(t), [ByUser EXCEPT !.next = TRUE])
      /\ UNCHANGED <<many, schemasCalls, chips, history, boot>>
  BY DEF FollowKeyAcross, AimAt
<1>2. SourceAt(scope.source) = DefaultSource
  BY InvTypes, ServerTypes DEF SourceNeverMoves
<1>3. c \in Names /\ c # NoName /\ scope.schema = NoName
  BY <1>1, <1>2 DEF Names, NamesStay, OneSchemaServed
<1>4. scope'.source = scope.source /\ scope'.schema = c
  BY <1>1, SetSchemaKeeps
<1>5. chips.listed => chips.schema = NoName
  BY <1>3 DEF ChipsName
<1>6. NamesStay' /\ ChipsName' /\ SchemasReplace'
  BY <1>1, <1>3, <1>4, <1>5 DEF NamesStay, Names, ChipsName, SchemasReplace
<1>7. AddingLoads'
  BY <1>1, SupersededAdds
<1>8. ~ChipsHere'
  BY <1>1, <1>3, <1>4, <1>5 DEF ChipsHere
<1>9. AddingLists'
  BY <1>1, <1>8, NewAddingList
<1> QED BY <1>6, <1>7, <1>9

LEMMA PopstateRestore ==
  ASSUME ViewerInv, OneSchemaServed, ListsInv, RestoreInv,
         NEW i \in DOMAIN history.entries, Popstate(i)
  PROVE  RestoreInv'
<1> USE RestoreParts
<1> DEFINE e == history.entries[i]
<1>1. history'.entries = history.entries
  BY InvTypes DEF Popstate, TypeOK
<1>2. CASE e = written.entry
  <2>1. /\ UNCHANGED <<scope, many, chips, boot, aim>>
        /\ UNCHANGED <<loads, loadToken, lists, listToken, schemasCalls, schemasToken>>
    BY <1>2 DEF Popstate, requests
  <2>2. NamesStay' /\ ChipsName' /\ AddingLists'
    BY <1>1, <2>1, NamesKept, ChipsKept, ListsStay
  <2> QED BY <2>1, <2>2 DEF AddingLoads, SchemasReplace, isCurrentLoad
<1>3. CASE e # written.entry
  <2>1. scope'.source = scope.source
    BY PopstateSource DEF ListsInv
  <2>2. applyUrlExact(e) /\ RestoreRequests /\ UNCHANGED <<many, chips, boot>>
    BY <1>3 DEF Popstate
  <2>3. scope'.schema = scope.schema \/ (e.schema # NoName /\ scope'.schema = e.schema)
    <3>1. e.source \in {NoName, scope.source}
      BY DEF ListsInv, EntrySources
    <3>2. (IF e.source = NoName THEN scope.source ELSE e.source) = scope.source
      BY <3>1
    <3>3. scope' = scope \/ (e.schema # NoName /\ scope' = withSchema(scope, e.schema))
      BY <2>2, <3>2 DEF applyUrlExact
    <3>4. withSchema(scope, e.schema).schema = e.schema
      BY DEF withSchema, Scope
    <3> HIDE DEF e
    <3> QED BY <3>3, <3>4
  <2>4. e.schema \in Names
    BY DEF NamesStay
  <2>5. scope'.schema = scope.schema \/ scope.schema = NoName
    BY <2>3, <2>4 DEF NamesStay, Names, OneSchemaServed
  <2>6. NamesStay' /\ ChipsName'
    BY <1>1, <2>1, <2>2, <2>3, <2>4, <2>5 DEF NamesStay, Names, ChipsName
  <2>7. CASE scope'.schema = scope.schema /\ ChipsList(scope', query'.view)
    <3>1. /\ runLoad(query', Restore, loads)
          /\ UNCHANGED <<lists, listToken, schemasCalls, schemasToken>>
      BY <2>1, <2>2, <2>7 DEF RestoreRequests
    <3>2. ChipsHere
      BY <2>1, <2>7 DEF ChipsHere, ChipsList, listedTableNames
    <3>3. query'.view # NoName
      BY <2>1, <2>7, ListedAreTables DEF ChipsList
    <3>4. AddingLoads'
      BY <3>1, <3>3, NewAddingLoad DEF Restore, ByUser
    <3>5. AddingLists'
      BY <3>1, <3>2 DEF AddingLists, isCurrentList
    <3> QED BY <2>6, <3>1, <3>4, <3>5 DEF SchemasReplace
  <2>8. CASE ~(scope'.schema = scope.schema /\ ChipsList(scope', query'.view))
    <3>1. supersedeLoads /\ loadTables(NoView, Restore) /\ UNCHANGED <<schemasCalls, schemasToken>>
      BY <2>1, <2>2, <2>8 DEF RestoreRequests
    <3>2. AddingLists'
      BY <3>1, NewAddingList DEF Restore, ByUser
    <3> QED BY <2>6, <3>1, <3>2, SupersededAdds DEF SchemasReplace
  <2> QED BY <2>7, <2>8
<1> QED BY <1>2, <1>3

LEMMA RestoreNext ==
  ASSUME ViewerInv, ViewerInv', SourceNeverMoves, OneSchemaServed,
         ListsInv, RestoreInv, [Next]_vars
  PROVE  RestoreInv'
<1>1. CASE Answers
  <2>1. ASSUME NEW c \in schemasCalls, SchemasStale(c) PROVE RestoreInv'
    BY <2>1, EndBootKeeps, EndRestore DEF SchemasStale
  <2>2. ASSUME NEW l \in lists, TablesStale(l) \/ TablesFail(l) PROVE RestoreInv'
    BY <2>2, EndBootKeeps, EndRestore DEF TablesStale, TablesFail
  <2>3. ASSUME NEW l \in loads, DataStale(l) \/ Draw(l) \/ DataFail(l) PROVE RestoreInv'
    BY <2>3, EndBootKeeps, EndRestore DEF DataStale, Draw, DataFail
  <2> QED BY <1>1, <2>1, <2>2, <2>3, LoadSourcesRestore, SchemasCurrentRestore,
             TablesCurrentRestore, CommitRestore, DropFilterRestore DEF Answers
<1>2. ASSUME NEW q, NEW o, userLoad(q, o) PROVE RestoreInv'
  BY <1>2, LoadRestore DEF userLoad, AimAt
<1>3. CASE InPlace
  BY <1>2, <1>3 DEF InPlace, NextPage, PrevPage, Page, submitFilter, Refresh
<1>4. CASE Switches
  <2>1. ASSUME NEW t \in Tables, ClickChip(t) \/ FollowKey(t) PROVE RestoreInv'
    BY <1>2, <2>1 DEF ClickChip, FollowKey
  <2>2. ASSUME NEW s \in Sources PROVE ~switchSource(s)
    BY DEF ListsInv, EntrySources, switchSource
  <2>3. ASSUME NEW c \in Schemas PROVE ~switchSchema(c)
    BY RestoreParts DEF NamesStay, switchSchema
  <2> QED BY <1>4, <2>1, <2>2, <2>3, FollowKeyAcrossRestore DEF Switches
<1>5. CASE Traversals
  BY <1>5, PopstateRestore DEF Traversals
<1>6. CASE Tick
  <2>1. [ByUser EXCEPT !.auto = TRUE].auto
    BY DEF ByUser
  <2> QED BY <1>6, <2>1, LoadRestore DEF Tick
<1>7. CASE UNCHANGED vars
  BY <1>7, EndRestore DEF vars, requests
<1> QED BY <1>1, <1>3, <1>4, <1>5, <1>6, <1>7 DEF Next

(* Only a commit and a step through the history change it.                 *)
LEMMA HistoryMoves ==
  ASSUME [Next]_vars, history' # history
  PROVE  Traversals \/ \E l \in loads : Commit(l)
<1>1. CASE Answers
  <2>1. loadSources => history' = history
    BY DEF loadSources
  <2>2. ASSUME NEW c \in schemasCalls, SchemasStale(c) \/ SchemasCurrent(c)
        PROVE  history' = history
    BY <2>2 DEF SchemasStale, SchemasCurrent
  <2>3. ASSUME NEW l \in lists, TablesStale(l) \/ TablesCurrent(l) \/ TablesFail(l)
        PROVE  history' = history
    BY <2>3 DEF TablesStale, TablesCurrent, TablesFail
  <2>4. ASSUME NEW l \in loads, DataStale(l) \/ Draw(l) \/ DataFail(l) \/ DropFilter(l)
        PROVE  history' = history
    BY <2>4 DEF DataStale, Draw, DataFail, DropFilter
  <2> QED BY <1>1, <2>1, <2>2, <2>3, <2>4 DEF Answers
<1>2. ~InPlace
  <2>1. ASSUME NEW q, NEW o PROVE ~userLoad(q, o)
    BY DEF userLoad
  <2>2. ASSUME NEW p PROVE ~Page(p)
    BY <2>1 DEF Page
  <2>3. ASSUME NEW f PROVE ~submitFilter(f)
    BY <2>1 DEF submitFilter
  <2>4. ~Refresh
    BY <2>1 DEF Refresh
  <2> QED BY <2>2, <2>3, <2>4 DEF InPlace, NextPage, PrevPage
<1>3. ~Switches
  BY DEF Switches, ClickChip, FollowKey, userLoad, FollowKeyAcross, switchSource, switchSchema
<1>4. ~Tick /\ ~UNCHANGED vars
  BY DEF Tick, vars
<1> QED BY <1>1, <1>2, <1>3, <1>4 DEF Next

(* The history grows on a commit only, and then for the user.              *)
LEMMA GrowsForUser ==
  ASSUME ViewerInv, RestoreInv, [Next]_vars, history'.at > Len(history.entries)
  PROVE  aim.by = "user"
<1>1. history.at \in 1..Len(history.entries) /\ Len(history.entries) \in Nat /\ history \in Histories
  BY InvTypes, AtType DEF Histories
<1>2. history' # history
  BY <1>1
<1>3. ~Traversals
  BY <1>1 DEF Traversals, Popstate, Histories
<1>4. PICK l \in loads : Commit(l)
  BY <1>2, <1>3, HistoryMoves
<1>5. ~l.replace /\ ~l.auto
  <2>1. syncUrl(l.replace \/ l.auto, CurrentEntry')
    BY <1>4 DEF Commit
  <2> QED BY <1>1, <2>1 DEF syncUrl, Histories
<1> QED BY <1>4, <1>5, RestoreParts DEF Commit, AddingLoads

(* Where one source and one schema are served, start-up and steps through  *)
(* the history never add an entry, whatever the user, the ticks and the    *)
(* failures do meanwhile, start-up included.  With two schemas the claim   *)
(* is false.                                                               *)
THEOREM OnlyTheUserAdds ==
  SourceNeverMoves /\ OneSchemaServed => (Spec => RestoresAddNothing)
<1> SUFFICES ASSUME SourceNeverMoves, OneSchemaServed
             PROVE  Spec => RestoresAddNothing
  OBVIOUS
<1>1. Init => RestoreInv
  BY RestoreInit
<1>2. ViewerInv /\ ViewerInv' /\ ListsInv /\ RestoreInv /\ [Next]_vars => RestoreInv'
  BY RestoreNext
<1>3. ViewerInv /\ RestoreInv /\ [Next]_vars
        => [history'.at > Len(history.entries) => aim.by = "user"]_vars
  BY GrowsForUser
<1>4. Spec => []ListsInv
  BY ListsHold
<1> QED BY <1>1, <1>2, <1>3, <1>4, ViewerSafe, PTL DEF Spec, RestoresAddNothing

-----------------------------------------------------------------------------
(* The last act, where no list is asked for but start-up's.                *)
Alone == SourceNeverMoves /\ OneSchemaServed /\ EntriesAreListed

LEMMA DefaultPlace ==
  ASSUME Alone, NEW s \in SourceNames, NEW c \in Names
  PROVE  SourceAt(s) = DefaultSource /\ ScopeExists(s, c) /\ TablesAt(s, c) = Listed
<1>1. SourceAt(s) = DefaultSource
  BY DEF SourceAt, SourceNames, Alone, SourceNeverMoves
<1>2. SchemaAt(s, c) = DefaultSchema[DefaultSource]
  BY <1>1 DEF SchemaAt, Names, Alone, OneSchemaServed
<1> QED BY <1>1, <1>2 DEF ScopeExists, TablesAt, Listed

LEMMA TablesAreListed ==
  ASSUME Alone, NEW s \in SourceNames, NEW c \in SchemaNames
  PROVE  TablesAt(s, c) \subseteq Listed
<1>1. SourceAt(s) = DefaultSource
  BY DEF SourceAt, SourceNames, Alone, SourceNeverMoves
<1>2. ScopeExists(s, c) => SchemaAt(s, c) = DefaultSchema[DefaultSource]
  BY <1>1 DEF ScopeExists, Alone, OneSchemaServed
<1> QED BY <1>1, <1>2 DEF TablesAt, Listed

LEMMA ListedHaveNames == Listed \subseteq Tables /\ NoName \notin Listed
<1>1. TablesIn[DefaultSource] \in [Schemas -> SUBSET Tables]
  OBVIOUS
<1>2. DefaultSchema[DefaultSource] \in Schemas
  OBVIOUS
<1>3. Listed \in SUBSET Tables
  BY <1>1, <1>2 DEF Listed
<1> QED BY <1>3

LEMMA ChipsAreListed ==
  ASSUME Alone, ViewerInv, ListsInv, RestoreInv, ChipsHere
  PROVE  listedTableNames = Listed
<1>1. chips.asked = <<SourceAt(scope.source), SchemaAt(scope.source, scope.schema)>>
  BY DEF ListsInv, ListOfNow, ChipsHere, Place
<1>2. scope.source \in SourceNames /\ scope.schema \in Names
  BY InvTypes, RestoreParts DEF NamesStay
<1>3. TablesAt(scope.source, scope.schema) = Listed /\ ScopeExists(scope.source, scope.schema)
  BY <1>2, DefaultPlace
<1> QED BY <1>1, <1>3 DEF listedTableNames, ChipsHere, TablesAt

(* A load of what was asked for is the only one that may commit.           *)
LEMMA AskedNow ==
  ASSUME ViewerInv, NEW q, NEW o, NEW others, runLoad(q, o, others), others \subseteq loads,
         q.view # NoName, aim'.query = q, ~o.auto, o.next \/ query' = q,
         o.replace => aim'.by # "user"
  PROVE  AskFollowed' /\ ReplacingLoads'
<1>1. PICK new : /\ loads' = others \cup {new} /\ loadToken' = loadToken + 1
                 /\ new = Load(loadToken + 1, q, o)
  BY DEF runLoad
<1>2. /\ new.token = loadToken' /\ new.query = q /\ new.next = o.next /\ new.auto = o.auto
      /\ new.replace = o.replace /\ new.stage = "fetching"
  BY <1>1 DEF Load
<1>3. \A l \in loads' : isCurrentLoad(l)' => l = new
  BY <1>1, InvTypes DEF LoadTokens, isCurrentLoad
<1>4. new \in loads' /\ Fetching(new)'
  BY <1>1, <1>2 DEF Fetching, isCurrentLoad
<1>5. AskFollowed'
  <2>1. CASE o.next
    BY <1>2, <1>4, <2>1 DEF AskFollowed
  <2>2. CASE ~o.next
    BY <1>2, <1>3, <2>2 DEF AskFollowed, Fetching
  <2> QED BY <2>1, <2>2
<1>6. ReplacingLoads'
  BY <1>2, <1>3 DEF ReplacingLoads, Fetching
<1> QED BY <1>5, <1>6

LEMMA UserAsks ==
  ASSUME ViewerInv, NEW q, NEW o, userLoad(q, o), q.view # NoName,
         ~o.auto, ~o.replace, o.next \/ query' = q
  PROVE  AskFollowed' /\ ReplacingLoads'
<1>1. aim'.query = q /\ runLoad(q, o, loads)
  BY DEF userLoad, AimAt
<1> QED BY <1>1, AskedNow

(* A tick asks for what is in view once more.                              *)
LEMMA TickAsks ==
  ASSUME ViewerInv, AskFollowed, ReplacingLoads, Tick
  PROVE  AskFollowed' /\ ReplacingLoads'
<1> DEFINE o == [ByUser EXCEPT !.auto = TRUE]
           new == Load(loadToken + 1, query, o)
<1>1. /\ loads' = loads \cup {new} /\ loadToken' = loadToken + 1 /\ failed' = failed
      /\ UNCHANGED <<query, aim>> /\ \A l \in loads : l.stage # "fetching"
  BY DEF Tick, runLoad, ByUser
<1>2. new.token = loadToken' /\ new.auto /\ ~new.next /\ ~new.replace
  BY <1>1 DEF Load, ByUser
<1> HIDE DEF new, o
<1>3. \A l \in loads' : Fetching(l)' => l = new
  BY <1>1 DEF Fetching
<1> QED BY <1>1, <1>2, <1>3 DEF AskFollowed, ReplacingLoads, Fetching

(* Calls that end, current ones kept.                                      *)
LEMMA EndAsks ==
  ASSUME AskFollowed, ReplacingLoads, UNCHANGED <<query, aim, loadToken, failed>>,
         loads' \subseteq loads, \A l \in loads : Fetching(l) => l \in loads'
  PROVE  AskFollowed' /\ ReplacingLoads'
<1>1. \A l \in loads : Fetching(l)' <=> Fetching(l)
  BY DEF Fetching, isCurrentLoad
<1> QED BY <1>1 DEF AskFollowed, ReplacingLoads

LEMMA DataFailAsks ==
  ASSUME ViewerInv, NEW l \in loads, DataFail(l)
  PROVE  AskFollowed' /\ ReplacingLoads'
<1>1. loads' = loads \ {l} /\ loadToken' = loadToken /\ failed' /\ isCurrentLoad(l)
  BY DEF DataFail
<1>2. \A m \in loads' : ~Fetching(m)'
  BY <1>1, OneCurrentLoad DEF Fetching, isCurrentLoad
<1> QED BY <1>1, <1>2 DEF AskFollowed, ReplacingLoads

LEMMA CommitAsks ==
  ASSUME ViewerInv, AskFollowed, ReplacingLoads, NEW l \in loads, Commit(l)
  PROVE  AskFollowed' /\ ReplacingLoads'
<1>1. /\ l \in Loads /\ Fetching(l) /\ query' = (IF l.next THEN l.query ELSE query)
      /\ UNCHANGED <<aim, loadToken, failed>>
      /\ \/ loads' = (loads \ {l}) \cup {[l EXCEPT !.stage = "drawing"]}
         \/ loads' = loads \ {l}
  BY InvTypes DEF Commit, Fetching, commitRequest
<1>2. \A m \in loads : Fetching(m) => m = l
  BY <1>1, OneCurrentLoad DEF Fetching
<1>3. [l EXCEPT !.stage = "drawing"].stage = "drawing"
  BY <1>1 DEF Loads
<1>4. \A m \in loads' : ~Fetching(m)'
  BY <1>1, <1>2, <1>3 DEF Fetching, isCurrentLoad
<1>5. query' = aim.query \/ failed
  BY <1>1, <1>2 DEF AskFollowed, ReplacingLoads
<1> QED BY <1>1, <1>4, <1>5 DEF AskFollowed, ReplacingLoads

LEMMA DropFilterAsks ==
  ASSUME ViewerInv, AskFollowed, ReplacingLoads, query.view # NoName,
         NEW l \in loads, DropFilter(l)
  PROVE  AskFollowed' /\ ReplacingLoads'
<1> DEFINE o == [ByUser EXCEPT !.replace = l.replace, !.boot = l.boot]
<1>1. /\ Fetching(l) /\ ~l.auto /\ ~l.next /\ query' = [query EXCEPT !.filter = FALSE]
      /\ runLoad(query', o, loads \ {l})
      /\ aim' = IF aim.query = query THEN [aim EXCEPT !.query = query'] ELSE aim
  BY DEF DropFilter, Fetching
<1>2. \A m \in loads : Fetching(m) => m = l
  BY <1>1, OneCurrentLoad DEF Fetching
<1>3. aim.query = query
  BY <1>1, <1>2 DEF AskFollowed
<1>4. aim'.query = query' /\ aim'.by = aim.by /\ query'.view # NoName
  BY <1>1, <1>3, InvTypes DEF TypeOK, Queries
<1>5. ~o.auto /\ (o.replace => aim'.by # "user")
  BY <1>1, <1>4 DEF ByUser, ReplacingLoads
<1>6. loads \ {l} \subseteq loads
  OBVIOUS
<1> HIDE DEF o
<1> QED BY <1>1, <1>4, <1>5, <1>6, AskedNow

(* Start-up's chain, and after it a page without lists.                    *)
LEMMA DoneStays ==
  ASSUME StartUpAlone, boot = "done", boot' = "done", lists' = {}, schemasCalls' = {},
         scope'.source = scope.source, scope'.schema = scope.schema, chips' = chips,
         query'.view \in Listed, HistoryListed'
  PROVE  StartUpAlone'
  BY DEF StartUpAlone, ChipsHere

LEMMA SameEntriesListed ==
  ASSUME HistoryListed, history'.entries = history.entries
  PROVE  HistoryListed'
  BY DEF HistoryListed

LEMMA EntriesCommitted ==
  ASSUME ViewerInv, ViewerInv', NEW l \in loads, Commit(l), query'.view \in Listed
  PROVE  /\ HistoryListed => HistoryListed'
         /\ l.replace /\ (\A i \in DOMAIN history.entries : i = history.at)
              => HistoryListed' /\ \A i \in DOMAIN history'.entries : i = history'.at
<1>1. syncUrl(l.replace \/ l.auto, CurrentEntry')
  BY DEF Commit
<1>2. CurrentEntry' \in Entries /\ CurrentEntry'.query = query'
  BY CurrentEntryType DEF ViewerInv, TypeOK, CurrentEntry, Entries, Scopes, SourceNames, SchemaNames
<1>3. /\ At(history') = CurrentEntry'
      /\ \A i \in DOMAIN history'.entries :
            \/ history'.entries[i] = CurrentEntry'
            \/ \E j \in DOMAIN history.entries : history'.entries[i] = history.entries[j]
  BY <1>1, <1>2, SyncedEntries DEF ViewerInv
<1>4. HistoryListed => HistoryListed'
  BY <1>2, <1>3 DEF HistoryListed
<1>5. ASSUME l.replace, \A i \in DOMAIN history.entries : i = history.at
      PROVE  HistoryListed' /\ \A i \in DOMAIN history'.entries : i = history'.at
  <2>1. history' = [history EXCEPT !.entries[history.at] = CurrentEntry']
    BY <1>1, <1>5 DEF syncUrl
  <2>2. history'.at = history.at /\ DOMAIN history'.entries = DOMAIN history.entries
    BY <2>1, InvTypes DEF TypeOK
  <2> QED BY <1>2, <1>3, <1>5, <2>2 DEF HistoryListed, At
<1> QED BY <1>4, <1>5

LEMMA StartUpInit == Alone /\ Init => AskInv
<1> SUFFICES ASSUME Init, NEW e \in Opening, query = e.query,
                    history = [entries |-> <<e>>, at |-> 1],
                    aim = [by |-> "boot", query |-> e.query]
             PROVE  AskInv
  BY DEF Init
<1>1. loads = {} /\ lists = {} /\ boot = "sources"
  BY DEF Init
<1>2. DOMAIN history.entries = {1} /\ history.entries[1] = e /\ history.at = 1
  OBVIOUS
<1>3. OpensListed => HistoryListed
  BY <1>2 DEF OpensListed, HistoryListed
<1>4. query = aim.query /\ aim.by # "user"
  OBVIOUS
<1>5. StartUpAlone
  BY <1>1, <1>2, <1>3, <1>4 DEF StartUpAlone
<1>6. AskFollowed /\ ReplacingLoads
  BY <1>1, <1>4 DEF AskFollowed, ReplacingLoads
<1> QED BY <1>5, <1>6 DEF AskInv

LEMMA LoadSourcesAsks ==
  ASSUME ViewerInv, AskInv, loadSources
  PROVE  AskInv'
<1> DEFINE o == [Restore EXCEPT !.boot = TRUE]
<1>1. /\ boot = "sources" /\ boot' = "chain" /\ loadSchemas(o)
      /\ UNCHANGED <<query, aim, history, loads, lists>>
  BY DEF loadSources
<1>2. loads = {} /\ lists = {} /\ schemasCalls = {}
  BY <1>1 DEF AskInv, StartUpAlone, ViewerInv, SourceStays
<1>3. PICK c : /\ schemasCalls' = {c} /\ c.token = schemasToken' /\ c.boot
  <2> DEFINE new == [token |-> schemasToken + 1, source |-> scope'.source,
                     replace |-> o.replace, boot |-> o.boot]
  <2>1. o.boot
    BY DEF Restore, ByUser
  <2>2. schemasCalls' = {new} /\ schemasToken' = schemasToken + 1
    BY <1>1, <1>2 DEF loadSchemas
  <2>3. new.token = schemasToken + 1 /\ new.boot
    BY <2>1
  <2> HIDE DEF new
  <2> QED BY <2>2, <2>3
<1>4. ChainOfOne'
  BY <1>1, <1>2, <1>3 DEF ChainOfOne, isCurrentSchemas
<1>5. StartUpAlone'
  BY <1>1, <1>4 DEF AskInv, StartUpAlone, HistoryListed
<1>6. AskFollowed' /\ ReplacingLoads'
  BY <1>1, <1>2 DEF AskInv, StartUpAlone, AskFollowed, ReplacingLoads
<1> QED BY <1>5, <1>6 DEF AskInv

(* The answers to /schemas are start-up's, and there is one.               *)
LEMMA SchemasAsk ==
  ASSUME Alone, ViewerInv, AskInv, NEW c \in schemasCalls, SchemasStale(c) \/ SchemasCurrent(c)
  PROVE  AskInv'
<1>1. boot = "chain"
  <2>1. boot \in {"sources", "chain", "done"}
    BY InvTypes DEF TypeOK
  <2>2. boot # "sources" /\ boot # "done"
    BY DEF ViewerInv, SourceStays, AskInv, StartUpAlone
  <2> QED BY <2>1, <2>2
<1>2. /\ loads = {} /\ lists = {} /\ schemasCalls = {c} /\ isCurrentSchemas(c) /\ c.boot
  BY <1>1 DEF AskInv, StartUpAlone, ChainOfOne
<1> DEFINE s == SourceAt(c.source)
           listed == SchemasOf[s]
           chosen == IF scope.schema \in listed THEN scope.schema ELSE DefaultSchema[s]
           o == [ByUser EXCEPT !.replace = c.replace, !.boot = c.boot]
<1>3. /\ scope' = withSchema(scope, chosen)
      /\ loadTables(query, o) /\ schemasCalls' = {}
      /\ UNCHANGED <<query, aim, history, loads, boot>>
  BY <1>2 DEF SchemasStale, SchemasCurrent, Alone, OneSchemaServed
<1>4. chosen \in SchemasOf[DefaultSource]
  <2>1. s \in Sources
    BY InvTypes, ServerTypes DEF SchemaNames
  <2> QED BY <2>1 DEF Alone, SourceNeverMoves
<1>5. scope'.schema \in SchemasOf[DefaultSource]
  BY <1>3, <1>4 DEF withSchema, Scope
<1>6. PICK l : /\ lists' = {l} /\ l.token = listToken' /\ l.boot /\ ~l.next
  <2>1. o.boot /\ ~o.next
    BY <1>2 DEF ByUser
  <2> DEFINE new == [token |-> listToken + 1, source |-> scope'.source,
                     schema |-> scope'.schema, query |-> query, next |-> o.next,
                     replace |-> o.replace, boot |-> o.boot]
  <2>2. lists' = {new} /\ listToken' = listToken + 1
    BY <1>2, <1>3 DEF loadTables
  <2>3. new.token = listToken + 1 /\ new.boot /\ ~new.next
    BY <2>1
  <2> HIDE DEF new
  <2> QED BY <2>2, <2>3
<1>7. ChainOfOne'
  BY <1>2, <1>3, <1>5, <1>6 DEF ChainOfOne, isCurrentList
<1>8. StartUpAlone'
  BY <1>1, <1>3, <1>7 DEF AskInv, StartUpAlone, HistoryListed
<1>9. AskFollowed' /\ ReplacingLoads'
  BY <1>1, <1>2, <1>3 DEF AskInv, StartUpAlone, AskFollowed, ReplacingLoads
<1> QED BY <1>8, <1>9 DEF AskInv

(* A load that start-up asks for is the only call.                         *)
LEMMA ChainLoad ==
  ASSUME NEW o, NEW others, runLoad(query', o, others), others = {},
         o.boot, ~o.next, o.replace, query'.view \in Listed, lists' = {}, schemasCalls' = {},
         scope'.schema \in SchemasOf[DefaultSource], ChipsHere'
  PROVE  ChainOfOne'
<1>1. query'.view # NoName
  BY ListedHaveNames
<1>2. PICK new : /\ loads' = {new} /\ loadToken' = loadToken + 1
                 /\ new = Load(loadToken + 1, query', o)
  BY <1>1 DEF runLoad
<1>3. /\ new.token = loadToken' /\ new.boot /\ ~new.next /\ new.replace /\ new.query = query'
      /\ new.source = scope'.source /\ new.schema = scope'.schema /\ new.stage = "fetching"
  BY <1>2 DEF Load
<1> QED BY <1>2, <1>3 DEF ChainOfOne, isCurrentLoad

LEMMA FallBackIsListed == Alone => FirstOf(Listed) \in Listed
<1> SUFFICES ASSUME Alone PROVE FirstOf(Listed) \in Listed
  OBVIOUS
<1>1. Listed # {}
  BY DEF Alone, EntriesAreListed
<1>2. (CHOOSE t \in Listed : TRUE) \in Listed
  BY <1>1
<1> QED BY <1>1, <1>2 DEF FirstOf

LEMMA TablesAsk ==
  ASSUME Alone, ViewerInv, ListsInv, RestoreInv, AskInv,
         NEW l \in lists, TablesStale(l) \/ TablesCurrent(l) \/ TablesFail(l)
  PROVE  AskInv'
<1> DEFINE fellBack == query.view \notin Listed
           o == [ByUser EXCEPT !.replace = l.replace, !.boot = l.boot,
                               !.next = l.next /\ ~fellBack]
<1>1. boot = "chain" /\ query = aim.query /\ aim.by # "user"
  <2>1. boot \in {"sources", "chain", "done"}
    BY InvTypes DEF TypeOK
  <2> QED BY <2>1 DEF AskInv, StartUpAlone
<1>2. /\ loads = {} /\ schemasCalls = {} /\ scope.schema \in SchemasOf[DefaultSource]
      /\ lists = {l} /\ isCurrentList(l) /\ l.boot /\ ~l.next
  BY <1>1 DEF AskInv, StartUpAlone, ChainOfOne
<1>3. l.replace
  BY <1>1, <1>2, RestoreParts DEF AddingLists
<1>4. ScopeExists(l.source, l.schema) /\ TablesAt(l.source, l.schema) = Listed
  <2>1. Place(l.source, l.schema) = Place(scope.source, scope.schema)
    BY <1>2 DEF ListsInv, ListOfNow
  <2>2. scope.source \in SourceNames /\ scope.schema \in Names
    BY <1>2, InvTypes DEF Names
  <2>3. ScopeExists(scope.source, scope.schema) /\ TablesAt(scope.source, scope.schema) = Listed
    BY <2>2, DefaultPlace
  <2> QED BY <2>1, <2>3, SamePlace
<1>5. TablesCurrent(l)
  BY <1>2, <1>4 DEF TablesStale, TablesFail, Alone, EntriesAreListed
<1>6. /\ scope' = scope /\ history' = history /\ lists' = {} /\ schemasCalls' = {}
      /\ chips' = [listed |-> TRUE, source |-> scope.source, schema |-> scope.schema,
                   asked |-> Place(l.source, l.schema)]
      /\ query' = IF fellBack THEN [query EXCEPT !.view = FirstOf(Listed), !.filter = FALSE]
                  ELSE query
      /\ aim' = IF fellBack /\ aim.query.view = query.view
                THEN [aim EXCEPT !.query = query'] ELSE aim
      /\ EndBoot(l.boot /\ query'.view = NoName, written)
  BY <1>2, <1>4, <1>5 DEF TablesCurrent
<1>7. runLoad(query', o, loads) /\ ~o.next /\ o.replace /\ o.boot /\ ~o.auto
  <2>1. ~o.next /\ o.replace /\ o.boot /\ ~o.auto
    BY <1>2, <1>3 DEF ByUser
  <2> QED BY <1>2, <1>4, <1>5, <2>1 DEF TablesCurrent
<1>8. query'.view \in Listed
  <2>1. query \in Queries
    BY InvTypes
  <2>2. [query EXCEPT !.view = FirstOf(Listed), !.filter = FALSE].view = FirstOf(Listed)
    BY <2>1 DEF Queries
  <2> QED BY <1>6, <2>2, FallBackIsListed
<1>9. aim'.query = query' /\ aim'.by # "user"
  BY <1>1, <1>6, InvTypes DEF TypeOK
<1>10. query'.view # NoName
  BY <1>8, ListedHaveNames
<1> HIDE DEF o
<1>11. AskFollowed' /\ ReplacingLoads'
  BY <1>7, <1>9, <1>10, AskedNow
<1>12. boot' = "chain"
  BY <1>1, <1>6, <1>10 DEF EndBoot
<1>13. ChainOfOne'
  BY <1>2, <1>6, <1>7, <1>8, ChainLoad DEF ChipsHere
<1>14. StartUpAlone'
  BY <1>1, <1>6, <1>9, <1>12, <1>13 DEF AskInv, StartUpAlone, HistoryListed
<1> QED BY <1>11, <1>14 DEF AskInv

(* Start-up's load answers: it commits and is drawn, fails, or asks again. *)
LEMMA ChainDataAlone ==
  ASSUME Alone, ViewerInv, ViewerInv', AskInv, boot = "chain", NEW l \in loads,
         DataStale(l) \/ Commit(l) \/ Draw(l) \/ DataFail(l) \/ DropFilter(l)
  PROVE  StartUpAlone'
<1>1. /\ lists = {} /\ schemasCalls = {} /\ scope.schema \in SchemasOf[DefaultSource]
      /\ ChipsHere /\ query.view \in Listed /\ loads = {l} /\ isCurrentLoad(l) /\ l.boot
      /\ ~l.next /\ l.replace /\ l.query = query
      /\ l.source = scope.source /\ l.schema = scope.schema
      /\ l.stage = "drawing" => HistoryListed
  BY DEF AskInv, StartUpAlone, ChainOfOne
<1>2. /\ query = aim.query /\ aim.by # "user" /\ \A i \in DOMAIN history.entries : i = history.at
      /\ OpensListed => HistoryListed
  BY DEF AskInv, StartUpAlone
<1>3. ASSUME boot' = "done", lists' = {}, schemasCalls' = {}, scope' = scope, chips' = chips,
             query' = query, HistoryListed'
      PROVE  StartUpAlone'
  BY <1>1, <1>3 DEF StartUpAlone, ChipsHere
<1>4. CASE DataStale(l)
  BY <1>1, <1>4 DEF DataStale
<1>5. CASE Commit(l)
  <2>1. /\ UNCHANGED <<lists, schemasCalls, scope, chips, aim, loadToken>> /\ query' = query
        /\ EndBoot(l.boot /\ ~ViewTransitions, [settled |-> TRUE, entry |-> CurrentEntry'])
    BY <1>1, <1>5 DEF Commit, commitRequest
  <2>2. HistoryListed' /\ \A i \in DOMAIN history'.entries : i = history'.at
    BY <1>1, <1>2, <1>5, <2>1, EntriesCommitted
  <2>3. CASE ~ViewTransitions
    <3>1. boot' = "done"
      BY <1>1, <2>1, <2>3 DEF EndBoot
    <3> QED BY <1>1, <1>3, <2>1, <2>2, <3>1
  <2>4. CASE ViewTransitions
    <3>1. boot' = "chain"
      BY <2>1, <2>4 DEF EndBoot
    <3>2. PICK n : /\ loads' = {n} /\ n = [l EXCEPT !.stage = "drawing"]
      BY <1>1, <1>5, <2>4 DEF Commit
    <3>3. /\ n.token = l.token /\ n.boot = l.boot /\ n.next = l.next /\ n.replace = l.replace
          /\ n.query = l.query /\ n.source = l.source /\ n.schema = l.schema
      BY <3>2, InvTypes DEF Loads
    <3>4. ChainOfOne'
      BY <1>1, <2>1, <2>2, <3>2, <3>3 DEF ChainOfOne, ChipsHere, isCurrentLoad
    <3> QED BY <1>2, <2>1, <2>2, <3>1, <3>4 DEF StartUpAlone
  <2> QED BY <2>3, <2>4
<1>6. CASE Draw(l)
  <2>1. /\ UNCHANGED <<lists, schemasCalls, scope, chips, query, history>> /\ boot' = "done"
        /\ l.stage = "drawing"
    BY <1>1, <1>6 DEF Draw, EndBoot
  <2>2. HistoryListed'
    BY <1>1, <2>1, SameEntriesListed
  <2> QED BY <1>1, <1>3, <2>1, <2>2
<1>7. CASE DataFail(l)
  <2>1. /\ UNCHANGED <<lists, schemasCalls, scope, chips, query, history>> /\ boot' = "done"
        /\ "data" \in Fallible \/ ~Readable(l)
    BY <1>1, <1>7 DEF DataFail, EndBoot
  <2>2. TablesAt(scope.source, scope.schema) = Listed
    BY <1>1, InvTypes, DefaultPlace DEF Names
  <2>3. OpensListed
    BY <1>1, <2>1, <2>2 DEF Readable, Alone, EntriesAreListed
  <2>4. HistoryListed'
    BY <1>2, <2>1, <2>3, SameEntriesListed
  <2> QED BY <1>1, <1>3, <2>1, <2>4
<1>8. CASE DropFilter(l)
  <2> DEFINE o == [ByUser EXCEPT !.replace = l.replace, !.boot = l.boot]
  <2>1. /\ UNCHANGED <<lists, schemasCalls, scope, chips, history, boot>>
        /\ query' = [query EXCEPT !.filter = FALSE]
        /\ aim' = [aim EXCEPT !.query = query']
        /\ runLoad(query', o, loads \ {l})
    BY <1>2, <1>8 DEF DropFilter
  <2>2. query'.view = query.view
    BY <2>1, InvTypes DEF Queries
  <2>3. o.boot /\ ~o.next /\ o.replace
    BY <1>1 DEF ByUser
  <2>4. loads \ {l} = {}
    BY <1>1
  <2> HIDE DEF o
  <2>5. ChainOfOne'
    BY <1>1, <2>1, <2>2, <2>3, <2>4, ChainLoad DEF ChipsHere
  <2>6. aim'.query = query' /\ aim'.by = aim.by
    BY <2>1, InvTypes DEF TypeOK
  <2> QED BY <1>2, <2>1, <2>5, <2>6 DEF StartUpAlone, HistoryListed
<1> QED BY <1>4, <1>5, <1>6, <1>7, <1>8

(* After start-up, loads answer in a page without lists.                   *)
LEMMA DoneDataAlone ==
  ASSUME Alone, ViewerInv, ViewerInv', AskInv, boot = "done", NEW l \in loads,
         DataStale(l) \/ Commit(l) \/ Draw(l) \/ DataFail(l) \/ DropFilter(l)
  PROVE  StartUpAlone'
<1>1. StartUpAlone /\ lists = {} /\ schemasCalls = {} /\ query.view \in Listed /\ HistoryListed
  BY DEF AskInv, StartUpAlone
<1>2. CASE Commit(l)
  <2>1. UNCHANGED <<lists, schemasCalls, scope, chips>> /\ boot' = "done"
    BY <1>2 DEF Commit, EndBoot
  <2>2. query'.view \in Listed
    <3>1. Readable(l) /\ query' = (IF l.next THEN l.query ELSE query)
      BY <1>2 DEF Commit, commitRequest
    <3>2. TablesAt(l.source, l.schema) \subseteq Listed
      BY InvTypes, TablesAreListed
    <3> QED BY <1>1, <3>1, <3>2 DEF Readable
  <2>3. HistoryListed'
    BY <1>1, <1>2, <2>2, EntriesCommitted
  <2> QED BY <1>1, <2>1, <2>2, <2>3, DoneStays
<1>3. CASE DataStale(l) \/ Draw(l) \/ DataFail(l)
  <2>1. UNCHANGED <<lists, schemasCalls, scope, chips, query, history>> /\ boot' = "done"
    BY <1>3 DEF DataStale, Draw, DataFail, EndBoot
  <2> QED BY <1>1, <2>1, DoneStays, SameEntriesListed
<1>4. CASE DropFilter(l)
  <2>1. /\ UNCHANGED <<lists, schemasCalls, scope, chips, history>> /\ boot' = "done"
        /\ query' = [query EXCEPT !.filter = FALSE]
    BY <1>4 DEF DropFilter
  <2>2. query'.view = query.view
    BY <2>1, InvTypes DEF Queries
  <2> QED BY <1>1, <2>1, <2>2, DoneStays, SameEntriesListed
<1> QED BY <1>2, <1>3, <1>4

LEMMA DataAsks ==
  ASSUME Alone, ViewerInv, ViewerInv', AskInv, NEW l \in loads,
         DataStale(l) \/ Commit(l) \/ Draw(l) \/ DataFail(l) \/ DropFilter(l)
  PROVE  AskInv'
<1>1. StartUpAlone'
  <2>1. boot \in {"sources", "chain", "done"}
    BY InvTypes DEF TypeOK
  <2>2. boot # "sources"
    BY DEF AskInv, StartUpAlone
  <2> QED BY <2>1, <2>2, ChainDataAlone, DoneDataAlone
<1>2. query.view # NoName
  <2>1. boot \in {"sources", "chain", "done"}
    BY InvTypes DEF TypeOK
  <2>2. query.view \in Listed
    BY <2>1 DEF AskInv, StartUpAlone, ChainOfOne
  <2> QED BY <2>2, ListedHaveNames
<1>3. AskFollowed /\ ReplacingLoads
  BY DEF AskInv
<1>4. CASE DataStale(l) \/ Draw(l)
  <2>1. UNCHANGED <<query, aim, loadToken, failed>> /\ loads' = loads \ {l} /\ ~Fetching(l)
    BY <1>4 DEF DataStale, Draw, Fetching
  <2>2. loads' \subseteq loads /\ \A m \in loads : Fetching(m) => m \in loads'
    BY <2>1
  <2> QED BY <1>1, <1>3, <2>1, <2>2, EndAsks DEF AskInv
<1>5. CASE Commit(l) \/ DataFail(l) \/ DropFilter(l)
  BY <1>1, <1>2, <1>3, <1>5, CommitAsks, DataFailAsks, DropFilterAsks DEF AskInv
<1> QED BY <1>4, <1>5

(* What the user asks for in a page without lists is asked for at once.    *)
LEMMA UserLoadAsks ==
  ASSUME ViewerInv, AskInv, boot = "done", NEW q, NEW o, userLoad(q, o), q.view # NoName,
         ~o.auto, ~o.replace, o.next \/ query' = q, query'.view = query.view
  PROVE  AskInv'
<1>1. UNCHANGED <<scope, lists, schemasCalls, chips, history, boot>>
  BY DEF userLoad
<1>2. StartUpAlone /\ query.view \in Listed /\ HistoryListed /\ lists = {} /\ schemasCalls = {}
  BY DEF AskInv, StartUpAlone
<1>3. StartUpAlone'
  BY <1>1, <1>2, DoneStays, SameEntriesListed
<1> QED BY <1>3, UserAsks DEF AskInv

LEMMA InPlaceAsks ==
  ASSUME ViewerInv, AskInv, boot = "done", InPlace
  PROVE  AskInv'
<1>1. query \in Queries /\ query.view # NoName
  BY InvTypes, ListedHaveNames DEF AskInv, StartUpAlone
<1>2. ~ByUser.auto /\ ~ByUser.replace
  BY DEF ByUser
<1>3. ASSUME NEW p, Page(p) PROVE AskInv'
  <2>1. query' = [query EXCEPT !.page = p] /\ userLoad(query', ByUser)
    BY <1>3 DEF Page
  <2>2. query'.view = query.view
    BY <1>1, <2>1 DEF Queries
  <2> QED BY <1>1, <1>2, <2>1, <2>2, UserLoadAsks
<1>4. ASSUME NEW f \in BOOLEAN, submitFilter(f) PROVE AskInv'
  <2>1. query' = [query EXCEPT !.filter = f, !.page = 0] /\ userLoad(query', ByUser)
    BY <1>4 DEF submitFilter
  <2>2. query'.view = query.view
    BY <1>1, <2>1 DEF Queries
  <2> QED BY <1>1, <1>2, <2>1, <2>2, UserLoadAsks
<1>5. ASSUME Refresh PROVE AskInv'
  <2>1. query' = query /\ userLoad(query', ByUser)
    BY <1>5 DEF Refresh
  <2> QED BY <1>1, <1>2, <2>1, UserLoadAsks
<1> QED BY <1>3, <1>4, <1>5 DEF InPlace, NextPage, PrevPage

(* The one schema served is in view, and there is no other to switch to.   *)
LEMMA SwitchesAsk ==
  ASSUME Alone, ViewerInv, ListsInv, RestoreInv, AskInv, boot = "done", Switches
  PROVE  AskInv'
<1> DEFINE o == [ByUser EXCEPT !.next = TRUE]
<1>1. ~o.auto /\ ~o.replace /\ o.next
  BY DEF ByUser
<1>2. ASSUME NEW t \in Tables, ClickChip(t) \/ FollowKey(t) PROVE AskInv'
  <2>1. tableRequest(t).view = t /\ seededRequest(t).view = t /\ t # NoName
    BY DEF tableRequest, seededRequest
  <2>2. query' = query /\ (userLoad(tableRequest(t), o) \/ userLoad(seededRequest(t), o))
    BY <1>2 DEF ClickChip, FollowKey
  <2> HIDE DEF o
  <2> QED BY <1>1, <2>1, <2>2, UserLoadAsks
<1>3. ASSUME NEW t \in Tables, NEW c \in Schemas PROVE ~FollowKeyAcross(t, c)
  <2>1. SourceAt(scope.source) = DefaultSource
    BY InvTypes, DefaultPlace DEF Names
  <2>2. scope.schema \in SchemasOf[DefaultSource]
    BY DEF AskInv, StartUpAlone
  <2> QED BY <2>1, <2>2 DEF FollowKeyAcross, Alone, OneSchemaServed
<1>4. ASSUME NEW s \in Sources PROVE ~switchSource(s)
  BY DEF ListsInv, EntrySources, switchSource
<1>5. ASSUME NEW c \in Schemas PROVE ~switchSchema(c)
  BY RestoreParts DEF NamesStay, switchSchema
<1> QED BY <1>2, <1>3, <1>4, <1>5 DEF Switches

(* A step through the history stays in the scope and finds its table among *)
(* the chips, so that its rows are asked for at once.                      *)
LEMMA PopstateAsks ==
  ASSUME Alone, ViewerInv, ListsInv, RestoreInv, AskInv, boot = "done",
         NEW i \in DOMAIN history.entries, Popstate(i)
  PROVE  AskInv'
<1> DEFINE e == history.entries[i]
<1>1. history'.entries = history.entries
  BY InvTypes DEF Popstate, TypeOK
<1>2. /\ StartUpAlone /\ query.view \in Listed /\ HistoryListed /\ lists = {} /\ schemasCalls = {}
      /\ scope.schema \in SchemasOf[DefaultSource] /\ ChipsHere
  BY DEF AskInv, StartUpAlone
<1>3. CASE e = written.entry
  <2>1. UNCHANGED <<scope, query, chips, boot, aim, failed, loads, loadToken, lists, schemasCalls>>
    BY <1>3 DEF Popstate, requests
  <2>2. StartUpAlone'
    BY <1>1, <1>2, <2>1, DoneStays, SameEntriesListed
  <2>3. loads' \subseteq loads /\ \A l \in loads : Fetching(l) => l \in loads'
    BY <2>1
  <2>4. AskFollowed' /\ ReplacingLoads'
    BY <2>1, <2>3, EndAsks DEF AskInv
  <2> QED BY <2>2, <2>4 DEF AskInv
<1>4. CASE e # written.entry
  <2>1. scope'.source = scope.source
    BY PopstateSource DEF ListsInv
  <2>2. applyUrlExact(e) /\ RestoreRequests /\ AimAt("history", e.query) /\ UNCHANGED <<chips, boot>>
    BY <1>4 DEF Popstate
  <2>3. query' = e.query /\ aim'.query = e.query /\ aim'.by = "history"
    BY <2>2 DEF applyUrlExact, AimAt
  <2>4. scope'.schema = scope.schema
    <3>1. e.source \in {NoName, scope.source}
      BY DEF ListsInv, EntrySources
    <3>2. (IF e.source = NoName THEN scope.source ELSE e.source) = scope.source
      BY <3>1
    <3>3. scope' = scope \/ (e.schema # NoName /\ scope' = withSchema(scope, e.schema))
      BY <2>2, <3>2 DEF applyUrlExact
    <3>4. withSchema(scope, e.schema).schema = e.schema
      BY DEF withSchema, Scope
    <3>5. e.schema \in Names
      BY RestoreParts DEF NamesStay
    <3> HIDE DEF e
    <3> QED BY <1>2, <3>3, <3>4, <3>5 DEF Names, Alone, OneSchemaServed
  <2>5. e.query.view \in Listed
    BY <1>2 DEF HistoryListed
  <2>6. listedTableNames = Listed
    BY <1>2, ChipsAreListed
  <2>7. ChipsList(scope', query'.view)
    BY <1>2, <2>1, <2>3, <2>4, <2>5, <2>6 DEF ChipsList, ChipsHere
  <2>8. runLoad(query', Restore, loads) /\ UNCHANGED <<lists, schemasCalls>>
    BY <2>1, <2>2, <2>4, <2>7 DEF RestoreRequests
  <2>9. StartUpAlone'
    <3>1. HistoryListed'
      BY <1>1, <1>2, SameEntriesListed
    <3> HIDE DEF e
    <3> QED BY <1>2, <2>1, <2>2, <2>3, <2>4, <2>5, <2>8, <3>1, DoneStays
  <2>10. query'.view # NoName /\ ~Restore.auto
    BY <2>3, <2>5, ListedHaveNames DEF Restore, ByUser
  <2> HIDE DEF e
  <2>11. loads \subseteq loads
    OBVIOUS
  <2>12. AskFollowed' /\ ReplacingLoads'
    BY <2>3, <2>8, <2>10, <2>11, AskedNow
  <2> QED BY <2>9, <2>12 DEF AskInv
<1> QED BY <1>3, <1>4

LEMMA AskNext ==
  ASSUME Alone, ViewerInv, ViewerInv', ListsInv, RestoreInv, AskInv,
         [Answers \/ (boot = "done" /\ Next)]_vars
  PROVE  AskInv'
<1>1. CASE Answers
  BY <1>1, LoadSourcesAsks, SchemasAsk, TablesAsk, DataAsks DEF Answers
<1>2. CASE boot = "done" /\ Tick
  <2>1. UNCHANGED <<scope, query, lists, schemasCalls, chips, history, boot>>
    BY <1>2 DEF Tick
  <2>2. StartUpAlone /\ query.view \in Listed /\ HistoryListed /\ lists = {} /\ schemasCalls = {}
    BY <1>2 DEF AskInv, StartUpAlone
  <2>3. StartUpAlone'
    BY <1>2, <2>1, <2>2, DoneStays, SameEntriesListed
  <2> QED BY <1>2, <2>3, TickAsks DEF AskInv
<1>3. CASE boot = "done" /\ Traversals
  BY <1>3, PopstateAsks DEF Traversals
<1>4. CASE boot = "done" /\ (InPlace \/ Switches)
  BY <1>4, InPlaceAsks, SwitchesAsk
<1>5. CASE UNCHANGED vars
  BY <1>5 DEF vars, requests, AskInv, StartUpAlone, HistoryListed, ChainOfOne, ChipsHere,
              AskFollowed, ReplacingLoads, Fetching, isCurrentLoad, isCurrentList,
              isCurrentSchemas
<1> QED BY <1>1, <1>2, <1>3, <1>4, <1>5 DEF Next

LEMMA PatientActs == PatientSpec => Spec
<1>1. [Answers \/ (boot = "done" /\ Next)]_vars => [Next]_vars
  BY DEF Next
<1> QED BY <1>1, PTL DEF PatientSpec, Spec

LEMMA RestoresHold == SourceNeverMoves /\ OneSchemaServed => (Spec => []RestoreInv)
<1> SUFFICES ASSUME SourceNeverMoves, OneSchemaServed
             PROVE  Spec => []RestoreInv
  OBVIOUS
<1>1. Init => RestoreInv
  BY RestoreInit
<1>2. ViewerInv /\ ViewerInv' /\ ListsInv /\ RestoreInv /\ [Next]_vars => RestoreInv'
  BY RestoreNext
<1>3. Spec => []ListsInv
  BY ListsHold
<1> QED BY <1>1, <1>2, <1>3, ViewerSafe, PTL DEF Spec

LEMMA AsksHold == Alone => (PatientSpec => []AskInv)
<1> SUFFICES ASSUME Alone
             PROVE  PatientSpec => []AskInv
  OBVIOUS
<1>1. Init => AskInv
  BY StartUpInit
<1>2. ViewerInv /\ ViewerInv' /\ ListsInv /\ RestoreInv /\ AskInv
        /\ [Answers \/ (boot = "done" /\ Next)]_vars => AskInv'
  BY AskNext
<1>3. (Spec => []ListsInv) /\ (Spec => []RestoreInv)
  BY ListsHold, RestoresHold DEF Alone
<1> QED BY <1>1, <1>2, <1>3, ViewerSafe, PatientActs, PTL DEF PatientSpec

(* Whoever lets the page start up finds, whatever answers come when and    *)
(* whatever fails, that nothing is in view at rest but what was last asked *)
(* for, where a list is asked for by start-up alone.  With a second list,  *)
(* or with an act during start-up, the claim is false.                     *)
THEOREM LastActDecides == Alone => (PatientSpec => []LastAskWins)
<1>1. AskInv => LastAskWins
  BY DEF AskInv, AskFollowed, LastAskWins, Quiet
<1> QED BY <1>1, AsksHold, PTL

(* Without ticks no load is auto.                                          *)
Asked == \A l \in loads : ~l.auto

LEMMA RunLoadAsked ==
  ASSUME Asked, NEW q, NEW o, NEW others, runLoad(q, o, others), others \subseteq loads, ~o.auto
  PROVE  Asked'
<1> DEFINE new == Load(loadToken + 1, q, o)
<1>1. new.auto = o.auto
  BY DEF Load
<1>2. loads' = others \/ loads' = others \cup {new}
  BY DEF runLoad
<1> HIDE DEF new
<1> QED BY <1>1, <1>2 DEF Asked

LEMMA AskedNext ==
  ASSUME ViewerInv, Asked, [Next]_vars, ~Tick \/ UNCHANGED vars
  PROVE  Asked'
<1>1. ASSUME loads' \subseteq loads PROVE Asked'
  BY <1>1 DEF Asked
<1>2. ~Restore.auto /\ ~ByUser.auto
  BY DEF Restore, ByUser
<1>3. CASE Answers
  <2>1. ASSUME NEW l \in lists, TablesCurrent(l) PROVE Asked'
    <3> DEFINE fellBack == (IF l.next THEN l.query.view ELSE query.view)
                              \notin TablesAt(l.source, l.schema)
               o == [ByUser EXCEPT !.replace = l.replace, !.boot = l.boot,
                                   !.next = l.next /\ ~fellBack]
               q == IF o.next THEN l.query ELSE query'
    <3>1. runLoad(q, o, loads)
      BY <2>1 DEF TablesCurrent
    <3>2. ~o.auto
      BY DEF ByUser
    <3>3. loads \subseteq loads
      OBVIOUS
    <3> HIDE DEF q, o
    <3> QED BY <3>1, <3>2, <3>3, RunLoadAsked
  <2>2. ASSUME NEW l \in loads, Commit(l) PROVE Asked'
    <3>1. [l EXCEPT !.stage = "drawing"].auto = l.auto
      BY InvTypes DEF Loads
    <3> QED BY <2>2, <3>1 DEF Commit, Asked
  <2>3. ASSUME NEW l \in loads, DropFilter(l) PROVE Asked'
    <3> DEFINE o == [ByUser EXCEPT !.replace = l.replace, !.boot = l.boot]
    <3>1. runLoad(query', o, loads \ {l})
      BY <2>3 DEF DropFilter
    <3>2. ~o.auto /\ loads \ {l} \subseteq loads
      BY DEF ByUser
    <3> HIDE DEF o
    <3> QED BY <3>1, <3>2, RunLoadAsked
  <2>4. ASSUME loadSources PROVE Asked'
    <3>1. loads' = loads
      BY <2>4 DEF loadSources
    <3> QED BY <1>1, <3>1
  <2>5. ASSUME NEW c \in schemasCalls, SchemasStale(c) \/ SchemasCurrent(c) PROVE Asked'
    <3>1. loads' = loads
      BY <2>5 DEF SchemasStale, SchemasCurrent
    <3> QED BY <1>1, <3>1
  <2>6. ASSUME NEW l \in lists, TablesStale(l) \/ TablesFail(l) PROVE Asked'
    <3>1. loads' = loads
      BY <2>6 DEF TablesStale, TablesFail
    <3> QED BY <1>1, <3>1
  <2>7. ASSUME NEW l \in loads, DataStale(l) \/ Draw(l) \/ DataFail(l) PROVE Asked'
    <3>1. loads' = loads \ {l}
      BY <2>7 DEF DataStale, Draw, DataFail
    <3> QED BY <1>1, <3>1
  <2> QED BY <1>3, <2>1, <2>2, <2>3, <2>4, <2>5, <2>6, <2>7 DEF Answers
<1>4. ASSUME NEW q, NEW o, userLoad(q, o), ~o.auto PROVE Asked'
  <2>1. runLoad(q, o, loads) /\ loads \subseteq loads
    BY <1>4 DEF userLoad
  <2> QED BY <1>4, <2>1, RunLoadAsked
<1>5. CASE InPlace
  <2>1. ASSUME NEW p, Page(p) PROVE Asked'
    BY <1>2, <1>4, <2>1 DEF Page
  <2>2. ASSUME NEW f \in BOOLEAN, submitFilter(f) PROVE Asked'
    BY <1>2, <1>4, <2>2 DEF submitFilter
  <2> QED BY <1>2, <1>4, <1>5, <2>1, <2>2 DEF InPlace, NextPage, PrevPage, Refresh
<1>6. CASE Switches
  <2> DEFINE o == [ByUser EXCEPT !.next = TRUE]
  <2>1. ~o.auto
    BY DEF ByUser
  <2>2. ASSUME NEW t \in Tables, ClickChip(t) \/ FollowKey(t) PROVE Asked'
    <3>1. userLoad(tableRequest(t), o) \/ userLoad(seededRequest(t), o)
      BY <2>2 DEF ClickChip, FollowKey
    <3> HIDE DEF o
    <3> QED BY <1>4, <2>1, <3>1
  <2>3. ASSUME NEW t \in Tables, NEW c \in Schemas, FollowKeyAcross(t, c) PROVE Asked'
    BY <1>1, <2>3 DEF FollowKeyAcross, supersedeLoads
  <2>4. ASSUME NEW s \in Sources, switchSource(s) PROVE Asked'
    BY <1>1, <2>4 DEF switchSource, supersedeLoads
  <2>5. ASSUME NEW c \in Schemas, switchSchema(c) PROVE Asked'
    BY <1>1, <2>5 DEF switchSchema, supersedeLoads
  <2> QED BY <1>6, <2>2, <2>3, <2>4, <2>5 DEF Switches
<1>7. ASSUME NEW i \in DOMAIN history.entries, Popstate(i) PROVE Asked'
  <2>1. CASE RestoreRequests
    <3>1. supersedeLoads \/ runLoad(query', Restore, loads)
      BY <2>1 DEF RestoreRequests
    <3>2. loads \subseteq loads
      OBVIOUS
    <3> QED BY <1>1, <1>2, <3>1, <3>2, RunLoadAsked DEF supersedeLoads
  <2> QED BY <1>1, <1>7, <2>1 DEF Popstate, requests
<1>8. CASE UNCHANGED vars
  BY <1>1, <1>8 DEF vars, requests
<1> QED BY <1>3, <1>5, <1>6, <1>7, <1>8 DEF Next, Traversals

(* An entry changes in place on a commit only, and only of a restore.      *)
LEMMA CorrectsForRestores ==
  ASSUME ViewerInv, ViewerInv', AskInv, Asked, [Next]_vars, history'.at = history.at,
         At(history') # At(history)
  PROVE  aim.by # "user"
<1>1. history.at \in 1..Len(history.entries) /\ history \in Histories
  BY InvTypes, AtType DEF Histories
<1>2. history' # history
  OBVIOUS
<1>3. ~Traversals
  <2>1. ASSUME NEW i \in {history.at - 1, history.at + 1} PROVE ~Popstate(i)
    <3>1. i # history.at
      BY <1>1
    <3>2. [history EXCEPT !.at = i].at = i
      BY <1>1 DEF Histories
    <3> QED BY <3>1, <3>2 DEF Popstate
  <2> QED BY <2>1 DEF Traversals
<1>4. PICK l \in loads : Commit(l)
  BY <1>2, <1>3, HistoryMoves
<1>5. syncUrl(l.replace \/ l.auto, CurrentEntry') /\ Fetching(l)
  BY <1>4 DEF Commit, Fetching
<1>6. CurrentEntry' \in Entries
  BY CurrentEntryType DEF ViewerInv, TypeOK, CurrentEntry, Entries, Scopes, SourceNames, SchemaNames
<1>7. At(history') = CurrentEntry'
  BY <1>5, <1>6, SyncedEntries DEF ViewerInv
<1>8. l.replace \/ l.auto
  <2>1. CASE CurrentEntry' = At(history)
    BY <1>7, <2>1
  <2>2. CASE CurrentEntry' # At(history)
    <3>1. ASSUME ~(l.replace \/ l.auto) PROVE FALSE
      <4>1. history'.at = history.at + 1
        BY <1>5, <2>2, <3>1 DEF syncUrl
      <4> QED BY <1>1, <4>1
    <3> QED BY <3>1
  <2> QED BY <2>1, <2>2
<1> QED BY <1>5, <1>8 DEF Asked, AskInv, ReplacingLoads

(* ... and the entry that Back should return to is not written over by     *)
(* what the user asked for, until a tick comes: one that loads what a      *)
(* failed load left in the state does write over it.                       *)
THEOREM StepsKeepEntries == Alone => (PatientSpec /\ [][~Tick]_vars => StepsAreEntries)
<1> SUFFICES ASSUME Alone
             PROVE  PatientSpec /\ [][~Tick]_vars => StepsAreEntries
  OBVIOUS
<1>1. Init => Asked
  BY DEF Init, Asked
<1>2. ViewerInv /\ Asked /\ [Next]_vars /\ [~Tick]_vars => Asked'
  BY AskedNext
<1>3. ViewerInv /\ ViewerInv' /\ AskInv /\ Asked /\ [Next]_vars
        => [boot = "done" /\ history'.at = history.at
            /\ At(history).query.view # NoName /\ At(history').query # At(history).query
            => aim.by # "user" \/ aim.query # At(history').query]_vars
  BY CorrectsForRestores
<1>4. PatientSpec => []AskInv
  BY AsksHold
<1> QED BY <1>1, <1>2, <1>3, <1>4, ViewerSafe, PatientActs, PTL DEF PatientSpec, Spec, StepsAreEntries

=============================================================================
