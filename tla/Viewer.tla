------------------------------- MODULE Viewer -------------------------------
(***************************************************************************)
(* One page of the browser UI: the scope (source and schema), the table in *)
(* view with its filter and page, the requests on their way, the grid that *)
(* is drawn, and the session history.                                      *)
(*                                                                         *)
(* The page is single-threaded; what interleaves are its tasks.  A click,  *)
(* a timer or an answer runs a handler up to its next await, and each such *)
(* run is one action here.  Answers arrive in any order, and every one of  *)
(* them is checked against a token taken when it was asked for:            *)
(*   loadToken    runLoad             (bootstrap/reload.ts)                *)
(*   listToken    loadTables          (features/table-chips.ts)            *)
(*   schemasToken loadSchemas         (features/scope-select.ts)           *)
(*                                                                         *)
(* Views are tables: joins, sort order and hidden columns are left to      *)
(* other modules.  A filter is either absent or present, since only its    *)
(* presence and whether it was restored matter here.                       *)
(***************************************************************************)
EXTENDS Naturals, Sequences

CONSTANTS
    Sources, Schemas, Tables,  \* names
    NoName,         \* null: no source, schema or table named
    SchemasOf,      \* SchemasOf[s]: the schemas /schemas lists for source s
    TablesIn,       \* TablesIn[s][c]: the tables /tables lists for schema c of s
    DefaultSource,  \* what the server uses when a request names no source
    DefaultSchema,  \* DefaultSchema[s]: likewise for the schema
    Fallible,       \* what may fail: a route's requests, or a "filter" that a
                    \* restored entry carries, against columns since changed
    ViewTransitions,\* whether the browser has document.startViewTransition
    Opening,        \* the entries (URL and storage) a page may start from
    MaxPage         \* bound on the pages of a table, counted from 0

Faults == {"sources", "schemas", "tables", "data", "filter"}

ASSUME ViewerAssumption ==
    /\ NoName \notin Sources \cup Schemas \cup Tables
    /\ SchemasOf \in [Sources -> SUBSET Schemas]
    /\ TablesIn \in [Sources -> [Schemas -> SUBSET Tables]]
    /\ DefaultSource \in Sources
    /\ DefaultSchema \in [Sources -> Schemas]
    /\ \A s \in Sources : DefaultSchema[s] \in SchemasOf[s]
    /\ Fallible \subseteq Faults
    /\ ViewTransitions \in BOOLEAN
    /\ MaxPage \in Nat

SourceNames == Sources \cup {NoName}
SchemaNames == Schemas \cup {NoName}
Views == Tables \cup {NoName}

(* What a load asks for (store.ts ViewRequest): offset is a page number.   *)
Queries == [view: Views, filter: BOOLEAN, page: 0..MaxPage]

Entries == [source: SourceNames, schema: SchemaNames, query: Queries]

ASSUME OpeningAssumption == Opening \subseteq Entries

VARIABLES
    scope,      \* state.scope
    many,       \* state.manySources, state.manySchemas
    query,      \* state.view, the applied filter, state.offset
    filterRisk, \* the filter was restored and has not survived a fetch yet
    remembered, \* state.schemaBySource
    menu,       \* #schema-select: whose schemas it offers, and the one it shows
    loads,      \* the runLoad calls that wait for their rows or their frame
    loadToken,
    lists,      \* the loadTables calls that wait for /tables
    listToken,
    chips,      \* the scope the table chips were asked for, and listedScope
    schemasCalls, \* the loadSchemas calls that wait for /schemas
    schemasToken,
    grid,       \* the drawn grid: gridKey, what its rows are, whether it is inert
    history,    \* the session history and where the page is in it
    written,    \* view-history.ts `written`: settled is false while it is null
    failed,     \* the error banner is up
    boot,       \* "sources" until loadSources settles, "chain" until start-up ends
    aim         \* no state of the code: the query last asked for, and by whom,
                \* as corrected by fall-backs

requests == <<loads, loadToken, lists, listToken, schemasCalls, schemasToken>>
vars == <<scope, many, query, filterRisk, remembered, menu, requests, chips,
          grid, history, written, failed, boot, aim>>

-----------------------------------------------------------------------------
(* The server, external to this module: it resolves absent names to its    *)
(* defaults and knows only the sources, schemas and tables it lists.       *)
SourceAt(s) == IF s = NoName THEN DefaultSource ELSE s
SchemaAt(s, c) == IF c = NoName THEN DefaultSchema[SourceAt(s)] ELSE c
Place(s, c) == <<SourceAt(s), SchemaAt(s, c)>>

ScopeExists(s, c) == SchemaAt(s, c) \in SchemasOf[SourceAt(s)]
TablesAt(s, c) == IF ScopeExists(s, c) THEN TablesIn[SourceAt(s)][SchemaAt(s, c)] ELSE {}

-----------------------------------------------------------------------------
(* Scopes (store.ts).  A scope is "known" once both names are taken as     *)
(* checked; withSchema makes it known without checking.                    *)
Scopes == [kind: {"loading", "known", "failed"}, source: SourceNames, schema: SchemaNames]

Scope(k, s, c) == [kind |-> k, source |-> s, schema |-> c]

withSchema(sc, c) ==
    IF sc.source = NoName THEN Scope("failed", NoName, c) ELSE Scope("known", sc.source, c)

scopeOnSource(s, c) ==
    Scope("loading", s, IF c # NoName \/ s = NoName THEN c ELSE remembered[s])

NoView == [view |-> NoName, filter |-> FALSE, page |-> 0]

(* What the grid lock compares: scopeIdentity and the view.                *)
KeyOf(sc, q) == <<sc.source, sc.schema, q.view>>
StateKey == KeyOf(scope, query)

At(h) == h.entries[h.at]

(* The entry syncUrl writes: names only where there is a choice.           *)
CurrentEntry ==
    [source |-> IF many.sources THEN scope.source ELSE NoName,
     schema |-> IF many.schemas THEN scope.schema ELSE NoName,
     query  |-> query]

-----------------------------------------------------------------------------
(* mutants of the token tests: every answer is taken for the latest        *)
anyLoad(l) == TRUE
anyList(l) == TRUE
anySchemas(c) == TRUE

isCurrentLoad(l) == l.token = loadToken
isCurrentList(l) == l.token = listToken
isCurrentSchemas(c) == c.token = schemasToken

(* runLoad, up to its first await.  Scope and query are already the new    *)
(* ones, so they are read primed.  `now` is the request when it is not     *)
(* the state itself (opts.next).                                           *)
Load(token, q, o) ==
    [token |-> token, query |-> q, source |-> scope'.source, schema |-> scope'.schema,
     next |-> o.next, auto |-> o.auto, replace |-> o.replace, boot |-> o.boot,
     stage |-> "fetching"]

ByUser  == [next |-> FALSE, auto |-> FALSE, replace |-> FALSE, boot |-> FALSE]
Restore == [ByUser EXCEPT !.replace = TRUE]

(* mutant: the lock is not looked at *)
leaveGrid == grid' = grid

(* syncGridLock: a drawn grid is inert exactly when it shows another view; *)
(* the pager it disables stays so until updatePager.                       *)
syncGridLock ==
    LET stale == grid.key # KeyOf(scope', query')
    IN  grid' = IF grid.drawn
                THEN [grid EXCEPT !.inert = stale, !.pager = grid.pager /\ ~stale]
                ELSE grid

(* `others` are the loads that stay on their way.                          *)
runLoad(q, o, others) ==
    /\ syncGridLock
    /\ failed' = IF o.auto THEN failed ELSE FALSE
    /\ IF q.view = NoName
       THEN loads' = others /\ UNCHANGED loadToken
       ELSE /\ loadToken' = loadToken + 1
            /\ loads' = others \cup {Load(loadToken + 1, q, o)}

(* mutant: a switch that waits for its table list leaves loads to commit   *)
supersedeNothing == UNCHANGED <<loadToken, loads>>

supersedeLoads == loadToken' = loadToken + 1 /\ UNCHANGED loads

(* loadTables, up to its await; `next` with its query q, as in runLoad.    *)
loadTables(q, o) ==
    /\ syncGridLock
    /\ listToken' = listToken + 1
    /\ lists' = lists \cup
         {[token |-> listToken + 1, source |-> scope'.source, schema |-> scope'.schema,
           query |-> q, next |-> o.next, replace |-> o.replace, boot |-> o.boot]}

(* loadSchemas, up to its await; what follows it is loadTables with o.     *)
loadSchemas(o) ==
    /\ syncGridLock
    /\ schemasToken' = schemasToken + 1
    /\ schemasCalls' = schemasCalls \cup
         {[token |-> schemasToken + 1, source |-> scope'.source,
           replace |-> o.replace, boot |-> o.boot]}

(* The .finally of start-up, once its last call is over: written is w by   *)
(* then, and noteStartupSettled sets it where no load has committed.       *)
EndBoot(over, w) ==
    IF over /\ boot = "chain"
    THEN /\ boot' = "done"
         /\ written' = IF w.settled THEN w
                       ELSE [settled |-> TRUE, entry |-> At(history')]
    ELSE boot' = boot /\ written' = w

-----------------------------------------------------------------------------
(* A page starts on one entry; its scope names are still to be checked.    *)
Init ==
    \E e \in Opening :
        /\ scope = Scope("loading", e.source, e.schema)
        /\ many = [sources |-> FALSE, schemas |-> FALSE]
        /\ query = e.query
        /\ filterRisk = e.query.filter
        /\ remembered = [s \in Sources |-> NoName]
        /\ menu = [source |-> NoName, shows |-> NoName]
        /\ loads = {} /\ loadToken = 0
        /\ lists = {} /\ listToken = 0
        /\ schemasCalls = {} /\ schemasToken = 0
        /\ chips = [listed |-> FALSE, source |-> NoName, schema |-> NoName,
                    asked |-> <<NoName, NoName>>]
        /\ grid = [drawn |-> FALSE, inert |-> FALSE, pager |-> FALSE,
                   key |-> <<NoName, NoName, NoName>>, place |-> <<NoName, NoName>>, query |-> NoView]
        /\ history = [entries |-> <<e>>, at |-> 1]
        /\ written = [settled |-> FALSE, entry |-> e]
        /\ failed = FALSE
        /\ boot = "sources"
        /\ aim = [by |-> "boot", query |-> e.query]

-----------------------------------------------------------------------------
(* Answers to loadSources, part of start-up only.                          *)
Several(S) == \E a, b \in S : a # b

loadSources ==
    /\ boot = "sources"
    /\ boot' = "chain"
    /\ \/ LET s == IF scope.source \in Sources THEN scope.source ELSE DefaultSource
          IN  /\ scope' = Scope("loading", s, scope.schema)
              /\ many' = [many EXCEPT !.sources = Several(Sources)]
       \/ /\ "sources" \in Fallible
          /\ scope' = Scope("failed", NoName, scope.schema)
          /\ many' = [many EXCEPT !.sources = FALSE]
    /\ query' = query
    /\ loadSchemas([Restore EXCEPT !.boot = TRUE])
    /\ UNCHANGED <<filterRisk, remembered, menu, loads, loadToken, lists, listToken,
                   chips, history, written, failed, aim>>

(* /schemas answered or failed: settleSchema, then the caller's loadTables.*)
(* An answer that a newer loadSchemas superseded stops there.              *)
SchemasStale(c) ==
    /\ ~isCurrentSchemas(c)
    /\ schemasCalls' = schemasCalls \ {c}
    /\ history' = history
    /\ EndBoot(c.boot, written)
    /\ UNCHANGED <<scope, many, query, filterRisk, remembered, menu, loads, loadToken,
                   lists, listToken, schemasToken, chips, grid, failed, aim>>

SchemasCurrent(c) ==
    /\ isCurrentSchemas(c)
    /\ schemasCalls' = schemasCalls \ {c}
    /\ \/ LET listed == SchemasOf[SourceAt(c.source)]
              chosen == IF scope.schema \in listed THEN scope.schema
                        ELSE DefaultSchema[SourceAt(c.source)]
          IN  /\ scope' = withSchema(scope, chosen)
              /\ many' = [many EXCEPT !.schemas = Several(listed)]
              /\ menu' = [source |-> SourceAt(c.source), shows |-> chosen]
       \/ /\ "schemas" \in Fallible
          /\ scope' = Scope("failed", scope.source, NoName)
          /\ many' = [many EXCEPT !.schemas = FALSE]
          /\ UNCHANGED menu
    /\ query' = query
    /\ loadTables(query, [ByUser EXCEPT !.replace = c.replace, !.boot = c.boot])
    /\ UNCHANGED <<filterRisk, remembered, loads, loadToken, schemasToken, chips,
                   history, written, failed, boot, aim>>

(* /tables answered for a call that a newer one superseded.                *)
TablesStale(l) ==
    /\ ~isCurrentList(l)
    /\ ScopeExists(l.source, l.schema)
    /\ lists' = lists \ {l}
    /\ history' = history
    /\ EndBoot(l.boot, written)
    /\ UNCHANGED <<scope, many, query, filterRisk, remembered, menu, loads, loadToken,
                   listToken, schemasCalls, schemasToken, chips, grid, failed, aim>>

FirstOf(names) == IF names = {} THEN NoName ELSE CHOOSE t \in names : TRUE

(* /tables answered: the chips are rebuilt for the scope of now; a view    *)
(* that is not listed gives way to the first table, with no filter but on  *)
(* the page it was on (R5); then the rows are asked for.  The note a cross-*)
(* schema step adds after a fall-back is left out.                         *)
TablesCurrent(l) ==
    LET listed == TablesAt(l.source, l.schema)
        wanted == IF l.next THEN l.query.view ELSE query.view
        fellBack == wanted \notin listed
        fallback == [query EXCEPT !.view = FirstOf(listed), !.filter = FALSE]
        o == [ByUser EXCEPT !.replace = l.replace, !.boot = l.boot,
                            !.next = l.next /\ ~fellBack]
    IN  /\ isCurrentList(l)
        /\ ScopeExists(l.source, l.schema)
        /\ lists' = lists \ {l}
        /\ scope' = scope
        /\ history' = history
        /\ chips' = [listed |-> TRUE, source |-> scope.source, schema |-> scope.schema,
                     asked |-> Place(l.source, l.schema)]
        /\ query' = IF fellBack THEN fallback ELSE query
        /\ filterRisk' = (filterRisk /\ ~fellBack)
        /\ runLoad(IF o.next THEN l.query ELSE query', o, loads)
        /\ aim' = IF fellBack /\ aim.query.view = wanted
                  THEN [aim EXCEPT !.query = query'] ELSE aim
        /\ EndBoot(l.boot /\ query'.view = NoName, written)
        /\ UNCHANGED <<many, remembered, menu, listToken, schemasCalls, schemasToken>>

(* /tables failed: Promise.all rejects before the token is looked at, so   *)
(* even a superseded call reports its error.                               *)
TablesFail(l) ==
    /\ "tables" \in Fallible \/ ~ScopeExists(l.source, l.schema)
    /\ lists' = lists \ {l}
    /\ history' = history
    /\ failed' = TRUE
    /\ EndBoot(l.boot, written)
    /\ UNCHANGED <<scope, many, query, filterRisk, remembered, menu, loads, loadToken,
                   listToken, schemasCalls, schemasToken, chips, grid, aim>>

-----------------------------------------------------------------------------
(* The rows of a load arrive, or its request fails.                        *)
Readable(l) == l.query.view \in TablesAt(l.source, l.schema)

DataStale(l) ==
    /\ l.stage = "fetching"
    /\ ~isCurrentLoad(l)
    /\ loads' = loads \ {l}
    /\ history' = history
    /\ EndBoot(l.boot, written)
    /\ UNCHANGED <<scope, many, query, filterRisk, remembered, menu, loadToken, lists,
                   listToken, schemasCalls, schemasToken, chips, grid, failed, aim>>

(* mutant: the new grid is drawn without syncGridLock *)
DrawnLocked(l) == [grid EXCEPT !.drawn = TRUE, !.key = KeyOf(scope', query')]

(* renderHeader and renderRows: the grid takes the key of the state of     *)
(* now, and the rows the load asked for.                                   *)
Drawn(l) == [drawn |-> TRUE, inert |-> FALSE, pager |-> TRUE,
             key |-> KeyOf(scope', query'), place |-> Place(l.source, l.schema), query |-> l.query]

(* mutants: no entry is ever added, or none ever corrected *)
syncUrlReplacing(replace, entry) == history' = [history EXCEPT !.entries[history.at] = entry]

syncUrlAdding(replace, entry) ==
    history' = [entries |-> Append(SubSeq(history.entries, 1, history.at), entry),
                at |-> history.at + 1]

(* syncUrl: the entry is replaced on a restore, on a tick, and when it is  *)
(* the same; any other load adds an entry and drops the ones after it.     *)
syncUrl(replace, entry) ==
    /\ history' =
         IF replace \/ entry = At(history)
         THEN [history EXCEPT !.entries[history.at] = entry]
         ELSE [entries |-> Append(SubSeq(history.entries, 1, history.at), entry),
               at |-> history.at + 1]

(* mutant: the state stays on the view it had *)
commitNothing(l) == query

commitRequest(l) == IF l.next THEN l.query ELSE query

(* The state moves to the request and the URL with it.  With view          *)
(* transitions the grid is drawn in a later frame, else at once.           *)
Commit(l) ==
    /\ l.stage = "fetching"
    /\ isCurrentLoad(l)
    /\ Readable(l)
    /\ scope' = scope
    /\ many' = many
    /\ query' = commitRequest(l)
    /\ filterRisk' = FALSE
    /\ syncUrl(l.replace \/ l.auto, CurrentEntry')
    /\ IF ViewTransitions
       THEN /\ loads' = (loads \ {l}) \cup {[l EXCEPT !.stage = "drawing"]}
            /\ grid' = grid
       ELSE /\ loads' = loads \ {l}
            /\ grid' = Drawn(l)
    /\ EndBoot(l.boot /\ ~ViewTransitions, [settled |-> TRUE, entry |-> CurrentEntry'])
    /\ UNCHANGED <<remembered, menu, loadToken, lists, listToken, schemasCalls,
                   schemasToken, chips, failed, aim>>

(* The callback of startViewTransition; a load superseded meanwhile draws  *)
(* nothing.                                                                *)
Draw(l) ==
    /\ l.stage = "drawing"
    /\ loads' = loads \ {l}
    /\ scope' = scope
    /\ query' = query
    /\ history' = history
    /\ grid' = IF isCurrentLoad(l) THEN Drawn(l) ELSE grid
    /\ EndBoot(l.boot, written)
    /\ UNCHANGED <<many, filterRisk, remembered, menu, loadToken, lists, listToken,
                   schemasCalls, schemasToken, chips, failed, aim>>

(* A failed load, tick or not, is reported ...                             *)
DataFail(l) ==
    /\ l.stage = "fetching"
    /\ isCurrentLoad(l)
    /\ "data" \in Fallible \/ ~Readable(l)
    /\ loads' = loads \ {l}
    /\ history' = history
    /\ failed' = TRUE
    /\ EndBoot(l.boot, written)
    /\ UNCHANGED <<scope, many, query, filterRisk, remembered, menu, loadToken, lists,
                   listToken, schemasCalls, schemasToken, chips, grid, aim>>

(* A restored filter that no fetch has accepted yet may be what failed.    *)
dropOneStaleInput == "filter" \in Fallible /\ query.filter /\ filterRisk

(* ... unless a restored filter may be at fault: it is dropped and the     *)
(* same load tried again (dropOneStaleInput).                              *)
DropFilter(l) ==
    /\ l.stage = "fetching"
    /\ isCurrentLoad(l)
    /\ Readable(l)
    /\ ~l.auto /\ ~l.next
    /\ dropOneStaleInput
    /\ query' = [query EXCEPT !.filter = FALSE]
    /\ filterRisk' = FALSE
    /\ aim' = IF aim.query = query THEN [aim EXCEPT !.query = query'] ELSE aim
    /\ scope' = scope
    /\ runLoad(query', [ByUser EXCEPT !.replace = l.replace, !.boot = l.boot], loads \ {l})
    /\ UNCHANGED <<many, remembered, menu, lists, listToken, schemasCalls, schemasToken,
                   chips, history, written, boot>>

-----------------------------------------------------------------------------
(* The tables the chips name.                                              *)
listedTableNames ==
    IF chips.listed THEN TablesIn[chips.asked[1]][chips.asked[2]] ELSE {}

(* What the user does.  A control inside the grid acts only while the grid *)
(* is not inert; chips, the filter box, Refresh and the selectors always do.*)
GridActs == grid.drawn /\ ~grid.inert

AimAt(who, q) == aim' = [by |-> who, query |-> q]

userLoad(q, o) ==
    /\ UNCHANGED <<scope, many, remembered, menu, lists, listToken, schemasCalls,
                   schemasToken, chips, history, written, boot>>
    /\ runLoad(q, o, loads)
    /\ AimAt("user", q)

(* A chip opens its table without filter, in the scope of now: the chips   *)
(* of the last scope stay until the next list arrives.                     *)
tableRequest(t) == [view |-> t, filter |-> FALSE, page |-> 0]

ClickChip(t) ==
    /\ t \in listedTableNames
    /\ query' = query /\ filterRisk' = filterRisk
    /\ userLoad(tableRequest(t), [ByUser EXCEPT !.next = TRUE])

(* The pager's buttons: the offset moves before the load.  prev is enabled *)
(* for the page that was drawn, so a second click may find page 0.         *)
Page(p) ==
    /\ grid.pager
    /\ query' = [query EXCEPT !.page = p] /\ filterRisk' = filterRisk
    /\ userLoad(query', ByUser)

NextPage == query.page < MaxPage /\ Page(query.page + 1)

(* mutant: no Math.max *)
PrevPageUnclamped == grid.query.page > 0 /\ Page(query.page - 1)

PrevPage == grid.query.page > 0 /\ Page(IF query.page = 0 THEN 0 ELSE query.page - 1)

submitFilter(f) ==
    /\ query' = [query EXCEPT !.filter = f, !.page = 0]
    /\ filterRisk' = FALSE
    /\ userLoad(query', ByUser)

Refresh ==
    /\ grid.drawn
    /\ query' = query /\ filterRisk' = filterRisk
    /\ userLoad(query', ByUser)

(* setSchema, and the per-source memory it keeps.                          *)
setSchema(c) ==
    /\ scope' = withSchema(scope, c)
    /\ menu' = [menu EXCEPT !.shows = c]
    /\ remembered' = IF scope'.kind = "known"
                     THEN [remembered EXCEPT ![scope'.source] = c] ELSE remembered

(* A foreign-key cell or a referrer in this schema ...                     *)
seededRequest(t) == [tableRequest(t) EXCEPT !.filter = TRUE]

FollowKey(t) ==
    /\ GridActs
    /\ query' = query /\ filterRisk' = filterRisk
    /\ userLoad(seededRequest(t), [ByUser EXCEPT !.next = TRUE])

(* ... and one into another, whose table list comes first.                 *)
FollowKeyAcross(t, c) ==
    /\ GridActs
    /\ c \in SchemasOf[SourceAt(scope.source)] \ {scope.schema}
    /\ supersedeLoads
    /\ query' = tableRequest(t)
    /\ filterRisk' = FALSE
    /\ setSchema(c)
    /\ loadTables(seededRequest(t), [ByUser EXCEPT !.next = TRUE])
    /\ AimAt("user", seededRequest(t))
    /\ UNCHANGED <<many, schemasCalls, schemasToken, chips, history, written, failed, boot>>

switchSource(s) ==
    /\ many.sources
    /\ s # scope.source
    /\ supersedeLoads
    /\ scope' = scopeOnSource(s, NoName)
    /\ query' = NoView
    /\ filterRisk' = FALSE
    /\ loadSchemas(ByUser)
    /\ AimAt("user", NoView)
    /\ UNCHANGED <<many, remembered, menu, lists, listToken, chips, history, written,
                   failed, boot>>

(* The selector offers the schemas it was last filled with.                *)
switchSchema(c) ==
    /\ many.schemas
    /\ c \in SchemasOf[menu.source] \ {menu.shows}
    /\ supersedeLoads
    /\ setSchema(c)
    /\ query' = NoView
    /\ filterRisk' = FALSE
    /\ loadTables(NoView, ByUser)
    /\ AimAt("user", NoView)
    /\ UNCHANGED <<many, schemasCalls, schemasToken, chips, history, written, failed, boot>>

(* popstate to entry i: the entry is restored as it is, absent names kept. *)
(* Before start-up has settled it reloads the page instead, which is a     *)
(* behaviour of its own.                                                   *)
applyUrlExact(e) ==
    LET s == IF e.source = NoName THEN scope.source ELSE e.source
    IN  /\ scope' = IF s # scope.source THEN scopeOnSource(s, e.schema)
                    ELSE IF e.schema # NoName THEN withSchema(scope, e.schema)
                    ELSE scope
        /\ query' = e.query
        /\ filterRisk' = e.query.filter

(* mutant: a step within one schema asks for rows whatever the chips list *)
anyChips(sc, t) == TRUE

ChipsList(sc, t) ==
    /\ chips.source = sc.source /\ chips.schema = sc.schema
    /\ t \in listedTableNames

RestoreRequests ==
    CASE scope'.source # scope.source ->
            supersedeLoads /\ loadSchemas(Restore) /\ UNCHANGED <<lists, listToken, failed>>
      [] scope'.source = scope.source /\ scope'.schema = scope.schema
         /\ ChipsList(scope', query'.view) ->
            runLoad(query', Restore, loads)
            /\ UNCHANGED <<lists, listToken, schemasCalls, schemasToken>>
      [] OTHER ->
            supersedeLoads /\ loadTables(NoView, Restore)
            /\ UNCHANGED <<schemasCalls, schemasToken, failed>>

Popstate(i) ==
    LET e == history.entries[i]
    IN  /\ written.settled
        /\ history' = [history EXCEPT !.at = i]
        /\ IF e = written.entry
           THEN UNCHANGED <<scope, many, query, filterRisk, remembered, menu, requests,
                            chips, grid, written, failed, boot, aim>>
           ELSE /\ written' = [settled |-> TRUE, entry |-> e]
                /\ applyUrlExact(e)
                /\ menu' = [menu EXCEPT !.shows = scope'.schema]
                /\ RestoreRequests
                /\ AimAt("history", e.query)
                /\ UNCHANGED <<many, remembered, chips, boot>>

(* An auto-refresh tick (features/auto-refresh.ts): skipped while a fetch  *)
(* is on its way or nothing is in view.                                    *)
Tick ==
    /\ query.view # NoName
    /\ \A l \in loads : l.stage # "fetching"
    /\ UNCHANGED <<scope, query, filterRisk>>
    /\ runLoad(query, [ByUser EXCEPT !.auto = TRUE], loads)
    /\ UNCHANGED <<many, remembered, menu, lists, listToken, schemasCalls,
                   schemasToken, chips, history, written, boot, aim>>

-----------------------------------------------------------------------------
Answers ==
    \/ loadSources
    \/ \E c \in schemasCalls : SchemasStale(c) \/ SchemasCurrent(c)
    \/ \E l \in lists : TablesStale(l) \/ TablesCurrent(l) \/ TablesFail(l)
    \/ \E l \in loads : DataStale(l) \/ Commit(l) \/ Draw(l) \/ DataFail(l) \/ DropFilter(l)

InPlace ==
    \/ NextPage \/ PrevPage
    \/ \E f \in BOOLEAN : submitFilter(f)
    \/ Refresh

Switches ==
    \/ \E t \in Tables : ClickChip(t) \/ FollowKey(t)
    \/ \E t \in Tables, c \in Schemas : FollowKeyAcross(t, c)
    \/ \E s \in Sources : switchSource(s)
    \/ \E c \in Schemas : switchSchema(c)

Traversals ==
    \E i \in {history.at - 1, history.at + 1} \cap DOMAIN history.entries : Popstate(i)

Next == Answers \/ InPlace \/ Switches \/ Traversals \/ Tick

Spec == Init /\ [][Next]_vars

-----------------------------------------------------------------------------
Loads == [token: Nat, query: Queries, source: SourceNames, schema: SchemaNames,
            next: BOOLEAN, auto: BOOLEAN, replace: BOOLEAN, boot: BOOLEAN,
            stage: {"fetching", "drawing"}]
ListCalls == [token: Nat, query: Queries, source: SourceNames, schema: SchemaNames,
              next: BOOLEAN, replace: BOOLEAN, boot: BOOLEAN]
SchemasCalls == [token: Nat, source: SourceNames, replace: BOOLEAN, boot: BOOLEAN]
Places == SourceNames \X SchemaNames

TypeOK ==
    /\ scope \in Scopes
    /\ many \in [sources: BOOLEAN, schemas: BOOLEAN]
    /\ query \in Queries
    /\ filterRisk \in BOOLEAN
    /\ remembered \in [Sources -> SchemaNames]
    /\ menu \in [source: SourceNames, shows: SchemaNames]
    /\ loads \subseteq Loads /\ loadToken \in Nat
    /\ lists \subseteq ListCalls /\ listToken \in Nat
    /\ schemasCalls \subseteq SchemasCalls /\ schemasToken \in Nat
    /\ chips \in [listed: BOOLEAN, source: SourceNames, schema: SchemaNames, asked: Places]
    /\ grid \in [drawn: BOOLEAN, inert: BOOLEAN, pager: BOOLEAN,
                 key: SourceNames \X SchemaNames \X Views, place: Places, query: Queries]
    /\ history \in [entries: Seq(Entries), at: Nat] /\ history.at \in DOMAIN history.entries
    /\ written \in [settled: BOOLEAN, entry: Entries]
    /\ failed \in BOOLEAN
    /\ boot \in {"sources", "chain", "done"}
    /\ aim \in [by: {"boot", "history", "user"}, query: Queries]

(* The rows on screen are those of the scope and table the page says it    *)
(* shows, whenever the grid takes clicks for that view: no answer, however *)
(* late, is drawn under another scope's or view's name (controller.ts, the *)
(* load token and supersedeLoads before every switch that cannot wait).    *)
(* With nothing in view runLoad takes no token, so rows on their way may   *)
(* still be drawn then, but only rows of the scope in view.                *)
RowsMatchScope ==
    grid.drawn /\ grid.key = StateKey /\ NoName \notin {scope.source, scope.schema} =>
        /\ grid.place = <<scope.source, scope.schema>>
        /\ query.view # NoName => grid.query.view = query.view

(* A grid drawn for another view than the one in the state takes no click  *)
(* (ui-guidelines R14, grid-lock.ts).                                      *)
StaleGridInert == grid.drawn /\ grid.key # StateKey => grid.inert

(* Chips said to list a scope do list its tables: this is what Back relies *)
(* on when it asks for rows only (table-chips.ts chipsListScopeInView).    *)
ChipsMatchScope ==
    chips.listed /\ <<chips.source, chips.schema>> = <<scope.source, scope.schema>> =>
        chips.asked = Place(scope.source, scope.schema)

(* What is offered in the schema selector, once it is settled, are the     *)
(* schemas of the source in view: a late answer for another source does    *)
(* not fill it (scope-select.ts loadSchemasToken).                         *)
SelectorMatchesSource ==
    schemasCalls = {} /\ many.schemas => menu.source = SourceAt(scope.source)

(* Once nothing is on its way and nothing failed, what is drawn, the state *)
(* and the URL agree, and the grid takes clicks.                           *)
Quiet == loads = {} /\ lists = {} /\ schemasCalls = {} /\ boot = "done"

SettledAgrees ==
    Quiet => \/ failed \/ query.view = NoName
             \/ /\ grid.key = StateKey /\ ~grid.inert
                /\ grid.query = query
                /\ At(history) = CurrentEntry

(* ... there is a view, unless the schema is empty or the page says what   *)
(* went wrong (R9, R5) ...                                                 *)
NoDeadEnd ==
    Quiet => failed \/ query.view # NoName \/ TablesAt(scope.source, scope.schema) = {}

(* ... and it is what was last asked for, or what that fell back to: no    *)
(* answer to an older act takes the page away from the last one.           *)
LastAskWins == Quiet => failed \/ query = aim.query

(* What the user asked for is never written over the entry that Back       *)
(* should return to (ui-guidelines R16, view-history.ts).                  *)
StepsAreEntries ==
    [][boot = "done" /\ history'.at = history.at
       /\ At(history).query.view # NoName /\ At(history').query # At(history).query
       => aim.by # "user" \/ aim.query # At(history').query]_vars

(* Start-up and a step through the history, with whatever they fall back   *)
(* to, correct their entry and never add one (R16).                        *)
RestoresAddNothing == [][history'.at > Len(history.entries) => aim.by = "user"]_vars

(* What RowsMatchScope rests on.  A token is one call's and is never one   *)
(* still to be taken ...                                                   *)
Tokens ==
    /\ \A l \in loads : l.token <= loadToken
    /\ \A l, m \in loads : l.token = m.token => l = m
    /\ \A c \in schemasCalls : c.token <= schemasToken
    /\ \A c, d \in schemasCalls : c.token = d.token => c = d

(* ... until /sources answers nothing changes the source, Back included,   *)
(* and while a current /schemas is on its way no switch has ...            *)
SourceStays ==
    /\ boot = "sources" =>
         /\ schemasCalls = {}
         /\ ~many.sources
         /\ \A i \in DOMAIN history.entries :
               history.entries[i].source \in {NoName, scope.source}
    /\ \A c \in schemasCalls : isCurrentSchemas(c) => c.source = scope.source

(* ... a load that may still commit was asked for in the scope of now, or  *)
(* in one that names a schema the server refuses: /sources and /schemas    *)
(* settle the scope under loads already on their way ...                   *)
Unsettled ==
    \/ boot = "sources"
    \/ scope.source # NoName /\ \E c \in schemasCalls : isCurrentSchemas(c)

LoadOfNow(l) ==
    /\ Unsettled => SourceAt(l.source) = SourceAt(scope.source) /\ l.schema = scope.schema
    /\ NoName \notin {scope.source, scope.schema} =>
         Place(l.source, l.schema) = <<scope.source, scope.schema>> \/ ~Readable(l)
    /\ (l.next /\ l.stage = "fetching") \/ query.view \in {NoName, l.query.view}

LoadsOfNow ==
    \A l \in loads : /\ isCurrentLoad(l) => LoadOfNow(l)
                     /\ l.stage = "drawing" => Readable(l)

(* ... and the grid holds the rows its key names, in view or not.          *)
GridOfItsKey ==
    grid.drawn => /\ NoName \notin {grid.key[1], grid.key[2]} =>
                        grid.place = <<grid.key[1], grid.key[2]>>
                  /\ grid.key[3] # NoName => grid.query.view = grid.key[3]

ViewerInv == TypeOK /\ Tokens /\ SourceStays /\ LoadsOfNow /\ GridOfItsKey

(* What SettledAgrees rests on.  The latest call of each kind ...          *)
CurrentList == \E l \in lists : isCurrentList(l)
CurrentSchemas == \E c \in schemasCalls : isCurrentSchemas(c)
Moving == boot = "sources" \/ CurrentSchemas \/ CurrentList

(* ... the load that is to bring the state where it should be: it has its  *)
(* request still to commit, or has committed it and waits for its frame ...*)
Recorded == written = [settled |-> TRUE, entry |-> CurrentEntry] /\ At(history) = CurrentEntry

LoadAgrees(l) == IF l.stage = "fetching" THEN l.next \/ l.query = query
                 ELSE l.query = query /\ Recorded

Coming == \E l \in loads : isCurrentLoad(l) /\ LoadAgrees(l)

(* ... or nothing is left to do: grid, state, URL and `written` agree.     *)
AtRest == /\ \A l \in loads : ~isCurrentLoad(l)
          /\ grid.key = StateKey /\ ~grid.inert /\ grid.query = query
          /\ Recorded

(* No step leaves the page with a view, no error, and nobody to draw it    *)
(* (every caller of runLoad, loadTables and loadSchemas); it is what Quiet *)
(* sees when the last call is over.  A list that carries its own request   *)
(* names a table in it.                                                    *)
SettleInv ==
    /\ \A l \in lists : l.next => l.query.view # NoName
    /\ Moving \/ failed \/ query.view = NoName \/ Coming \/ AtRest

(* What SelectorMatchesSource rests on: until the current /schemas answers *)
(* the selector may be behind the source, never after it.                  *)
SelectorFollows == many.schemas /\ ~CurrentSchemas => menu.source = SourceAt(scope.source)

(* What ChipsMatchScope and NoDeadEnd rest on where the source never moves:*)
(* one source is served, and no entry names a source /sources may fail to  *)
(* confirm ...                                                             *)
SourceNeverMoves ==
    /\ \A a, b \in Sources : a = b
    /\ "sources" \notin Fallible \/ \A e \in Opening : e.source = NoName

EntrySources ==
    /\ ~many.sources
    /\ \A i \in DOMAIN history.entries :
          /\ history.entries[i].source \in {NoName, scope.source}
          /\ "sources" \in Fallible => history.entries[i].source = NoName

(* ... the latest list is for the scope of now, and so are its chips once  *)
(* it has answered ...                                                     *)
ListTokens ==
    /\ \A l \in lists : l.token <= listToken
    /\ \A l, m \in lists : l.token = m.token => l = m

ListOfNow ==
    /\ \A l \in lists : isCurrentList(l) =>
          Place(l.source, l.schema) = Place(scope.source, scope.schema)
    /\ chips.listed => chips.asked = Place(chips.source, chips.schema)

ListsInv == ListTokens /\ EntrySources /\ ListOfNow

(* ... and where no list fails, a page without a view has its list still   *)
(* to come.                                                                *)
ViewInv ==
    /\ \A l \in loads : l.query.view # NoName
    /\ \A l \in lists : isCurrentList(l) /\ l.next => query.view # NoName
    /\ Moving \/ query.view # NoName \/ TablesAt(scope.source, scope.schema) = {}

(* What RestoresAddNothing rests on where one schema is served too, /schemas*)
(* answers and no entry names another: a list that would add an entry is a *)
(* switch of the user's, and no step through the history asks for rows     *)
(* only while it is on its way, since the chips are not those in view.     *)
OneSchemaServed ==
    LET D == SchemasOf[DefaultSource] IN
    /\ \A c, d \in D : c = d
    /\ "schemas" \notin Fallible
    /\ \A e \in Opening : e.schema \in D \cup {NoName}

ChipsHere == chips.listed /\ chips.source = scope.source /\ chips.schema = scope.schema

OneSchemaNamed ==
    LET D == SchemasOf[DefaultSource] IN
    /\ ~many.schemas
    /\ scope.schema \in D \cup {NoName}
    /\ \A i \in DOMAIN history.entries : history.entries[i].schema \in D \cup {NoName}
    /\ chips.listed => /\ chips.schema \in {NoName, scope.schema}
                       /\ boot = "sources" => chips.source = scope.source

(* Calls that would add an entry are the user's.                           *)
AddsForUser ==
    /\ \A l \in loads : isCurrentLoad(l) /\ l.stage = "fetching" /\ ~l.replace /\ ~l.auto
                          => aim.by = "user"
    /\ \A l \in lists : isCurrentList(l) /\ ~l.replace => aim.by = "user" /\ ~ChipsHere
    /\ \A c \in schemasCalls : c.replace

RestoreInv == OneSchemaNamed /\ AddsForUser

(* LastAskWins and StepsAreEntries hold of a user who waits for start-up.  *)
PatientSpec == Init /\ [][Answers \/ (boot = "done" /\ Next)]_vars

(* They also need, where one schema is served, that a list is asked for by *)
(* start-up alone, or its answer would take the page from a later act: it  *)
(* does not fail, and it has every table an entry is ever of, which is so  *)
(* if start-up's own load corrects the entry a page opens on.              *)
Listed == TablesIn[DefaultSource][DefaultSchema[DefaultSource]]
OpensListed == \A e \in Opening : e.query.view \in Listed

EntriesAreListed ==
    /\ "tables" \notin Fallible
    /\ Listed # {}
    /\ "data" \notin Fallible \/ OpensListed

HistoryListed == \A i \in DOMAIN history.entries : history.entries[i].query.view \in Listed

(* Then start-up is one chain of calls ...                                 *)
ChainOfOne ==
    \/ /\ loads = {} /\ lists = {}
       /\ \E c \in schemasCalls : schemasCalls = {c} /\ isCurrentSchemas(c) /\ c.boot
    \/ /\ loads = {} /\ schemasCalls = {}
       /\ scope.schema \in SchemasOf[DefaultSource]
       /\ \E l \in lists : lists = {l} /\ isCurrentList(l) /\ l.boot /\ ~l.next
    \/ /\ lists = {} /\ schemasCalls = {}
       /\ scope.schema \in SchemasOf[DefaultSource] /\ ChipsHere /\ query.view \in Listed
       /\ \E l \in loads :
            /\ loads = {l} /\ isCurrentLoad(l) /\ l.boot /\ ~l.next /\ l.replace
            /\ l.query = query /\ l.source = scope.source /\ l.schema = scope.schema
            /\ l.stage = "drawing" => HistoryListed

(* ... that no act but the user's follows, and every step through the      *)
(* history finds its table among the chips.                                *)
StartUpAlone ==
    /\ OpensListed => HistoryListed
    /\ boot # "done" => /\ query = aim.query /\ aim.by # "user"
                        /\ \A i \in DOMAIN history.entries : i = history.at
    /\ boot = "sources" => loads = {} /\ lists = {}
    /\ boot = "chain" => ChainOfOne
    /\ boot = "done" => /\ lists = {} /\ schemasCalls = {}
                        /\ scope.schema \in SchemasOf[DefaultSource] /\ ChipsHere
                        /\ query.view \in Listed /\ HistoryListed

(* What was last asked for is in the state and no request will replace it, *)
(* or a current load will put it there, or its load has failed.            *)
Fetching(l) == isCurrentLoad(l) /\ l.stage = "fetching"

AskFollowed ==
    \/ query = aim.query /\ \A l \in loads : Fetching(l) /\ l.next => l.query = aim.query
    \/ \E l \in loads : Fetching(l) /\ l.next /\ ~l.auto /\ l.query = aim.query
    \/ failed /\ \A l \in loads : Fetching(l) => l.auto

(* A load that would replace an entry is no act of the user's.             *)
ReplacingLoads ==
    \A l \in loads : Fetching(l) => /\ l.replace => aim.by # "user"
                                    /\ l.auto => ~l.next

AskInv == StartUpAlone /\ AskFollowed /\ ReplacingLoads

(* Every request is answered or fails, and the browser draws its frames.   *)
Fairness == WF_vars(Answers)

FairSpec == Spec /\ Fairness

(* A grid left inert by a switch gives way to a grid that takes clicks,    *)
(* unless the switch failed or its schema is empty (R14, R5).              *)
GridComesBack ==
    grid.inert ~> ~grid.inert \/ failed \/ TablesAt(scope.source, scope.schema) = {}
=============================================================================
