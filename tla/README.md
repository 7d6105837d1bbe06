# Ashurbanipal, specified in TLA+

Ashurbanipal is an embeddable, read-only database browser: a server core mounted
into a host application answers a small HTTP protocol, and a single page of
TypeScript browses what it serves. This directory models the server whole, from
the query string to the answer, on each of its three databases, and the parts of
the page whose correctness depends on the order in which things happen; it checks
them with TLC and proves their safety with TLAPS.

Paths below are relative to `src/frontend/src/` for the page and to
`src/implementations/rust/core/src/` for the server.

## 1. The system

### Components, their state and operations

| component | state | operations | what can go wrong |
|---|---|---|---|
| Page state and scope (`core/store.ts`, `core/url.ts`) | scope (loading, known or failed; source, schema), view, filter, offset, sort, joins, which inputs were restored, schema last used per source | `setSchema`, `withSchema`, `scopeOnSource`, `switchSource`, `switchSchema`, `commitRequest`, `dropOneStaleInput`, `applyUrlOverlay`, `applyUrlExact` | a partly applied change: names of one scope with the view of another |
| Load controller (`bootstrap/controller.ts`, `reload.ts`, `main.ts`) | the load token, the error banner | `runLoad`: ask, commit, draw a frame later, fail, drop a stale input and retry; pager; Refresh | late answers, answers of another scope, failed steps that left the state moved |
| Table chips (`features/table-chips.ts`) | the list token, `listedScope`, the chips | `loadTables` with its fall-back, chip clicks | chips of one schema under the name of another |
| Selectors (`features/scope-select.ts`) | the schemas token, the two selectors | `loadSources`, `loadSchemas`, choosing | a selector filled by a late answer |
| Grid and its lock (`features/grid-lock.ts`, `grid.ts`) | `gridKey`, the rows drawn, inert or not, the pager | `syncGridLock`, drawing | controls that act on another view than the one they show |
| Session history (`features/view-history.ts`) | the browser's entries, `written` | `syncUrl`, `popstate`, foreign-key steps, `noteStartupSettled` | steps lost, entries added by restores |
| Filter box (`features/filter-ui.ts`, `lib/filter-dsl.ts`) | its text | submit, complete | a restored filter against columns since changed |
| Auto-refresh (`features/auto-refresh.ts`) | on or off, countdown, failures, idle time | `tick`, start, stop, visibility | a countdown that stops for ever or runs when off |
| Promise cache (`lib/promise-cache.ts`) | stored answers, pending requests | `get`, `clear`, settling | an answer from before a clear is stored after it |
| API client (`core/api.ts`, `bootstrap/boot-prefetch.ts`) | prefetched answers | `api`, `prefetch`, `clearPrefetched`, `nameStartupDefault` | a prefetched answer used twice, too late or for another request |
| Siblings (`siblings.rs`; `features/siblings.ts`) | none; the page: last answer, backoff | concurrent health checks, warnings; poll, timeout | an answer under another sibling's name; a late poll overwriting a newer one |
| Table metadata (`features/table-meta.ts`, `join-catalog.ts`) | columns and keys per table, generation | load, invalidate | metadata of a scope since left |
| Joins (`join.rs`; `features/join-*.ts`) | none; the page: the draft, saved joins | parse, plan, label, build the statement | labels that clash, incomparable columns, a page wrongly said to be the last |
| Filter DSL (`filter.rs`) | none | parse, validate, compile | three-valued logic under NOT, AND and OR; the operators an engine lacks |
| Database layer (`db/*.rs`) | connection pools; which MySQL it is | resolve a source and schema, list, describe, read rows, bound a query in time | names that vanish between two statements, catalogue views that hide things, a deadline left on a pooled connection |
| Wire protocol (`protocol_wire.rs`, `page_encoding.rs`, `config.rs`) | none | clamp the limit, refuse parameters, choose the page's encoding | off by one at the limit |
| HTTP adapters (`rust/axum`, `rust/actix-web`) | none | extract parameters, dispatch to a source, map errors | the order of refusals |
| The other ports, conformance runner, tools, demos | none of their own | re-implementations of the same protocol, tests, test data | not modelled |

### How they interact

The page is one thread. A click, a timer or an answer runs a handler up to its
next `await`; between two such runs anything else may run. The handlers share
the page state, and each kind of request takes a number when it is asked for, so
that an answer can tell whether it is still the latest: `runLoad` in
`reload.ts`, `loadTables` in `table-chips.ts`, `loadSchemas` in
`scope-select.ts`. A switch of source runs `/schemas`, then `/tables`, then the
rows; a switch of schema runs the last two; a chip runs the last one and moves
the state only when the rows are there. Back and Forward pick whichever of the
three the entry needs. With `document.startViewTransition` the rows are drawn a
frame after the state has moved. Start-up runs the same chain from the URL.

The server keeps no state between requests but its connection pools and, for a
MySQL source, whether it is MariaDB. A request names a source and schema or
leaves them to the server's defaults. A handler is a sequence of statements: the
schemas, the gate that says whether the table may be asked for, its columns, its
keys, then the SELECT; each checks the request against what the one before
answered, and the database may change between any two.

### What is hard

Answers in any order; state that moves before its request (pager, filter,
schema, source, history) or after it (chip, foreign key in one schema); requests
that fail after the state moved; a token test that one handler does after an
`await` and another before; rows drawn a frame late; Back while an answer is on
its way; start-up, which is the same chain with nothing checked yet. On the
server: a catalogue that changes under a handler, that each engine shows in its
own views and in part; locks and lost connections between two statements; values
that are text to the engine and numbers to the user. The
`hazards` list of `PROJECT.json` names each at its line with the property that
would catch it.

## 2. Modules

| module | models |
|---|---|
| `PromiseCache` | `lib/promise-cache.ts`: every operation |
| `PromiseCacheProofs` | its theorems |
| `Viewer` | the page: scope, view, filter, page, requests, chips, selectors, grid, session history, start-up |
| `ViewerProofs` | its theorems: what holds at every step, then what holds once the page has come to rest |
| `AutoRefresh` | `features/auto-refresh.ts`: the countdown, failures, idle limit, visibility |
| `AutoRefreshProofs` | its theorems |
| `BoundedCalls` | abstract: what a database source promises of each call |
| `SqlitePool` | `SqliteSource::bounded` of `db/sqlite.rs` on the host application's pool |
| `SqlitePoolProofs` | its theorems, and that it implements `BoundedCalls` |
| `Prefetch` | `core/api.ts`, `bootstrap/boot-prefetch.ts`: requests sent ahead |
| `PrefetchProofs` | its theorems |
| `Database` | what a role sees of a database, and what `db/mod.rs` makes of answers all engines share |
| `Sql` | external: what an engine does with the SELECT statements this program builds |
| `Filter`, `Join` | `filter.rs`, `join.rs` as operators |
| `Postgres`, `Mysql`, `Sqlite` | each statement of the backend as what it reads of a database |
| `Wire` | `protocol_wire.rs`, `config.rs`, `siblings.rs`, `page_encoding.rs` |
| `Server` | the adapters' routes and the handlers of the backends: one request among edits, locks and failures |
| `ServerProperties` | what the answers promise, said of the database directly |
| `ServerProofs`, `ServerVerdicts`, `ServerPages` | the theorems about names in a SELECT, the answers, lists and the page's encoding; about refusals and what is answered instead; about the rows of a page and the keys its columns tell of |
| `MCPromiseCache`, `MCViewer`, `MCAutoRefresh`, `MCSqlitePool`, `MCPrefetch`, `MCServer` | bounded instances for TLC |

The server's modules extend one another in the order `Database`, `Sql`,
`Filter`, `Join`, `Wire`, `Server`; `Server` takes the three engines as instances
(`Pg`, `My`, `Sq`). The others stand alone. `AutoRefresh` sees loads only by who
asked for them; `Viewer` sees auto-refresh only by its ticks, which may come at
any time: any countdown `AutoRefresh` allows is among them. `Viewer`'s requests go
through `api()`, which `Prefetch` shows to give each the answer to what it means;
and its `TablesAt` and `Readable` stand for what `Server` answers. `Server` takes
a connection of a SQLite pool for granted, which `SqlitePool` is about.

### `PromiseCache`

`stored` and `pending` are the two maps of the cache, with requests as names;
`asked` and `clears` remember, for the properties only, when a request was made.
`Get` is `get` up to its return, `Answer` and `Fail` are the two ways a request
settles, `Finally` the `.finally` that frees the key, a later microtask than the
answer, and `Clear` is `clear`, which also makes answers still on their way
unusable.

### `Viewer`

| variable | code |
|---|---|
| `scope`, `many`, `query`, `filterRisk`, `remembered` | `state.scope`, `manySources` and `manySchemas`, the view, applied filter and offset, the "restored, not yet accepted" mark of the filter, `schemaBySource` |
| `menu` | whose schemas `#schema-select` offers, and which it shows |
| `loads`, `lists`, `schemasCalls` and their tokens | the suspended calls of `runLoad`, `loadTables`, `loadSchemas`, with what each captured before its `await` |
| `chips` | `listedScope`, and the scope the listed tables were really asked for |
| `grid` | `gridKey`, whether the grid and its pager are inert, and where its rows came from |
| `history`, `written` | the browser's session history and `written` of `view-history.ts` |
| `failed` | the error banner |
| `boot` | the start-up chain of `main` |
| `aim` | not in the code: what was last asked for and by whom, as corrected by fall-backs |

An action is one run of a handler to its next `await` or to its end, with every
state change it makes: `Commit` moves the state, writes the URL, settles
start-up and, without view transitions, draws; `TablesCurrent` rebuilds the
chips, falls back to the first table and asks for rows. `syncGridLock` is called
where the code calls it. Tables are names and a page is a number; a filter is
present or not; sort order, hidden columns, joins and the note shown after a
fall-back are left out. The server is external: `TablesAt` and `Readable` say
what it answers, and `Fallible` which requests may fail besides those it
refuses.

### `AutoRefresh`

| variable | code |
|---|---|
| `interval`, `failures` | `intervalMs`, `failures` |
| `armed`, `left` | whether `timer` is set; `deadline` minus now, in units of time |
| `idle` | now minus `lastInput`, counted to just past `IDLE_MS` |
| `latest`, `superseded` | of the requests `inFlightFetches` counts: who asked for the one with the current token, and how many others there are |
| `hidden`, `inView` | `document.hidden`; whether `state.view` is set |

`Fire` is the timer's callback, late by any amount; `Pass` is time; `Hide` and
`Show` are the `visibilitychange` listener; `EndSuperseded`, `Succeed` and `Fail`
are the end of a request, which runs `setFetching(false)` when it was the last and
then `noteLoadOk` or `noteTickFailed`. The header comment of the file says that a
tick is only ever skipped for a fetch the user started. That is nearly so: an
interval chosen, or a page hidden and shown, while a tick's own request is on its
way sets the timer beside it, and if it runs out first that tick is skipped for
the earlier one. Nothing comes of it, since the end of the request starts the
countdown again.

### `SqlitePool` and `BoundedCalls`

| variable | code |
|---|---|
| `holder` | which task has each connection of the pool |
| `handler` | the progress handler on a connection: what its `deadline` leaves, or none |
| `stage`, `outcome` | the `await` of `bounded` a call is suspended at; what its query came to |
| `left` | the call's own `deadline` minus now |
| `leaked`, `disturbed` | not in the code: connections that came back from a dropped future; tasks of the host that had a query aborted |

The actions are the pieces of `bounded` between its awaits. `Drop` is the
future being dropped at any of them, as a web framework drops a handler whose
client has gone; `Return` is the pool taking the connection back. sqlx, SQLite
and the host application are external. `BoundedCalls` keeps only `stage` and
`left`; the refinement maps a call that has its connection to "running" and one
whose query has ended to what it came to, even when the future is dropped before
the handler is cleared.

### `Prefetch`

| variable | code |
|---|---|
| `prefetched` | `prefetched`: kind, key, time of expiry and the request's promise; `at` is for the property |
| `calls` | the suspended calls of `api()`: what for, and which promise each awaits |
| `sent`, `now` | requests sent so far, which names them; `performance.now()` |
| `starting` | whether the chain in `main.ts` has ended |
| `refreshed` | not in the code: what was sent before the last refresh |

A request is its route, source, schema and, in one value, what else a page of
rows depends on; `keyOf` makes parameter order irrelevant, so a record is its
key. `Load` is a call of `api()` by anyone up to its first `await`; `AskAhead` is
`prefetch` from a chip or after Next; `Refresh` is `runLoad` for Refresh and
ticks, which clears what was asked for ahead first; `Answer` settles a promise and
runs what follows: a call that took rows asked for ahead asks again when they
failed, and `loadSources` and `loadSchemas` name the defaults they were told.
`/table-counts` goes the way of `/tables`; requests with an `init` (`/siblings`)
are never taken from what was sent ahead.

### `Server` and what it is made of

| variable | code |
|---|---|
| `req`, `answer` | the request a handler was called with; its `Response`, when there is one |
| `read` | the handler's local variables: the result of each statement so far, by its kind and table |
| `sql` | the `SELECT` of the rows once `query_table` or `join::build_select` has built it |
| `variant` | the `OnceLock` of `MySqlSource` |
| `probes` | the health checks of `siblings.rs` that have ended |
| `db`, `locked`, `budget` | external: the database now, whether another session has locked it, how much more others will do |
| `seen`, `disturbed` | not in the code: the databases there were since the request came; whether others interfered |

Every statement is an action (`ListSchemas`, `ReadableTable`, `ReadColumns`,
`ReadKeys`, `Select`, `EstimateRows`, ...), enabled when the ones before it have
their results, which is the order of the code. The code between two statements
is part of the step of the first: `Verdict` is the checks it makes, in its order
(schema, table, column, then building the SELECT), and `Body` is the answer once
the last result is in. The engine decides what a statement reads (`Pg!KeyMetadata`,
`My!ReferencedBy`, `Sq!Indexes`, ...): these operators are translated from the SQL
text of the backend, with the privileges its catalogue views look at. `Expire` is
the timer of a statement, `Busy` SQLite's own, `Fail` a lost connection, `Alter`
another session that drops a table or a column or revokes a privilege, `Lock` and
`Unlock` one that holds up whoever reads the tables.

A database is a record of schemas, tables (kind, privileges, columns with native
types, rows, indexes, checks) and keys. Text is a model string ordered by
`NameOrder` and folded by `Fold`; `NumberOf` says which number a text shows, since
the program casts every value to text. A statement is a record of what it selects,
filters, orders by and skips, with every name in it marked as qualified by a table
or not; quoting and escaping are abstracted, so that a name cannot be mistaken for
syntax by construction. `Evaluate` computes three-valued logic, outer joins,
the collations that fold case, the order of nulls and the errors an engine raises
for a name that is gone, a privilege that is missing, a type it does not order or two
it has no `=` for. The list and the filter show and compare the text of a column, as
the program casts it; the order and the pairs of ON take the column itself (`native`:
a number, a text, one whose collation folds case, one that is only ordered, or none of
these), so that 1 joins 1.00 and, in MySQL, a joins A. `onText` is what `build_select`
writes on the two sides of ON, a cast or not. `Outcomes` adds what an engine may refuse
as it runs a statement: Postgres a LIKE or ILIKE pattern that ends in a backslash
(22025), when it comes to that end with text left, which its plan decides. `Join` and `Filter` are
operators on parsed values: a value that is not JSON of the right shape is
`Malformed`, one past its size `Oversize`.

`ServerProperties` states what an answer promises without the operators that
compute it: rows as choices of one row per table that satisfy the filter's
conditions as runs of AND between ORs, places in the native order, pairs of ON
whose columns have the same value as what they are, keys as pairs
of columns, refusals as faults there were in some database of `seen`.

## 3. What is checked

Bounds of `Viewer`: `MaxActs` acts of the user (clicks, ticks, history steps) per behaviour,
any number of answers. Every race above needs at most two acts and the answers
to them; three or four leave room for a Back in between. Two schemas and two
tables are enough to have a scope to leave, a table that is in both and one that
is in one only. `MCView` drops how far tokens have counted, since only
comparisons with the current one are made; the runs that check temporal
properties of fair behaviours do not use it. Deadlock is not checked: a page with
every answer in and no acts left has stopped.

| run | instance | shows |
|---|---|---|
| `promise_cache` | 2 keys, 3 requests, 2 clears | an answer asked for before a clear is never stored after it (`StoredSinceClear`), callers share one request (`OneRequestPerKey`), the maps are consistent (`CacheInv`), no key stays pending for ever (`KeysComeFree`) |
| `viewer` | 1 source, 2 schemas, ticks, failing rows and restored filters, 4 acts from start-up on | `TypeOK`; `RowsMatchScope`, `StaleGridInert`, `ChipsMatchScope`, `SettledAgrees`, `NoDeadEnd`; a locked grid comes back (`GridComesBack`) |
| `viewer_sources` | 2 sources with different schemas, every route may fail, a link to a schema that is gone, 3 acts | the inductive invariant `ViewerInv`, of which `RowsMatchScope` and `StaleGridInert` are consequences; a late `/schemas` fills no selector (`SelectorMatchesSource`); while state, URL and rows differ something current is on its way (`SettleInv`, which implies `SettledAgrees`) |
| `viewer_history` | 1 schema, view transitions, links with and without a filter that may be rejected, 4 acts after start-up | the last act wins (`LastAskWins`), each step is an entry (`StepsAreEntries`), restores add none (`RestoresAddNothing`) |
| `auto_refresh` | intervals of 1 and 3, 3 failures, idle limit 4, 5 loads, switches or choices, any input and hiding | `CountdownInv`: while it is on and visible the timer is set or a fetch will set it, and at no other time; ticks supersede no load and run only while wanted (`TicksAreWanted`); it never stops for good (`TicksForEver`) and an abandoned page switches it off (`IdleSwitchesOff`) |
| `sqlite_pool` | 2 connections, 2 calls with timeouts 1 and 3, 2 host tasks, futures dropped anywhere | a query runs under its own deadline and only dropped futures leave one behind (`PoolInv`); `bounded` implements `BoundedCalls`, liveness included (`KeepsPromise`); no call keeps a connection for ever (`ConnectionsComeBack`) |
| `prefetch` | 2 sources, one without a default schema, 4 scopes that name both parameters, one or none, 5 requests, 3 calls | an answer stands in only for a request that means the same (`StandsForTheSame`), once (`UsedOnce`), and rows asked for ahead only young and after the last refresh (`AheadIsFresh`) |
| `server` | about 300 requests, one database per engine and a MariaDB, one edit, lock or failure by others | the properties below |

Bounds of `auto_refresh` and `sqlite_pool`: an interval shorter and one as long as it takes to
go idle, and as many loads as make a tick, a load that supersedes it and another
after it; two connections and two calls, so that each can get the connection the
other has left, with more or less time than the handler found there. Bounds of
`prefetch`: start-up sends four requests and makes one call; one more request and
two more calls are enough for a call to meet start-up's entry and one asked for
ahead, a refresh or an expiry between asking and taking, and a call for the other
source while start-up's entries wait for their names.

The run `server` is one property per question a client has, over every request of
`MCRequests` (every route, four sources, refusals of each kind, filters with and
without NOT over columns with nulls, joins of up to three tables, pages at their
edges):

| property | an answer |
|---|---|
| `ServerTypeOK` | is a success or a problem with a documented code |
| `OnlyListedNames` | was computed by a SELECT with no name the catalogue had not listed while the request ran |
| `VerdictsAreRight` | refuses only for a fault there was, and succeeds only where there is none; `unsortable_column` may stand for a pair of ON that Postgres has no `=` for, in a join that sorts (`adapter-decisions.md` 198) |
| `NoAccidental500` | is `database_error` only if others interfered, or for what no code of the protocol is raised for (`Unforeseen`): a pattern that ends in a lone backslash, on Postgres; a pair of ON without `=`, in a Postgres join that does not sort (`adapter-decisions.md` 198) or in MySQL between two collations (262) |
| `PageIsRight` | has the rows of that place of that filter and order, joined by the values of the columns and not by their texts, as many as are left up to the limit; `hasMore` is right |
| `LabelsTellColumnsApart` | names the columns of a join so that no value of a row is lost |
| `KeysAreTold` | tells primary keys and single-column references, and no others, under the right column |
| `ReferrersAreWhole` | tells every key that points at the table, with its columns paired in order, where the referrer is served |
| `StructureIsWhole` | tells indexes with expressions and conditions, unique, foreign and check constraints, each once |
| `ListedMeansServed` | lists the tables the gate of the other routes lets through, in order |
| `SiblingsAnswered` | gives each sibling its own outcome, in whatever order checks end |
| `EncodingIsAccepted` | is compressed only for a client that accepts it |
| `EveryRequestIsAnswered` | comes, under locks that are never released and engines that never return |

Bounds of `server`: the databases have three to six tables of at most three rows,
chosen so that each rule of the catalogue statements is met by one table that
passes it and one that does not (views, partitions, a role without SELECT, a
schema without USAGE, a key copied to a partition, a composite key, a key to
another schema, an index over an expression, a case that differs, a column
without a type). Two texts show one number and two fold to one, in columns of numbers and
of either collation that are joined; columns have types without an order and types
without an `=` to each other; patterns end in a backslash over rows with and without
text. Pages are of at most two rows (`MaxPageSize` 2) and `MaxU32` is
20, so that both sides of each limit are near. `Budget` 1: the code looks each
name up once and uses it once, so one change between two statements meets every
pair of lookup and use; a lock is released or not. Requests are followed one at a
time: handlers only read, and share nothing but `variant`, which a request may
find known or not.

`QueryTimeoutSecs` is 5: zero is no bound for Postgres and MySQL and an immediate
end for SQLite. Constraint names are unique in a schema of the databases of this
run, and no referrer is in a schema the role may not use; what happens otherwise
is below. Others drop and revoke, they do not create a table anew under the name
of one that was looked up.

`NoDeadEnd` is checked where `/tables` does not fail. After a switch whose
`/tables` failed nothing is in view, and Refresh or the filter box clears the
error and asks for nothing (`controller.ts` 226 and 235): the page then says
neither what went wrong nor what to do. No rule of the repository forbids it.

### Disagreements with the documentation

Each run below finds a behaviour that contradicts a sentence of the repository.

| run | property | behaviour |
|---|---|---|
| `viewer_source_chips` | `ChipsMatchScope` | choosing a source while a `/tables` is on its way: it passes its token test, and the old scope's tables are listed as the new scope's until the next list |
| `viewer_tick_entry` | `StepsAreEntries` | a page step whose load failed leaves the offset moved; the next tick loads it and writes it over the entry Back should return to |
| `sqlite_pool_dropped` | `HostUndisturbed` | a future dropped while its query runs leaves its deadline on the connection, and the host's own queries on that connection are aborted once it has passed, until a call of `bounded` gets it. Theorem `HostUndisturbedByBounded` says dropping is the only way |
| `server_read_only` | `ReferencesArePresent` | to a Postgres role that may read its tables and owns none, `information_schema` does not show the keys: no column is reported as a foreign key, though `/structure`, which reads `pg_constraint`, lists them |

Found on the way, with no run of their own:

- With view transitions the state names the new view from `commitRequest` on, while
  the old grid takes clicks until the callback of `startViewTransition` runs a frame
  later (`controller.ts` 278 to 318; R14 of `docs/ui-guidelines.md`: "A view switch
  never leaves controls acting on another view"). `StaleGridInert` is checked and
  proved for browsers without them.
- A chip clicked while a cross-schema step waits for its table list: the list's own
  load takes the newer token, and the older act wins (`table-chips.ts` 191).
  `LastAskWins` is checked within one schema.
- With two schemas `RestoresAddNothing` is false (`viewer_history` with
  `SchemasOf <- TwoSchemas`), though R16 says that a restore "replaces the current
  entry rather than adding one": Back to another schema, a switch from it with the
  selector, and Forward before the switch's `/tables` has answered. The chips are
  still those of the entry, so the step loads its rows at once (`view-history.ts`
  126) and supersedes loads, not lists; the switch's list then loads the restored
  view as an act of the user, and if its restored filter is rejected, the retry adds
  an entry.
- Two tables of one Postgres schema may have foreign keys of the same name;
  `key_metadata_in_tx` joins its views by schema and name alone and mixes them. For
  referrers in several schemas, "(table, constraint) is unique within one response"
  (`spec/protocol.md` 616) does not hold either, and the statement asks for SELECT on
  a referrer but not for USAGE on its schema, so drilling in may be refused.
- `select version()` of MySQL has no timer, though section 6 of the protocol bounds
  every query, and `query_timeout_secs` of 0 unbounds Postgres and MySQL.
- A SQLite page is read over several connections (`sqlite.rs` 412): a column dropped
  in between is read as a string constant, as SQLite takes a quoted name no column has.
- A Postgres table dropped and created anew between the gate and the columns answers
  with no columns, or `unknown_column`.
- A limit beyond 128 bits is refused, where the protocol says clamped, never rejected;
  a host that configures `max_page_size` 0 panics on every page (`LimitsAssumption`
  excludes it).
- A LIKE or ILIKE value that ends in a single backslash is bound as it is
  (`postgres.rs` 48, `join.rs` 624), and Postgres refuses the pattern with 22025, which
  `map_select_denied` (`postgres.rs` 579) does not know: the client gets a 500, where a
  value with a NUL, which Postgres refuses too, is `invalid_filter`, "not a raw 500"
  (`adapter-decisions.md` 95). Beside the two gaps that document accepts (198, 262) it
  is the only exception in `NoAccidental500`.
- Rows with equal sort values have no tie-break, so pages over them may overlap.
  `PageIsRight` allows it.

### Fairness

`FairSpec` assumes weak fairness of `Answers`: every request is answered or
fails, and the browser draws the frames it was asked for. `fetch` settles every
request, with an error if the connection breaks, and nothing in the page waits on
anything else. Nothing is assumed of the user, of ticks, or of which answer
comes: an answer or a failure is enough.

`AutoRefresh`: a due timer runs, time passes, and every request is answered or
fails. `TicksForEver` speaks of behaviours in which it stays on, visible and with
a table in view; that failures or idleness switch it off is their exception.

`Server`: weak fairness of the timers (`Expire` and `Busy` together), of each health
check, which has a timeout of its own, and of `Version`, the one statement without a
timer. Nothing is assumed of the engine: a request is answered though no statement
ever returns and no lock is ever released.

`SqlitePool`: time passes, a woken future runs (`SetHandler`, `Finish`), an
installed handler whose time is up interrupts its query, which SQLite checks
every 1000 opcodes, and the pool takes back a connection whose worker is free.
That a query ends by itself is not assumed, nor that a connection is ever free.

## 4. What is proved

For every value of the constants, from the named assumptions of the modules only
(`ViewerAssumption`, `OpeningAssumption`: the server's defaults are among what it
lists, a page opens on an entry of the right type; `CacheAssumption`;
`RefreshAssumption`: intervals are positive; `PoolAssumption`: calls, host tasks
and "nobody" are distinct; `PrefetchAssumption`: the default source is a source, times
to live are bounded, no name is "absent"; and of the server `SourcesAssumption`,
`DatabasesAssumption`, `CatalogueAssumption`, `RelationsAssumption`,
`RequestsAssumption`, `PositionsAssumption`, `ParametersAssumption`, `EditsAssumption`,
`RowsAssumption`, `KeysAssumption`, `LimitsAssumption`, `HostAssumption` and
`NamesAssumption`: each source has a database of a known engine,
whose finite catalogue knows a relation by one name that holds no NUL and each of its
columns by one; a table of MySQL or SQLite has a column, and SQLite denies nothing; on
Postgres who may read a table has a privilege on it; the lists in a request are
sequences and join positions and weights natural numbers; what is absent is none of
these, and only a join sorts by a position; a limit, an offset or a filter that parses
is a number or a sequence of conditions with a known operator and a value; a row has a
value or NULL for each column of its table, what a numeric column holds shows a
number, only Postgres has columns of types without an order or without `=`, and no
column of SQLite folds case; a foreign key is of one table, lists pairs of columns, is known by its name there
and names what it references, but on SQLite, where it is known by a number and may leave
the columns to the primary key; only Postgres copies keys to partitions, and it knows a
relation by its oid; edits are of the three kinds; a host's
siblings are a sequence of named entries; names are ordered).
Where the guards of a CASE overlap TLC takes the first that holds; the proofs hold
whichever is taken.
A hypothesis in the table is about a constant and is part of the theorem:

| theorem | says |
|---|---|
| `PromiseCacheProofs!CacheSafe` | `Spec => []CacheInv` |
| `PromiseCacheProofs!StoredAnswersAreFresh`, `CallersShareOneRequest` | the two safety properties of the cache |
| `ViewerProofs!ViewerTypesHold` | `Spec => []TypeOK` |
| `ViewerProofs!ViewerSafe` | `Spec => []ViewerInv` |
| `ViewerProofs!RowsAreOfTheScope` | `Spec => []RowsMatchScope` |
| `ViewerProofs!OutdatedGridIsInert` | `Spec => []StaleGridInert` on a browser without view transitions |
| `ViewerProofs!SomethingIsComing`, `RestAgrees` | `Spec => []SettleInv`, `[]SettledAgrees` |
| `ViewerProofs!SelectorIsOfTheSource` | `Spec => []SelectorMatchesSource` |
| `ViewerProofs!ChipsAreOfTheScope` | `Spec => []ChipsMatchScope` where the source never moves |
| `ViewerProofs!ThereIsAWayOn` | `Spec => []NoDeadEnd` where the source never moves and `/tables` does not fail |
| `ViewerProofs!OnlyTheUserAdds` | `Spec => []RestoresAddNothing` where the source never moves and one schema is served |
| `ViewerProofs!LastActDecides` | `PatientSpec => []LastAskWins` where, besides, start-up's list is the only one (`EntriesAreListed`) |
| `ViewerProofs!StepsKeepEntries` | in the same place, `PatientSpec => StepsAreEntries` of a page without ticks |
| `AutoRefreshProofs!CountdownSafe` | `Spec => []CountdownInv` |
| `AutoRefreshProofs!TicksWanted` | `Spec => TicksAreWanted` |
| `SqlitePoolProofs!PoolSafe` | `Spec => []PoolInv` |
| `SqlitePoolProofs!HostUndisturbedByBounded` | without dropped futures, `Spec => []HostUndisturbed` |
| `SqlitePoolProofs!BoundedKeepsPromise` | `Spec => Calls!SafeSpec`: `bounded` implements the safety part of `BoundedCalls` |
| `PrefetchProofs!StandInsMeanTheSame`, `AnswersAreUsedOnce`, `RowsAheadAreFresh` | `Spec => []StandsForTheSame`, `[]UsedOnce`, `AheadIsFresh` |
| `ServerProofs!NamesAreListed` | `Spec => []OnlyListedNames` |
| `ServerProofs!AnswersAreTyped` | `Spec => []ServerTypeOK` |
| `ServerProofs!ListsTellTheServed`, `PagesAreReadable` | `Spec => []ListedMeansServed`, `[]EncodingIsAccepted` |
| `ServerProofs!EachSiblingIsTold` | `Spec => []SiblingsAnswered` |
| `ServerVerdicts!VerdictsHold` | `Spec => []VerdictsAreRight` |
| `ServerVerdicts!EnginesNeverRefuse` | `Spec => []NoAccidental500` |
| `ServerPages!TablePagesAreRight` | `Spec => []PageIsRight` of the requests for a table's rows |
| `ServerPages!KeysAreAllTold` | `Spec => []KeysAreTold`, of tables and of joins, where the role is told of the keys (`KeysInSight`) |

`RowsMatchScope` is not inductive: nothing in it says what a load on its way
will draw. `ViewerInv` adds it in four parts. `Tokens`: a token belongs to one
call and has been taken. `SourceStays`: until `/sources` answers nothing moves
the source, and while a current `/schemas` is on its way no switch has.
`LoadsOfNow`: a load that may still commit was asked for in the scope of now, or
in one the server refuses; this is where `supersedeLoads` before every switch
that cannot wait is used, and why `/sources` and `/schemas`, which settle the
scope under loads already on their way, do no harm: the scope they settle is the
one those loads meant by leaving names out, unless the name they gave does not
exist. `GridOfItsKey`: the grid holds the rows its key names. The proof has one
step per action and one lemma per part of the invariant and handler;
`RowsMatchScope` and `StaleGridInert` follow with `Spec => []ViewerInv`.

`CountdownInv` is inductive because a page that comes back from being hidden
sets what is left of the countdown: `CountdownIsShort` says it is no more than the
interval, and `CountdownIsWanted` that whatever finds the timer set finds the
page visible. The lemmas `RestartRuns`, `ChooseRuns`, `EndRuns` and `TickRuns`
say it of `restart`, `chooseInterval`, the end of a request and `tick`; every
action is one of these or leaves the countdown alone. `PoolInv` needs
`RunsUnderOwn` (a running query's handler and its own deadline agree, which is
what makes `Abort` a `TimeOut` of `BoundedCalls`), `OneConnection` (or a handler
could be installed on a connection the call no longer means), `OutcomesAreFinal`
(a future dropped after its query ended maps to no step) and `LeaksAreDrops`,
from which `HostUndisturbedByBounded` follows.

`OnlyListedNames` is not inductive: the SELECT is built from `read`, of which it
says nothing. `IInv` of `ServerProofs` adds what each result vouches for
(`KnowledgeInv`): a list of schemas holds schemas some database of `seen` listed, a
gate that opened is a table some database served, the columns of a table were in
one. `LookedInv` says that no statement runs after a lookup that failed, `SeenInv`
that the database of now is among those seen, `JoinInv` that the join value has been
parsed and so every position in it names a table, and `BlindInv` that nothing is read
before MySQL's variant is known. The lemmas go up from results (`Vouches` of each
statement on each engine) through `TableMeta` and `Plan` to the names in the SELECT,
for tables and joins separately.

`StandsForTheSame` is inductive with the types of the entries: naming a default
leaves `Meaning` as it was because the entry meant that default (lemmas `NamedSource`
and `NamedSchema`), for `/schemas` only if it asked for the same source. `UsedOnce`
needs `SentInv` (every answer was sent for before now, so a new one is of no call)
and `AheadIsFresh` `YoungInv`, which a refresh keeps by dropping the rows asked for
ahead.

`SettledAgrees` says nothing until the page is at rest. `SettleInv` says what keeps
it going: as long as the rows, the state and the URL are not of one view, a load
with the current token will draw them, a current `/tables` or `/schemas` will ask
for it, or a failure has been reported. `RestAgrees` is its case of nothing on the
way. `SelectorFollows` says the same of the selector. The chips need that no switch
of source comes between a `/tables` and its answer: `SourceNeverMoves` (one source
is served, and `/sources` answers or no entry names one) is not for convenience, as
`viewer_source_chips` shows the violation with two. Under it `ListsInv` says that a
list that passes its token test is of the scope it is listed under, and `ViewInv`
that a page with nothing in view has a list coming, chips, an error or a schema
without tables; where `/tables` may fail the page can clear the error and be stuck,
as section 3 says. `RestoreInv` says that a load that will add an entry is one of the
user's. With two schemas that is false: see "Found on the way".

`LastAskWins` and `StepsAreEntries` are lost to any list that answers after a later
act, since a list that is current loads whatever is in view as if asked for now. So
they are proved of a user who acts once start-up is over (`PatientSpec`), where one
source and one schema are served and a list always answers: then start-up asks for
the only list (`Alone`). `AskInv` is its invariant. `StartUpAlone`: start-up is one
chain of calls, each the only one on its way, and after it every entry of the history
is of a table the chips have, so that Back asks for rows and not for a list.
`AskFollowed`: what was last asked for is in the state with nothing to replace it, or
a current load brings it there, or that load has failed. `ReplacingLoads`: a load that
replaces an entry is no act of the user's. The hypotheses are not for convenience:
TLC finds both properties violated in the instance of `viewer_history` with
`EarlyActs` on, with `SchemasOf <- TwoSchemas`, with `/tables` or `/schemas` in
`Fallible`, and with `Opening <- FirstVisit`, where `/data` may fail and leave an
entry of no table (`EntriesAreListed` excludes that); `viewer_tick_entry` shows what a
tick does to `StepsAreEntries`.

`NoAccidental500` is about an engine refusing, so the invariant `AInv` has to say
that the SELECT is one its engine takes and the database still the one it was built
for. `CalmInv`: until others interfere the database is as at the start, so every
lookup and the SELECT meet the same one. `CatalogueInv` says what edits leave of
`CatalogueAssumption`, `AskedInv` that a running handler has parsed its request,
`ColumnsInv` that columns were read in order and, off Postgres, that there are some,
and `PutInv` that the SELECT returns something, orders by a column only when asked to,
and has no operator of another engine (`WellPut`). With `IInv` of `ServerProofs` every
name in it was listed, so it resolves; what is left is a privilege, which both
backends turn into `not_readable`, and what an engine balks at (`Balks`, of the
statement). That a statement which does has the fault the property names is seen once
`FitsInv` relates it to its request (`EngineFaults`, `UnjoinableIs`), so the theorem is
among those of `ServerVerdicts`. The lemmas `Polite...` say of each fallible call
that what it refuses with is one of `Refusals`, which is most of `ServerTypeOK`.
Joined lists are concatenated by the community modules' `FlattenSeq`, a recursive
function: the library's induction theorems take an operator and cannot be used,
so `FlattenIsSeq` takes the least index at which it would go wrong (`LeastOf`, from
the well-foundedness of `<`).

The same step reaches the fold of `AcceptsGzip`: `WeighsExists` says there is a function
as its definition wants it, `WeighedSoFar` that after k codings it holds the last weights
among them, and `AcceptsByWeight` is the case of all of them. That a list is its gate
needs what ORDER BY does: `PlacesExist` counts the rows below each and finds every
place taken once (an injection of a finite set into as many places is onto), so that
`ByRankLists` has each name once and in order. `LInv` adds that a list is read once and
answers at once (`WaitedInv`), and that the schema a request leaves out is the session's
own as long as nobody interferes (`DefaultInv`). `StepIs` sorts the steps of `Next` into
six kinds, by what they do to results and answers.

For `SiblingsAnswered` the invariant `SInv` adds only that no outcome of an earlier
request is left. The work is in what is answered: `ResponseTells` takes any outcomes of
the siblings that are asked, in whatever order they came in, and `WarnedOnce` counts
the warnings, by `SecondIs` (of the places a name is listed at, exactly one is the
second, where there are two) and `FlattenHolds` (a concatenation holds an entry once
when one of its parts does and the others lack it).

`VerdictsAreRight` has two halves, which need different things of what was read.
`RefusedForAReason` has to find the database a refusal is about, and there may have
been several. What others do only takes away, so every database of `seen` descends
from the one at the start (`OriginInv`), and that one had all the names any of them
has. Each result is what one of `seen` had, said exactly and not only by inclusion
as in `KnowledgeInv` (`FoundInv`): a column that is missing in the result is missing
in that database. A pair of columns of two results has no one database, since an edit
may have come between them; but nothing edits the type of a column, so a pair that may
not be compared may not be in the first database either (`ComparedIs`). For what
the engine denies of the SELECT itself, `FitsInv` says that it names the tables,
filters, pairs and order of the request and nothing else. `AnsweredFaultless` goes the other
way: from an answer that nothing met back to the absence of every fault, one `Faulty`
code at a time. `PassedInv` says that the extractors passed, `BuiltInv` that a SELECT
exists only where each check before it found nothing, and `SelectedInv` that rows were
had only where the engine found nothing either. The lemmas `...Just` take the
fallible calls in the order the code makes them: each refuses with a reason, and what
passed it is located (`ColumnsLocated`, `PairsLocated`, `AllLocated`).

The proof found the property wrong as it was first stated and checked. It said that a
position that names no table hides every fault of a column, but the code answers with
the fault it meets first: a join whose sort names no table is refused with
`unknown_column` when a column it filters by is missing, since filters are resolved
before the order. TLC had not met this because the instance had no request with both
faults; two such joins are now among the requests of `MCServer`.

`PageIsRight` of a table compares what the code gets by building one SELECT with what
the request means, said of the rows directly: a filter is a list of runs between two
ORs, of which one has to hold whole; the page is the rows that pass, by the rank of
their sort value, from the offset up to the limit. What the invariant adds is little:
`SuitInv` says that the SELECT is the one the request asks for, spelled in the columns
that were read, and `ResultInv` that its result is what an undisturbed database has for
it. `SelectSuits` takes the request through `Plan` to the statement. From there the
proof follows the engine. `ClauseKeeps`: the terms of the WHERE, which are added and
multiplied in three values from left to right (`FoldAdds`), keep the rows of which a
run holds, and no row for which the clause is unknown; `TermIs` says of one condition,
negated or not, on each engine, that it is true where the condition `Meets` the value,
NULL and the case of LIKE included. `SortRankIs`: the key the ORDER BY of that engine
puts two rows in order by is the one the type of the column has, in both directions and
with the NULLs at the end that engine keeps them. `PlacesList` counts what stands below
each row in an order and finds every place taken once, so that in the ordered result
(`OrderedIs`) no more rows rank below a row than stand before it, and no more rank above
it than stand after it. `PageShows` cuts LIMIT and OFFSET out of that, and `RowsTold`
takes the rows through `row_to_json` to the names of their columns.

`KeysAreTold` is about the answer, and the answer is built from results of several
statements: the columns, on SQLite the primary key, the keys. `KeysInv` says that
each of them is of the database the request began with, if nothing met it, and
`PlanInv` that a SELECT exists only once every table is described and, for a join, its
plan stands. The plan is computed again when the answer is made, from results that may
have grown since, so `PlanStands` shows that it is the same one. `KeysRight` compares
what the statements find with the catalogue: on Postgres they join three views of
`information_schema` by the names of constraints, on MySQL two, and SQLite's pragma leaves
out the column of a key that means the parent's primary key. It needs `KeysInSight`, which
says what the Postgres views show a role: the keys of the tables it owns, to tables it
owns, by names that no two constraints of a schema share (the hazard at
`postgres.rs:506`), and of SQLite that a key which names no column has a primary key to
mean. That this is no formality the run `server_read_only` shows: a role that owns
nothing is told of no reference. `MCServer` assumes it of its own databases, so TLC
evaluates it there.

TLC runs the same formulas first: `ViewerInv` and `SettleInv` in `viewer_sources`,
`TypeOK` and the properties in `viewer`, `viewer_history` and `server`; the other parts
of the invariants were run on the same instances before they were proved.

Only model-checked:

- Liveness (`KeysComeFree`, `GridComesBack`, `TicksForEver`, `IdleSwitchesOff`,
  `ConnectionsComeBack`, `EveryRequestIsAnswered` and the fair part of `BoundedCalls`),
  which is beyond the prover.
- Of joins, `PageIsRight` and `LabelsTellColumnsApart`: their labels are strings put
  together, of which the provers know nothing, and their rows come from a fold over
  the joined tables whose every step joins all rows so far.
- `ReferrersAreWhole` and `StructureIsWhole`: not tried yet. No limit of the provers is
  known to stand in their way, but both merge rows in a fold, which costs an argument by
  least counterexample for each.

## 5. Plan

Done: `Viewer`, the core of the page, since every other part of it acts through it;
`SqlitePool` with the abstract `BoundedCalls` it implements; `AutoRefresh`;
`Prefetch`; the server from `Wire` to the three engines.

Next, in this order:

1. Proofs: `ReferrersAreWhole` and `StructureIsWhole`, by extending `KeysInv` of
   `ServerPages` to the results they answer with.
2. The poll of the siblings and the metadata loads of the page with their identity
   guards, as instances of an abstract "latest of its key wins" that the three
   tokens of `Viewer` implement too.
3. Sort order and joins as views of `Viewer`.

## 6. Not modelled, and why

- Of the server: quoting and escaping of names and values (a name is a value, and
  cannot become syntax); spellings of types, comments, texts of errors, check
  constraints beyond their names; the `enabled` switch, response headers and the
  mount of the adapters; two adapters in two frameworks that do the same, of which one
  stands for both.
- Of the page: sort order, hidden columns, the text of filters and their completion,
  the join dialog, cells and headers, the poll of `features/siblings.ts`, and
  `features/table-meta.ts`, whose loads are shared through `PromiseCache` and whose
  late answers change marks on columns only.
- The ports to Go, Node, Python and Kotlin, which re-implement the same protocol from
  the same document and are compared with it by the conformance runner; that runner;
  the generator of its databases; the demos.
- A page that Back reloads before start-up has settled: it begins a behaviour of its
  own.
