------------------------------ MODULE Prefetch ------------------------------
(***************************************************************************)
(* Requests sent ahead: frontend/src/core/api.ts, with what start-up sends *)
(* (bootstrap/boot-prefetch.ts) and names (features/scope-select.ts).  The *)
(* rest of the page is whoever calls api(), for whatever and whenever.     *)
(*                                                                         *)
(* A request is its route and parameters: [route, source, schema, view];   *)
(* view stands for the table, page, sort and filter of /tables/data.       *)
(* /table-counts is asked for wherever /tables is, and goes the same way.  *)
(***************************************************************************)
EXTENDS Naturals, Sequences, FiniteSetsExt

CONSTANTS
    None,           \* the parameter is left out; no entry
    Sources,        \* the names of the server's sources
    DefaultSource,  \* what a request without source means
    DefaultSchema,  \* DefaultSchema[s]: one without schema means; None: an error
    Scopes,         \* the scopes the page is in: [source, schema], None: default
    Views,          \* the views of a table's rows
    Ttls,           \* how long an answer asked for ahead is good for
    MaxFetches,     \* bound: requests sent
    MaxCalls,       \* bound: calls of api()
    MaxTime         \* bound: the clock

ASSUME PrefetchAssumption ==
    /\ DefaultSource \in Sources
    /\ DOMAIN DefaultSchema = Sources
    /\ None \notin Sources \cup Views \cup {"boot", "view"}
    /\ Ttls \subseteq Nat
    /\ \E t \in Ttls : \A u \in Ttls : u <= t

VARIABLES
    prefetched, \* the entries: [kind, key, expires, at, fetch]; at: ghost
    calls,      \* the calls of api(), in order: [key, fetch, ahead],
                \* and [fetch, ahead, end] once they have ended
    sent,       \* how many requests were sent; a fetch is [id, request]
    now,        \* performance.now()
    starting,   \* the start-up sequence of main.ts has not ended
    refreshed   \* ghost: how many requests were sent before the last refresh

vars == <<prefetched, calls, sent, now, starting, refreshed>>

Routes == {"/sources", "/schemas", "/tables", "/tables/data"}
Ask(route, scope, view) ==
    [route |-> route, source |-> scope.source, schema |-> scope.schema, view |-> view]
SourceQuery(scope) == Ask("/schemas", [source |-> scope.source, schema |-> None], None)
ScopeQuery(scope) == Ask("/tables", scope, None)
TableDataPath(scope, view) == Ask("/tables/data", scope, view)
Outcomes == {"ok", "refused", "failed"}
Requests ==
    UNION {{SourceQuery(scope), ScopeQuery(scope)} \cup {TableDataPath(scope, v) : v \in Views} :
           scope \in Scopes}

(* What the server takes a request to mean: Server.tla's ResolveSource and *)
(* DefaultSchema.                                                          *)
Meaning(r) ==
    LET source == IF r.source = None THEN DefaultSource ELSE r.source
        default == IF source \in Sources THEN DefaultSchema[source] ELSE None
    IN [route |-> r.route,
        source |-> IF r.route = "/sources" THEN None ELSE source,
        schema |-> IF r.route \in {"/sources", "/schemas"} THEN None
                   ELSE IF r.schema = None THEN default ELSE r.schema,
        view |-> r.view]

-----------------------------------------------------------------------------
(* The entries.                                                            *)

(* mutant: what is there is good *)
KeepExpired(entries) == entries

Never == MaxTime + Max(Ttls) + 1    \* Number.POSITIVE_INFINITY
DropExpired(entries) == {p \in entries : p.expires > now}
OfKind(entries, kind) == {p \in entries : p.kind = kind}

(* mutant: a default is named whatever source a request is for *)
NamedEverywhere(entries, param, value, among) ==
    {IF p.kind # "boot" \/ p.key[param] # None \/ value = None THEN p
     ELSE [p EXCEPT !.key[param] = value] : p \in entries}

(* nameStartupDefault: among is the parameter, if any, an entry must carry *)
(* exactly.                                                                *)
NameStartupDefault(entries, param, value, among) ==
    {IF \/ p.kind # "boot" \/ p.key[param] # None \/ value = None
        \/ \E name \in DOMAIN among : p.key[name] # among[name]
     THEN p
     ELSE [p EXCEPT !.key[param] = value] : p \in entries}

Fetch(r) == [id |-> sent + 1, request |-> r]
Call(r, fetch, ahead) == [key |-> r, fetch |-> fetch, ahead |-> ahead]
Ended(call) == "end" \in DOMAIN call

First(p, entries) == \A q \in entries : p.fetch.id <= q.fetch.id

(* mutant: an answer stays where it is found *)
TakeAndKeep(entries, r) ==
    LET good == DropExpired(entries)
        matches == {p \in good : p.key = r}
    IN /\ Len(calls) < MaxCalls
       /\ prefetched' = good
       /\ \/ /\ matches = {} /\ sent < MaxFetches
             /\ sent' = sent + 1
             /\ calls' = Append(calls, Call(r, Fetch(r), None))
          \/ \E found \in matches :
             /\ First(found, matches)
             /\ sent' = sent
             /\ calls' = Append(calls, Call(r, found.fetch, found.kind))

(* api() up to its first await: the first entry with the request's key is  *)
(* taken, or the request is sent.                                          *)
Api(entries, r) ==
    LET good == DropExpired(entries)
        matches == {p \in good : p.key = r}
    IN /\ Len(calls) < MaxCalls
       /\ \/ /\ matches = {} /\ sent < MaxFetches
             /\ prefetched' = good
             /\ sent' = sent + 1
             /\ calls' = Append(calls, Call(r, Fetch(r), None))
          \/ \E found \in matches :
             /\ First(found, matches)
             /\ prefetched' = good \ {found}
             /\ sent' = sent
             /\ calls' = Append(calls, Call(r, found.fetch, found.kind))

-----------------------------------------------------------------------------
(* Start-up sends what the scope and view of the URL, or of storage, need, *)
(* and asks for the sources.                                               *)
StartUp(scope, view) ==
    <<Ask("/sources", [source |-> None, schema |-> None], None), SourceQuery(scope),
      ScopeQuery(scope)>>
    \o IF view = None THEN <<>> ELSE <<TableDataPath(scope, view)>>
Init ==
    \E scope \in Scopes, view \in Views \cup {None} :
        LET ahead == StartUp(scope, view)
            fetch(i) == [id |-> i, request |-> ahead[i]]
        IN /\ prefetched = {[kind |-> "boot", key |-> ahead[i], expires |-> Never,
                             at |-> 0, fetch |-> fetch(i)] : i \in DOMAIN ahead \ {1}}
           /\ calls = <<Call(ahead[1], fetch(1), "boot")>>
           /\ sent = Len(ahead)
           /\ now = 0 /\ starting = TRUE /\ refreshed = 0

(* A chip the pointer rests on, and the page after the one Next opened.    *)
AskAhead(r, ttl) ==
    LET good == DropExpired(prefetched)
    IN /\ r.route = "/tables/data"
       /\ IF \E p \in good : p.key = r
          THEN prefetched' = good /\ sent' = sent
          ELSE /\ sent < MaxFetches /\ sent' = sent + 1
               /\ prefetched' = good \cup {[kind |-> "view", key |-> r, expires |-> now + ttl,
                                            at |-> now, fetch |-> Fetch(r)]}
       /\ UNCHANGED <<calls, now, starting, refreshed>>

(* The page needs an answer: a load, a table list, another source.         *)
Load(r) == Api(prefetched, r) /\ UNCHANGED <<now, starting, refreshed>>

(* mutant: Refresh leaves what was asked for ahead of it *)
RefreshOnly(r) ==
    /\ r.route = "/tables/data"
    /\ refreshed' = sent
    /\ Api(prefetched, r)
    /\ UNCHANGED <<now, starting>>

(* Refresh and the ticks of auto-refresh drop the rows asked for ahead.    *)
Refresh(r) ==
    /\ r.route = "/tables/data"
    /\ refreshed' = sent
    /\ Api(prefetched \ OfKind(prefetched, "view"), r)
    /\ UNCHANGED <<now, starting>>

(* What the callers do with the names that an answer of theirs reports.    *)
Reported(r) ==
    LET source == Meaning(r).source
        default == IF source \in Sources THEN DefaultSchema[source] ELSE None
    IN CASE r.route = "/sources" ->
                NameStartupDefault(prefetched, "source", DefaultSource, <<>>)
         [] r.route = "/schemas" ->
                NameStartupDefault(prefetched, "schema", default, [source |-> r.source])
         [] OTHER -> prefetched

(* mutant: the failure of a request sent ahead is its caller's *)
NeverAgain(c, outcome) == FALSE

(* The user's own action asks again for what failed when it was asked for  *)
(* ahead; a failure of start-up's requests is the caller's.                *)
AskAgain(c, outcome) == calls[c].ahead = "view" /\ outcome = "failed"

(* The answer, a refusal (a status below 500) or a failure comes to the    *)
(* call that awaits it.                                                    *)
Answer(c, outcome) ==
    /\ ~Ended(calls[c])
    /\ IF AskAgain(c, outcome)
       THEN /\ sent' = sent + 1
            /\ calls' = [calls EXCEPT ![c] = Call(@.key, Fetch(@.key), None)]
            /\ UNCHANGED prefetched
       ELSE /\ calls' = [calls EXCEPT ![c] =
                            [fetch |-> [id |-> @.fetch.id], ahead |-> @.ahead,
                             end |-> IF outcome = "failed" THEN outcome ELSE "answered"]]
            /\ prefetched' = IF outcome = "ok" THEN Reported(calls[c].key) ELSE prefetched
            /\ UNCHANGED sent
    /\ UNCHANGED <<now, starting, refreshed>>

(* The end of start-up, however it went.                                   *)
SettleStartUp ==
    /\ starting /\ starting' = FALSE
    /\ prefetched' = prefetched \ OfKind(prefetched, "boot")
    /\ UNCHANGED <<calls, sent, now, refreshed>>

Pass ==
    /\ now < MaxTime /\ now' = now + 1
    /\ UNCHANGED <<prefetched, calls, sent, starting, refreshed>>

Next ==
    \/ \E r \in Requests : Load(r) \/ Refresh(r) \/ \E ttl \in Ttls : AskAhead(r, ttl)
    \/ \E c \in DOMAIN calls, outcome \in Outcomes : Answer(c, outcome)
    \/ SettleStartUp \/ Pass

Spec == Init /\ [][Next]_vars

-----------------------------------------------------------------------------
(* Safety: an answer stands in only for a request that means the same: for *)
(* start-up's, that left names out, though the defaults are named when     *)
(* they are known, for whichever source and however late (api.ts, "the     *)
(* first api() call for the same request").                                *)
StandsForTheSame ==
    /\ \A p \in prefetched : Meaning(p.key) = Meaning(p.fetch.request)
    /\ \A c \in DOMAIN calls :
        ~Ended(calls[c]) => Meaning(calls[c].key) = Meaning(calls[c].fetch.request)

(* Safety: "Each answer is used at most once" (api.ts): no two calls, and  *)
(* no call and an entry, ever have the same.                               *)
UsedOnce ==
    /\ \A c, e \in DOMAIN calls : calls[c].fetch.id = calls[e].fetch.id => c = e
    /\ \A p \in prefetched :
        /\ \A c \in DOMAIN calls : calls[c].fetch.id # p.fetch.id
        /\ \A q \in prefetched : p.fetch.id = q.fetch.id => p = q

(* Action property: rows asked for ahead are taken only while they are     *)
(* young, and never by a refresh or after one (R10 of ui-guidelines.md);   *)
(* and no call ends with their failure.                                    *)
FreshStep ==
    \A c \in DOMAIN calls' : calls'[c].ahead = "view" =>
        /\ c \notin DOMAIN calls =>
            /\ calls'[c].fetch.id > refreshed'
            /\ \A p \in prefetched : p.fetch = calls'[c].fetch => now - p.at < Max(Ttls)
        /\ Ended(calls'[c]) => calls'[c].end # "failed"
AheadIsFresh == [][FreshStep]_vars
=============================================================================
